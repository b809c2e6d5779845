----------------------------- MODULE MCFlowDump -----------------------------
(* Small instances of FlowDump for TLC. *)
EXTENDS FlowDump, TLC

\* Flows differ in their state only.
FlowSymmetry == Permutations(Flows)
=============================================================================
