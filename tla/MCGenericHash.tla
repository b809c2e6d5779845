---------------------------- MODULE MCGenericHash ----------------------------
(* Small instances of GenericHash for TLC. *)
EXTENDS GenericHash, TLC

FlowStates == {allocated, notyetdetected}
HostStates == {active}
\* Entries differ in their state only.
EntrySymmetry == Permutations(Entries)
==============================================================================
