----------------------------- MODULE MCSPSCQueue -----------------------------
(* Small instances of SPSCQueue for TLC. *)
EXTENDS SPSCQueue, TLC

BothFlushes == {TRUE, FALSE}
OnlyFlush == {TRUE}
\* The code compares no items, so they are interchangeable.
ItemSymmetry == Permutations(Items)
==============================================================================
