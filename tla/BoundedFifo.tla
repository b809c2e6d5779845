----------------------------- MODULE BoundedFifo -----------------------------
(***************************************************************************)
(* What the single-producer single-consumer queues of ntopng promise to    *)
(* their two threads: a bounded FIFO.  An accepted item is delivered once, *)
(* in the order of acceptance, and an item is refused only when the queue  *)
(* really is (almost) full.  SPSCQueue.tla implements this specification.  *)
(***************************************************************************)
EXTENDS Naturals, Sequences

CONSTANTS Items,       \* the values that can be queued
          NoItem,      \* what the consumer holds before the first delivery
          Capacity,    \* no more items than this are ever queued
          RefuseAt,    \* with fewer queued items an item is never refused
          CounterMod   \* modulus of the counter of the refused items

VARIABLES q,           \* the accepted items that were not delivered yet
          out,         \* the last item delivered to the consumer
          refused      \* how many items were refused

vars == <<q, out, refused>>

Init == /\ q = <<>>
        /\ out = NoItem
        /\ refused = 0

\* The producer's item is accepted.
Accept(item) == /\ Len(q) < Capacity
                /\ q' = Append(q, item)
                /\ UNCHANGED <<out, refused>>

\* The producer's item is turned down, and counted.
Refuse == /\ Len(q) >= RefuseAt
          /\ refused' = (refused + 1) % CounterMod
          /\ UNCHANGED <<q, out>>

\* The consumer takes the oldest accepted item.
Deliver == /\ q # <<>>
           /\ out' = Head(q)
           /\ q' = Tail(q)
           /\ UNCHANGED refused

Next == (\E item \in Items : Accept(item)) \/ Refuse \/ Deliver

Spec == Init /\ [][Next]_vars
==============================================================================
