-------------------------- MODULE SPSCQueue_proofs ---------------------------
(***************************************************************************)
(* Proofs about the lock-free ring of SPSCQueue.tla, for every queue size, *)
(* every watermark and every set of items: its safety, and that it         *)
(* implements the bounded FIFO of BoundedFifo.tla.                         *)
(***************************************************************************)
EXTENDS SPSCQueue, SequenceTheorems, TLAPS

------------------------------------------------------------------------------
(***************************************************************************)
(* Arithmetic on the ring.                                                 *)
(***************************************************************************)

\* The arithmetic facts about the constants.
LEMMA SizeFact == /\ Size \in Nat /\ Size >= 4
                  /\ Watermark \in Nat /\ Watermark >= 1 /\ Watermark <= Size
  BY QueueAssumption DEF QueueAssumption

\* A step along the ring stays on it, and so does a shift.
LEMMA RingTypes ==
  ASSUME NEW i \in Index, NEW j \in Index, NEW k \in 0 .. Size
  PROVE  After(i) \in Index /\ Dist(i, j) \in Index /\ Shift(i, k) \in Index
  BY SizeFact DEF Index, After, Dist, Shift

\* The distance is zero only from a slot to itself.
LEMMA DistZero ==
  ASSUME NEW i \in Index, NEW j \in Index
  PROVE  Dist(i, j) = 0 <=> i = j
  BY SizeFact DEF Index, Dist

\* The distance is maximal only to the slot just before.
LEMMA DistFull ==
  ASSUME NEW i \in Index, NEW j \in Index
  PROVE  Dist(i, j) = Size - 1 <=> i = After(j)
  BY SizeFact DEF Index, Dist, After

\* Moving the far end one slot on adds one.
LEMMA DistFar ==
  ASSUME NEW i \in Index, NEW j \in Index, Dist(i, j) < Size - 1
  PROVE  Dist(i, After(j)) = Dist(i, j) + 1
  BY SizeFact DEF Index, Dist, After

\* Moving the near end one slot on takes one away.
LEMMA DistNear ==
  ASSUME NEW i \in Index, NEW j \in Index, i # j
  PROVE  Dist(After(i), j) = Dist(i, j) - 1
  BY SizeFact DEF Index, Dist, After

\* Distances add up, as long as they do not go around the whole ring.
LEMMA DistAdd ==
  ASSUME NEW i \in Index, NEW j \in Index, NEW l \in Index,
         Dist(i, j) + Dist(After(j), l) <= Size - 2
  PROVE  Dist(i, l) = Dist(i, j) + 1 + Dist(After(j), l)
  BY SizeFact DEF Index, Dist, After

\* Shifting from the next slot is shifting by one more.
LEMMA ShiftAfter ==
  ASSUME NEW i \in Index, NEW k \in 0 .. Size - 1
  PROVE  Shift(After(i), k) = Shift(i, k + 1)
  BY SizeFact DEF Index, Shift, After

\* The slot reached by shifting over a distance is the far end.
LEMMA ShiftDist ==
  ASSUME NEW i \in Index, NEW j \in Index
  PROVE  Shift(i, Dist(After(i), j) + 1) = j
  BY SizeFact DEF Index, Shift, After, Dist

\* Different shifts reach different slots.
LEMMA ShiftInjective ==
  ASSUME NEW i \in Index, NEW k \in 1 .. Size, NEW l \in 1 .. Size,
         Shift(i, k) = Shift(i, l)
  PROVE  k = l
  BY SizeFact DEF Index, Shift

------------------------------------------------------------------------------
(***************************************************************************)
(* The inductive invariant.                                                *)
(***************************************************************************)

\* Slots in use, slots released but not yet published as free, and one slot
\* of separation fit in the ring; an enqueue that passed its room check still
\* has the slot it is going to write.
Room == /\ Lag + Used <= Size - 2
        /\ p_pc = "write" => Lag + Used <= Size - 3

\* The published head never runs ahead of the producer.
HeadBehind == Dist(After(shadow_tail), head) <= Used

\* A consumer inside dequeue() has an item to take.
ItemToTake == /\ c_pc \in {"dequeue", "advance"} => isNotEmpty
              /\ c_pc # "thrown"

\* Every slot in use was written.
Stored == /\ \A k \in 1 .. Used : queue[Shift(shadow_tail, k)] \in Items
          /\ p_pc = "write" => p_item \in Items

IInv == TypeOK /\ Room /\ HeadBehind /\ ItemToTake /\ Stored

\* The invariant holds in the state the constructor builds.
LEMMA InitIInv == Init => IInv
  <1> SUFFICES ASSUME Init PROVE IInv
    OBVIOUS
  <1> USE SizeFact
  <1>1. /\ tail = Size - 1 /\ shadow_tail = Size - 1
        /\ head = 0 /\ shadow_head = 0
        /\ queue = [i \in Index |-> NoItem]
        /\ p_pc = "idle" /\ c_pc = "idle"
    BY DEF Init
  <1>2. TypeOK
    <2>1. {shadow_head, head, tail, shadow_tail} \subseteq Index
      BY <1>1 DEF Index
    <2>2. /\ num_failed_enqueues \in 0 .. CounterMod - 1
          /\ queue \in [Index -> Items \cup {NoItem}]
      BY QueueAssumption, <1>1 DEF QueueAssumption, Init
    <2>3. predicate \in BOOLEAN /\ p_flush \in BOOLEAN
      BY Zenon DEF Init
    <2> QED BY <2>1, <2>2, <2>3 DEF TypeOK, Init
  <1>3. Used = 0 /\ Lag = 0 /\ Dist(After(shadow_tail), head) = 0
    <2>1. After(shadow_tail) = 0
      BY <1>1 DEF After
    <2>2. Dist(0, 0) = 0 /\ Dist(Size - 1, Size - 1) = 0
      BY DEF Dist
    <2> QED BY <1>1, <2>1, <2>2 DEF Used, Lag
  <1>4. Room /\ HeadBehind
    BY <1>1, <1>3 DEF Room, HeadBehind
  <1>5. ItemToTake /\ Stored
    BY <1>1, <1>3 DEF ItemToTake, Stored
  <1> QED BY <1>2, <1>4, <1>5 DEF IInv

\* Every step of either thread preserves the type invariant.
LEMMA TypeStep == TypeOK /\ [Next]_vars => TypeOK'
  <1> SUFFICES ASSUME TypeOK, [Next]_vars PROVE TypeOK'
    OBVIOUS
  <1> USE QueueAssumption DEF QueueAssumption, TypeOK, Index
  <1>1. ASSUME NEW item \in Items, NEW flush \in Flushes,
               EnqueueRoom(item, flush)
        PROVE  TypeOK'
    BY <1>1 DEF EnqueueRoom, consumerVars
  <1>2. CASE EnqueueNoRoom
    BY <1>2 DEF EnqueueNoRoom, consumerVars
  <1>3. CASE EnqueueWrite
    BY <1>3 DEF EnqueueWrite, consumerVars, After
  <1>4. CASE EnqueuePublish
    BY <1>4 DEF EnqueuePublish, consumerVars
  <1>5. CASE ConsumerCheck
    BY <1>5 DEF ConsumerCheck, producerVars
  <1>6. CASE DequeueCopy
    BY <1>6 DEF DequeueCopy, producerVars, After
  <1>7. CASE DequeueAdvance
    BY <1>7 DEF DequeueAdvance, producerVars, After
  <1>8. CASE WaitBegin \/ WaitEnd
    BY <1>8 DEF WaitBegin, WaitEnd, producerVars
  <1>9. CASE UNCHANGED vars
    BY <1>9 DEF vars
  <1> QED BY <1>1, <1>2, <1>3, <1>4, <1>5, <1>6, <1>7, <1>8, <1>9
          DEF Next, EnqueueSteps, DequeueSteps

\* The types of the indices, for the arithmetic lemmas.
LEMMA IndexTypes ==
  ASSUME TypeOK
  PROVE  /\ shadow_head \in Index /\ head \in Index
         /\ tail \in Index /\ shadow_tail \in Index
         /\ After(shadow_tail) \in Index /\ After(shadow_head) \in Index
         /\ Lag \in Index /\ Used \in Index
         /\ Dist(After(shadow_tail), head) \in Index
  <1>1. /\ shadow_head \in Index /\ head \in Index
        /\ tail \in Index /\ shadow_tail \in Index
    BY DEF TypeOK
  <1>2. 0 \in 0 .. Size
    BY SizeFact
  <1>3. After(shadow_tail) \in Index /\ After(shadow_head) \in Index
    BY <1>1, <1>2, RingTypes
  <1> QED BY <1>1, <1>2, <1>3, RingTypes DEF Lag, Used

\* The producer's steps preserve the invariant.
LEMMA ProducerStep ==
  ASSUME IInv, TypeOK',
         \/ \E item \in Items, flush \in Flushes : EnqueueRoom(item, flush)
         \/ EnqueueNoRoom \/ EnqueueWrite \/ EnqueuePublish
  PROVE  IInv'
  <1> USE SizeFact, IndexTypes DEF Index
  <1>0. TypeOK /\ Room /\ HeadBehind /\ ItemToTake /\ Stored
    BY DEF IInv
  <1>1. CASE EnqueueNoRoom
    BY <1>0, <1>1 DEF EnqueueNoRoom, consumerVars, IInv, Room, HeadBehind,
       ItemToTake, Stored, Lag, Used, isNotEmpty
  <1>2. ASSUME NEW item \in Items, NEW flush \in Flushes,
               EnqueueRoom(item, flush)
        PROVE  IInv'
    <2>1. Lag' = Lag /\ Used' = Used
      BY <1>2 DEF EnqueueRoom, consumerVars, Lag, Used
    <2>2. Lag + Used # Size - 2
      <3>1. SUFFICES ASSUME Lag + Used = Size - 2 PROVE FALSE
        OBVIOUS
      <3>2. Dist(tail, shadow_head) = Size - 1
        BY <1>0, <3>1, DistAdd DEF Lag, Used
      <3> QED BY <1>0, <1>2, <3>2, DistFull DEF EnqueueRoom, isFull
    <2>3. Room'
      BY <1>0, <2>1, <2>2 DEF Room
    <2> QED BY <1>0, <1>2, <2>1, <2>3 DEF EnqueueRoom, consumerVars, IInv,
               HeadBehind, ItemToTake, Stored, isNotEmpty
  <1>3. CASE EnqueueWrite
    <2>0. /\ p_pc = "write" /\ p_pc' = "publish"
          /\ queue' = [queue EXCEPT ![shadow_head] = p_item]
          /\ shadow_head' = After(shadow_head)
          /\ UNCHANGED <<head, tail, shadow_tail, c_pc, p_item>>
      BY <1>3 DEF EnqueueWrite, consumerVars
    <2>1. Lag' = Lag /\ Used' = Used + 1
      BY <1>0, <2>0, DistFar DEF Room, Lag, Used
    <2>2. Room'
      BY <1>0, <2>0, <2>1 DEF Room
    <2>3. HeadBehind'
      BY <1>0, <2>0, <2>1 DEF HeadBehind
    <2>4. ItemToTake'
      BY <1>0, <2>0 DEF ItemToTake, isNotEmpty
    <2>5. Stored'
      <3>1. queue \in [Index -> Items \cup {NoItem}] /\ p_item \in Items
        BY <1>0, <2>0 DEF TypeOK, Stored
      <3>2. Shift(shadow_tail, Used + 1) = shadow_head
        BY <1>0, ShiftDist DEF Used
      <3>3. ASSUME NEW k \in 1 .. Used + 1
            PROVE  queue'[Shift(shadow_tail, k)] \in Items
        <4>1. CASE k = Used + 1
          BY <1>0, <2>0, <3>1, <3>2, <4>1
        <4>2. CASE k # Used + 1
          <5>1. k \in 1 .. Used
            BY <1>0, <4>2
          <5>2. Shift(shadow_tail, k) \in Index
            BY <1>0, <5>1, RingTypes
          <5>3. Shift(shadow_tail, k) # shadow_head
            BY <1>0, <3>2, <4>2, <5>1, ShiftInjective DEF Room
          <5> QED BY <1>0, <2>0, <3>1, <5>1, <5>2, <5>3 DEF Stored
        <4> QED BY <4>1, <4>2
      <3> QED BY <2>0, <2>1, <3>3 DEF Stored
    <2> QED BY <2>2, <2>3, <2>4, <2>5 DEF IInv
  <1>4. CASE EnqueuePublish
    <2>0. /\ p_pc' = "idle" /\ (head' = head \/ head' = shadow_head)
          /\ UNCHANGED <<shadow_head, queue, tail, shadow_tail, c_pc, p_item>>
      BY <1>4 DEF EnqueuePublish, consumerVars
    <2>1. Lag' = Lag /\ Used' = Used
      BY <2>0 DEF Lag, Used
    <2>2. Room' /\ HeadBehind' /\ Stored'
      BY <1>0, <2>0, <2>1 DEF Room, HeadBehind, Stored, Used
    <2>3. ItemToTake'
      <3>1. CASE c_pc \notin {"dequeue", "advance"}
        BY <1>0, <2>0, <3>1 DEF ItemToTake
      <3>2. CASE c_pc \in {"dequeue", "advance"}
        <4>1. Dist(After(shadow_tail), head) # 0
          BY <1>0, <3>2, DistZero DEF ItemToTake, isNotEmpty
        <4>2. Used # 0
          BY <1>0, <4>1 DEF HeadBehind
        <4>3. After(shadow_tail) # shadow_head
          BY <1>0, <4>2, DistZero DEF Used
        <4> QED BY <1>0, <2>0, <4>3 DEF ItemToTake, isNotEmpty
      <3> QED BY <3>1, <3>2
    <2> QED BY <2>2, <2>3 DEF IInv
  <1> QED BY <1>1, <1>2, <1>3, <1>4

\* The consumer's steps preserve the invariant.
LEMMA ConsumerStep ==
  ASSUME IInv, TypeOK',
         \/ ConsumerCheck \/ DequeueCopy \/ DequeueAdvance
         \/ WaitBegin \/ WaitEnd
  PROVE  IInv'
  <1> USE SizeFact, IndexTypes DEF Index
  <1>0. TypeOK /\ Room /\ HeadBehind /\ ItemToTake /\ Stored
    BY DEF IInv
  <1>1. CASE ConsumerCheck \/ DequeueCopy \/ WaitBegin \/ WaitEnd
    <2>0. UNCHANGED <<shadow_head, head, tail, shadow_tail, queue, p_pc, p_item>>
      BY <1>1 DEF ConsumerCheck, DequeueCopy, WaitBegin, WaitEnd, producerVars
    <2>1. Room' /\ HeadBehind' /\ Stored'
      BY <1>0, <2>0 DEF Room, HeadBehind, Stored, Lag, Used
    <2>2. ItemToTake'
      BY <1>0, <1>1, <2>0 DEF ItemToTake, isNotEmpty, ConsumerCheck,
         DequeueCopy, WaitBegin, WaitEnd
    <2> QED BY <2>1, <2>2 DEF IInv
  <1>2. CASE DequeueAdvance
    <2>0. /\ c_pc = "advance" /\ c_pc' = "idle"
          /\ shadow_tail' = After(shadow_tail)
          /\ tail' = tail \/ tail' = After(shadow_tail)
          /\ UNCHANGED <<shadow_head, head, queue, p_pc, p_item>>
      BY <1>2 DEF DequeueAdvance, producerVars
    <2>1. Dist(After(shadow_tail), head) # 0
      BY <1>0, <2>0, DistZero DEF ItemToTake, isNotEmpty
    <2>2. Used # 0 /\ After(shadow_tail) # shadow_head
      BY <1>0, <2>1, DistZero DEF HeadBehind, Used
    <2>3. Used' = Used - 1
      BY <1>0, <2>0, <2>2, DistNear DEF Used
    <2>4. Lag' = Lag + 1 \/ Lag' = 0
      <3>1. CASE tail' = tail
        BY <1>0, <2>0, <2>2, <3>1, DistFar DEF Room, Lag
      <3>2. CASE tail' = After(shadow_tail)
        BY <1>0, <2>0, <3>2, DistZero DEF Lag
      <3> QED BY <2>0, <3>1, <3>2
    <2>5. Room'
      BY <1>0, <2>0, <2>2, <2>3, <2>4 DEF Room
    <2>6. HeadBehind'
      BY <1>0, <2>0, <2>1, <2>3, DistNear, DistZero DEF HeadBehind
    <2>7. Stored'
      <3>1. ASSUME NEW k \in 1 .. Used - 1
            PROVE  queue[Shift(After(shadow_tail), k)] \in Items
        <4>1. k \in 0 .. Size - 1 /\ k + 1 \in 1 .. Used
          BY <1>0
        <4> QED BY <1>0, <4>1, ShiftAfter DEF Stored
      <3> QED BY <1>0, <2>0, <2>3, <3>1 DEF Stored
    <2>8. ItemToTake'
      BY <2>0 DEF ItemToTake
    <2> QED BY <2>5, <2>6, <2>7, <2>8 DEF IInv
  <1> QED BY <1>1, <1>2

\* Every step preserves the invariant.
LEMMA NextIInv == IInv /\ [Next]_vars => IInv'
  <1> SUFFICES ASSUME IInv, [Next]_vars PROVE IInv'
    OBVIOUS
  <1>1. TypeOK'
    BY TypeStep DEF IInv
  <1>2. CASE \/ \E item \in Items, flush \in Flushes : EnqueueRoom(item, flush)
             \/ EnqueueNoRoom \/ EnqueueWrite \/ EnqueuePublish
    BY <1>1, <1>2, ProducerStep
  <1>3. CASE \/ ConsumerCheck \/ DequeueCopy \/ DequeueAdvance
             \/ WaitBegin \/ WaitEnd
    BY <1>1, <1>3, ConsumerStep
  <1>4. CASE UNCHANGED vars
    BY <1>1, <1>4 DEF vars, IInv, Room, HeadBehind, ItemToTake, Stored, Lag,
       Used, isNotEmpty
  <1> QED BY <1>2, <1>3, <1>4 DEF Next, EnqueueSteps, DequeueSteps

LEMMA Invariance == Spec => []IInv
  BY InitIInv, NextIInv, PTL DEF Spec
------------------------------------------------------------------------------
(***************************************************************************)
(* The theorems.                                                           *)
(***************************************************************************)

\* Both threads keep every index on the ring and every local in its type.
THEOREM TypeCorrect == Spec => []TypeOK
  <1>1. IInv => TypeOK
    BY DEF IInv
  <1> QED BY <1>1, Invariance, PTL

\* For every queue size and watermark, enqueue() never writes the slot that
\* dequeue() is copying, although it decides on an old tail.
THEOREM NeverTorn == Spec => []NoTornRead
  <1>1. ASSUME IInv PROVE NoTornRead
    <2> USE SizeFact, IndexTypes DEF Index
    <2>0. TypeOK /\ HeadBehind /\ ItemToTake
      BY <1>1 DEF IInv
    <2>1. SUFFICES ASSUME c_pc = "dequeue", shadow_head = After(shadow_tail)
                   PROVE  FALSE
      BY DEF NoTornRead
    <2>2. Used = 0
      BY <2>0, <2>1, DistZero DEF Used
    <2>3. Dist(After(shadow_tail), head) = 0
      BY <2>0, <2>2 DEF HeadBehind
    <2>4. After(shadow_tail) = head
      BY <2>0, <2>3, DistZero
    <2> QED BY <2>0, <2>1, <2>4 DEF ItemToTake, isNotEmpty
  <1> QED BY <1>1, Invariance, PTL

\* The slots isNotEmpty() lets the consumer read hold stored items.
THEOREM ReadsStoredItems == Spec => []OnlyStoredItems
  <1>1. ASSUME IInv PROVE OnlyStoredItems
    <2> USE SizeFact, IndexTypes DEF Index
    <2>0. TypeOK /\ HeadBehind /\ Stored
      BY <1>1 DEF IInv
    <2>1. SUFFICES ASSUME NEW k \in 1 .. Dist(After(shadow_tail), head)
                   PROVE  k <= Used /\ queue[Shift(shadow_tail, k)] # NoItem
      BY DEF OnlyStoredItems
    <2>2. k \in 1 .. Used
      BY <2>0 DEF HeadBehind
    <2>3. queue[Shift(shadow_tail, k)] \in Items
      BY <2>0, <2>2 DEF Stored
    <2> QED BY <2>2, <2>3, QueueAssumption DEF QueueAssumption
  <1> QED BY <1>1, Invariance, PTL

\* dequeue() after a successful isNotEmpty() never throws.
THEOREM DequeueNeverThrows == Spec => []NeverThrows
  <1>1. IInv => NeverThrows
    BY DEF IInv, ItemToTake, NeverThrows
  <1> QED BY <1>1, Invariance, PTL
------------------------------------------------------------------------------
(***************************************************************************)
(* The delayed publication of tail.                                        *)
(***************************************************************************)

\* tail is the last multiple of the watermark the consumer passed (or the
\* constructor's value): this is how far it can lag behind.
LagIsRemainder == \/ Lag = 0 /\ shadow_tail = Size - 1
                  \/ Lag = shadow_tail % Watermark

\* Quotient and remainder of a division by the watermark.
LEMMA Division ==
  ASSUME NEW i \in Nat
  PROVE  /\ i = Watermark * (i \div Watermark) + (i % Watermark)
         /\ i % Watermark \in 0 .. Watermark - 1
         /\ i \div Watermark \in Nat
  BY SizeFact

\* One more multiple of the watermark is at least one watermark more.
LEMMA Multiples ==
  ASSUME NEW a \in Nat, NEW b \in Nat, a >= b + 1
  PROVE  Watermark * a >= Watermark * b + Watermark
  <1>1. Watermark * a >= Watermark * (b + 1)
    BY SizeFact
  <1>2. Watermark * (b + 1) = Watermark * b + Watermark
    BY SizeFact
  <1> QED BY <1>1, <1>2, SizeFact

\* Counting up to the next multiple of the watermark.
LEMMA RemainderStep ==
  ASSUME NEW i \in Nat, (i + 1) % Watermark # 0
  PROVE  (i + 1) % Watermark = (i % Watermark) + 1
  <1> DEFINE a == i \div Watermark
             b == (i + 1) \div Watermark
             r == i % Watermark
             s == (i + 1) % Watermark
             Wa == Watermark * a
             Wb == Watermark * b
  <1>1. /\ i = Wa + r /\ i + 1 = Wb + s
        /\ r \in 0 .. Watermark - 1 /\ s \in 1 .. Watermark - 1
        /\ a \in Nat /\ b \in Nat
    BY Division, SizeFact
  <1>2. Wa \in Nat /\ Wb \in Nat
    BY <1>1, SizeFact
  <1>3. b >= a + 1 => Wb >= Wa + Watermark
    BY <1>1, Multiples
  <1>4. a >= b + 1 => Wa >= Wb + Watermark
    BY <1>1, Multiples
  <1>5. a = b => Wa = Wb
    OBVIOUS
  <1> HIDE DEF a, b, r, s, Wa, Wb
  <1>6. s = r + 1
    BY <1>1, <1>2, <1>3, <1>4, <1>5, SizeFact
  <1> QED BY <1>6 DEF r, s

\* dequeue() keeps the lag of tail equal to the remainder.
LEMMA LagStep == IInv /\ LagIsRemainder /\ [Next]_vars => LagIsRemainder'
  <1> SUFFICES ASSUME IInv, LagIsRemainder, [Next]_vars PROVE LagIsRemainder'
    OBVIOUS
  <1> USE SizeFact, IndexTypes DEF Index
  <1>0. TypeOK /\ Room /\ HeadBehind /\ ItemToTake
    BY DEF IInv
  <1>1. CASE UNCHANGED <<tail, shadow_tail>>
    BY <1>1 DEF LagIsRemainder, Lag
  <1>2. CASE DequeueAdvance
    <2>0. /\ c_pc = "advance" /\ shadow_tail' = After(shadow_tail)
          /\ tail' = IF AtWatermark(After(shadow_tail)) THEN After(shadow_tail)
                                                        ELSE tail
      BY <1>2 DEF DequeueAdvance
    <2>1. CASE AtWatermark(After(shadow_tail))
      BY <1>0, <2>0, <2>1, DistZero DEF LagIsRemainder, Lag, AtWatermark
    <2>2. CASE ~AtWatermark(After(shadow_tail))
      <3>1. After(shadow_tail) # 0
        <4>1. 0 % Watermark = 0
          BY Division
        <4> QED BY <2>2, <4>1 DEF AtWatermark
      <3>2. After(shadow_tail) = shadow_tail + 1
        BY <1>0, <3>1 DEF After
      <3>3. (shadow_tail + 1) % Watermark = (shadow_tail % Watermark) + 1
        BY <1>0, <2>2, <3>2, RemainderStep DEF AtWatermark
      <3>4. Dist(After(shadow_tail), head) # 0
        BY <1>0, <2>0, DistZero DEF ItemToTake, isNotEmpty
      <3>5. Lag < Size - 1
        BY <1>0, <3>4 DEF HeadBehind, Room
      <3>6. Lag' = Lag + 1
        BY <1>0, <2>0, <2>2, <3>5, DistFar DEF Lag
      <3>7. Lag = shadow_tail % Watermark
        BY <1>0, <3>1 DEF LagIsRemainder, After
      <3> QED BY <2>0, <3>2, <3>3, <3>6, <3>7 DEF LagIsRemainder
    <2> QED BY <2>1, <2>2
  <1> QED BY <1>1, <1>2 DEF Next, EnqueueSteps, DequeueSteps, vars, EnqueueRoom,
             EnqueueNoRoom, EnqueueWrite, EnqueuePublish, ConsumerCheck,
             DequeueCopy, WaitBegin, WaitEnd, consumerVars

\* The lag is never more than a watermark.
LEMMA LagInvariance == Spec => []LagIsRemainder
  <1>1. Init => LagIsRemainder
    <2> SUFFICES ASSUME Init PROVE LagIsRemainder
      OBVIOUS
    <2>1. tail = Size - 1 /\ shadow_tail = Size - 1
      BY DEF Init
    <2>2. Dist(Size - 1, Size - 1) = 0
      BY SizeFact DEF Dist
    <2> QED BY <2>1, <2>2 DEF LagIsRemainder, Lag
  <1> QED BY <1>1, Invariance, LagStep, PTL DEF Spec

\* Queues larger than the watermark are never reported full while they hold no
\* item; the assumption is needed, a queue of 8 slots violates the property.
THEOREM DrainedHasRoom ==
  ASSUME Watermark <= Size - 2
  PROVE  Spec => []NotFullWhenEmpty
  <1>1. ASSUME IInv, LagIsRemainder PROVE NotFullWhenEmpty
    <2> USE SizeFact, IndexTypes DEF Index
    <2>0. TypeOK /\ Room
      BY <1>1 DEF IInv
    <2>1. SUFFICES ASSUME isFull, Used = 0 PROVE FALSE
      BY <2>0 DEF NotFullWhenEmpty
    <2>2. Dist(tail, shadow_head) = Size - 1
      BY <2>0, <2>1, DistFull DEF isFull
    <2>3. Dist(tail, shadow_head) = Lag + 1
      BY <2>0, <2>1, DistAdd DEF Room, Lag, Used
    <2>4. Lag <= Watermark - 1
      BY <1>1, <2>0, Division DEF LagIsRemainder
    <2> QED BY <2>0, <2>2, <2>3, <2>4
  <1> QED BY <1>1, Invariance, LagInvariance, PTL
------------------------------------------------------------------------------
(***************************************************************************)
(* The queue is a bounded FIFO.                                            *)
(***************************************************************************)

\* The slots after slot i, up to slot h, as a sequence: Contents is such a slice.
Slice(s, i, h) == [k \in 1 .. Dist(After(i), h) |-> s[Shift(i, k)]]

LEMMA SliceIsSeq ==
  ASSUME NEW s \in [Index -> Items \cup {NoItem}], NEW i \in Index, NEW h \in Index
  PROVE  /\ Dist(After(i), h) \in Index
         /\ Slice(s, i, h) \in Seq(Items \cup {NoItem})
         /\ Len(Slice(s, i, h)) = Dist(After(i), h)
         /\ \A k \in 1 .. Dist(After(i), h) : Slice(s, i, h)[k] = s[Shift(i, k)]
  <1>1. After(i) \in Index
    BY SizeFact DEF Index, After
  <1>2. Dist(After(i), h) \in Index
    BY <1>1, SizeFact DEF Index, Dist
  <1>3. PICK n \in Nat : n = Dist(After(i), h) /\ n < Size
    BY <1>2, SizeFact DEF Index
  <1>4. \A k \in 1 .. n : Shift(i, k) \in Index
    BY <1>3, SizeFact DEF Index, Shift
  <1>5. Slice(s, i, h) \in [1 .. n -> Items \cup {NoItem}]
    BY <1>3, <1>4 DEF Slice
  <1>6. Slice(s, i, h) \in Seq(Items \cup {NoItem}) /\ Len(Slice(s, i, h)) = n
    BY <1>3, <1>5
  <1>7. \A k \in 1 .. n : Slice(s, i, h)[k] = s[Shift(i, k)]
    BY <1>3 DEF Slice
  <1> QED BY <1>2, <1>3, <1>6, <1>7

LEMMA SliceAppend ==
  ASSUME NEW s \in [Index -> Items \cup {NoItem}], NEW i \in Index, NEW h \in Index,
         NEW x \in Items, Dist(After(i), h) < Size - 1
  PROVE  Slice([s EXCEPT ![h] = x], i, After(h)) = Append(Slice(s, i, h), x)
  <1> DEFINE t == [s EXCEPT ![h] = x]
             old == Slice(s, i, h)
             new == Slice(t, i, After(h))
  <1>0. After(i) \in Index /\ After(h) \in Index /\ t \in [Index -> Items \cup {NoItem}]
    BY SizeFact DEF Index, After
  <1>1. PICK n \in Nat : n = Dist(After(i), h) /\ n < Size - 1
    <2>1. Dist(After(i), h) \in Index
      BY SliceIsSeq
    <2> QED BY <2>1, SizeFact DEF Index
  <1>2. Dist(After(i), After(h)) = n + 1
    BY <1>0, <1>1, DistFar
  <1>3. /\ old \in Seq(Items \cup {NoItem}) /\ Len(old) = n
        /\ \A k \in 1 .. n : old[k] = s[Shift(i, k)]
    BY <1>1, SliceIsSeq
  <1>4. /\ new \in Seq(Items \cup {NoItem}) /\ Len(new) = n + 1
        /\ \A k \in 1 .. n + 1 : new[k] = t[Shift(i, k)]
    <2> HIDE DEF t
    <2>1. PICK u \in [Index -> Items \cup {NoItem}], j \in Index : u = t /\ j = After(h)
      BY <1>0
    <2>2. /\ Slice(u, i, j) \in Seq(Items \cup {NoItem}) /\ Len(Slice(u, i, j)) = n + 1
          /\ \A k \in 1 .. n + 1 : Slice(u, i, j)[k] = u[Shift(i, k)]
      BY <1>2, <2>1, SliceIsSeq
    <2> QED BY <2>1, <2>2
  <1>5. Shift(i, n + 1) = h
    BY <1>1, ShiftDist
  <1>6. ASSUME NEW k \in 1 .. n PROVE t[Shift(i, k)] = s[Shift(i, k)]
    <2>1. k \in 1 .. Size /\ n + 1 \in 1 .. Size /\ k # n + 1 /\ k \in 0 .. Size
      BY <1>1, SizeFact
    <2>2. Shift(i, k) # h
      BY <1>5, <2>1, ShiftInjective
    <2>3. Shift(i, k) \in Index
      BY <2>1, RingTypes
    <2> QED BY <2>2, <2>3
  <1>7. t[Shift(i, n + 1)] = x
    BY <1>5
  <1> HIDE DEF t, old, new
  <1>8. PICK e : e = Append(old, x)
    OBVIOUS
  <1>9. /\ e \in Seq(Items \cup {NoItem}) /\ Len(e) = n + 1
        /\ \A k \in 1 .. n : e[k] = old[k]
        /\ e[n + 1] = x
    BY <1>3, <1>8
  <1>10. \A k \in 1 .. n + 1 : new[k] = e[k]
    BY <1>3, <1>4, <1>6, <1>7, <1>9
  <1>11. new = e
    BY <1>4, <1>9, <1>10, SeqEqual
  <1> QED BY <1>8, <1>11 DEF t, old, new

LEMMA SliceTail ==
  ASSUME NEW s \in [Index -> Items \cup {NoItem}], NEW i \in Index, NEW h \in Index,
         After(i) # h
  PROVE  /\ Slice(s, i, h) # <<>>
         /\ Head(Slice(s, i, h)) = s[After(i)]
         /\ Slice(s, After(i), h) = Tail(Slice(s, i, h))
  <1> DEFINE old == Slice(s, i, h)
             new == Slice(s, After(i), h)
  <1>0. After(i) \in Index
    BY SizeFact DEF Index, After
  <1>1. PICK n \in Nat : n = Dist(After(i), h) /\ n < Size
    <2>1. Dist(After(i), h) \in Index
      BY SliceIsSeq
    <2> QED BY <2>1, SizeFact DEF Index
  <1>2. n # 0 /\ Dist(After(After(i)), h) = n - 1
    BY <1>0, <1>1, DistZero, DistNear
  <1>3. /\ old \in Seq(Items \cup {NoItem}) /\ Len(old) = n
        /\ \A k \in 1 .. n : old[k] = s[Shift(i, k)]
    BY <1>1, SliceIsSeq
  <1>4. /\ new \in Seq(Items \cup {NoItem}) /\ Len(new) = n - 1
        /\ \A k \in 1 .. n - 1 : new[k] = s[Shift(After(i), k)]
    BY <1>0, <1>2, SliceIsSeq
  <1>5. ASSUME NEW k \in 1 .. n - 1 PROVE new[k] = old[k + 1]
    <2>1. k \in 0 .. Size - 1 /\ k + 1 \in 1 .. n
      BY <1>1, SizeFact
    <2>2. Shift(After(i), k) = Shift(i, k + 1)
      BY <2>1, ShiftAfter
    <2> QED BY <1>3, <1>4, <2>1, <2>2
  <1>6. Shift(i, 1) = After(i)
    BY SizeFact DEF Shift, After, Index
  <1> HIDE DEF old, new
  <1>7. old # <<>> /\ Head(old) = s[After(i)]
    BY <1>2, <1>3, <1>6
  <1>8. PICK e : e = Tail(old)
    OBVIOUS
  <1>9. /\ e \in Seq(Items \cup {NoItem}) /\ Len(e) = n - 1
        /\ \A k \in 1 .. n - 1 : e[k] = old[k + 1]
    BY <1>2, <1>3, <1>7, <1>8
  <1>10. \A k \in 1 .. n - 1 : new[k] = e[k]
    BY <1>5, <1>9
  <1>11. new = e
    BY <1>4, <1>9, <1>10, SeqEqual
  <1> QED BY <1>7, <1>8, <1>11 DEF old, new

\* When the published head lets the consumer go on, there is an accepted item.
LEMMA ItemLeft ==
  ASSUME TypeOK, HeadBehind, ItemToTake, c_pc \in {"dequeue", "advance"}
  PROVE  After(shadow_tail) # shadow_head
  <1> USE SizeFact, IndexTypes DEF Index
  <1>1. Dist(After(shadow_tail), head) # 0
    BY DistZero DEF ItemToTake, isNotEmpty
  <1>2. Used # 0
    BY <1>1 DEF HeadBehind
  <1> QED BY <1>2, DistZero DEF Used

\* How many items Contents has.
LEMMA ContentsIs ==
  ASSUME IInv
  PROVE  /\ queue \in [Index -> Items \cup {NoItem}]
         /\ LastCopied \in Index /\ shadow_head \in Index
         /\ Contents = Slice(queue, LastCopied, shadow_head)
         /\ Len(Contents) = IF c_pc = "advance" THEN Used - 1 ELSE Used
         /\ Len(Contents) = Dist(After(LastCopied), shadow_head)
  <1>0. TypeOK /\ HeadBehind /\ ItemToTake
    BY DEF IInv
  <1>1. /\ queue \in [Index -> Items \cup {NoItem}]
        /\ shadow_tail \in Index /\ After(shadow_tail) \in Index
        /\ shadow_head \in Index /\ Used \in Index
    BY <1>0, IndexTypes DEF TypeOK
  <1>2. LastCopied \in Index
    BY <1>1 DEF LastCopied
  <1>3. Contents = Slice(queue, LastCopied, shadow_head)
    BY DEF Contents, Slice
  <1>4. Len(Contents) = Dist(After(LastCopied), shadow_head)
    BY <1>1, <1>2, <1>3, SliceIsSeq
  <1>5. CASE c_pc # "advance"
    BY <1>1, <1>2, <1>3, <1>4, <1>5 DEF LastCopied, Used
  <1>6. CASE c_pc = "advance"
    <2>1. After(shadow_tail) # shadow_head
      BY <1>0, <1>6, ItemLeft
    <2>2. Dist(After(After(shadow_tail)), shadow_head) = Used - 1
      BY <1>1, <2>1, DistNear DEF Used
    <2> QED BY <1>1, <1>2, <1>3, <1>4, <1>6, <2>2 DEF LastCopied
  <1> QED BY <1>1, <1>2, <1>3, <1>4, <1>5, <1>6

\* EnqueueWrite is the acceptance of the item.
LEMMA WriteAccepts ==
  ASSUME IInv, EnqueueWrite
  PROVE  \E item \in Items : Fifo!Accept(item)
  <1>1. /\ p_pc = "write" /\ shadow_head' = After(shadow_head)
        /\ queue' = [queue EXCEPT ![shadow_head] = p_item]
        /\ UNCHANGED <<shadow_tail, c_pc, c_item, num_failed_enqueues>>
    BY DEF EnqueueWrite, consumerVars
  <1>2. p_item \in Items /\ Lag + Used <= Size - 3
    BY <1>1 DEF IInv, Stored, Room
  <1>3. /\ Lag \in 0 .. Size - 1 /\ Used \in 0 .. Size - 1
    BY IndexTypes DEF IInv, Index
  <1>4. Len(Contents) < Size - 2
    BY <1>2, <1>3, ContentsIs, SizeFact
  <1>5. LastCopied' = LastCopied
    BY <1>1 DEF LastCopied
  <1>6. Contents' = Append(Contents, p_item)
    <2>1. PICK s \in [Index -> Items \cup {NoItem}], i \in Index, h \in Index, x \in Items :
            s = queue /\ i = LastCopied /\ h = shadow_head /\ x = p_item
      BY <1>2, ContentsIs
    <2>2. Contents' = Slice([s EXCEPT ![h] = x], i, After(h))
      BY <1>1, <1>5, <2>1 DEF Contents, Slice
    <2>3. Contents = Slice(s, i, h) /\ Dist(After(i), h) < Size - 1
      BY <1>4, <2>1, ContentsIs, SizeFact
    <2>4. Slice([s EXCEPT ![h] = x], i, After(h)) = Append(Slice(s, i, h), x)
      BY <2>3, SliceAppend
    <2> QED BY <2>1, <2>2, <2>3, <2>4
  <1> QED BY <1>1, <1>2, <1>4, <1>6 DEF Fifo!Accept

\* DequeueCopy delivers the oldest item.
LEMMA CopyDelivers ==
  ASSUME IInv, DequeueCopy
  PROVE  Fifo!Deliver
  <1>0. TypeOK /\ HeadBehind /\ ItemToTake
    BY DEF IInv
  <1>1. /\ c_pc = "dequeue" /\ isNotEmpty
        /\ c_item' = queue[After(shadow_tail)] /\ c_pc' = "advance"
        /\ UNCHANGED <<shadow_tail, shadow_head, queue, num_failed_enqueues>>
    BY <1>0 DEF DequeueCopy, producerVars, ItemToTake
  <1>2. LastCopied = shadow_tail /\ LastCopied' = After(shadow_tail)
    BY <1>1 DEF LastCopied
  <1>3. After(shadow_tail) # shadow_head
    BY <1>0, <1>1, ItemLeft
  <1>4. PICK s \in [Index -> Items \cup {NoItem}], i \in Index, h \in Index :
          s = queue /\ i = shadow_tail /\ h = shadow_head
    BY <1>2, ContentsIs
  <1>5. Contents = Slice(s, i, h) /\ Contents' = Slice(s, After(i), h)
    BY <1>1, <1>2, <1>4 DEF Contents, Slice
  <1>6. /\ Slice(s, i, h) # <<>> /\ Head(Slice(s, i, h)) = s[After(i)]
        /\ Slice(s, After(i), h) = Tail(Slice(s, i, h))
    BY <1>3, <1>4, SliceTail
  <1> QED BY <1>1, <1>4, <1>5, <1>6 DEF Fifo!Deliver

\* An item is refused only if few slots are free.
LEMMA NoRoomRefuses ==
  ASSUME IInv, LagIsRemainder, EnqueueNoRoom
  PROVE  Fifo!Refuse
  <1>0. TypeOK /\ Room
    BY DEF IInv
  <1>1. /\ isFull /\ num_failed_enqueues' = (num_failed_enqueues + 1) % CounterMod
        /\ UNCHANGED <<shadow_tail, shadow_head, queue, c_pc, c_item>>
    BY DEF EnqueueNoRoom, consumerVars
  <1>2. Contents' = Contents
    BY <1>1 DEF Contents, LastCopied
  <1>3. /\ Lag \in 0 .. Size - 1 /\ Used \in 0 .. Size - 1 /\ shadow_tail \in Nat
    BY <1>0, IndexTypes, SizeFact DEF Index
  <1>4. Lag <= Watermark - 1
    BY <1>3, Division, SizeFact DEF LagIsRemainder
  <1>5. Lag + Used = Size - 2
    <2>1. Dist(tail, shadow_head) = Size - 1
      BY <1>0, <1>1, DistFull, IndexTypes DEF isFull
    <2>2. Dist(tail, shadow_head) = Lag + 1 + Used
      BY <1>0, DistAdd, IndexTypes DEF Room, Lag, Used
    <2> QED BY <1>3, <2>1, <2>2, SizeFact
  <1>6. Len(Contents) >= Size - 2 - Watermark
    BY <1>3, <1>4, <1>5, ContentsIs, SizeFact
  <1> QED BY <1>1, <1>2, <1>6 DEF Fifo!Refuse

\* The other steps change nothing that the two threads can see.
LEMMA OthersStutter ==
  ASSUME IInv,
         \/ \E item \in Items, flush \in Flushes : EnqueueRoom(item, flush)
         \/ EnqueuePublish \/ ConsumerCheck \/ DequeueAdvance
         \/ WaitBegin \/ WaitEnd \/ UNCHANGED vars
  PROVE  UNCHANGED <<Contents, c_item, num_failed_enqueues>>
  <1>1. UNCHANGED <<shadow_head, queue, c_item, num_failed_enqueues>>
    BY DEF EnqueueRoom, EnqueuePublish, ConsumerCheck, DequeueAdvance, WaitBegin,
       WaitEnd, vars, consumerVars, producerVars
  <1>2. LastCopied' = LastCopied
    <2>1. CASE DequeueAdvance
      BY <2>1 DEF DequeueAdvance, LastCopied
    <2>2. CASE /\ shadow_tail' = shadow_tail
               /\ c_pc' = "advance" <=> c_pc = "advance"
      BY <2>2 DEF LastCopied
    <2> QED BY <2>1, <2>2 DEF EnqueueRoom, EnqueuePublish, ConsumerCheck, WaitBegin,
               WaitEnd, vars, consumerVars
  <1> QED BY <1>1, <1>2 DEF Contents

LEMMA StepRefines ==
  ASSUME IInv, LagIsRemainder, [Next]_vars
  PROVE  [Fifo!Next]_(Fifo!vars)
  <1>1. CASE EnqueueWrite
    BY <1>1, WriteAccepts DEF Fifo!Next
  <1>2. CASE DequeueCopy
    BY <1>2, CopyDelivers DEF Fifo!Next
  <1>3. CASE EnqueueNoRoom
    BY <1>3, NoRoomRefuses DEF Fifo!Next
  <1>4. CASE \/ \E item \in Items, flush \in Flushes : EnqueueRoom(item, flush)
             \/ EnqueuePublish \/ ConsumerCheck \/ DequeueAdvance
             \/ WaitBegin \/ WaitEnd \/ UNCHANGED vars
    BY <1>4, OthersStutter DEF Fifo!vars
  <1> QED BY <1>1, <1>2, <1>3, <1>4 DEF Next, EnqueueSteps, DequeueSteps

LEMMA InitRefines == Init => Fifo!Init
  <1> SUFFICES ASSUME Init PROVE Fifo!Init
    OBVIOUS
  <1>1. IInv /\ c_pc = "idle" /\ c_item = NoItem /\ num_failed_enqueues = 0
    BY InitIInv DEF Init
  <1>2. Used = 0
    <2>1. shadow_tail = Size - 1 /\ shadow_head = 0
      BY DEF Init
    <2>2. After(shadow_tail) = 0
      BY <2>1, SizeFact DEF After
    <2> QED BY <2>1, <2>2, SizeFact DEF Used, Dist
  <1>3. Len(Contents) = 0 /\ Contents \in Seq(Items \cup {NoItem})
    BY <1>1, <1>2, ContentsIs, SliceIsSeq
  <1>4. Contents = <<>>
    BY <1>3
  <1> QED BY <1>1, <1>4 DEF Fifo!Init

\* The lock-free ring is a bounded FIFO for every size and watermark: the items
\* that enqueue() accepts are copied out once and in order, whatever the
\* interleaving of the two threads and however late the indices are published,
\* and an item is refused only if all but Watermark + 2 slots hold items.
THEOREM RingIsFifo == Spec => FifoSpec
  <1>1. IInv /\ LagIsRemainder /\ [Next]_vars => [Fifo!Next]_(Fifo!vars)
    BY StepRefines
  <1> QED BY <1>1, InitRefines, Invariance, LagInvariance, PTL
          DEF Spec, FifoSpec, Fifo!Spec
==============================================================================
