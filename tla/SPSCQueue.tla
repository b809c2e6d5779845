------------------------------ MODULE SPSCQueue ------------------------------
(***************************************************************************)
(* The lock-free ring buffer of include/SPSCQueue.h, through which the     *)
(* thread that processes the traffic hands flows and alerts to the dump    *)
(* and alert threads.                                                      *)
(*                                                                         *)
(* Each side moves a private ("shadow") index and publishes it to the other*)
(* side now and then: the producer publishes head on every flushed enqueue *)
(* and at every multiple of the watermark, the consumer publishes tail only*)
(* at the multiples of the watermark.  An enqueue is three steps (room     *)
(* check, slot write, publication), a dequeue is three steps (emptiness    *)
(* check, copy of the slot, advance and publication), and the steps of the *)
(* two threads interleave freely.                                          *)
(***************************************************************************)
EXTENDS Integers, Sequences

CONSTANTS Size,        \* queue_size, already rounded up to a power of two
          Watermark,   \* QUEUE_WATERMARK
          Items,       \* the values that can be queued
          NoItem,      \* content of a slot that was never written
          Flushes,     \* the values of the flush argument the callers pass
          Waits,       \* TRUE iff the consumer may block in wait()
          CounterMod   \* modulus of num_failed_enqueues (2^32 in the code)

ASSUME QueueAssumption ==
         /\ Size \in Nat /\ Size >= 4
         /\ Watermark \in Nat /\ Watermark >= 1 /\ Watermark <= Size
         /\ NoItem \notin Items
         /\ Flushes \subseteq BOOLEAN /\ Waits \in BOOLEAN
         /\ CounterMod \in Nat /\ CounterMod >= 1

VARIABLES shadow_head, \* next slot to write, private to the producer
          head,        \* published copy of shadow_head
          tail,        \* published copy of shadow_tail
          shadow_tail, \* last slot read, private to the consumer
          queue,       \* the slots
          num_failed_enqueues,
          predicate,   \* the flag of the condition variable c
          p_pc, p_item, p_flush,  \* the producer: its step and its arguments
          c_pc, c_item            \* the consumer: its step and its local item

vars == <<shadow_head, head, tail, shadow_tail, queue, num_failed_enqueues,
          predicate, p_pc, p_item, p_flush, c_pc, c_item>>

Index == 0 .. Size - 1

TypeOK == /\ {shadow_head, head, tail, shadow_tail} \subseteq Index
          /\ queue \in [Index -> Items \cup {NoItem}]
          /\ num_failed_enqueues \in 0 .. CounterMod - 1
          /\ predicate \in BOOLEAN /\ p_flush \in BOOLEAN
          /\ p_pc \in {"idle", "write", "publish"}
          /\ p_item \in Items \cup {NoItem}
          /\ c_pc \in {"idle", "waiting", "dequeue", "advance", "thrown"}
          /\ c_item \in Items \cup {NoItem}

\* The code's (i + 1) & (queue_size - 1).
After(i) == IF i + 1 = Size THEN 0 ELSE i + 1

\* Mutant of AtWatermark: the mask of the whole queue is used.
AtQueueStart(i) == i = 0

\* The code's (i & QUEUE_WATERMARK_MASK) == 0.
AtWatermark(i) == i % Watermark = 0

\* Mutant of isFull: the wrong published index is compared.
isFullByHead == head = After(shadow_head)

isNotEmpty == After(shadow_tail) # head
isFull == tail = After(shadow_head)

Init == /\ tail = Size - 1 /\ shadow_tail = Size - 1
        /\ head = 0 /\ shadow_head = 0
        /\ queue = [i \in Index |-> NoItem]
        /\ num_failed_enqueues = 0
        /\ predicate = FALSE
        /\ p_pc = "idle" /\ p_item = NoItem /\ p_flush = FALSE
        /\ c_pc = "idle" /\ c_item = NoItem
------------------------------------------------------------------------------
consumerVars == <<shadow_tail, tail, c_pc, c_item>>

\* Mutant of EnqueueRoom: head is published before the slot is written.
EnqueueRoomEarly(item, flush) ==
  /\ p_pc = "idle"
  /\ ~isFull
  /\ p_pc' = "write" /\ p_item' = item /\ p_flush' = flush
  /\ head' = After(shadow_head)
  /\ UNCHANGED <<shadow_head, queue, num_failed_enqueues, predicate,
                 consumerVars>>

\* enqueue() finds room: tail is read here and is not read again.
EnqueueRoom(item, flush) ==
  /\ p_pc = "idle"
  /\ ~isFull
  /\ p_pc' = "write" /\ p_item' = item /\ p_flush' = flush
  /\ UNCHANGED <<shadow_head, head, queue, num_failed_enqueues, predicate,
                 consumerVars>>

\* enqueue() finds no room: the item is refused and counted.
EnqueueNoRoom ==
  /\ p_pc = "idle"
  /\ isFull
  /\ num_failed_enqueues' = (num_failed_enqueues + 1) % CounterMod
  /\ UNCHANGED <<shadow_head, head, queue, predicate, p_pc, p_item, p_flush,
                 consumerVars>>

\* Mutant of EnqueueWrite: shadow_head is not masked.
EnqueueWriteUnmasked ==
  /\ p_pc = "write"
  /\ queue' = [queue EXCEPT ![shadow_head] = p_item]
  /\ shadow_head' = shadow_head + 1
  /\ predicate' = TRUE
  /\ p_pc' = "publish"
  /\ UNCHANGED <<head, num_failed_enqueues, p_item, p_flush, consumerVars>>

\* The item is stored, shadow_head advances and c is signalled, all of it
\* before the new head is published.
EnqueueWrite ==
  /\ p_pc = "write"
  /\ queue' = [queue EXCEPT ![shadow_head] = p_item]
  /\ shadow_head' = After(shadow_head)
  /\ predicate' = TRUE
  /\ p_pc' = "publish"
  /\ UNCHANGED <<head, num_failed_enqueues, p_item, p_flush, consumerVars>>

EnqueuePublish ==
  /\ p_pc = "publish"
  /\ head' = IF p_flush \/ AtWatermark(shadow_head) THEN shadow_head ELSE head
  /\ p_pc' = "idle"
  /\ UNCHANGED <<shadow_head, queue, num_failed_enqueues, predicate, p_item,
                 p_flush, consumerVars>>
------------------------------------------------------------------------------
producerVars == <<shadow_head, head, queue, num_failed_enqueues, p_pc, p_item,
                  p_flush>>

\* Mutant of ConsumerCheck: dequeue() is called without the check.
ConsumerNoCheck ==
  /\ c_pc = "idle"
  /\ c_pc' = "dequeue"
  /\ UNCHANGED <<shadow_tail, tail, c_item, predicate, producerVars>>

\* Every caller tests isNotEmpty() before it calls dequeue().
ConsumerCheck ==
  /\ c_pc = "idle"
  /\ isNotEmpty
  /\ c_pc' = "dequeue"
  /\ UNCHANGED <<shadow_tail, tail, c_item, predicate, producerVars>>

\* Mutant of DequeueCopy: the slot of the previous item is read.
DequeueCopyOld ==
  /\ c_pc = "dequeue"
  /\ IF isNotEmpty
       THEN c_item' = queue[shadow_tail] /\ c_pc' = "advance"
       ELSE c_pc' = "thrown" /\ UNCHANGED c_item
  /\ UNCHANGED <<shadow_tail, tail, predicate, producerVars>>

\* dequeue() up to the copy of the item; on an empty queue it throws.
DequeueCopy ==
  /\ c_pc = "dequeue"
  /\ IF isNotEmpty
       THEN c_item' = queue[After(shadow_tail)] /\ c_pc' = "advance"
       ELSE c_pc' = "thrown" /\ UNCHANGED c_item
  /\ UNCHANGED <<shadow_tail, tail, predicate, producerVars>>

\* The rest of dequeue(): the slot is released, and published as free only
\* when the new tail is a multiple of the watermark.
DequeueAdvance ==
  /\ c_pc = "advance"
  /\ shadow_tail' = After(shadow_tail)
  /\ tail' = IF AtWatermark(After(shadow_tail)) THEN After(shadow_tail) ELSE tail
  /\ c_pc' = "idle"
  /\ UNCHANGED <<c_item, predicate, producerVars>>

\* wait(): block until c was signalled, and reset the flag on the way out.
WaitBegin ==
  /\ Waits
  /\ c_pc = "idle"
  /\ c_pc' = "waiting"
  /\ UNCHANGED <<shadow_tail, tail, c_item, predicate, producerVars>>

WaitEnd ==
  /\ c_pc = "waiting"
  /\ predicate
  /\ predicate' = FALSE
  /\ c_pc' = "idle"
  /\ UNCHANGED <<shadow_tail, tail, c_item, producerVars>>
------------------------------------------------------------------------------
EnqueueSteps == EnqueueWrite \/ EnqueuePublish

DequeueSteps == ConsumerCheck \/ DequeueCopy \/ DequeueAdvance

Next == \/ \E item \in Items, flush \in Flushes : EnqueueRoom(item, flush)
        \/ EnqueueNoRoom
        \/ EnqueueSteps
        \/ DequeueSteps
        \/ WaitBegin
        \/ WaitEnd

Spec == Init /\ [][Next]_vars

\* A thread that has started an enqueue finishes it, and the consumer's loop
\* polls isNotEmpty() for ever (its own waits are timed).  Nothing makes the
\* producer start an enqueue.
FairSpec == Spec /\ WF_vars(EnqueueSteps) /\ WF_vars(DequeueSteps)
------------------------------------------------------------------------------
\* Distance from slot a forward to slot b, around the ring.
Dist(a, b) == IF b >= a THEN b - a ELSE b - a + Size

\* The slot k places after slot i, for k \in 0 .. Size.
Shift(i, k) == IF i + k >= Size THEN i + k - Size ELSE i + k

\* How far the published tail is behind the consumer.
Lag == Dist(tail, shadow_tail)

\* Accepted items in slots the consumer has not released yet.
Used == Dist(After(shadow_tail), shadow_head)

\* The slots that hold them.
UsedSlots == {Shift(shadow_tail, k) : k \in 1 .. Used}

\* The accepted items the consumer has not copied yet, oldest first.
LastCopied == IF c_pc = "advance" THEN After(shadow_tail) ELSE shadow_tail
Contents == [k \in 1 .. Dist(After(LastCopied), shadow_head) |->
               queue[Shift(LastCopied, k)]]

\* An enqueue between its room check and its slot write is never about to write
\* the slot that dequeue() is about to copy (a torn flow or alert pointer, and
\* the loss of all that is queued), although the tail it read is old by then.
NoTornRead ==
  p_pc = "write" /\ c_pc = "dequeue" => shadow_head # After(shadow_tail)

\* The slots the consumer may read, up to the published head, hold items that
\* were really stored: head is published after the slot write, never before.
OnlyStoredItems ==
  \A k \in 1 .. Dist(After(shadow_tail), head) :
     /\ k <= Used
     /\ queue[Shift(shadow_tail, k)] # NoItem

\* dequeue() never throws "Empty queue": what isNotEmpty() saw still holds when
\* dequeue() looks again, whatever the producer did in between.
NeverThrows == c_pc # "thrown"

\* isFull() says that the queue is full only while it holds accepted items: a
\* drained queue accepts items again although dequeue() publishes tail late.
NotFullWhenEmpty == isFull => Used > 0

\* The queue is a bounded FIFO: an item is copied out once, in order, and an
\* item is refused only when all but Watermark + 2 slots hold accepted items.
Fifo == INSTANCE BoundedFifo
          WITH q <- Contents, out <- c_item, refused <- num_failed_enqueues,
               Capacity <- Size - 2, RefuseAt <- Size - 2 - Watermark
FifoSpec == Fifo!Spec

\* Every accepted item is eventually handed to the consumer, if the producer
\* asks for a flush: the slot it was stored in gets released.
Delivered == \A i \in Index : i \in UsedSlots ~> i \notin UsedSlots

\* A full queue has room again once the consumer has caught up.
RoomAgain == isFull ~> ~isFull
==============================================================================
