------------------------- MODULE GenericHash_proofs -------------------------
(***************************************************************************)
(* The safety of the hash tables, for any number of entries, buckets and   *)
(* walkers, and for flows as well as for hosts: no entry is deleted while  *)
(* someone holds it, an entry is in one container, what waits is idle, the *)
(* counters agree with the containers.                                     *)
(*                                                                         *)
(* The properties depend on each other and are proved together.  The       *)
(* inductive invariant adds what the threads rely on between two steps:    *)
(* where the entries of the loop under way are, what a walker has locked,  *)
(* and that the uses of an entry are its references.                       *)
(***************************************************************************)
EXTENDS GenericHash, FiniteSetTheorems, TLAPS

\* The batch that purgeQueuedIdleEntries() has taken.
Batch == IF pc = "purging" THEN todo ELSE {}

\* The containers are disjoint; an entry is in one bucket.
Disjoint ==
  /\ \A a, b \in Buckets : a # b => table[a] \cap table[b] = {}
  /\ Linked \cap (idle_entries_shadow \cup idle_entries \cup Batch
                    \cup idle_entries_in_use \cup freed) = {}
  /\ idle_entries_shadow \cap (idle_entries \cup Batch
                                 \cup idle_entries_in_use \cup freed) = {}
  /\ idle_entries \cap (Batch \cup idle_entries_in_use \cup freed) = {}
  /\ Batch \cap (idle_entries_in_use \cup freed) = {}
  /\ idle_entries_in_use \cap freed = {}

\* Where the entries are that the inline thread's loop still has to reach.
LoopEntries ==
  /\ pc = "bucket" => todo \subseteq table[last_purged_hash]
  /\ pc = "idling" => todo \subseteq fresh
  /\ pc = "sweep" => todo \subseteq idle_entries_in_use
  /\ pc # "destroyed" => fresh \subseteq idle_entries_shadow
  /\ idle_null => idle_entries = {}

\* A walker looks at an entry of the bucket that it has locked.
WalkersLock ==
  \A w \in Walkers :
    /\ w_pc[w] = "locked" => w_slot[w] \in Buckets /\ ~WriteLocked(w_slot[w])
    /\ w_head[w] # {} => w_pc[w] = "locked"
    /\ w_pc[w] = "locked" => w_head[w] \subseteq table[w_slot[w]]
    /\ w_head[w] \cap w_refs[w] = {}
    /\ w_pc[w] = "idle" => w_refs[w] = {}

\* The uses of an entry are its references.
Holders(e) == {w \in Walkers : e \in w_refs[w]}
UsesCounted ==
  \A e \in Entries : uses[e] = queued[e] + Cardinality(Holders(e))

\* The entries that wait for their deletion, and have become idle.
Waiting == (idle_entries_shadow \ NotIdleYet) \cup idle_entries \cup Batch
             \cup idle_entries_in_use

\* What waits is idle; what is about to become idle can.
IdleStates ==
  /\ \A e \in Waiting : state[e] = idle
  /\ running => \A e \in NotIdleYet : state[e] = active
  /\ force_idle => ~running

Counts ==
  /\ current_size = Cardinality(Linked)
  /\ pc # "destroyed" => getNumIdleEntries = Cardinality(Waiting)

IInv == /\ TypeOK /\ Disjoint /\ LoopEntries /\ WalkersLock /\ UsesCounted
        /\ NoUseAfterFree /\ IdleStates /\ Counts /\ UnusedWhenExpired
-----------------------------------------------------------------------------
(***************************************************************************)
(* What the steps do to the entries in the table.                          *)
(***************************************************************************)

LEMMA NextBucketType == TypeOK => NextBucket \in Buckets
BY HashAssumption DEF TypeOK, NextBucket, Buckets

LEMMA LinkedSame == table' = table => Linked' = Linked
BY DEF Linked

LEMMA LinkedAdd ==
  ASSUME TypeOK, NEW e \in Entries, NEW b \in Buckets, add(e, b)
  PROVE  Linked' = Linked \cup {e}
BY DEF TypeOK, add, Linked

LEMMA LinkedDetach ==
  ASSUME TypeOK, Disjoint, NEW e \in table[last_purged_hash], Detach(e)
  PROVE  Linked' = Linked \ {e} /\ e \in Linked
<1>1. last_purged_hash \in Buckets
  BY DEF TypeOK
<1>2. \A b \in Buckets : table'[b] = table[b] \ {e}
  <2> SUFFICES ASSUME NEW b \in Buckets PROVE table'[b] = table[b] \ {e}
    OBVIOUS
  <2>1. CASE b = last_purged_hash
    BY <2>1 DEF TypeOK, Detach
  <2>2. CASE b # last_purged_hash
    <3>1. e \notin table[b]
      BY <1>1, <2>2 DEF Disjoint
    <3>2. table'[b] = table[b]
      BY <2>2 DEF TypeOK, Detach
    <3> QED BY <3>1, <3>2
  <2> QED BY <2>1, <2>2
<1> QED BY <1>1, <1>2 DEF Linked

\* The visit of an entry of the bucket: it is detached or kept.
Visit(e) ==
  /\ pc = "bucket" /\ e \in todo /\ todo' = todo \ {e}
  /\ Detach(e) \/ Keep
  /\ UNCHANGED <<idle_entries, idle_null, idle_entries_in_use, freed, pc,
                 running, purgeVars, walkVars, num_idle_transitions,
                 num_purged>>

VisitAction(e) ==
  \/ \E s \in States, n \in 0 .. MaxQueued : VisitNotActive(e, s, n)
  \/ VisitExpired(e)
  \/ \E n \in 0 .. MaxQueued : VisitActive(e, n)

LEMMA VisitIs ==
  ASSUME NEW e \in Entries, VisitAction(e)
  PROVE  Visit(e)
<1>1. CASE \E s \in States, n \in 0 .. MaxQueued : VisitNotActive(e, s, n)
  BY <1>1 DEF VisitNotActive, Visit
<1>2. CASE VisitExpired(e)
  BY <1>2 DEF VisitExpired, Visit
<1>3. CASE \E n \in 0 .. MaxQueued : VisitActive(e, n)
  BY <1>3 DEF VisitActive, Visit, Keep, vectors, counters
<1> QED BY <1>1, <1>2, <1>3 DEF VisitAction

\* The steps of the walkers, and of the threads that have entries in a queue.
WalkStep ==
  \E w \in Walkers :
    \/ Walk(w)
    \/ \E b \in Buckets : WalkBegin(w, b)
    \/ \E e \in Entries : WalkHead(w, e)

LEMMA WalkFrame == WalkStep => UNCHANGED inlineVars
BY DEF WalkStep, Walk, WalkBegin, WalkSkip, WalkLock, WalkHead, WalkTake,
       WalkUnlock, WalkEnd, WalkRelease, WalkReturn

QueueStep ==
  \E e \in Entries :
    \/ \E s \in States, n \in 0 .. MaxQueued : Traffic(e, s, n)
    \/ Dequeued(e)

LEMMA QueueFrame ==
  QueueStep => UNCHANGED <<table, counters, vectors, running, pc, purgeVars,
                           todo, fresh, walkVars>>
BY DEF QueueStep, Traffic, Dequeued
-----------------------------------------------------------------------------
(***************************************************************************)
(* The containers.                                                         *)
(***************************************************************************)

LEMMA ContainersFrame ==
  ASSUME Disjoint, LoopEntries,
         UNCHANGED <<table, vectors, pc, todo, fresh, last_purged_hash>>
  PROVE  Disjoint' /\ LoopEntries'
BY LinkedSame DEF Disjoint, LoopEntries, Batch, vectors

LEMMA ContainersAdd ==
  ASSUME TypeOK, Disjoint, LoopEntries,
         NEW e \in Entries, NEW b \in Buckets, add(e, b)
  PROVE  Disjoint' /\ LoopEntries'
<1>1. Linked' = Linked \cup {e}
  BY LinkedAdd
<1>2. UNCHANGED <<vectors, pc, todo, fresh>> /\ pc = "packets"
  BY DEF add
<1>3. \A x, y \in Buckets : x # y => table'[x] \cap table'[y] = {}
  BY DEF TypeOK, Disjoint, add, Linked
<1>4. e \notin idle_entries_shadow \cup idle_entries \cup idle_entries_in_use
                 \cup freed
  BY DEF add
<1>5. Batch = {} /\ Batch' = {}
  BY <1>2 DEF Batch
<1> QED BY <1>1, <1>2, <1>3, <1>4, <1>5 DEF Disjoint, LoopEntries, vectors

LEMMA ContainersVisit ==
  ASSUME TypeOK, Disjoint, LoopEntries, NEW e \in Entries, Visit(e)
  PROVE  Disjoint' /\ LoopEntries'
<1> USE DEF Visit, purgeVars
<1>1. e \in table[last_purged_hash] /\ Batch = {} /\ Batch' = {}
  BY DEF LoopEntries, Batch
<1>2. CASE Keep
  BY <1>1, <1>2, LinkedSame DEF Disjoint, LoopEntries, Keep
<1>3. CASE Detach(e)
  <2>1. Linked' = Linked \ {e} /\ e \in Linked
    BY <1>1, <1>3, LinkedDetach
  <2>2. \A x, y \in Buckets : x # y => table'[x] \cap table'[y] = {}
    BY <1>3 DEF TypeOK, Disjoint, Detach
  <2>3. todo' \subseteq table'[last_purged_hash]
    BY <1>3 DEF TypeOK, LoopEntries, Detach
  <2>4. LoopEntries'
    BY <2>3, <1>3 DEF LoopEntries, Detach
  <2> QED BY <1>1, <1>3, <2>1, <2>2, <2>4 DEF Disjoint, Detach
<1> QED BY <1>2, <1>3

LEMMA ContainersScan ==
  ASSUME TypeOK, Disjoint, LoopEntries,
         \/ \E full \in BOOLEAN : PurgeBegin(full)
         \/ Shutdown \/ SkipBucket \/ LockBucket \/ UnlockBucket \/ ScanEnd
  PROVE  Disjoint' /\ LoopEntries'
<1> USE LinkedSame DEF vectors, purgeVars
<1>1. CASE (\E full \in BOOLEAN : PurgeBegin(full)) \/ Shutdown
  <2>1. \E force, full : BeginScan(force, full)
    BY <1>1 DEF PurgeBegin, Shutdown
  <2>2. pc = "packets" /\ pc' = "scan" /\ Batch = {} /\ Batch' = {}
    BY <1>1, <2>1 DEF PurgeBegin, Shutdown, BeginScan, Batch
  <2>3. Linked' = Linked /\ table' = table
    BY <2>1 DEF BeginScan
  <2> QED BY <2>1, <2>2, <2>3 DEF BeginScan, Disjoint, LoopEntries
<1>2. CASE SkipBucket
  BY <1>2 DEF SkipBucket, Disjoint, LoopEntries, Batch
<1>3. CASE LockBucket
  BY <1>3 DEF LockBucket, Disjoint, LoopEntries, Batch
<1>4. CASE UnlockBucket
  BY <1>4 DEF UnlockBucket, Disjoint, LoopEntries, Batch
<1>5. CASE ScanEnd
  BY <1>5 DEF ScanEnd, Disjoint, LoopEntries, Batch
<1> QED BY <1>1, <1>2, <1>3, <1>4, <1>5

LEMMA ContainersPurge ==
  ASSUME TypeOK, Disjoint, LoopEntries,
         \/ TakeIdle \/ SweepBegin \/ PurgeEnd \/ cleanup
         \/ \E e \in Entries : \/ \E n \in 0 .. MaxQueued : SetIdle(e, n)
                               \/ PurgeEntry(e) \/ SweepEntry(e)
  PROVE  Disjoint' /\ LoopEntries'
<1> USE LinkedSame DEF vectors, purgeVars, Batch
<1>1. CASE TakeIdle
  BY <1>1 DEF TakeIdle, Disjoint, LoopEntries
<1>2. CASE SweepBegin
  BY <1>2 DEF SweepBegin, Disjoint, LoopEntries
<1>3. CASE PurgeEnd
  BY <1>3 DEF PurgeEnd, Disjoint, LoopEntries
<1>4. CASE cleanup
  <2>1. Linked' = {}
    BY <1>4 DEF cleanup, Linked
  <2> QED BY <1>4, <2>1 DEF cleanup, Disjoint, LoopEntries
<1>5. ASSUME NEW e \in Entries, NEW n \in 0 .. MaxQueued, SetIdle(e, n)
      PROVE  Disjoint' /\ LoopEntries'
  BY <1>5 DEF SetIdle, Disjoint, LoopEntries
<1>6. ASSUME NEW e \in Entries, PurgeEntry(e)
      PROVE  Disjoint' /\ LoopEntries'
  BY <1>6 DEF PurgeEntry, Disjoint, LoopEntries
<1>7. ASSUME NEW e \in Entries, SweepEntry(e)
      PROVE  Disjoint' /\ LoopEntries'
  BY <1>7 DEF SweepEntry, Disjoint, LoopEntries
<1> QED BY <1>1, <1>2, <1>3, <1>4, <1>5, <1>6, <1>7
-----------------------------------------------------------------------------
(***************************************************************************)
(* The walkers and the bucket locks.                                       *)
(***************************************************************************)

\* A step of the inline thread leaves the walkers alone, if no entry leaves a
\* bucket that a walker has locked, and no such bucket is locked for writing.
LEMMA WalkersFrame ==
  ASSUME WalkersLock, UNCHANGED walkVars,
         \A w \in Walkers : w_pc[w] = "locked" =>
           /\ table[w_slot[w]] \subseteq table'[w_slot[w]]
           /\ ~WriteLocked(w_slot[w])'
  PROVE  WalkersLock'
BY DEF WalkersLock, walkVars, WriteLocked

LEMMA WalkersInline ==
  ASSUME TypeOK, LoopEntries, WalkersLock,
         \/ QueueStep
         \/ \E e \in Entries, b \in Buckets : add(e, b)
         \/ \E full \in BOOLEAN : PurgeBegin(full)
         \/ Shutdown \/ SkipBucket \/ LockBucket \/ UnlockBucket \/ ScanEnd
         \/ TakeIdle \/ SweepBegin \/ PurgeEnd \/ cleanup
         \/ \E e \in Entries : \/ Visit(e)
                               \/ \E n \in 0 .. MaxQueued : SetIdle(e, n)
                               \/ PurgeEntry(e) \/ SweepEntry(e)
  PROVE  WalkersLock'
<1> USE DEF walkVars, purgeVars, WriteLocked
<1>1. CASE QueueStep
  BY <1>1, QueueFrame, WalkersFrame DEF WalkersLock
<1>2. ASSUME NEW e \in Entries, NEW b \in Buckets, add(e, b)
      PROVE  WalkersLock'
  <2>1. \A c \in Buckets : table[c] \subseteq table'[c]
    BY <1>2 DEF TypeOK, add
  <2> QED BY <1>2, <2>1, WalkersFrame DEF add, WalkersLock
<1>3. CASE (\E full \in BOOLEAN : PurgeBegin(full)) \/ Shutdown
  BY <1>3, WalkersFrame DEF PurgeBegin, Shutdown, BeginScan
<1>4. CASE SkipBucket
  BY <1>4, WalkersFrame DEF SkipBucket
<1>5. CASE LockBucket
  BY <1>5, WalkersFrame DEF LockBucket, ReadLocked
<1>6. CASE UnlockBucket \/ ScanEnd
  BY <1>6, WalkersFrame DEF UnlockBucket, ScanEnd
<1>7. CASE TakeIdle \/ SweepBegin \/ PurgeEnd
  BY <1>7, WalkersFrame DEF TakeIdle, SweepBegin, PurgeEnd
<1>8. CASE cleanup
  BY <1>8, WalkersFrame DEF cleanup
<1>9. ASSUME NEW e \in Entries, Visit(e)
      PROVE  WalkersLock'
  <2>1. \A w \in Walkers : w_pc[w] = "locked" =>
          w_slot[w] \in Buckets /\ w_slot[w] # last_purged_hash
    BY <1>9 DEF WalkersLock, Visit
  <2>2. \A b \in Buckets : b # last_purged_hash => table'[b] = table[b]
    BY <1>9 DEF TypeOK, Visit, Detach, Keep
  <2> QED BY <1>9, <2>1, <2>2, WalkersFrame DEF Visit, WalkersLock
<1>10. ASSUME NEW e \in Entries, NEW n \in 0 .. MaxQueued, SetIdle(e, n)
       PROVE  WalkersLock'
  BY <1>10, WalkersFrame DEF SetIdle
<1>11. ASSUME NEW e \in Entries, PurgeEntry(e) \/ SweepEntry(e)
       PROVE  WalkersLock'
  BY <1>11, WalkersFrame DEF PurgeEntry, SweepEntry
<1> QED BY <1>1, <1>2, <1>3, <1>4, <1>5, <1>6, <1>7, <1>8, <1>9, <1>10, <1>11

LEMMA WalkersWalk ==
  ASSUME TypeOK, WalkersLock, WalkStep
  PROVE  WalkersLock'
<1>1. PICK v \in Walkers : \/ Walk(v)
                           \/ \E b \in Buckets : WalkBegin(v, b)
                           \/ \E e \in Entries : WalkHead(v, e)
  BY DEF WalkStep
<1>2. UNCHANGED <<table, pc, last_purged_hash>>
  BY WalkFrame DEF inlineVars, purgeVars
<1> USE DEF TypeOK, WalkersLock, WriteLocked
<1>3. CASE \E b \in Buckets : WalkBegin(v, b)
  BY <1>2, <1>3 DEF WalkBegin
<1>4. CASE \E e \in Entries : WalkHead(v, e)
  BY <1>2, <1>4 DEF WalkHead
<1>5. CASE WalkSkip(v)
  BY <1>2, <1>5 DEF WalkSkip
<1>6. CASE WalkLock(v)
  <2>1. w_slot[v] \in Buckets
    BY <1>6, HashAssumption DEF WalkLock, Buckets
  <2> QED BY <1>2, <1>6, <2>1 DEF WalkLock
<1>7. CASE WalkUnlock(v)
  BY <1>2, <1>7 DEF WalkUnlock
<1>8. CASE WalkEnd(v)
  BY <1>2, <1>8 DEF WalkEnd
<1>9. CASE WalkReturn(v)
  BY <1>2, <1>9 DEF WalkReturn
<1>10. CASE \E e \in Entries : WalkTake(v, e)
  BY <1>2, <1>10 DEF WalkTake
<1>11. CASE \E e \in Entries : WalkRelease(v, e)
  BY <1>2, <1>11 DEF WalkRelease
<1> QED BY <1>1, <1>3, <1>4, <1>5, <1>6, <1>7, <1>8, <1>9, <1>10, <1>11 DEF Walk
-----------------------------------------------------------------------------
(***************************************************************************)
(* The uses.                                                               *)
(***************************************************************************)

LEMMA HoldersFinite ==
  \A e : IsFiniteSet(Holders(e)) /\ Cardinality(Holders(e)) \in Nat
<1> SUFFICES ASSUME NEW e
             PROVE  IsFiniteSet(Holders(e)) /\ Cardinality(Holders(e)) \in Nat
  OBVIOUS
<1>1. Holders(e) \subseteq Walkers
  BY DEF Holders
<1> QED BY <1>1, FS_Subset, FS_CardinalityType, HashAssumption

LEMMA UsesFrame ==
  ASSUME UsesCounted, UNCHANGED <<uses, queued, w_refs>>
  PROVE  UsesCounted'
BY DEF UsesCounted, Holders

LEMMA UsesEnqueued ==
  ASSUME TypeOK, UsesCounted, UNCHANGED w_refs,
         NEW e \in Entries, NEW n \in Int,
         queued' = [queued EXCEPT ![e] = @ + n],
         uses' = [uses EXCEPT ![e] = @ + n]
  PROVE  UsesCounted'
<1>1. \A x \in Entries : Holders(x)' = Holders(x)
  BY DEF Holders
<1> QED BY <1>1, HoldersFinite DEF TypeOK, UsesCounted

LEMMA UsesTake ==
  ASSUME TypeOK, WalkersLock, UsesCounted,
         NEW w \in Walkers, NEW e \in Entries, WalkTake(w, e)
  PROVE  UsesCounted'
<1>1. Holders(e)' = Holders(e) \cup {w} /\ w \notin Holders(e)
  BY DEF TypeOK, WalkersLock, WalkTake, Holders
<1>2. \A x \in Entries : x # e => Holders(x)' = Holders(x)
  BY DEF TypeOK, WalkTake, Holders
<1>3. Cardinality(Holders(e)') = Cardinality(Holders(e)) + 1
  BY <1>1, HoldersFinite, FS_AddElement
<1>4. UNCHANGED queued
  BY DEF WalkTake, inlineVars
<1> QED BY <1>2, <1>3, <1>4, HoldersFinite DEF TypeOK, UsesCounted, WalkTake

LEMMA UsesRelease ==
  ASSUME TypeOK, UsesCounted,
         NEW w \in Walkers, NEW e \in Entries, WalkRelease(w, e)
  PROVE  UsesCounted' /\ uses[e] > 0
<1>1. Holders(e)' = Holders(e) \ {w} /\ w \in Holders(e)
  BY DEF TypeOK, WalkRelease, Holders
<1>2. \A x \in Entries : x # e => Holders(x)' = Holders(x)
  BY DEF TypeOK, WalkRelease, Holders
<1>3. Cardinality(Holders(e)') = Cardinality(Holders(e)) - 1
  BY <1>1, HoldersFinite, FS_RemoveElement
<1>4. UNCHANGED queued
  BY DEF WalkRelease, inlineVars
<1>5. Cardinality(Holders(e)) > 0
  BY <1>1, HoldersFinite, FS_EmptySet
<1> QED BY <1>2, <1>3, <1>4, <1>5, HoldersFinite
        DEF TypeOK, UsesCounted, WalkRelease

LEMMA UsesWalk ==
  ASSUME TypeOK, WalkersLock, UsesCounted, WalkStep
  PROVE  UsesCounted' /\ uses' \in [Entries -> Nat]
<1>1. PICK v \in Walkers : \/ Walk(v)
                           \/ \E b \in Buckets : WalkBegin(v, b)
                           \/ \E e \in Entries : WalkHead(v, e)
  BY DEF WalkStep
<1>2. CASE \E e \in Entries : WalkTake(v, e)
  <2>1. uses' \in [Entries -> Nat]
    BY <1>2 DEF TypeOK, WalkTake
  <2> QED BY <1>2, <2>1, UsesTake
<1>3. ASSUME NEW e \in Entries, WalkRelease(v, e)
      PROVE  UsesCounted' /\ uses' \in [Entries -> Nat]
  <2>1. UsesCounted' /\ uses[e] > 0
    BY <1>3, UsesRelease
  <2> QED BY <1>3, <2>1 DEF TypeOK, WalkRelease
<1>4. CASE \/ \E b \in Buckets : WalkBegin(v, b)
           \/ \E e \in Entries : WalkHead(v, e)
           \/ WalkSkip(v) \/ WalkLock(v) \/ WalkUnlock(v) \/ WalkEnd(v)
           \/ WalkReturn(v)
  <2>1. UNCHANGED <<uses, queued, w_refs>>
    BY <1>4 DEF WalkBegin, WalkHead, WalkSkip, WalkLock, WalkUnlock, WalkEnd,
       WalkReturn, inlineVars
  <2> QED BY <2>1, UsesFrame DEF TypeOK
<1> QED BY <1>1, <1>2, <1>3, <1>4 DEF Walk
-----------------------------------------------------------------------------
(***************************************************************************)
(* The references.                                                         *)
(***************************************************************************)

LEMMA HeadsLinked ==
  ASSUME WalkersLock, NEW w \in Walkers, NEW e \in w_head[w]
  PROVE  w_slot[w] \in Buckets /\ e \in table[w_slot[w]] /\ e \in Linked
BY DEF WalkersLock, Linked

\* The test of getUses() is enough.
LEMMA UnusedIsFree ==
  ASSUME TypeOK, UsesCounted, NEW e \in Entries, uses[e] = 0
  PROVE  queued[e] = 0 /\ \A w \in Walkers : e \notin w_refs[w]
<1>1. Cardinality(Holders(e)) = 0 /\ queued[e] = 0
  BY HoldersFinite DEF TypeOK, UsesCounted
<1>2. Holders(e) = {}
  BY <1>1, HoldersFinite, FS_EmptySet
<1> QED BY <1>1, <1>2 DEF Holders

\* References are made to entries that are in the table or just left it.
LEMMA FreedFrame ==
  ASSUME TypeOK, Disjoint, NoUseAfterFree, freed' = freed,
         \A e \in Entries :
           Referenced(e)' => \/ Referenced(e)
                             \/ e \in Linked \cup idle_entries_shadow
  PROVE  NoUseAfterFree'
BY DEF TypeOK, Disjoint, NoUseAfterFree

LEMMA FreedQueue ==
  ASSUME TypeOK, Disjoint, LoopEntries, NoUseAfterFree,
         \/ QueueStep
         \/ \E e \in Entries : VisitAction(e)
         \/ \E e \in Entries, n \in 0 .. MaxQueued : SetIdle(e, n)
  PROVE  NoUseAfterFree'
<1>1. PICK e \in Entries :
        \/ \E s \in States, n \in 0 .. MaxQueued : Traffic(e, s, n)
        \/ Dequeued(e) \/ VisitAction(e)
        \/ \E n \in 0 .. MaxQueued : SetIdle(e, n)
  BY DEF QueueStep
<1>2. UNCHANGED <<walkVars, freed>>
  BY <1>1 DEF Traffic, Dequeued, VisitAction, VisitNotActive, VisitExpired,
     VisitActive, SetIdle, vectors
<1>3. \A x \in Entries \ {e} : queued'[x] = queued[x]
  BY <1>1 DEF TypeOK, Traffic, Dequeued, VisitAction, VisitNotActive,
     VisitExpired, VisitActive, SetIdle, Enqueued
<1>4. e \in Linked \cup idle_entries_shadow \/ queued'[e] <= queued[e]
  <2>1. CASE \E s \in States, n \in 0 .. MaxQueued : Traffic(e, s, n)
    BY <2>1 DEF Traffic
  <2>2. CASE Dequeued(e)
    BY <2>2 DEF Dequeued, TypeOK
  <2>3. CASE VisitAction(e)
    <3>1. pc = "bucket" /\ e \in todo
      BY <2>3, VisitIs DEF Visit
    <3> QED BY <3>1 DEF LoopEntries, TypeOK, Linked
  <2>4. CASE \E n \in 0 .. MaxQueued : SetIdle(e, n)
    BY <2>4 DEF SetIdle, LoopEntries
  <2> QED BY <1>1, <2>1, <2>2, <2>3, <2>4
<1>5. \A x \in Entries : Referenced(x)' =>
        Referenced(x) \/ x \in Linked \cup idle_entries_shadow
  <2> SUFFICES ASSUME NEW x \in Entries, Referenced(x)',
                      x \notin Linked \cup idle_entries_shadow
               PROVE  Referenced(x)
    OBVIOUS
  <2>1. queued'[x] \in Nat /\ queued[x] \in Nat
    BY <1>1 DEF TypeOK, Traffic, Dequeued, VisitAction, VisitNotActive,
       VisitExpired, VisitActive, SetIdle, Enqueued
  <2>2. queued'[x] > 0 => queued[x] > 0
    BY <1>3, <1>4, <2>1
  <2> QED BY <1>2, <2>2 DEF Referenced, walkVars
<1> QED BY <1>2, <1>5, FreedFrame

\* A walker comes by an entry in the table only.
LEMMA WalkRefs ==
  ASSUME TypeOK, WalkersLock, WalkStep
  PROVE  \A w \in Walkers : w_head'[w] \cup w_refs'[w]
                              \subseteq w_head[w] \cup w_refs[w] \cup Linked
<1>1. PICK v \in Walkers : \/ Walk(v)
                           \/ \E b \in Buckets : WalkBegin(v, b)
                           \/ \E e \in Entries : WalkHead(v, e)
  BY DEF WalkStep
<1>2. CASE \E e \in Entries : WalkHead(v, e)
  <2>1. w_slot[v] \in Buckets
    BY <1>2 DEF WalkHead, WalkersLock
  <2> QED BY <1>2, <2>1 DEF TypeOK, WalkHead, Linked
<1>3. CASE \E e \in Entries : WalkTake(v, e)
  BY <1>3 DEF TypeOK, WalkTake
<1>4. CASE \E e \in Entries : WalkRelease(v, e)
  BY <1>4 DEF TypeOK, WalkRelease
<1>5. CASE \/ \E b \in Buckets : WalkBegin(v, b)
           \/ WalkSkip(v) \/ WalkLock(v) \/ WalkUnlock(v) \/ WalkEnd(v)
           \/ WalkReturn(v)
  BY <1>5 DEF WalkBegin, WalkSkip, WalkLock, WalkUnlock, WalkEnd, WalkReturn
<1> QED BY <1>1, <1>2, <1>3, <1>4, <1>5 DEF Walk

LEMMA FreedWalk ==
  ASSUME TypeOK, Disjoint, WalkersLock, NoUseAfterFree, WalkStep
  PROVE  NoUseAfterFree'
<1>1. UNCHANGED <<freed, queued>>
  BY WalkFrame DEF inlineVars, vectors
<1>2. \A e \in Entries : Referenced(e)' => Referenced(e) \/ e \in Linked
  BY <1>1, WalkRefs DEF Referenced
<1> QED BY <1>1, <1>2, FreedFrame

LEMMA FreedPurge ==
  ASSUME TypeOK, Disjoint, LoopEntries, WalkersLock, UsesCounted,
         NoUseAfterFree,
         NEW e \in Entries, PurgeEntry(e) \/ SweepEntry(e)
  PROVE  NoUseAfterFree'
<1>1. UNCHANGED <<queued, w_head, w_refs>>
  BY DEF PurgeEntry, SweepEntry, walkVars
<1>2. \A x : Referenced(x)' <=> Referenced(x)
  BY <1>1 DEF Referenced
<1>3. e \notin Linked
  BY DEF PurgeEntry, SweepEntry, Disjoint, LoopEntries, Batch
<1>4. CASE uses[e] = 0
  <2>1. queued[e] = 0 /\ \A w \in Walkers : e \notin w_refs[w]
    BY <1>4, UnusedIsFree
  <2>2. \A w \in Walkers : e \notin w_head[w]
    BY <1>3, HeadsLinked
  <2>3. ~Referenced(e)
    BY <2>1, <2>2 DEF Referenced
  <2>4. freed' = freed \cup {e}
    BY <1>4 DEF PurgeEntry, SweepEntry
  <2> QED BY <1>2, <2>3, <2>4 DEF NoUseAfterFree
<1>5. CASE uses[e] # 0
  <2>1. freed' = freed
    BY <1>5 DEF PurgeEntry, SweepEntry
  <2> QED BY <1>2, <2>1 DEF NoUseAfterFree
<1> QED BY <1>4, <1>5

\* The destructor runs when no thread is left that could hold an entry.
LEMMA FreedCleanup ==
  ASSUME TypeOK, WalkersLock, cleanup
  PROVE  NoUseAfterFree'
<1>1. /\ \A w \in Walkers : w_head'[w] = {} /\ w_refs'[w] = {}
      /\ \A e \in Entries : queued'[e] = 0
  BY DEF cleanup, WalkersLock, walkVars
<1>2. freed' \subseteq Entries
  BY DEF TypeOK, cleanup, Linked
<1> QED BY <1>1, <1>2 DEF NoUseAfterFree, Referenced

LEMMA FreedOther ==
  ASSUME NoUseAfterFree,
         \/ \E e \in Entries, b \in Buckets : add(e, b)
         \/ \E full \in BOOLEAN : PurgeBegin(full)
         \/ Shutdown \/ SkipBucket \/ LockBucket \/ UnlockBucket \/ ScanEnd
         \/ TakeIdle \/ SweepBegin \/ PurgeEnd
  PROVE  NoUseAfterFree'
<1>1. UNCHANGED <<freed, queued, w_head, w_refs>>
  BY DEF add, PurgeBegin, Shutdown, BeginScan, SkipBucket, LockBucket,
     UnlockBucket, ScanEnd, TakeIdle, SweepBegin, PurgeEnd, vectors, walkVars
<1> QED BY <1>1 DEF NoUseAfterFree, Referenced
-----------------------------------------------------------------------------
(***************************************************************************)
(* Expired hosts are in nobody's hands.                                    *)
(***************************************************************************)

\* An entry is not both detached and kept.
LEMMA NotBoth ==
  ASSUME TypeOK, Disjoint, LoopEntries, NEW e \in Entries, Visit(e),
         Keep, Detach(e)
  PROVE  FALSE
<1>1. e \in table[last_purged_hash] /\ last_purged_hash \in Buckets
  BY DEF TypeOK, LoopEntries, Visit
<1> QED BY <1>1 DEF TypeOK, Keep, Detach

LEMMA UnusedFrame ==
  ASSUME Disjoint, UnusedWhenExpired, running' => running,
         idle_entries_shadow' \cup idle_entries'
           \subseteq idle_entries_shadow \cup idle_entries,
         \A w \in Walkers : w_head'[w] \cup w_refs'[w]
                              \subseteq w_head[w] \cup w_refs[w] \cup Linked
  PROVE  UnusedWhenExpired'
BY DEF Disjoint, UnusedWhenExpired

LEMMA UnusedWalk ==
  ASSUME TypeOK, Disjoint, WalkersLock, UnusedWhenExpired, WalkStep
  PROVE  UnusedWhenExpired'
<1>1. UNCHANGED <<running, idle_entries_shadow, idle_entries>>
  BY WalkFrame DEF inlineVars, vectors
<1> QED BY <1>1, WalkRefs, UnusedFrame

LEMMA UnusedVisit ==
  ASSUME TypeOK, Disjoint, LoopEntries, WalkersLock, UsesCounted, IdleStates,
         UnusedWhenExpired, NEW e \in Entries, VisitAction(e)
  PROVE  UnusedWhenExpired'
<1>1. Visit(e)
  BY VisitIs
<1>2. UNCHANGED <<walkVars, running, idle_entries>>
  BY <1>1 DEF Visit
<1>3. CASE Keep
  BY <1>2, <1>3, UnusedFrame DEF Keep, walkVars
<1>4. CASE Detach(e) /\ NeedsUnused /\ running
  <2>1. ~force_idle
    BY <1>4 DEF IdleStates
  <2>2. VisitExpired(e)
    <3>1. CASE \E s \in States, n \in 0 .. MaxQueued : VisitNotActive(e, s, n)
      <4>1. Keep
        BY <2>1, <3>1 DEF VisitNotActive
      <4> QED BY <1>1, <1>4, <4>1, NotBoth
    <3>2. CASE \E n \in 0 .. MaxQueued : VisitActive(e, n)
      <4>1. Keep
        BY <3>2 DEF VisitActive, Keep, vectors, counters
      <4> QED BY <1>1, <1>4, <4>1, NotBoth
    <3> QED BY <3>1, <3>2 DEF VisitAction
  <2>3. uses[e] = 0
    BY <1>4, <2>1, <2>2 DEF VisitExpired
  <2>4. \A w \in Walkers : e \notin w_refs[w]
    BY <2>3, UnusedIsFree
  <2>5. \A w \in Walkers : e \notin w_head[w]
    <3> SUFFICES ASSUME NEW w \in Walkers, e \in w_head[w] PROVE FALSE
      OBVIOUS
    <3>1. w_slot[w] \in Buckets /\ e \in table[w_slot[w]]
      BY HeadsLinked
    <3>2. w_slot[w] # last_purged_hash
      BY <1>1 DEF WalkersLock, WriteLocked, Visit
    <3>3. e \in table[last_purged_hash] /\ last_purged_hash \in Buckets
      BY <1>1 DEF Visit, LoopEntries, TypeOK
    <3> QED BY <3>1, <3>2, <3>3 DEF Disjoint
  <2>6. idle_entries_shadow' = idle_entries_shadow \cup {e}
    BY <1>4 DEF Detach
  <2> QED BY <1>2, <2>4, <2>5, <2>6 DEF UnusedWhenExpired, walkVars
<1>5. CASE ~(NeedsUnused /\ running)
  BY <1>2, <1>5 DEF UnusedWhenExpired
<1> QED BY <1>1, <1>3, <1>4, <1>5 DEF Visit

LEMMA UnusedOther ==
  ASSUME TypeOK, Disjoint, UnusedWhenExpired,
         \/ QueueStep
         \/ \E e \in Entries, b \in Buckets : add(e, b)
         \/ \E full \in BOOLEAN : PurgeBegin(full)
         \/ Shutdown \/ SkipBucket \/ LockBucket \/ UnlockBucket \/ ScanEnd
         \/ TakeIdle \/ SweepBegin \/ PurgeEnd \/ cleanup
         \/ \E e \in Entries : \/ \E n \in 0 .. MaxQueued : SetIdle(e, n)
                               \/ PurgeEntry(e) \/ SweepEntry(e)
  PROVE  UnusedWhenExpired'
<1>1. /\ UNCHANGED walkVars /\ (running' => running)
      /\ idle_entries_shadow' \cup idle_entries'
           \subseteq idle_entries_shadow \cup idle_entries
  <2> USE DEF vectors, walkVars
  <2>1. CASE QueueStep
    BY <2>1, QueueFrame
  <2>2. CASE \/ \E e \in Entries, b \in Buckets : add(e, b)
             \/ \E full \in BOOLEAN : PurgeBegin(full)
             \/ Shutdown \/ cleanup
    BY <2>2 DEF add, PurgeBegin, Shutdown, BeginScan, cleanup
  <2>3. CASE SkipBucket \/ LockBucket \/ UnlockBucket \/ ScanEnd
    BY <2>3 DEF SkipBucket, LockBucket, UnlockBucket, ScanEnd
  <2>4. CASE TakeIdle \/ SweepBegin \/ PurgeEnd
    BY <2>4 DEF TakeIdle, SweepBegin, PurgeEnd
  <2>5. CASE \E e \in Entries : \/ \E n \in 0 .. MaxQueued : SetIdle(e, n)
                                \/ PurgeEntry(e) \/ SweepEntry(e)
    BY <2>5 DEF SetIdle, PurgeEntry, SweepEntry
  <2> QED BY <2>1, <2>2, <2>3, <2>4, <2>5
<1>2. \A w \in Walkers : w_head'[w] \cup w_refs'[w]
                            \subseteq w_head[w] \cup w_refs[w] \cup Linked
  BY <1>1 DEF walkVars
<1> QED BY <1>1, <1>2, UnusedFrame
-----------------------------------------------------------------------------
(***************************************************************************)
(* The entries that wait for their deletion.                               *)
(***************************************************************************)

\* Most steps do not change which entries wait, nor which are to become idle.
WaitingKept == Waiting' = Waiting /\ NotIdleYet' = NotIdleYet

LEMMA WaitingOther ==
  ASSUME TypeOK, Disjoint, LoopEntries,
         \/ QueueStep \/ WalkStep
         \/ \E e \in Entries, b \in Buckets : add(e, b)
         \/ \E full \in BOOLEAN : PurgeBegin(full)
         \/ Shutdown \/ SkipBucket \/ LockBucket \/ UnlockBucket \/ ScanEnd
         \/ TakeIdle \/ SweepBegin \/ PurgeEnd
  PROVE  WaitingKept
<1> USE DEF WaitingKept, Waiting, NotIdleYet, Batch, vectors
<1>1. CASE QueueStep
  BY <1>1, QueueFrame
<1>2. CASE WalkStep
  BY <1>2, WalkFrame DEF inlineVars
<1>3. CASE \E e \in Entries, b \in Buckets : add(e, b)
  BY <1>3 DEF add
<1>4. CASE (\E full \in BOOLEAN : PurgeBegin(full)) \/ Shutdown
  BY <1>4 DEF PurgeBegin, Shutdown, BeginScan, LoopEntries
<1>5. CASE SkipBucket \/ LockBucket \/ UnlockBucket
  BY <1>5 DEF SkipBucket, LockBucket, UnlockBucket
<1>6. CASE ScanEnd
  BY <1>6 DEF ScanEnd
<1>7. CASE TakeIdle
  BY <1>7 DEF TakeIdle
<1>8. CASE SweepBegin \/ PurgeEnd
  BY <1>8 DEF SweepBegin, PurgeEnd
<1> QED BY <1>1, <1>2, <1>3, <1>4, <1>5, <1>6, <1>7, <1>8

\* A detached entry does not wait yet.
LEMMA WaitingVisit ==
  ASSUME TypeOK, Disjoint, LoopEntries, NEW e \in Entries, Visit(e)
  PROVE  /\ Waiting' = Waiting /\ e \notin Waiting \cup NotIdleYet
         /\ NotIdleYet' = IF Keep THEN NotIdleYet ELSE NotIdleYet \cup {e}
<1>1. e \in Linked
  BY DEF TypeOK, LoopEntries, Visit, Linked
<1>2. e \notin idle_entries_shadow \cup idle_entries \cup Batch
                 \cup idle_entries_in_use
  BY <1>1 DEF Disjoint
<1>3. /\ pc = "bucket" /\ pc' = "bucket" /\ fresh \subseteq idle_entries_shadow
      /\ UNCHANGED <<idle_entries, idle_entries_in_use>>
  BY DEF Visit, LoopEntries
<1>4. Batch = {} /\ Batch' = {} /\ NotIdleYet = fresh /\ NotIdleYet' = fresh'
  BY <1>3 DEF Batch, NotIdleYet
<1>5. CASE Keep
  BY <1>2, <1>3, <1>4, <1>5 DEF Keep, Waiting
<1>6. CASE Detach(e) /\ ~Keep
  BY <1>2, <1>3, <1>4, <1>6 DEF Detach, Waiting
<1> QED BY <1>5, <1>6 DEF Visit

LEMMA WaitingSetIdle ==
  ASSUME TypeOK, Disjoint, LoopEntries,
         NEW e \in Entries, NEW n \in 0 .. MaxQueued, SetIdle(e, n)
  PROVE  /\ Waiting' = Waiting \cup {e} /\ e \notin Waiting
         /\ NotIdleYet' = NotIdleYet \ {e} /\ e \in NotIdleYet
BY DEF SetIdle, Waiting, NotIdleYet, Batch, Disjoint, LoopEntries, vectors

LEMMA WaitingPurge ==
  ASSUME TypeOK, Disjoint, LoopEntries,
         NEW e \in Entries, PurgeEntry(e) \/ SweepEntry(e)
  PROVE  /\ Waiting' = (IF uses[e] = 0 THEN Waiting \ {e} ELSE Waiting)
         /\ e \in Waiting /\ NotIdleYet = {} /\ NotIdleYet' = {}
<1>1. CASE PurgeEntry(e)
  BY <1>1 DEF PurgeEntry, Waiting, NotIdleYet, Batch, Disjoint
<1>2. CASE SweepEntry(e)
  BY <1>2 DEF SweepEntry, Waiting, NotIdleYet, Batch, Disjoint, LoopEntries
<1> QED BY <1>1, <1>2

LEMMA IdleOther ==
  ASSUME TypeOK, Disjoint, LoopEntries, IdleStates,
         \/ QueueStep \/ WalkStep
         \/ \E e \in Entries, b \in Buckets : add(e, b)
         \/ \E full \in BOOLEAN : PurgeBegin(full)
         \/ Shutdown \/ SkipBucket \/ LockBucket \/ UnlockBucket \/ ScanEnd
         \/ TakeIdle \/ SweepBegin \/ PurgeEnd
  PROVE  IdleStates'
<1>1. Waiting' = Waiting /\ NotIdleYet' = NotIdleYet
  BY WaitingOther DEF WaitingKept
<1>2. /\ running' => running
      /\ force_idle' => ~running'
  <2> USE DEF purgeVars, IdleStates
  <2>1. CASE QueueStep
    BY <2>1, QueueFrame
  <2>2. CASE WalkStep
    BY <2>2, WalkFrame DEF inlineVars
  <2>3. CASE \/ \E e \in Entries, b \in Buckets : add(e, b)
             \/ \E full \in BOOLEAN : PurgeBegin(full)
             \/ Shutdown
    BY <2>3 DEF add, PurgeBegin, Shutdown, BeginScan
  <2>4. CASE \/ SkipBucket \/ LockBucket \/ UnlockBucket \/ ScanEnd
             \/ TakeIdle \/ SweepBegin \/ PurgeEnd
    BY <2>4 DEF SkipBucket, LockBucket, UnlockBucket, ScanEnd, TakeIdle,
       SweepBegin, PurgeEnd
  <2> QED BY <2>1, <2>2, <2>3, <2>4
<1>3. \A e \in Waiting \cup NotIdleYet : state'[e] = state[e]
  <2>1. CASE QueueStep
    <3>1. PICK e \in Entries :
            \/ \E s \in States, n \in 0 .. MaxQueued : Traffic(e, s, n)
            \/ Dequeued(e)
      BY <2>1 DEF QueueStep
    <3>2. CASE Dequeued(e)
      BY <3>2 DEF Dequeued
    <3>3. CASE \E s \in States, n \in 0 .. MaxQueued : Traffic(e, s, n)
      <4>1. e \in Linked /\ NotIdleYet = {}
        BY <3>3 DEF Traffic, NotIdleYet
      <4>2. e \notin Waiting
        BY <4>1 DEF Disjoint, Waiting
      <4>3. Waiting \subseteq Entries
        BY DEF TypeOK, Waiting, Batch
      <4> QED BY <3>3, <4>1, <4>2, <4>3 DEF Traffic, TypeOK
    <3> QED BY <3>1, <3>2, <3>3
  <2>2. CASE ~QueueStep
    <3>1. state' = state
      <4>1. CASE WalkStep
        BY <4>1, WalkFrame DEF inlineVars
      <4> QED BY <2>2, <4>1 DEF add, PurgeBegin, Shutdown, BeginScan, SkipBucket,
              LockBucket, UnlockBucket, ScanEnd, TakeIdle, SweepBegin, PurgeEnd
    <3> QED BY <3>1
  <2> QED BY <2>1, <2>2
<1> QED BY <1>1, <1>2, <1>3 DEF IdleStates

LEMMA IdleVisit ==
  ASSUME TypeOK, Disjoint, LoopEntries, IdleStates,
         NEW e \in Entries, VisitAction(e)
  PROVE  IdleStates'
<1>1. Visit(e)
  BY VisitIs
<1>2. /\ Waiting' = Waiting /\ e \notin Waiting \cup NotIdleYet
      /\ NotIdleYet' = IF Keep THEN NotIdleYet ELSE NotIdleYet \cup {e}
  BY <1>1, WaitingVisit
<1>3. UNCHANGED <<running, force_idle>>
  BY <1>1 DEF Visit, purgeVars
<1>4. \A x \in Waiting \cup NotIdleYet : state'[x] = state[x]
  <2>1. Waiting \cup NotIdleYet \subseteq Entries
    BY DEF TypeOK, Waiting, Batch, NotIdleYet
  <2>2. CASE \E s \in States, n \in 0 .. MaxQueued : VisitNotActive(e, s, n)
    BY <1>2, <2>1, <2>2 DEF TypeOK, VisitNotActive
  <2>3. CASE VisitExpired(e) \/ \E n \in 0 .. MaxQueued : VisitActive(e, n)
    BY <2>3 DEF VisitExpired, VisitActive
  <2> QED BY <2>2, <2>3 DEF VisitAction
<1>5. running /\ ~Keep => state'[e] = active
  <2> SUFFICES ASSUME running, ~Keep PROVE state'[e] = active
    OBVIOUS
  <2>1. ~force_idle
    BY DEF IdleStates
  <2>2. VisitExpired(e)
    BY <2>1 DEF VisitAction, VisitNotActive, VisitActive, Keep, vectors, counters
  <2> QED BY <2>2 DEF VisitExpired
<1> QED BY <1>2, <1>3, <1>4, <1>5 DEF IdleStates

\* An entry unlinked while the interface runs was active, hence it can become
\* idle; the forced purge of shutdown() finds the interface stopped, and then
\* set_state() accepts any state.
LEMMA IdleSetIdle ==
  ASSUME TypeOK, Disjoint, LoopEntries, IdleStates,
         NEW e \in Entries, NEW n \in 0 .. MaxQueued, SetIdle(e, n)
  PROVE  IdleStates'
<1>1. /\ Waiting' = Waiting \cup {e} /\ e \notin Waiting
      /\ NotIdleYet' = NotIdleYet \ {e} /\ e \in NotIdleYet
  BY WaitingSetIdle
<1>2. set_state(e, idle) = idle
  BY <1>1 DEF IdleStates, set_state, active, idle
<1>3. state'[e] = idle /\ \A x \in Entries \ {e} : state'[x] = state[x]
  BY <1>2 DEF TypeOK, SetIdle
<1>4. UNCHANGED <<running, force_idle>>
  BY DEF SetIdle, purgeVars
<1>5. Waiting \cup NotIdleYet \subseteq Entries
  BY DEF TypeOK, Waiting, Batch, NotIdleYet
<1> QED BY <1>1, <1>3, <1>4, <1>5 DEF IdleStates

LEMMA IdlePurge ==
  ASSUME TypeOK, Disjoint, LoopEntries, IdleStates,
         \/ cleanup
         \/ \E e \in Entries : PurgeEntry(e) \/ SweepEntry(e)
  PROVE  IdleStates'
<1>1. UNCHANGED <<state, running, force_idle>>
  BY DEF PurgeEntry, SweepEntry, cleanup, purgeVars
<1>2. Waiting' \subseteq Waiting /\ NotIdleYet' = {}
  <2>1. CASE cleanup
    BY <2>1 DEF cleanup, Waiting, Batch, NotIdleYet
  <2> QED BY <2>1, WaitingPurge
<1> QED BY <1>1, <1>2 DEF IdleStates
-----------------------------------------------------------------------------
(***************************************************************************)
(* The counters.                                                           *)
(***************************************************************************)

LEMMA ContainersFinite ==
  ASSUME TypeOK
  PROVE  /\ IsFiniteSet(Linked) /\ Cardinality(Linked) \in Nat
         /\ IsFiniteSet(Waiting) /\ Cardinality(Waiting) \in Nat
<1>1. Linked \subseteq Entries /\ Waiting \subseteq Entries
  BY DEF TypeOK, Linked, Waiting, Batch
<1> QED BY <1>1, FS_Subset, FS_CardinalityType, HashAssumption

LEMMA CountsOther ==
  ASSUME TypeOK, Disjoint, LoopEntries, Counts,
         \/ QueueStep \/ WalkStep
         \/ \E full \in BOOLEAN : PurgeBegin(full)
         \/ Shutdown \/ SkipBucket \/ LockBucket \/ UnlockBucket \/ ScanEnd
         \/ TakeIdle \/ SweepBegin \/ PurgeEnd
  PROVE  Counts' /\ UNCHANGED counters
<1>1. Waiting' = Waiting
  BY WaitingOther DEF WaitingKept
<1>2. /\ UNCHANGED <<table, counters>>
      /\ pc' # "destroyed" => pc # "destroyed"
  <2>1. CASE QueueStep
    BY <2>1, QueueFrame
  <2>2. CASE WalkStep
    BY <2>2, WalkFrame DEF inlineVars
  <2> QED BY <2>1, <2>2 DEF PurgeBegin, Shutdown, BeginScan, SkipBucket,
          LockBucket, UnlockBucket, ScanEnd, TakeIdle, SweepBegin, PurgeEnd
<1> QED BY <1>1, <1>2, LinkedSame DEF Counts, counters, getNumIdleEntries

LEMMA CountsAdd ==
  ASSUME TypeOK, Disjoint, LoopEntries, Counts,
         NEW e \in Entries, NEW b \in Buckets, add(e, b)
  PROVE  Counts' /\ current_size' \in Nat
<1>1. Linked' = Linked \cup {e} /\ e \notin Linked
  BY LinkedAdd DEF add
<1>2. Cardinality(Linked') = Cardinality(Linked) + 1
  BY <1>1, ContainersFinite, FS_AddElement
<1>3. Waiting' = Waiting
  BY WaitingOther DEF WaitingKept
<1>4. /\ current_size' = current_size + 1 /\ pc = "packets"
      /\ UNCHANGED <<num_idle_transitions, num_purged>>
  BY DEF add
<1> QED BY <1>2, <1>3, <1>4 DEF TypeOK, Counts, getNumIdleEntries

LEMMA CountsVisit ==
  ASSUME TypeOK, Disjoint, LoopEntries, Counts, NEW e \in Entries, Visit(e)
  PROVE  Counts' /\ current_size' \in Nat
<1>1. Waiting' = Waiting
  BY WaitingVisit
<1>2. UNCHANGED <<num_idle_transitions, num_purged>> /\ pc = "bucket"
  BY DEF Visit
<1>3. CASE Keep
  BY <1>1, <1>2, <1>3, LinkedSame
     DEF TypeOK, Keep, Counts, getNumIdleEntries
<1>4. CASE Detach(e)
  <2>1. e \in table[last_purged_hash]
    BY DEF Visit, LoopEntries
  <2>2. Linked' = Linked \ {e} /\ e \in Linked
    BY <1>4, <2>1, LinkedDetach
  <2>3. Cardinality(Linked') = Cardinality(Linked) - 1
    BY <2>2, ContainersFinite, FS_RemoveElement
  <2>4. Cardinality(Linked) > 0
    BY <2>2, ContainersFinite, FS_EmptySet
  <2>5. current_size' = current_size - 1
    BY <1>4 DEF Detach
  <2> QED BY <1>1, <1>2, <2>3, <2>4, <2>5
          DEF TypeOK, Counts, getNumIdleEntries
<1> QED BY <1>3, <1>4 DEF Visit

LEMMA CountsSetIdle ==
  ASSUME TypeOK, Disjoint, LoopEntries, Counts,
         NEW e \in Entries, NEW n \in 0 .. MaxQueued, SetIdle(e, n)
  PROVE  Counts'
<1>1. Waiting' = Waiting \cup {e} /\ e \notin Waiting
  BY WaitingSetIdle
<1>2. Cardinality(Waiting') = Cardinality(Waiting) + 1
  BY <1>1, ContainersFinite, FS_AddElement
<1>3. /\ num_idle_transitions' = num_idle_transitions + 1 /\ pc = "idling"
      /\ UNCHANGED <<table, current_size, num_purged>>
  BY DEF SetIdle
<1> QED BY <1>2, <1>3, LinkedSame DEF TypeOK, Counts, getNumIdleEntries

LEMMA CountsPurge ==
  ASSUME TypeOK, Disjoint, LoopEntries, Counts,
         NEW e \in Entries, PurgeEntry(e) \/ SweepEntry(e)
  PROVE  Counts'
<1>1. /\ Waiting' = (IF uses[e] = 0 THEN Waiting \ {e} ELSE Waiting)
      /\ e \in Waiting
  BY WaitingPurge
<1>2. /\ UNCHANGED <<table, current_size, num_idle_transitions>>
      /\ num_purged' = IF uses[e] = 0 THEN num_purged + 1 ELSE num_purged
      /\ pc # "destroyed"
  BY DEF PurgeEntry, SweepEntry
<1>3. Cardinality(Waiting \ {e}) = Cardinality(Waiting) - 1
  BY <1>1, ContainersFinite, FS_RemoveElement
<1>4. getNumIdleEntries = Cardinality(Waiting)
  BY <1>2 DEF Counts
<1>5. getNumIdleEntries' = Cardinality(Waiting')
  BY <1>1, <1>2, <1>3, <1>4, ContainersFinite DEF TypeOK, getNumIdleEntries
<1> QED BY <1>2, <1>5, LinkedSame DEF Counts

LEMMA CountsCleanup ==
  ASSUME cleanup
  PROVE  Counts' /\ current_size' \in Nat
<1>1. Linked' = {} /\ current_size' = 0 /\ pc' = "destroyed"
  BY DEF cleanup, Linked
<1> QED BY <1>1, FS_EmptySet DEF Counts
-----------------------------------------------------------------------------
(***************************************************************************)
(* The types, and the uses as the inline thread and the queues change them.*)
(***************************************************************************)

LEMMA StatesClosed ==
  ASSUME TypeOK, NEW e \in Entries, NEW s \in States
  PROVE  set_state(e, s) \in States
BY DEF TypeOK, set_state

LEMMA QueueTypes ==
  ASSUME TypeOK, UsesCounted, UNCHANGED w_refs,
         NEW e \in Entries, NEW n \in 0 .. MaxQueued, Enqueued(e, n)
  PROVE  /\ uses' \in [Entries -> Nat] /\ queued' \in [Entries -> Nat]
         /\ UsesCounted'
<1>1. n \in Int
  BY HashAssumption
<1>2. uses' \in [Entries -> Nat] /\ queued' \in [Entries -> Nat]
  BY HashAssumption DEF TypeOK, Enqueued
<1>3. UsesCounted'
  BY <1>1, UsesEnqueued DEF Enqueued
<1> QED BY <1>2, <1>3

LEMMA QueuePreserves ==
  ASSUME TypeOK, UsesCounted, QueueStep
  PROVE  TypeOK' /\ UsesCounted'
<1>1. UNCHANGED <<table, counters, vectors, running, pc, purgeVars, todo, fresh,
                  walkVars>>
  BY QueueFrame
<1>2. PICK e \in Entries :
        \/ \E s \in States, n \in 0 .. MaxQueued : Traffic(e, s, n)
        \/ Dequeued(e)
  BY DEF QueueStep
<1>3. /\ state' \in [Entries -> States]
      /\ uses' \in [Entries -> Nat] /\ queued' \in [Entries -> Nat]
      /\ UsesCounted'
  <2>1. ASSUME NEW s \in States, NEW n \in 0 .. MaxQueued, Traffic(e, s, n)
        PROVE  /\ state' \in [Entries -> States] /\ UsesCounted'
               /\ uses' \in [Entries -> Nat] /\ queued' \in [Entries -> Nat]
    <3>1. Enqueued(e, n)
      BY <2>1 DEF Traffic
    <3>2. state' \in [Entries -> States]
      BY <2>1 DEF TypeOK, Traffic
    <3>3. UNCHANGED w_refs
      BY <1>1 DEF walkVars
    <3> QED BY <3>1, <3>2, <3>3, QueueTypes
  <2>2. CASE Dequeued(e)
    <3>1. uses[e] > 0 /\ queued[e] > 0
      BY <2>2, HoldersFinite DEF Dequeued, TypeOK, UsesCounted
    <3>2. uses' \in [Entries -> Nat] /\ queued' \in [Entries -> Nat]
      BY <2>2, <3>1 DEF Dequeued, TypeOK
    <3>3. \A x \in Entries : Holders(x)' = Holders(x)
      BY <1>1 DEF walkVars, Holders
    <3>4. UsesCounted'
      BY <2>2, <3>3, HoldersFinite DEF TypeOK, UsesCounted, Dequeued
    <3> QED BY <2>2, <3>2, <3>4 DEF Dequeued, TypeOK
  <2> QED BY <1>2, <2>1, <2>2
<1> QED BY <1>1, <1>3 DEF TypeOK, counters, vectors, purgeVars, walkVars

LEMMA WalkTypes ==
  ASSUME TypeOK, WalkersLock, UsesCounted, WalkStep
  PROVE  TypeOK'
<1>1. UNCHANGED inlineVars /\ uses' \in [Entries -> Nat]
  BY WalkFrame, UsesWalk
<1>2. PICK v \in Walkers : \/ Walk(v)
                           \/ \E b \in Buckets : WalkBegin(v, b)
                           \/ \E e \in Entries : WalkHead(v, e)
  BY DEF WalkStep
<1>3. /\ w_pc' \in [Walkers -> {"idle", "walk", "locked", "use"}]
      /\ w_slot' \in [Walkers -> 0 .. NumHashes]
  <2> USE HashAssumption DEF TypeOK
  <2>1. CASE \E b \in Buckets : WalkBegin(v, b)
    BY <2>1 DEF WalkBegin, Buckets
  <2>2. CASE (\E e \in Entries : WalkHead(v, e) \/ WalkTake(v, e)
                                   \/ WalkRelease(v, e))
    BY <2>2 DEF WalkHead, WalkTake, WalkRelease
  <2>3. CASE WalkSkip(v)
    BY <2>3 DEF WalkSkip
  <2>4. CASE WalkLock(v) \/ WalkEnd(v)
    BY <2>4 DEF WalkLock, WalkEnd
  <2>5. CASE WalkUnlock(v)
    <3>1. w_slot[v] \in Buckets
      BY <2>5 DEF WalkUnlock, WalkersLock
    <3> QED BY <2>5, <3>1 DEF WalkUnlock, Buckets
  <2>6. CASE WalkReturn(v)
    BY <2>6 DEF WalkReturn
  <2> QED BY <1>2, <2>1, <2>2, <2>3, <2>4, <2>5, <2>6 DEF Walk
<1>4. /\ w_head' \in [Walkers -> SUBSET Entries]
      /\ w_refs' \in [Walkers -> SUBSET Entries]
  BY <1>2 DEF TypeOK, Walk, WalkBegin, WalkHead, WalkSkip, WalkLock, WalkUnlock,
     WalkEnd, WalkReturn, WalkTake, WalkRelease
<1> QED BY <1>1, <1>3, <1>4 DEF TypeOK, inlineVars, counters, vectors, purgeVars

LEMMA AddPreserves ==
  ASSUME TypeOK, Disjoint, LoopEntries, UsesCounted, Counts,
         NEW e \in Entries, NEW b \in Buckets, add(e, b)
  PROVE  TypeOK' /\ UsesCounted'
<1>1. current_size' \in Nat
  BY CountsAdd
<1>2. table' \in [Buckets -> SUBSET Entries]
  BY DEF TypeOK, add
<1>3. TypeOK'
  BY <1>1, <1>2 DEF TypeOK, add, vectors, purgeVars, walkVars
<1> QED BY <1>3, UsesFrame DEF add, walkVars

LEMMA ScanPreserves ==
  ASSUME TypeOK, UsesCounted,
         \/ \E full \in BOOLEAN : PurgeBegin(full)
         \/ Shutdown \/ SkipBucket \/ LockBucket \/ UnlockBucket \/ ScanEnd
         \/ TakeIdle \/ SweepBegin \/ PurgeEnd
  PROVE  TypeOK' /\ UsesCounted'
<1>1. UNCHANGED <<uses, queued, walkVars>>
  BY DEF PurgeBegin, Shutdown, BeginScan, SkipBucket, LockBucket, UnlockBucket,
         ScanEnd, TakeIdle, SweepBegin, PurgeEnd
<1>2. UsesCounted'
  BY <1>1, UsesFrame DEF walkVars
<1>3. TypeOK'
  <2> USE HashAssumption DEF TypeOK, counters, vectors, purgeVars, walkVars
  <2>1. CASE (\E full \in BOOLEAN : PurgeBegin(full)) \/ Shutdown
    <3>1. PICK force \in BOOLEAN, full \in BOOLEAN :
            BeginScan(force, full) /\ running' \in BOOLEAN
      BY <2>1 DEF PurgeBegin, Shutdown
    <3>2. /\ idle_entries' \subseteq Entries
          /\ idle_entries_shadow' \subseteq Entries
          /\ idle_null' \in BOOLEAN
      BY <3>1 DEF BeginScan
    <3> QED BY <3>1, <3>2 DEF BeginScan
  <2>2. CASE SkipBucket
    BY <2>2, NextBucketType DEF SkipBucket
  <2>3. CASE LockBucket
    BY <2>3, NextBucketType DEF LockBucket
  <2>4. CASE UnlockBucket \/ ScanEnd
    BY <2>4 DEF UnlockBucket, ScanEnd
  <2>5. CASE TakeIdle
    BY <2>5 DEF TakeIdle
  <2>6. CASE SweepBegin \/ PurgeEnd
    BY <2>6 DEF SweepBegin, PurgeEnd
  <2> QED BY <2>1, <2>2, <2>3, <2>4, <2>5, <2>6
<1> QED BY <1>2, <1>3

LEMMA VisitPreserves ==
  ASSUME TypeOK, Disjoint, LoopEntries, UsesCounted, Counts,
         NEW e \in Entries, VisitAction(e)
  PROVE  TypeOK' /\ UsesCounted'
<1>1. Visit(e)
  BY VisitIs
<1>2. current_size' \in Nat
  BY <1>1, CountsVisit
<1>3. /\ uses' \in [Entries -> Nat] /\ queued' \in [Entries -> Nat]
      /\ UsesCounted' /\ state' \in [Entries -> States]
  <2>1. UNCHANGED w_refs
    BY <1>1 DEF Visit, walkVars
  <2>2. ASSUME NEW s \in States, NEW n \in 0 .. MaxQueued,
               VisitNotActive(e, s, n)
        PROVE  /\ uses' \in [Entries -> Nat] /\ queued' \in [Entries -> Nat]
               /\ UsesCounted' /\ state' \in [Entries -> States]
    <3>1. Enqueued(e, n)
      BY <2>2 DEF VisitNotActive
    <3>2. state' \in [Entries -> States]
      BY <2>2 DEF TypeOK, VisitNotActive, States, allocated, active, idle
    <3> QED BY <2>1, <3>1, <3>2, QueueTypes
  <2>3. CASE VisitExpired(e)
    BY <2>1, <2>3, UsesFrame DEF TypeOK, VisitExpired
  <2>4. ASSUME NEW n \in 0 .. MaxQueued, VisitActive(e, n)
        PROVE  /\ uses' \in [Entries -> Nat] /\ queued' \in [Entries -> Nat]
               /\ UsesCounted' /\ state' \in [Entries -> States]
    <3>1. Enqueued(e, n) /\ UNCHANGED state
      BY <2>4 DEF VisitActive
    <3> QED BY <2>1, <3>1, QueueTypes DEF TypeOK
  <2> QED BY <2>2, <2>3, <2>4 DEF VisitAction
<1>4. /\ table' \in [Buckets -> SUBSET Entries]
      /\ idle_entries_shadow' \subseteq Entries /\ fresh' \subseteq Entries
      /\ todo' \subseteq Entries
  BY <1>1 DEF TypeOK, Visit, Detach, Keep
<1> QED BY <1>1, <1>2, <1>3, <1>4 DEF TypeOK, Visit, purgeVars, walkVars

LEMMA PurgePreserves ==
  ASSUME TypeOK, UsesCounted,
         \/ cleanup
         \/ \E e \in Entries : \/ \E n \in 0 .. MaxQueued : SetIdle(e, n)
                               \/ PurgeEntry(e) \/ SweepEntry(e)
  PROVE  TypeOK' /\ UsesCounted'
<1>1. CASE cleanup
  <2>1. current_size' = 0 /\ table' \in [Buckets -> SUBSET Entries]
    BY <1>1 DEF cleanup
  <2>2. freed' \subseteq Entries
    BY <1>1 DEF cleanup, TypeOK, Linked
  <2>3. TypeOK'
    BY <1>1, <2>1, <2>2 DEF cleanup, TypeOK, purgeVars, walkVars
  <2> QED BY <1>1, <2>3, UsesFrame DEF cleanup, walkVars
<1>2. ASSUME NEW e \in Entries, NEW n \in 0 .. MaxQueued, SetIdle(e, n)
      PROVE  TypeOK' /\ UsesCounted'
  <2>1. Enqueued(e, n) /\ UNCHANGED walkVars /\ UNCHANGED w_refs
    BY <1>2 DEF SetIdle, walkVars
  <2>2. state' \in [Entries -> States]
    BY <1>2, StatesClosed DEF SetIdle, TypeOK, States, allocated, idle
  <2>3. /\ uses' \in [Entries -> Nat] /\ queued' \in [Entries -> Nat]
        /\ UsesCounted'
    BY <2>1, QueueTypes
  <2>4. TypeOK'
    BY <1>2, <2>1, <2>2, <2>3 DEF TypeOK, SetIdle, vectors, purgeVars, walkVars
  <2> QED BY <2>3, <2>4
<1>3. ASSUME NEW e \in Entries, PurgeEntry(e) \/ SweepEntry(e)
      PROVE  TypeOK' /\ UsesCounted'
  <2>1. UNCHANGED <<uses, queued, walkVars>>
    BY <1>3 DEF PurgeEntry, SweepEntry
  <2>2. TypeOK'
    BY <1>3 DEF TypeOK, PurgeEntry, SweepEntry, purgeVars, walkVars
  <2> QED BY <2>1, <2>2, UsesFrame DEF walkVars
<1> QED BY <1>1, <1>2, <1>3
-----------------------------------------------------------------------------
(***************************************************************************)
(* The theorems.                                                           *)
(***************************************************************************)

LEMMA InitInv == Init => IInv
<1> SUFFICES ASSUME Init PROVE IInv
  OBVIOUS
<1> USE DEF Init
<1>1. Linked = {} /\ Batch = {} /\ NotIdleYet = {} /\ Waiting = {}
  BY DEF Linked, Batch, NotIdleYet, Waiting
<1>2. TypeOK
  <2>1. NumHashes - 1 \in Buckets /\ 0 \in 0 .. NumHashes
    BY HashAssumption DEF Buckets
  <2>2. state \in [Entries -> States]
    <3>1. StartStates \subseteq States
      BY HashAssumption DEF States, allocated, active, idle
    <3> QED BY <3>1, Zenon
  <2> QED BY <2>1, <2>2 DEF TypeOK
<1>3. Disjoint /\ LoopEntries
  BY <1>1 DEF Disjoint, LoopEntries
<1>4. WalkersLock /\ NoUseAfterFree /\ UnusedWhenExpired
  BY DEF WalkersLock, NoUseAfterFree, UnusedWhenExpired
<1>5. UsesCounted
  <2>1. \A e \in Entries : Holders(e) = {}
    BY DEF Holders
  <2>2. \A e \in Entries : uses[e] = 0 /\ queued[e] = 0
    OBVIOUS
  <2>3. Cardinality({}) = 0
    BY FS_EmptySet
  <2> HIDE DEF Init
  <2> QED BY <2>1, <2>2, <2>3 DEF UsesCounted
<1>6. IdleStates
  BY <1>1 DEF IdleStates
<1>7. Counts
  BY <1>1, FS_EmptySet DEF Counts, getNumIdleEntries
<1> QED BY <1>2, <1>3, <1>4, <1>5, <1>6, <1>7 DEF IInv

LEMMA InvFrame == IInv /\ UNCHANGED vars => IInv'
<1> SUFFICES ASSUME IInv, UNCHANGED vars PROVE IInv'
  OBVIOUS
<1> USE DEF IInv, vars, counters, vectors, purgeVars, walkVars
<1>1. Linked' = Linked /\ Batch' = Batch /\ NotIdleYet' = NotIdleYet
  BY LinkedSame DEF Batch, NotIdleYet
<1>2. Waiting' = Waiting
  BY <1>1 DEF Waiting
<1>3. TypeOK'
  BY DEF TypeOK
<1>4. Disjoint' /\ LoopEntries'
  BY ContainersFrame
<1>5. WalkersLock'
  BY DEF WalkersLock, WriteLocked
<1>6. UsesCounted'
  BY UsesFrame
<1>7. NoUseAfterFree' /\ UnusedWhenExpired'
  BY DEF NoUseAfterFree, Referenced, UnusedWhenExpired
<1>8. IdleStates' /\ Counts'
  BY <1>1, <1>2 DEF IdleStates, Counts, getNumIdleEntries
<1> QED BY <1>3, <1>4, <1>5, <1>6, <1>7, <1>8

LEMMA NextInv == IInv /\ Next => IInv'
<1> SUFFICES ASSUME IInv, Next PROVE IInv'
  OBVIOUS
<1> USE DEF IInv
<1>1. CASE QueueStep
  BY <1>1, QueuePreserves, QueueFrame, ContainersFrame, WalkersInline,
     FreedQueue, IdleOther, CountsOther, UnusedOther DEF purgeVars
<1>2. CASE WalkStep
  <2>1. Disjoint' /\ LoopEntries'
    BY <1>2, WalkFrame, ContainersFrame DEF inlineVars, purgeVars
  <2> QED BY <1>2, <2>1, WalkTypes, WalkersWalk, UsesWalk, FreedWalk, IdleOther,
          CountsOther, UnusedWalk
<1>3. ASSUME NEW e \in Entries, NEW b \in Buckets, add(e, b)
      PROVE  IInv'
  BY <1>3, AddPreserves, ContainersAdd, WalkersInline, FreedOther, IdleOther,
     CountsAdd, UnusedOther
<1>4. CASE \/ \E full \in BOOLEAN : PurgeBegin(full)
           \/ Shutdown \/ SkipBucket \/ LockBucket \/ UnlockBucket \/ ScanEnd
  BY <1>4, ScanPreserves, ContainersScan, WalkersInline, FreedOther, IdleOther,
     CountsOther, UnusedOther
<1>5. CASE TakeIdle \/ SweepBegin \/ PurgeEnd
  BY <1>5, ScanPreserves, ContainersPurge, WalkersInline, FreedOther, IdleOther,
     CountsOther, UnusedOther
<1>6. ASSUME NEW e \in Entries, VisitAction(e)
      PROVE  IInv'
  <2>1. Visit(e)
    BY <1>6, VisitIs
  <2> QED BY <1>6, <2>1, VisitPreserves, ContainersVisit, WalkersInline,
          FreedQueue, IdleVisit, CountsVisit, UnusedVisit
<1>7. ASSUME NEW e \in Entries, NEW n \in 0 .. MaxQueued, SetIdle(e, n)
      PROVE  IInv'
  BY <1>7, PurgePreserves, ContainersPurge, WalkersInline, FreedQueue,
     IdleSetIdle, CountsSetIdle, UnusedOther
<1>8. ASSUME NEW e \in Entries, PurgeEntry(e) \/ SweepEntry(e)
      PROVE  IInv'
  BY <1>8, PurgePreserves, ContainersPurge, WalkersInline, FreedPurge,
     IdlePurge, CountsPurge, UnusedOther
<1>9. CASE cleanup
  BY <1>9, PurgePreserves, ContainersPurge, WalkersInline, FreedCleanup,
     IdlePurge, CountsCleanup, UnusedOther
<1> QED BY <1>1, <1>2, <1>3, <1>4, <1>5, <1>6, <1>7, <1>8, <1>9
        DEF Next, PacketLoop, Purge, QueueStep, WalkStep, VisitAction

LEMMA Inductive == Spec => []IInv
<1>1. IInv /\ [Next]_vars => IInv'
  BY InvFrame, NextInv
<1> QED BY InitInv, <1>1, PTL DEF Spec

\* No entry is deleted while a walker, a dump thread or an alert thread holds
\* it, for any number of them: the test of getUses() in
\* purgeQueuedIdleEntries() is enough.
THEOREM EntriesOutliveReferences == Spec => []NoUseAfterFree
<1>1. IInv => NoUseAfterFree
  BY DEF IInv
<1> QED BY Inductive, <1>1, PTL

\* An entry is in one container: what purgeIdle() and purgeQueuedIdleEntries()
\* have deleted is in no bucket and in no vector, so it is not deleted twice.
THEOREM ContainersAreDisjoint == Spec => []OneContainer
<1>1. IInv => OneContainer
  <2> SUFFICES ASSUME IInv PROVE OneContainer
    OBVIOUS
  <2> DEFINE places == <<Linked, idle_entries_shadow, idle_entries, Batch,
                         idle_entries_in_use, freed>>
  <2>1. /\ places[1] = Linked /\ places[2] = idle_entries_shadow
        /\ places[3] = idle_entries /\ places[4] = Batch
        /\ places[5] = idle_entries_in_use /\ places[6] = freed
        /\ DOMAIN places = 1 .. 6
    OBVIOUS
  <2> HIDE DEF places
  <2>2. \A a, b \in 1 .. 6 : a < b => places[a] \cap places[b] = {}
    <3> SUFFICES ASSUME NEW a \in 1 .. 6, NEW b \in 1 .. 6, a < b
                 PROVE  places[a] \cap places[b] = {}
      OBVIOUS
    <3>1. CASE a = 1
      <4>1. places[b] \subseteq idle_entries_shadow \cup idle_entries
              \cup Batch \cup idle_entries_in_use \cup freed
        BY <2>1, <3>1
      <4> QED BY <2>1, <3>1, <4>1 DEF IInv, Disjoint
    <3>2. CASE a = 2
      <4>1. places[b] \subseteq idle_entries
              \cup Batch \cup idle_entries_in_use \cup freed
        BY <2>1, <3>2
      <4> QED BY <2>1, <3>2, <4>1 DEF IInv, Disjoint
    <3>3. CASE a = 3
      <4>1. places[b] \subseteq Batch \cup idle_entries_in_use \cup freed
        BY <2>1, <3>3
      <4> QED BY <2>1, <3>3, <4>1 DEF IInv, Disjoint
    <3>4. CASE a = 4
      <4>1. places[b] \subseteq idle_entries_in_use \cup freed
        BY <2>1, <3>4
      <4> QED BY <2>1, <3>4, <4>1 DEF IInv, Disjoint
    <3>5. CASE a = 5
      <4>1. places[b] = freed
        BY <2>1, <3>5
      <4> QED BY <2>1, <3>5, <4>1 DEF IInv, Disjoint
    <3> QED BY <3>1, <3>2, <3>3, <3>4, <3>5
  <2>3. \A a, b \in 1 .. 6 : a # b => places[a] \cap places[b] = {}
    <3> SUFFICES ASSUME NEW a \in 1 .. 6, NEW b \in 1 .. 6, a # b
                 PROVE  places[a] \cap places[b] = {}
      OBVIOUS
    <3>1. a < b \/ b < a
      OBVIOUS
    <3>2. places[a] \cap places[b] = places[b] \cap places[a]
      OBVIOUS
    <3> QED BY <2>2, <3>1, <3>2
  <2>4. \A a, b \in DOMAIN places : a # b => places[a] \cap places[b] = {}
    BY <2>1, <2>3
  <2> QED BY <2>4 DEF places, OneContainer, IInv, Batch
<1> QED BY Inductive, <1>1, PTL

\* Every entry that waits for its deletion did become idle, also those that the
\* forced purge of shutdown() unlinked before they were active.
THEOREM WaitingEntriesAreIdle == Spec => []WaitingIsIdle
<1>1. IInv => WaitingIsIdle
  BY DEF IInv, IdleStates, Waiting, WaitingIsIdle
<1> QED BY Inductive, <1>1, PTL

\* Between two purges current_size counts the linked entries, and
\* getNumIdleEntries() the unlinked ones: the limits that hasEmptyRoom() tests
\* are about the true sizes.
THEOREM CountersAreExact == Spec => []CountersAgree
<1>1. IInv => CountersAgree
  <2> SUFFICES ASSUME IInv, pc \in {"packets", "stopped"}
               PROVE  /\ current_size = Cardinality(Linked)
                      /\ getNumIdleEntries = Cardinality(idle_entries_shadow
                             \cup idle_entries \cup idle_entries_in_use)
    BY DEF CountersAgree
  <2>1. Waiting = idle_entries_shadow \cup idle_entries \cup idle_entries_in_use
    BY DEF Waiting, NotIdleYet, Batch
  <2> QED BY <2>1 DEF IInv, Counts
<1> QED BY Inductive, <1>1, PTL

\* An entry is not deleted by the purge that unlinked it.
THEOREM DeletionIsLater == Spec => []DeletedLater
<1>1. IInv => DeletedLater
  BY DEF IInv, Disjoint, LoopEntries, DeletedLater
<1> QED BY Inductive, <1>1, PTL

\* A host that expires is in no walker's hands: the bucket lock keeps out the
\* walker that could take it after the test of its uses.
THEOREM ExpiredIsUnused == Spec => []UnusedWhenExpired
<1>1. IInv => UnusedWhenExpired
  BY DEF IInv
<1> QED BY Inductive, <1>1, PTL
=============================================================================
