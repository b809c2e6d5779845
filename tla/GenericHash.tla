----------------------------- MODULE GenericHash -----------------------------
(***************************************************************************)
(* A hash table of ntopng (flows, hosts, MACs, ...), GenericHash.cpp, with *)
(* the life of its entries, GenericHashEntry.cpp.                          *)
(*                                                                         *)
(* The inline thread, which processes the traffic, adds entries and        *)
(* periodically runs purgeIdle() and purgeQueuedIdleEntries(): an expired  *)
(* entry is unlinked and put in idle_entries_shadow; once the buckets are  *)
(* unlocked it becomes idle and is housekept one last time; in a later     *)
(* round it moves to idle_entries and is deleted, or kept in               *)
(* idle_entries_in_use as long as someone holds a reference.  Walkers      *)
(* (threads that serve Lua scripts) collect entries under the bucket lock, *)
(* count a use on each, and work on them after the unlock.  The dump and   *)
(* alert threads hold references through their queues.                     *)
(*                                                                         *)
(* A bucket's list and the vectors of idle entries are sets: their order   *)
(* plays no role.  Expiry, which depends on the clock, is a free choice.   *)
(* idle_entries_shadow is null only before the first purge, when an empty  *)
(* vector behaves the same.                                                *)
(***************************************************************************)
EXTENDS Integers, FiniteSets

CONSTANTS Entries,      \* the entries, each allocated at most once
          NumHashes,    \* num_hashes
          Walkers,      \* the threads that walk the table
          MaxHashSize,  \* max_hash_size
          MinNumIdle,   \* MIN_NUM_IDLE_ENTRIES_IF
          MaxQueued,    \* bound: queue slots that refer to one entry
          StartStates,  \* states of a new entry
          NeedsUnused,  \* an entry in use does not expire: all but flows
          Collected     \* the interface collects flows (not isPacketInterface())

\* HashEntryState, in the order of the enum.
allocated == 0
notyetdetected == 1
protocoldetected == 2
active == 3
idle == 4
States == allocated .. idle

ASSUME HashAssumption ==
         /\ NumHashes \in Nat /\ NumHashes >= 1
         /\ MaxHashSize \in Nat /\ MinNumIdle \in Nat /\ MaxQueued \in Nat
         /\ IsFiniteSet(Entries) /\ IsFiniteSet(Walkers)
         /\ StartStates \subseteq allocated .. active
         /\ NeedsUnused \in BOOLEAN /\ Collected \in BOOLEAN

VARIABLES
  table,                \* bucket -> the entries linked in it
  state, uses,          \* of each entry: hash_entry_state, num_uses
  current_size, num_idle_transitions, num_purged,
  idle_entries, idle_entries_shadow, idle_entries_in_use,
  idle_null,            \* idle_entries is a null pointer
  freed,                \* the deleted entries
  running,              \* the interface's flag, lowered by shutdown()
  pc,                   \* where the inline thread is
  force_idle, full_scan,
  last_purged_hash, j,  \* purgeIdle(): the bucket and how many were visited
  todo,                 \* entries the current loop has not reached yet
  fresh,                \* entries after idle_entries_shadow_old_size, that is,
                        \* unlinked by the last purgeIdle()
  w_pc, w_slot,         \* each walker: its step and its bucket,
  w_head, w_refs,       \* the entry it is looking at, those it collected
  queued                \* of each entry: queue slots that refer to it

purgeVars == <<force_idle, full_scan, last_purged_hash, j>>
counters == <<current_size, num_idle_transitions, num_purged>>
vectors == <<idle_entries, idle_null, idle_entries_shadow, idle_entries_in_use,
             freed>>
walkVars == <<w_pc, w_slot, w_head, w_refs>>
vars == <<table, state, uses, counters, vectors, running, pc, purgeVars, todo,
          fresh, walkVars, queued>>

Buckets == 0 .. NumHashes - 1
Linked == UNION {table[b] : b \in Buckets}

TypeOK ==
  /\ table \in [Buckets -> SUBSET Entries]
  /\ state \in [Entries -> States]
  /\ uses \in [Entries -> Nat] /\ queued \in [Entries -> Nat]
  /\ current_size \in Nat /\ num_idle_transitions \in Nat /\ num_purged \in Nat
  /\ {idle_entries, idle_entries_shadow, idle_entries_in_use, freed}
       \subseteq SUBSET Entries
  /\ {idle_null, running, force_idle, full_scan} \subseteq BOOLEAN
  /\ pc \in {"packets", "scan", "bucket", "idling", "purging", "sweep",
             "stopped", "destroyed"}
  /\ last_purged_hash \in Buckets /\ j \in 0 .. NumHashes
  /\ todo \subseteq Entries /\ fresh \subseteq Entries
  /\ w_pc \in [Walkers -> {"idle", "walk", "locked", "use"}]
  /\ w_slot \in [Walkers -> 0 .. NumHashes]
  /\ w_head \in [Walkers -> SUBSET Entries]
  /\ w_refs \in [Walkers -> SUBSET Entries]

Init ==
  /\ table = [b \in Buckets |-> {}]
  /\ state \in [Entries -> StartStates]
  /\ uses = [e \in Entries |-> 0] /\ queued = [e \in Entries |-> 0]
  /\ current_size = 0 /\ num_idle_transitions = 0 /\ num_purged = 0
  /\ idle_entries = {} /\ idle_null = TRUE /\ idle_entries_shadow = {}
  /\ idle_entries_in_use = {} /\ freed = {}
  /\ running = TRUE /\ pc = "packets"
  /\ force_idle = FALSE /\ full_scan = FALSE
  /\ last_purged_hash = NumHashes - 1 /\ j = 0
  /\ todo = {} /\ fresh = {}
  /\ w_pc = [w \in Walkers |-> "idle"]
  /\ w_slot = [w \in Walkers |-> 0]
  /\ w_head = [w \in Walkers |-> {}]
  /\ w_refs = [w \in Walkers |-> {}]
------------------------------------------------------------------------------
(***************************************************************************)
(* Entries.                                                                *)
(***************************************************************************)

\* set_state(): only ahead and one state at a time, but for the exceptions of
\* flows, unless the interface is not running; otherwise the state is kept.
\* skipDPIforCollectedFlows(), which is reloaded at any time, allows the step
\* from allocated to active or not; callers add the case in which it does not.
set_state(e, s) ==
  IF \/ s = state[e] + 1
     \/ state[e] = allocated /\ s = protocoldetected
     \/ state[e] = allocated /\ s = active /\ Collected
     \/ ~running
    THEN s ELSE state[e]

getNumIdleEntries == num_idle_transitions - num_purged

hasEmptyRoom ==
  /\ ~(getNumIdleEntries > MinNumIdle /\ getNumIdleEntries > current_size)
  /\ current_size + getNumIdleEntries <= MaxHashSize

\* A use is counted for each entry that housekeep() or the traffic put in the
\* dump or alert queues, n times.
Enqueued(e, n) ==
  /\ queued[e] + n <= MaxQueued
  /\ queued' = [queued EXCEPT ![e] = @ + n]
  /\ uses' = [uses EXCEPT ![e] = @ + n]

\* The states in which the end of the dissection can leave a flow: active for a
\* collected flow whose local dissection is skipped at that moment.
processDetectedProtocol(e) ==
  {set_state(e, t) : t \in {protocoldetected} \cup
                             (IF Collected THEN {active} ELSE {})}

\* The states in which housekeep() can leave a flow that is not active yet: it
\* gives up the dissection of a flow that got no packet for a while.
HousekeptStates(e) ==
  {state[e]} \cup (IF state[e] < protocoldetected
                     THEN processDetectedProtocol(e) ELSE {})

\* The states in which a packet or a collected record can leave a flow.
TrafficStates(e) ==
  {state[e], set_state(e, notyetdetected)} \cup processDetectedProtocol(e)
------------------------------------------------------------------------------
(***************************************************************************)
(* The inline thread between two purges.                                   *)
(***************************************************************************)

\* add() of a new entry, whose key selects bucket b.
add(e, b) ==
  /\ pc = "packets" /\ running
  /\ e \notin Linked \cup idle_entries_shadow \cup idle_entries
                \cup idle_entries_in_use \cup freed
  /\ hasEmptyRoom
  /\ table' = [table EXCEPT ![b] = @ \cup {e}]
  /\ current_size' = current_size + 1
  /\ UNCHANGED <<state, uses, num_idle_transitions, num_purged, vectors, running,
                 pc, purgeVars, todo, fresh, walkVars, queued>>

\* Traffic of an entry in the table: a flow's dissection makes progress, and an
\* alert on the entry may be enqueued.
Traffic(e, s, n) ==
  /\ pc = "packets" /\ running
  /\ e \in Linked
  /\ s \in TrafficStates(e)
  /\ state' = [state EXCEPT ![e] = s]
  /\ Enqueued(e, n)
  /\ UNCHANGED <<table, counters, vectors, running, pc, purgeVars, todo, fresh,
                 walkVars>>

\* The dump and alert threads finish with one queued reference.
Dequeued(e) ==
  /\ queued[e] > 0
  /\ queued' = [queued EXCEPT ![e] = @ - 1]
  /\ uses' = [uses EXCEPT ![e] = @ - 1]
  /\ UNCHANGED <<table, state, counters, vectors, running, pc, purgeVars, todo,
                 fresh, walkVars>>
------------------------------------------------------------------------------
(***************************************************************************)
(* purgeIdle().                                                            *)
(***************************************************************************)

\* Its beginning: the entries prepared in the earlier rounds are handed over
\* for deletion if the previous batch was taken.
BeginScan(force, full) ==
  /\ force_idle' = force /\ full_scan' = full
  /\ IF idle_null
       THEN /\ idle_entries' = idle_entries_shadow /\ idle_null' = FALSE
            /\ idle_entries_shadow' = {}
       ELSE UNCHANGED <<idle_entries, idle_null, idle_entries_shadow>>
  /\ fresh' = {}
  /\ j' = 0 /\ pc' = "scan"
  /\ UNCHANGED <<table, state, uses, counters, idle_entries_in_use, freed,
                 last_purged_hash, todo, walkVars, queued>>

PurgeBegin(full) ==
  /\ pc = "packets" /\ running
  /\ BeginScan(FALSE, full)
  /\ UNCHANGED running

\* Mutant of Shutdown: the forced purge runs before the flag is lowered.
ShutdownStillRunning ==
  /\ pc = "packets" /\ running
  /\ BeginScan(TRUE, TRUE)
  /\ UNCHANGED running

\* shutdown(): the flag is lowered, the inline thread is joined, and a forced
\* full purge follows.  The code may count as stopped a little earlier (from the global
\* request on, and during the join): a state that set_state() lets a flow skip by then
\* makes no difference to the forced purge, which begins later.
Shutdown ==
  /\ pc = "packets" /\ running
  /\ running' = FALSE
  /\ BeginScan(TRUE, TRUE)

NextBucket == (last_purged_hash + 1) % NumHashes

ReadLocked(b) == \E w \in Walkers : w_pc[w] = "locked" /\ w_slot[w] = b

WriteLocked(b) == pc = "bucket" /\ last_purged_hash = b

\* The next bucket is empty, or trywrlock() finds a walker in it.
SkipBucket ==
  /\ pc = "scan" /\ j < NumHashes
  /\ table[NextBucket] = {} \/ ReadLocked(NextBucket)
  /\ last_purged_hash' = NextBucket /\ j' = j + 1
  /\ UNCHANGED <<table, state, uses, counters, vectors, running, pc, force_idle,
                 full_scan, todo, fresh, walkVars, queued>>

\* Mutant of LockBucket: the bucket is entered in spite of a walker in it.
LockBucketIgnoringReaders ==
  /\ pc = "scan" /\ j < NumHashes
  /\ table[NextBucket] # {}
  /\ last_purged_hash' = NextBucket /\ j' = j + 1
  /\ todo' = table[NextBucket]
  /\ pc' = "bucket"
  /\ UNCHANGED <<table, state, uses, counters, vectors, running, force_idle,
                 full_scan, fresh, walkVars, queued>>

LockBucket ==
  /\ pc = "scan" /\ j < NumHashes
  /\ table[NextBucket] # {} /\ ~ReadLocked(NextBucket)
  /\ last_purged_hash' = NextBucket /\ j' = j + 1
  /\ todo' = table[NextBucket]
  /\ pc' = "bucket"
  /\ UNCHANGED <<table, state, uses, counters, vectors, running, force_idle,
                 full_scan, fresh, walkVars, queued>>

\* An entry leaves its bucket for idle_entries_shadow.
Detach(e) ==
  /\ table' = [table EXCEPT ![last_purged_hash] = @ \ {e}]
  /\ idle_entries_shadow' = idle_entries_shadow \cup {e}
  /\ fresh' = fresh \cup {e}
  /\ current_size' = current_size - 1

Keep == UNCHANGED <<table, idle_entries_shadow, fresh, current_size>>

\* A flow that is not active yet: housekeep() may detect its protocol, which
\* makes it active; it is unlinked only if the purge is forced.
VisitNotActive(e, s, n) ==
  /\ pc = "bucket" /\ e \in todo
  /\ state[e] < active
  /\ s \in HousekeptStates(e)
  /\ state' = [state EXCEPT ![e] = IF s = protocoldetected THEN active ELSE s]
  /\ Enqueued(e, n)
  /\ IF force_idle THEN Detach(e) ELSE Keep
  /\ todo' = todo \ {e}
  /\ UNCHANGED <<num_idle_transitions, num_purged, idle_entries, idle_null,
                 idle_entries_in_use, freed, running, pc, purgeVars, walkVars>>

\* An active entry is unlinked if it has expired, and housekept otherwise.
VisitExpired(e) ==
  /\ pc = "bucket" /\ e \in todo
  /\ state[e] = active
  /\ force_idle \/ (NeedsUnused => uses[e] = 0)
  /\ Detach(e)
  /\ todo' = todo \ {e}
  /\ UNCHANGED <<state, uses, queued, num_idle_transitions, num_purged,
                 idle_entries, idle_null, idle_entries_in_use, freed, running, pc,
                 purgeVars, walkVars>>

VisitActive(e, n) ==
  /\ pc = "bucket" /\ e \in todo
  /\ state[e] = active /\ ~force_idle
  /\ Enqueued(e, n)
  /\ todo' = todo \ {e}
  /\ UNCHANGED <<table, state, counters, vectors, running, pc, purgeVars,
                 fresh, walkVars>>

UnlockBucket ==
  /\ pc = "bucket" /\ todo = {}
  /\ pc' = "scan"
  /\ UNCHANGED <<table, state, uses, counters, vectors, running, purgeVars, todo,
                 fresh, walkVars, queued>>

\* The scan ends after all the buckets or, unless it is a full one, when it has
\* visited enough of them.
ScanEnd ==
  /\ pc = "scan"
  /\ j = NumHashes \/ (~full_scan /\ j > 0)
  /\ pc' = "idling"
  /\ todo' = fresh
  /\ UNCHANGED <<table, state, uses, counters, vectors, running, purgeVars, fresh,
                 walkVars, queued>>

\* An unlinked entry becomes idle and is housekept one last time.
SetIdle(e, n) ==
  /\ pc = "idling" /\ e \in todo
  /\ state' = [state EXCEPT ![e] = set_state(e, idle)]
  /\ Enqueued(e, n)
  /\ todo' = todo \ {e}
  /\ num_idle_transitions' = num_idle_transitions + 1
  /\ UNCHANGED <<table, current_size, num_purged, vectors, running, pc,
                 purgeVars, fresh, walkVars>>
------------------------------------------------------------------------------
(***************************************************************************)
(* purgeQueuedIdleEntries(), which follows purgeIdle() in the same thread. *)
(***************************************************************************)

\* Mutant of TakeIdle: idle_entries is not reset to a null pointer.
TakeIdleNoReset ==
  /\ pc = "idling" /\ todo = {}
  /\ todo' = idle_entries
  /\ idle_entries' = {}
  /\ pc' = "purging"
  /\ UNCHANGED <<table, state, uses, counters, idle_null, idle_entries_shadow,
                 idle_entries_in_use, freed, running, purgeVars, fresh,
                 walkVars, queued>>

\* Mutant of TakeIdle: the entries unlinked just now are taken as well.
TakeIdleAndShadow ==
  /\ pc = "idling" /\ todo = {}
  /\ todo' = idle_entries \cup idle_entries_shadow
  /\ idle_entries' = {} /\ idle_null' = TRUE
  /\ idle_entries_shadow' = {}
  /\ pc' = "purging"
  /\ UNCHANGED <<table, state, uses, counters, idle_entries_in_use, freed,
                 running, purgeVars, fresh, walkVars, queued>>

\* The batch of idle_entries is taken.
TakeIdle ==
  /\ pc = "idling" /\ todo = {}
  /\ todo' = idle_entries
  /\ idle_entries' = {} /\ idle_null' = TRUE
  /\ pc' = "purging"
  /\ UNCHANGED <<table, state, uses, counters, idle_entries_shadow,
                 idle_entries_in_use, freed, running, purgeVars, fresh,
                 walkVars, queued>>

\* Mutant of PurgeEntry: the uses are not looked at.
PurgeEntryInUse(e) ==
  /\ pc = "purging" /\ e \in todo
  /\ freed' = freed \cup {e}
  /\ num_purged' = num_purged + 1
  /\ todo' = todo \ {e}
  /\ UNCHANGED <<table, state, uses, current_size, num_idle_transitions,
                 idle_entries, idle_null, idle_entries_shadow,
                 idle_entries_in_use, running, pc, purgeVars, fresh, walkVars,
                 queued>>

\* An entry nobody uses is deleted, the others are kept for later.
PurgeEntry(e) ==
  /\ pc = "purging" /\ e \in todo
  /\ IF uses[e] = 0
       THEN /\ freed' = freed \cup {e}
            /\ num_purged' = num_purged + 1
            /\ UNCHANGED idle_entries_in_use
       ELSE /\ idle_entries_in_use' = idle_entries_in_use \cup {e}
            /\ UNCHANGED <<freed, num_purged>>
  /\ todo' = todo \ {e}
  /\ UNCHANGED <<table, state, uses, current_size, num_idle_transitions,
                 idle_entries, idle_null, idle_entries_shadow, running, pc, purgeVars,
                 fresh, walkVars, queued>>

SweepBegin ==
  /\ pc = "purging" /\ todo = {}
  /\ todo' = idle_entries_in_use
  /\ pc' = "sweep"
  /\ UNCHANGED <<table, state, uses, counters, vectors, running, purgeVars,
                 fresh, walkVars, queued>>

\* Mutant of SweepEntry: a deleted entry is not erased from the vector.
SweepEntryNotErased(e) ==
  /\ pc = "sweep" /\ e \in todo
  /\ IF uses[e] = 0
       THEN freed' = freed \cup {e} /\ num_purged' = num_purged + 1
       ELSE UNCHANGED <<freed, num_purged>>
  /\ todo' = todo \ {e}
  /\ UNCHANGED <<table, state, uses, current_size, num_idle_transitions,
                 idle_entries, idle_null, idle_entries_shadow,
                 idle_entries_in_use, running, pc, purgeVars, fresh, walkVars,
                 queued>>

\* Mutant of SweepEntry: a deleted entry is not counted as purged.
SweepEntryNotCounted(e) ==
  /\ pc = "sweep" /\ e \in todo
  /\ IF uses[e] = 0
       THEN /\ idle_entries_in_use' = idle_entries_in_use \ {e}
            /\ freed' = freed \cup {e}
       ELSE UNCHANGED <<idle_entries_in_use, freed>>
  /\ todo' = todo \ {e}
  /\ UNCHANGED <<table, state, uses, current_size, num_idle_transitions,
                 num_purged, idle_entries, idle_null, idle_entries_shadow,
                 running, pc, purgeVars, fresh, walkVars, queued>>

\* An entry found in use earlier is deleted once it is no longer used.
SweepEntry(e) ==
  /\ pc = "sweep" /\ e \in todo
  /\ IF uses[e] = 0
       THEN /\ idle_entries_in_use' = idle_entries_in_use \ {e}
            /\ freed' = freed \cup {e}
            /\ num_purged' = num_purged + 1
       ELSE UNCHANGED <<idle_entries_in_use, freed, num_purged>>
  /\ todo' = todo \ {e}
  /\ UNCHANGED <<table, state, uses, current_size, num_idle_transitions,
                 idle_entries, idle_null, idle_entries_shadow, running, pc, purgeVars,
                 fresh, walkVars, queued>>

PurgeEnd ==
  /\ pc = "sweep" /\ todo = {}
  /\ pc' = IF running THEN "packets" ELSE "stopped"
  /\ UNCHANGED <<table, state, uses, counters, vectors, running, purgeVars, todo,
                 fresh, walkVars, queued>>

\* cleanup(), from the destructor: shutdown() has joined the dump and alert
\* threads, which drained their queues, and no walker is left.  Every entry is
\* deleted, wherever it is.
cleanup ==
  /\ pc = "stopped"
  /\ \A e \in Entries : queued[e] = 0
  /\ \A w \in Walkers : w_pc[w] = "idle"
  /\ freed' = freed \cup Linked \cup idle_entries
                \cup idle_entries_shadow \cup idle_entries_in_use
  /\ idle_entries' = {} /\ idle_null' = TRUE /\ idle_entries_shadow' = {}
  /\ idle_entries_in_use' = {}
  /\ table' = [b \in Buckets |-> {}]
  /\ current_size' = 0
  /\ pc' = "destroyed"
  /\ UNCHANGED <<state, uses, num_idle_transitions, num_purged, running,
                 purgeVars, todo, fresh, walkVars, queued>>
------------------------------------------------------------------------------
(***************************************************************************)
(* walk(), from a thread other than the inline one, and what its caller    *)
(* does with the entries.                                                  *)
(***************************************************************************)

inlineVars == <<table, state, counters, vectors, running, pc, purgeVars, todo,
                fresh, queued>>

\* A walk starts at the slot where the previous one stopped, or at the first.
WalkBegin(w, b) ==
  /\ w_pc[w] = "idle" /\ pc \notin {"stopped", "destroyed"}
  /\ w_pc' = [w_pc EXCEPT ![w] = "walk"]
  /\ w_slot' = [w_slot EXCEPT ![w] = b]
  /\ UNCHANGED <<w_head, w_refs, uses, inlineVars>>

WalkSkip(w) ==
  /\ w_pc[w] = "walk" /\ w_slot[w] < NumHashes
  /\ table[w_slot[w]] = {}
  /\ w_slot' = [w_slot EXCEPT ![w] = @ + 1]
  /\ UNCHANGED <<w_pc, w_head, w_refs, uses, inlineVars>>

WalkLock(w) ==
  /\ w_pc[w] = "walk" /\ w_slot[w] < NumHashes
  /\ table[w_slot[w]] # {} /\ ~WriteLocked(w_slot[w])
  /\ w_pc' = [w_pc EXCEPT ![w] = "locked"]
  /\ UNCHANGED <<w_slot, w_head, w_refs, uses, inlineVars>>

\* The walker reaches an entry that is not idle and that its filter matches.
WalkHead(w, e) ==
  /\ w_pc[w] = "locked" /\ w_head[w] = {}
  /\ e \in table[w_slot[w]] \ w_refs[w]
  /\ state[e] <= active
  /\ w_head' = [w_head EXCEPT ![w] = {e}]
  /\ UNCHANGED <<w_pc, w_slot, w_refs, uses, inlineVars>>

\* It collects the entry, and counts a use of it.
WalkTake(w, e) ==
  /\ e \in w_head[w]
  /\ w_refs' = [w_refs EXCEPT ![w] = @ \cup {e}]
  /\ w_head' = [w_head EXCEPT ![w] = {}]
  /\ uses' = [uses EXCEPT ![e] = @ + 1]
  /\ UNCHANGED <<w_pc, w_slot, inlineVars>>

WalkUnlock(w) ==
  /\ w_pc[w] = "locked" /\ w_head[w] = {}
  /\ w_pc' = [w_pc EXCEPT ![w] = "walk"]
  /\ w_slot' = [w_slot EXCEPT ![w] = @ + 1]
  /\ UNCHANGED <<w_head, w_refs, uses, inlineVars>>

\* The walk ends after the last bucket, or with enough matches.
WalkEnd(w) ==
  /\ w_pc[w] = "walk"
  /\ w_slot[w] = NumHashes \/ w_refs[w] # {}
  /\ w_pc' = [w_pc EXCEPT ![w] = "use"]
  /\ UNCHANGED <<w_slot, w_head, w_refs, uses, inlineVars>>

\* The caller has read an entry and drops its use.
WalkRelease(w, e) ==
  /\ w_pc[w] = "use" /\ e \in w_refs[w]
  /\ w_refs' = [w_refs EXCEPT ![w] = @ \ {e}]
  /\ uses' = [uses EXCEPT ![e] = @ - 1]
  /\ UNCHANGED <<w_pc, w_slot, w_head, inlineVars>>

WalkReturn(w) ==
  /\ w_pc[w] = "use" /\ w_refs[w] = {}
  /\ w_pc' = [w_pc EXCEPT ![w] = "idle"]
  /\ w_slot' = [w_slot EXCEPT ![w] = 0]
  /\ UNCHANGED <<w_head, w_refs, uses, inlineVars>>
------------------------------------------------------------------------------
Purge ==
  \/ SkipBucket \/ LockBucket \/ UnlockBucket \/ ScanEnd
  \/ TakeIdle \/ SweepBegin \/ PurgeEnd
  \/ \E e \in Entries :
       \/ \E s \in States, n \in 0 .. MaxQueued : VisitNotActive(e, s, n)
       \/ VisitExpired(e)
       \/ \E n \in 0 .. MaxQueued : VisitActive(e, n) \/ SetIdle(e, n)
       \/ PurgeEntry(e) \/ SweepEntry(e)

PacketLoop ==
  \/ \E e \in Entries :
       \/ \E b \in Buckets : add(e, b)
       \/ \E s \in States, n \in 0 .. MaxQueued : Traffic(e, s, n)
  \/ Shutdown

Walk(w) ==
  \/ WalkSkip(w) \/ WalkLock(w) \/ WalkUnlock(w) \/ WalkEnd(w) \/ WalkReturn(w)
  \/ \E e \in Entries : WalkTake(w, e) \/ WalkRelease(w, e)

Next ==
  \/ PacketLoop \/ Purge \/ cleanup
  \/ \E full \in BOOLEAN : PurgeBegin(full)
  \/ \E e \in Entries : Dequeued(e)
  \/ \E w \in Walkers :
       \/ Walk(w)
       \/ \E b \in Buckets : WalkBegin(w, b)
       \/ \E e \in Entries : WalkHead(w, e)

Spec == Init /\ [][Next]_vars

\* The purge that has begun goes on, purges recur, the queues are drained, and
\* a walk ends.  Nothing makes traffic arrive, a walk begin or an entry match.
FairSpec ==
  /\ Spec
  /\ WF_vars(Purge) /\ WF_vars(\E full \in BOOLEAN : PurgeBegin(full))
  /\ WF_vars(cleanup)
  /\ \A e \in Entries : WF_vars(Dequeued(e))
  /\ \A w \in Walkers : WF_vars(Walk(w))
------------------------------------------------------------------------------
(***************************************************************************)
(* Properties.                                                             *)
(***************************************************************************)

Referenced(e) ==
  queued[e] > 0 \/ \E w \in Walkers : e \in w_head[w] \cup w_refs[w]

\* No entry is deleted while a walker, a dump thread or an alert thread still
\* holds it: the test of getUses() in purgeQueuedIdleEntries() is enough.
NoUseAfterFree == \A e \in freed : ~Referenced(e)

\* A deleted entry is in no bucket and in no vector, so it is neither found nor
\* deleted again, and the containers are disjoint.
OneContainer ==
  LET places == <<Linked, idle_entries_shadow, idle_entries,
                  IF pc = "purging" THEN todo ELSE {}, idle_entries_in_use, freed>>
  IN /\ TypeOK
     /\ \A a, b \in DOMAIN places : a # b => places[a] \cap places[b] = {}

\* Every entry that waits to be deleted did become idle, so that its last
\* housekeep() was the final one (last dump, release of alerts and scores), even
\* when shutdown() unlinks entries that were not active.
NotIdleYet == CASE pc \in {"scan", "bucket"} -> fresh
                [] pc = "idling" -> todo
                [] OTHER -> {}
WaitingIsIdle ==
  \A e \in idle_entries \cup idle_entries_in_use
             \cup (idle_entries_shadow \ NotIdleYet) : state[e] = idle

\* Between two purges the counters add up: current_size counts the linked
\* entries, getNumIdleEntries() the unlinked ones that are not deleted yet.
CountersAgree ==
  pc \in {"packets", "stopped"} =>
    /\ current_size = Cardinality(Linked)
    /\ getNumIdleEntries = Cardinality(idle_entries_shadow
                             \cup idle_entries \cup idle_entries_in_use)

\* An entry is not deleted by the purge that unlinked it: until the next purge
\* the threads that found it without counting a use can still finish.
DeletedLater == pc # "destroyed" => freed \cap fresh = {}

\* A host, MAC, ... that expires is in no walker's hands: the walker that could
\* have taken it after the test of its uses is kept out by the bucket lock.
UnusedWhenExpired ==
  NeedsUnused /\ running =>
    \A e \in idle_entries_shadow \cup idle_entries, w \in Walkers :
       e \notin w_head[w] \cup w_refs[w]

\* An unlinked entry is deleted eventually: no reference keeps it for ever.
EventuallyFreed ==
  \A e \in Entries : e \in idle_entries_shadow ~> e \in freed
==============================================================================
