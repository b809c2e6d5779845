------------------------------ MODULE FlowDump ------------------------------
(***************************************************************************)
(* The asynchronous dump of flows, NetworkInterface.cpp and Flow.cpp.      *)
(*                                                                         *)
(* The inline thread puts a flow in activeFlowsToDump from time to time    *)
(* while the flow is alive, and in idleFlowsToDump once, when it expires.  *)
(* The dump thread (dumpFlowLoop) takes the flows out, idle ones first,    *)
(* computes what the flow has done since the previous dump and hands that  *)
(* to the database.  A flow keeps one use for each time it is queued, and  *)
(* purgeQueuedIdleEntries() deletes only flows without uses.               *)
(*                                                                         *)
(* Flow::swap() exchanges the two directions of the counters, of their     *)
(* copy at the last dump and of the delta, one field after the other and   *)
(* without a lock, and get_partial() reads and writes the same fields one  *)
(* by one: a swap and a dump of the same flow are a data race, and the     *)
(* steps below are the writes of the two threads, in program order.        *)
(* `raced' remembers the flows it happened to, and no property says what   *)
(* becomes of their bytes.                                                 *)
(*                                                                         *)
(* The two queues are the bounded FIFOs that SPSCQueue implements.  The    *)
(* clock is a free choice: whether a flow expires, or is due for a         *)
(* periodic dump.  The waits of the dump thread are timed and thus never   *)
(* keep it from going on: they are steps that change nothing.              *)
(***************************************************************************)
EXTENDS Integers, Sequences, FiniteSets

CONSTANTS Flows,
          NoFlow,
          IdleQueueLen,   \* MAX_IDLE_FLOW_QUEUE_LEN
          ActiveQueueLen, \* MAX_ACTIVE_FLOW_QUEUE_LEN
          IdleBudget,     \* idle_flows_budget
          ActiveBudget,   \* active_flows_budget
          TinyBytes,      \* max_num_bytes_per_tiny_flow, with their export off
          MaxBytes,       \* bound: bytes of a flow in each direction
          Traffic,        \* bound: the directions in which packets are sent
          SwapEnabled,    \* isFlowSwapHeuristicEnabled()
          Reswap,         \* bound: packets may swap a flow more than once
          AllocMayFail    \* new (std::nothrow) may return a null pointer

Directions == {"cli2srv", "srv2cli"}

ASSUME DumpAssumption ==
         /\ IsFiniteSet(Flows) /\ NoFlow \notin Flows
         /\ IdleQueueLen \in Nat \ {0} /\ ActiveQueueLen \in Nat \ {0}
         /\ IdleBudget \in Nat \ {0} /\ ActiveBudget \in Nat \ {0}
         /\ TinyBytes \in Int /\ MaxBytes \in Nat
         /\ Traffic \subseteq Directions
         /\ {SwapEnabled, Reswap, AllocMayFail} \subseteq BOOLEAN

Bytes == [Directions -> 0 .. MaxBytes]
Zero == [d \in Directions |-> 0]

VARIABLES
  place,                \* where the flow is: table, idle_entries_shadow, ...
  stats,                \* its bytes so far
  swap_done,            \* its two ends were swapped
  uses,                 \* num_uses
  in_progress,          \* last_db_dump.in_progress
  partial,              \* last_db_dump.partial: the bytes at the last dump
  no_partial,           \* last_db_dump.partial is a null pointer
  delta,                \* last_db_dump.delta
  idleFlowsToDump, activeFlowsToDump,
  running, shutting_down,
  shutdown_requested,   \* the global flag, raised by a signal
  i_pc, i_flow,         \* the inline thread: its step and the flow of dumpFlow()
  s_flow,               \* the flow that it swaps, or that expires,
  s_dir, s_pivot,       \* the field that swap() is at and its pivot
  d_pc, d_flow,         \* the dump thread: its step and its flow,
  d_dir, d_tmp, d_cur,  \* the field that get_partial() is at, its tmp and cur
  d_idle,               \* whether it drains idleFlowsToDump
  d_done,               \* the flows dumped from the current queue
  d_last,               \* the round that follows the end of the loop
  handed,               \* the bytes that were handed to the database, of a
                        \* flow that has not raced (history variable)
  raced,                \* it was swapped during a dump (history variable)
  starved,              \* there was no memory for some dump (history variable)
  recorded              \* the last dump was queued (history variable)

flowVars == <<place, uses, in_progress, recorded>>
statVars == <<stats, swap_done, s_flow, s_dir, s_pivot>>
dumpVars == <<partial, no_partial, delta>>
queues == <<idleFlowsToDump, activeFlowsToDump>>
ifVars == <<running, shutting_down, shutdown_requested>>
inlineVars == <<i_pc, i_flow>>
partVars == <<d_dir, d_tmp, d_cur>>
dumperVars == <<d_pc, d_flow, d_idle, d_done, d_last, partVars>>
dbVars == <<handed, raced, starved>>
vars == <<flowVars, statVars, dumpVars, queues, ifVars, inlineVars, dumperVars,
          dbVars>>

\* The steps of swap(), and those from the first read of the counters of a
\* flow to the last read of its delta.
SwapSteps == {"swap_stats", "swap_partial", "swap_delta"}
WindowSteps == {"copy", "diff", "delta", "keep", "export"}

TypeOK ==
  /\ place \in [Flows -> {"table", "shadow", "idle", "in_use", "deleted"}]
  /\ stats \in [Flows -> Bytes]
  /\ uses \in [Flows -> -1 .. 3] /\ swap_done \in [Flows -> BOOLEAN]
  /\ in_progress \in [Flows -> BOOLEAN] /\ no_partial \in [Flows -> BOOLEAN]
  /\ partial \in [Flows -> Bytes] /\ delta \in [Flows -> Bytes]
  /\ idleFlowsToDump \in Seq(Flows) /\ activeFlowsToDump \in Seq(Flows)
  /\ {running, shutting_down, shutdown_requested} \subseteq BOOLEAN
  /\ i_pc \in {"packets", "scan", "last", "queued", "counted", "purge",
               "stopped", "destroyed"} \cup SwapSteps
  /\ i_flow \in Flows \cup {NoFlow} /\ s_flow \in Flows \cup {NoFlow}
  /\ s_dir \in Directions /\ s_pivot \in 0 .. MaxBytes
  /\ d_pc \in {"starting", "loop", "drain", "alloc", "done", "release",
               "stopped", "aborted"} \cup WindowSteps
  /\ d_flow \in Flows \cup {NoFlow}
  /\ d_dir \in Directions /\ d_tmp \in Bytes /\ d_cur \in Bytes
  /\ d_idle \in BOOLEAN /\ d_last \in BOOLEAN
  /\ d_done \in 0 .. (IF d_idle THEN IdleBudget ELSE ActiveBudget)
  /\ handed \in [Flows -> [Directions -> Nat]] /\ raced \in [Flows -> BOOLEAN]
  /\ recorded \in [Flows -> BOOLEAN] /\ starved \in [Flows -> BOOLEAN]

Init ==
  /\ place = [f \in Flows |-> "table"]
  /\ stats = [f \in Flows |-> Zero]
  /\ swap_done = [f \in Flows |-> FALSE]
  /\ uses = [f \in Flows |-> 0]
  /\ in_progress = [f \in Flows |-> FALSE]
  /\ partial = [f \in Flows |-> Zero] /\ no_partial = [f \in Flows |-> TRUE]
  /\ delta = [f \in Flows |-> Zero]
  /\ idleFlowsToDump = <<>> /\ activeFlowsToDump = <<>>
  /\ running = TRUE /\ shutting_down = FALSE /\ shutdown_requested = FALSE
  /\ i_pc = "packets" /\ i_flow = NoFlow
  /\ s_flow = NoFlow /\ s_dir = "cli2srv" /\ s_pivot = 0
  /\ d_pc = "starting" /\ d_flow = NoFlow
  /\ d_dir = "cli2srv" /\ d_tmp = Zero /\ d_cur = Zero
  /\ d_idle = TRUE /\ d_done = 0 /\ d_last = FALSE
  /\ handed = [f \in Flows |-> Zero] /\ raced = [f \in Flows |-> FALSE]
  /\ recorded = [f \in Flows |-> FALSE] /\ starved = [f \in Flows |-> FALSE]

Plus(a, b) == [d \in Directions |-> a[d] + b[d]]
Total(a) == a["cli2srv"] + a["srv2cli"]

\* NON_NEGATIVE_DIFF
Minus(a, b) == IF b > a THEN 0 ELSE a - b

\* The inline thread is swapping the flow; the dump thread is computing or
\* exporting its delta.
Swapping(f) == s_flow = f /\ i_pc \in SwapSteps
Window(f) == d_flow = f /\ d_pc \in WindowSteps
-----------------------------------------------------------------------------
(***************************************************************************)
(* The inline thread.                                                      *)
(***************************************************************************)

\* A packet of the flow is counted.
Packet(f, d) ==
  /\ i_pc = "packets" /\ running /\ place[f] = "table"
  /\ stats[f][d] < MaxBytes
  /\ stats' = [stats EXCEPT ![f][d] = @ + 1]
  /\ UNCHANGED <<flowVars, swap_done, s_flow, s_dir, s_pivot, dumpVars, queues,
                 ifVars, inlineVars, dumperVars, dbVars>>

\* swap() begins, for a packet of the flow or because the flow expires.
BeginSwap(f) ==
  /\ SwapEnabled
  /\ i_pc' = "swap_stats"
  /\ raced' = [raced EXCEPT ![f] = @ \/ Window(f)]

swap(f) ==
  /\ i_pc = "packets" /\ running /\ place[f] = "table"
  /\ Reswap \/ ~swap_done[f]
  /\ BeginSwap(f) /\ s_flow' = f
  /\ UNCHANGED <<flowVars, stats, swap_done, s_dir, s_pivot, dumpVars, queues,
                 ifVars, i_flow, dumperVars, handed, starved>>

\* pivot = a; a = b; b = pivot, for the two directions of counter c: the first
\* step writes a, the second one b, and goes on with step `next'.
Exchanged(c) ==
  IF s_dir = "cli2srv"
    THEN [c EXCEPT ![s_flow]["cli2srv"] = c[s_flow]["srv2cli"]]
    ELSE [c EXCEPT ![s_flow]["srv2cli"] = s_pivot]

NextField(c, next) ==
  IF s_dir = "cli2srv"
    THEN s_dir' = "srv2cli" /\ s_pivot' = c[s_flow]["cli2srv"] /\ i_pc' = i_pc
    ELSE s_dir' = "cli2srv" /\ s_pivot' = 0 /\ i_pc' = next

swap_stats ==
  /\ i_pc = "swap_stats"
  /\ stats' = Exchanged(stats)
  /\ NextField(stats, IF no_partial[s_flow] THEN "swap_delta" ELSE "swap_partial")
  /\ UNCHANGED <<flowVars, swap_done, dumpVars, queues, ifVars, s_flow, i_flow,
                 dumperVars, dbVars>>

swap_partial ==
  /\ i_pc = "swap_partial"
  /\ partial' = Exchanged(partial)
  /\ NextField(partial, "swap_delta")
  /\ UNCHANGED <<flowVars, stats, swap_done, no_partial, delta, queues, ifVars,
                 s_flow, i_flow, dumperVars, dbVars>>

\* The end of swap(): back to the packets, or to the last dump of the flow.
swap_delta ==
  /\ i_pc = "swap_delta"
  /\ delta' = Exchanged(delta)
  /\ NextField(delta, IF place[s_flow] = "table" THEN "packets" ELSE "last")
  /\ IF i_pc' = "swap_delta" THEN UNCHANGED swap_done
                             ELSE swap_done' = [swap_done EXCEPT ![s_flow] = TRUE]
  /\ s_flow' = IF i_pc' = "packets" THEN NoFlow ELSE s_flow
  /\ UNCHANGED <<flowVars, stats, partial, no_partial, queues, ifVars, i_flow,
                 dumperVars, dbVars>>

isTiny(f) == Total(stats[f]) <= TinyBytes

\* purgeIdle() begins: the entries unlinked earlier can be deleted now.
BeginScan ==
  /\ i_pc' = "scan"
  /\ place' = [f \in Flows |-> IF place[f] = "shadow" THEN "idle" ELSE place[f]]
  /\ UNCHANGED <<statVars, uses, in_progress, recorded, dumpVars, queues, i_flow,
                 dumperVars, dbVars>>

PurgeBegin == /\ i_pc = "packets" /\ running
              /\ BeginScan
              /\ UNCHANGED ifVars

RequestShutdown ==
  /\ ~shutdown_requested /\ shutdown_requested' = TRUE
  /\ UNCHANGED <<flowVars, statVars, dumpVars, queues, running, shutting_down,
                 inlineVars, dumperVars, dbVars>>

\* shutdown() lowers the flag, joins the inline thread and purges all flows.
Shutdown == /\ i_pc = "packets" /\ running /\ shutdown_requested
            /\ running' = FALSE
            /\ BeginScan
            /\ UNCHANGED <<shutting_down, shutdown_requested>>

\* housekeep() of an active flow that is due: the periodic dump.
PeriodicDump(f) ==
  /\ i_pc = "scan" /\ running /\ place[f] = "table"
  /\ ~isTiny(f) /\ ~in_progress[f]
  /\ Len(activeFlowsToDump) < ActiveQueueLen
  /\ activeFlowsToDump' = Append(activeFlowsToDump, f)
  /\ i_pc' = "queued" /\ i_flow' = f
  /\ UNCHANGED <<flowVars, statVars, dumpVars, idleFlowsToDump, ifVars, dumperVars,
                 dbVars>>

\* A flow expires: it leaves the table, and is swapped if that is still pending.
Expire(f, swapping) ==
  /\ i_pc = "scan" /\ place[f] = "table"
  /\ place' = [place EXCEPT ![f] = "shadow"]
  /\ s_flow' = f
  /\ IF swapping THEN BeginSwap(f) ELSE i_pc' = "last" /\ UNCHANGED raced
  /\ UNCHANGED <<stats, swap_done, s_dir, s_pivot, uses, in_progress, recorded,
                 dumpVars, queues, ifVars, i_flow, dumperVars, handed, starved>>

\* Then it is queued for its last dump, unless it is tiny or the queue is full.
LastDump ==
  /\ i_pc = "last"
  /\ s_flow' = NoFlow
  /\ IF ~isTiny(s_flow) /\ Len(idleFlowsToDump) < IdleQueueLen
       THEN /\ idleFlowsToDump' = Append(idleFlowsToDump, s_flow)
            /\ recorded' = [recorded EXCEPT ![s_flow] = TRUE]
            /\ i_pc' = "queued" /\ i_flow' = s_flow
       ELSE i_pc' = "scan" /\ UNCHANGED <<idleFlowsToDump, recorded, i_flow>>
  /\ UNCHANGED <<place, uses, in_progress, stats, swap_done, s_dir, s_pivot,
                 dumpVars, activeFlowsToDump, ifVars, dumperVars, dbVars>>

\* The rest of dumpFlow(): the use and the flag follow the enqueue.
incUses ==
  /\ i_pc = "queued"
  /\ uses' = [uses EXCEPT ![i_flow] = @ + 1]
  /\ i_pc' = "counted"
  /\ UNCHANGED <<place, in_progress, recorded, statVars, dumpVars, queues, ifVars,
                 i_flow, dumperVars, dbVars>>

set_dump_in_progress ==
  /\ i_pc = "counted"
  /\ in_progress' = [in_progress EXCEPT ![i_flow] = TRUE]
  /\ i_pc' = "scan" /\ i_flow' = NoFlow
  /\ UNCHANGED <<place, uses, recorded, statVars, dumpVars, queues, ifVars,
                 dumperVars, dbVars>>

\* The scan ends, after all the flows when the purge is that of shutdown().
ScanEnd ==
  /\ i_pc = "scan"
  /\ ~running => \A f \in Flows : place[f] # "table"
  /\ i_pc' = "purge"
  /\ UNCHANGED <<flowVars, statVars, dumpVars, queues, ifVars, i_flow,
                 dumperVars, dbVars>>

\* Mutant of purgeQueuedIdleEntries: the uses are not looked at.
purgeIgnoringUses ==
  /\ i_pc = "purge"
  /\ place' = [f \in Flows |-> IF place[f] \in {"idle", "in_use"} THEN "deleted"
                                                                ELSE place[f]]
  /\ i_pc' = IF running THEN "packets" ELSE "stopped"
  /\ shutting_down' = ~running
  /\ UNCHANGED <<statVars, uses, in_progress, recorded, dumpVars, queues, running,
                 shutdown_requested, i_flow, dumperVars, dbVars>>

\* purgeQueuedIdleEntries(); after the one of shutdown() the dump thread is told
\* to stop.
purgeQueuedIdleEntries ==
  /\ i_pc = "purge"
  /\ place' = [f \in Flows |->
                 IF place[f] \notin {"idle", "in_use"} THEN place[f]
                 ELSE IF uses[f] = 0 THEN "deleted" ELSE "in_use"]
  /\ i_pc' = IF running THEN "packets" ELSE "stopped"
  /\ shutting_down' = ~running
  /\ UNCHANGED <<statVars, uses, in_progress, recorded, dumpVars, queues, running,
                 shutdown_requested, i_flow, dumperVars, dbVars>>

\* The destructor, once shutdown() has joined the dump thread.
cleanup ==
  /\ i_pc = "stopped" /\ d_pc \in {"stopped", "aborted"}
  /\ place' = [f \in Flows |-> "deleted"]
  /\ i_pc' = "destroyed"
  /\ UNCHANGED <<statVars, uses, in_progress, recorded, dumpVars, queues, ifVars,
                 i_flow, dumperVars, dbVars>>
-----------------------------------------------------------------------------
(***************************************************************************)
(* The dump thread.                                                        *)
(***************************************************************************)

Inline == <<place, recorded, statVars, ifVars, inlineVars>>

\* It waits for the interface to run, and gives up if a shutdown was requested
\* in the meantime.
Start ==
  /\ d_pc = "starting"
  /\ d_pc' = IF running /\ ~shutdown_requested THEN "loop" ELSE "aborted"
  /\ running \/ shutdown_requested
  /\ UNCHANGED <<Inline, uses, in_progress, dumpVars, queues, d_flow, d_idle,
                 partVars, d_done, d_last, dbVars>>

\* Mutant of isShuttingDown: the last purge is not waited for.
isNotRunning == ~running

isShuttingDown == ~running /\ shutting_down

\* A round of dequeueFlowsForDump(): the last one has no budget.
RoundBegin ==
  /\ d_pc = "loop"
  /\ d_last' = isShuttingDown
  /\ d_idle' = TRUE /\ d_done' = 0 /\ d_pc' = "drain"
  /\ UNCHANGED <<Inline, uses, in_progress, dumpVars, queues, d_flow, partVars,
                 dbVars>>

Draining == IF d_idle THEN idleFlowsToDump ELSE activeFlowsToDump
BudgetExceeded ==
  ~d_last /\ d_done >= (IF d_idle THEN IdleBudget ELSE ActiveBudget)

Dequeue ==
  /\ d_pc = "drain" /\ Draining # <<>> /\ ~BudgetExceeded
  /\ d_flow' = Head(Draining)
  /\ IF d_idle THEN /\ idleFlowsToDump' = Tail(idleFlowsToDump)
                    /\ UNCHANGED activeFlowsToDump
               ELSE /\ activeFlowsToDump' = Tail(activeFlowsToDump)
                    /\ UNCHANGED idleFlowsToDump
  /\ d_pc' = "alloc"
  /\ UNCHANGED <<Inline, uses, in_progress, dumpVars, partVars, d_idle, d_done,
                 d_last, dbVars>>

\* The queue of idle flows is followed by that of the active ones, and this by
\* the next round.
QueueDone ==
  /\ d_pc = "drain" /\ (Draining = <<>> \/ BudgetExceeded)
  /\ d_idle' = FALSE /\ d_done' = 0
  /\ d_pc' = IF d_idle THEN "drain" ELSE IF d_last THEN "stopped" ELSE "loop"
  /\ UNCHANGED <<Inline, uses, in_progress, dumpVars, queues, d_flow, partVars,
                 d_last, dbVars>>

\* get_partial_traffic_stats(): at the first dump of a flow it may fail for lack
\* of memory, and dumpFlowOut() returns.
NoMemory ==
  /\ d_pc = "alloc" /\ no_partial[d_flow] /\ AllocMayFail
  /\ d_pc' = "drain" /\ d_flow' = NoFlow
  /\ starved' = [starved EXCEPT ![d_flow] = TRUE]
  /\ UNCHANGED <<Inline, uses, in_progress, dumpVars, queues, partVars, d_idle,
                 d_done, d_last, handed, raced>>

HasPartial ==
  /\ d_pc = "alloc"
  /\ no_partial' = [no_partial EXCEPT ![d_flow] = FALSE]
  /\ raced' = [raced EXCEPT ![d_flow] = @ \/ Swapping(d_flow)]
  /\ d_pc' = "copy"
  /\ UNCHANGED <<Inline, uses, in_progress, partial, delta, queues, d_flow,
                 partVars, d_idle, d_done, d_last, handed, starved>>

\* get_partial() goes over the fields four times.
Field(pc, next) ==
  /\ d_pc = pc
  /\ IF d_dir = "cli2srv" THEN d_dir' = "srv2cli" /\ d_pc' = pc
                          ELSE d_dir' = "cli2srv" /\ d_pc' = next
  /\ UNCHANGED <<Inline, uses, in_progress, no_partial, queues, d_flow, d_idle,
                 d_done, d_last, dbVars>>

\* Mutant of CopyStats: the counters are copied at the first dump only.
CopyStatsOnce ==
  /\ Field("copy", "diff")
  /\ d_tmp' = [d_tmp EXCEPT ![d_dir] = IF Total(partial[d_flow]) = 0
                                         THEN stats[d_flow][d_dir]
                                         ELSE partial[d_flow][d_dir]]
  /\ UNCHANGED <<partial, delta, d_cur>>

\* tmp(*this): a copy of the counters ...
CopyStats ==
  /\ Field("copy", "diff")
  /\ d_tmp' = [d_tmp EXCEPT ![d_dir] = stats[d_flow][d_dir]]
  /\ UNCHANGED <<partial, delta, d_cur>>

\* ... tmp - *dst: its difference from the previous one, in cur ...
DiffStats ==
  /\ Field("diff", "delta")
  /\ d_cur' = [d_cur EXCEPT ![d_dir] = Minus(d_tmp[d_dir], partial[d_flow][d_dir])]
  /\ UNCHANGED <<partial, delta, d_tmp>>

\* ... *fts = cur: which becomes the delta ...
StoreDelta ==
  /\ Field("delta", "keep")
  /\ delta' = [delta EXCEPT ![d_flow][d_dir] = d_cur[d_dir]]
  /\ UNCHANGED <<partial, d_tmp, d_cur>>

\* Mutant of KeepStats: the copy is not kept for the next dump.
KeepNothing ==
  /\ Field("keep", "export")
  /\ UNCHANGED <<partial, delta, d_tmp, d_cur>>

\* ... *dst = tmp: and the copy is kept for the next dump.
KeepStats ==
  /\ Field("keep", "export")
  /\ partial' = [partial EXCEPT ![d_flow][d_dir] = d_tmp[d_dir]]
  /\ UNCHANGED <<delta, d_tmp, d_cur>>

\* The delta is handed to the database, if there are bytes in it.  A database
\* that refuses it is counted and not asked again.
Export ==
  /\ d_pc = "export"
  /\ handed' = IF raced[d_flow] \/ Total(delta[d_flow]) = 0 THEN handed
               ELSE [handed EXCEPT ![d_flow] = Plus(@, delta[d_flow])]
  /\ d_pc' = "done"
  /\ UNCHANGED <<Inline, uses, in_progress, dumpVars, queues, d_flow, partVars,
                 d_idle, d_done, d_last, raced, starved>>

set_dump_done ==
  /\ d_pc = "done"
  /\ in_progress' = [in_progress EXCEPT ![d_flow] = FALSE]
  /\ d_pc' = "release"
  /\ UNCHANGED <<Inline, uses, dumpVars, queues, d_flow, partVars, d_idle, d_done,
                 d_last, dbVars>>

\* Mutant of decUses: only a flow of the idle queue is released.
decUsesIfIdle ==
  /\ d_pc = "release"
  /\ uses' = [uses EXCEPT ![d_flow] = IF d_idle THEN @ - 1 ELSE @]
  /\ d_done' = IF d_last THEN d_done ELSE d_done + 1
  /\ d_flow' = NoFlow /\ d_pc' = "drain" /\ d_dir' = "cli2srv"
  /\ d_tmp' = Zero /\ d_cur' = Zero
  /\ UNCHANGED <<Inline, in_progress, dumpVars, queues, d_idle, d_last, dbVars>>

decUses ==
  /\ d_pc = "release"
  /\ uses' = [uses EXCEPT ![d_flow] = @ - 1]
  /\ d_done' = IF d_last THEN d_done ELSE d_done + 1
  /\ d_flow' = NoFlow /\ d_pc' = "drain" /\ d_dir' = "cli2srv"
  /\ d_tmp' = Zero /\ d_cur' = Zero
  /\ UNCHANGED <<Inline, in_progress, dumpVars, queues, d_idle, d_last, dbVars>>
-----------------------------------------------------------------------------
InlineStep ==
  \/ \E f \in Flows, s \in BOOLEAN : Expire(f, s)
  \/ swap_stats \/ swap_partial \/ swap_delta \/ LastDump
  \/ incUses \/ set_dump_in_progress \/ ScanEnd \/ purgeQueuedIdleEntries
  \/ cleanup

Dumper ==
  \/ Start \/ RoundBegin \/ Dequeue \/ QueueDone
  \/ NoMemory \/ HasPartial
  \/ CopyStats \/ DiffStats \/ StoreDelta \/ KeepStats \/ Export
  \/ set_dump_done \/ decUses

Next ==
  \/ \E f \in Flows :
       \/ \E d \in Traffic : Packet(f, d)
       \/ swap(f) \/ PeriodicDump(f)
  \/ RequestShutdown \/ Shutdown
  \/ PurgeBegin \/ InlineStep \/ Dumper

Spec == Init /\ [][Next]_vars

\* Both threads go on, purges recur, a scan visits finitely many flows, and a
\* requested shutdown is carried out however often the inline thread purges.
FairSpec ==
  /\ Spec
  /\ WF_vars(InlineStep) /\ WF_vars(Dumper) /\ WF_vars(PurgeBegin)
  /\ SF_vars(ScanEnd) /\ SF_vars(Shutdown)
-----------------------------------------------------------------------------
(***************************************************************************)
(* Properties.                                                             *)
(***************************************************************************)

Occurrences(f, q) == Cardinality({k \in DOMAIN q : q[k] = f})
\* The times the flow is queued or in the hands of the dump thread.
Slots(f) ==
  Occurrences(f, idleFlowsToDump) + Occurrences(f, activeFlowsToDump)
    + (IF d_flow = f THEN 1 ELSE 0)

\* A flow is in each queue at most once: in_progress keeps it from being queued
\* twice for its periodic dump, and a flow expires once.  num_uses counts these
\* slots, but for a flow that dumpFlow() has queued and not counted yet, whose
\* uses may even be -1 if the dump thread is faster.
UsesAccounted ==
  /\ TypeOK
  /\ \A f \in Flows :
       /\ Occurrences(f, idleFlowsToDump) <= 1
       /\ Occurrences(f, activeFlowsToDump) <= 1
       /\ uses[f] = Slots(f) - (IF i_pc = "queued" /\ i_flow = f THEN 1 ELSE 0)

\* The dump thread never meets a deleted flow, although dumpFlow() counts the use
\* after the enqueue and the dump thread may drop it before: flows are deleted by
\* the thread that runs dumpFlow(), after it returned.
NoUseAfterFree ==
  \A f \in Flows : place[f] = "deleted" =>
    /\ i_flow # f /\ s_flow # f /\ d_flow # f
    /\ d_pc # "aborted" => Slots(f) = 0

\* The bytes agree in all, and in each direction if the flow was not swapped.
SameBytes(f, a, b) == Total(a) = Total(b) /\ (~swap_done[f] => a = b)

\* No byte is exported twice or skipped, also when a flow is in both queues, gets
\* packets during its dump or is swapped between two dumps: between dumps what was
\* handed to the database is the flow's traffic up to the last dump, and never
\* more than its traffic so far.  A flow that is swapped during a dump is left out.
ExportedOnce ==
  \A f \in Flows :
    ~raced[f] /\ ~Swapping(f) =>
      /\ ~Window(f) => SameBytes(f, handed[f], partial[f])
      /\ Total(handed[f]) <= Total(stats[f])

\* Once a flow whose last dump was queued is deleted, all its traffic has been
\* handed to the database, unless the dump thread gave up during the startup,
\* there never was memory for a dump of the flow, or it was swapped during a dump.
LastDumpComplete ==
  \A f \in Flows :
    place[f] = "deleted" /\ recorded[f] /\ ~no_partial[f] /\ ~raced[f]
      /\ d_pc # "aborted" => SameBytes(f, handed[f], stats[f])

\* When the dump thread stops, nothing is left in the queues and no flow is kept
\* by its uses: shutdown() raises shutting_down after its purge.
DrainedAtStop ==
  d_pc = "stopped" => /\ idleFlowsToDump = <<>> /\ activeFlowsToDump = <<>>
                      /\ \A f \in Flows : uses[f] = 0

\* A flow that left the table is deleted eventually, unless there was no memory
\* for one of its dumps: dumpFlowOut() then returns early and keeps the use.
EventuallyDeleted ==
  \A f \in Flows : place[f] = "shadow" ~> (place[f] = "deleted" \/ starved[f])

\* "Set to true when the flow is enqueued to be dumped": in_progress says that
\* the flow is queued or being dumped.
InProgressMeansQueued == \A f \in Flows : in_progress[f] => Slots(f) > 0

\* "Flow stats went backwards": operator-() warns when the previous copy of a
\* counter is ahead of the present one.
StatsNeverBackwards ==
  d_pc = "diff" => partial[d_flow][d_dir] <= d_tmp[d_dir]
=============================================================================
