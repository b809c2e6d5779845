-------------------------- MODULE FlowDump_proofs ---------------------------
(***************************************************************************)
(* The uses and the bytes of the flows in the dump, for any number of      *)
(* flows, all lengths of the queues and budgets of the dump thread, with   *)
(* and without allocations that fail: each queue holds a flow once, the    *)
(* uses count the places that refer to it, a deleted flow is never met,    *)
(* and its traffic was handed to the database exactly once unless it was   *)
(* swapped during a dump.                                                  *)
(*                                                                         *)
(* The inductive invariant says who may be queued for the periodic dump: a *)
(* flow of the table that is in activeFlowsToDump, or that was taken from  *)
(* it and not yet marked as dumped, is in progress or in the hands of      *)
(* dumpFlow().  For the bytes of a flow that has not raced it follows       *)
(* swap() and get_partial() field by field: the copy of the last dump is   *)
(* never ahead of the counters, in the order in which the swap has them,   *)
(* and what was handed over is that copy.  A flow whose last dump was      *)
(* queued is still in idleFlowsToDump or was copied with its final         *)
(* counters.                                                               *)
(***************************************************************************)
EXTENDS FlowDump, FiniteSetTheorems, TLAPS

In(f, q) == \E k \in 1 .. Len(q) : q[k] = f
NoDup(q) == \A k, l \in 1 .. Len(q) : q[k] = q[l] => k = l

\* The steps at which the dump thread holds a flow.
Dumping == {"alloc", "done", "release"} \cup WindowSteps

\* The flow that is swapped or expires.
Housekeeping == {"last"} \cup SwapSteps

Control ==
  /\ i_flow \in Flows <=> i_pc \in {"queued", "counted"}
  /\ s_flow \in Flows <=> i_pc \in Housekeeping
  /\ d_flow \in Flows <=> d_pc \in Dumping
  /\ d_pc \in Dumping /\ ~d_last =>
       d_done < (IF d_idle THEN IdleBudget ELSE ActiveBudget)
  /\ i_pc = "packets" => running
  /\ i_pc \in SwapSteps /\ place[s_flow] = "table" => running
  /\ shutting_down <=> i_pc \in {"stopped", "destroyed"}
  /\ shutting_down => ~running

\* The round without a budget begins after the last enqueue.
LastRound ==
  /\ d_last => shutting_down
  /\ d_last /\ ~d_idle => idleFlowsToDump = <<>>
  /\ d_pc = "stopped" => d_last /\ ~d_idle /\ activeFlowsToDump = <<>>

\* The flow was taken from activeFlowsToDump and its dump is not done.
ActiveDump(f) == d_flow = f /\ ~d_idle /\ d_pc # "release"

QueuedOnce ==
  /\ NoDup(idleFlowsToDump) /\ NoDup(activeFlowsToDump)
  /\ \A f \in Flows :
       /\ In(f, idleFlowsToDump) \/ (d_flow = f /\ d_idle) \/ recorded[f]
            => place[f] # "table" /\ s_flow # f
       /\ i_pc = "last" /\ s_flow = f => place[f] # "table"
       /\ d_flow = f /\ d_idle => ~In(f, idleFlowsToDump)
       /\ ActiveDump(f) => ~In(f, activeFlowsToDump)
       /\ (In(f, activeFlowsToDump) \/ ActiveDump(f)) /\ place[f] = "table"
            => in_progress[f] \/ i_flow = f

One(b) == IF b THEN 1 ELSE 0
Held(f) == One(In(f, idleFlowsToDump)) + One(In(f, activeFlowsToDump))
             + One(d_flow = f)
Late(f) == One(i_pc = "queued" /\ i_flow = f)

\* The uses that a flow can have: of its last dump, of a dump that is done and not
\* released, and of a periodic dump that is not done.
Bound(f) == One(recorded[f]) + One(d_flow = f /\ d_pc = "release")
              + One(place[f] # "table" \/ in_progress[f] \/ i_flow = f)

\* A dump that had no memory keeps its use for ever, and the flag in_progress.
Accounts ==
  \A f \in Flows :
    /\ uses[f] >= Held(f) - Late(f)
    /\ ~starved[f] => uses[f] = Held(f) - Late(f)
    /\ uses[f] + Late(f) <= Bound(f)
    /\ ~AllocMayFail => ~starved[f]

DeletedUnused ==
  \A f \in Flows : place[f] = "deleted" =>
    /\ i_flow # f /\ s_flow # f /\ d_flow # f
    /\ d_pc # "aborted" => /\ ~In(f, idleFlowsToDump)
                           /\ ~In(f, activeFlowsToDump)

IInv == /\ TypeOK /\ Control /\ LastRound /\ QueuedOnce /\ Accounts
        /\ DeletedUnused
-----------------------------------------------------------------------------
(***************************************************************************)
(* Queues.                                                                 *)
(***************************************************************************)

LEMMA InAppend ==
  ASSUME NEW q \in Seq(Flows), NEW f \in Flows
  PROVE  /\ Append(q, f) \in Seq(Flows)
         /\ \A g : In(g, Append(q, f)) <=> In(g, q) \/ g = f
         /\ NoDup(q) /\ ~In(f, q) => NoDup(Append(q, f))
<1> DEFINE r == Append(q, f)
<1>1. /\ Len(q) \in Nat /\ Len(r) = Len(q) + 1 /\ r \in Seq(Flows)
      /\ \A k \in 1 .. Len(q) : r[k] = q[k]
      /\ r[Len(q) + 1] = f
  OBVIOUS
<1>2. \A g : In(g, r) <=> In(g, q) \/ g = f
  BY <1>1 DEF In
<1>3. NoDup(q) /\ ~In(f, q) => NoDup(r)
  BY <1>1 DEF NoDup, In
<1> QED BY <1>1, <1>2, <1>3

LEMMA InTail ==
  ASSUME NEW q \in Seq(Flows), q # <<>>, NoDup(q)
  PROVE  /\ Head(q) \in Flows /\ Tail(q) \in Seq(Flows) /\ NoDup(Tail(q))
         /\ In(Head(q), q)
         /\ \A g : In(g, Tail(q)) <=> In(g, q) /\ g # Head(q)
<1> DEFINE r == Tail(q)
<1>1. /\ Len(q) \in Nat /\ Len(q) > 0 /\ Len(r) = Len(q) - 1
      /\ r \in Seq(Flows) /\ Head(q) = q[1] /\ q[1] \in Flows
      /\ \A k \in 1 .. Len(r) : r[k] = q[k + 1]
  OBVIOUS
<1>2. NoDup(r)
  <2> SUFFICES ASSUME NEW k \in 1 .. Len(r), NEW l \in 1 .. Len(r), r[k] = r[l]
               PROVE  k = l
    BY DEF NoDup
  <2>1. k + 1 \in 1 .. Len(q) /\ l + 1 \in 1 .. Len(q) /\ q[k + 1] = q[l + 1]
    BY <1>1
  <2> QED BY <2>1 DEF NoDup
<1>3. ASSUME NEW g, In(g, r)
      PROVE  In(g, q) /\ g # q[1]
  <2>1. PICK k \in 1 .. Len(r) : r[k] = g
    BY <1>3 DEF In
  <2>2. k + 1 \in 1 .. Len(q) /\ q[k + 1] = g /\ 1 \in 1 .. Len(q) /\ k + 1 # 1
    BY <1>1, <2>1
  <2> QED BY <2>2 DEF In, NoDup
<1>4. ASSUME NEW g, In(g, q), g # q[1]
      PROVE  In(g, r)
  <2>1. PICK k \in 1 .. Len(q) : q[k] = g
    BY <1>4 DEF In
  <2>2. k - 1 \in 1 .. Len(r) /\ r[k - 1] = q[k]
    BY <1>1, <1>4, <2>1
  <2> QED BY <2>1, <2>2 DEF In
<1>5. In(q[1], q)
  BY <1>1 DEF In
<1> QED BY <1>1, <1>2, <1>3, <1>4, <1>5

LEMMA InEmpty == \A f : ~In(f, <<>>)
BY DEF In

LEMMA OccurrencesAre ==
  ASSUME NEW q \in Seq(Flows), NoDup(q), NEW f \in Flows
  PROVE  Occurrences(f, q) = One(In(f, q))
<1> DEFINE S == {k \in DOMAIN q : q[k] = f}
<1>1. DOMAIN q = 1 .. Len(q)
  OBVIOUS
<1>2. CASE In(f, q)
  <2>1. PICK k \in 1 .. Len(q) : q[k] = f
    BY <1>2 DEF In
  <2>2. S = {k}
    BY <1>1, <2>1 DEF NoDup
  <2>3. Cardinality(S) = 1
    BY <2>2, FS_Singleton
  <2> QED BY <1>2, <2>3 DEF Occurrences, One
<1>3. CASE ~In(f, q)
  <2>1. S = {}
    BY <1>1, <1>3 DEF In
  <2>2. Cardinality(S) = 0
    BY <2>1, FS_EmptySet
  <2> QED BY <1>3, <2>2 DEF Occurrences, One
<1> QED BY <1>2, <1>3

LEMMA SlotsAre ==
  ASSUME TypeOK, QueuedOnce, NEW f \in Flows
  PROVE  /\ Slots(f) = Held(f)
         /\ Occurrences(f, idleFlowsToDump) <= 1
         /\ Occurrences(f, activeFlowsToDump) <= 1
<1>1. /\ Occurrences(f, idleFlowsToDump) = One(In(f, idleFlowsToDump))
      /\ Occurrences(f, activeFlowsToDump) = One(In(f, activeFlowsToDump))
  BY OccurrencesAre DEF TypeOK, QueuedOnce
<1> QED BY <1>1 DEF Slots, Held, One
-----------------------------------------------------------------------------
(***************************************************************************)
(* Steps that neither queue a flow nor take it or give it back: they may   *)
(* change the bytes, and move the flow out of the table or delete it.      *)
(***************************************************************************)

FlowInv == QueuedOnce /\ Accounts /\ DeletedUnused

LEMMA UsesType ==
  ASSUME TypeOK
  PROVE  uses \in [Flows -> Int]
<1>1. uses \in [Flows -> -1 .. 3]
  BY DEF TypeOK
<1>2. ASSUME NEW f \in Flows PROVE uses[f] \in Int
  <2>1. uses[f] \in -1 .. 3
    BY <1>1
  <2> QED BY <2>1
<1> QED BY <1>1, <1>2

LEMMA FrameInv ==
  ASSUME TypeOK, FlowInv,
         UNCHANGED <<uses, in_progress, recorded, idleFlowsToDump,
                     activeFlowsToDump, i_flow, d_flow, starved>>,
         d_idle' = d_idle \/ d_flow = NoFlow,
         d_pc' = "release" <=> d_pc = "release",
         d_pc = "aborted" => d_pc' = "aborted",
         i_pc' = "queued" <=> i_pc = "queued",
         \A f \in Flows : place'[f] = "table" => place[f] = "table",
         \A f \in Flows : s_flow' = f =>
           \/ /\ s_flow = f /\ place'[f] = place[f]
              /\ i_pc' = "last" => i_pc = "last" \/ place[f] # "table"
           \/ /\ place[f] = "table" /\ place'[f] # "deleted"
              /\ i_pc' = "last" => place'[f] # "table",
         \A f \in Flows : place'[f] = "deleted" =>
           \/ place[f] = "deleted"
           \/ /\ i_flow # f /\ d_flow # f
              /\ d_pc' # "aborted" => /\ ~In(f, idleFlowsToDump)
                                      /\ ~In(f, activeFlowsToDump)
  PROVE  FlowInv'
<1>1. NoFlow \notin Flows
  BY DumpAssumption
<1>2. QueuedOnce'
  BY <1>1 DEF FlowInv, QueuedOnce, ActiveDump
<1>3. ASSUME NEW f \in Flows
      PROVE  /\ Held(f)' = Held(f) /\ Late(f)' = Late(f) /\ Bound(f)' >= Bound(f)
             /\ Held(f) \in Int /\ Late(f) \in Int /\ uses[f] \in Int
             /\ Bound(f) \in Int /\ Bound(f)' \in Int
  <2>1. Held(f)' = Held(f) /\ Late(f)' = Late(f) /\ Held(f) \in Int /\ Late(f) \in Int
    BY DEF Held, Late, One
  <2>2. Bound(f)' >= Bound(f) /\ Bound(f) \in Int /\ Bound(f)' \in Int
    BY DEF Bound, One
  <2>3. uses[f] \in Int
    BY UsesType
  <2> QED BY <2>1, <2>2, <2>3
<1>4. Accounts'
  BY <1>3 DEF FlowInv, Accounts
<1>5. DeletedUnused'
  BY DEF FlowInv, DeletedUnused
<1> QED BY <1>2, <1>4, <1>5 DEF FlowInv
-----------------------------------------------------------------------------
(***************************************************************************)
(* The steps of dumpFlow().                                                *)
(***************************************************************************)

LEMMA Numbers ==
  \A f \in Flows :
    /\ Held(f) \in 0 .. 3 /\ Late(f) \in 0 .. 1 /\ Bound(f) \in 0 .. 3
    /\ Held(f)' \in 0 .. 3 /\ Late(f)' \in 0 .. 1 /\ Bound(f)' \in 0 .. 3
<1>1. \A f \in Flows : Held(f) \in 0 .. 3 /\ Late(f) \in 0 .. 1 /\ Bound(f) \in 0 .. 3
  BY DEF Held, Late, Bound, One
<1>2. \A f \in Flows : Held(f)' \in 0 .. 3 /\ Late(f)' \in 0 .. 1 /\ Bound(f)' \in 0 .. 3
  BY DEF Held, Late, Bound, One
<1> QED BY <1>1, <1>2

\* The uses change as what they count, and no more than their bound.
LEMMA AccountsKept ==
  ASSUME TypeOK, Accounts, NEW f, uses' \in [Flows -> Int],
         \A g \in Flows : g # f =>
           /\ uses'[g] = uses[g] /\ starved'[g] = starved[g]
           /\ Held(g)' = Held(g) /\ Late(g)' = Late(g) /\ Bound(g)' = Bound(g),
         f \in Flows =>
           /\ uses'[f] - Held(f)' + Late(f)' >= uses[f] - Held(f) + Late(f)
           /\ ~starved'[f] => /\ ~starved[f]
                              /\ uses'[f] - Held(f)' + Late(f)'
                                   = uses[f] - Held(f) + Late(f)
           /\ uses'[f] + Late(f)' - Bound(f)' <= uses[f] + Late(f) - Bound(f)
           /\ ~AllocMayFail /\ ~starved[f] => ~starved'[f]
  PROVE  Accounts'
<1> SUFFICES ASSUME NEW g \in Flows
             PROVE  /\ uses'[g] >= Held(g)' - Late(g)'
                    /\ ~starved'[g] => uses'[g] = Held(g)' - Late(g)'
                    /\ uses'[g] + Late(g)' <= Bound(g)'
                    /\ ~AllocMayFail => ~starved'[g]
  BY DEF Accounts
<1>1. uses[g] \in Int /\ uses'[g] \in Int
  BY UsesType
<1>2. CASE g # f
  BY <1>1, <1>2, Numbers DEF Accounts
<1>3. CASE g = f
  <2>1. /\ uses[f] >= Held(f) - Late(f) /\ (~starved[f] => uses[f] = Held(f) - Late(f))
        /\ uses[f] + Late(f) <= Bound(f) /\ (~AllocMayFail => ~starved[f])
    BY <1>3 DEF Accounts
  <2>2. /\ uses'[f] - Held(f)' + Late(f)' >= uses[f] - Held(f) + Late(f)
        /\ ~starved'[f] => /\ ~starved[f]
                           /\ uses'[f] - Held(f)' + Late(f)'
                                = uses[f] - Held(f) + Late(f)
        /\ uses'[f] + Late(f)' - Bound(f)' <= uses[f] + Late(f) - Bound(f)
        /\ ~AllocMayFail /\ ~starved[f] => ~starved'[f]
    BY <1>3
  <2>3. /\ Held(f) \in Int /\ Late(f) \in Int /\ Bound(f) \in Int
        /\ Held(f)' \in Int /\ Late(f)' \in Int /\ Bound(f)' \in Int
    BY <1>3, Numbers
  <2> QED BY <1>1, <1>3, <2>1, <2>2, <2>3
<1> QED BY <1>2, <1>3

LEMMA UsesRange ==
  ASSUME Accounts', uses' \in [Flows -> Int]
  PROVE  uses' \in [Flows -> -1 .. 3]
<1>1. ASSUME NEW f \in Flows PROVE uses'[f] \in -1 .. 3
  BY Numbers DEF Accounts
<1> QED BY <1>1

LEMMA PeriodicInv ==
  ASSUME TypeOK, Control, FlowInv, NEW f \in Flows, PeriodicDump(f)
  PROVE  FlowInv'
<1> USE DEF FlowInv
<1>1. /\ i_pc = "scan" /\ place[f] = "table" /\ i_flow \notin Flows
      /\ s_flow \notin Flows
      /\ activeFlowsToDump' = Append(activeFlowsToDump, f) /\ ~in_progress[f]
      /\ i_pc' = "queued" /\ i_flow' = f
      /\ UNCHANGED <<place, uses, in_progress, recorded, idleFlowsToDump, d_pc,
                     d_flow, d_idle, starved, s_flow>>
  BY DEF PeriodicDump, Control, Housekeeping, SwapSteps, flowVars, statVars,
     dumperVars, dbVars
<1>2. ~In(f, activeFlowsToDump) /\ ~ActiveDump(f) /\ ~recorded[f]
  BY <1>1 DEF QueuedOnce
<1>3. /\ NoDup(activeFlowsToDump')
      /\ \A g : In(g, activeFlowsToDump') <=> In(g, activeFlowsToDump) \/ g = f
  BY <1>1, <1>2, InAppend DEF TypeOK, QueuedOnce
<1>4. QueuedOnce'
  BY <1>1, <1>2, <1>3 DEF QueuedOnce, ActiveDump
<1>5. \A g \in Flows : g # f => /\ Held(g)' = Held(g) /\ Late(g)' = Late(g)
                                /\ Bound(g)' = Bound(g)
  BY <1>1, <1>3 DEF Held, Late, Bound, One
<1>6. /\ Held(f)' = Held(f) + 1 /\ Late(f)' = 1 /\ Late(f) = 0
      /\ Bound(f)' = Bound(f) + 1
  BY <1>1, <1>2, <1>3 DEF Held, Late, Bound, One
<1>7. uses' \in [Flows -> Int] /\ uses[f] \in Int
  BY <1>1, UsesType
<1>8. Accounts'
  BY <1>1, <1>5, <1>6, <1>7, Numbers, AccountsKept
<1>9. DeletedUnused'
  BY <1>1, <1>3 DEF DeletedUnused
<1> QED BY <1>4, <1>8, <1>9

LEMMA ExpireInv ==
  ASSUME TypeOK, Control, FlowInv, NEW f \in Flows, NEW s \in BOOLEAN, Expire(f, s)
  PROVE  FlowInv'
<1>1. /\ i_pc = "scan" /\ place[f] = "table" /\ s_flow' = f
      /\ place' = [place EXCEPT ![f] = "shadow"] /\ i_pc' \in {"swap_stats", "last"}
      /\ UNCHANGED <<uses, in_progress, recorded, idleFlowsToDump,
                     activeFlowsToDump, i_flow, d_pc, d_flow, d_idle, starved>>
  BY DEF Expire, BeginSwap, queues, dumperVars
<1>2. /\ \A g \in Flows \ {f} : place'[g] = place[g]
      /\ place'[f] = "shadow"
  BY <1>1 DEF TypeOK
<1> QED BY <1>1, <1>2, FrameInv

LEMMA LastDumpInv ==
  ASSUME TypeOK, Control, FlowInv, LastDump
  PROVE  FlowInv'
<1> USE DEF FlowInv
<1>0. PICK f \in Flows : f = s_flow
  BY DEF LastDump, Control, Housekeeping
<1>1. /\ i_pc = "last" /\ place[f] # "table" /\ i_flow \notin Flows
      /\ s_flow' = NoFlow
      /\ UNCHANGED <<place, uses, in_progress, activeFlowsToDump, d_pc, d_flow,
                     d_idle, starved>>
  BY <1>0 DEF LastDump, Control, QueuedOnce, dumperVars, dbVars
<1>2. NoFlow \notin Flows
  BY DumpAssumption
<1>3. CASE i_pc' = "scan" /\ UNCHANGED <<idleFlowsToDump, recorded, i_flow>>
  BY <1>1, <1>2, <1>3, FrameInv
<1>4. CASE /\ idleFlowsToDump' = Append(idleFlowsToDump, f)
           /\ recorded' = [recorded EXCEPT ![f] = TRUE]
           /\ i_pc' = "queued" /\ i_flow' = f
  <2>1. ~In(f, idleFlowsToDump) /\ ~(d_flow = f /\ d_idle) /\ ~recorded[f]
    BY <1>0, <1>1 DEF QueuedOnce
  <2>2. /\ NoDup(idleFlowsToDump')
        /\ \A g : In(g, idleFlowsToDump') <=> In(g, idleFlowsToDump) \/ g = f
    BY <1>4, <2>1, InAppend DEF TypeOK, QueuedOnce
  <2>3. recorded'[f] /\ \A g \in Flows \ {f} : recorded'[g] = recorded[g]
    BY <1>4 DEF TypeOK
  <2>4. QueuedOnce'
    BY <1>1, <1>2, <1>4, <2>1, <2>2, <2>3 DEF QueuedOnce, ActiveDump
  <2>5. \A g \in Flows : g # f => /\ Held(g)' = Held(g) /\ Late(g)' = Late(g)
                                  /\ Bound(g)' = Bound(g)
    BY <1>1, <1>4, <2>2, <2>3 DEF Held, Late, Bound, One
  <2>6. /\ Held(f)' = Held(f) + 1 /\ Late(f)' = 1 /\ Late(f) = 0
        /\ Bound(f)' >= Bound(f) + 1
    BY <1>1, <1>4, <2>1, <2>2, <2>3 DEF Held, Late, Bound, One
  <2>7. uses' \in [Flows -> Int] /\ uses[f] \in Int
    BY <1>1, UsesType
  <2>8. Accounts'
    BY <1>1, <2>5, <2>6, <2>7, Numbers, AccountsKept
  <2>9. DeletedUnused'
    BY <1>0, <1>1, <1>2, <1>4, <2>2 DEF DeletedUnused
  <2> QED BY <2>4, <2>8, <2>9
<1> QED BY <1>0, <1>3, <1>4 DEF LastDump

LEMMA CountInv ==
  ASSUME TypeOK, Control, FlowInv, incUses \/ set_dump_in_progress
  PROVE  FlowInv'
<1> USE DEF FlowInv
<1>1. PICK f \in Flows : f = i_flow
  BY DEF Control, incUses, set_dump_in_progress
<1>2. /\ UNCHANGED <<place, recorded, idleFlowsToDump, activeFlowsToDump, d_pc,
                     d_flow, d_idle, starved>>
      /\ i_flow' \in {f, NoFlow} /\ i_pc' \notin {"queued", "last"}
      /\ s_flow \notin Flows /\ s_flow' = s_flow
      /\ uses' \in [Flows -> Int] /\ uses[f] \in Int
      /\ \A g \in Flows \ {f} : uses'[g] = uses[g] /\ in_progress'[g] = in_progress[g]
      /\ i_flow' = f \/ in_progress'[f]
      /\ uses'[f] = uses[f] + Late(f)
  <2>1. uses \in [Flows -> Int] /\ in_progress \in [Flows -> BOOLEAN]
    BY UsesType DEF TypeOK
  <2>2. CASE incUses
    BY <1>1, <2>1, <2>2 DEF incUses, queues, statVars, dumperVars, dbVars, Late, One,
       Control, Housekeeping, SwapSteps
  <2>3. CASE set_dump_in_progress
    BY <1>1, <2>1, <2>3 DEF set_dump_in_progress, queues, statVars, dumperVars,
       dbVars, Late, One, Control, Housekeeping, SwapSteps
  <2> QED BY <2>2, <2>3
<1>3. NoFlow \notin Flows
  BY DumpAssumption
<1>4. QueuedOnce'
  BY <1>1, <1>2, <1>3 DEF QueuedOnce, ActiveDump
<1>5. \A g \in Flows : g # f => /\ Held(g)' = Held(g) /\ Late(g)' = Late(g)
                                /\ Bound(g)' = Bound(g)
  BY <1>1, <1>2, <1>3 DEF Held, Late, Bound, One
<1>6. Held(f)' = Held(f) /\ Late(f)' = 0 /\ Bound(f)' >= Bound(f)
  BY <1>1, <1>2 DEF Held, Late, Bound, One
<1>7. Accounts'
  BY <1>2, <1>5, <1>6, Numbers, AccountsKept
<1>8. DeletedUnused'
  BY <1>1, <1>2, <1>3 DEF DeletedUnused
<1> QED BY <1>4, <1>7, <1>8
-----------------------------------------------------------------------------
(***************************************************************************)
(* The steps of the dump thread that take a flow, mark it and give it back.*)
(***************************************************************************)

LEMMA DequeueInv ==
  ASSUME TypeOK, Control, FlowInv, Dequeue
  PROVE  FlowInv'
<1> USE DEF FlowInv
<1>1. /\ d_pc = "drain" /\ d_flow \notin Flows /\ d_pc' = "alloc"
      /\ UNCHANGED <<place, uses, in_progress, recorded, i_pc, i_flow, s_flow, d_idle,
                     starved>>
  BY DEF Dequeue, Control, Dumping, WindowSteps, Inline, inlineVars, statVars, dbVars
<1>2. PICK f \in Flows :
        /\ d_flow' = f
        /\ NoDup(idleFlowsToDump') /\ NoDup(activeFlowsToDump')
        /\ \A g : In(g, idleFlowsToDump') <=>
                    In(g, idleFlowsToDump) /\ ~(d_idle /\ g = f)
        /\ \A g : In(g, activeFlowsToDump') <=>
                    In(g, activeFlowsToDump) /\ (d_idle \/ g # f)
        /\ d_idle => In(f, idleFlowsToDump)
        /\ ~d_idle => In(f, activeFlowsToDump)
  <2>1. idleFlowsToDump \in Seq(Flows) /\ activeFlowsToDump \in Seq(Flows)
    BY DEF TypeOK
  <2>2. CASE d_idle
    <3>1. /\ idleFlowsToDump # <<>> /\ d_flow' = Head(idleFlowsToDump)
          /\ idleFlowsToDump' = Tail(idleFlowsToDump)
          /\ activeFlowsToDump' = activeFlowsToDump
      BY <2>2 DEF Dequeue, Draining
    <3> QED BY <2>1, <2>2, <3>1, InTail DEF QueuedOnce
  <2>3. CASE ~d_idle
    <3>1. /\ activeFlowsToDump # <<>> /\ d_flow' = Head(activeFlowsToDump)
          /\ activeFlowsToDump' = Tail(activeFlowsToDump)
          /\ idleFlowsToDump' = idleFlowsToDump
      BY <2>3 DEF Dequeue, Draining
    <3> QED BY <2>1, <2>3, <3>1, InTail DEF QueuedOnce
  <2> QED BY <2>2, <2>3
<1>3. QueuedOnce'
  BY <1>1, <1>2 DEF QueuedOnce, ActiveDump
<1>4. \A g \in Flows : /\ Held(g)' = Held(g) /\ Late(g)' = Late(g)
                       /\ Bound(g)' = Bound(g)
  BY <1>1, <1>2 DEF Held, Late, Bound, One
<1>5. Accounts'
  BY <1>1, <1>4, UsesType, Numbers, AccountsKept
<1>6. DeletedUnused'
  BY <1>1, <1>2 DEF DeletedUnused
<1> QED BY <1>3, <1>5, <1>6

LEMMA NoMemoryInv ==
  ASSUME TypeOK, Control, FlowInv, NoMemory
  PROVE  FlowInv'
<1> USE DEF FlowInv
<1>1. PICK f \in Flows : f = d_flow
  BY DEF Control, NoMemory, Dumping, WindowSteps
<1>2. /\ d_pc = "alloc" /\ d_pc' = "drain" /\ d_flow' = NoFlow /\ AllocMayFail
      /\ UNCHANGED <<place, uses, in_progress, recorded, idleFlowsToDump,
                     activeFlowsToDump, i_pc, i_flow, s_flow, d_idle>>
      /\ starved'[f] /\ \A g \in Flows \ {f} : starved'[g] = starved[g]
  BY <1>1 DEF NoMemory, Inline, inlineVars, statVars, queues, TypeOK
<1>3. NoFlow \notin Flows
  BY DumpAssumption
<1>4. QueuedOnce'
  BY <1>1, <1>2, <1>3 DEF QueuedOnce, ActiveDump
<1>5. \A g \in Flows : g # f => /\ Held(g)' = Held(g) /\ Late(g)' = Late(g)
                                /\ Bound(g)' = Bound(g)
  BY <1>1, <1>2, <1>3 DEF Held, Late, Bound, One
<1>6. Held(f)' = Held(f) - 1 /\ Late(f)' = Late(f) /\ Bound(f)' = Bound(f)
  BY <1>1, <1>2, <1>3 DEF Held, Late, Bound, One
<1>7. uses' \in [Flows -> Int] /\ uses[f] \in Int /\ uses'[f] = uses[f]
  BY <1>2, UsesType
<1>8. Accounts'
  BY <1>2, <1>5, <1>6, <1>7, Numbers, AccountsKept
<1>9. DeletedUnused'
  BY <1>1, <1>2, <1>3 DEF DeletedUnused
<1> QED BY <1>4, <1>8, <1>9

LEMMA DoneInv ==
  ASSUME TypeOK, Control, FlowInv, set_dump_done
  PROVE  FlowInv'
<1> USE DEF FlowInv
<1>1. PICK f \in Flows : f = d_flow
  BY DEF Control, set_dump_done, Dumping, WindowSteps
<1>2. /\ d_pc = "done" /\ d_pc' = "release" /\ ~in_progress'[f]
      /\ UNCHANGED <<place, uses, recorded, idleFlowsToDump, activeFlowsToDump,
                     i_pc, i_flow, s_flow, d_flow, d_idle, starved>>
      /\ \A g \in Flows \ {f} : in_progress'[g] = in_progress[g]
  BY <1>1 DEF set_dump_done, Inline, inlineVars, statVars, queues, dbVars, TypeOK
<1>3. place[f] = "table" => ~In(f, activeFlowsToDump)
  BY <1>1, <1>2 DEF QueuedOnce, ActiveDump
<1>4. QueuedOnce'
  BY <1>1, <1>2, <1>3 DEF QueuedOnce, ActiveDump
<1>5. \A g \in Flows : g # f => /\ Held(g)' = Held(g) /\ Late(g)' = Late(g)
                                /\ Bound(g)' = Bound(g)
  BY <1>1, <1>2 DEF Held, Late, Bound, One
<1>6. Held(f)' = Held(f) /\ Late(f)' = Late(f) /\ Bound(f)' >= Bound(f)
  BY <1>1, <1>2 DEF Held, Late, Bound, One
<1>7. uses' \in [Flows -> Int] /\ uses[f] \in Int /\ uses'[f] = uses[f]
  BY <1>2, UsesType
<1>8. Accounts'
  BY <1>2, <1>5, <1>6, <1>7, Numbers, AccountsKept
<1>9. DeletedUnused'
  BY <1>1, <1>2 DEF DeletedUnused
<1> QED BY <1>4, <1>8, <1>9

LEMMA ReleaseInv ==
  ASSUME TypeOK, Control, FlowInv, decUses
  PROVE  FlowInv'
<1> USE DEF FlowInv
<1>1. PICK f \in Flows : f = d_flow
  BY DEF Control, decUses, Dumping, WindowSteps
<1>2. /\ d_pc = "release" /\ d_pc' = "drain" /\ d_flow' = NoFlow
      /\ UNCHANGED <<place, in_progress, recorded, idleFlowsToDump,
                     activeFlowsToDump, i_pc, i_flow, s_flow, d_idle, starved>>
      /\ uses' = [uses EXCEPT ![f] = @ - 1]
  BY <1>1 DEF decUses, Inline, inlineVars, statVars, queues, dbVars
<1>3. /\ uses' \in [Flows -> Int] /\ uses[f] \in Int /\ uses'[f] = uses[f] - 1
      /\ \A g \in Flows \ {f} : uses'[g] = uses[g]
  BY <1>2, UsesType
<1>4. NoFlow \notin Flows
  BY DumpAssumption
<1>5. QueuedOnce'
  BY <1>1, <1>2, <1>4 DEF QueuedOnce, ActiveDump
<1>6. \A g \in Flows : g # f => /\ Held(g)' = Held(g) /\ Late(g)' = Late(g)
                                /\ Bound(g)' = Bound(g)
  BY <1>1, <1>2, <1>4 DEF Held, Late, Bound, One
<1>7. Held(f)' = Held(f) - 1 /\ Late(f)' = Late(f) /\ Bound(f)' = Bound(f) - 1
  BY <1>1, <1>2, <1>4 DEF Held, Late, Bound, One
<1>8. Accounts'
  BY <1>2, <1>3, <1>6, <1>7, Numbers, AccountsKept
<1>9. DeletedUnused'
  BY <1>1, <1>2, <1>4 DEF DeletedUnused
<1> QED BY <1>5, <1>8, <1>9
-----------------------------------------------------------------------------
(***************************************************************************)
(* The steps that delete flows, and the others that only move them.        *)
(***************************************************************************)

LEMMA PurgeInv ==
  ASSUME TypeOK, Control, FlowInv, purgeQueuedIdleEntries
  PROVE  FlowInv'
<1>1. /\ i_pc = "purge" /\ i_flow \notin Flows /\ i_pc' # "queued"
      /\ s_flow \notin Flows /\ s_flow' = s_flow
      /\ \A f \in Flows : place'[f] =
           IF place[f] \notin {"idle", "in_use"} THEN place[f]
           ELSE IF uses[f] = 0 THEN "deleted" ELSE "in_use"
      /\ UNCHANGED <<uses, in_progress, recorded, idleFlowsToDump,
                     activeFlowsToDump, i_flow, d_pc, d_flow, d_idle, starved>>
  BY DEF purgeQueuedIdleEntries, Control, Housekeeping, SwapSteps, queues, statVars,
     dumperVars, dbVars
<1>2. ASSUME NEW f \in Flows, uses[f] = 0
      PROVE  /\ d_flow # f /\ ~In(f, idleFlowsToDump)
             /\ ~In(f, activeFlowsToDump)
  <2>1. Late(f) = 0 /\ Held(f) <= 0
    <3>1. Late(f) = 0
      BY <1>1 DEF Late, One
    <3> QED BY <1>2, <3>1, Numbers DEF FlowInv, Accounts
  <2> QED BY <2>1 DEF Held, One
<1> QED BY <1>1, <1>2, FrameInv

LEMMA CleanupInv ==
  ASSUME TypeOK, Control, LastRound, FlowInv, cleanup
  PROVE  FlowInv'
<1>1. /\ i_pc = "stopped" /\ i_flow \notin Flows /\ i_pc' # "queued"
      /\ s_flow \notin Flows /\ s_flow' = s_flow
      /\ \A f \in Flows : place'[f] = "deleted"
      /\ UNCHANGED <<uses, in_progress, recorded, idleFlowsToDump,
                     activeFlowsToDump, i_flow, d_pc, d_flow, d_idle, starved>>
      /\ d_pc \in {"stopped", "aborted"} /\ d_flow \notin Flows
  BY DEF cleanup, Control, Housekeeping, SwapSteps, Dumping, WindowSteps, queues,
     statVars, dumperVars, dbVars
<1>2. d_pc = "stopped" => idleFlowsToDump = <<>> /\ activeFlowsToDump = <<>>
  BY DEF LastRound
<1> QED BY <1>1, <1>2, InEmpty, FrameInv

LEMMA ScanInv ==
  ASSUME TypeOK, Control, FlowInv, PurgeBegin \/ Shutdown \/ ScanEnd
  PROVE  FlowInv'
<1>1. /\ \A f \in Flows : place'[f] \in {place[f], "idle"}
      /\ i_pc # "queued" /\ i_pc' # "queued"
      /\ s_flow \notin Flows /\ s_flow' = s_flow
      /\ UNCHANGED <<uses, in_progress, recorded, idleFlowsToDump,
                     activeFlowsToDump, i_flow, d_pc, d_flow, d_idle, starved>>
  BY DEF PurgeBegin, Shutdown, ScanEnd, BeginScan, flowVars, queues, statVars,
     dumperVars, dbVars, Control, Housekeeping, SwapSteps
<1> QED BY <1>1, FrameInv

\* The steps of swap(), and those of the dump thread on the bytes of its flow.
SwapStep == swap_stats \/ swap_partial \/ swap_delta
FieldStep == CopyStats \/ DiffStats \/ StoreDelta \/ KeepStats

LEMMA SwapStepIs ==
  ASSUME SwapStep
  PROVE  /\ UNCHANGED <<flowVars, no_partial, queues, ifVars, i_flow, dumperVars,
                        dbVars>>
         /\ i_pc \in SwapSteps
         /\ \/ i_pc' \in SwapSteps /\ s_flow' = s_flow
            \/ i_pc' = "last" /\ place[s_flow] # "table" /\ s_flow' = s_flow
            \/ i_pc' = "packets" /\ place[s_flow] = "table" /\ s_flow' = NoFlow
BY DEF SwapStep, swap_stats, swap_partial, swap_delta, NextField, SwapSteps, dumpVars

LEMMA FieldStepIs ==
  ASSUME FieldStep
  PROVE  /\ UNCHANGED <<Inline, uses, in_progress, no_partial, queues, d_flow, d_idle,
                        d_done, d_last, dbVars>>
         /\ d_pc \in WindowSteps /\ d_pc' \in WindowSteps
BY DEF FieldStep, CopyStats, DiffStats, StoreDelta, KeepStats, Field, WindowSteps

LEMMA OtherInv ==
  ASSUME TypeOK, Control, FlowInv,
         \/ \E f \in Flows : (\E d \in Traffic : Packet(f, d)) \/ swap(f)
         \/ RequestShutdown \/ SwapStep \/ Start \/ RoundBegin \/ QueueDone
         \/ HasPartial \/ FieldStep \/ Export
  PROVE  FlowInv'
<1> USE DEF Inline, flowVars, inlineVars, statVars, dumperVars, queues, dbVars
<1>1. CASE \E f \in Flows : \E d \in Traffic : Packet(f, d)
  <2>1. UNCHANGED <<place, uses, in_progress, recorded, idleFlowsToDump, i_pc, d_pc,
                    activeFlowsToDump, i_flow, s_flow, d_flow, d_idle, starved>>
    BY <1>1 DEF Packet
  <2> QED BY <2>1, FrameInv
<1>2. CASE \E f \in Flows : swap(f)
  <2>1. PICK f \in Flows : swap(f)
    BY <1>2
  <2>2. /\ UNCHANGED <<place, uses, in_progress, recorded, idleFlowsToDump, d_pc,
                       activeFlowsToDump, i_flow, d_flow, d_idle, starved>>
        /\ i_pc = "packets" /\ i_pc' = "swap_stats" /\ s_flow' = f
        /\ place[f] = "table"
    BY <2>1 DEF swap, BeginSwap
  <2> QED BY <2>2, FrameInv
<1>3. CASE RequestShutdown
  BY <1>3, FrameInv DEF RequestShutdown
<1>4. CASE SwapStep
  <2>1. /\ UNCHANGED <<place, uses, in_progress, recorded, idleFlowsToDump, d_pc,
                       activeFlowsToDump, i_flow, d_flow, d_idle, starved>>
        /\ i_pc # "queued" /\ i_pc' # "queued"
        /\ s_flow' = s_flow \/ s_flow' = NoFlow
        /\ i_pc' = "last" => place[s_flow] # "table"
    BY <1>4, SwapStepIs DEF SwapSteps
  <2>2. NoFlow \notin Flows
    BY DumpAssumption
  <2> QED BY <2>1, <2>2, FrameInv
<1>5. CASE Start
  BY <1>5, FrameInv DEF Start
<1>6. CASE RoundBegin \/ QueueDone
  <2>1. d_flow = NoFlow
    BY <1>6 DEF RoundBegin, QueueDone, Control, Dumping, WindowSteps, TypeOK
  <2>2. /\ UNCHANGED <<place, uses, in_progress, recorded, idleFlowsToDump, i_pc,
                       activeFlowsToDump, i_flow, s_flow, d_flow, starved>>
        /\ d_pc \in {"loop", "drain"} /\ d_pc' \in {"loop", "drain", "stopped"}
    BY <1>6 DEF RoundBegin, QueueDone
  <2> QED BY <2>1, <2>2, FrameInv
<1>7. CASE HasPartial
  BY <1>7, FrameInv DEF HasPartial
<1>8. CASE FieldStep
  <2>1. /\ UNCHANGED <<place, uses, in_progress, recorded, idleFlowsToDump, i_pc,
                       activeFlowsToDump, i_flow, s_flow, d_flow, d_idle, starved>>
        /\ d_pc \notin {"release", "aborted"} /\ d_pc' \notin {"release", "aborted"}
    BY <1>8, FieldStepIs DEF WindowSteps
  <2> QED BY <2>1, FrameInv
<1>9. CASE Export
  BY <1>9, FrameInv DEF Export
<1> QED BY <1>1, <1>2, <1>3, <1>4, <1>5, <1>6, <1>7, <1>8, <1>9
-----------------------------------------------------------------------------
(***************************************************************************)
(* The threads, and the types but for the uses.                            *)
(***************************************************************************)

LEMMA ControlInv ==
  ASSUME TypeOK, Control, LastRound, [Next]_vars
  PROVE  Control' /\ LastRound'
<1> USE DEF Control, LastRound, Dumping, Housekeeping, SwapSteps, WindowSteps, flowVars,
        inlineVars, dumperVars, queues, ifVars, statVars, Inline
<1>0. NoFlow \notin Flows
  BY DumpAssumption
<1>1. ASSUME NEW f \in Flows, NEW d \in Traffic, Packet(f, d)
      PROVE  Control' /\ LastRound'
  <2>1. UNCHANGED <<place, i_flow, i_pc, s_flow, d_flow, d_pc, d_last, d_done, d_idle, running,
                    shutting_down, idleFlowsToDump, activeFlowsToDump>>
    BY <1>1 DEF Packet
  <2> QED BY <2>1
<1>1a. ASSUME NEW f \in Flows, swap(f)
      PROVE  Control' /\ LastRound'
  BY <1>1a DEF swap, BeginSwap
<1>2. CASE RequestShutdown
  BY <1>2 DEF RequestShutdown
<1>2a. CASE SwapStep
  <2>1. /\ UNCHANGED <<i_flow, d_flow, d_pc, d_last, d_done, d_idle, running,
                    shutting_down, idleFlowsToDump, activeFlowsToDump>>
        /\ i_pc \in SwapSteps
        /\ \/ i_pc' \in {"last"} \cup SwapSteps /\ s_flow' = s_flow
           \/ i_pc' = "packets" /\ place[s_flow] = "table" /\ s_flow' = NoFlow
    BY <1>2a, SwapStepIs
  <2>2. UNCHANGED place
    BY <1>2a, SwapStepIs
  <2> QED BY <1>0, <2>1, <2>2
<1>3. CASE PurgeBegin \/ Shutdown
  <2>1. /\ UNCHANGED <<i_flow, s_flow, d_flow, d_pc, d_last, d_done, d_idle,
                       shutting_down, idleFlowsToDump, activeFlowsToDump>>
        /\ i_pc = "packets" /\ i_pc' = "scan"
    BY <1>3 DEF PurgeBegin, Shutdown, BeginScan
  <2>2. ~shutting_down /\ s_flow \notin Flows
    BY <2>1
  <2> QED BY <2>1, <2>2
<1>4. ASSUME NEW f \in Flows, PeriodicDump(f)
      PROVE  Control' /\ LastRound'
  BY <1>4 DEF PeriodicDump
<1>5. ASSUME NEW f \in Flows, NEW s \in BOOLEAN, Expire(f, s)
      PROVE  Control' /\ LastRound'
  <2>1. s_flow' = f /\ place'[f] = "shadow" /\ i_pc' \in {"last", "swap_stats"}
    BY <1>5 DEF Expire, BeginSwap, TypeOK
  <2> QED BY <1>5, <2>1 DEF Expire
<1>5a. CASE LastDump
  BY <1>0, <1>5a DEF LastDump
<1>6. CASE incUses \/ set_dump_in_progress \/ ScanEnd
  BY <1>0, <1>6 DEF incUses, set_dump_in_progress, ScanEnd
<1>7. CASE purgeQueuedIdleEntries
  BY <1>7 DEF purgeQueuedIdleEntries, TypeOK
<1>8. CASE cleanup
  BY <1>8 DEF cleanup
<1>9. CASE Start
  BY <1>9 DEF Start
<1>10. CASE RoundBegin
  BY <1>10 DEF RoundBegin, isShuttingDown, TypeOK
<1>11. CASE Dequeue
  <2>1. d_flow' \in Flows /\ d_pc = "drain" /\ d_pc' = "alloc"
    BY <1>11 DEF Dequeue, Draining, TypeOK
  <2>2. ~d_last => d_done < (IF d_idle THEN IdleBudget ELSE ActiveBudget)
    BY <1>11, DumpAssumption DEF Dequeue, BudgetExceeded, TypeOK
  <2>3. d_last /\ ~d_idle => idleFlowsToDump' = <<>>
    BY <1>11 DEF Dequeue
  <2> QED BY <1>11, <2>1, <2>2, <2>3 DEF Dequeue
<1>12. CASE QueueDone
  <2>1. d_last => Draining = <<>>
    BY <1>12 DEF QueueDone, BudgetExceeded
  <2> QED BY <1>12, <2>1 DEF QueueDone, Draining, TypeOK
<1>13. CASE NoMemory
  BY <1>0, <1>13 DEF NoMemory
<1>14. CASE HasPartial \/ Export
  BY <1>14 DEF HasPartial, Export
<1>14a. CASE FieldStep
  BY <1>14a, FieldStepIs
<1>15. CASE set_dump_done
  BY <1>15 DEF set_dump_done
<1>16. CASE decUses
  BY <1>0, <1>16 DEF decUses
<1>17. CASE UNCHANGED vars
  BY <1>17 DEF vars
<1> QED
  BY <1>1, <1>1a, <1>2, <1>2a, <1>3, <1>4, <1>5, <1>5a, <1>6, <1>7, <1>8, <1>9, <1>10,
     <1>11, <1>12, <1>13, <1>14, <1>14a, <1>15, <1>16, <1>17
     DEF Next, InlineStep, Dumper, SwapStep, FieldStep

\* The types of the data.
DataType ==
  /\ stats \in [Flows -> Bytes] /\ s_dir \in Directions /\ s_pivot \in 0 .. MaxBytes
  /\ swap_done \in [Flows -> BOOLEAN] /\ no_partial \in [Flows -> BOOLEAN]
  /\ partial \in [Flows -> Bytes] /\ delta \in [Flows -> Bytes]
  /\ d_dir \in Directions /\ d_tmp \in Bytes /\ d_cur \in Bytes
  /\ handed \in [Flows -> [Directions -> Nat]] /\ raced \in [Flows -> BOOLEAN]
  /\ starved \in [Flows -> BOOLEAN]

LEMMA BytesTypes ==
  /\ MaxBytes \in Nat /\ 0 \in 0 .. MaxBytes
  /\ Zero \in Bytes /\ Zero \in [Directions -> Nat]
  /\ \A d \in Directions : Zero[d] = 0
  /\ \A a \in Bytes, d \in Directions : a[d] \in 0 .. MaxBytes /\ a[d] \in Nat
  /\ \A a \in Bytes, d \in Directions, n \in 0 .. MaxBytes : [a EXCEPT ![d] = n] \in Bytes
  /\ \A a \in [Directions -> Nat], b \in Bytes : Plus(a, b) \in [Directions -> Nat]
  /\ \A m, n \in 0 .. MaxBytes : Minus(m, n) \in 0 .. MaxBytes
BY DumpAssumption DEF Zero, Bytes, Plus, Minus

\* A counter of one flow is written.
LEMMA WriteType ==
  ASSUME NEW c \in [Flows -> Bytes], NEW f \in Flows, NEW d \in Directions,
         NEW n \in 0 .. MaxBytes
  PROVE  [c EXCEPT ![f][d] = n] \in [Flows -> Bytes]
<1>1. [c EXCEPT ![f][d] = n] = [c EXCEPT ![f] = [c[f] EXCEPT ![d] = n]]
  OBVIOUS
<1>2. [c[f] EXCEPT ![d] = n] \in Bytes
  BY BytesTypes
<1> QED BY <1>1, <1>2

LEMMA ExchangeType ==
  ASSUME NEW c \in [Flows -> Bytes], s_flow \in Flows, s_pivot \in 0 .. MaxBytes
  PROVE  /\ Exchanged(c) \in [Flows -> Bytes]
         /\ c[s_flow]["cli2srv"] \in 0 .. MaxBytes
<1>1. "cli2srv" \in Directions /\ "srv2cli" \in Directions
  BY DEF Directions
<1>2. c[s_flow]["cli2srv"] \in 0 .. MaxBytes /\ c[s_flow]["srv2cli"] \in 0 .. MaxBytes
  BY <1>1, BytesTypes
<1>3. [c EXCEPT ![s_flow]["cli2srv"] = c[s_flow]["srv2cli"]] \in [Flows -> Bytes]
  BY <1>1, <1>2, WriteType
<1>4. [c EXCEPT ![s_flow]["srv2cli"] = s_pivot] \in [Flows -> Bytes]
  BY <1>1, WriteType
<1> QED BY <1>2, <1>3, <1>4 DEF Exchanged

LEMMA DataTypeInv ==
  ASSUME DataType, d_flow \in Flows <=> d_pc \in Dumping,
         s_flow \in Flows <=> i_pc \in Housekeeping, [Next]_vars
  PROVE  DataType'
<1> USE DEF DataType, statVars, dumpVars, dbVars, dumperVars, partVars, Inline
<1>1. ASSUME NEW f \in Flows, NEW d \in Traffic, Packet(f, d)
      PROVE  DataType'
  <2>1. d \in Directions /\ stats[f][d] \in 0 .. MaxBytes /\ stats[f][d] < MaxBytes
    BY <1>1, DumpAssumption, BytesTypes DEF Packet
  <2>2. stats[f][d] + 1 \in 0 .. MaxBytes
    <3>1. PICK n \in 0 .. MaxBytes : n = stats[f][d]
      BY <2>1
    <3>2. n + 1 \in 0 .. MaxBytes
      BY <2>1, <3>1, DumpAssumption
    <3> QED BY <3>1, <3>2
  <2>3. stats' = [stats EXCEPT ![f][d] = stats[f][d] + 1]
    BY <1>1 DEF Packet
  <2>4. stats' \in [Flows -> Bytes]
    BY <2>1, <2>2, <2>3, WriteType
  <2> QED BY <1>1, <2>4 DEF Packet
<1>2. ASSUME NEW f \in Flows, swap(f)
      PROVE  DataType'
  <2>1. raced' \in [Flows -> BOOLEAN]
    BY <1>2 DEF swap, BeginSwap, Window
  <2> QED BY <1>2, <2>1 DEF swap
<1>3. CASE SwapStep
  <2>1. s_flow \in Flows
    BY <1>3, SwapStepIs DEF Housekeeping
  <2>2. \A c \in [Flows -> Bytes] : /\ Exchanged(c) \in [Flows -> Bytes]
                                    /\ c[s_flow]["cli2srv"] \in 0 .. MaxBytes
    BY <2>1, ExchangeType
  <2>3. s_dir' \in Directions /\ s_pivot' \in 0 .. MaxBytes
    BY <1>3, <2>2, BytesTypes DEF SwapStep, swap_stats, swap_partial, swap_delta,
       NextField, Directions
  <2>4. /\ stats' \in [Flows -> Bytes] /\ partial' \in [Flows -> Bytes]
        /\ delta' \in [Flows -> Bytes] /\ swap_done' \in [Flows -> BOOLEAN]
    BY <1>3, <2>2 DEF SwapStep, swap_stats, swap_partial, swap_delta
  <2> QED BY <1>3, <2>3, <2>4, SwapStepIs
<1>4. ASSUME NEW f \in Flows, NEW s \in BOOLEAN, Expire(f, s)
      PROVE  DataType'
  <2>1. raced' \in [Flows -> BOOLEAN]
    BY <1>4 DEF Expire, BeginSwap, Window
  <2> QED BY <1>4, <2>1 DEF Expire
<1>5. CASE HasPartial
  <2>1. raced' \in [Flows -> BOOLEAN] /\ no_partial' \in [Flows -> BOOLEAN]
    BY <1>5 DEF HasPartial, Swapping
  <2> QED BY <1>5, <2>1 DEF HasPartial
<1>6. CASE FieldStep
  <2>1. d_flow \in Flows
    BY <1>6, FieldStepIs DEF Dumping
  <2>2. /\ stats[d_flow][d_dir] \in 0 .. MaxBytes /\ d_tmp[d_dir] \in 0 .. MaxBytes
        /\ partial[d_flow][d_dir] \in 0 .. MaxBytes /\ d_cur[d_dir] \in 0 .. MaxBytes
    BY <2>1, BytesTypes
  <2>3. Minus(d_tmp[d_dir], partial[d_flow][d_dir]) \in 0 .. MaxBytes
    BY <2>2, BytesTypes
  <2>4. /\ d_tmp' \in Bytes /\ d_cur' \in Bytes
        /\ partial' \in [Flows -> Bytes] /\ delta' \in [Flows -> Bytes]
    <3>1. CASE CopyStats
      <4>1. d_tmp' = [d_tmp EXCEPT ![d_dir] = stats[d_flow][d_dir]]
        BY <3>1 DEF CopyStats
      <4>2. d_tmp' \in Bytes
        BY <2>2, <4>1, BytesTypes
      <4> QED BY <3>1, <4>2 DEF CopyStats
    <3>2. CASE DiffStats
      <4>1. d_cur' = [d_cur EXCEPT ![d_dir] = Minus(d_tmp[d_dir], partial[d_flow][d_dir])]
        BY <3>2 DEF DiffStats
      <4>2. d_cur' \in Bytes
        BY <2>3, <4>1, BytesTypes
      <4> QED BY <3>2, <4>2 DEF DiffStats
    <3>3. CASE StoreDelta
      <4>1. delta' = [delta EXCEPT ![d_flow][d_dir] = d_cur[d_dir]]
        BY <3>3 DEF StoreDelta
      <4>2. delta' \in [Flows -> Bytes]
        BY <2>1, <2>2, <4>1, WriteType
      <4> QED BY <3>3, <4>2 DEF StoreDelta
    <3>4. CASE KeepStats
      <4>1. partial' = [partial EXCEPT ![d_flow][d_dir] = d_tmp[d_dir]]
        BY <3>4 DEF KeepStats
      <4>2. partial' \in [Flows -> Bytes]
        BY <2>1, <2>2, <4>1, WriteType
      <4> QED BY <3>4, <4>2 DEF KeepStats
    <3> QED BY <1>6, <3>1, <3>2, <3>3, <3>4 DEF FieldStep
  <2>6. d_dir' \in Directions
    BY <1>6 DEF FieldStep, CopyStats, DiffStats, StoreDelta, KeepStats, Field, Directions
  <2> QED BY <1>6, <2>4, <2>6, FieldStepIs
<1>7. CASE Export
  <2>1. d_flow \in Flows
    BY <1>7 DEF Export, Dumping, WindowSteps
  <2>2. Plus(handed[d_flow], delta[d_flow]) \in [Directions -> Nat]
    BY <2>1, BytesTypes
  <2>3. handed' \in [Flows -> [Directions -> Nat]]
    BY <1>7, <2>1, <2>2 DEF Export
  <2> QED BY <1>7, <2>3 DEF Export
<1>8. CASE decUses
  BY <1>8, BytesTypes DEF decUses, Directions
<1>9. CASE NoMemory
  BY <1>9 DEF NoMemory
<1>10. CASE \/ RequestShutdown \/ Shutdown \/ PurgeBegin \/ incUses
            \/ set_dump_in_progress \/ ScanEnd \/ purgeQueuedIdleEntries
            \/ cleanup \/ LastDump \/ \E f \in Flows : PeriodicDump(f)
  <2>1. UNCHANGED <<stats, swap_done, s_dir, s_pivot, dumpVars, d_dir, d_tmp, d_cur,
                    dbVars>>
    BY <1>10 DEF RequestShutdown, Shutdown, PurgeBegin, BeginScan, incUses, LastDump,
       set_dump_in_progress, ScanEnd, purgeQueuedIdleEntries, cleanup, PeriodicDump
  <2> QED BY <2>1
<1>11. CASE Start \/ RoundBegin \/ Dequeue \/ QueueDone \/ set_dump_done
  <2>1. UNCHANGED <<statVars, dumpVars, d_dir, d_tmp, d_cur, dbVars>>
    BY <1>11 DEF Start, RoundBegin, Dequeue, QueueDone, set_dump_done, Inline
  <2> QED BY <2>1
<1>12. CASE UNCHANGED vars
  BY <1>12 DEF vars
<1> QED BY <1>1, <1>2, <1>3, <1>4, <1>5, <1>6, <1>7, <1>8, <1>9, <1>10, <1>11, <1>12
        DEF Next, InlineStep, Dumper, SwapStep, FieldStep

\* The types of the rest.
StepType ==
  /\ place \in [Flows -> {"table", "shadow", "idle", "in_use", "deleted"}]
  /\ in_progress \in [Flows -> BOOLEAN] /\ recorded \in [Flows -> BOOLEAN]
  /\ idleFlowsToDump \in Seq(Flows) /\ activeFlowsToDump \in Seq(Flows)
  /\ running \in BOOLEAN /\ shutting_down \in BOOLEAN
  /\ shutdown_requested \in BOOLEAN
  /\ i_pc \in {"packets", "scan", "last", "queued", "counted", "purge",
               "stopped", "destroyed"} \cup SwapSteps
  /\ i_flow \in Flows \cup {NoFlow} /\ s_flow \in Flows \cup {NoFlow}
  /\ d_pc \in {"starting", "loop", "drain", "alloc", "done", "release",
               "stopped", "aborted"} \cup WindowSteps
  /\ d_flow \in Flows \cup {NoFlow}
  /\ d_idle \in BOOLEAN /\ d_last \in BOOLEAN
  /\ d_done \in 0 .. (IF d_idle THEN IdleBudget ELSE ActiveBudget)

LEMMA TypeParts == TypeOK <=> StepType /\ DataType /\ uses \in [Flows -> -1 .. 3]
BY DEF TypeOK, StepType, DataType

LEMMA StepTypeInv ==
  ASSUME StepType, Control, [Next]_vars
  PROVE  StepType'
<1> USE DEF StepType, flowVars, inlineVars, statVars, dumperVars, queues, ifVars, Inline
<1>0. "swap_stats" \in SwapSteps /\ "copy" \in WindowSteps
  BY DEF SwapSteps, WindowSteps
<1>1. CASE RequestShutdown \/ \E f \in Flows : \E d \in Traffic : Packet(f, d)
  <2>1. /\ UNCHANGED <<flowVars, s_flow, inlineVars, dumperVars, queues, running,
                       shutting_down>>
        /\ shutdown_requested' \in BOOLEAN
    BY <1>1 DEF Packet, RequestShutdown
  <2> QED BY <2>1
<1>1a. ASSUME NEW f \in Flows, swap(f)
      PROVE  StepType'
  <2>1. /\ UNCHANGED <<flowVars, i_flow, dumperVars, queues, ifVars>>
        /\ i_pc' = "swap_stats" /\ s_flow' = f
    BY <1>1a DEF swap, BeginSwap
  <2> QED BY <1>0, <2>1
<1>1b. CASE SwapStep
  <2>1. /\ UNCHANGED <<flowVars, i_flow, dumperVars, queues, ifVars>>
        /\ i_pc' \in {"last", "packets"} \cup SwapSteps /\ s_flow' \in {s_flow, NoFlow}
    BY <1>1b, SwapStepIs
  <2> QED BY <2>1
<1>2. CASE PurgeBegin \/ Shutdown
  <2>1. /\ place' \in [Flows -> {"table", "shadow", "idle", "in_use", "deleted"}]
        /\ i_pc' = "scan" /\ running' \in BOOLEAN
        /\ UNCHANGED <<shutting_down, shutdown_requested>>
    BY <1>2 DEF PurgeBegin, Shutdown, BeginScan
  <2> QED BY <1>2, <2>1 DEF PurgeBegin, Shutdown, BeginScan
<1>3. ASSUME NEW f \in Flows, PeriodicDump(f)
      PROVE  StepType'
  BY <1>3, InAppend DEF PeriodicDump
<1>4. ASSUME NEW f \in Flows, NEW s \in BOOLEAN, Expire(f, s)
      PROVE  StepType'
  <2>1. place' \in [Flows -> {"table", "shadow", "idle", "in_use", "deleted"}]
    BY <1>4 DEF Expire
  <2>2. i_pc' \in {"last", "swap_stats"} /\ s_flow' = f
    BY <1>4 DEF Expire, BeginSwap
  <2> QED BY <1>0, <1>4, <2>1, <2>2 DEF Expire
<1>4a. CASE LastDump
  <2>1. s_flow \in Flows
    BY <1>4a DEF LastDump, Control, Housekeeping
  <2>2. /\ idleFlowsToDump' \in Seq(Flows) /\ recorded' \in [Flows -> BOOLEAN]
        /\ i_pc' \in {"scan", "queued"} /\ i_flow' \in {i_flow, s_flow}
    <3>1. CASE i_pc' = "scan" /\ UNCHANGED <<idleFlowsToDump, recorded, i_flow>>
      BY <3>1
    <3>2. CASE /\ idleFlowsToDump' = Append(idleFlowsToDump, s_flow)
               /\ recorded' = [recorded EXCEPT ![s_flow] = TRUE]
               /\ i_pc' = "queued" /\ i_flow' = s_flow
      BY <2>1, <3>2, InAppend
    <3> QED BY <1>4a, <3>1, <3>2 DEF LastDump
  <2> QED BY <1>4a, <2>1, <2>2 DEF LastDump
<1>5. CASE incUses
  BY <1>5 DEF incUses
<1>5c. CASE ScanEnd
  BY <1>5c DEF ScanEnd
<1>5a. CASE set_dump_in_progress
  <2>1. /\ UNCHANGED <<place, recorded, s_flow, dumperVars, queues, ifVars>>
        /\ in_progress' \in [Flows -> BOOLEAN]
        /\ i_pc' = "scan" /\ i_flow' = NoFlow
    BY <1>5a DEF set_dump_in_progress
  <2> QED BY <2>1
<1>5b. CASE cleanup
  BY <1>5b DEF cleanup
<1>6. CASE purgeQueuedIdleEntries
  BY <1>6 DEF purgeQueuedIdleEntries
<1>7. CASE Start \/ NoMemory \/ HasPartial
  BY <1>0, <1>7 DEF Start, NoMemory, HasPartial
<1>7b. CASE FieldStep
  BY <1>7b, FieldStepIs
<1>7a. CASE set_dump_done
  <2>1. in_progress' \in [Flows -> BOOLEAN] /\ d_pc' = "release"
    BY <1>7a DEF set_dump_done
  <2> QED BY <1>7a, <2>1 DEF set_dump_done
<1>8. CASE Export
  BY <1>8 DEF Export
<1>9. CASE RoundBegin \/ QueueDone
  <2>1. IdleBudget \in Nat /\ ActiveBudget \in Nat
    BY DumpAssumption
  <2>2. CASE RoundBegin
    BY <2>1, <2>2 DEF RoundBegin, isShuttingDown
  <2>3. CASE QueueDone
    <3>1. d_pc' \in {"drain", "stopped", "loop"}
      BY <2>3 DEF QueueDone
    <3>2. d_idle' = FALSE /\ d_done' = 0
      BY <2>3 DEF QueueDone
    <3>3. d_done' \in 0 .. (IF d_idle' THEN IdleBudget ELSE ActiveBudget)
      BY <2>1, <3>2
    <3>4. UNCHANGED <<place, recorded, in_progress, idleFlowsToDump, activeFlowsToDump,
                      running, shutting_down, shutdown_requested, i_pc, i_flow, s_flow,
                      d_flow, d_last>>
      BY <2>3 DEF QueueDone
    <3>5. d_idle' \in BOOLEAN
      BY <3>2
    <3> QED BY <3>1, <3>3, <3>4, <3>5
  <2> QED BY <1>9, <2>2, <2>3
<1>10. CASE Dequeue
  <2>1. Draining \in Seq(Flows) /\ Draining # <<>>
    BY <1>10 DEF Dequeue, Draining
  <2>2. Head(Draining) \in Flows /\ Tail(Draining) \in Seq(Flows)
    BY <2>1
  <2>3. /\ UNCHANGED <<place, in_progress, recorded, s_flow, inlineVars, ifVars, d_idle,
                       d_last, d_done>>
        /\ d_pc' = "alloc" /\ d_flow' \in Flows
    BY <1>10, <2>2 DEF Dequeue
  <2>4. idleFlowsToDump' \in Seq(Flows) /\ activeFlowsToDump' \in Seq(Flows)
    BY <1>10, <2>2 DEF Dequeue, Draining
  <2> QED BY <2>3, <2>4
<1>11. CASE decUses
  <2>1. d_done' \in 0 .. (IF d_idle THEN IdleBudget ELSE ActiveBudget)
    BY <1>11, DumpAssumption DEF decUses, Control, Dumping, WindowSteps
  <2> QED BY <1>11, <2>1 DEF decUses
<1>12. CASE UNCHANGED vars
  BY <1>12 DEF vars
<1> QED BY <1>1, <1>1a, <1>1b, <1>2, <1>3, <1>4, <1>4a, <1>5, <1>5a, <1>5b, <1>5c,
           <1>6, <1>7, <1>7a, <1>7b, <1>8, <1>9, <1>10, <1>11, <1>12
        DEF Next, InlineStep, Dumper, SwapStep, FieldStep

LEMMA UsesInt ==
  ASSUME uses \in [Flows -> Int], Control, [Next]_vars
  PROVE  uses' \in [Flows -> Int]
<1>1. CASE UNCHANGED uses
  BY <1>1
<1>2. CASE incUses
  <2>1. uses[i_flow] + 1 \in Int
    BY <1>2 DEF incUses, Control
  <2> QED BY <1>2, <2>1 DEF incUses
<1>3. CASE decUses
  <2>1. uses[d_flow] - 1 \in Int
    BY <1>3 DEF decUses, Control, Dumping, WindowSteps
  <2> QED BY <1>3, <2>1 DEF decUses
<1>4. CASE \E f \in Flows : \/ \E d \in Traffic : Packet(f, d)
                            \/ swap(f) \/ PeriodicDump(f)
                            \/ \E s \in BOOLEAN : Expire(f, s)
  BY <1>1, <1>4 DEF Packet, swap, PeriodicDump, Expire, flowVars
<1>5. CASE \/ RequestShutdown \/ Shutdown \/ PurgeBegin \/ set_dump_in_progress
           \/ ScanEnd \/ purgeQueuedIdleEntries \/ cleanup \/ LastDump
           \/ UNCHANGED vars
  BY <1>1, <1>5 DEF RequestShutdown, Shutdown, PurgeBegin, BeginScan, LastDump,
     set_dump_in_progress, ScanEnd, purgeQueuedIdleEntries, cleanup, vars, flowVars
<1>6. CASE \/ Start \/ RoundBegin \/ Dequeue \/ QueueDone \/ NoMemory \/ HasPartial
           \/ Export \/ set_dump_done
  BY <1>1, <1>6 DEF Start, RoundBegin, Dequeue, QueueDone, NoMemory, HasPartial,
     Export, set_dump_done
<1>7. CASE SwapStep \/ FieldStep
  BY <1>1, <1>7, SwapStepIs, FieldStepIs DEF flowVars
<1> QED BY <1>2, <1>3, <1>4, <1>5, <1>6, <1>7
        DEF Next, InlineStep, Dumper, SwapStep, FieldStep
-----------------------------------------------------------------------------
(***************************************************************************)
(* The invariant is inductive.                                             *)
(***************************************************************************)

LEMMA InitInv == Init => IInv
<1> SUFFICES ASSUME Init PROVE IInv
  OBVIOUS
<1>0. NoFlow \notin Flows
  BY DumpAssumption
<1>1. TypeOK
  <2>1. idleFlowsToDump \in Seq(Flows) /\ activeFlowsToDump \in Seq(Flows)
    BY DEF Init
  <2>2. DataType
    <3>1. \A v : v = [f \in Flows |-> Zero] => /\ v \in [Flows -> Bytes]
                                              /\ v \in [Flows -> [Directions -> Nat]]
      BY BytesTypes
    <3> QED BY <3>1, BytesTypes DEF Init, DataType, Directions
  <2>3. uses \in [Flows -> -1 .. 3]
    BY DEF Init
  <2>4. StepType
    <3>1. 0 \in 0 .. IdleBudget
      BY DumpAssumption
    <3>2. /\ place \in [Flows -> {"table", "shadow", "idle", "in_use", "deleted"}]
          /\ in_progress \in [Flows -> BOOLEAN] /\ recorded \in [Flows -> BOOLEAN]
      BY DEF Init
    <3> QED BY <2>1, <3>1, <3>2 DEF Init, StepType
  <2> QED BY <2>2, <2>3, <2>4, TypeParts
<1>2. Control /\ LastRound
  BY <1>0 DEF Init, Control, LastRound, Dumping, Housekeeping, SwapSteps, WindowSteps
<1>3. \A f \in Flows : ~In(f, idleFlowsToDump) /\ ~In(f, activeFlowsToDump)
  BY InEmpty DEF Init
<1>4. QueuedOnce
  <2>1. NoDup(idleFlowsToDump) /\ NoDup(activeFlowsToDump)
    BY DEF Init, NoDup
  <2> QED BY <1>0, <1>3, <2>1 DEF Init, QueuedOnce, ActiveDump
<1>5. \A f \in Flows : Held(f) = 0 /\ Late(f) = 0
  BY <1>0, <1>3 DEF Init, Held, Late, One
<1>6. Accounts
  BY <1>5, Numbers DEF Init, Accounts
<1>7. DeletedUnused
  BY DEF Init, DeletedUnused
<1> QED BY <1>1, <1>2, <1>4, <1>6, <1>7 DEF IInv

LEMMA FlowNext ==
  ASSUME IInv, Next
  PROVE  FlowInv'
<1>1. TypeOK /\ Control /\ LastRound /\ FlowInv
  BY DEF IInv, FlowInv
<1>2. CASE \E f \in Flows : (\E d \in Traffic : Packet(f, d)) \/ swap(f)
  BY <1>1, <1>2, OtherInv
<1>3. CASE \E f \in Flows : PeriodicDump(f)
  BY <1>1, <1>3, PeriodicInv
<1>4. CASE RequestShutdown
  BY <1>1, <1>4, OtherInv
<1>5. CASE Shutdown \/ PurgeBegin \/ ScanEnd
  BY <1>1, <1>5, ScanInv
<1>6. CASE \E f \in Flows, s \in BOOLEAN : Expire(f, s)
  BY <1>1, <1>6, ExpireInv
<1>6a. CASE LastDump
  BY <1>1, <1>6a, LastDumpInv
<1>7. CASE incUses \/ set_dump_in_progress
  BY <1>1, <1>7, CountInv
<1>8. CASE purgeQueuedIdleEntries
  BY <1>1, <1>8, PurgeInv
<1>9. CASE cleanup
  BY <1>1, <1>9, CleanupInv
<1>10. CASE \/ SwapStep \/ Start \/ RoundBegin \/ QueueDone \/ HasPartial
            \/ FieldStep \/ Export
  BY <1>1, <1>10, OtherInv
<1>11. CASE Dequeue
  BY <1>1, <1>11, DequeueInv
<1>12. CASE NoMemory
  BY <1>1, <1>12, NoMemoryInv
<1>13. CASE set_dump_done
  BY <1>1, <1>13, DoneInv
<1>14. CASE decUses
  BY <1>1, <1>14, ReleaseInv
<1> QED BY <1>2, <1>3, <1>4, <1>5, <1>6, <1>6a, <1>7, <1>8, <1>9, <1>10, <1>11,
           <1>12, <1>13, <1>14 DEF Next, InlineStep, Dumper, SwapStep, FieldStep

LEMMA NextInv ==
  ASSUME IInv, [Next]_vars
  PROVE  IInv'
<1>1. FlowInv'
  <2>1. CASE UNCHANGED vars
    BY <2>1, FrameInv DEF vars, flowVars, queues, inlineVars, statVars, dumperVars,
       dbVars, IInv, FlowInv
  <2> QED BY <2>1, FlowNext
<1>2. Control' /\ LastRound'
  BY ControlInv DEF IInv
<1>3. StepType' /\ DataType'
  BY TypeParts, StepTypeInv, DataTypeInv DEF IInv, Control
<1>4. uses' \in [Flows -> -1 .. 3]
  BY <1>1, UsesType, UsesInt, UsesRange DEF IInv, FlowInv
<1>5. TypeOK'
  BY <1>3, <1>4 DEF TypeOK, StepType, DataType
<1> QED BY <1>1, <1>2, <1>5 DEF IInv, FlowInv

LEMMA Inductive == Spec => []IInv
<1>1. IInv /\ [Next]_vars => IInv'
  BY NextInv
<1> QED BY <1>1, InitInv, PTL DEF Spec
-----------------------------------------------------------------------------
(***************************************************************************)
(* The theorems.                                                           *)
(***************************************************************************)

\* If no allocation of the dump thread fails, num_uses counts the queues and the
\* dump thread that hold the flow, but for the use that dumpFlow() is about to
\* count, and no queue holds a flow twice.
THEOREM UsesAreAccounted ==
  ASSUME AllocMayFail = FALSE
  PROVE  Spec => []UsesAccounted
<1>1. ASSUME IInv PROVE UsesAccounted
  <2>1. TypeOK /\ QueuedOnce /\ Accounts
    BY <1>1 DEF IInv
  <2>2. ASSUME NEW f \in Flows
        PROVE  /\ Occurrences(f, idleFlowsToDump) <= 1
               /\ Occurrences(f, activeFlowsToDump) <= 1
               /\ uses[f] = Slots(f) - (IF i_pc = "queued" /\ i_flow = f THEN 1 ELSE 0)
    <3>1. /\ Occurrences(f, idleFlowsToDump) <= 1
          /\ Occurrences(f, activeFlowsToDump) <= 1 /\ Slots(f) = Held(f)
      BY <2>1, SlotsAre
    <3>2. uses[f] = Held(f) - Late(f)
      BY <2>1 DEF Accounts
    <3> QED BY <3>1, <3>2 DEF Late, One
  <2> QED BY <2>1, <2>2 DEF UsesAccounted
<1> QED BY <1>1, Inductive, PTL

\* purgeQueuedIdleEntries() deletes no flow that dumpFlow(), a queue or the dump
\* thread still refers to, also if allocations fail.
THEOREM DumpedFlowsLive == Spec => []NoUseAfterFree
<1>1. ASSUME IInv PROVE NoUseAfterFree
  <2> SUFFICES ASSUME NEW f \in Flows, place[f] = "deleted"
               PROVE  /\ i_flow # f /\ s_flow # f /\ d_flow # f
                      /\ d_pc # "aborted" => Slots(f) = 0
    BY DEF NoUseAfterFree
  <2>1. /\ i_flow # f /\ s_flow # f /\ d_flow # f
        /\ d_pc # "aborted" => ~In(f, idleFlowsToDump) /\ ~In(f, activeFlowsToDump)
    BY <1>1 DEF IInv, DeletedUnused
  <2>2. Slots(f) = Held(f)
    BY <1>1, SlotsAre DEF IInv
  <2> QED BY <2>1, <2>2 DEF Held, One
<1> QED BY <1>1, Inductive, PTL

\* The last round of the dump thread empties both queues, and nothing is queued
\* after it: shutting_down is raised after the last purge.  If no allocation
\* failed it has also given back all the uses.
THEOREM DrainedWhenStopped ==
  ASSUME AllocMayFail = FALSE
  PROVE  Spec => []DrainedAtStop
<1>1. ASSUME IInv PROVE DrainedAtStop
  <2> SUFFICES ASSUME d_pc = "stopped"
               PROVE  /\ idleFlowsToDump = <<>> /\ activeFlowsToDump = <<>>
                      /\ \A f \in Flows : uses[f] = 0
    BY DEF DrainedAtStop
  <2>1. idleFlowsToDump = <<>> /\ activeFlowsToDump = <<>>
    BY <1>1 DEF IInv, LastRound
  <2>2. ASSUME NEW f \in Flows PROVE uses[f] = 0
    <3>1. ~In(f, idleFlowsToDump) /\ ~In(f, activeFlowsToDump)
      BY <2>1, InEmpty
    <3>2. d_flow # f /\ i_pc # "queued"
      BY <1>1 DEF IInv, Control, LastRound, Dumping, WindowSteps
    <3>3. Held(f) = 0 /\ Late(f) = 0
      BY <3>1, <3>2 DEF Held, Late, One
    <3> QED BY <1>1, <3>3 DEF IInv, Accounts
  <2> QED BY <2>1, <2>2
<1> QED BY <1>1, Inductive, PTL
-----------------------------------------------------------------------------
(***************************************************************************)
(* The bytes of a flow.                                                    *)
(***************************************************************************)

\* swap() and get_partial() begin with the first field.
FieldsBegin ==
  /\ i_pc \notin SwapSteps => s_dir = "cli2srv"
  /\ d_pc \notin {"copy", "diff", "delta", "keep"} => d_dir = "cli2srv"

\* The fields that the passes of get_partial() have done.
Half(pc, d) == d_pc = pc /\ d_dir = "srv2cli" /\ d = "cli2srv"
Copied(d) == d_pc \in {"diff", "delta", "keep", "export"} \/ Half("copy", d)
Diffed(d) == d_pc \in {"delta", "keep", "export"} \/ Half("diff", d)
Stored(d) == d_pc \in {"keep", "export"} \/ Half("delta", d)
Kept(d) == d_pc = "export" \/ Half("keep", d)

AtSwap(f, pc, d) == s_flow = f /\ i_pc = pc /\ s_dir = d

\* The stats of the flow are swapped, at least in part, and its partial is not.
Between(f) ==
  \/ AtSwap(f, "swap_stats", "srv2cli")
  \/ s_flow = f /\ i_pc = "swap_partial"

\* The copy of the last dump is not ahead of the counters, in either direction.
Ordered(f) ==
  /\ AtSwap(f, "swap_stats", "srv2cli") =>
       /\ partial[f]["cli2srv"] <= s_pivot
       /\ partial[f]["srv2cli"] <= stats[f]["cli2srv"]
  /\ AtSwap(f, "swap_partial", "cli2srv") =>
       /\ partial[f]["cli2srv"] <= stats[f]["srv2cli"]
       /\ partial[f]["srv2cli"] <= stats[f]["cli2srv"]
  /\ AtSwap(f, "swap_partial", "srv2cli") =>
       /\ partial[f]["cli2srv"] <= stats[f]["cli2srv"]
       /\ s_pivot <= stats[f]["srv2cli"]
  /\ ~Between(f) => \A d \in Directions : partial[f][d] <= stats[f][d]

\* What get_partial() has computed so far.
Computed(f) ==
  d_flow = f => \A d \in Directions :
    /\ Copied(d) => partial[f][d] <= d_tmp[d] /\ d_tmp[d] <= stats[f][d]
    /\ Diffed(d) => /\ d_cur[d] <= d_tmp[d]
                    /\ partial[f][d] = IF Kept(d) THEN d_tmp[d]
                                                  ELSE d_tmp[d] - d_cur[d]
    /\ Stored(d) => delta[f][d] = d_cur[d]

\* The counter at the last dump whose delta was exported.
Base(f, d) == IF d_flow = f /\ Kept(d) THEN d_tmp[d] - d_cur[d] ELSE partial[f][d]

\* It is what was handed over: in all, and in each direction if the flow was not
\* swapped.
Once(f) ==
  /\ handed[f]["cli2srv"] + handed[f]["srv2cli"] =
       Base(f, "cli2srv") + (IF AtSwap(f, "swap_partial", "srv2cli")
                               THEN s_pivot ELSE Base(f, "srv2cli"))
  /\ ~swap_done[f] /\ ~Swapping(f) =>
       \A d \in Directions : handed[f][d] = Base(f, d)

\* The last dump is still to come, there was no memory for it, or it copies, or
\* has copied, the final counters.
Complete(f) ==
  recorded[f] =>
    \/ In(f, idleFlowsToDump) \/ no_partial[f]
    \/ d_flow = f /\ d_idle /\ d_pc = "alloc"
    \/ IF Window(f) THEN \A d \in Directions : Copied(d) => d_tmp[d] = stats[f][d]
                    ELSE \A d \in Directions : partial[f][d] = stats[f][d]

NullPartial(f) ==
  no_partial[f] => /\ \A d \in Directions : partial[f][d] = 0
                   /\ ~Window(f) /\ ~(s_flow = f /\ i_pc = "swap_partial")

Dumped(f) ==
  /\ NullPartial(f)
  /\ ~raced[f] => /\ ~(Swapping(f) /\ Window(f))
                  /\ Ordered(f) /\ Computed(f) /\ Once(f) /\ Complete(f)

DumpInv == IInv /\ FieldsBegin /\ \A f \in Flows : Dumped(f)

LEMMA FieldsBeginInv ==
  ASSUME FieldsBegin, [Next]_vars
  PROVE  FieldsBegin'
<1> USE DEF FieldsBegin, SwapSteps, WindowSteps, statVars, dumperVars, partVars,
        inlineVars, Inline
<1>1. CASE SwapStep
  <2>1. d_pc' = d_pc /\ d_dir' = d_dir
    BY <1>1, SwapStepIs
  <2>2. i_pc' \notin SwapSteps => s_dir' = "cli2srv"
    BY <1>1 DEF SwapStep, swap_stats, swap_partial, swap_delta, NextField
  <2> QED BY <2>1, <2>2
<1>2. CASE FieldStep
  <2>1. i_pc' = i_pc /\ s_dir' = s_dir
    BY <1>2, FieldStepIs
  <2>2. d_pc' \notin {"copy", "diff", "delta", "keep"} => d_dir' = "cli2srv"
    BY <1>2 DEF FieldStep, CopyStats, DiffStats, StoreDelta, KeepStats, Field
  <2> QED BY <2>1, <2>2
<1>3. CASE \/ RequestShutdown \/ Shutdown \/ PurgeBegin \/ incUses
           \/ set_dump_in_progress \/ ScanEnd \/ purgeQueuedIdleEntries
           \/ cleanup \/ LastDump
           \/ \E f \in Flows : \/ PeriodicDump(f) \/ swap(f)
                               \/ \E d \in Traffic : Packet(f, d)
                               \/ \E s \in BOOLEAN : Expire(f, s)
           \/ UNCHANGED vars
  <2>1. UNCHANGED <<s_dir, d_pc, d_dir>>
    BY <1>3 DEF RequestShutdown, Shutdown, PurgeBegin, BeginScan, incUses, LastDump,
       set_dump_in_progress, ScanEnd, purgeQueuedIdleEntries, cleanup, PeriodicDump,
       swap, Packet, Expire, vars
  <2>2. i_pc \notin SwapSteps \/ i_pc' = i_pc
    BY <1>3 DEF RequestShutdown, Shutdown, PurgeBegin, BeginScan, incUses, LastDump,
       set_dump_in_progress, ScanEnd, purgeQueuedIdleEntries, cleanup, PeriodicDump,
       swap, Packet, Expire, vars
  <2> QED BY <2>1, <2>2
<1>4. CASE \/ Start \/ RoundBegin \/ QueueDone \/ Dequeue \/ set_dump_done \/ decUses
           \/ NoMemory \/ HasPartial \/ Export
  <2>1. UNCHANGED <<i_pc, s_dir>>
    BY <1>4 DEF Start, RoundBegin, QueueDone, Dequeue, set_dump_done, decUses,
       NoMemory, HasPartial, Export
  <2>2. d_pc \notin {"copy", "diff", "delta", "keep"} /\ d_dir' \in {d_dir, "cli2srv"}
    BY <1>4 DEF Start, RoundBegin, QueueDone, Dequeue, set_dump_done, decUses,
       NoMemory, HasPartial, Export
  <2> QED BY <2>1, <2>2
<1> QED BY <1>1, <1>2, <1>3, <1>4 DEF Next, InlineStep, Dumper, SwapStep, FieldStep

LEMMA Numeric ==
  ASSUME TypeOK, NEW f \in Flows
  PROVE  /\ NoFlow \notin Flows
         /\ "cli2srv" \in Directions /\ "srv2cli" \in Directions
         /\ \A d \in Directions : d = "cli2srv" \/ d = "srv2cli"
         /\ s_pivot \in Nat
         /\ \A d \in Directions :
              /\ stats[f][d] \in Nat /\ partial[f][d] \in Nat /\ delta[f][d] \in Nat
              /\ d_tmp[d] \in Nat /\ d_cur[d] \in Nat /\ handed[f][d] \in Nat
<1>1. /\ stats[f] \in Bytes /\ partial[f] \in Bytes /\ delta[f] \in Bytes
      /\ d_tmp \in Bytes /\ d_cur \in Bytes /\ handed[f] \in [Directions -> Nat]
      /\ s_pivot \in 0 .. MaxBytes
  BY DEF TypeOK
<1>2. /\ "cli2srv" \in Directions /\ "srv2cli" \in Directions
      /\ \A d \in Directions : d = "cli2srv" \/ d = "srv2cli"
  BY DEF Directions
<1>3. s_pivot \in Nat /\ NoFlow \notin Flows
  BY <1>1, DumpAssumption
<1>4. ASSUME NEW d \in Directions
      PROVE  /\ stats[f][d] \in Nat /\ partial[f][d] \in Nat /\ delta[f][d] \in Nat
             /\ d_tmp[d] \in Nat /\ d_cur[d] \in Nat /\ handed[f][d] \in Nat
  <2>1. \A a \in Bytes : a[d] \in Nat
    BY BytesTypes
  <2>2. handed[f][d] \in Nat
    BY <1>1
  <2> QED BY <1>1, <2>1, <2>2
<1> QED BY <1>2, <1>3, <1>4

\* A step that leaves the bytes of the flow alone.
LEMMA DumpedFrame ==
  ASSUME NEW f \in Flows, Dumped(f),
         stats'[f] = stats[f], swap_done'[f] = swap_done[f],
         partial'[f] = partial[f], no_partial'[f] = no_partial[f],
         delta'[f] = delta[f], handed'[f] = handed[f], raced'[f] = raced[f],
         recorded'[f] => recorded[f] \/ In(f, idleFlowsToDump'),
         In(f, idleFlowsToDump) =>
           \/ In(f, idleFlowsToDump')
           \/ d_flow' = f /\ d_idle' /\ d_pc' = "alloc",
         d_flow = f /\ d_idle /\ d_pc = "alloc" =>
           \/ d_flow' = f /\ d_idle' /\ d_pc' = "alloc"
           \/ no_partial[f],
         Swapping(f)' <=> Swapping(f),
         Swapping(f) => i_pc' = i_pc /\ s_dir' = s_dir /\ s_pivot' = s_pivot,
         Window(f)' <=> Window(f),
         Window(f) => /\ d_pc' = d_pc /\ d_dir' = d_dir
                      /\ d_tmp' = d_tmp /\ d_cur' = d_cur
  PROVE  Dumped(f)'
<1> USE DEF Swapping, Window, SwapSteps, WindowSteps
<1>1. NullPartial(f)'
  BY DEF Dumped, NullPartial
<1>3. ASSUME ~raced[f] PROVE ~(Swapping(f) /\ Window(f))' /\ Ordered(f)'
  <2>1. Ordered(f)'
    BY <1>3 DEF Dumped, Ordered, Between, AtSwap
  <2> QED BY <1>3, <2>1 DEF Dumped
<1>4. ASSUME ~raced[f] PROVE Computed(f)'
  BY <1>4 DEF Dumped, Computed, Copied, Diffed, Stored, Kept, Half
<1>5. ASSUME NEW d \in Directions PROVE Base(f, d)' = Base(f, d)
  BY DEF Base, Kept, Half
<1>6. ASSUME ~raced[f] PROVE Once(f)'
  <2>1. "cli2srv" \in Directions /\ "srv2cli" \in Directions
    BY DEF Directions
  <2>2. AtSwap(f, "swap_partial", "srv2cli")' <=> AtSwap(f, "swap_partial", "srv2cli")
    BY DEF AtSwap
  <2>3. AtSwap(f, "swap_partial", "srv2cli") => s_pivot' = s_pivot
    BY DEF AtSwap
  <2> QED BY <1>5, <1>6, <2>1, <2>2, <2>3 DEF Dumped, Once
<1>7. ASSUME ~raced[f] PROVE Complete(f)'
  BY <1>7 DEF Dumped, Complete, In, Copied, Half
<1> QED BY <1>1, <1>3, <1>4, <1>6, <1>7 DEF Dumped

LEMMA PacketBytes ==
  ASSUME DumpInv, TypeOK', NEW f \in Flows, NEW c \in Traffic, Packet(f, c),
         NEW g \in Flows
  PROVE  Dumped(g)'
<1>1. TypeOK /\ QueuedOnce /\ Dumped(g)
  BY DEF DumpInv, IInv
<1>2. /\ i_pc = "packets" /\ i_pc' = i_pc
      /\ UNCHANGED <<recorded, swap_done, s_flow, s_dir, s_pivot, partial, no_partial,
                  delta, idleFlowsToDump, d_pc, d_flow, d_idle, d_dir, d_tmp, d_cur,
                  handed, raced>>
  BY DEF Packet, flowVars, statVars, dumpVars, queues, inlineVars, dumperVars, partVars,
     dbVars
<1>3. CASE g # f
  <2>1. stats'[g] = stats[g]
    BY <1>1, <1>3 DEF Packet, TypeOK
  <2> QED BY <1>1, <1>2, <2>1, DumpedFrame DEF Swapping, Window
<1>4. CASE g = f
  <2>1. ~recorded[f]
    BY <1>1 DEF Packet, QueuedOnce
  <2>2. \A d \in Directions : stats[f][d] <= stats'[f][d]
    <3> SUFFICES ASSUME NEW d \in Directions PROVE stats[f][d] <= stats'[f][d]
      OBVIOUS
    <3>1. stats[f] \in Bytes /\ stats[f][d] \in Nat /\ DOMAIN stats[f] = Directions
      BY <1>1, Numeric DEF TypeOK, Bytes
    <3>2. stats' = [stats EXCEPT ![f][c] = stats[f][c] + 1] /\ stats \in [Flows -> Bytes]
      BY <1>1 DEF Packet, TypeOK
    <3>3. stats'[f][d] = IF d = c THEN stats[f][d] + 1 ELSE stats[f][d]
      BY <3>1, <3>2
    <3> QED BY <3>1, <3>3
  <2>3. \A d \in Directions : /\ partial[f][d] \in Nat /\ stats[f][d] \in Nat
                              /\ stats'[f][d] \in Nat /\ d_tmp[d] \in Nat
    <3>1. stats'[f] \in Bytes
      BY DEF TypeOK
    <3>2. \A d \in Directions : stats'[f][d] \in Nat
      BY <3>1, BytesTypes
    <3>3. \A d \in Directions : /\ partial[f][d] \in Nat /\ stats[f][d] \in Nat
                                /\ d_tmp[d] \in Nat
      BY <1>1, Numeric
    <3> QED BY <3>2, <3>3
  <2>4. ~Between(f)' /\ ~Between(f) /\ ~Swapping(f)'
    BY <1>2 DEF Between, AtSwap, Swapping, SwapSteps
  <2>5. NullPartial(f)'
    BY <1>1, <1>2, <1>4 DEF Dumped, NullPartial, Window
  <2>6. ASSUME ~raced[f] PROVE Ordered(f)'
    BY <1>1, <1>2, <1>4, <2>2, <2>3, <2>4, <2>6 DEF Dumped, Ordered, Between, AtSwap
  <2>7. ASSUME ~raced[f] PROVE Computed(f)'
    BY <1>1, <1>2, <1>4, <2>2, <2>3, <2>7
       DEF Dumped, Computed, Copied, Diffed, Stored, Kept, Half
  <2>8. ASSUME ~raced[f] PROVE Once(f)'
    BY <1>1, <1>2, <1>4, <2>8 DEF Dumped, Once, Base, Kept, Half, AtSwap, Swapping
  <2>9. Complete(f)'
    BY <1>2, <2>1 DEF Complete
  <2> QED BY <1>2, <1>4, <2>4, <2>5, <2>6, <2>7, <2>8, <2>9 DEF Dumped
<1> QED BY <1>3, <1>4

\* swap() begins: from here on a dump of the flow, if one is under way or begins,
\* is a race.
LEMMA BeginSwapBytes ==
  ASSUME TypeOK, FieldsBegin, NEW f \in Flows, Dumped(f), i_pc \notin SwapSteps,
         BeginSwap(f), s_flow' = f, ~recorded'[f],
         UNCHANGED <<stats, swap_done, s_dir, partial, no_partial, delta, d_pc, d_flow,
                     d_dir, d_tmp, d_cur, handed>>
  PROVE  Dumped(f)'
<1>1. /\ i_pc' = "swap_stats" /\ s_dir = "cli2srv"
      /\ raced'[f] = (raced[f] \/ Window(f))
  BY DEF BeginSwap, FieldsBegin, TypeOK
<1>2. ~Between(f) /\ ~Between(f)' /\ Swapping(f)' /\ Window(f)' = Window(f)
  BY <1>1 DEF Between, AtSwap, Swapping, Window, SwapSteps
<1>3. NullPartial(f)'
  BY <1>1, <1>2 DEF Dumped, NullPartial
<1>4. ASSUME ~raced[f], ~Window(f)
      PROVE  Ordered(f)' /\ Computed(f)' /\ Once(f)' /\ Complete(f)'
  <2>1. Ordered(f)'
    BY <1>1, <1>2, <1>4 DEF Dumped, Ordered, Between, AtSwap
  <2>2. Computed(f)'
    BY <1>4 DEF Window, WindowSteps, Computed, Copied, Diffed, Stored, Half
  <2>3. \A d \in Directions : Base(f, d)' = Base(f, d)
    BY DEF Base, Kept, Half
  <2>4. Once(f)'
    <3>1. /\ ~AtSwap(f, "swap_partial", "srv2cli")
          /\ ~AtSwap(f, "swap_partial", "srv2cli")'
      BY <1>1 DEF AtSwap, SwapSteps
    <3> QED BY <1>2, <1>4, <2>3, <3>1 DEF Dumped, Once, Directions
  <2> QED BY <2>1, <2>2, <2>4 DEF Complete
<1> QED BY <1>1, <1>2, <1>3, <1>4 DEF Dumped

LEMMA SwapBytes ==
  ASSUME DumpInv, NEW f \in Flows, swap(f), NEW g \in Flows
  PROVE  Dumped(g)'
<1>1. TypeOK /\ QueuedOnce /\ Control /\ FieldsBegin /\ Dumped(g)
  BY DEF DumpInv, IInv
<1>2. /\ i_pc = "packets" /\ i_pc' = "swap_stats" /\ s_flow' = f /\ s_flow \notin Flows
      /\ BeginSwap(f) /\ raced' = [raced EXCEPT ![f] = @ \/ Window(f)]
      /\ UNCHANGED <<recorded, stats, swap_done, s_dir, s_pivot, partial, no_partial,
                  delta, idleFlowsToDump, d_pc, d_flow, d_idle, d_dir, d_tmp, d_cur,
                  handed>>
  BY <1>1 DEF swap, BeginSwap, Control, Housekeeping, SwapSteps, flowVars, dumpVars,
     queues, dumperVars, partVars
<1>3. CASE g # f
  <2>1. raced'[g] = raced[g] /\ ~Swapping(g) /\ ~Swapping(g)'
    BY <1>1, <1>2, <1>3 DEF TypeOK, Swapping
  <2> QED BY <1>1, <1>2, <2>1, DumpedFrame DEF Window
<1>4. CASE g = f
  <2>1. ~recorded'[f] /\ i_pc \notin SwapSteps
    BY <1>1, <1>2 DEF swap, QueuedOnce, SwapSteps
  <2> QED BY <1>1, <1>2, <1>4, <2>1, BeginSwapBytes
<1> QED BY <1>3, <1>4

LEMMA ExpireBytes ==
  ASSUME DumpInv, NEW f \in Flows, NEW s \in BOOLEAN, Expire(f, s), NEW g \in Flows
  PROVE  Dumped(g)'
<1>1. TypeOK /\ QueuedOnce /\ Control /\ FieldsBegin /\ Dumped(g)
  BY DEF DumpInv, IInv
<1>2. /\ i_pc = "scan" /\ s_flow' = f /\ s_flow \notin Flows
      /\ IF s THEN BeginSwap(f) ELSE i_pc' = "last" /\ UNCHANGED raced
      /\ UNCHANGED <<recorded, stats, swap_done, s_dir, s_pivot, partial, no_partial,
                  delta, idleFlowsToDump, d_pc, d_flow, d_idle, d_dir, d_tmp, d_cur,
                  handed>>
  BY <1>1 DEF Expire, Control, Housekeeping, SwapSteps, dumpVars, queues, dumperVars,
     partVars
<1>3. CASE g # f
  <2>1. raced'[g] = raced[g] /\ ~Swapping(g) /\ ~Swapping(g)'
    BY <1>1, <1>2, <1>3 DEF TypeOK, Swapping, BeginSwap
  <2> QED BY <1>1, <1>2, <2>1, DumpedFrame DEF Window
<1>4. CASE g = f /\ s
  <2>1. ~recorded'[f] /\ i_pc \notin SwapSteps
    BY <1>1, <1>2 DEF Expire, QueuedOnce, SwapSteps
  <2> QED BY <1>1, <1>2, <1>4, <2>1, BeginSwapBytes
<1>5. CASE g = f /\ ~s
  <2>1. raced'[g] = raced[g] /\ ~Swapping(g) /\ ~Swapping(g)'
    BY <1>2, <1>5 DEF Swapping, SwapSteps
  <2> QED BY <1>1, <1>2, <2>1, DumpedFrame DEF Window
<1> QED BY <1>3, <1>4, <1>5

\* One write of swap().
LEMMA ExchangeIs ==
  ASSUME NEW c \in [Flows -> Bytes], s_flow \in Flows
  PROVE  /\ \A g \in Flows \ {s_flow} : Exchanged(c)[g] = c[g]
         /\ s_dir = "cli2srv" =>
              /\ Exchanged(c)[s_flow]["cli2srv"] = c[s_flow]["srv2cli"]
              /\ Exchanged(c)[s_flow]["srv2cli"] = c[s_flow]["srv2cli"]
         /\ s_dir # "cli2srv" =>
              /\ Exchanged(c)[s_flow]["cli2srv"] = c[s_flow]["cli2srv"]
              /\ Exchanged(c)[s_flow]["srv2cli"] = s_pivot
<1>1. /\ DOMAIN c = Flows /\ c[s_flow] \in Bytes
      /\ "cli2srv" \in DOMAIN c[s_flow] /\ "srv2cli" \in DOMAIN c[s_flow]
  BY DEF Bytes, Directions
<1>2. CASE s_dir = "cli2srv"
  BY <1>1, <1>2 DEF Exchanged
<1>3. CASE s_dir # "cli2srv"
  BY <1>1, <1>3 DEF Exchanged
<1> QED BY <1>2, <1>3

\* The other flows, and a flow that raced.
LEMMA SwapStepOthers ==
  ASSUME DumpInv, SwapStep, NEW g \in Flows, g # s_flow
  PROVE  Dumped(g)'
<1>1. TypeOK /\ Control /\ Dumped(g) /\ NoFlow \notin Flows
  BY DumpAssumption DEF DumpInv, IInv
<1>2. /\ s_flow \in Flows /\ s_flow' \in {s_flow, NoFlow}
      /\ UNCHANGED <<recorded, no_partial, idleFlowsToDump, d_pc, d_flow, d_idle, d_dir,
                     d_tmp, d_cur, handed, raced>>
  BY <1>1, SwapStepIs DEF Control, Housekeeping, flowVars, queues, dumperVars, partVars,
     dbVars
<1>3. /\ stats \in [Flows -> Bytes] /\ partial \in [Flows -> Bytes]
      /\ delta \in [Flows -> Bytes] /\ swap_done \in [Flows -> BOOLEAN]
  BY <1>1 DEF TypeOK
<1>4. /\ Exchanged(stats)[g] = stats[g] /\ Exchanged(partial)[g] = partial[g]
      /\ Exchanged(delta)[g] = delta[g]
  BY <1>2, <1>3, ExchangeIs
<1>5. /\ stats'[g] = stats[g] /\ partial'[g] = partial[g] /\ delta'[g] = delta[g]
      /\ swap_done'[g] = swap_done[g]
  BY <1>3, <1>4 DEF SwapStep, swap_stats, swap_partial, swap_delta, dumpVars
<1>6. ~Swapping(g) /\ ~Swapping(g)'
  BY <1>1, <1>2 DEF Swapping
<1> QED BY <1>1, <1>2, <1>5, <1>6, DumpedFrame DEF Window

\* What a write of the swap of a flow that has not raced has to keep: there is no
\* dump of the flow, and its last dump was not queued yet.
LEMMA SwappedBytes ==
  ASSUME DumpInv, SwapStep, NEW f \in Flows, f = s_flow, NullPartial(f)',
         ~raced[f] => /\ Ordered(f)'
                      /\ handed[f]["cli2srv"] + handed[f]["srv2cli"] =
                           partial'[f]["cli2srv"]
                             + (IF AtSwap(f, "swap_partial", "srv2cli")'
                                  THEN s_pivot' ELSE partial'[f]["srv2cli"]),
         Swapping(f)' \/ swap_done'[f]
  PROVE  Dumped(f)'
<1>1. QueuedOnce /\ Dumped(f)
  BY DEF DumpInv, IInv
<1>2. /\ UNCHANGED <<recorded, d_pc, d_flow, handed, raced>>
      /\ Swapping(f)
  BY SwapStepIs DEF flowVars, dumperVars, dbVars, Swapping
<1>3. ~recorded[f]
  BY <1>1 DEF QueuedOnce
<1>4. Complete(f)'
  BY <1>2, <1>3 DEF Complete
<1>5. ASSUME ~raced[f]
      PROVE  ~Window(f)' /\ Computed(f)' /\ Once(f)'
  <2>1. ~Window(f)
    BY <1>1, <1>2, <1>5 DEF Dumped
  <2>2. ~Window(f)'
    BY <1>2, <2>1 DEF Window
  <2>3. Computed(f)'
    BY <2>2 DEF Window, WindowSteps, Computed, Copied, Diffed, Stored, Half
  <2>4. \A d \in Directions : Base(f, d)' = partial'[f][d]
    BY <2>2 DEF Base, Kept, Half, Window, WindowSteps
  <2>5. Once(f)'
    BY <1>2, <1>5, <2>4 DEF Once, Directions
  <2> QED BY <2>2, <2>3, <2>5
<1> QED BY <1>2, <1>4, <1>5 DEF Dumped

\* Before the write, if the flow has not raced.
LEMMA SwappingBytes ==
  ASSUME DumpInv, SwapStep, NEW f \in Flows, f = s_flow, ~raced[f]
  PROVE  /\ Ordered(f)
         /\ handed[f]["cli2srv"] + handed[f]["srv2cli"] =
              partial[f]["cli2srv"] + (IF AtSwap(f, "swap_partial", "srv2cli")
                                         THEN s_pivot ELSE partial[f]["srv2cli"])
<1>1. Dumped(f)
  BY DEF DumpInv
<1>2. Swapping(f)
  BY SwapStepIs DEF Swapping
<1>3. ~Window(f)
  BY <1>1, <1>2 DEF Dumped
<1>4. \A d \in Directions : Base(f, d) = partial[f][d]
  BY <1>3 DEF Base, Kept, Half, Window, WindowSteps
<1>5. "cli2srv" \in Directions /\ "srv2cli" \in Directions
  BY DEF Directions
<1> QED BY <1>1, <1>4, <1>5 DEF Dumped, Once

LEMMA SwapStatsBytes ==
  ASSUME DumpInv, swap_stats, NEW f \in Flows, f = s_flow
  PROVE  Dumped(f)'
<1>1. TypeOK /\ NullPartial(f) /\ SwapStep
  BY DEF DumpInv, IInv, Dumped, SwapStep
<1>2. /\ i_pc = "swap_stats" /\ stats' = Exchanged(stats)
      /\ UNCHANGED <<swap_done, s_flow, partial, no_partial, delta, d_pc, d_flow, raced>>
      /\ stats \in [Flows -> Bytes] /\ s_dir \in Directions
  BY <1>1 DEF swap_stats, dumpVars, dumperVars, dbVars, TypeOK
<1>3. /\ s_dir = "cli2srv" => s_dir' = "srv2cli" /\ s_pivot' = stats[f]["cli2srv"]
                              /\ i_pc' = "swap_stats"
      /\ s_dir = "srv2cli" =>
           /\ s_dir' = "cli2srv"
           /\ i_pc' = IF no_partial[f] THEN "swap_delta" ELSE "swap_partial"
  BY <1>2 DEF swap_stats, NextField
<1>4. /\ s_dir = "cli2srv" =>
           /\ stats'[f]["cli2srv"] = stats[f]["srv2cli"]
           /\ stats'[f]["srv2cli"] = stats[f]["srv2cli"]
      /\ s_dir = "srv2cli" =>
           /\ stats'[f]["cli2srv"] = stats[f]["cli2srv"]
           /\ stats'[f]["srv2cli"] = s_pivot
  BY <1>2, ExchangeIs
<1>5. s_dir = "cli2srv" \/ s_dir = "srv2cli"
  BY <1>2 DEF Directions
<1>6. NullPartial(f)'
  BY <1>1, <1>2, <1>3, <1>5 DEF NullPartial, Window
<1>7. ~AtSwap(f, "swap_partial", "srv2cli") /\ ~AtSwap(f, "swap_partial", "srv2cli")'
  BY <1>2, <1>3, <1>5 DEF AtSwap
<1>8. /\ s_pivot \in Nat
      /\ \A d \in Directions : stats[f][d] \in Nat
      /\ "cli2srv" \in Directions /\ "srv2cli" \in Directions
      /\ \A d \in Directions : d = "cli2srv" \/ d = "srv2cli"
  BY <1>1, Numeric
<1>9. ASSUME ~raced[f], s_dir = "cli2srv" PROVE Ordered(f)'
  <2>1. \A d \in Directions : partial[f][d] <= stats[f][d]
    BY <1>1, <1>2, <1>9, SwappingBytes DEF Ordered, Between, AtSwap
  <2>2. partial'[f]["cli2srv"] <= s_pivot' /\ partial'[f]["srv2cli"] <= stats'[f]["cli2srv"]
    BY <1>2, <1>3, <1>4, <1>8, <1>9, <2>1
  <2> QED BY <1>2, <1>3, <1>9, <2>2 DEF Ordered, Between, AtSwap
<1>10. ASSUME ~raced[f], s_dir = "srv2cli" PROVE Ordered(f)'
  <2>1. partial[f]["cli2srv"] <= s_pivot /\ partial[f]["srv2cli"] <= stats[f]["cli2srv"]
    BY <1>1, <1>2, <1>10, SwappingBytes DEF Ordered, AtSwap
  <2>2. /\ partial'[f]["cli2srv"] <= stats'[f]["srv2cli"]
        /\ partial'[f]["srv2cli"] <= stats'[f]["cli2srv"]
    BY <1>2, <1>4, <1>10, <2>1
  <2>3. CASE ~no_partial[f]
    BY <1>2, <1>3, <1>10, <2>2, <2>3 DEF Ordered, Between, AtSwap
  <2>4. CASE no_partial[f]
    <3>1. \A d \in Directions : partial'[f][d] = 0 /\ stats'[f][d] \in Nat
      BY <1>1, <1>2, <1>4, <1>8, <1>10, <2>4 DEF NullPartial
    <3>2. \A d \in Directions : partial'[f][d] <= stats'[f][d]
      BY <3>1
    <3> QED BY <1>2, <1>3, <1>10, <2>4, <3>2 DEF Ordered, AtSwap
  <2> QED BY <2>3, <2>4
<1>11. Swapping(f)'
  BY <1>2, <1>3, <1>5 DEF Swapping, SwapSteps
<1> QED BY <1>1, <1>2, <1>5, <1>6, <1>7, <1>9, <1>10, <1>11, SwappingBytes, SwappedBytes

LEMMA SwapPartialBytes ==
  ASSUME DumpInv, swap_partial, NEW f \in Flows, f = s_flow
  PROVE  Dumped(f)'
<1>1. TypeOK /\ NullPartial(f) /\ SwapStep
  BY DEF DumpInv, IInv, Dumped, SwapStep
<1>2. /\ i_pc = "swap_partial" /\ partial' = Exchanged(partial)
      /\ UNCHANGED <<swap_done, s_flow, stats, no_partial, delta, d_pc, d_flow, raced>>
      /\ partial \in [Flows -> Bytes] /\ s_dir \in Directions
  BY <1>1 DEF swap_partial, dumperVars, dbVars, TypeOK
<1>3. /\ s_dir = "cli2srv" => s_dir' = "srv2cli" /\ s_pivot' = partial[f]["cli2srv"]
                              /\ i_pc' = "swap_partial"
      /\ s_dir = "srv2cli" => s_dir' = "cli2srv" /\ i_pc' = "swap_delta"
  BY <1>2 DEF swap_partial, NextField
<1>4. /\ s_dir = "cli2srv" =>
           /\ partial'[f]["cli2srv"] = partial[f]["srv2cli"]
           /\ partial'[f]["srv2cli"] = partial[f]["srv2cli"]
      /\ s_dir = "srv2cli" =>
           /\ partial'[f]["cli2srv"] = partial[f]["cli2srv"]
           /\ partial'[f]["srv2cli"] = s_pivot
  BY <1>2, ExchangeIs
<1>5. s_dir = "cli2srv" \/ s_dir = "srv2cli"
  BY <1>2 DEF Directions
<1>6. NullPartial(f)'
  BY <1>1, <1>2 DEF NullPartial
<1>7. /\ s_dir = "cli2srv" => /\ ~AtSwap(f, "swap_partial", "srv2cli")
                              /\ AtSwap(f, "swap_partial", "srv2cli")'
      /\ s_dir = "srv2cli" => /\ AtSwap(f, "swap_partial", "srv2cli")
                              /\ ~AtSwap(f, "swap_partial", "srv2cli")'
  BY <1>2, <1>3 DEF AtSwap
<1>8. /\ s_pivot \in Nat
      /\ \A d \in Directions : partial[f][d] \in Nat
      /\ "cli2srv" \in Directions /\ "srv2cli" \in Directions
      /\ \A d \in Directions : d = "cli2srv" \/ d = "srv2cli"
  BY <1>1, Numeric
<1>9. ASSUME ~raced[f], s_dir = "cli2srv"
      PROVE  /\ Ordered(f)'
             /\ handed[f]["cli2srv"] + handed[f]["srv2cli"] =
                  partial'[f]["cli2srv"] + s_pivot'
  <2>1. /\ partial[f]["cli2srv"] <= stats[f]["srv2cli"]
        /\ partial[f]["srv2cli"] <= stats[f]["cli2srv"]
    BY <1>1, <1>2, <1>9, SwappingBytes DEF Ordered, AtSwap
  <2>2. partial'[f]["cli2srv"] <= stats'[f]["cli2srv"] /\ s_pivot' <= stats'[f]["srv2cli"]
    BY <1>2, <1>3, <1>4, <1>9, <2>1
  <2>3. Ordered(f)'
    BY <1>2, <1>3, <1>9, <2>2 DEF Ordered, Between, AtSwap
  <2>4. handed[f]["cli2srv"] + handed[f]["srv2cli"] =
          partial[f]["cli2srv"] + partial[f]["srv2cli"]
    BY <1>1, <1>7, <1>9, SwappingBytes
  <2> QED BY <1>3, <1>4, <1>8, <1>9, <2>3, <2>4
<1>10. ASSUME ~raced[f], s_dir = "srv2cli"
       PROVE  /\ Ordered(f)'
              /\ handed[f]["cli2srv"] + handed[f]["srv2cli"] =
                   partial'[f]["cli2srv"] + partial'[f]["srv2cli"]
  <2>1. partial[f]["cli2srv"] <= stats[f]["cli2srv"] /\ s_pivot <= stats[f]["srv2cli"]
    BY <1>1, <1>2, <1>10, SwappingBytes DEF Ordered, AtSwap
  <2>2. \A d \in Directions : partial'[f][d] <= stats'[f][d]
    BY <1>2, <1>4, <1>8, <1>10, <2>1
  <2>3. Ordered(f)'
    BY <1>2, <1>3, <1>10, <2>2 DEF Ordered, AtSwap
  <2>4. handed[f]["cli2srv"] + handed[f]["srv2cli"] = partial[f]["cli2srv"] + s_pivot
    BY <1>1, <1>7, <1>10, SwappingBytes
  <2> QED BY <1>4, <1>10, <2>3, <2>4
<1>11. Swapping(f)'
  BY <1>2, <1>3, <1>5 DEF Swapping, SwapSteps
<1>12. ~raced[f] => /\ Ordered(f)'
                    /\ handed[f]["cli2srv"] + handed[f]["srv2cli"] =
                         partial'[f]["cli2srv"]
                           + (IF AtSwap(f, "swap_partial", "srv2cli")'
                                THEN s_pivot' ELSE partial'[f]["srv2cli"])
  BY <1>5, <1>7, <1>9, <1>10
<1> QED BY <1>1, <1>6, <1>11, <1>12, SwappedBytes

LEMMA SwapDeltaBytes ==
  ASSUME DumpInv, swap_delta, NEW f \in Flows, f = s_flow
  PROVE  Dumped(f)'
<1>1. TypeOK /\ NullPartial(f) /\ SwapStep
  BY DEF DumpInv, IInv, Dumped, SwapStep
<1>2. /\ i_pc = "swap_delta" /\ s_dir \in Directions
      /\ UNCHANGED <<stats, partial, no_partial, d_pc, d_flow, raced>>
      /\ swap_done \in [Flows -> BOOLEAN]
  BY <1>1 DEF swap_delta, dumperVars, dbVars, TypeOK
<1>3. /\ i_pc' \in {"swap_delta", "packets", "last"}
      /\ i_pc' = "swap_delta" => s_flow' = s_flow
      /\ i_pc' # "swap_delta" => swap_done' = [swap_done EXCEPT ![s_flow] = TRUE]
  BY <1>2 DEF swap_delta, NextField
<1>4. NullPartial(f)'
  BY <1>1, <1>2, <1>3 DEF NullPartial, Window
<1>5. /\ \A p \in {"swap_stats", "swap_partial"}, d \in Directions :
           ~AtSwap(f, p, d) /\ ~AtSwap(f, p, d)'
      /\ ~Between(f) /\ ~Between(f)'
  BY <1>2, <1>3 DEF AtSwap, Between
<1>6. "cli2srv" \in Directions /\ "srv2cli" \in Directions
  BY DEF Directions
<1>7. ASSUME ~raced[f]
      PROVE  /\ Ordered(f)'
             /\ handed[f]["cli2srv"] + handed[f]["srv2cli"] =
                  partial'[f]["cli2srv"] + partial'[f]["srv2cli"]
  <2>1. Ordered(f)'
    BY <1>1, <1>2, <1>5, <1>6, <1>7, SwappingBytes DEF Ordered
  <2> QED BY <1>1, <1>2, <1>5, <1>6, <1>7, <2>1, SwappingBytes
<1>8. Swapping(f)' \/ swap_done'[f]
  BY <1>2, <1>3 DEF Swapping, SwapSteps
<1> QED BY <1>1, <1>4, <1>5, <1>6, <1>7, <1>8, SwappedBytes

LEMMA LastDumpBytes ==
  ASSUME DumpInv, LastDump, NEW g \in Flows
  PROVE  Dumped(g)'
<1>1. TypeOK /\ Dumped(g) /\ Control
  BY DEF DumpInv, IInv
<1>2. /\ i_pc = "last" /\ i_pc' \in {"queued", "scan"} /\ s_flow \in Flows
      /\ UNCHANGED <<stats, swap_done, partial, no_partial, delta, handed, raced, d_pc,
                     d_flow, d_idle, d_dir, d_tmp, d_cur>>
  BY <1>1 DEF LastDump, Control, Housekeeping, dumpVars, dumperVars, partVars, dbVars
<1>3. /\ recorded'[g] => recorded[g] \/ In(g, idleFlowsToDump')
      /\ In(g, idleFlowsToDump) => In(g, idleFlowsToDump')
  <2>1. CASE UNCHANGED <<idleFlowsToDump, recorded>>
    BY <2>1
  <2>2. CASE /\ idleFlowsToDump' = Append(idleFlowsToDump, s_flow)
             /\ recorded' = [recorded EXCEPT ![s_flow] = TRUE]
    <3>1. idleFlowsToDump \in Seq(Flows) /\ recorded \in [Flows -> BOOLEAN]
      BY <1>1 DEF TypeOK
    <3>2. In(g, idleFlowsToDump') <=> In(g, idleFlowsToDump) \/ g = s_flow
      BY <1>2, <2>2, <3>1, InAppend
    <3> QED BY <2>2, <3>1, <3>2
  <2> QED BY <2>1, <2>2 DEF LastDump
<1>4. ~Swapping(g) /\ ~Swapping(g)'
  BY <1>2 DEF Swapping, SwapSteps
<1> QED BY <1>1, <1>2, <1>3, <1>4, DumpedFrame DEF Window

LEMMA DequeueBytes ==
  ASSUME DumpInv, Dequeue, NEW g \in Flows
  PROVE  Dumped(g)'
<1>1. TypeOK /\ QueuedOnce /\ Dumped(g)
  BY DEF DumpInv, IInv
<1>2. /\ d_pc = "drain" /\ d_pc' = "alloc"
      /\ UNCHANGED <<stats, swap_done, partial, no_partial, delta, handed, raced,
                     recorded, i_pc, s_flow, s_dir, s_pivot, d_idle>>
  BY DEF Dequeue, Inline, statVars, inlineVars, dumpVars, dbVars
<1>3. In(g, idleFlowsToDump) => In(g, idleFlowsToDump') \/ (d_flow' = g /\ d_idle)
  <2>1. CASE d_idle
    <3>1. /\ idleFlowsToDump \in Seq(Flows) /\ idleFlowsToDump # <<>>
          /\ NoDup(idleFlowsToDump)
          /\ d_flow' = Head(idleFlowsToDump) /\ idleFlowsToDump' = Tail(idleFlowsToDump)
      BY <1>1, <2>1 DEF TypeOK, QueuedOnce, Dequeue, Draining
    <3> QED BY <2>1, <3>1, InTail
  <2>2. CASE ~d_idle
    BY <2>2 DEF Dequeue
  <2> QED BY <2>1, <2>2
<1>4. ~Window(g) /\ ~Window(g)'
  BY <1>2 DEF Window, WindowSteps
<1> QED BY <1>1, <1>2, <1>3, <1>4, DumpedFrame DEF Swapping

LEMMA NoMemoryBytes ==
  ASSUME DumpInv, NoMemory, NEW g \in Flows
  PROVE  Dumped(g)'
<1>1. Dumped(g)
  BY DEF DumpInv
<1>2. /\ d_pc = "alloc" /\ no_partial[d_flow] /\ d_pc' = "drain"
      /\ UNCHANGED <<stats, swap_done, partial, no_partial, delta, handed, raced,
                     recorded, idleFlowsToDump, i_pc, s_flow, s_dir, s_pivot>>
  BY DEF NoMemory, Inline, statVars, inlineVars, dumpVars, queues
<1>3. ~Window(g) /\ ~Window(g)'
  BY <1>2 DEF Window, WindowSteps
<1> QED BY <1>1, <1>2, <1>3, DumpedFrame DEF Swapping

LEMMA HasPartialBytes ==
  ASSUME DumpInv, HasPartial, NEW g \in Flows
  PROVE  Dumped(g)'
<1>1. TypeOK /\ FieldsBegin /\ Dumped(g)
  BY DEF DumpInv, IInv
<1>2. /\ d_pc = "alloc" /\ d_pc' = "copy" /\ d_dir = "cli2srv"
      /\ no_partial' = [no_partial EXCEPT ![d_flow] = FALSE]
      /\ raced' = [raced EXCEPT ![d_flow] = @ \/ Swapping(d_flow)]
      /\ no_partial \in [Flows -> BOOLEAN] /\ raced \in [Flows -> BOOLEAN]
      /\ UNCHANGED <<stats, swap_done, partial, delta, handed, recorded, idleFlowsToDump,
                     i_pc, s_flow, s_dir, s_pivot, d_flow, d_idle, d_dir, d_tmp, d_cur>>
  BY <1>1 DEF HasPartial, FieldsBegin, TypeOK, Inline, statVars, inlineVars, queues,
     partVars
<1>3. CASE g # d_flow
  <2>1. raced'[g] = raced[g] /\ no_partial'[g] = no_partial[g]
    BY <1>2, <1>3
  <2>2. ~Window(g) /\ ~Window(g)'
    BY <1>2, <1>3 DEF Window
  <2> QED BY <1>1, <1>2, <1>3, <2>1, <2>2, DumpedFrame DEF Swapping
<1>4. CASE g = d_flow
  <2>1. ~no_partial'[g] /\ raced'[g] = (raced[g] \/ Swapping(g))
    BY <1>2, <1>4
  <2>2. Swapping(g)' = Swapping(g)
    BY <1>2 DEF Swapping
  <2>3. \A d \in Directions : /\ ~Copied(d)' /\ ~Diffed(d)' /\ ~Stored(d)'
                              /\ ~Kept(d)' /\ ~Kept(d)
    BY <1>2 DEF Copied, Diffed, Stored, Kept, Half
  <2>4. ASSUME ~raced[g], ~Swapping(g)
        PROVE  Ordered(g)' /\ Computed(g)' /\ Once(g)' /\ Complete(g)'
    <3>1. Ordered(g)'
      BY <1>1, <1>2, <2>4 DEF Dumped, Ordered, Between, AtSwap
    <3>2. Computed(g)'
      BY <2>3 DEF Computed
    <3>3. \A d \in Directions : Base(g, d)' = Base(g, d)
      BY <1>2, <2>3 DEF Base
    <3>4. /\ ~AtSwap(g, "swap_partial", "srv2cli")
          /\ ~AtSwap(g, "swap_partial", "srv2cli")'
      BY <2>2, <2>4 DEF AtSwap, Swapping, SwapSteps
    <3>5. "cli2srv" \in Directions /\ "srv2cli" \in Directions
      BY DEF Directions
    <3>6. Once(g)'
      BY <1>1, <1>2, <2>2, <2>4, <3>3, <3>4, <3>5 DEF Dumped, Once
    <3>7. Complete(g)'
      BY <1>2, <1>4, <2>3 DEF Complete, Window, WindowSteps
    <3> QED BY <3>1, <3>2, <3>6, <3>7
  <2> QED BY <2>1, <2>2, <2>4 DEF Dumped, NullPartial
<1> QED BY <1>3, <1>4

\* The fields that a step of get_partial() adds to those done.
LEMMA FieldsDone ==
  ASSUME NEW d \in Directions, d_dir \in Directions
  PROVE  /\ CopyStats => /\ Copied(d)' <=> Copied(d) \/ d = d_dir
                         /\ ~Diffed(d) /\ ~Stored(d) /\ ~Kept(d)
                         /\ ~Diffed(d)' /\ ~Stored(d)' /\ ~Kept(d)'
         /\ DiffStats => /\ Diffed(d)' <=> Diffed(d) \/ d = d_dir
                         /\ Copied(d) /\ ~Stored(d) /\ ~Kept(d)
                         /\ Copied(d)' /\ ~Stored(d)' /\ ~Kept(d)'
         /\ StoreDelta => /\ Stored(d)' <=> Stored(d) \/ d = d_dir
                          /\ Copied(d) /\ Diffed(d) /\ ~Kept(d)
                          /\ Copied(d)' /\ Diffed(d)' /\ ~Kept(d)'
         /\ KeepStats => /\ Kept(d)' <=> Kept(d) \/ d = d_dir
                         /\ ~Kept(d_dir)
                         /\ Copied(d) /\ Diffed(d) /\ Stored(d)
                         /\ Copied(d)' /\ Diffed(d)' /\ Stored(d)'
<1> USE DEF Directions, Field, Copied, Diffed, Stored, Kept, Half
<1>1. CopyStats => /\ Copied(d)' <=> Copied(d) \/ d = d_dir
                   /\ ~Diffed(d) /\ ~Stored(d) /\ ~Kept(d)
                   /\ ~Diffed(d)' /\ ~Stored(d)' /\ ~Kept(d)'
  BY DEF CopyStats
<1>2. DiffStats => /\ Diffed(d)' <=> Diffed(d) \/ d = d_dir
                   /\ Copied(d) /\ ~Stored(d) /\ ~Kept(d)
                   /\ Copied(d)' /\ ~Stored(d)' /\ ~Kept(d)'
  BY DEF DiffStats
<1>3. StoreDelta => /\ Stored(d)' <=> Stored(d) \/ d = d_dir
                    /\ Copied(d) /\ Diffed(d) /\ ~Kept(d)
                    /\ Copied(d)' /\ Diffed(d)' /\ ~Kept(d)'
  BY DEF StoreDelta
<1>4. KeepStats => /\ Kept(d)' <=> Kept(d) \/ d = d_dir
                   /\ ~Kept(d_dir)
                   /\ Copied(d) /\ Diffed(d) /\ Stored(d)
                   /\ Copied(d)' /\ Diffed(d)' /\ Stored(d)'
  BY DEF KeepStats
<1> QED BY <1>1, <1>2, <1>3, <1>4

LEMMA FieldOthers ==
  ASSUME DumpInv, FieldStep, NEW g \in Flows, g # d_flow
  PROVE  Dumped(g)'
<1>1. TypeOK /\ Dumped(g)
  BY DEF DumpInv, IInv
<1>2. /\ d_pc # "alloc"
      /\ UNCHANGED <<stats, swap_done, no_partial, handed, raced, recorded, i_pc, s_flow,
                     s_dir, s_pivot, idleFlowsToDump, d_flow>>
  BY FieldStepIs DEF Inline, statVars, inlineVars, dbVars, queues, WindowSteps
<1>3. partial'[g] = partial[g] /\ delta'[g] = delta[g]
  BY <1>1 DEF FieldStep, CopyStats, DiffStats, StoreDelta, KeepStats, TypeOK
<1>4. ~Window(g) /\ ~Window(g)'
  BY <1>2 DEF Window
<1> QED BY <1>1, <1>2, <1>3, <1>4, DumpedFrame DEF Swapping

\* What a step of get_partial() has to keep for a flow that has not raced.
LEMMA FieldBytes ==
  ASSUME DumpInv, FieldStep, NEW f \in Flows, f = d_flow,
         ~raced[f] /\ Ordered(f) /\ Computed(f) =>
           /\ \A d \in Directions : partial'[f][d] <= stats[f][d]
           /\ Computed(f)'
           /\ \A d \in Directions : Base(f, d)' = Base(f, d)
           /\ \A d \in Directions : Copied(d)' =>
                d_tmp'[d] = stats[f][d] \/ (Copied(d) /\ d_tmp'[d] = d_tmp[d])
  PROVE  Dumped(f)'
<1>1. TypeOK /\ Dumped(f)
  BY DEF DumpInv, IInv
<1>2. /\ Window(f) /\ Window(f)' /\ d_pc # "alloc"
      /\ UNCHANGED <<stats, swap_done, no_partial, handed, raced, recorded, i_pc, s_flow,
                     s_dir, s_pivot, idleFlowsToDump, d_flow>>
  BY FieldStepIs DEF Inline, statVars, inlineVars, dbVars, queues, Window, WindowSteps
<1>3. Swapping(f)' = Swapping(f)
  BY <1>2 DEF Swapping
<1>4. ~no_partial[f]
  BY <1>1, <1>2 DEF Dumped, NullPartial
<1>5. ASSUME ~raced[f]
      PROVE  ~Swapping(f) /\ Ordered(f)' /\ Computed(f)' /\ Once(f)' /\ Complete(f)'
  <2>1. ~Swapping(f)
    BY <1>1, <1>2, <1>5 DEF Dumped
  <2>2. /\ \A d \in Directions : partial'[f][d] <= stats[f][d]
        /\ Computed(f)'
        /\ \A d \in Directions : Base(f, d)' = Base(f, d)
        /\ \A d \in Directions : Copied(d)' =>
             d_tmp'[d] = stats[f][d] \/ (Copied(d) /\ d_tmp'[d] = d_tmp[d])
    BY <1>1, <1>5 DEF Dumped
  <2>3. \A p \in SwapSteps, d \in Directions : ~AtSwap(f, p, d) /\ ~AtSwap(f, p, d)'
    BY <1>2, <2>1 DEF AtSwap, Swapping, SwapSteps
  <2>4. Ordered(f)'
    BY <1>2, <2>2, <2>3 DEF Ordered, SwapSteps, Directions
  <2>5. Once(f)'
    <3>1. "cli2srv" \in Directions /\ "srv2cli" \in Directions
      BY DEF Directions
    <3>2. /\ ~AtSwap(f, "swap_partial", "srv2cli")
          /\ ~AtSwap(f, "swap_partial", "srv2cli")'
      BY <2>3, <3>1 DEF SwapSteps
    <3> QED BY <1>1, <1>2, <1>3, <1>5, <2>2, <3>1, <3>2 DEF Dumped, Once
  <2>6. Complete(f)'
    BY <1>1, <1>2, <1>4, <1>5, <2>2 DEF Dumped, Complete
  <2> QED BY <2>1, <2>2, <2>4, <2>5, <2>6
<1> QED BY <1>2, <1>3, <1>4, <1>5 DEF Dumped, NullPartial

LEMMA CopyBytes ==
  ASSUME DumpInv, CopyStats, NEW f \in Flows, f = d_flow
  PROVE  Dumped(f)'
<1>1. TypeOK /\ FieldStep
  BY DEF DumpInv, IInv, FieldStep
<1>2. /\ d_tmp' = [d_tmp EXCEPT ![d_dir] = stats[d_flow][d_dir]]
      /\ d_dir \in Directions /\ d_tmp \in [Directions -> 0 .. MaxBytes]
      /\ UNCHANGED <<partial, delta, d_cur, d_flow, stats, s_flow, i_pc, s_dir>>
  BY <1>1, FieldStepIs DEF CopyStats, TypeOK, Bytes, Inline, statVars, inlineVars
<1>3. \A d \in Directions : /\ Copied(d)' <=> Copied(d) \/ d = d_dir
                            /\ ~Diffed(d)' /\ ~Stored(d)' /\ ~Kept(d) /\ ~Kept(d)'
  BY <1>2, FieldsDone
<1>4. ASSUME ~raced[f], Ordered(f), Computed(f)
      PROVE  /\ \A d \in Directions : partial'[f][d] <= stats[f][d]
             /\ Computed(f)'
  <2>1. ~Swapping(f)
    BY <1>1, <1>4, FieldStepIs DEF DumpInv, Dumped, Window
  <2>2. \A d \in Directions : partial[f][d] <= stats[f][d]
    BY <1>4, <2>1 DEF Ordered, Between, AtSwap, Swapping, SwapSteps
  <2>3. ASSUME NEW d \in Directions, Copied(d)'
        PROVE  partial[f][d] <= d_tmp'[d] /\ d_tmp'[d] <= stats[f][d]
    <3>1. stats[f][d] \in Nat
      BY <1>1, Numeric
    <3>2. CASE d = d_dir
      <4>1. d_tmp'[d] = stats[f][d]
        BY <1>2, <3>2
      <4> QED BY <2>2, <3>1, <4>1
    <3>3. CASE d # d_dir
      <4>1. d_tmp'[d] = d_tmp[d] /\ Copied(d)
        BY <1>2, <1>3, <2>3, <3>3
      <4> QED BY <1>4, <4>1 DEF Computed
    <3> QED BY <3>2, <3>3
  <2>4. Computed(f)'
    BY <1>2, <1>3, <2>3 DEF Computed
  <2> QED BY <1>2, <2>2, <2>4
<1>5. \A d \in Directions : Base(f, d)' = Base(f, d)
  BY <1>2, <1>3 DEF Base
<1>6. ASSUME NEW d \in Directions, Copied(d)'
      PROVE  d_tmp'[d] = stats[f][d] \/ (Copied(d) /\ d_tmp'[d] = d_tmp[d])
  <2>1. CASE d = d_dir
    BY <1>2, <2>1
  <2>2. CASE d # d_dir
    BY <1>2, <1>3, <1>6, <2>2
  <2> QED BY <2>1, <2>2
<1> QED BY <1>1, <1>4, <1>5, <1>6, FieldBytes

LEMMA DiffBytes ==
  ASSUME DumpInv, DiffStats, NEW f \in Flows, f = d_flow
  PROVE  Dumped(f)'
<1>1. TypeOK /\ FieldStep
  BY DEF DumpInv, IInv, FieldStep
<1>2. /\ d_cur' = [d_cur EXCEPT ![d_dir] = Minus(d_tmp[d_dir], partial[d_flow][d_dir])]
      /\ d_dir \in Directions /\ d_cur \in [Directions -> 0 .. MaxBytes]
      /\ UNCHANGED <<partial, delta, d_tmp, d_flow, stats, s_flow, i_pc, s_dir>>
  BY <1>1, FieldStepIs DEF DiffStats, TypeOK, Bytes, Inline, statVars, inlineVars
<1>3. \A d \in Directions : /\ Diffed(d)' <=> Diffed(d) \/ d = d_dir
                            /\ Copied(d) /\ Copied(d)'
                            /\ ~Stored(d)' /\ ~Kept(d) /\ ~Kept(d)'
  BY <1>2, FieldsDone
<1>4. ASSUME ~raced[f], Ordered(f), Computed(f)
      PROVE  /\ \A d \in Directions : partial'[f][d] <= stats[f][d]
             /\ Computed(f)'
  <2>1. ~Swapping(f)
    BY <1>1, <1>4, FieldStepIs DEF DumpInv, Dumped, Window
  <2>2. \A d \in Directions : partial[f][d] <= stats[f][d]
    BY <1>4, <2>1 DEF Ordered, Between, AtSwap, Swapping, SwapSteps
  <2>3. \A d \in Directions : partial[f][d] <= d_tmp[d] /\ d_tmp[d] <= stats[f][d]
    BY <1>3, <1>4 DEF Computed
  <2>4. ASSUME NEW d \in Directions, Diffed(d)'
        PROVE  d_cur'[d] <= d_tmp[d] /\ partial[f][d] = d_tmp[d] - d_cur'[d]
    <3>1. PICK p \in Nat, t \in Nat : p = partial[f][d] /\ t = d_tmp[d] /\ p <= t
      BY <1>1, <2>3, Numeric
    <3>2. CASE d = d_dir
      <4>1. d_cur'[d] = Minus(t, p)
        BY <1>2, <3>1, <3>2
      <4>2. Minus(t, p) = t - p
        BY <3>1 DEF Minus
      <4> QED BY <3>1, <4>1, <4>2
    <3>3. CASE d # d_dir
      <4>1. d_cur'[d] = d_cur[d] /\ Diffed(d)
        BY <1>2, <1>3, <2>4, <3>3
      <4> QED BY <1>3, <1>4, <4>1 DEF Computed
    <3> QED BY <3>2, <3>3
  <2>5. Computed(f)'
    BY <1>2, <1>3, <2>3, <2>4 DEF Computed
  <2> QED BY <1>2, <2>2, <2>5
<1>5. \A d \in Directions : Base(f, d)' = Base(f, d)
  BY <1>2, <1>3 DEF Base
<1> QED BY <1>1, <1>2, <1>3, <1>4, <1>5, FieldBytes

LEMMA StoreBytes ==
  ASSUME DumpInv, StoreDelta, NEW f \in Flows, f = d_flow
  PROVE  Dumped(f)'
<1>1. TypeOK /\ FieldStep
  BY DEF DumpInv, IInv, FieldStep
<1>2. /\ delta' = [delta EXCEPT ![d_flow][d_dir] = d_cur[d_dir]]
      /\ d_dir \in Directions /\ delta \in [Flows -> [Directions -> 0 .. MaxBytes]]
      /\ UNCHANGED <<partial, d_cur, d_tmp, d_flow, stats, s_flow, i_pc, s_dir>>
  BY <1>1, FieldStepIs DEF StoreDelta, TypeOK, Bytes, Inline, statVars, inlineVars
<1>3. \A d \in Directions : /\ Stored(d)' <=> Stored(d) \/ d = d_dir
                            /\ Copied(d) /\ Copied(d)' /\ Diffed(d) /\ Diffed(d)'
                            /\ ~Kept(d) /\ ~Kept(d)'
  BY <1>2, FieldsDone
<1>4. ASSUME ~raced[f], Ordered(f), Computed(f)
      PROVE  /\ \A d \in Directions : partial'[f][d] <= stats[f][d]
             /\ Computed(f)'
  <2>1. ~Swapping(f)
    BY <1>1, <1>4, FieldStepIs DEF DumpInv, Dumped, Window
  <2>2. \A d \in Directions : partial[f][d] <= stats[f][d]
    BY <1>4, <2>1 DEF Ordered, Between, AtSwap, Swapping, SwapSteps
  <2>3. ASSUME NEW d \in Directions, Stored(d)'
        PROVE  delta'[f][d] = d_cur[d]
    <3>1. CASE d = d_dir
      BY <1>2, <3>1
    <3>2. CASE d # d_dir
      <4>1. delta'[f][d] = delta[f][d] /\ Stored(d)
        BY <1>2, <1>3, <2>3, <3>2
      <4> QED BY <1>4, <4>1 DEF Computed
    <3> QED BY <3>1, <3>2
  <2>4. Computed(f)'
    BY <1>2, <1>3, <1>4, <2>3 DEF Computed
  <2> QED BY <1>2, <2>2, <2>4
<1>5. \A d \in Directions : Base(f, d)' = Base(f, d)
  BY <1>2, <1>3 DEF Base
<1> QED BY <1>1, <1>2, <1>3, <1>4, <1>5, FieldBytes

LEMMA KeepBytes ==
  ASSUME DumpInv, KeepStats, NEW f \in Flows, f = d_flow
  PROVE  Dumped(f)'
<1>1. TypeOK /\ FieldStep
  BY DEF DumpInv, IInv, FieldStep
<1>2. /\ partial' = [partial EXCEPT ![d_flow][d_dir] = d_tmp[d_dir]]
      /\ d_dir \in Directions /\ partial \in [Flows -> [Directions -> 0 .. MaxBytes]]
      /\ UNCHANGED <<delta, d_cur, d_tmp, d_flow, stats, s_flow, i_pc, s_dir>>
  BY <1>1, FieldStepIs DEF KeepStats, TypeOK, Bytes, Inline, statVars, inlineVars
<1>3. /\ \A d \in Directions : /\ Kept(d)' <=> Kept(d) \/ d = d_dir
                               /\ Copied(d) /\ Diffed(d) /\ Stored(d)
                               /\ Copied(d)' /\ Diffed(d)' /\ Stored(d)'
      /\ ~Kept(d_dir)
  BY <1>2, FieldsDone
<1>4. \A d \in Directions : partial'[f][d] = IF d = d_dir THEN d_tmp[d] ELSE partial[f][d]
  BY <1>2
<1>5. ASSUME ~raced[f], Ordered(f), Computed(f)
      PROVE  /\ \A d \in Directions : partial'[f][d] <= stats[f][d]
             /\ Computed(f)'
             /\ \A d \in Directions : Base(f, d)' = Base(f, d)
  <2>1. \A d \in Directions :
          /\ partial[f][d] <= d_tmp[d] /\ d_tmp[d] <= stats[f][d]
          /\ d_cur[d] <= d_tmp[d]
          /\ partial[f][d] = IF Kept(d) THEN d_tmp[d] ELSE d_tmp[d] - d_cur[d]
          /\ delta[f][d] = d_cur[d]
    BY <1>3, <1>5 DEF Computed
  <2>2. \A d \in Directions : /\ stats[f][d] \in Nat /\ partial[f][d] \in Nat
                              /\ d_tmp[d] \in Nat /\ d_cur[d] \in Nat
    BY <1>1, Numeric
  <2>3. ASSUME NEW d \in Directions
        PROVE  /\ partial'[f][d] <= d_tmp[d] /\ partial'[f][d] <= stats[f][d]
               /\ partial'[f][d] = IF Kept(d)' THEN d_tmp[d] ELSE d_tmp[d] - d_cur[d]
    <3>1. CASE d = d_dir
      <4>1. partial'[f][d] = d_tmp[d] /\ Kept(d)'
        BY <1>3, <1>4, <3>1
      <4> QED BY <2>1, <2>2, <4>1
    <3>2. CASE d # d_dir
      <4>1. partial'[f][d] = partial[f][d] /\ (Kept(d)' <=> Kept(d))
        BY <1>3, <1>4, <3>2
      <4> QED BY <2>1, <2>2, <4>1
    <3> QED BY <3>1, <3>2
  <2>4. Computed(f)'
    BY <1>2, <2>1, <2>3 DEF Computed
  <2>5. ASSUME NEW d \in Directions PROVE Base(f, d)' = Base(f, d)
    <3>1. Base(f, d) = d_tmp[d] - d_cur[d]
      BY <2>1 DEF Base
    <3>2. Base(f, d)' = d_tmp[d] - d_cur[d]
      BY <1>2, <2>3 DEF Base
    <3> QED BY <3>1, <3>2
  <2> QED BY <2>3, <2>4, <2>5
<1> QED BY <1>1, <1>2, <1>3, <1>5, FieldBytes

LEMMA ExportBytes ==
  ASSUME DumpInv, Export, NEW g \in Flows
  PROVE  Dumped(g)'
<1>1. TypeOK /\ FieldsBegin /\ Dumped(g)
  BY DEF DumpInv, IInv
<1>2. /\ d_pc = "export" /\ d_pc' = "done"
      /\ handed' = IF raced[d_flow] \/ Total(delta[d_flow]) = 0 THEN handed
                   ELSE [handed EXCEPT ![d_flow] = Plus(handed[d_flow], delta[d_flow])]
      /\ handed \in [Flows -> [Directions -> Nat]]
      /\ UNCHANGED <<stats, swap_done, partial, no_partial, delta, raced, recorded,
                     idleFlowsToDump, i_pc, s_flow, s_dir, s_pivot, d_flow, d_idle, d_dir,
                     d_tmp, d_cur>>
  BY <1>1 DEF Export, TypeOK, Inline, statVars, inlineVars, dumpVars, queues, partVars
<1>3. CASE g # d_flow
  <2>1. handed'[g] = handed[g]
    BY <1>2, <1>3
  <2>2. ~Window(g) /\ ~Window(g)'
    BY <1>2, <1>3 DEF Window
  <2> QED BY <1>1, <1>2, <2>1, <2>2, DumpedFrame DEF Swapping
<1>4. CASE g = d_flow
  <2>1. Window(g) /\ ~Window(g)' /\ Swapping(g)' = Swapping(g)
    BY <1>2, <1>4 DEF Window, WindowSteps, Swapping
  <2>2. ~no_partial[g]
    BY <1>1, <2>1 DEF Dumped, NullPartial
  <2>3. \A d \in Directions : /\ Copied(d) /\ Diffed(d) /\ Stored(d) /\ Kept(d)
                              /\ ~Copied(d)' /\ ~Diffed(d)' /\ ~Stored(d)' /\ ~Kept(d)'
    BY <1>2 DEF Copied, Diffed, Stored, Kept, Half
  <2>4. ASSUME ~raced[g]
        PROVE  Ordered(g)' /\ Computed(g)' /\ Once(g)' /\ Complete(g)'
    <3>1. Ordered(g)'
      BY <1>1, <1>2, <2>4 DEF Dumped, Ordered, Between, AtSwap
    <3>2. Computed(g)'
      BY <2>3 DEF Computed
    <3>3. /\ ~AtSwap(g, "swap_partial", "srv2cli")
          /\ ~AtSwap(g, "swap_partial", "srv2cli")'
      BY <1>1, <2>1, <2>4 DEF Dumped, AtSwap, Swapping, SwapSteps
    <3>4. \A d \in Directions : /\ delta[g][d] = d_cur[d] /\ partial[g][d] = d_tmp[d]
                                /\ Base(g, d) = d_tmp[d] - d_cur[d]
                                /\ Base(g, d)' = d_tmp[d]
      BY <1>1, <1>2, <1>4, <2>3, <2>4 DEF Dumped, Computed, Base
    <3>5. /\ "cli2srv" \in Directions /\ "srv2cli" \in Directions
          /\ \A d \in Directions : d = "cli2srv" \/ d = "srv2cli"
          /\ \A d \in Directions : /\ delta[g][d] \in Nat /\ d_tmp[d] \in Nat
                                   /\ d_cur[d] \in Nat /\ handed[g][d] \in Nat
      BY <1>1, Numeric
    <3>6. ASSUME NEW d \in Directions PROVE handed'[g][d] = handed[g][d] + d_cur[d]
      <4>1. CASE Total(delta[g]) = 0
        <5>1. delta[g]["cli2srv"] = 0 /\ delta[g]["srv2cli"] = 0
          BY <3>5, <4>1 DEF Total
        <5>2. d_cur[d] = 0
          BY <3>4, <3>5, <5>1
        <5>3. handed' = handed
          BY <1>2, <1>4, <4>1
        <5> QED BY <3>5, <5>2, <5>3
      <4>2. CASE Total(delta[g]) # 0
        <5>1. handed'[g] = Plus(handed[g], delta[g])
          BY <1>2, <1>4, <2>4, <4>2
        <5>2. Plus(handed[g], delta[g])[d] = handed[g][d] + delta[g][d]
          BY DEF Plus
        <5> QED BY <3>4, <5>1, <5>2
      <4> QED BY <4>1, <4>2
    <3>7. Once(g)
      BY <1>1, <2>4 DEF Dumped
    <3>8. handed'[g]["cli2srv"] + handed'[g]["srv2cli"] =
            Base(g, "cli2srv")' + Base(g, "srv2cli")'
      <4>1. handed[g]["cli2srv"] + handed[g]["srv2cli"] =
              (d_tmp["cli2srv"] - d_cur["cli2srv"]) + (d_tmp["srv2cli"] - d_cur["srv2cli"])
        BY <3>3, <3>4, <3>5, <3>7 DEF Once
      <4>2. /\ handed'[g]["cli2srv"] = handed[g]["cli2srv"] + d_cur["cli2srv"]
            /\ handed'[g]["srv2cli"] = handed[g]["srv2cli"] + d_cur["srv2cli"]
            /\ Base(g, "cli2srv")' = d_tmp["cli2srv"]
            /\ Base(g, "srv2cli")' = d_tmp["srv2cli"]
        BY <3>4, <3>5, <3>6
      <4> QED BY <3>5, <4>1, <4>2
    <3>9. ASSUME ~swap_done[g], ~Swapping(g), NEW d \in Directions
          PROVE  handed'[g][d] = Base(g, d)'
      <4>1. handed[g][d] = d_tmp[d] - d_cur[d]
        BY <3>4, <3>7, <3>9 DEF Once
      <4> QED BY <3>4, <3>5, <3>6, <4>1
    <3>10. Once(g)'
      BY <1>2, <2>1, <3>3, <3>8, <3>9 DEF Once
    <3>11. Complete(g)'
      BY <1>1, <1>2, <2>1, <2>2, <2>3, <2>4, <3>4 DEF Dumped, Complete
    <3> QED BY <3>1, <3>2, <3>10, <3>11
  <2> QED BY <1>2, <2>1, <2>2, <2>4 DEF Dumped, NullPartial
<1> QED BY <1>3, <1>4

\* The other steps.
LEMMA OtherBytes ==
  ASSUME DumpInv, NEW g \in Flows,
         \/ RequestShutdown \/ Shutdown \/ PurgeBegin \/ incUses
         \/ set_dump_in_progress \/ ScanEnd \/ purgeQueuedIdleEntries \/ cleanup
         \/ \E f \in Flows : PeriodicDump(f)
         \/ Start \/ RoundBegin \/ QueueDone \/ set_dump_done \/ decUses
         \/ UNCHANGED vars
  PROVE  Dumped(g)'
<1>1. Dumped(g)
  BY DEF DumpInv
<1> USE DEF flowVars, statVars, dumpVars, queues, inlineVars, dumperVars, partVars,
            dbVars, Inline
<1>2. CASE \/ RequestShutdown \/ Shutdown \/ PurgeBegin \/ incUses
           \/ set_dump_in_progress \/ ScanEnd \/ purgeQueuedIdleEntries \/ cleanup
           \/ \E f \in Flows : PeriodicDump(f)
           \/ UNCHANGED vars
  <2>1. UNCHANGED <<stats, swap_done, partial, no_partial, delta, handed, raced, recorded,
                    idleFlowsToDump, s_flow, s_dir, s_pivot, d_pc, d_flow, d_idle, d_dir,
                    d_tmp, d_cur>>
    BY <1>2 DEF RequestShutdown, Shutdown, PurgeBegin, BeginScan, incUses,
       set_dump_in_progress, ScanEnd, purgeQueuedIdleEntries, cleanup, PeriodicDump, vars
  <2>2. i_pc' = i_pc \/ (i_pc \notin SwapSteps /\ i_pc' \notin SwapSteps)
    BY <1>2 DEF RequestShutdown, Shutdown, PurgeBegin, BeginScan, incUses, SwapSteps,
       set_dump_in_progress, ScanEnd, purgeQueuedIdleEntries, cleanup, PeriodicDump, vars
  <2> QED BY <1>1, <2>1, <2>2, DumpedFrame DEF Swapping, Window
<1>3. CASE Start \/ RoundBegin \/ QueueDone \/ set_dump_done \/ decUses
  <2>1. UNCHANGED <<stats, swap_done, partial, no_partial, delta, handed, raced, recorded,
                    idleFlowsToDump, i_pc, s_flow, s_dir, s_pivot>>
    BY <1>3 DEF Start, RoundBegin, QueueDone, set_dump_done, decUses
  <2>2. d_pc \notin WindowSteps /\ d_pc' \notin WindowSteps /\ d_pc # "alloc"
    BY <1>3 DEF Start, RoundBegin, QueueDone, set_dump_done, decUses, WindowSteps
  <2> QED BY <1>1, <2>1, <2>2, DumpedFrame DEF Swapping, Window
<1> QED BY <1>2, <1>3

LEMMA DumpInit == Init => DumpInv
<1> SUFFICES ASSUME Init PROVE DumpInv
  OBVIOUS
<1>1. IInv /\ FieldsBegin
  BY InitInv DEF Init, FieldsBegin
<1>2. ASSUME NEW f \in Flows PROVE Dumped(f)
  <2>1. /\ d_flow # f /\ s_flow # f /\ ~recorded[f]
        /\ partial[f] = Zero /\ stats[f] = Zero /\ handed[f] = Zero
        /\ \A d \in Directions : Zero[d] = 0
        /\ "cli2srv" \in Directions /\ "srv2cli" \in Directions
    BY DumpAssumption, BytesTypes DEF Init, Directions
  <2>2. \A d \in Directions : Base(f, d) = 0
    BY <2>1 DEF Base
  <2>3. Ordered(f)
    BY <2>1 DEF Ordered, AtSwap
  <2>4. Once(f)
    BY <2>1, <2>2 DEF Once, AtSwap
  <2> QED BY <2>1, <2>3, <2>4
          DEF Dumped, NullPartial, Computed, Complete, Window, Swapping
<1> QED BY <1>1, <1>2 DEF DumpInv

LEMMA DumpNext ==
  ASSUME DumpInv, [Next]_vars
  PROVE  DumpInv'
<1>1. IInv' /\ FieldsBegin'
  BY NextInv, FieldsBeginInv DEF DumpInv
<1>2. ASSUME NEW g \in Flows PROVE Dumped(g)'
  <2>1. CASE \E f \in Flows : \E d \in Traffic : Packet(f, d)
    BY <1>1, <2>1, PacketBytes DEF IInv
  <2>2. CASE \E f \in Flows : swap(f)
    BY <2>2, SwapBytes
  <2>3. CASE \E f \in Flows, s \in BOOLEAN : Expire(f, s)
    BY <2>3, ExpireBytes
  <2>4. CASE SwapStep
    BY <2>4, SwapStepOthers, SwapStatsBytes, SwapPartialBytes, SwapDeltaBytes DEF SwapStep
  <2>5. CASE FieldStep
    BY <2>5, FieldOthers, CopyBytes, DiffBytes, StoreBytes, KeepBytes DEF FieldStep
  <2>6. CASE LastDump \/ Dequeue \/ NoMemory \/ HasPartial \/ Export
    BY <2>6, LastDumpBytes, DequeueBytes, NoMemoryBytes, HasPartialBytes, ExportBytes
  <2>7. CASE \/ RequestShutdown \/ Shutdown \/ PurgeBegin \/ incUses
             \/ set_dump_in_progress \/ ScanEnd \/ purgeQueuedIdleEntries \/ cleanup
             \/ \E f \in Flows : PeriodicDump(f)
             \/ Start \/ RoundBegin \/ QueueDone \/ set_dump_done \/ decUses
             \/ UNCHANGED vars
    BY <2>7, OtherBytes
  <2> QED BY <2>1, <2>2, <2>3, <2>4, <2>5, <2>6, <2>7
          DEF Next, InlineStep, Dumper, SwapStep, FieldStep
<1> QED BY <1>1, <1>2 DEF DumpInv

LEMMA DumpInductive == Spec => []DumpInv
<1>1. DumpInv /\ [Next]_vars => DumpInv'
  BY DumpNext
<1> QED BY <1>1, DumpInit, PTL DEF Spec

\* Whatever the order in which packets, swaps, purges and the dump thread go on, the
\* database has been handed each byte of a flow at most once, and between two dumps
\* exactly those up to the last one, unless the flow was swapped during a dump.
THEOREM BytesExportedOnce == Spec => []ExportedOnce
<1>1. DumpInv => ExportedOnce
  <2> SUFFICES ASSUME DumpInv, NEW f \in Flows, ~raced[f], ~Swapping(f)
               PROVE  /\ ~Window(f) => SameBytes(f, handed[f], partial[f])
                      /\ Total(handed[f]) <= Total(stats[f])
    BY DEF ExportedOnce
  <2>1. TypeOK /\ Ordered(f) /\ Computed(f) /\ Once(f)
    BY DEF DumpInv, IInv, Dumped
  <2>2. /\ "cli2srv" \in Directions /\ "srv2cli" \in Directions
        /\ \A d \in Directions : /\ stats[f][d] \in Nat /\ partial[f][d] \in Nat
                                 /\ d_tmp[d] \in Nat /\ d_cur[d] \in Nat
                                 /\ handed[f][d] \in Nat
    BY <2>1, Numeric
  <2>3. /\ ~AtSwap(f, "swap_partial", "srv2cli") /\ ~Between(f)
    BY DEF AtSwap, Between, Swapping, SwapSteps
  <2>4. \A d \in Directions : partial[f][d] <= stats[f][d]
    BY <2>1, <2>3 DEF Ordered
  <2>5. handed[f]["cli2srv"] + handed[f]["srv2cli"] =
          Base(f, "cli2srv") + Base(f, "srv2cli")
    BY <2>1, <2>3 DEF Once
  <2>6. ASSUME ~Window(f) PROVE SameBytes(f, handed[f], partial[f])
    <3>1. \A d \in Directions : Base(f, d) = partial[f][d]
      BY <2>6 DEF Base, Kept, Half, Window, WindowSteps
    <3>2. Total(handed[f]) = Total(partial[f])
      BY <2>2, <2>5, <3>1 DEF Total
    <3>3. ASSUME ~swap_done[f] PROVE handed[f] = partial[f]
      <4>1. \A d \in Directions : handed[f][d] = partial[f][d]
        BY <2>1, <3>1, <3>3 DEF Once
      <4>2. handed[f] \in [Directions -> Nat] /\ partial[f] \in [Directions -> 0 .. MaxBytes]
        BY <2>1 DEF TypeOK, Bytes
      <4> QED BY <4>1, <4>2
    <3> QED BY <3>2, <3>3 DEF SameBytes
  <2>7. ASSUME NEW d \in Directions
        PROVE  Base(f, d) <= stats[f][d] /\ Base(f, d) \in Int
    <3>1. CASE d_flow = f /\ Kept(d)
      <4>1. Copied(d) /\ Base(f, d) = d_tmp[d] - d_cur[d]
        BY <3>1 DEF Kept, Copied, Half, Base
      <4>2. d_tmp[d] <= stats[f][d]
        BY <2>1, <3>1, <4>1 DEF Computed
      <4> QED BY <2>2, <4>1, <4>2
    <3>2. CASE ~(d_flow = f /\ Kept(d))
      BY <2>2, <2>4, <3>2 DEF Base
    <3> QED BY <3>1, <3>2
  <2>8. Total(handed[f]) <= Total(stats[f])
    <3>1. PICK a \in Int, b \in Int :
            /\ a = Base(f, "cli2srv") /\ b = Base(f, "srv2cli")
            /\ a <= stats[f]["cli2srv"] /\ b <= stats[f]["srv2cli"]
      BY <2>2, <2>7
    <3> QED BY <2>2, <2>5, <3>1 DEF Total
  <2> QED BY <2>6, <2>8
<1> QED BY <1>1, DumpInductive, PTL

\* When a flow is deleted after its last dump was queued, the database was handed
\* all its bytes: the dump copied the counters after they were final.  A flow that
\* was swapped during a dump, or never had memory for one, is not promised it.
THEOREM LastDumpsComplete == Spec => []LastDumpComplete
<1>1. DumpInv => LastDumpComplete
  <2> SUFFICES ASSUME DumpInv, NEW f \in Flows, place[f] = "deleted", recorded[f],
                      ~no_partial[f], ~raced[f], d_pc # "aborted"
               PROVE  SameBytes(f, handed[f], stats[f])
    BY DEF LastDumpComplete
  <2>1. TypeOK /\ DeletedUnused /\ Complete(f) /\ Once(f)
    BY DEF DumpInv, IInv, Dumped
  <2>2. d_flow # f /\ s_flow # f /\ ~In(f, idleFlowsToDump)
    BY <2>1 DEF DeletedUnused
  <2>3. \A d \in Directions : partial[f][d] = stats[f][d] /\ Base(f, d) = partial[f][d]
    BY <2>1, <2>2 DEF Complete, Base, Window
  <2>4. "cli2srv" \in Directions /\ "srv2cli" \in Directions
    BY DEF Directions
  <2>5. Total(handed[f]) = Total(stats[f])
    BY <2>1, <2>2, <2>3, <2>4 DEF Once, AtSwap, Total
  <2>6. ASSUME ~swap_done[f] PROVE handed[f] = stats[f]
    <3>1. \A d \in Directions : handed[f][d] = stats[f][d]
      BY <2>1, <2>2, <2>3, <2>6 DEF Once, Swapping
    <3>2. handed[f] \in [Directions -> Nat] /\ stats[f] \in [Directions -> 0 .. MaxBytes]
      BY <2>1 DEF TypeOK, Bytes
    <3> QED BY <3>1, <3>2
  <2> QED BY <2>5, <2>6 DEF SameBytes
<1> QED BY <1>1, DumpInductive, PTL
=============================================================================
