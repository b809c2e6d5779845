-------------------------- MODULE FlowAlerts_proofs --------------------------
(***************************************************************************)
(* The flow outlives its queued alerts, the text being sent is still       *)
(* there, the last notification tells all, and the counters are balanced:  *)
(* the invariants of FlowAlerts, for every set of alerts, every score and  *)
(* every length of the queue.                                              *)
(*                                                                         *)
(* The use of the flow is counted after the enqueue and may be given back  *)
(* before.  The count is right all the same whenever the flow can be       *)
(* deleted, since the thread that deletes is the one that counts.          *)
(*                                                                         *)
(* What the last notification tells is followed from the end of the queue, *)
(* through the hands of the dequeue thread, to the notification: the       *)
(* newest of them is up to date unless an alert is still to be queued.     *)
(***************************************************************************)
EXTENDS FlowAlerts, FiniteSetTheorems, TLAPS

QueueTypes ==
  /\ flowAlertsQueue \in Seq(Alerts \cup {NoAlert}) /\ uses \in Int
  /\ d_pc \in {"idle", "copy", "notify", "release"}
  /\ i_next \notin {"count", "strdup"}
  /\ predominant_alert \in Alerts \cup {NoAlert}

\* The uses, but for the one that is yet to be counted.
UsesCounted ==
  uses = Len(flowAlertsQueue) + (IF d_pc = "idle" THEN 0 ELSE 1)
                              - (IF i_pc = "count" THEN 1 ELSE 0)

\* The inline thread is done with a flow that waits for its deletion.
DoneWhenPurged == state \in {"purged", "deleted"} => i_pc = "idle"

DeletedUnused == state = "deleted" => flowAlertsQueue = <<>> /\ d_pc = "idle"

FreedWithFlow == ~refused /\ state # "deleted" => freed = {}

UsesInv == /\ QueueTypes /\ UsesCounted /\ DoneWhenPurged /\ DeletedUnused
           /\ FreedWithFlow

\* Between the two halves of a replacement the text is in both places.
TextKept ==
  /\ alerts_json = NoBuffer => alerts_json_shadow = NoBuffer
  /\ i_pc = "strdup" => alerts_json_shadow = alerts_json
  /\ d_pc = "notify" =>
       /\ d_updates \in 0..2
       /\ d_updates = 0 => d_json = alerts_json /\ i_pc # "strdup"
       /\ d_updates = 1 => d_json \in {alerts_json, alerts_json_shadow}

IInv == UsesInv /\ TextKept
-----------------------------------------------------------------------------
\* strdup() finds memory: the flow refers to two buffers, and there are three.
LEMMA FreeBufferExists ==
  /\ FreeBuffer \in Buffers
  /\ FreeBuffer \notin {alerts_json, alerts_json_shadow, NoBuffer}
<1> DEFINE B == {alerts_json, alerts_json_shadow}
<1>1. IsFiniteSet(B) /\ Cardinality(B) \in Nat /\ Cardinality(B) <= 2
  <2>1. /\ IsFiniteSet({alerts_json})
        /\ Cardinality({alerts_json}) = 1
    BY FS_Singleton
  <2>2. B = {alerts_json} \cup {alerts_json_shadow}
    OBVIOUS
  <2>3. /\ IsFiniteSet({alerts_json} \cup {alerts_json_shadow})
        /\ Cardinality({alerts_json} \cup {alerts_json_shadow})
             = (IF alerts_json_shadow \in {alerts_json} THEN 1 ELSE 2)
    BY <2>1, FS_AddElement
  <2> QED BY <2>2, <2>3
<1>2. ~(Buffers \subseteq B)
  <2>1. SUFFICES ASSUME Buffers \subseteq B PROVE FALSE
    OBVIOUS
  <2>2. Cardinality(Buffers) <= Cardinality(B)
    BY <1>1, <2>1, FS_Subset
  <2> QED BY <1>1, <2>2, FlowAlertAssumption
<1>3. FreeBuffer \in Buffers /\ FreeBuffer \notin B
  BY <1>2 DEF FreeBuffer
<1> QED BY <1>3, FlowAlertAssumption
-----------------------------------------------------------------------------
(***************************************************************************)
(* The uses.                                                               *)
(***************************************************************************)

\* Steps that neither queue nor count anything, and change the state of the flow
\* only while it is not purged.
QuietStep ==
  /\ UNCHANGED <<flowAlertsQueue, uses, freed, refused, d_pc>>
  /\ i_pc # "count" /\ i_pc' # "count"
  /\ i_next' \notin {"count", "strdup"}
  /\ predominant_alert' \in Alerts \cup {NoAlert}
  /\ state' \in {"purged", "deleted"} => i_pc' = "idle"
  /\ state' = "deleted" <=> state = "deleted"

LEMMA QuietPreservesUses ==
  ASSUME UsesInv, QuietStep
  PROVE  UsesInv'
BY DEF UsesInv, QueueTypes, UsesCounted, DoneWhenPurged, DeletedUnused,
       FreedWithFlow, QuietStep

\* The life of the flow, but for its deletion, and its checks are quiet.
LEMMA LifeIsQuiet ==
  ASSUME UsesInv,
         \/ execFlowBeginChecks \/ request_swap \/ PacketSwap
         \/ housekeepDetected \/ set_hash_entry_state_active \/ callFlowUpdate
         \/ flow_end_housekeeping \/ execFlowEndChecks \/ decAllFlowScores
         \/ \E requested \in BOOLEAN : setDetectedProtocol(requested)
  PROVE  QuietStep
<1> USE DEF QuietStep, UsesInv, QueueTypes, DoneWhenPurged, execChecks,
            queueVars, dequeueVars, inlineVars, alertVars
<1>1. CASE execFlowBeginChecks
  BY <1>1 DEF execFlowBeginChecks
<1>2. CASE request_swap
  BY <1>2 DEF request_swap, InTable
<1>3. CASE PacketSwap
  BY <1>3 DEF PacketSwap, InTable
<1>4. CASE housekeepDetected
  BY <1>4 DEF housekeepDetected
<1>5. CASE set_hash_entry_state_active
  BY <1>5 DEF set_hash_entry_state_active
<1>6. CASE callFlowUpdate
  BY <1>6 DEF callFlowUpdate, flowVars
<1>7. CASE flow_end_housekeeping
  BY <1>7 DEF flow_end_housekeeping
<1>8. CASE execFlowEndChecks
  BY <1>8 DEF execFlowEndChecks, flowVars
<1>9. CASE decAllFlowScores
  BY <1>9 DEF decAllFlowScores
<1>10. CASE \E requested \in BOOLEAN : setDetectedProtocol(requested)
  BY <1>10 DEF setDetectedProtocol
<1> QED BY <1>1, <1>2, <1>3, <1>4, <1>5, <1>6, <1>7, <1>8, <1>9, <1>10

LEMMA ChecksAreQuiet ==
  ASSUME UsesInv,
         \/ \E a \in Alerts : triggerAlert(a)
         \/ refreshAlert \/ flushAlerts \/ updateAlertsJSON
  PROVE  QuietStep
<1> USE DEF QuietStep, UsesInv, QueueTypes, DoneWhenPurged, queueVars,
            dequeueVars, inlineVars, flowVars, alertVars
<1>1. CASE \E a \in Alerts : triggerAlert(a)
  BY <1>1 DEF triggerAlert, setPredominantAlert
<1>2. CASE refreshAlert
  BY <1>2 DEF refreshAlert
<1>3. CASE flushAlerts
  BY <1>3 DEF flushAlerts
<1>4. CASE updateAlertsJSON
  BY <1>4 DEF updateAlertsJSON
<1> QED BY <1>1, <1>2, <1>3, <1>4

\* An alert is queued and its use counted, or it is refused.
LEMMA EnqueuePreservesUses ==
  ASSUME UsesInv,
         \/ enqueueFlowAlert \/ incUses
         \/ enqueueFlowAlertFull \/ dontEmitFlowAlerts
  PROVE  UsesInv'
<1> USE DEF UsesInv, QueueTypes, UsesCounted, DoneWhenPurged, DeletedUnused,
            FreedWithFlow, flowVars, alertVars, dequeueVars
<1>1. CASE enqueueFlowAlert
  <2>1. /\ flowAlertsQueue' \in Seq(Alerts \cup {NoAlert})
        /\ Len(flowAlertsQueue') = Len(flowAlertsQueue) + 1
        /\ Len(flowAlertsQueue) \in Nat
    BY <1>1 DEF enqueueFlowAlert
  <2> QED BY <1>1, <2>1 DEF enqueueFlowAlert
<1>2. CASE incUses
  <2>1. Len(flowAlertsQueue) \in Nat /\ i_pc' # "count"
    BY <1>2 DEF incUses
  <2>2. UsesCounted'
    BY <1>2, <2>1 DEF incUses
  <2>3. QueueTypes'
    BY <1>2 DEF incUses
  <2>4. DoneWhenPurged' /\ DeletedUnused' /\ FreedWithFlow'
    BY <1>2 DEF incUses
  <2> QED BY <2>2, <2>3, <2>4
<1>3. CASE enqueueFlowAlertFull
  BY <1>3 DEF enqueueFlowAlertFull
<1>4. CASE dontEmitFlowAlerts
  BY <1>4 DEF dontEmitFlowAlerts
<1> QED BY <1>1, <1>2, <1>3, <1>4

\* A flow is deleted when the inline thread is done with it, and then its uses are
\* exactly the alerts that are queued or being notified: none.
LEMMA DeletePreservesUses ==
  ASSUME UsesInv, DeleteFlow
  PROVE  UsesInv'
<1>1. /\ i_pc = "idle" /\ uses = 0
      /\ UNCHANGED <<flowAlertsQueue, uses, refused, i_pc, i_next, d_pc,
                     predominant_alert>>
  BY DEF UsesInv, DoneWhenPurged, DeleteFlow, inlineVars, dequeueVars, alertVars
<1>2. Len(flowAlertsQueue) = 0 /\ d_pc = "idle"
  <2>1. Len(flowAlertsQueue) \in Nat
    BY DEF UsesInv, QueueTypes
  <2> QED BY <1>1, <2>1 DEF UsesInv, UsesCounted
<1>3. flowAlertsQueue = <<>>
  BY <1>2 DEF UsesInv, QueueTypes
<1> QED BY <1>1, <1>2, <1>3 DEF UsesInv, QueueTypes, UsesCounted,
        DoneWhenPurged, DeletedUnused, FreedWithFlow, DeleteFlow

\* The dequeue thread takes an alert and gives its use back.
LEMMA DequeuePreservesUses ==
  ASSUME UsesInv, DequeueThread
  PROVE  UsesInv'
<1> USE DEF UsesInv, QueueTypes, UsesCounted, DoneWhenPurged, DeletedUnused,
            FreedWithFlow, flowVars, alertVars, inlineVars, queueVars
<1>1. CASE dequeueFlowAlerts
  <2>1. /\ flowAlertsQueue' \in Seq(Alerts \cup {NoAlert})
        /\ Len(flowAlertsQueue') = Len(flowAlertsQueue) - 1
        /\ Len(flowAlertsQueue) \in Nat
    BY <1>1 DEF dequeueFlowAlerts
  <2>2. DeletedUnused'
    BY <1>1 DEF dequeueFlowAlerts
  <2>3. /\ d_pc = "idle" /\ d_pc' = "copy" /\ uses' = uses /\ i_pc' = i_pc
    BY <1>1 DEF dequeueFlowAlerts
  <2>4. UsesCounted'
    BY <2>1, <2>3
  <2>5. QueueTypes' /\ DoneWhenPurged' /\ FreedWithFlow'
    BY <1>1, <2>1 DEF dequeueFlowAlerts
  <2> QED BY <2>2, <2>4, <2>5
<1>2. CASE alert2JSON
  BY <1>2 DEF alert2JSON
<1>3. CASE enqueueAlertToRecipients
  BY <1>3 DEF enqueueAlertToRecipients
<1>4. CASE decUses
  BY <1>4 DEF decUses
<1> QED BY <1>1, <1>2, <1>3, <1>4 DEF DequeueThread
-----------------------------------------------------------------------------
(***************************************************************************)
(* The text.                                                               *)
(***************************************************************************)

\* Steps that leave the text and its reader alone.
LEMMA OtherPreservesText ==
  ASSUME TextKept, UNCHANGED <<alerts_json, alerts_json_shadow, d_json, d_updates>>,
         i_pc' # "strdup", d_pc' = "notify" => d_pc = "notify"
  PROVE  TextKept'
BY DEF TextKept

\* The old text is moved to the shadow: it is still the one that is read, if no
\* other replacement began since.
LEMMA FlushPreservesText ==
  ASSUME UsesInv, TextKept, flushAlerts
  PROVE  TextKept'
<1>1. /\ UNCHANGED <<alerts_json, d_json, d_pc>>
      /\ i_next \notin {"count", "strdup"} /\ i_pc # "strdup"
  BY DEF flushAlerts, UsesInv, QueueTypes
<1>2. CASE ~pending_alerts /\ ~refresh_triggered_alerts
  BY <1>1, <1>2 DEF flushAlerts, TextKept
<1>3. CASE ~(~pending_alerts /\ ~refresh_triggered_alerts)
  <2>1. i_pc' = "strdup" /\ alerts_json_shadow' = alerts_json
    BY <1>3 DEF flushAlerts, TextKept
  <2>2. d_pc = "notify" => /\ d_updates' \in 1..2
                           /\ d_updates' = 1 => d_updates = 0
    BY <1>3 DEF flushAlerts, TextKept, CountUpdate
  <2> QED BY <1>1, <2>1, <2>2 DEF TextKept
<1> QED BY <1>2, <1>3

\* The new text overwrites neither; a reader that began in between has the one
\* in the shadow.
LEMMA UpdatePreservesText ==
  ASSUME TextKept, updateAlertsJSON
  PROVE  TextKept'
<1>1. alerts_json' # NoBuffer
  BY FreeBufferExists DEF updateAlertsJSON
<1> QED BY <1>1 DEF updateAlertsJSON, TextKept, dequeueVars

LEMMA ReaderPreservesText ==
  ASSUME TextKept, alert2JSON \/ enqueueAlertToRecipients
  PROVE  TextKept'
<1>1. CASE alert2JSON
  BY <1>1 DEF alert2JSON, TextKept, jsonVars, inlineVars
<1>2. CASE enqueueAlertToRecipients
  BY <1>2 DEF enqueueAlertToRecipients, TextKept, jsonVars, inlineVars
<1> QED BY <1>1, <1>2
-----------------------------------------------------------------------------
(***************************************************************************)
(* All together.                                                           *)
(***************************************************************************)

LEMMA InitEstablishes == Init => IInv
<1> SUFFICES ASSUME Init PROVE IInv
  OBVIOUS
<1>1. QueueTypes
  BY DEF Init, QueueTypes
<1>2. UsesCounted
  <2>1. Len(flowAlertsQueue) = 0 /\ uses = 0 /\ d_pc = "idle" /\ i_pc = "idle"
    BY DEF Init
  <2> QED BY <2>1 DEF UsesCounted
<1>3. DoneWhenPurged /\ DeletedUnused /\ FreedWithFlow
  BY DEF Init, DoneWhenPurged, DeletedUnused, FreedWithFlow
<1>4. TextKept
  BY DEF Init, TextKept
<1> QED BY <1>1, <1>2, <1>3, <1>4 DEF IInv, UsesInv

LEMMA UsesInductive == UsesInv /\ [Next]_vars => UsesInv'
<1> SUFFICES ASSUME UsesInv, [Next]_vars PROVE UsesInv'
  OBVIOUS
<1>1. CASE DeleteFlow
  BY <1>1, DeletePreservesUses
<1>2. CASE \/ enqueueFlowAlert \/ incUses
           \/ enqueueFlowAlertFull \/ dontEmitFlowAlerts
  BY <1>2, EnqueuePreservesUses
<1>3. CASE DequeueThread
  BY <1>3, DequeuePreservesUses
<1>4. CASE \/ execFlowBeginChecks \/ request_swap \/ PacketSwap
           \/ housekeepDetected \/ set_hash_entry_state_active \/ callFlowUpdate
           \/ flow_end_housekeeping \/ execFlowEndChecks \/ decAllFlowScores
           \/ \E requested \in BOOLEAN : setDetectedProtocol(requested)
  BY <1>4, LifeIsQuiet, QuietPreservesUses
<1>5. CASE \/ \E a \in Alerts : triggerAlert(a)
           \/ refreshAlert \/ flushAlerts \/ updateAlertsJSON
  BY <1>5, ChecksAreQuiet, QuietPreservesUses
<1>6. CASE UNCHANGED vars
  BY <1>6 DEF vars, flowVars, alertVars, queueVars, inlineVars, dequeueVars,
     UsesInv, QueueTypes, UsesCounted, DoneWhenPurged, DeletedUnused,
     FreedWithFlow
<1> QED BY <1>1, <1>2, <1>3, <1>4, <1>5, <1>6 DEF Next, Inline

LEMMA TextInductive == IInv /\ [Next]_vars => TextKept'
<1> SUFFICES ASSUME UsesInv, TextKept, [Next]_vars PROVE TextKept'
  BY DEF IInv
<1> USE DEF execChecks, jsonVars, inlineVars, dequeueVars, UsesInv, QueueTypes
<1>1. CASE flushAlerts
  BY <1>1, FlushPreservesText
<1>2. CASE updateAlertsJSON
  BY <1>2, UpdatePreservesText
<1>3. CASE alert2JSON \/ enqueueAlertToRecipients
  BY <1>3, ReaderPreservesText
<1>4. CASE \/ execFlowBeginChecks \/ housekeepDetected
           \/ set_hash_entry_state_active \/ callFlowUpdate
           \/ flow_end_housekeeping \/ execFlowEndChecks \/ decAllFlowScores
  <2>1. /\ UNCHANGED <<alerts_json, alerts_json_shadow, d_json, d_updates, d_pc>>
        /\ i_pc' # "strdup"
    BY <1>4 DEF execFlowBeginChecks, housekeepDetected,
       set_hash_entry_state_active, callFlowUpdate, flow_end_housekeeping,
       execFlowEndChecks, decAllFlowScores
  <2> QED BY <2>1, OtherPreservesText
<1>5. CASE \/ request_swap \/ PacketSwap \/ refreshAlert \/ DeleteFlow
           \/ \E requested \in BOOLEAN : setDetectedProtocol(requested)
           \/ \E a \in Alerts : triggerAlert(a)
  <2>1. UNCHANGED <<alerts_json, alerts_json_shadow, d_json, d_updates, d_pc,
                    i_pc>>
    BY <1>5 DEF request_swap, PacketSwap, refreshAlert, DeleteFlow,
       setDetectedProtocol, triggerAlert
  <2> QED BY <2>1 DEF TextKept
<1>6. CASE \/ enqueueFlowAlert \/ enqueueFlowAlertFull \/ dontEmitFlowAlerts
           \/ incUses
  <2>1. /\ UNCHANGED <<alerts_json, alerts_json_shadow, d_json, d_updates, d_pc>>
        /\ i_pc' # "strdup"
    BY <1>6 DEF enqueueFlowAlert, enqueueFlowAlertFull, dontEmitFlowAlerts,
       incUses
  <2> QED BY <2>1, OtherPreservesText
<1>7. CASE dequeueFlowAlerts \/ decUses
  <2>1. /\ UNCHANGED <<alerts_json, alerts_json_shadow, d_json, d_updates, i_pc>>
        /\ d_pc' # "notify"
    BY <1>7 DEF dequeueFlowAlerts, decUses
  <2> QED BY <2>1 DEF TextKept
<1>8. CASE UNCHANGED vars
  BY <1>8 DEF vars, TextKept
<1> QED BY <1>1, <1>2, <1>3, <1>4, <1>5, <1>6, <1>7, <1>8
        DEF Next, Inline, DequeueThread

LEMMA Inductive == Spec => []IInv
<1>1. IInv /\ [Next]_vars => IInv'
  BY UsesInductive, TextInductive DEF IInv
<1> QED BY InitEstablishes, <1>1, PTL DEF Spec

\* The flow outlives its queued alerts, its uses are exactly theirs, and as long
\* as enqueueFlowAlert() refuses none no deleted alert is queued: for every set
\* of alerts and every length of the queue.
THEOREM OutlivesAlerts == Spec => []FlowOutlivesAlerts
<1>1. IInv => FlowOutlivesAlerts
  <2> SUFFICES ASSUME UsesInv PROVE FlowOutlivesAlerts
    BY DEF IInv
  <2>1. state = "deleted" => Held = {} /\ d_pc = "idle"
    BY DEF UsesInv, DeletedUnused, Held
  <2>2. ~refused => Held \cap freed = {}
    BY <2>1 DEF UsesInv, FreedWithFlow
  <2> QED BY <2>1, <2>2 DEF UsesInv, UsesCounted, FlowOutlivesAlerts
<1> QED BY Inductive, <1>1, PTL

\* The text that alert2JSON() took is alive while it is used, if at most one
\* replacement by updateAlertsJSON() overlaps the use.
THEOREM TextOutlivesUpdate == Spec => []ShadowHolds
<1>1. IInv => ShadowHolds
  BY DEF IInv, TextKept, ShadowHolds
<1> QED BY Inductive, <1>1, PTL
-----------------------------------------------------------------------------
(***************************************************************************)
(* What the notifications tell, and the counters.                          *)
(***************************************************************************)

Flushing == {"strdup", "emit", "count"}

Steps ==
  /\ i_pc \in {"idle", "checks", "activate", "end", "dec"} \cup Flushing
  /\ i_next \in {"idle", "activate", "end", "dec"}
  /\ d_pc \in {"idle", "copy", "notify", "release"}
  /\ state \in {"new", "notyetdetected", "protocoldetected", "active", "idle",
                "purged", "deleted"}

Flags ==
  /\ swap_requested \in BOOLEAN /\ swapped \in BOOLEAN
  /\ pending_alerts \in BOOLEAN /\ refresh_triggered_alerts \in BOOLEAN
  /\ refused \in BOOLEAN /\ swap_alerted \in BOOLEAN /\ postponed \in BOOLEAN

OtherTypes ==
  /\ flowAlertsQueue \in Seq(Alerts) /\ Len(flowAlertsQueue) <= QueueLen
  /\ freed \subseteq Alerts /\ alerts_json_shadow \in Buffers \cup {NoBuffer}
  /\ d_alert \in Alerts \cup {NoAlert} /\ d_json \in Buffers \cup {NoBuffer}
  /\ d_updates \in 0 .. 2 /\ last \in Notifications \cup {NoNotification}

\* The predominant alert has the highest score.  Alerts are pending from the check
\* that fires until they are flushed.
Predominant ==
  /\ triggered_alerts \subseteq Alerts
  /\ IF predominant_alert = NoAlert THEN triggered_alerts = {}
                                    ELSE predominant_alert \in triggered_alerts
  /\ \A a \in triggered_alerts : Score(a) <= PredominantScore
  /\ pending_alerts => triggered_alerts # {} /\ i_pc \in {"checks"} \cup Flushing
  /\ refresh_triggered_alerts => pending_alerts
  /\ i_pc \in Flushing => pending_alerts

\* The text of the flow lists every alert that is queued; it is complete from its
\* writing to the end of the flush.
Texts ==
  /\ alerts_json \in Buffers \cup {NoBuffer}
  /\ text \in [Buffers -> SUBSET triggered_alerts]
  /\ alerts_json = NoBuffer => /\ flowAlertsQueue = <<>> /\ i_pc \notin {"emit", "count"}
                               /\ d_pc \notin {"copy", "notify"}
  /\ \A k \in 1 .. Len(flowAlertsQueue) : flowAlertsQueue[k] \in text[alerts_json]
  /\ i_pc \in {"emit", "count"} => text[alerts_json] = triggered_alerts
  /\ d_pc = "copy" => d_alert \in text[alerts_json]
  /\ d_pc = "notify" => d_json \in Buffers /\ d_alert \in text[d_json]

\* Once nothing more is to be queued, the newest alert on its way, or else the last
\* notification, tells all.
Latest(alert, list) == alert = predominant_alert /\ list = triggered_alerts
Newest ==
  ~refused /\ ~(pending_alerts /\ i_pc # "count") =>
    /\ flowAlertsQueue # <<>> =>
         Latest(flowAlertsQueue[Len(flowAlertsQueue)], text[alerts_json])
    /\ flowAlertsQueue = <<>> /\ d_pc = "copy" => Latest(d_alert, text[alerts_json])
    /\ flowAlertsQueue = <<>> /\ d_pc = "notify" => Latest(d_alert, text[d_json])
    /\ flowAlertsQueue = <<>> /\ d_pc \notin {"copy", "notify"} =>
         Latest(last.alert, last.text)

Told == last.alert # NoAlert => /\ last.score >= Score(last.alert)
                                /\ last.alert \in last.text

TellInv == UsesInv /\ Steps /\ OtherTypes /\ Predominant /\ Texts /\ Newest /\ Told

Purged == state \in {"purged", "deleted"}
Counted == ~Purged /\ isFlowAlerted

\* The counters are those of the predominant alert until the flow is purged; the
\* scores of the hosts are those of the flow, unless it was swapped with alerts.
Counters ==
  /\ host_alerted = [h \in Hosts |-> IF Counted THEN 1 ELSE 0]
  /\ num_active_alerted =
       [g \in Groups |-> IF Counted /\ SeverityGroup(PredominantScore) = g
                         THEN 1 ELSE 0]

Scores ==
  /\ cli_score \in Nat /\ srv_score \in Nat /\ host_score \in [Hosts \X Roles -> Nat]
  /\ triggered_alerts = {} =>
       /\ cli_score = 0 /\ srv_score = 0
       /\ \A hr \in Hosts \X Roles : host_score[hr] = 0
  /\ ~swap_alerted /\ ~Purged =>
       /\ host_score[<<Client, "client">>] = cli_score
       /\ host_score[<<Server, "server">>] = srv_score
       /\ host_score[<<Client, "server">>] = 0 /\ host_score[<<Server, "client">>] = 0
  /\ ~swap_alerted /\ Purged => \A hr \in Hosts \X Roles : host_score[hr] = 0

CountInv == TellInv /\ Flags /\ Counters /\ Scores

\* The life of the flow until its end checks.
Life ==
  \/ execFlowBeginChecks \/ request_swap \/ PacketSwap \/ housekeepDetected
  \/ set_hash_entry_state_active \/ callFlowUpdate \/ flow_end_housekeeping
  \/ execFlowEndChecks \/ \E requested \in BOOLEAN : setDetectedProtocol(requested)

LEMMA LifeFrame ==
  ASSUME Steps, DoneWhenPurged, Life
  PROVE  /\ UNCHANGED <<alertVars, counterVars, jsonVars, queueVars, dequeueVars>>
         /\ i_pc \in {"idle", "activate", "end"}
         /\ i_pc' \in {"idle", "checks", "activate", "end"} /\ Steps'
         /\ ~Purged /\ ~Purged'
         /\ \/ UNCHANGED <<swapped, cli_score, srv_score, swap_alerted>>
            \/ swap
<1> USE DEF Steps, DoneWhenPurged, execChecks, inlineVars, dequeueVars, Purged, InTable
<1>1. CASE execFlowBeginChecks
  BY <1>1 DEF execFlowBeginChecks
<1>2. CASE request_swap
  BY <1>2 DEF request_swap
<1>3. CASE PacketSwap
  BY <1>3 DEF PacketSwap
<1>4. CASE housekeepDetected
  BY <1>4 DEF housekeepDetected
<1>5. CASE set_hash_entry_state_active
  BY <1>5 DEF set_hash_entry_state_active
<1>6. CASE callFlowUpdate
  BY <1>6 DEF callFlowUpdate, flowVars
<1>7. CASE flow_end_housekeeping
  BY <1>7 DEF flow_end_housekeeping
<1>8. CASE execFlowEndChecks
  BY <1>8 DEF execFlowEndChecks, flowVars
<1>9. CASE \E requested \in BOOLEAN : setDetectedProtocol(requested)
  BY <1>9 DEF setDetectedProtocol
<1> QED BY <1>1, <1>2, <1>3, <1>4, <1>5, <1>6, <1>7, <1>8, <1>9 DEF Life

\* Steps between two runs of the checks leave alone what is told.
LEMMA BetweenChecks ==
  ASSUME OtherTypes, Predominant, Texts, Newest, Told, freed' \subseteq Alerts,
         UNCHANGED <<alertVars, jsonVars, flowAlertsQueue, refused, d_pc, d_alert,
                     d_json, d_updates, last>>,
         i_pc \notin {"checks"} \cup Flushing, i_pc' \notin Flushing
  PROVE  OtherTypes' /\ Predominant' /\ Texts' /\ Newest' /\ Told'
<1> USE DEF alertVars, jsonVars
<1>1. ~pending_alerts
  BY DEF Predominant
<1>2. OtherTypes'
  BY DEF OtherTypes
<1>3. Predominant'
  BY <1>1 DEF Predominant, Score, PredominantScore
<1>4. Texts'
  BY DEF Texts, Flushing
<1>5. Newest'
  BY <1>1 DEF Newest, Latest
<1>6. Told'
  BY DEF Told, Score
<1> QED BY <1>2, <1>3, <1>4, <1>5, <1>6

LEMMA ScoresAreNat ==
  /\ \A a \in Alerts : Score(a) \in Nat
  /\ NoAlert \notin Alerts
BY FlowAlertAssumption DEF Score

LEMMA PredominantIsAlert ==
  ASSUME Predominant
  PROVE  /\ predominant_alert \in Alerts \cup {NoAlert}
         /\ isFlowAlerted <=> triggered_alerts # {}
         /\ PredominantScore \in Nat
         /\ isFlowAlerted => PredominantScore = Score(predominant_alert)
BY ScoresAreNat DEF Predominant, isFlowAlerted, PredominantScore

LEMMA TriggerTells ==
  ASSUME OtherTypes, Predominant, Texts, Told, NEW a \in Alerts, triggerAlert(a)
  PROVE  OtherTypes' /\ Predominant' /\ Texts' /\ Newest' /\ Told'
<1>1. /\ UNCHANGED <<alerts_json, alerts_json_shadow, text, flowAlertsQueue, freed,
                     i_pc, d_pc, d_alert, d_json, d_updates, last>>
      /\ i_pc = "checks" /\ triggered_alerts' = triggered_alerts \cup {a}
      /\ pending_alerts'
  BY DEF triggerAlert, jsonVars, queueVars, inlineVars, dequeueVars
<1>2. predominant_alert' = IF ~isFlowAlerted \/ PredominantScore < Score(a)
                           THEN a ELSE predominant_alert
  BY DEF triggerAlert, setPredominantAlert
<1>3. /\ predominant_alert' # NoAlert /\ predominant_alert' \in triggered_alerts'
      /\ Score(a) <= Score(predominant_alert')
      /\ \A b \in triggered_alerts : Score(b) <= Score(predominant_alert')
  <2>1. CASE ~isFlowAlerted
    BY <1>1, <1>2, <2>1, PredominantIsAlert, ScoresAreNat
  <2>2. CASE isFlowAlerted /\ PredominantScore < Score(a)
    <3>1. predominant_alert' = a
      BY <1>2, <2>2
    <3>2. \A b \in triggered_alerts : Score(b) \in Nat /\ Score(b) <= PredominantScore
      BY ScoresAreNat DEF Predominant
    <3> QED BY <1>1, <2>2, <3>1, <3>2, PredominantIsAlert, ScoresAreNat
  <2>3. CASE isFlowAlerted /\ ~(PredominantScore < Score(a))
    <3>1. predominant_alert' = predominant_alert
      BY <1>2, <2>3
    <3> QED BY <1>1, <2>3, <3>1, PredominantIsAlert, ScoresAreNat
            DEF Predominant, isFlowAlerted
  <2> QED BY <2>1, <2>2, <2>3
<1>4. OtherTypes'
  BY <1>1 DEF OtherTypes
<1>5. Predominant'
  <2>1. \A b \in triggered_alerts' : Score(b) <= PredominantScore'
    BY <1>1, <1>3 DEF PredominantScore, Score
  <2>2. triggered_alerts' \subseteq Alerts /\ triggered_alerts' # {}
    BY <1>1 DEF Predominant
  <2> QED BY <1>1, <1>3, <2>1, <2>2 DEF Predominant, Score
<1>6. Texts'
  BY <1>1 DEF Texts
<1>7. Newest'
  BY <1>1 DEF Newest
<1>8. Told'
  BY <1>1 DEF Told, Score
<1> QED BY <1>4, <1>5, <1>6, <1>7, <1>8

LEMMA RefreshTells ==
  ASSUME OtherTypes, Predominant, Texts, Told, refreshAlert
  PROVE  OtherTypes' /\ Predominant' /\ Texts' /\ Newest' /\ Told'
<1>1. /\ UNCHANGED <<alerts_json, alerts_json_shadow, text, flowAlertsQueue, freed,
                     i_pc, d_pc, d_alert, d_json, d_updates, last, triggered_alerts,
                     predominant_alert>>
      /\ i_pc = "checks" /\ triggered_alerts # {} /\ pending_alerts'
  BY DEF refreshAlert, jsonVars, queueVars, inlineVars, dequeueVars
<1>2. OtherTypes'
  BY <1>1 DEF OtherTypes
<1>3. Predominant'
  BY <1>1 DEF Predominant, Score, PredominantScore
<1>4. Texts'
  BY <1>1 DEF Texts
<1>5. Newest'
  BY <1>1 DEF Newest
<1>6. Told'
  BY <1>1 DEF Told, Score
<1> QED BY <1>2, <1>3, <1>4, <1>5, <1>6

LEMMA FlushTells ==
  ASSUME Steps, OtherTypes, Predominant, Texts, Newest, Told, flushAlerts
  PROVE  OtherTypes' /\ Predominant' /\ Texts' /\ Newest' /\ Told'
<1>1. /\ UNCHANGED <<alerts_json, text, flowAlertsQueue, freed, refused, d_pc, d_alert,
                     d_json, last, triggered_alerts, predominant_alert, pending_alerts,
                     refresh_triggered_alerts>>
      /\ i_pc = "checks"
      /\ i_pc' = IF pending_alerts THEN "strdup" ELSE i_next
  BY DEF flushAlerts, alertVars, queueVars, Predominant
<1>2. i_next \notin {"checks"} \cup Flushing
  BY DEF Steps, Flushing
<1>3. d_updates' \in 0 .. 2 /\ alerts_json_shadow' \in Buffers \cup {NoBuffer}
  <2>1. d_updates \in 0 .. 2 /\ alerts_json_shadow \in Buffers \cup {NoBuffer}
    BY DEF OtherTypes
  <2>2. alerts_json \in Buffers \cup {NoBuffer}
    BY DEF Texts
  <2> QED BY <2>1, <2>2 DEF flushAlerts, CountUpdate
<1>4. OtherTypes'
  BY <1>1, <1>3 DEF OtherTypes
<1>5. Predominant'
  BY <1>1, <1>2 DEF Predominant, Score, PredominantScore, Flushing
<1>6. Texts'
  BY <1>1, <1>2 DEF Texts, Flushing
<1>7. Newest'
  BY <1>1, <1>2 DEF Newest, Latest, Flushing
<1>8. Told'
  BY <1>1 DEF Told, Score
<1> QED BY <1>4, <1>5, <1>6, <1>7, <1>8

\* The new text is complete, and overwrites at most one with less.
LEMMA UpdateTells ==
  ASSUME OtherTypes, Predominant, Texts, Told, updateAlertsJSON
  PROVE  OtherTypes' /\ Predominant' /\ Texts' /\ Newest' /\ Told'
<1>1. /\ UNCHANGED <<alerts_json_shadow, flowAlertsQueue, freed, d_pc, d_alert, d_json,
                     d_updates, last, triggered_alerts, predominant_alert,
                     pending_alerts, refresh_triggered_alerts>>
      /\ i_pc = "strdup" /\ i_pc' = "emit"
  BY DEF updateAlertsJSON, alertVars, queueVars, dequeueVars
<1>2. PICK f \in Buffers : /\ alerts_json' = f /\ f # NoBuffer
                           /\ text' = [text EXCEPT ![f] = triggered_alerts]
  BY FreeBufferExists DEF updateAlertsJSON
<1>3. /\ text' \in [Buffers -> SUBSET triggered_alerts] /\ text'[f] = triggered_alerts
      /\ \A b \in Buffers : text[b] \subseteq text'[b]
  BY <1>2 DEF Texts
<1>4. /\ \A k \in 1 .. Len(flowAlertsQueue) : flowAlertsQueue[k] \in triggered_alerts
      /\ d_pc = "copy" => d_alert \in triggered_alerts
  <2>1. CASE alerts_json = NoBuffer
    <3>1. flowAlertsQueue = <<>> /\ d_pc # "copy"
      BY <2>1 DEF Texts
    <3> QED BY <3>1
  <2>2. CASE alerts_json # NoBuffer
    BY <2>2 DEF Texts
  <2> QED BY <2>1, <2>2
<1>5. OtherTypes'
  BY <1>1 DEF OtherTypes
<1>6. Predominant'
  BY <1>1 DEF Predominant, Score, PredominantScore, Flushing
<1>7. Texts'
  BY <1>1, <1>2, <1>3, <1>4 DEF Texts
<1>8. Newest'
  BY <1>1 DEF Newest, Predominant, Flushing
<1>9. Told'
  BY <1>1 DEF Told, Score
<1> QED BY <1>5, <1>6, <1>7, <1>8, <1>9

\* The predominant alert becomes the newest, with a complete text,
LEMMA EnqueueTells ==
  ASSUME OtherTypes, Predominant, Texts, Told, enqueueFlowAlert
  PROVE  OtherTypes' /\ Predominant' /\ Texts' /\ Newest' /\ Told'
<1>1. /\ UNCHANGED <<alerts_json, alerts_json_shadow, text, freed, d_pc, d_alert, d_json,
                     d_updates, last, triggered_alerts, predominant_alert,
                     pending_alerts, refresh_triggered_alerts>>
      /\ i_pc = "emit" /\ i_pc' = "count" /\ pending_alerts
  BY DEF enqueueFlowAlert, alertVars, jsonVars, dequeueVars
<1>2. PICK p \in Alerts : /\ p = predominant_alert /\ p \in triggered_alerts
                          /\ flowAlertsQueue' = Append(flowAlertsQueue, p)
  BY <1>1, PredominantIsAlert DEF Predominant, enqueueFlowAlert, isFlowAlerted
<1>3. PICK n \in Nat :
        /\ n = Len(flowAlertsQueue) /\ Len(flowAlertsQueue') = n + 1 /\ n < QueueLen
        /\ flowAlertsQueue' \in Seq(Alerts) /\ flowAlertsQueue'[n + 1] = p
        /\ \A k \in 1 .. n : flowAlertsQueue'[k] = flowAlertsQueue[k]
        /\ flowAlertsQueue' # <<>>
  <2>1. flowAlertsQueue \in Seq(Alerts) /\ Len(flowAlertsQueue) < QueueLen
    BY DEF OtherTypes, enqueueFlowAlert
  <2> QED BY <1>2, <2>1
<1>4. OtherTypes'
  <2>1. Len(flowAlertsQueue') <= QueueLen
    BY <1>3, FlowAlertAssumption
  <2> QED BY <1>1, <1>3, <2>1 DEF OtherTypes
<1>5. Predominant'
  BY <1>1 DEF Predominant, Score, PredominantScore, Flushing
<1>6. Texts'
  <2>1. \A k \in 1 .. n + 1 : flowAlertsQueue'[k] \in text[alerts_json]
    BY <1>1, <1>2, <1>3 DEF Texts
  <2> QED BY <1>1, <1>3, <2>1 DEF Texts
<1>7. Newest'
  BY <1>1, <1>2, <1>3 DEF Newest, Latest, Texts
<1>8. Told'
  BY <1>1 DEF Told, Score
<1> QED BY <1>4, <1>5, <1>6, <1>7, <1>8

\* or it is refused, and the flush ends.
LEMMA FlushedTells ==
  ASSUME Steps, OtherTypes, Predominant, Texts, Newest, Told,
         enqueueFlowAlertFull \/ dontEmitFlowAlerts \/ incUses
  PROVE  OtherTypes' /\ Predominant' /\ Texts' /\ Newest' /\ Told'
<1>1. /\ UNCHANGED <<alerts_json, alerts_json_shadow, text, flowAlertsQueue, d_pc, d_alert,
                     d_json, d_updates, last, triggered_alerts, predominant_alert>>
      /\ i_pc' = i_next /\ ~pending_alerts' /\ ~refresh_triggered_alerts'
      /\ i_pc \in Flushing
  BY DEF enqueueFlowAlertFull, dontEmitFlowAlerts, incUses, Flushed, jsonVars,
         dequeueVars, Flushing
<1>2. refused' \/ (i_pc = "count" /\ UNCHANGED refused)
  BY DEF enqueueFlowAlertFull, dontEmitFlowAlerts, incUses
<1>3. i_next \notin {"checks"} \cup Flushing
  BY DEF Steps, Flushing
<1>4. freed' \subseteq Alerts
  <2>1. predominant_alert \in Alerts /\ freed \subseteq Alerts
    BY <1>1, PredominantIsAlert DEF Predominant, isFlowAlerted, OtherTypes
  <2> QED BY <2>1 DEF enqueueFlowAlertFull, dontEmitFlowAlerts, incUses
<1>5. OtherTypes'
  BY <1>1, <1>4 DEF OtherTypes
<1>6. Predominant'
  BY <1>1, <1>3 DEF Predominant, Score, PredominantScore
<1>7. Texts'
  BY <1>1, <1>3 DEF Texts, Flushing
<1>8. Newest'
  BY <1>1, <1>2 DEF Newest, Latest
<1>9. Told'
  BY <1>1 DEF Told, Score
<1> QED BY <1>5, <1>6, <1>7, <1>8, <1>9

\* The oldest alert is taken; it is the newest if it is the only one.
LEMMA TakeTells ==
  ASSUME OtherTypes, Predominant, Texts, Newest, Told, dequeueFlowAlerts
  PROVE  OtherTypes' /\ Predominant' /\ Texts' /\ Newest' /\ Told'
<1>1. /\ UNCHANGED <<alerts_json, alerts_json_shadow, text, freed, refused, i_pc, d_json,
                     d_updates, last, triggered_alerts, predominant_alert,
                     pending_alerts, refresh_triggered_alerts>>
      /\ d_pc' = "copy" /\ flowAlertsQueue # <<>>
      /\ d_alert' = Head(flowAlertsQueue) /\ flowAlertsQueue' = Tail(flowAlertsQueue)
  BY DEF dequeueFlowAlerts, alertVars, jsonVars, inlineVars
<1>2. PICK n \in Nat :
        /\ n + 1 = Len(flowAlertsQueue) /\ Len(flowAlertsQueue') = n
        /\ n + 1 <= QueueLen
        /\ flowAlertsQueue' \in Seq(Alerts)
        /\ d_alert' = flowAlertsQueue[1] /\ d_alert' \in Alerts
        /\ \A k \in 1 .. n : flowAlertsQueue'[k] = flowAlertsQueue[k + 1]
        /\ flowAlertsQueue' = <<>> <=> n = 0
  <2>1. flowAlertsQueue \in Seq(Alerts) /\ Len(flowAlertsQueue) <= QueueLen
    BY DEF OtherTypes
  <2>2. Len(flowAlertsQueue) \in Nat /\ Len(flowAlertsQueue) # 0
    BY <1>1, <2>1
  <2>3. PICK m \in Nat : m + 1 = Len(flowAlertsQueue)
    BY <2>2
  <2>4. /\ flowAlertsQueue' \in Seq(Alerts) /\ Len(flowAlertsQueue') = m
        /\ d_alert' = flowAlertsQueue[1] /\ d_alert' \in Alerts
        /\ \A k \in 1 .. m : flowAlertsQueue'[k] = flowAlertsQueue[k + 1]
    BY <1>1, <2>1, <2>3
  <2>5. flowAlertsQueue' = <<>> <=> m = 0
    BY <2>4
  <2> QED BY <2>1, <2>3, <2>4, <2>5
<1>3. OtherTypes'
  <2>1. n <= QueueLen
    BY <1>2, FlowAlertAssumption
  <2> QED BY <1>1, <1>2, <2>1 DEF OtherTypes
<1>4. Predominant'
  BY <1>1 DEF Predominant, Score, PredominantScore
<1>5. Texts'
  <2>1. \A k \in 1 .. n + 1 : flowAlertsQueue[k] \in text[alerts_json]
    BY <1>2 DEF Texts
  <2>2. \A k \in 1 .. n : flowAlertsQueue'[k] \in text[alerts_json]
    BY <1>2, <2>1
  <2>3. d_alert' \in text[alerts_json]
    BY <1>2, <2>1
  <2>4. alerts_json # NoBuffer
    BY <1>1 DEF Texts
  <2> QED BY <1>1, <1>2, <2>2, <2>3, <2>4 DEF Texts
<1>6. Newest'
  <2> SUFFICES ASSUME ~refused, ~(pending_alerts /\ i_pc # "count")
               PROVE  /\ n # 0 => Latest(flowAlertsQueue'[n], text[alerts_json])
                      /\ n = 0 => Latest(d_alert', text[alerts_json])
    BY <1>1, <1>2 DEF Newest, Latest
  <2>1. Latest(flowAlertsQueue[n + 1], text[alerts_json])
    BY <1>1, <1>2 DEF Newest
  <2>2. n # 0 => flowAlertsQueue'[n] = flowAlertsQueue[n + 1]
    BY <1>2
  <2>3. n = 0 => d_alert' = flowAlertsQueue[n + 1]
    BY <1>2
  <2> QED BY <2>1, <2>2, <2>3
<1>7. Told'
  BY <1>1 DEF Told, Score
<1> QED BY <1>3, <1>4, <1>5, <1>6, <1>7

LEMMA CopyTells ==
  ASSUME OtherTypes, Predominant, Texts, Newest, Told, alert2JSON
  PROVE  OtherTypes' /\ Predominant' /\ Texts' /\ Newest' /\ Told'
<1>1. /\ UNCHANGED <<alerts_json, alerts_json_shadow, text, freed, refused, i_pc, d_alert,
                     last, triggered_alerts, predominant_alert, pending_alerts,
                     refresh_triggered_alerts, flowAlertsQueue>>
      /\ d_pc = "copy" /\ d_pc' = "notify" /\ d_json' = alerts_json
      /\ d_updates' \in 0 .. 2
  BY DEF alert2JSON, alertVars, jsonVars, queueVars, inlineVars
<1>2. alerts_json \in Buffers
  BY <1>1 DEF Texts
<1>3. OtherTypes'
  BY <1>1, <1>2 DEF OtherTypes
<1>4. Predominant'
  BY <1>1 DEF Predominant, Score, PredominantScore
<1>5. Texts'
  BY <1>1, <1>2 DEF Texts
<1>6. Newest'
  BY <1>1 DEF Newest, Latest
<1>7. Told'
  BY <1>1 DEF Told, Score
<1> QED BY <1>3, <1>4, <1>5, <1>6, <1>7

\* The notification has a score at least that of its alert, which is one of the
\* flow, and its text lists the alert.
LEMMA NotifyTells ==
  ASSUME OtherTypes, Predominant, Texts, Newest, enqueueAlertToRecipients
  PROVE  OtherTypes' /\ Predominant' /\ Texts' /\ Newest' /\ Told'
<1>1. /\ UNCHANGED <<alerts_json, alerts_json_shadow, text, freed, refused, i_pc, d_alert,
                     triggered_alerts, predominant_alert, pending_alerts,
                     refresh_triggered_alerts, flowAlertsQueue>>
      /\ d_pc = "notify" /\ d_pc' = "release" /\ d_json' = NoBuffer /\ d_updates' = 0
  BY DEF enqueueAlertToRecipients, alertVars, jsonVars, queueVars, inlineVars
<1>2. last' = [alert |-> d_alert, score |-> PredominantScore, text |-> text[d_json]]
  BY DEF enqueueAlertToRecipients
<1>3. /\ d_alert \in text[d_json] /\ text[d_json] \subseteq triggered_alerts
      /\ triggered_alerts \subseteq Alerts
  BY <1>1 DEF Texts, Predominant
<1>4. PredominantScore \in Nat /\ Score(d_alert) <= PredominantScore
  BY <1>3, PredominantIsAlert DEF Predominant
<1>5. last' \in Notifications
  BY <1>2, <1>3, <1>4 DEF Notifications
<1>6. OtherTypes'
  BY <1>1, <1>5 DEF OtherTypes
<1>7. Predominant'
  BY <1>1 DEF Predominant, Score, PredominantScore
<1>8. Texts'
  BY <1>1 DEF Texts
<1>9. Newest'
  BY <1>1, <1>2 DEF Newest, Latest
<1>10. Told'
  <2>1. last'.alert = d_alert /\ last'.score = PredominantScore /\ last'.text = text[d_json]
    BY <1>2
  <2>2. Score(d_alert) \in Nat
    BY <1>3, ScoresAreNat
  <2> QED BY <1>3, <1>4, <2>1, <2>2 DEF Told, Score
<1> QED BY <1>6, <1>7, <1>8, <1>9, <1>10

LEMMA ReleaseTells ==
  ASSUME OtherTypes, Predominant, Texts, Newest, Told, decUses
  PROVE  OtherTypes' /\ Predominant' /\ Texts' /\ Newest' /\ Told'
<1>1. /\ UNCHANGED <<alerts_json, alerts_json_shadow, text, freed, refused, i_pc, d_json,
                     d_updates, last, triggered_alerts, predominant_alert,
                     pending_alerts, refresh_triggered_alerts, flowAlertsQueue>>
      /\ d_pc = "release" /\ d_pc' = "idle" /\ d_alert' = NoAlert
  BY DEF decUses, alertVars, jsonVars, inlineVars
<1>2. OtherTypes'
  BY <1>1 DEF OtherTypes
<1>3. Predominant'
  BY <1>1 DEF Predominant, Score, PredominantScore
<1>4. Texts'
  BY <1>1 DEF Texts
<1>5. Newest'
  BY <1>1 DEF Newest, Latest
<1>6. Told'
  BY <1>1 DEF Told, Score
<1> QED BY <1>2, <1>3, <1>4, <1>5, <1>6

LEMMA StepsInductive ==
  ASSUME Steps, DoneWhenPurged, [Next]_vars
  PROVE  Steps'
<1> USE DEF Steps, Flushing, flowVars, inlineVars, dequeueVars
<1>1. CASE Life
  BY <1>1, LifeFrame
<1>2. CASE decAllFlowScores \/ DeleteFlow
  BY <1>2 DEF decAllFlowScores, DeleteFlow
<1>3. CASE refreshAlert \/ flushAlerts \/ updateAlertsJSON
             \/ \E a \in Alerts : triggerAlert(a)
  BY <1>3 DEF refreshAlert, flushAlerts, updateAlertsJSON, triggerAlert
<1>4. CASE \/ enqueueFlowAlert \/ enqueueFlowAlertFull \/ dontEmitFlowAlerts \/ incUses
  BY <1>4 DEF enqueueFlowAlert, enqueueFlowAlertFull, dontEmitFlowAlerts, incUses
<1>5. CASE DequeueThread
  BY <1>5 DEF DequeueThread, dequeueFlowAlerts, alert2JSON, enqueueAlertToRecipients,
              decUses
<1>6. CASE UNCHANGED vars
  BY <1>6 DEF vars
<1> QED BY <1>1, <1>2, <1>3, <1>4, <1>5, <1>6 DEF Next, Inline, Life

LEMMA TellInductive == TellInv /\ [Next]_vars => TellInv'
<1> SUFFICES ASSUME TellInv, [Next]_vars
             PROVE  OtherTypes' /\ Predominant' /\ Texts' /\ Newest' /\ Told'
  BY UsesInductive, StepsInductive DEF TellInv, UsesInv
<1>1. UsesInv /\ Steps /\ OtherTypes /\ Predominant /\ Texts /\ Newest /\ Told
  BY DEF TellInv
<1>2. freed \subseteq Alerts
  BY <1>1 DEF OtherTypes
<1>3. CASE Life
  <2>1. /\ UNCHANGED <<alertVars, jsonVars, queueVars, dequeueVars>>
        /\ i_pc \in {"idle", "activate", "end"}
        /\ i_pc' \in {"idle", "checks", "activate", "end"}
    BY <1>1, <1>3, LifeFrame DEF UsesInv
  <2> QED BY <1>1, <1>2, <2>1, BetweenChecks DEF queueVars, dequeueVars, Flushing
<1>4. CASE decAllFlowScores
  BY <1>1, <1>2, <1>4, BetweenChecks
     DEF decAllFlowScores, queueVars, dequeueVars, Flushing
<1>5. CASE DeleteFlow
  <2>1. i_pc = "idle" /\ i_pc' = "idle"
    BY <1>1, <1>5 DEF DeleteFlow, inlineVars, UsesInv, DoneWhenPurged
  <2>2. freed' \subseteq Alerts
    BY <1>1, <1>2, <1>5 DEF DeleteFlow, Predominant
  <2> QED BY <1>1, <1>5, <2>1, <2>2, BetweenChecks DEF DeleteFlow, dequeueVars, Flushing
<1>6. ASSUME NEW a \in Alerts, triggerAlert(a)
      PROVE  OtherTypes' /\ Predominant' /\ Texts' /\ Newest' /\ Told'
  BY <1>1, <1>6, TriggerTells
<1>7. CASE refreshAlert
  BY <1>1, <1>7, RefreshTells
<1>8. CASE flushAlerts
  BY <1>1, <1>8, FlushTells
<1>9. CASE updateAlertsJSON
  BY <1>1, <1>9, UpdateTells
<1>10. CASE enqueueFlowAlert
  BY <1>1, <1>10, EnqueueTells
<1>11. CASE enqueueFlowAlertFull \/ dontEmitFlowAlerts \/ incUses
  BY <1>1, <1>11, FlushedTells
<1>12. CASE dequeueFlowAlerts
  BY <1>1, <1>12, TakeTells
<1>13. CASE alert2JSON
  BY <1>1, <1>13, CopyTells
<1>14. CASE enqueueAlertToRecipients
  BY <1>1, <1>14, NotifyTells
<1>15. CASE decUses
  BY <1>1, <1>15, ReleaseTells
<1>16. CASE UNCHANGED vars
  BY <1>1, <1>16 DEF vars, OtherTypes, Predominant, Texts, Newest, Told, Latest, Score,
     PredominantScore, Flushing, alertVars, jsonVars, queueVars, inlineVars, dequeueVars
<1> QED BY <1>3, <1>4, <1>5, <1>6, <1>7, <1>8, <1>9, <1>10, <1>11, <1>12, <1>13, <1>14,
           <1>15, <1>16 DEF Next, Inline, DequeueThread, Life

LEMMA TellInitially == Init => TellInv
<1> SUFFICES ASSUME Init PROVE TellInv
  OBVIOUS
<1>1. UsesInv
  BY InitEstablishes DEF IInv
<1>2. Steps
  BY DEF Init, Steps
<1>3. OtherTypes
  <2>1. <<>> \in Seq(Alerts) /\ Len(<<>>) = 0 /\ QueueLen \in Nat
    BY FlowAlertAssumption
  <2> QED BY <2>1 DEF Init, OtherTypes
<1>4. Predominant
  BY DEF Init, Predominant, Flushing
<1>5. Texts
  BY DEF Init, Texts
<1>6. Newest
  BY DEF Init, Newest, Latest, NoNotification
<1>7. Told
  BY DEF Init, Told, NoNotification
<1> QED BY <1>1, <1>2, <1>3, <1>4, <1>5, <1>6, <1>7 DEF TellInv

\* A notification never has a lower score than its alert, and its text lists the
\* alert, though score and text are those of a later moment; once nothing is under
\* way, and nothing was refused, the last one has the predominant alert and lists
\* all the alerts of the flow (flushAlerts, alert2JSON, enqueueAlertToRecipients).
THEOREM NotificationsTell == Spec => []LastNotificationTells
<1>1. TellInv => LastNotificationTells
  <2> SUFFICES ASSUME TellInv PROVE LastNotificationTells
    OBVIOUS
  <2>1. last.alert # NoAlert => /\ last.score >= Score(last.alert)
                                /\ last.alert \in last.text
    BY DEF TellInv, Told
  <2>2. ASSUME i_pc = "idle", Held = {}, ~refused
        PROVE  last.alert = predominant_alert /\ last.text = triggered_alerts
    <3>1. ~pending_alerts
      BY <2>2 DEF TellInv, Predominant, Flushing
    <3>2. d_pc \notin {"copy", "notify"}
      BY <2>2 DEF Held
    <3>3. flowAlertsQueue = <<>>
      <4>1. \A k \in DOMAIN flowAlertsQueue : FALSE
        BY <2>2 DEF Held
      <4>2. flowAlertsQueue \in Seq(Alerts)
        BY DEF TellInv, OtherTypes
      <4>3. DOMAIN flowAlertsQueue = 1 .. Len(flowAlertsQueue) /\ Len(flowAlertsQueue) \in Nat
        BY <4>2
      <4>4. Len(flowAlertsQueue) = 0
        BY <4>1, <4>3
      <4> QED BY <4>2, <4>4
    <3> QED BY <2>2, <3>1, <3>2, <3>3 DEF TellInv, Newest, Latest
  <2> QED BY <2>1, <2>2 DEF LastNotificationTells
<1>2. Spec => []TellInv
  BY TellInitially, TellInductive, PTL DEF Spec
<1> QED BY <1>1, <1>2, PTL
-----------------------------------------------------------------------------
(***************************************************************************)
(* The counters.                                                           *)
(***************************************************************************)

LEMMA CountIs ==
  ASSUME NEW f, NEW score, NEW n
  PROVE  /\ Count(f, score, n) =
              [g \in Groups |-> IF g = SeverityGroup(score) THEN f[g] + n ELSE f[g]]
         /\ \A g \in Groups : Count(f, score, n)[g] =
              IF g = SeverityGroup(score) THEN f[g] + n ELSE f[g]
BY DEF Count

LEMMA ZeroHasNoGroup == SeverityGroup(0) \notin Groups
BY DEF SeverityGroup, Groups

\* What is counted for a flow whose predominant alert has the given score.
CountOf(score) == [g \in Groups |-> IF SeverityGroup(score) = g THEN 1 ELSE 0]
NoCount == [g \in Groups |-> 0]

LEMMA Counting ==
  ASSUME NEW score
  PROVE  /\ Count(NoCount, score, 1) = CountOf(score)
         /\ Count(CountOf(score), score, -1) = NoCount
         /\ CountOf(0) = NoCount
<1>1. Count(NoCount, score, 1) = CountOf(score)
  BY CountIs DEF NoCount, CountOf
<1>2. Count(CountOf(score), score, -1) = NoCount
  BY CountIs DEF NoCount, CountOf
<1>3. CountOf(0) = NoCount
  BY ZeroHasNoGroup DEF NoCount, CountOf
<1> QED BY <1>1, <1>2, <1>3

\* While the flow is not purged, and when it is not alerted.
LEMMA CountersAre ==
  ASSUME Predominant, Counters
  PROVE  /\ ~Purged => num_active_alerted = CountOf(PredominantScore)
         /\ Purged \/ ~isFlowAlerted => num_active_alerted = NoCount
         /\ \A h \in Hosts : host_alerted[h] = IF Counted THEN 1 ELSE 0
<1>1. ~isFlowAlerted => PredominantScore = 0
  BY DEF isFlowAlerted, PredominantScore
<1>2. Counted => num_active_alerted = CountOf(PredominantScore)
  BY DEF Counters, CountOf
<1>3. ~Counted => num_active_alerted = NoCount
  BY DEF Counters, NoCount
<1>4. \A h \in Hosts : host_alerted[h] = IF Counted THEN 1 ELSE 0
  BY DEF Counters
<1> QED BY <1>1, <1>2, <1>3, <1>4, Counting DEF Counted

LEMMA TriggerCounts ==
  ASSUME Predominant, ~Purged, Counters, NEW a \in Alerts, triggerAlert(a)
  PROVE  Counters'
<1>1. UNCHANGED state /\ ~Purged'
  BY DEF triggerAlert, Purged
<1>2. IF ~isFlowAlerted \/ PredominantScore < Score(a)
      THEN setPredominantAlert(a)
      ELSE UNCHANGED <<predominant_alert, num_active_alerted>>
  BY DEF triggerAlert
<1>3. isFlowAlerted'
  BY <1>2, ScoresAreNat DEF setPredominantAlert, isFlowAlerted
<1>4. Counted'
  BY <1>1, <1>3 DEF Counted
<1>5. host_alerted' = [h \in Hosts |-> 1]
  <2>1. host_alerted' = IF isFlowAlerted THEN host_alerted
                        ELSE [h \in Hosts |-> host_alerted[h] + 1]
    BY DEF triggerAlert
  <2>2. CASE isFlowAlerted
    BY <2>1, <2>2 DEF Counters, Counted
  <2>3. CASE ~isFlowAlerted
    BY <2>1, <2>3, CountersAre DEF Counted
  <2> QED BY <2>2, <2>3
<1>6. num_active_alerted' = CountOf(PredominantScore')
  <2>1. CASE ~isFlowAlerted \/ PredominantScore < Score(a)
    <3>1. PredominantScore' = Score(a)
      BY <1>2, <2>1, ScoresAreNat DEF setPredominantAlert, PredominantScore, Score
    <3>2. PICK before : /\ before = IF PredominantScore = 0 THEN num_active_alerted
                                    ELSE Count(num_active_alerted, PredominantScore, -1)
                        /\ num_active_alerted' = Count(before, Score(a), 1)
      BY <1>2, <2>1 DEF setPredominantAlert
    <3>3. before = NoCount
      BY <3>2, CountersAre, Counting
    <3> QED BY <3>1, <3>2, <3>3, Counting
  <2>2. CASE ~(~isFlowAlerted \/ PredominantScore < Score(a))
    <3>1. predominant_alert' = predominant_alert /\ num_active_alerted' = num_active_alerted
      BY <1>2, <2>2
    <3>2. PredominantScore' = PredominantScore
      BY <3>1 DEF PredominantScore, Score
    <3> QED BY <3>1, <3>2, CountersAre
  <2> QED BY <2>1, <2>2
<1> QED BY <1>4, <1>5, <1>6 DEF Counters, CountOf

LEMMA DecCounts ==
  ASSUME Predominant, ~Purged, Counters, decAllFlowScores
  PROVE  Counters'
<1>1. Purged' /\ ~Counted'
  BY DEF decAllFlowScores, Purged, Counted
<1>2. CASE isFlowAlerted
  <2>1. /\ num_active_alerted' = Count(num_active_alerted, PredominantScore, -1)
        /\ host_alerted' = [h \in Hosts |-> host_alerted[h] - 1]
    BY <1>2 DEF decAllFlowScores
  <2>2. num_active_alerted' = NoCount
    BY <2>1, CountersAre, Counting
  <2>3. host_alerted' = [h \in Hosts |-> 0]
    BY <1>2, <2>1, CountersAre DEF Counted
  <2> QED BY <1>1, <2>2, <2>3 DEF Counters, NoCount
<1>3. CASE ~isFlowAlerted
  <2>1. UNCHANGED <<num_active_alerted, host_alerted>>
    BY <1>3 DEF decAllFlowScores
  <2>2. num_active_alerted' = NoCount
    BY <1>3, <2>1, CountersAre
  <2>3. host_alerted' = [h \in Hosts |-> 0]
    BY <1>3, <2>1 DEF Counters, Counted
  <2> QED BY <1>1, <2>2, <2>3 DEF Counters, NoCount
<1> QED BY <1>2, <1>3

LEMMA CountersSame ==
  ASSUME Counters, UNCHANGED <<host_alerted, num_active_alerted, predominant_alert>>,
         Purged' <=> Purged
  PROVE  Counters'
<1>1. Counted' <=> Counted
  BY DEF Counted, isFlowAlerted
<1>2. PredominantScore' = PredominantScore
  BY DEF PredominantScore, Score
<1> QED BY <1>1, <1>2 DEF Counters

LEMMA Ends ==
  ASSUME swapped \in BOOLEAN
  PROVE  /\ Client \in Hosts /\ Server \in Hosts /\ Client # Server
         /\ \A hr \in Hosts \X Roles :
              \/ hr = <<Client, "client">> \/ hr = <<Server, "server">>
              \/ hr = <<Client, "server">> \/ hr = <<Server, "client">>
BY DEF Client, Server, Hosts, Roles

\* The score of an alert goes to the flow and to the hosts it has now.
LEMMA TriggerScores ==
  ASSUME Predominant, ~Purged, Scores, swapped \in BOOLEAN, NEW a \in Alerts,
         triggerAlert(a)
  PROVE  Scores'
<1>1. PICK c \in Hosts, s \in Hosts : c = Client /\ s = Server /\ c # s
  BY Ends
<1>2. /\ UNCHANGED <<state, swapped, swap_alerted>>
      /\ cli_score' = cli_score + CliScore[a] /\ srv_score' = srv_score + SrvScore[a]
      /\ host_score' = [host_score EXCEPT ![<<c, "client">>] = @ + CliScore[a],
                                          ![<<s, "server">>] = @ + SrvScore[a]]
      /\ triggered_alerts' # {}
  BY <1>1 DEF triggerAlert
<1>3. Client' = c /\ Server' = s /\ ~Purged'
  BY <1>1, <1>2 DEF Client, Server, Purged
<1>4. CliScore[a] \in Nat /\ SrvScore[a] \in Nat
  BY FlowAlertAssumption
<1>5. /\ <<c, "client">> \in Hosts \X Roles /\ <<s, "server">> \in Hosts \X Roles
      /\ <<c, "server">> \in Hosts \X Roles /\ <<s, "client">> \in Hosts \X Roles
  BY DEF Roles
<1>6. /\ cli_score \in Nat /\ srv_score \in Nat /\ host_score \in [Hosts \X Roles -> Nat]
  BY DEF Scores
<1>7. /\ host_score'[<<c, "client">>] = host_score[<<c, "client">>] + CliScore[a]
      /\ host_score'[<<s, "server">>] = host_score[<<s, "server">>] + SrvScore[a]
      /\ host_score'[<<c, "server">>] = host_score[<<c, "server">>]
      /\ host_score'[<<s, "client">>] = host_score[<<s, "client">>]
  BY <1>1, <1>2, <1>5, <1>6
<1>8. host_score' \in [Hosts \X Roles -> Nat]
  BY <1>2, <1>4, <1>5, <1>6
<1>9. cli_score' \in Nat /\ srv_score' \in Nat
  BY <1>2, <1>4, <1>6
<1>10. ASSUME ~swap_alerted
       PROVE  /\ host_score'[<<c, "client">>] = cli_score'
              /\ host_score'[<<s, "server">>] = srv_score'
              /\ host_score'[<<c, "server">>] = 0 /\ host_score'[<<s, "client">>] = 0
  <2>1. /\ host_score[<<c, "client">>] = cli_score
        /\ host_score[<<s, "server">>] = srv_score
        /\ host_score[<<c, "server">>] = 0 /\ host_score[<<s, "client">>] = 0
    BY <1>1, <1>10 DEF Scores
  <2> QED BY <1>2, <1>7, <2>1
<1> QED BY <1>2, <1>3, <1>8, <1>9, <1>10 DEF Scores

\* A swap exchanges the scores of the flow, and those of the hosts stay: that is
\* right only as long as they are 0.
LEMMA SwapScores ==
  ASSUME ~Purged, ~Purged', Scores, swapped \in BOOLEAN, swap,
         UNCHANGED <<triggered_alerts, host_score>>
  PROVE  Scores'
<1>1. /\ cli_score' = srv_score /\ srv_score' = cli_score /\ swapped' \in BOOLEAN
  BY DEF swap
<1>2. CASE triggered_alerts # {}
  <2>1. swap_alerted'
    BY <1>2 DEF swap
  <2> QED BY <1>1, <1>2, <2>1 DEF Scores
<1>3. CASE triggered_alerts = {}
  <2>1. /\ cli_score' = 0 /\ srv_score' = 0
        /\ \A hr \in Hosts \X Roles : host_score'[hr] = 0
    BY <1>1, <1>3 DEF Scores
  <2>2. Client' \in Hosts /\ Server' \in Hosts
    BY DEF Client, Server, Hosts
  <2>3. /\ host_score'[<<Client', "client">>] = 0 /\ host_score'[<<Server', "server">>] = 0
        /\ host_score'[<<Client', "server">>] = 0 /\ host_score'[<<Server', "client">>] = 0
    BY <2>1, <2>2 DEF Roles
  <2> QED BY <1>1, <2>1, <2>3 DEF Scores
<1> QED BY <1>2, <1>3

\* All that was given is taken back.
LEMMA DecScores ==
  ASSUME ~Purged, Scores, swapped \in BOOLEAN, decAllFlowScores
  PROVE  Scores'
<1>1. PICK c \in Hosts, s \in Hosts : c = Client /\ s = Server /\ c # s
  BY Ends
<1>2. /\ UNCHANGED <<cli_score, srv_score, swap_alerted, triggered_alerts>>
      /\ host_score' = [host_score EXCEPT ![<<c, "client">>] = Dec(@, cli_score),
                                          ![<<s, "server">>] = Dec(@, srv_score)]
      /\ Purged'
  BY <1>1 DEF decAllFlowScores, alertVars, Purged
<1>3. /\ <<c, "client">> \in Hosts \X Roles /\ <<s, "server">> \in Hosts \X Roles
      /\ <<c, "server">> \in Hosts \X Roles /\ <<s, "client">> \in Hosts \X Roles
  BY DEF Roles
<1>4. /\ cli_score \in Nat /\ srv_score \in Nat /\ host_score \in [Hosts \X Roles -> Nat]
  BY DEF Scores
<1>5. /\ host_score'[<<c, "client">>] = Dec(host_score[<<c, "client">>], cli_score)
      /\ host_score'[<<s, "server">>] = Dec(host_score[<<s, "server">>], srv_score)
      /\ \A hr \in Hosts \X Roles : hr \notin {<<c, "client">>, <<s, "server">>} =>
           host_score'[hr] = host_score[hr]
  BY <1>1, <1>2, <1>3, <1>4
<1>6. \A m, n \in Nat : Dec(m, n) \in Nat /\ Dec(m, m) = 0 /\ Dec(0, n) = 0
  BY DEF Dec
<1>7. host_score' \in [Hosts \X Roles -> Nat]
  BY <1>2, <1>3, <1>4, <1>6
<1>8. ASSUME triggered_alerts = {}, NEW hr \in Hosts \X Roles PROVE host_score'[hr] = 0
  <2>1. \A x \in Hosts \X Roles : host_score[x] = 0
    BY <1>8 DEF Scores
  <2> QED BY <1>3, <1>4, <1>5, <1>6, <2>1
<1>9. ASSUME ~swap_alerted, NEW hr \in Hosts \X Roles PROVE host_score'[hr] = 0
  <2>1. /\ host_score[<<c, "client">>] = cli_score
        /\ host_score[<<s, "server">>] = srv_score
        /\ host_score[<<c, "server">>] = 0 /\ host_score[<<s, "client">>] = 0
    BY <1>1, <1>9 DEF Scores
  <2>2. \/ hr = <<c, "client">> \/ hr = <<s, "server">>
        \/ hr = <<c, "server">> \/ hr = <<s, "client">>
    BY <1>1, Ends
  <2> QED BY <1>1, <1>4, <1>5, <1>6, <2>1, <2>2
<1>10. triggered_alerts = {} => cli_score = 0 /\ srv_score = 0
  BY DEF Scores
<1> QED BY <1>2, <1>4, <1>7, <1>8, <1>9, <1>10 DEF Scores

LEMMA ScoresSame ==
  ASSUME Scores, Purged' <=> Purged,
         UNCHANGED <<host_score, cli_score, srv_score, swapped, swap_alerted,
                     triggered_alerts>>
  PROVE  Scores'
<1>1. Client' = Client /\ Server' = Server
  BY DEF Client, Server
<1> QED BY <1>1 DEF Scores

LEMMA FlagsInductive ==
  ASSUME Flags, [Next]_vars
  PROVE  Flags'
<1> USE DEF Flags, flowVars, alertVars, queueVars
<1>1. CASE \/ execFlowBeginChecks \/ set_hash_entry_state_active \/ callFlowUpdate
           \/ execFlowEndChecks \/ decAllFlowScores \/ DeleteFlow
  BY <1>1 DEF execFlowBeginChecks, set_hash_entry_state_active, callFlowUpdate,
              execFlowEndChecks, decAllFlowScores, DeleteFlow
<1>2. CASE request_swap
  BY <1>2 DEF request_swap
<1>3. ASSUME swap PROVE swap_requested' \in BOOLEAN /\ swapped' \in BOOLEAN
                        /\ swap_alerted' \in BOOLEAN
  BY <1>3 DEF swap
<1>4. CASE PacketSwap
  BY <1>3, <1>4 DEF PacketSwap
<1>5. CASE housekeepDetected
  BY <1>5 DEF housekeepDetected
<1>6. CASE flow_end_housekeeping
  <2>1. UNCHANGED <<pending_alerts, refresh_triggered_alerts, refused>>
    BY <1>6 DEF flow_end_housekeeping
  <2>2. CASE swap_requested
    <3>1. swap /\ postponed' = FALSE
      BY <1>6, <2>2 DEF flow_end_housekeeping
    <3> QED BY <1>3, <2>1, <3>1
  <2>3. CASE ~swap_requested
    <3>1. UNCHANGED <<swap_requested, swapped, swap_alerted, postponed>>
      BY <1>6, <2>3 DEF flow_end_housekeeping
    <3> QED BY <2>1, <3>1
  <2> QED BY <2>2, <2>3
<1>7. ASSUME NEW requested \in BOOLEAN, setDetectedProtocol(requested) PROVE Flags'
  <2>1. swap_requested' \in BOOLEAN
    BY <1>7 DEF setDetectedProtocol
  <2> QED BY <1>7, <2>1 DEF setDetectedProtocol
<1>8. CASE \E a \in Alerts : triggerAlert(a)
  BY <1>8 DEF triggerAlert
<1>9. CASE refreshAlert \/ flushAlerts \/ updateAlertsJSON \/ enqueueFlowAlert
  BY <1>9 DEF refreshAlert, flushAlerts, updateAlertsJSON, enqueueFlowAlert
<1>10. CASE enqueueFlowAlertFull \/ dontEmitFlowAlerts \/ incUses
  BY <1>10 DEF enqueueFlowAlertFull, dontEmitFlowAlerts, incUses, Flushed
<1>11. CASE DequeueThread
  BY <1>11 DEF DequeueThread, dequeueFlowAlerts, alert2JSON, enqueueAlertToRecipients,
               decUses
<1>12. CASE UNCHANGED vars
  BY <1>12 DEF vars
<1> QED BY <1>1, <1>2, <1>4, <1>5, <1>6, <1>7, <1>8, <1>9, <1>10, <1>11, <1>12
        DEF Next, Inline

LEMMA CountInductive == CountInv /\ [Next]_vars => CountInv'
<1> SUFFICES ASSUME CountInv, [Next]_vars PROVE Counters' /\ Scores'
  BY TellInductive, FlagsInductive DEF CountInv
<1>1. /\ Steps /\ DoneWhenPurged /\ Predominant /\ Counters /\ Scores
      /\ swapped \in BOOLEAN
  BY DEF CountInv, TellInv, UsesInv, Flags
<1>2. i_pc # "idle" => ~Purged
  BY <1>1 DEF DoneWhenPurged, Purged
<1>3. CASE Life
  <2>1. /\ UNCHANGED <<alertVars, counterVars>> /\ ~Purged /\ ~Purged'
        /\ \/ UNCHANGED <<swapped, cli_score, srv_score, swap_alerted>>
           \/ swap
    BY <1>1, <1>3, LifeFrame
  <2>2. UNCHANGED <<triggered_alerts, predominant_alert, host_score, host_alerted,
                    num_active_alerted>>
    BY <2>1 DEF alertVars, counterVars
  <2> QED BY <1>1, <2>1, <2>2, CountersSame, ScoresSame, SwapScores
<1>4. CASE decAllFlowScores
  <2>1. ~Purged
    BY <1>2, <1>4 DEF decAllFlowScores
  <2> QED BY <1>1, <1>4, <2>1, DecCounts, DecScores
<1>5. ASSUME NEW a \in Alerts, triggerAlert(a) PROVE Counters' /\ Scores'
  <2>1. ~Purged
    BY <1>2, <1>5 DEF triggerAlert
  <2> QED BY <1>1, <1>5, <2>1, TriggerCounts, TriggerScores
<1>6. ASSUME UNCHANGED <<triggered_alerts, predominant_alert, counterVars, cli_score,
                         srv_score, swapped, swap_alerted>>,
             Purged' <=> Purged
      PROVE  Counters' /\ Scores'
  BY <1>1, <1>6, CountersSame, ScoresSame DEF counterVars
<1>7. CASE DeleteFlow
  <2>1. Purged' <=> Purged
    BY <1>7 DEF DeleteFlow, Purged
  <2> QED BY <1>6, <1>7, <2>1 DEF DeleteFlow, alertVars
<1>8. CASE \/ refreshAlert \/ flushAlerts \/ updateAlertsJSON \/ enqueueFlowAlert
           \/ enqueueFlowAlertFull \/ dontEmitFlowAlerts \/ incUses \/ DequeueThread
           \/ UNCHANGED vars
  <2>1. UNCHANGED <<state, triggered_alerts, predominant_alert, counterVars, cli_score,
                    srv_score, swapped, swap_alerted>>
    BY <1>8 DEF refreshAlert, flushAlerts, updateAlertsJSON, enqueueFlowAlert,
       enqueueFlowAlertFull, dontEmitFlowAlerts, incUses, DequeueThread,
       dequeueFlowAlerts, alert2JSON, enqueueAlertToRecipients, decUses, vars, flowVars,
       alertVars
  <2> QED BY <1>6, <2>1 DEF Purged
<1> QED BY <1>3, <1>4, <1>5, <1>7, <1>8 DEF Next, Inline, Life

LEMMA CountInitially == Init => CountInv
<1> SUFFICES ASSUME Init PROVE CountInv
  OBVIOUS
<1>1. TellInv
  BY TellInitially
<1>2. Flags
  BY DEF Init, Flags
<1>3. Counters
  BY DEF Init, Counters, Counted, isFlowAlerted
<1>4. Scores
  <2>1. \A hr \in Hosts \X Roles : host_score[hr] = 0
    BY DEF Init
  <2>2. host_score \in [Hosts \X Roles -> Nat]
    BY DEF Init
  <2>3. Client = "a" /\ Server = "b" /\ ~Purged
    BY DEF Init, Client, Server, Purged
  <2>4. /\ host_score[<<Client, "client">>] = 0 /\ host_score[<<Server, "server">>] = 0
        /\ host_score[<<Client, "server">>] = 0 /\ host_score[<<Server, "client">>] = 0
    BY <2>1, <2>3 DEF Hosts, Roles
  <2>5. cli_score = 0 /\ srv_score = 0
    BY DEF Init
  <2> QED BY <2>1, <2>2, <2>3, <2>4, <2>5 DEF Scores
<1> QED BY <1>1, <1>2, <1>3, <1>4 DEF CountInv

LEMMA TypesHold ==
  ASSUME CountInv
  PROVE  TypeOK
<1>1. UsesInv /\ Steps /\ OtherTypes /\ Predominant /\ Texts /\ Flags /\ Counters /\ Scores
  BY DEF CountInv, TellInv
<1>2. {swap_requested, swapped, pending_alerts, refresh_triggered_alerts,
       refused, swap_alerted, postponed} \subseteq BOOLEAN
  BY <1>1, Zenon DEF Flags
<1>3. uses \in -1 .. QueueLen + 1
  <2>1. /\ Len(flowAlertsQueue) \in Nat /\ Len(flowAlertsQueue) <= QueueLen
        /\ QueueLen \in Nat
    BY <1>1, FlowAlertAssumption DEF OtherTypes
  <2> QED BY <1>1, <2>1 DEF UsesInv, UsesCounted
<1>4. host_alerted \in [Hosts -> 0 .. 1] /\ num_active_alerted \in [Groups -> 0 .. 1]
  BY <1>1 DEF Counters
<1>5. text \in [Buffers -> SUBSET Alerts]
  <2>1. /\ text \in [Buffers -> SUBSET triggered_alerts]
        /\ SUBSET triggered_alerts \subseteq SUBSET Alerts
    BY <1>1 DEF Texts, Predominant
  <2> QED BY <2>1
<1>6. {alerts_json, alerts_json_shadow} \subseteq Buffers \cup {NoBuffer}
  BY <1>1 DEF Texts, OtherTypes
<1>7. predominant_alert \in Alerts \cup {NoAlert}
  BY <1>1, PredominantIsAlert
<1> QED BY <1>1, <1>2, <1>3, <1>4, <1>5, <1>6, <1>7
        DEF TypeOK, Steps, Flushing, OtherTypes, Predominant, Scores

\* What the flow added to the counters of alerted flows and to the scores of its
\* hosts is what it has, and is all taken back when it is purged, whatever the
\* alerts and their scores; for the scores, unless the flow was swapped after an
\* alert (triggerAlert, setPredominantAlert, decAllFlowScores).
THEOREM FlowCountersBalanced == Spec => []CountersBalanced
<1>1. CountInv => CountersBalanced
  <2> SUFFICES ASSUME CountInv PROVE CountersBalanced
    OBVIOUS
  <2>1. TypeOK
    BY TypesHold
  <2>2. \A g \in Groups : num_active_alerted[g] = 1 <=>
          Counted /\ SeverityGroup(PredominantScore) = g
    BY DEF CountInv, Counters
  <2>3. \A h \in Hosts : host_alerted[h] = 1 <=> Counted
    BY DEF CountInv, Counters
  <2>4. ~swap_alerted /\ Purged => \A hr \in Hosts \X Roles : host_score[hr] = 0
    BY DEF CountInv, Scores
  <2> QED BY <2>1, <2>2, <2>3, <2>4 DEF CountersBalanced, Counted, Purged
<1>2. Spec => []CountInv
  BY CountInitially, CountInductive, PTL DEF Spec
<1> QED BY <1>1, <1>2, PTL
=============================================================================
