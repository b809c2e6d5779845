----------------------------- MODULE FlowAlerts -----------------------------
(***************************************************************************)
(* The alerts of a flow: FlowChecksExecutor.cpp, the checks and alerts     *)
(* part of Flow.cpp and the flow alert queue of NetworkInterface.cpp.      *)
(*                                                                         *)
(* The inline thread runs the checks of the flow when it begins, when its  *)
(* protocol is detected, periodically, and when it ends.  A check that     *)
(* fires adds an alert to the flow; the alert with the highest score is    *)
(* the predominant one.  After the checks, flushAlerts() rebuilds the JSON *)
(* text of all the alerts and queues the predominant one.  The dequeue     *)
(* thread makes a notification of it, with the score and the text the flow *)
(* has by then.  The alerts belong to the flow and are deleted with it.    *)
(*                                                                         *)
(* Meanwhile packets may show that client and server are the wrong way     *)
(* round: a swap is requested, and performed by the next packet or when    *)
(* the flow ends.                                                          *)
(*                                                                         *)
(* One flow of a live packet interface is followed, not one collected by a *)
(* view or read from a file.  The queue is the bounded FIFO that SPSCQueue *)
(* implements.  What a check decides, and what a packet shows, are free    *)
(* choices, as are the exclusions of alerts (an excluded alert is deleted  *)
(* at once, as if the check had not fired).  No check asks for the         *)
(* synchronous flush.  Memory does not run out: a text that cannot be      *)
(* built, for which updateAlertsJSON() keeps the old one, is left out.     *)
(***************************************************************************)
EXTENDS Integers, Sequences, FiniteSets

CONSTANTS Alerts,        \* the types of alerts that the checks can trigger
          NoAlert,       \* flow_alert_normal
          CliScore,      \* alert -> its score for the client,
          SrvScore,      \*   and for the server
          Buffers,       \* where strdup() can put a text
          NoBuffer,
          QueueLen,      \* MAX_FLOW_CHECKS_QUEUE_LEN
          SwapEnabled,   \* isFlowSwapHeuristicEnabled()
          PrefsChange    \* dontEmitFlowAlerts() may be set while ntopng runs

ASSUME FlowAlertAssumption ==
         /\ IsFiniteSet(Alerts) /\ NoAlert \notin Alerts
         /\ CliScore \in [Alerts -> Nat] /\ SrvScore \in [Alerts -> Nat]
         /\ IsFiniteSet(Buffers) /\ Cardinality(Buffers) = 3
         /\ NoBuffer \notin Buffers
         /\ QueueLen \in Nat
         /\ SwapEnabled \in BOOLEAN /\ PrefsChange \in BOOLEAN

VARIABLES
  state,                 \* the state of the flow in the hash table
  swap_requested,
  swapped,               \* the ends were exchanged: "b" is now the client
  triggered_alerts,      \* the alerts of the flow, as in alerts_map
  predominant_alert,
  pending_alerts, refresh_triggered_alerts,
  cli_score, srv_score,  \* the scores in the traffic stats of the flow
  host_score,            \* <<host, role>> -> the score this flow gave to it
  host_alerted,          \* host -> active_alerted_flows
  num_active_alerted,    \* severity group -> num_active_alerted_flows_...
  alerts_json, alerts_json_shadow,
  text,                  \* buffer -> the alerts that its text lists
  freed,                 \* the deleted alerts
  flowAlertsQueue,
  uses,                  \* num_uses of the flow
  i_pc, i_next,          \* the inline thread: its step, the one after a flush
  d_pc, d_alert, d_json, \* the dequeue thread: its step, alert and text,
  d_updates,             \* how many replacements of the text overlap its use
  last,                  \* the last notification (history)
  refused,               \* some notification was not queued (history)
  swap_alerted,          \* a swap found alerts on the flow (history)
  postponed              \* protocol detected checks wait for a swap (history)

flowVars == <<state, swap_requested, swapped, cli_score, srv_score,
              swap_alerted, postponed>>
alertVars == <<triggered_alerts, predominant_alert, pending_alerts,
               refresh_triggered_alerts>>
counterVars == <<host_score, host_alerted, num_active_alerted>>
jsonVars == <<alerts_json, alerts_json_shadow, text>>
queueVars == <<flowAlertsQueue, uses, freed, refused>>
inlineVars == <<i_pc, i_next>>
dequeueVars == <<d_pc, d_alert, d_json, d_updates, last>>
vars == <<flowVars, alertVars, counterVars, jsonVars, queueVars, inlineVars,
          dequeueVars>>

Hosts == {"a", "b"}
Roles == {"client", "server"}
Groups == {"notice", "warning", "error"}  \* those that have a counter

Score(a) == CliScore[a] + SrvScore[a]
PredominantScore ==
  IF predominant_alert = NoAlert THEN 0 ELSE Score(predominant_alert)
isFlowAlerted == predominant_alert # NoAlert

NoNotification == [alert |-> NoAlert, score |-> 0, text |-> {}]
Notifications == [alert : Alerts, score : Nat, text : SUBSET Alerts]

TypeOK ==
  /\ state \in {"new", "notyetdetected", "protocoldetected", "active", "idle",
                "purged", "deleted"}
  /\ triggered_alerts \subseteq Alerts /\ freed \subseteq Alerts
  /\ predominant_alert \in Alerts \cup {NoAlert}
  /\ {swap_requested, swapped, pending_alerts, refresh_triggered_alerts,
      refused, swap_alerted, postponed} \subseteq BOOLEAN
  /\ cli_score \in Nat /\ srv_score \in Nat
  /\ host_score \in [Hosts \X Roles -> Nat] /\ host_alerted \in [Hosts -> 0 .. 1]
  /\ num_active_alerted \in [Groups -> 0 .. 1]
  /\ {alerts_json, alerts_json_shadow} \subseteq Buffers \cup {NoBuffer}
  /\ text \in [Buffers -> SUBSET Alerts]
  /\ flowAlertsQueue \in Seq(Alerts) /\ Len(flowAlertsQueue) <= QueueLen
  /\ uses \in -1 .. QueueLen + 1
  /\ i_pc \in {"idle", "checks", "strdup", "emit", "count", "activate", "end",
               "dec"}
  /\ i_next \in {"idle", "activate", "end", "dec"}
  /\ d_pc \in {"idle", "copy", "notify", "release"}
  /\ d_alert \in Alerts \cup {NoAlert} /\ d_json \in Buffers \cup {NoBuffer}
  /\ d_updates \in 0 .. 2
  /\ last \in Notifications \cup {NoNotification}

Init ==
  /\ state = "new" /\ swap_requested = FALSE /\ swapped = FALSE
  /\ triggered_alerts = {} /\ predominant_alert = NoAlert
  /\ pending_alerts = FALSE /\ refresh_triggered_alerts = FALSE
  /\ cli_score = 0 /\ srv_score = 0
  /\ host_score = [hr \in Hosts \X Roles |-> 0]
  /\ host_alerted = [h \in Hosts |-> 0]
  /\ num_active_alerted = [g \in Groups |-> 0]
  /\ alerts_json = NoBuffer /\ alerts_json_shadow = NoBuffer
  /\ text = [b \in Buffers |-> {}]
  /\ flowAlertsQueue = <<>> /\ uses = 0 /\ freed = {} /\ refused = FALSE
  /\ i_pc = "idle" /\ i_next = "idle"
  /\ d_pc = "idle" /\ d_alert = NoAlert /\ d_json = NoBuffer /\ d_updates = 0
  /\ last = NoNotification
  /\ swap_alerted = FALSE /\ postponed = FALSE
-----------------------------------------------------------------------------
(***************************************************************************)
(* Severities and counters.                                                *)
(***************************************************************************)

\* mapScoreToSeverity() and mapAlertLevelToGroup().
SeverityGroup(score) ==
  CASE score < 1   -> "none"
    [] score < 50  -> "notice"
    [] score < 100 -> "warning"
    [] score < 200 -> "error"
    [] score < 250 -> "critical"
    [] OTHER       -> "emergency"

\* incNumAlertedFlows() and decNumAlertedFlows(): the other groups have no
\* counter.
Count(counters, score, n) ==
  [g \in Groups |-> IF g = SeverityGroup(score) THEN counters[g] + n
                                                ELSE counters[g]]

Client == IF swapped THEN "b" ELSE "a"
Server == IF swapped THEN "a" ELSE "b"

\* Mutant of setPredominantAlert: the previous severity stays counted.
setPredominantAlertNoDec(a) ==
  /\ predominant_alert' = a
  /\ num_active_alerted' = Count(num_active_alerted, Score(a), 1)

setPredominantAlert(a) ==
  /\ predominant_alert' = a
  /\ num_active_alerted' =
       Count(IF PredominantScore = 0 THEN num_active_alerted
             ELSE Count(num_active_alerted, PredominantScore, -1),
             Score(a), 1)
-----------------------------------------------------------------------------
(***************************************************************************)
(* The inline thread: the checks.                                          *)
(***************************************************************************)

\* execChecks() of one kind of checks; next is the step after it.
execChecks(next) == i_pc' = "checks" /\ i_next' = next

\* Mutant of triggerAlert: only a new predominant alert is pending.
triggerAlertPredominant(a) ==
  /\ i_pc = "checks" /\ a \notin triggered_alerts
  /\ triggered_alerts' = triggered_alerts \cup {a}
  /\ cli_score' = cli_score + CliScore[a] /\ srv_score' = srv_score + SrvScore[a]
  /\ host_score' = [host_score EXCEPT ![<<Client, "client">>] = @ + CliScore[a],
                                      ![<<Server, "server">>] = @ + SrvScore[a]]
  /\ host_alerted' = IF isFlowAlerted THEN host_alerted
                     ELSE [h \in Hosts |-> host_alerted[h] + 1]
  /\ IF ~isFlowAlerted \/ PredominantScore < Score(a)
       THEN setPredominantAlert(a) /\ pending_alerts' = TRUE
       ELSE UNCHANGED <<predominant_alert, num_active_alerted, pending_alerts>>
  /\ UNCHANGED <<state, swap_requested, swapped, refresh_triggered_alerts,
                 jsonVars, queueVars, inlineVars, dequeueVars, swap_alerted,
                 postponed>>

\* A check calls triggerAlert(): setAlertsMap() keeps the first alert of each
\* type, and gives its scores to the flow and to the hosts.
triggerAlert(a) ==
  /\ i_pc = "checks" /\ a \notin triggered_alerts
  /\ triggered_alerts' = triggered_alerts \cup {a}
  /\ cli_score' = cli_score + CliScore[a] /\ srv_score' = srv_score + SrvScore[a]
  /\ host_score' = [host_score EXCEPT ![<<Client, "client">>] = @ + CliScore[a],
                                      ![<<Server, "server">>] = @ + SrvScore[a]]
  /\ host_alerted' = IF isFlowAlerted THEN host_alerted
                     ELSE [h \in Hosts |-> host_alerted[h] + 1]
  /\ IF ~isFlowAlerted \/ PredominantScore < Score(a)
       THEN setPredominantAlert(a)
       ELSE UNCHANGED <<predominant_alert, num_active_alerted>>
  /\ pending_alerts' = TRUE
  /\ UNCHANGED <<state, swap_requested, swapped, refresh_triggered_alerts,
                 jsonVars, queueVars, inlineVars, dequeueVars, swap_alerted,
                 postponed>>

\* CustomFlowLuaScript::runScripts() adds its text to the alert of an earlier script:
\* refreshAlert(), and then setPendingAlerts(), as it must be sent again.
refreshAlert ==
  /\ i_pc = "checks" /\ triggered_alerts # {}
  /\ refresh_triggered_alerts' = TRUE /\ pending_alerts' = TRUE
  /\ UNCHANGED <<flowVars, triggered_alerts, predominant_alert, counterVars,
                 jsonVars, queueVars, inlineVars, dequeueVars>>

\* One more replacement of the text overlaps its use by the dequeue thread.
CountUpdate ==
  d_updates' = IF d_pc = "notify" /\ d_updates < 2 THEN d_updates + 1
                                                   ELSE d_updates

\* Mutant of flushAlerts: the old text is freed at once.
flushAlertsNoShadow ==
  /\ i_pc = "checks"
  /\ IF ~pending_alerts /\ ~refresh_triggered_alerts
       THEN i_pc' = i_next /\ UNCHANGED <<alerts_json, d_updates>>
       ELSE i_pc' = "strdup" /\ alerts_json' = NoBuffer /\ CountUpdate
  /\ UNCHANGED <<flowVars, alertVars, counterVars, alerts_json_shadow, text,
                 queueVars, i_next, d_pc, d_alert, d_json, last>>

\* flushAlerts(), after the checks.  updateAlertsJSON() moves the old text to
\* the shadow, whose own text is freed,
flushAlerts ==
  /\ i_pc = "checks"
  /\ IF ~pending_alerts /\ ~refresh_triggered_alerts
       THEN i_pc' = i_next /\ UNCHANGED <<alerts_json_shadow, d_updates>>
       ELSE /\ i_pc' = "strdup" /\ CountUpdate
            /\ alerts_json_shadow' = IF alerts_json = NoBuffer
                                     THEN alerts_json_shadow ELSE alerts_json
  /\ UNCHANGED <<flowVars, alertVars, counterVars, alerts_json, text,
                 queueVars, i_next, d_pc, d_alert, d_json, last>>

\* With three buffers it is the one that the dequeue thread reads, if that was
\* freed; which of several is of no consequence.
FreeBuffer == CHOOSE b \in Buffers : b \notin {alerts_json, alerts_json_shadow}

\* and puts the new text in any free memory.
updateAlertsJSON ==
  /\ i_pc = "strdup"
  /\ alerts_json' = FreeBuffer
  /\ text' = [text EXCEPT ![FreeBuffer] = triggered_alerts]
  /\ i_pc' = "emit"
  /\ UNCHANGED <<flowVars, alertVars, counterVars, alerts_json_shadow,
                 queueVars, i_next, dequeueVars>>

Flushed == pending_alerts' = FALSE /\ refresh_triggered_alerts' = FALSE

\* enqueueFlowAlert() of the predominant alert.  The use of the flow is counted
\* in a step of its own.
enqueueFlowAlert ==
  /\ i_pc = "emit" /\ pending_alerts
  /\ Len(flowAlertsQueue) < QueueLen
  /\ flowAlertsQueue' = Append(flowAlertsQueue, predominant_alert)
  /\ i_pc' = "count"
  /\ UNCHANGED <<flowVars, alertVars, counterVars, jsonVars, uses, freed,
                 refused, i_next, dequeueVars>>

\* With a full queue it deletes the alert.
enqueueFlowAlertFull ==
  /\ i_pc = "emit" /\ pending_alerts
  /\ Len(flowAlertsQueue) >= QueueLen
  /\ freed' = freed \cup {predominant_alert}
  /\ refused' = TRUE
  /\ Flushed /\ i_pc' = i_next
  /\ UNCHANGED <<flowVars, triggered_alerts, predominant_alert, counterVars,
                 jsonVars, flowAlertsQueue, uses, i_next, dequeueVars>>

\* Nothing is queued if alerts are not to be emitted.
dontEmitFlowAlerts ==
  /\ i_pc = "emit" /\ pending_alerts /\ PrefsChange
  /\ refused' = TRUE
  /\ Flushed /\ i_pc' = i_next
  /\ UNCHANGED <<flowVars, triggered_alerts, predominant_alert, counterVars,
                 jsonVars, flowAlertsQueue, uses, freed, i_next, dequeueVars>>

incUses ==
  /\ i_pc = "count"
  /\ uses' = uses + 1
  /\ Flushed /\ i_pc' = i_next
  /\ UNCHANGED <<flowVars, triggered_alerts, predominant_alert, counterVars,
                 jsonVars, flowAlertsQueue, freed, refused, i_next,
                 dequeueVars>>
-----------------------------------------------------------------------------
(***************************************************************************)
(* The inline thread: the life of the flow.                                *)
(***************************************************************************)

\* The constructor runs the flow begin checks.
execFlowBeginChecks ==
  /\ i_pc = "idle" /\ state = "new"
  /\ state' = "notyetdetected" /\ execChecks("idle")
  /\ UNCHANGED <<swap_requested, swapped, cli_score, srv_score, swap_alerted,
                 postponed, alertVars, counterVars, jsonVars,
                 queueVars, dequeueVars>>

InTable == state \in {"notyetdetected", "protocoldetected", "active"}

\* A packet shows that the sender is not the client (check_swap(),
\* checkTCPDirection()).
request_swap ==
  /\ i_pc = "idle" /\ InTable /\ SwapEnabled
  /\ swap_requested' = TRUE
  /\ UNCHANGED <<state, swapped, cli_score, srv_score, swap_alerted, postponed,
                 alertVars, counterVars, jsonVars, queueVars, inlineVars,
                 dequeueVars>>

\* The protocol is detected: checkDirectionByProtocol() may request a swap, or
\* withdraw the one that is pending.
setDetectedProtocol(swap) ==
  /\ i_pc = "idle" /\ state = "notyetdetected"
  /\ state' = "protocoldetected"
  /\ swap_requested' = (SwapEnabled /\ swap)
  /\ UNCHANGED <<swapped, cli_score, srv_score, swap_alerted, postponed,
                 alertVars, counterVars, jsonVars, queueVars, inlineVars,
                 dequeueVars>>

\* swap(): the ends and their scores in the flow are exchanged.
swap ==
  /\ swapped' = ~swapped /\ swap_requested' = FALSE
  /\ cli_score' = srv_score /\ srv_score' = cli_score
  /\ swap_alerted' = (swap_alerted \/ triggered_alerts # {})

\* The next packet of the flow performs the swap (getFlow()).
PacketSwap ==
  /\ i_pc = "idle" /\ InTable /\ swap_requested
  /\ swap
  /\ UNCHANGED <<state, postponed, alertVars, counterVars, jsonVars,
                 queueVars, inlineVars, dequeueVars>>

\* purgeIdle() finds a flow whose protocol is detected: housekeep() runs the
\* checks, unless a swap is requested; then the flow becomes active.
housekeepDetected ==
  /\ i_pc = "idle" /\ state = "protocoldetected"
  /\ IF swap_requested
       THEN i_pc' = "activate" /\ postponed' = TRUE /\ UNCHANGED i_next
       ELSE execChecks("activate") /\ UNCHANGED postponed
  /\ UNCHANGED <<state, swap_requested, swapped, cli_score, srv_score,
                 swap_alerted, alertVars, counterVars, jsonVars, queueVars,
                 dequeueVars>>

set_hash_entry_state_active ==
  /\ i_pc = "activate"
  /\ state' = "active" /\ i_pc' = "idle"
  /\ UNCHANGED <<swap_requested, swapped, cli_score, srv_score, swap_alerted,
                 postponed, alertVars, counterVars, jsonVars,
                 queueVars, i_next, dequeueVars>>

\* A packet of an active flow runs the periodic checks, every five minutes.
callFlowUpdate ==
  /\ i_pc = "idle" /\ state = "active"
  /\ execChecks("idle")
  /\ UNCHANGED <<flowVars, alertVars, counterVars, jsonVars, queueVars,
                 dequeueVars>>

\* The flow becomes idle, at a shutdown also before its protocol is detected:
\* flow_end_housekeeping() performs a pending swap and runs the checks that
\* were postponed for it,
flow_end_housekeeping ==
  /\ i_pc = "idle" /\ state \in {"notyetdetected", "active"}
  /\ state' = "idle"
  /\ IF swap_requested
       THEN swap /\ execChecks("end") /\ postponed' = FALSE
       ELSE /\ i_pc' = "end"
            /\ UNCHANGED <<swap_requested, swapped, cli_score, srv_score,
                           swap_alerted, postponed, i_next>>
  /\ UNCHANGED <<alertVars, counterVars, jsonVars, queueVars,
                 dequeueVars>>

\* and the flow end checks.
execFlowEndChecks ==
  /\ i_pc = "end" /\ execChecks("dec")
  /\ UNCHANGED <<flowVars, alertVars, counterVars, jsonVars, queueVars,
                 dequeueVars>>

\* ScoreCounter::dec(): a score that would become negative is set to 0.
Dec(value, score) == IF value >= score THEN value - score ELSE 0

\* decAllFlowScores() takes back what the flow added to the counters; the flow
\* now waits for its deletion.
decAllFlowScores ==
  /\ i_pc = "dec"
  /\ host_score' = [host_score EXCEPT
                      ![<<Client, "client">>] = Dec(@, cli_score),
                      ![<<Server, "server">>] = Dec(@, srv_score)]
  /\ IF isFlowAlerted
       THEN /\ num_active_alerted' =
                  Count(num_active_alerted, PredominantScore, -1)
            /\ host_alerted' = [h \in Hosts |-> host_alerted[h] - 1]
       ELSE UNCHANGED <<num_active_alerted, host_alerted>>
  /\ state' = "purged" /\ i_pc' = "idle"
  /\ UNCHANGED <<swap_requested, swapped, cli_score, srv_score, swap_alerted,
                 postponed, alertVars, jsonVars, queueVars, i_next,
                 dequeueVars>>

\* Mutant of DeleteFlow: the uses are not looked at.
DeleteFlowInUse ==
  /\ state = "purged"
  /\ state' = "deleted" /\ freed' = freed \cup triggered_alerts
  /\ UNCHANGED <<swap_requested, swapped, cli_score, srv_score, swap_alerted,
                 postponed, alertVars, counterVars, jsonVars,
                 flowAlertsQueue, uses, refused, inlineVars, dequeueVars>>

\* purgeQueuedIdleEntries(): the destructor deletes the alerts.
DeleteFlow ==
  /\ state = "purged" /\ uses = 0
  /\ state' = "deleted" /\ freed' = freed \cup triggered_alerts
  /\ UNCHANGED <<swap_requested, swapped, cli_score, srv_score, swap_alerted,
                 postponed, alertVars, counterVars, jsonVars,
                 flowAlertsQueue, uses, refused, inlineVars, dequeueVars>>
-----------------------------------------------------------------------------
(***************************************************************************)
(* The dequeue thread.                                                     *)
(***************************************************************************)

dequeueFlowAlerts ==
  /\ d_pc = "idle" /\ flowAlertsQueue # <<>>
  /\ d_alert' = Head(flowAlertsQueue)
  /\ flowAlertsQueue' = Tail(flowAlertsQueue)
  /\ d_pc' = "copy"
  /\ UNCHANGED <<flowVars, alertVars, counterVars, jsonVars, uses, freed,
                 refused, inlineVars, d_json, d_updates, last>>

\* alert2JSON() copies the pointer to the text, as it may be moved meanwhile.
alert2JSON ==
  /\ d_pc = "copy"
  /\ d_json' = alerts_json
  /\ d_updates' = IF i_pc = "strdup" THEN 1 ELSE 0
  /\ d_pc' = "notify"
  /\ UNCHANGED <<flowVars, alertVars, counterVars, jsonVars, queueVars,
                 inlineVars, d_alert, last>>

\* The notification has the type of the alert that was queued, and the score
\* the flow has now.
enqueueAlertToRecipients ==
  /\ d_pc = "notify"
  /\ last' = [alert |-> d_alert, score |-> PredominantScore,
              text |-> text[d_json]]
  /\ d_json' = NoBuffer /\ d_updates' = 0
  /\ d_pc' = "release"
  /\ UNCHANGED <<flowVars, alertVars, counterVars, jsonVars, queueVars,
                 inlineVars, d_alert>>

decUses ==
  /\ d_pc = "release"
  /\ uses' = uses - 1
  /\ d_pc' = "idle" /\ d_alert' = NoAlert
  /\ UNCHANGED <<flowVars, alertVars, counterVars, jsonVars, flowAlertsQueue,
                 freed, refused, inlineVars, d_json, d_updates, last>>
-----------------------------------------------------------------------------
Inline ==
  \/ execFlowBeginChecks \/ request_swap \/ PacketSwap \/ housekeepDetected
  \/ set_hash_entry_state_active \/ callFlowUpdate \/ flow_end_housekeeping
  \/ execFlowEndChecks \/ decAllFlowScores \/ DeleteFlow
  \/ \E requested \in BOOLEAN : setDetectedProtocol(requested)
  \/ \E a \in Alerts : triggerAlert(a)
  \/ refreshAlert \/ flushAlerts \/ updateAlertsJSON \/ enqueueFlowAlert
  \/ enqueueFlowAlertFull \/ dontEmitFlowAlerts \/ incUses

DequeueThread ==
  dequeueFlowAlerts \/ alert2JSON \/ enqueueAlertToRecipients \/ decUses

Next == Inline \/ DequeueThread

Spec == Init /\ [][Next]_vars
-----------------------------------------------------------------------------
(***************************************************************************)
(* Properties.                                                             *)
(***************************************************************************)

Held == {flowAlertsQueue[k] : k \in DOMAIN flowAlertsQueue}
          \cup (IF d_pc \in {"copy", "notify"} THEN {d_alert} ELSE {})

\* The flow outlives its queued alerts, though its use is counted after the
\* enqueue: the uses are those of the alerts that are queued or being notified,
\* so that the flow is deleted after the last one, and not kept for ever.  As
\* long as none is refused, no deleted alert is queued.
FlowOutlivesAlerts ==
  /\ state = "deleted" => Held = {} /\ d_pc = "idle"
  /\ uses = Len(flowAlertsQueue) + (IF d_pc = "idle" THEN 0 ELSE 1)
                                 - (IF i_pc = "count" THEN 1 ELSE 0)
  /\ ~refused => Held \cap freed = {}

\* "Moving to shadow as it may be in use by alert2JSON() or lua()": the text being
\* read is still there, at whatever step of one replacement it was taken.
ShadowHolds ==
  d_pc = "notify" /\ d_updates < 2 =>
    d_json \in {alerts_json, alerts_json_shadow}

\* A notification never has a lower score than its alert, though the score is
\* that of a later moment, and its text lists the alert.  The last notification
\* tells all: when nothing more is under way, its alert is the predominant one
\* and its text lists all the alerts of the flow, unless some was not queued.
LastNotificationTells ==
  /\ last.alert # NoAlert => /\ last.score >= Score(last.alert)
                             /\ last.alert \in last.text
  /\ i_pc = "idle" /\ Held = {} /\ ~refused =>
       /\ last.alert = predominant_alert
       /\ last.text = triggered_alerts

\* What the flow added to the counters is what it has, and is all taken back
\* when it is purged: the alerted flows of the interface, by severity, and of the
\* two hosts, and the scores of the hosts.  For the scores this needs that the
\* flow was not swapped after an alert.
CountersBalanced ==
  LET counted == state \notin {"purged", "deleted"} /\ isFlowAlerted
  IN /\ TypeOK
     /\ \A g \in Groups : num_active_alerted[g] = 1 <=>
          counted /\ SeverityGroup(PredominantScore) = g
     /\ \A h \in Hosts : host_alerted[h] = 1 <=> counted
     /\ ~swap_alerted /\ state \in {"purged", "deleted"} =>
          \A hr \in Hosts \X Roles : host_score[hr] = 0

\* "Keep decements in sync with Host::incScoreValue": a flow that was purged
\* leaves no score behind, also if its ends were swapped after an alert.
ScoresInSync ==
  state \in {"purged", "deleted"} =>
    \A hr \in Hosts \X Roles : host_score[hr] = 0

\* num_active_alerted_flows_error "Counts all flow alerts with severity >= error".
ErrorsCounted ==
  InTable /\ SeverityGroup(PredominantScore) \in {"error", "critical", "emergency"}
    => num_active_alerted["error"] = 1

\* "The flow will be swapped, hook execution will occur on the swapped flow":
\* protocol detected checks that housekeep() postpones are run in the end.
PostponedChecksRun == state = "purged" => ~postponed
=============================================================================
