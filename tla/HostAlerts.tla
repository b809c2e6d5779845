----------------------------- MODULE HostAlerts -----------------------------
(***************************************************************************)
(* The alerts of a host: HostChecksExecutor.cpp, Host.cpp,                 *)
(* HostAlertableEntity.cpp and the alert queue of NetworkInterface.cpp.    *)
(*                                                                         *)
(* The inline thread runs the checks of the host.  A check that fires      *)
(* engages an alert, which stays engaged as long as the check keeps firing *)
(* and is released otherwise.  Both events are put in hostAlertsQueue as   *)
(* pairs of the alert and its released flag.  The dequeue thread notifies  *)
(* them to the recipients and deletes an alert with its release.           *)
(*                                                                         *)
(* The queue is the bounded FIFO that SPSCQueue implements.  Whether a     *)
(* check fires, or an alert has been engaged for too long, is a free       *)
(* choice.  So is the configuration (loaded checks, exclusions of alerts,  *)
(* the preference not to emit any), which other threads reload at any      *)
(* time: each time it is read, either answer is possible.  Every alert of  *)
(* the repository has the automatic release.  Memory does not run out: an  *)
(* alert that addEngagedAlert() could not record is left out.              *)
(***************************************************************************)
EXTENDS Integers, Sequences, FiniteSets

CONSTANTS Checks,
          Alerts,        \* the alert objects, each allocated at most once
          NoAlert,
          QueueLen,      \* MAX_HOST_CHECKS_QUEUE_LEN
          PrefsChange    \* dontEmitHostAlerts() may be set while ntopng runs

ASSUME AlertAssumption ==
         /\ IsFiniteSet(Checks) /\ IsFiniteSet(Alerts)
         /\ NoAlert \notin Alerts
         /\ QueueLen \in Nat /\ PrefsChange \in BOOLEAN

VARIABLES
  memory,                \* of each alert: not allocated, live, freed
  released, expiring, last_released,
  check,                 \* the alert's check
  engaged_alerts,        \* check -> its engaged alert
  num_engaged_alerts, score,
  hostAlertsQueue,
  uses,                  \* num_uses of the host
  host,                  \* active, idle, deleted
  i_pc, i_check,         \* the inline thread: its step, its check,
  i_alert, i_next,       \* the alert it releases, the step after the call
  d_pc, d_pair,          \* the dequeue thread: its step and its pair
  filter,                \* the host is in the filters of the packet capture
  notified,              \* alert -> what was notified of it (history)
  refused                \* some event was not queued (history)

alertVars == <<memory, released, expiring, last_released, check>>
hostVars == <<engaged_alerts, num_engaged_alerts, score>>
inlineVars == <<i_pc, i_check, i_alert, i_next>>
dequeueVars == <<d_pc, d_pair, filter, notified>>
vars == <<alertVars, hostVars, hostAlertsQueue, uses, host, inlineVars,
          dequeueVars, refused>>

Pairs == Alerts \X BOOLEAN
NoPair == <<NoAlert, FALSE>>

TypeOK ==
  /\ memory \in [Alerts -> {"none", "live", "freed"}]
  /\ released \in [Alerts -> BOOLEAN] /\ expiring \in [Alerts -> BOOLEAN]
  /\ last_released \in [Alerts -> BOOLEAN] /\ check \in [Alerts -> Checks]
  /\ engaged_alerts \in [Checks -> Alerts \cup {NoAlert}]
  /\ num_engaged_alerts \in 0 .. Cardinality(Checks)
  /\ score \in 0 .. Cardinality(Checks)
  /\ hostAlertsQueue \in Seq(Pairs) /\ Len(hostAlertsQueue) <= QueueLen
  /\ uses \in -1 .. QueueLen + 1
  /\ host \in {"active", "idle", "deleted"}
  /\ i_pc \in {"idle", "check", "verify", "remove", "count", "leaving"}
  /\ i_next \in {"idle", "verify", "leaving"}
  /\ i_check \in Checks /\ i_alert \in Alerts \cup {NoAlert}
  /\ d_pc \in {"idle", "notify", "release"} /\ d_pair \in Pairs \cup {NoPair}
  /\ filter \in BOOLEAN /\ refused \in BOOLEAN
  /\ notified \in [Alerts -> SUBSET {"engage", "release"}]

Init ==
  /\ memory = [a \in Alerts |-> "none"]
  /\ released = [a \in Alerts |-> FALSE] /\ expiring = [a \in Alerts |-> FALSE]
  /\ last_released = [a \in Alerts |-> FALSE]
  /\ i_check \in Checks /\ check = [a \in Alerts |-> i_check]
  /\ engaged_alerts = [c \in Checks |-> NoAlert]
  /\ num_engaged_alerts = 0 /\ score = 0
  /\ hostAlertsQueue = <<>> /\ uses = 0 /\ host = "active"
  /\ i_pc = "idle" /\ i_alert = NoAlert /\ i_next = "idle"
  /\ d_pc = "idle" /\ d_pair = NoPair /\ filter = FALSE
  /\ notified = [a \in Alerts |-> {}] /\ refused = FALSE
-----------------------------------------------------------------------------
(***************************************************************************)
(* The inline thread.                                                      *)
(***************************************************************************)

\* The tests of enqueueHostAlert(): there is room, and alerts are emitted.
CanQueue == Len(hostAlertsQueue) < QueueLen
CanRefuse == ~CanQueue \/ PrefsChange

Queue(a, rel) ==
  /\ CanQueue
  /\ hostAlertsQueue' = Append(hostAlertsQueue, <<a, rel>>)
  /\ memory' = [memory EXCEPT ![a] = "live"]
  /\ i_pc' = "count"
  /\ UNCHANGED refused

Refuse(a, how, next) ==
  /\ CanRefuse
  /\ memory' = [memory EXCEPT ![a] = how]
  /\ i_pc' = next
  /\ refused' = TRUE
  /\ UNCHANGED hostAlertsQueue

\* Mutant of enqueueHostAlert: the alert that cannot be queued is kept.
enqueueHostAlertKept(a, rel, next) ==
  /\ i_next' = next
  /\ Queue(a, rel) \/ Refuse(a, "live", next)

\* Mutant of enqueueHostAlert: the alert that cannot be queued is deleted even
\* if it is engaged.
enqueueHostAlertDeleted(a, rel, next) ==
  /\ i_next' = next
  /\ Queue(a, rel) \/ Refuse(a, "freed", next)

\* enqueueHostAlert(): an alert that cannot be queued is deleted if released.
\* The use of the host is counted in a step of its own; next is the step after.
enqueueHostAlert(a, rel, next) ==
  /\ i_next' = next
  /\ Queue(a, rel) \/ Refuse(a, IF rel THEN "freed" ELSE "live", next)

incUses ==
  /\ i_pc = "count"
  /\ uses' = uses + 1
  /\ i_pc' = i_next
  /\ UNCHANGED <<alertVars, hostVars, hostAlertsQueue, host, i_check,
                 i_alert, i_next, dequeueVars, refused>>

\* releaseAlert(), up to the flag of the alert.
releaseAlert(a, next) ==
  /\ released' = [released EXCEPT ![a] = TRUE]
  /\ i_alert' = a /\ i_next' = next /\ i_pc' = "remove"

\* Mutant of removeEngagedAlert: the count is read before it is decreased.
removeEngagedAlertEarly ==
  /\ i_pc = "remove"
  /\ engaged_alerts' = [engaged_alerts EXCEPT ![check[i_alert]] = NoAlert]
  /\ num_engaged_alerts' = num_engaged_alerts - 1
  /\ score' = score - 1
  /\ last_released' =
       [last_released EXCEPT ![i_alert] = num_engaged_alerts = 0]
  /\ enqueueHostAlert(i_alert, TRUE, i_next)
  /\ i_alert' = NoAlert
  /\ UNCHANGED <<released, expiring, check, uses, host, i_check,
                 dequeueVars>>

\* Mutant of removeEngagedAlert: the score is kept if the queue is full.
removeEngagedAlertScore ==
  /\ i_pc = "remove"
  /\ engaged_alerts' = [engaged_alerts EXCEPT ![check[i_alert]] = NoAlert]
  /\ num_engaged_alerts' = num_engaged_alerts - 1
  /\ score' = IF CanQueue THEN score - 1 ELSE score
  /\ last_released' =
       [last_released EXCEPT ![i_alert] = num_engaged_alerts' = 0]
  /\ enqueueHostAlert(i_alert, TRUE, i_next)
  /\ i_alert' = NoAlert
  /\ UNCHANGED <<released, expiring, check, uses, host, i_check,
                 dequeueVars>>

\* Its rest: the alert is no longer engaged, and the release is queued.
removeEngagedAlert ==
  /\ i_pc = "remove"
  /\ engaged_alerts' = [engaged_alerts EXCEPT ![check[i_alert]] = NoAlert]
  /\ num_engaged_alerts' = num_engaged_alerts - 1
  /\ score' = score - 1
  /\ last_released' =
       [last_released EXCEPT ![i_alert] = num_engaged_alerts' = 0]
  /\ enqueueHostAlert(i_alert, TRUE, i_next)
  /\ i_alert' = NoAlert
  /\ UNCHANGED <<released, expiring, check, uses, host, i_check,
                 dequeueVars>>

\* releaseAllDisabledAlerts(): the alert of a check that is no longer loaded, or
\* one engaged for too long, a choice of the clock, is released.
ReleaseDisabled(c) ==
  /\ i_pc = "idle" /\ host = "active" /\ engaged_alerts[c] # NoAlert
  /\ releaseAlert(engaged_alerts[c], "idle")
  /\ UNCHANGED <<memory, expiring, last_released, check, hostVars,
                 hostAlertsQueue, uses, host, i_check, dequeueVars,
                 refused>>

\* execChecks(), for one check: its engaged alert expires unless the check
\* refreshes it.
ExecCheck(c) ==
  /\ i_pc = "idle" /\ host = "active"
  /\ i_check' = c /\ i_pc' = "check"
  /\ expiring' = IF engaged_alerts[c] = NoAlert THEN expiring
                 ELSE [expiring EXCEPT ![engaged_alerts[c]] = TRUE]
  /\ UNCHANGED <<memory, released, last_released, check, hostVars,
                 hostAlertsQueue, uses, host, i_alert, i_next,
                 dequeueVars, refused>>

\* periodicUpdate() of a check that does not fire, or whose alerts are disabled:
\* a new alert would be deleted at once, the engaged one keeps expiring.
NotTriggered ==
  /\ i_pc = "check"
  /\ i_pc' = "verify"
  /\ UNCHANGED <<alertVars, hostVars, hostAlertsQueue, uses, host, i_check,
                 i_alert, i_next, dequeueVars, refused>>

\* The check fires: triggerAlert() refreshes its engaged alert,
Refresh ==
  /\ i_pc = "check"
  /\ engaged_alerts[i_check] # NoAlert
  /\ expiring' = [expiring EXCEPT ![engaged_alerts[i_check]] = FALSE]
  /\ i_pc' = "verify"
  /\ UNCHANGED <<memory, released, last_released, check, hostVars,
                 hostAlertsQueue, uses, host, i_check, i_alert, i_next,
                 dequeueVars, refused>>

\* or engages a new one.
Engage(a) ==
  /\ i_pc = "check"
  /\ engaged_alerts[i_check] = NoAlert /\ memory[a] = "none"
  /\ check' = [check EXCEPT ![a] = i_check]
  /\ engaged_alerts' = [engaged_alerts EXCEPT ![i_check] = a]
  /\ num_engaged_alerts' = num_engaged_alerts + 1
  /\ score' = score + 1
  /\ enqueueHostAlert(a, FALSE, "verify")
  /\ UNCHANGED <<released, expiring, last_released, uses, host, i_check,
                 i_alert, dequeueVars>>

\* execChecks() releases the alert that was not refreshed, or is disabled.
Verify(disabled) ==
  /\ i_pc = "verify"
  /\ LET a == engaged_alerts[i_check]
     IN IF a # NoAlert /\ (expiring[a] \/ disabled)
          THEN releaseAlert(a, "idle")
          ELSE i_pc' = "idle" /\ UNCHANGED <<released, i_alert, i_next>>
  /\ UNCHANGED <<memory, expiring, last_released, check, hostVars,
                 hostAlertsQueue, uses, host, i_check, dequeueVars,
                 refused>>

\* The host expires, or ntopng stops: it becomes idle and housekeep() releases
\* all its alerts.
SetIdle ==
  /\ i_pc = "idle" /\ host = "active"
  /\ host' = "idle" /\ i_pc' = "leaving"
  /\ UNCHANGED <<alertVars, hostVars, hostAlertsQueue, uses, i_check,
                 i_alert, i_next, dequeueVars, refused>>

releaseAllEngagedAlerts(c) ==
  /\ i_pc = "leaving" /\ engaged_alerts[c] # NoAlert
  /\ releaseAlert(engaged_alerts[c], "leaving")
  /\ UNCHANGED <<memory, expiring, last_released, check, hostVars,
                 hostAlertsQueue, uses, host, i_check, dequeueVars,
                 refused>>

\* Mutant of DeleteHost: the uses are not looked at.
DeleteHostInUse ==
  /\ i_pc = "leaving"
  /\ \A c \in Checks : engaged_alerts[c] = NoAlert
  /\ host' = "deleted" /\ i_pc' = "idle"
  /\ UNCHANGED <<alertVars, hostVars, hostAlertsQueue, uses, i_check,
                 i_alert, i_next, dequeueVars, refused>>

\* purgeQueuedIdleEntries(), once all the alerts are released: clearEngagedAlerts()
\* in the destructor finds none.
DeleteHost ==
  /\ i_pc = "leaving" /\ uses = 0
  /\ \A c \in Checks : engaged_alerts[c] = NoAlert
  /\ host' = "deleted" /\ i_pc' = "idle"
  /\ UNCHANGED <<alertVars, hostVars, hostAlertsQueue, uses, i_check,
                 i_alert, i_next, dequeueVars, refused>>
-----------------------------------------------------------------------------
(***************************************************************************)
(* The dequeue thread.                                                     *)
(***************************************************************************)

Dequeue ==
  /\ d_pc = "idle" /\ hostAlertsQueue # <<>>
  /\ d_pair' = Head(hostAlertsQueue)
  /\ hostAlertsQueue' = Tail(hostAlertsQueue)
  /\ d_pc' = "notify"
  /\ UNCHANGED <<alertVars, hostVars, uses, host, inlineVars, filter,
                 notified, refused>>

\* Mutant of enqueueAlertToRecipients: it goes by the present flag of the alert.
enqueueAlertNowReleased ==
  /\ d_pc = "notify"
  /\ LET a == d_pair[1]
     IN /\ notified' = [notified EXCEPT
                          ![a] = @ \cup {IF released[a] THEN "release" ELSE "engage"}]
        /\ filter' = IF ~released[a] THEN TRUE ELSE filter /\ ~last_released[a]
        /\ memory' = IF released[a] THEN [memory EXCEPT ![a] = "freed"] ELSE memory
  /\ d_pc' = "release"
  /\ UNCHANGED <<released, expiring, last_released, check, hostVars,
                 hostAlertsQueue, uses, host, inlineVars, d_pair,
                 refused>>

\* enqueueAlertToRecipients(): the notification goes by the flag of the pair, the
\* filter by the flag the alert has now; a released alert is deleted.
enqueueAlertToRecipients ==
  /\ d_pc = "notify"
  /\ LET a == d_pair[1]
     IN /\ notified' = [notified EXCEPT
                          ![a] = @ \cup {IF d_pair[2] THEN "release" ELSE "engage"}]
        /\ filter' = IF ~released[a] THEN TRUE ELSE filter /\ ~last_released[a]
        /\ memory' = IF d_pair[2] THEN [memory EXCEPT ![a] = "freed"] ELSE memory
  /\ d_pc' = "release"
  /\ UNCHANGED <<released, expiring, last_released, check, hostVars,
                 hostAlertsQueue, uses, host, inlineVars, d_pair,
                 refused>>

\* Mutant of decUses: the host is released only with the alert.
decUsesOnRelease ==
  /\ d_pc = "release"
  /\ uses' = IF d_pair[2] THEN uses - 1 ELSE uses
  /\ d_pc' = "idle" /\ d_pair' = NoPair
  /\ UNCHANGED <<alertVars, hostVars, hostAlertsQueue, host, inlineVars,
                 filter, notified, refused>>

decUses ==
  /\ d_pc = "release"
  /\ uses' = uses - 1
  /\ d_pc' = "idle" /\ d_pair' = NoPair
  /\ UNCHANGED <<alertVars, hostVars, hostAlertsQueue, host, inlineVars,
                 filter, notified, refused>>
-----------------------------------------------------------------------------
Inline ==
  \/ incUses \/ removeEngagedAlert \/ NotTriggered \/ Refresh
  \/ \E disabled \in BOOLEAN : Verify(disabled)
  \/ DeleteHost
  \/ \E a \in Alerts : Engage(a)
  \/ \E c \in Checks : releaseAllEngagedAlerts(c)

DequeueThread == Dequeue \/ enqueueAlertToRecipients \/ decUses

Next ==
  \/ \E c \in Checks : ReleaseDisabled(c) \/ ExecCheck(c)
  \/ SetIdle \/ Inline \/ DequeueThread

Spec == Init /\ [][Next]_vars

\* Both threads go on with what they have begun.  Nothing makes a check run.
FairSpec == Spec /\ WF_vars(Inline) /\ WF_vars(DequeueThread)
-----------------------------------------------------------------------------
(***************************************************************************)
(* Properties.                                                             *)
(***************************************************************************)

Queued == {hostAlertsQueue[k] : k \in DOMAIN hostAlertsQueue}
Pending == Queued \cup (IF d_pc = "notify" THEN {d_pair} ELSE {})

\* No deleted alert is referred to.  An alert that a check has engaged, and will
\* refresh and release, exists and is that check's own.  So does the alert of an
\* event in the queue, if no event is refused: the engage event of an alert is
\* handled before its release deletes it.
AlertsAreLive ==
  /\ \A c \in Checks : LET a == engaged_alerts[c]
                       IN a # NoAlert => memory[a] = "live" /\ check[a] = c
  /\ ~refused => \A p \in Pending : memory[p[1]] = "live"

\* "Enqueue host alert to a queue for processing and later delivery": a queued
\* alert is there to be processed later, whatever becomes of other events.
QueuedIsLive == \A p \in Pending : memory[p[1]] = "live"

\* No alert is forgotten: one that was not deleted is engaged, or its release is
\* on the way, also when events are refused.
NoLeak ==
  \A a \in Alerts : memory[a] = "live" =>
    \/ \E c \in Checks : engaged_alerts[c] = a
    \/ <<a, TRUE>> \in Pending

\* The host outlives its events, though its use is counted after the enqueue.
HostOutlivesEvents == host = "deleted" => Pending = {} /\ d_pc = "idle"

\* num_engaged_alerts and the score always match the engaged alerts: whatever
\* made an alert engaged is undone when it is released, whichever way that is.
ScoreBalanced ==
  LET n == Cardinality({c \in Checks : engaged_alerts[c] # NoAlert})
  IN TypeOK /\ num_engaged_alerts = n /\ score = n

\* Once all the events are handled, and if none was refused, the host is in the
\* filters exactly when it has engaged alerts, although the dequeue thread goes
\* by the present flags of the alert and not by the event it handles.
FilterAgrees ==
  ~refused /\ Pending = {} /\ i_pc # "remove" =>
    filter = (num_engaged_alerts > 0)

\* The recipients learn of a release after the engagement of the same alert.
EngageBeforeRelease ==
  ~refused => \A a \in Alerts : "release" \in notified[a]
                                  => "engage" \in notified[a]

\* A host that became idle is deleted in the end: its alerts are all released
\* and the uses counted for their events are all given back.
IdleHostDeleted == host = "idle" ~> host = "deleted"
=============================================================================
