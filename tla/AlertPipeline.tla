--------------------------- MODULE AlertPipeline ---------------------------
(***************************************************************************)
(* From the alerts to their recipients: Recipients.cpp, RecipientQueue.cpp,*)
(* the passes of recipients.lua, and the test of Ntop.cpp whether the      *)
(* whole pipeline is drained.                                              *)
(*                                                                         *)
(* An alert of a flow or of a host goes through a queue of its interface   *)
(* to a dequeue thread, which offers it to all the recipients.  An alert   *)
(* of the data path goes through the internal queue to the Lua script that *)
(* delivers the notifications, which offers it to one recipient after the  *)
(* other.  Every recipient has a bounded queue.  A pass of the script      *)
(* empties the internal queue, then takes batches of notifications from    *)
(* the recipients and delivers them (to the database, by mail, ...).       *)
(* Recipients are registered and deleted from the user interface.  At the  *)
(* end of a capture file the main thread tests whether all is drained.     *)
(*                                                                         *)
(* The script may lose an alert of the data path that it has popped: it    *)
(* does not know its type, or fails while it handles it.  Recipients whose *)
(* endpoint module is not available are offered alerts and never served,   *)
(* and no pass does anything while alerts are switched off.                *)
(*                                                                         *)
(* All of Recipients.cpp runs under one mutex: each call is one step.  The *)
(* filters of a recipient, whether it is ready for export, whether a       *)
(* delivery succeeds and the preference are free choices.  The last pass,  *)
(* at shutdown, which ignores the export frequency, is left out.           *)
(***************************************************************************)
EXTENDS Integers, Sequences, FiniteSets, SequencesExt

CONSTANTS IfaceAlerts,     \* the alerts of flows and hosts
          InternalAlerts,  \* the alerts of the data path
          Recipients,
          Deletable,       \* the recipients the user may delete
          Served,          \* those whose endpoint module is available
          NoAlert,
          QueueSize,       \* ALERTS_NOTIFICATIONS_QUEUE_SIZE
          Budget           \* budget_per_iter: the batch of a recipient

Alerts == IfaceAlerts \cup InternalAlerts
NoRecipient == "none"

ASSUME PipelineAssumption ==
         /\ IsFiniteSet(Alerts) /\ IsFiniteSet(Recipients)
         /\ IfaceAlerts \cap InternalAlerts = {} /\ NoAlert \notin Alerts
         /\ Deletable \subseteq Recipients /\ Served \subseteq Recipients
         /\ NoRecipient \notin Recipients
         /\ QueueSize \in Nat \ {0} /\ Budget \in Nat \ {0}

VARIABLES
  raised,               \* the alerts raised so far
  ifaceQueue,           \* flowAlertsQueue and hostAlertsQueue
  internal_alerts_queue,
  d_alert,              \* what the dequeue thread holds
  recipient_queues, registered, dequeued,
  cached_recipients,    \* the recipients as the script has read them
  alerts_enabled,       \* the preference as the script has read it
  error_recent,         \* MIN_ERROR_DELAY is not over since the last failure
  p_pc,                 \* the pass: its step,
  p_alert,              \*   the alert of the data path it dispatches,
  p_todo,               \*   the recipients still to be looked at,
  ready_recipients,
  p_rec, p_batch,       \*   the recipient being served and its notifications
  t_pc,                 \* the test
  num_dropped_alerts,
  fate,                 \* alert -> recipient -> what became of it (history)
  lost                  \* the alerts that the script lost (history)

recipientVars == <<recipient_queues, registered, dequeued>>
scriptVars == <<cached_recipients, alerts_enabled, error_recent>>
passVars == <<scriptVars, p_pc, p_alert, p_todo, ready_recipients, p_rec, p_batch>>
sourceVars == <<raised, ifaceQueue, internal_alerts_queue>>
countVars == <<num_dropped_alerts, fate, lost>>
vars == <<sourceVars, d_alert, recipientVars, passVars, t_pc, countVars>>

TypeOK ==
  /\ raised \subseteq Alerts
  /\ ifaceQueue \in Seq(IfaceAlerts)
  /\ internal_alerts_queue \in Seq(InternalAlerts)
  /\ d_alert \in IfaceAlerts \cup {NoAlert}
  /\ \A r \in Recipients : /\ recipient_queues[r] \in Seq(Alerts)
                           /\ Len(recipient_queues[r]) <= QueueSize
                           /\ r \notin registered => recipient_queues[r] = <<>>
  /\ registered \subseteq Recipients /\ dequeued \in [Recipients -> BOOLEAN]
  /\ cached_recipients \subseteq Recipients
  /\ alerts_enabled \in BOOLEAN /\ error_recent \in BOOLEAN
  /\ p_pc \in {"end", "pop", "dispatch", "check", "serve"}
  /\ p_alert \in InternalAlerts \cup {NoAlert}
  /\ p_todo \subseteq Recipients /\ ready_recipients \subseteq Recipients
  /\ p_rec \in Recipients \cup {NoRecipient} /\ p_batch \in Seq(Alerts)
  /\ t_pc \in {"idle", "ifaces", "recipients", "drained"}
  /\ num_dropped_alerts \in Nat
  /\ fate \in [Alerts -> [Recipients -> {"none", "pending", "refused", "settled"}]]
  /\ lost \subseteq InternalAlerts

Init ==
  /\ raised = {} /\ ifaceQueue = <<>> /\ internal_alerts_queue = <<>>
  /\ d_alert = NoAlert
  /\ recipient_queues = [r \in Recipients |-> <<>>]
  /\ registered = Recipients /\ dequeued = [r \in Recipients |-> FALSE]
  /\ cached_recipients = Recipients
  /\ alerts_enabled = TRUE /\ error_recent = FALSE
  /\ p_pc = "end" /\ p_alert = NoAlert /\ p_todo = {} /\ ready_recipients = {}
  /\ p_rec = NoRecipient /\ p_batch = <<>>
  /\ t_pc = "idle" /\ num_dropped_alerts = 0
  /\ fate = [a \in Alerts |-> [r \in Recipients |-> "none"]] /\ lost = {}
-----------------------------------------------------------------------------
\* The checks and the data path raise alerts; their queues are long enough here.
Raise(a) ==
  /\ a \notin raised
  /\ raised' = raised \cup {a}
  /\ IF a \in IfaceAlerts
       THEN /\ ifaceQueue' = Append(ifaceQueue, a)
            /\ UNCHANGED internal_alerts_queue
       ELSE /\ internal_alerts_queue' = Append(internal_alerts_queue, a)
            /\ UNCHANGED ifaceQueue
  /\ UNCHANGED <<d_alert, recipientVars, passVars, t_pc, countVars>>
-----------------------------------------------------------------------------
(***************************************************************************)
(* Recipients.                                                             *)
(***************************************************************************)

canEnqueue(r) == Len(recipient_queues[r]) < QueueSize

\* RecipientQueue::enqueue() of a to each recipient of rs, where those of pass do
\* not filter it out: one whose queue is full refuses it.
Enqueued(a, rs, pass) ==
  /\ recipient_queues' = [r \in Recipients |->
       IF r \in rs \cap pass /\ canEnqueue(r) THEN Append(recipient_queues[r], a)
                                              ELSE recipient_queues[r]]
  /\ fate' = [fate EXCEPT ![a] = [r \in Recipients |->
       CASE r \notin rs      -> @[r]
         [] r \in rs \ pass  -> "settled"
         [] OTHER            -> IF canEnqueue(r) THEN "pending" ELSE "refused"]]

\* dequeueFlowAlerts() and dequeueHostAlerts() take an alert,
DequeueAlert ==
  /\ d_alert = NoAlert /\ ifaceQueue # <<>>
  /\ d_alert' = Head(ifaceQueue) /\ ifaceQueue' = Tail(ifaceQueue)
  /\ UNCHANGED <<raised, internal_alerts_queue, recipientVars, passVars, t_pc,
                 countVars>>

\* Mutant of enqueue: nothing is enqueued unless all the recipients have room.
enqueueAllOrNone(pass) ==
  /\ d_alert # NoAlert
  /\ d_alert' = NoAlert
  /\ IF \E r \in registered \cap pass : ~canEnqueue(r)
       THEN num_dropped_alerts' = num_dropped_alerts + 1
            /\ UNCHANGED <<recipient_queues, fate>>
       ELSE Enqueued(d_alert, registered, pass) /\ UNCHANGED num_dropped_alerts
  /\ UNCHANGED <<sourceVars, registered, dequeued, passVars, t_pc, lost>>

\* and offer it to all the recipients at once.  If one of them refuses it the
\* alert counts as dropped, although the others have their copy.
enqueue(pass) ==
  /\ d_alert # NoAlert
  /\ Enqueued(d_alert, registered, pass)
  /\ d_alert' = NoAlert
  /\ num_dropped_alerts' = IF \A r \in registered \cap pass : canEnqueue(r)
                           THEN num_dropped_alerts ELSE num_dropped_alerts + 1
  /\ UNCHANGED <<sourceVars, registered, dequeued, passVars, t_pc, lost>>

register_recipient(r) ==
  /\ r \notin registered
  /\ registered' = registered \cup {r}
  /\ UNCHANGED <<sourceVars, d_alert, recipient_queues, dequeued, passVars, t_pc,
                 countVars>>

\* The queue of the recipient goes with it; dequeued stays as it is.
delete_recipient(r) ==
  /\ r \in registered
  /\ registered' = registered \ {r}
  /\ recipient_queues' = [recipient_queues EXCEPT ![r] = <<>>]
  /\ fate' = [a \in Alerts |->
       IF a \in ToSet(recipient_queues[r]) THEN [fate[a] EXCEPT ![r] = "settled"]
                                           ELSE fate[a]]
  /\ UNCHANGED <<sourceVars, d_alert, dequeued, passVars, t_pc,
                 num_dropped_alerts, lost>>
-----------------------------------------------------------------------------
(***************************************************************************)
(* A pass of the script.                                                   *)
(***************************************************************************)

\* A run of the script makes up to twenty passes.  The first one, which has a new
\* virtual machine, reads the recipients and whether alerts are enabled.  Nothing is
\* done if they are not.  The last failure is forgotten once the delay is over; a new
\* virtual machine may forget it earlier.
BeginPass(reloaded, over) ==
  /\ p_pc = "end"
  /\ cached_recipients' = IF reloaded THEN registered ELSE cached_recipients
  /\ alerts_enabled' \in IF reloaded THEN BOOLEAN ELSE {alerts_enabled}
  /\ p_pc' = IF alerts_enabled' THEN "pop" ELSE "end"
  /\ error_recent' = (error_recent /\ ~over)
  /\ UNCHANGED <<sourceVars, d_alert, recipientVars, p_alert, p_todo,
                 ready_recipients, p_rec, p_batch, t_pc, countVars>>

\* ntop.recipient_enqueue(): a recipient that does not exist refuses the alert.
recipient_enqueue(r) ==
  /\ IF r \in registered THEN Enqueued(p_alert, {r}, {r})
     ELSE /\ fate' = [fate EXCEPT ![p_alert][r] = "refused"]
          /\ UNCHANGED recipient_queues
  /\ num_dropped_alerts' = IF r \in registered /\ canEnqueue(r)
                           THEN num_dropped_alerts ELSE num_dropped_alerts + 1

\* process_notifications_from_c_queue(), one alert (a pass takes up to a thousand),
PopInternal ==
  /\ p_pc = "pop" /\ internal_alerts_queue # <<>>
  /\ p_alert' = Head(internal_alerts_queue)
  /\ internal_alerts_queue' = Tail(internal_alerts_queue)
  /\ p_todo' = cached_recipients /\ p_pc' = "dispatch"
  /\ UNCHANGED <<raised, ifaceQueue, d_alert, recipientVars, scriptVars,
                 ready_recipients, p_rec, p_batch, t_pc, countVars>>

\* which it may lose: the type is unknown (the script stops with an error), there is
\* no entity, the notification cannot be encoded, or an error stops the script
\* between two recipients.  Nobody counts it.
LoseInternal(stops) ==
  /\ p_pc = "dispatch"
  /\ stops \/ p_todo = cached_recipients
  /\ lost' = lost \cup {p_alert}
  /\ p_pc' = IF stops THEN "end" ELSE "pop"
  /\ p_alert' = NoAlert /\ p_todo' = {}
  /\ UNCHANGED <<sourceVars, d_alert, recipientVars, scriptVars, ready_recipients,
                 p_rec, p_batch, t_pc, num_dropped_alerts, fate>>

\* or which is offered to one recipient after the other, as the script knows them:
\* one of them may be deleted by then.
dispatch_notification(r, passes) ==
  /\ p_pc = "dispatch" /\ r \in p_todo
  /\ IF passes THEN recipient_enqueue(r)
     ELSE Enqueued(p_alert, {r}, {}) /\ UNCHANGED num_dropped_alerts
  /\ p_todo' = p_todo \ {r}
  /\ UNCHANGED <<sourceVars, d_alert, registered, dequeued, scriptVars, p_pc,
                 p_alert, ready_recipients, p_rec, p_batch, t_pc, lost>>

Dispatched ==
  /\ p_pc = "dispatch" /\ p_todo = {}
  /\ p_pc' = "pop" /\ p_alert' = NoAlert
  /\ UNCHANGED <<sourceVars, d_alert, recipientVars, scriptVars, p_todo,
                 ready_recipients, p_rec, p_batch, t_pc, countVars>>

\* The recipients without an endpoint module are passed over.
PoppedAll ==
  /\ p_pc = "pop" /\ internal_alerts_queue = <<>>
  /\ p_pc' = "check" /\ p_todo' = cached_recipients \cap Served
  /\ UNCHANGED <<sourceVars, d_alert, recipientVars, scriptVars, p_alert,
                 ready_recipients, p_rec, p_batch, t_pc, countVars>>

\* Mutant of last_use: a recipient stays marked.
last_useMarked(r, ready) ==
  /\ p_pc = "check" /\ r \in p_todo
  /\ p_todo' = p_todo \ {r}
  /\ ready_recipients' = IF ready THEN ready_recipients \cup {r}
                                  ELSE ready_recipients
  /\ UNCHANGED <<sourceVars, d_alert, recipientVars, scriptVars, p_pc, p_alert,
                 p_rec, p_batch, t_pc, countVars>>

\* check_endpoint_export() of a recipient, which is ready or not: last_use() tells
\* that what was taken before has been processed.
last_use(r, ready) ==
  /\ p_pc = "check" /\ r \in p_todo
  /\ dequeued' = [dequeued EXCEPT ![r] = FALSE]
  /\ p_todo' = p_todo \ {r}
  /\ ready_recipients' = IF ready THEN ready_recipients \cup {r}
                                  ELSE ready_recipients
  /\ UNCHANGED <<sourceVars, d_alert, recipient_queues, registered, scriptVars,
                 p_pc, p_alert, p_rec, p_batch, t_pc, countVars>>

CheckedAll ==
  /\ p_pc = "check" /\ p_todo = {}
  /\ p_pc' = "serve"
  /\ UNCHANGED <<sourceVars, d_alert, recipientVars, scriptVars, p_alert, p_todo,
                 ready_recipients, p_rec, p_batch, t_pc, countVars>>

\* Nobody is served for a while after a failed delivery, whosever it was.
Take(r) ==
  /\ p_pc = "serve" /\ r \in ready_recipients /\ ~error_recent
  /\ p_rec \in {r, NoRecipient} /\ Len(p_batch) < Budget
  /\ recipient_queues[r] # <<>>
  /\ recipient_queues' = [recipient_queues EXCEPT ![r] = Tail(@)]
  /\ p_rec' = r /\ p_batch' = Append(p_batch, Head(recipient_queues[r]))
  /\ UNCHANGED <<sourceVars, d_alert, registered, scriptVars, p_pc, p_alert,
                 p_todo, ready_recipients, t_pc, countVars>>

\* Mutant of dequeue: the recipient is not marked.
dequeueUnmarked(r) == Take(r) /\ UNCHANGED dequeued

\* dequeue() for a recipient that is ready, up to the size of a batch.
dequeue(r) == Take(r) /\ dequeued' = [dequeued EXCEPT ![r] = TRUE]

\* dequeueRecipientAlerts() delivers the batch; one that fails is not sent again,
\* and ends the work for the recipient.
Deliver(success) ==
  /\ p_batch # <<>>
  /\ Len(p_batch) = Budget \/ recipient_queues[p_rec] = <<>>
  /\ fate' = [a \in Alerts |->
       IF a \in ToSet(p_batch) THEN [fate[a] EXCEPT ![p_rec] = "settled"]
                               ELSE fate[a]]
  /\ p_batch' = <<>> /\ p_rec' = NoRecipient
  /\ ready_recipients' = IF success THEN ready_recipients
                                    ELSE ready_recipients \ {p_rec}
  /\ error_recent' = ~success
  /\ UNCHANGED <<sourceVars, d_alert, recipientVars, cached_recipients,
                 alerts_enabled, p_pc, p_alert, p_todo, t_pc,
                 num_dropped_alerts, lost>>

\* The pass ends, when there is no more to take or its time is over.
EndPass ==
  /\ p_pc = "serve" /\ p_batch = <<>>
  /\ p_pc' = "end" /\ ready_recipients' = {}
  /\ UNCHANGED <<sourceVars, d_alert, recipientVars, scriptVars, p_alert, p_todo,
                 p_rec, p_batch, t_pc, countVars>>
-----------------------------------------------------------------------------
(***************************************************************************)
(* alerts_pipeline_drained(), tried once the capture is over, until it     *)
(* succeeds: the queues are read from the first to the last.               *)
(***************************************************************************)

\* Recipients::empty().
empty == \A r \in Recipients : ~dequeued[r] /\ recipient_queues[r] = <<>>

Test(from, drained, to) ==
  /\ t_pc = from
  /\ t_pc' = IF drained THEN to ELSE "idle"
  /\ UNCHANGED <<sourceVars, d_alert, recipientVars, passVars, countVars>>

TestInternal ==
  raised = Alerts /\ Test("idle", internal_alerts_queue = <<>>, "ifaces")

alertsQueuesDrained == Test("ifaces", ifaceQueue = <<>>, "recipients")
recipients_are_empty == Test("recipients", empty, "drained")
-----------------------------------------------------------------------------
DequeueThread == DequeueAlert \/ \E pass \in SUBSET registered : enqueue(pass)

Pass ==
  \/ PopInternal \/ Dispatched \/ PoppedAll \/ CheckedAll \/ EndPass
  \/ \E reloaded, over \in BOOLEAN : BeginPass(reloaded, over)
  \/ \E stops \in BOOLEAN : LoseInternal(stops)
  \/ \E r \in Recipients, passes \in BOOLEAN : dispatch_notification(r, passes)
  \/ \E r \in Recipients, ready \in BOOLEAN : last_use(r, ready)
  \/ \E r \in Recipients : dequeue(r)
  \/ \E success \in BOOLEAN : Deliver(success)

Drained == TestInternal \/ alertsQueuesDrained \/ recipients_are_empty

Next ==
  \/ \E a \in Alerts : Raise(a)
  \/ \E r \in Deletable : register_recipient(r) \/ delete_recipient(r)
  \/ DequeueThread \/ Pass \/ Drained

Spec == Init /\ [][Next]_vars

\* The threads and the periodic script keep running, and the main thread repeats
\* its test.  The script runs in a new virtual machine again and again, and, as there
\* are finitely many alerts and so failures, finds the delay after a failure over again
\* and again.  The clock makes every recipient that has an endpoint module ready again
\* and again, and then the time of a pass is not always over before it is served.
FairSpec ==
  /\ Spec /\ WF_vars(DequeueThread) /\ WF_vars(Pass) /\ WF_vars(Drained)
  /\ SF_vars(BeginPass(TRUE, TRUE))
  /\ \A r \in Served : SF_vars(last_use(r, TRUE)) /\ SF_vars(dequeue(r))
-----------------------------------------------------------------------------
(***************************************************************************)
(* Properties.                                                             *)
(***************************************************************************)

InHand == {d_alert, p_alert} \ {NoAlert}
Upstream == ToSet(ifaceQueue) \cup ToSet(internal_alerts_queue) \cup InHand
Pending(r) == recipient_queues[r] \o (IF p_rec = r THEN p_batch ELSE <<>>)
Copies(a, s) == Cardinality({i \in DOMAIN s : s[i] = a})

\* What becomes of an alert: unless the script lost it, an alert that has left the
\* queues of the interfaces and the internal queue was offered to every recipient that
\* is never deleted, also when another one refused it; a recipient has one copy of
\* what it still has to deliver; and every refusal is counted, once per alert by the
\* dequeue threads and once per recipient by the script (Recipients::enqueue, dequeue,
\* incNumDroppedAlerts).
OfferedOrLost ==
  /\ TypeOK
  /\ \A a \in raised \ (Upstream \cup lost), r \in Recipients \ Deletable :
       fate[a][r] # "none"
  /\ \A a \in Alerts, r \in Recipients :
       Copies(a, Pending(r)) = IF fate[a][r] = "pending" THEN 1 ELSE 0
  /\ num_dropped_alerts =
       Cardinality({a \in IfaceAlerts : "refused" \in Range(fate[a])})
       + Cardinality({ar \in InternalAlerts \X Recipients :
                        fate[ar[1]][ar[2]] = "refused"})

\* When alerts_pipeline_drained() says so, no recipient has anything left to
\* deliver, taken notifications included, and every alert has been offered or lost:
\* but for an alert that a thread has in its hands between two queues.
DrainedIsSettled ==
  [][t_pc # "drained" /\ t_pc' = "drained" =>
       \A a \in Alerts \ InHand, r \in Recipients :
         /\ fate[a][r] # "pending"
         /\ r \notin Deletable /\ a \notin lost => fate[a][r] # "none"]_vars

\* A recipient that was deleted while its notifications were being delivered, and
\* whose mark no pass will clear any more.
Orphan == \E r \in Recipients \ registered : dequeued[r]

\* A recipient whose queue no pass will look at.
Unserved == \E r \in Recipients \ Served : recipient_queues[r] # <<>>

\* After the end of the capture the test succeeds in the end, however slow or
\* unreliable the recipients are, unless alerts are switched off again and again, or
\* there always comes to be a recipient that was deleted in the middle of a pass or
\* that has alerts and no endpoint module.
EventuallyDrained ==
  <>[](alerts_enabled /\ ~Orphan /\ ~Unserved) =>
    (raised = Alerts ~> t_pc = "drained")

\* What the comment on alerts_pipeline_drained() says: "there is no alert pending
\* anywhere between the checks and the alert store" (Ntop.cpp).
NothingPending ==
  [][t_pc # "drained" /\ t_pc' = "drained" =>
       InHand = {} /\ \A r \in Recipients : Pending(r) = <<>>]_vars

\* The program "wait[s] until it's fully flushed" (checkShutdownWhenDone) and then
\* shuts down: at least while alerts are switched on and the recipients that have
\* alerts have their endpoint modules.
ShutdownWhenDone ==
  <>[](alerts_enabled /\ ~Unserved) => (raised = Alerts ~> t_pc = "drained")
=============================================================================
