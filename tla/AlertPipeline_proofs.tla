------------------------ MODULE AlertPipeline_proofs ------------------------
(***************************************************************************)
(* What becomes of an alert on its way to the recipients, and what the     *)
(* test of the drained pipeline means, for any number of alerts and        *)
(* recipients, sizes of the queues and budgets.                            *)
(*                                                                         *)
(* The inductive invariant follows an alert: it is in one place of the     *)
(* pipeline at a time, untouched by the recipients until it is offered to  *)
(* them, and offered to each of them once.                                 *)
(***************************************************************************)
EXTENDS AlertPipeline, FiniteSetTheorems, SequenceTheorems, TLAPS

In(a, s) == \E k \in 1 .. Len(s) : s[k] = a
NoDup(s) == \A k, l \in 1 .. Len(s) : s[k] = s[l] => k = l

Permanent == Recipients \ Deletable

\* The recipients that cannot be deleted are known to everybody.
Known ==
  /\ recipient_queues \in [Recipients -> Seq(Alerts)]
  /\ Permanent \subseteq registered /\ Permanent \subseteq cached_recipients

\* An alert waits in one place, in which it is once.
OnePlace ==
  /\ NoDup(ifaceQueue) /\ NoDup(internal_alerts_queue)
  /\ ~In(d_alert, ifaceQueue) /\ ~In(p_alert, internal_alerts_queue)
  /\ p_alert # NoAlert <=> p_pc = "dispatch"
  /\ \A a \in Alerts :
       (In(a, ifaceQueue) \/ In(a, internal_alerts_queue) \/ a \in {d_alert, p_alert})
         => a \in raised

\* An alert that waits was not offered to any recipient, the one that the script
\* dispatches not to those still to be looked at.
Untouched ==
  /\ \A a \in Alerts :
       (a \notin raised \/ In(a, ifaceQueue) \/ In(a, internal_alerts_queue)
          \/ a = d_alert)
         => \A r \in Recipients : fate[a][r] = "none"
  /\ p_pc = "dispatch" =>
       /\ \A r \in p_todo : fate[p_alert][r] = "none"
       /\ \A r \in Permanent \ p_todo : fate[p_alert][r] # "none"

\* An alert that waits no more was offered to them, unless the script lost it.
Offered ==
  \A a \in raised \ lost, r \in Permanent :
    \/ In(a, ifaceQueue) \/ In(a, internal_alerts_queue)
    \/ a \in {d_alert, p_alert} \/ fate[a][r] # "none"

\* A batch is marked at its recipient.
Batch ==
  IF p_batch = <<>> THEN p_rec = NoRecipient
  ELSE p_rec \in Recipients /\ p_pc = "serve" /\ dequeued[p_rec]

\* What is pending is in the queue or in the batch, once.
PendingOnce ==
  /\ NoDup(p_batch)
  /\ \A r \in Recipients :
       /\ NoDup(recipient_queues[r])
       /\ \A a \in Alerts :
            /\ ~(p_rec = r /\ In(a, recipient_queues[r]) /\ In(a, p_batch))
            /\ fate[a][r] = "pending" <=>
                 In(a, recipient_queues[r]) \/ (p_rec = r /\ In(a, p_batch))

RefusedIface == {a \in IfaceAlerts : "refused" \in Range(fate[a])}
RefusedInternal ==
  {ar \in InternalAlerts \X Recipients : fate[ar[1]][ar[2]] = "refused"}

Counted ==
  num_dropped_alerts = Cardinality(RefusedIface) + Cardinality(RefusedInternal)

\* What the test has seen stays so: no more alerts are raised.
Tested ==
  /\ t_pc # "idle" => raised = Alerts /\ internal_alerts_queue = <<>>
  /\ t_pc \in {"recipients", "drained"} => ifaceQueue = <<>>

IInv == /\ TypeOK /\ Known /\ OnePlace /\ Untouched /\ Offered /\ Batch
        /\ PendingOnce /\ Counted /\ Tested
-----------------------------------------------------------------------------
(***************************************************************************)
(* Queues.                                                                 *)
(***************************************************************************)

LEMMA InAppend ==
  ASSUME NEW S, NEW q \in Seq(S), NEW x \in S
  PROVE  /\ Append(q, x) \in Seq(S) /\ Append(q, x) # <<>>
         /\ \A y : In(y, Append(q, x)) <=> In(y, q) \/ y = x
         /\ NoDup(q) /\ ~In(x, q) => NoDup(Append(q, x))
<1> DEFINE r == Append(q, x)
<1>1. /\ Len(q) \in Nat /\ Len(r) = Len(q) + 1 /\ r \in Seq(S)
      /\ \A k \in 1 .. Len(q) : r[k] = q[k]
      /\ r[Len(q) + 1] = x
  OBVIOUS
<1>2. \A y : In(y, r) <=> In(y, q) \/ y = x
  BY <1>1 DEF In
<1>3. NoDup(q) /\ ~In(x, q) => NoDup(r)
  BY <1>1 DEF NoDup, In
<1>4. r # <<>>
  BY <1>1
<1> QED BY <1>1, <1>2, <1>3, <1>4

LEMMA InTail ==
  ASSUME NEW S, NEW q \in Seq(S), q # <<>>, NoDup(q)
  PROVE  /\ Head(q) \in S /\ Tail(q) \in Seq(S) /\ NoDup(Tail(q))
         /\ In(Head(q), q) /\ Len(Tail(q)) <= Len(q)
         /\ \A y : In(y, Tail(q)) <=> In(y, q) /\ y # Head(q)
<1> DEFINE r == Tail(q)
<1>1. /\ Len(q) \in Nat /\ Len(q) > 0 /\ Len(r) = Len(q) - 1
      /\ r \in Seq(S) /\ Head(q) = q[1] /\ q[1] \in S
      /\ \A k \in 1 .. Len(r) : r[k] = q[k + 1]
  OBVIOUS
<1>2. NoDup(r)
  <2> SUFFICES ASSUME NEW k \in 1 .. Len(r), NEW l \in 1 .. Len(r), r[k] = r[l]
               PROVE  k = l
    BY DEF NoDup
  <2>1. k + 1 \in 1 .. Len(q) /\ l + 1 \in 1 .. Len(q) /\ q[k + 1] = q[l + 1]
    BY <1>1
  <2> QED BY <2>1 DEF NoDup
<1>3. ASSUME NEW y, In(y, r)
      PROVE  In(y, q) /\ y # q[1]
  <2>1. PICK k \in 1 .. Len(r) : r[k] = y
    BY <1>3 DEF In
  <2>2. k + 1 \in 1 .. Len(q) /\ q[k + 1] = y /\ 1 \in 1 .. Len(q) /\ k + 1 # 1
    BY <1>1, <2>1
  <2> QED BY <2>2 DEF In, NoDup
<1>4. ASSUME NEW y, In(y, q), y # q[1]
      PROVE  In(y, r)
  <2>1. PICK k \in 1 .. Len(q) : q[k] = y
    BY <1>4 DEF In
  <2>2. k - 1 \in 1 .. Len(r) /\ r[k - 1] = q[k]
    BY <1>1, <1>4, <2>1
  <2> QED BY <2>1, <2>2 DEF In
<1>5. In(q[1], q)
  BY <1>1 DEF In
<1> QED BY <1>1, <1>2, <1>3, <1>4, <1>5

LEMMA InEmpty == NoDup(<<>>) /\ \A y : ~In(y, <<>>)
BY DEF In, NoDup

LEMMA InSet ==
  ASSUME NEW S, NEW q \in Seq(S)
  PROVE  /\ \A y : y \in ToSet(q) <=> In(y, q)
         /\ \A y : In(y, q) => y \in S
         /\ q = <<>> <=> \A y : ~In(y, q)
<1>1. /\ DOMAIN q = 1 .. Len(q) /\ Len(q) \in Nat
      /\ \A k \in 1 .. Len(q) : q[k] \in S
  OBVIOUS
<1>2. ASSUME q # <<>> PROVE In(q[1], q)
  <2>1. Len(q) > 0
    BY <1>1, <1>2
  <2> QED BY <1>1, <2>1 DEF In
<1> QED BY <1>1, <1>2, InEmpty DEF In, ToSet

\* What a queue and a batch hold, if they have nothing in common.
LEMMA InConcat ==
  ASSUME NEW S, NEW q \in Seq(S), NEW b \in Seq(S), NoDup(q), NoDup(b),
         \A x \in S : ~(In(x, q) /\ In(x, b))
  PROVE  /\ q \o b \in Seq(S) /\ NoDup(q \o b)
         /\ \A x : In(x, q \o b) <=> In(x, q) \/ In(x, b)
<1> DEFINE r == q \o b
<1>1. PICK m \in Nat, n \in Nat : m = Len(q) /\ n = Len(b)
  BY LenProperties
<1>2. /\ r \in Seq(S) /\ Len(r) = m + n
      /\ \A i \in 1 .. m : r[i] = q[i]
      /\ \A i \in m + 1 .. m + n : r[i] = b[i - m]
  BY <1>1, ConcatProperties
<1>3. \A i \in 1 .. n : r[i + m] = b[i]
  <2> SUFFICES ASSUME NEW i \in 1 .. n PROVE r[i + m] = b[i]
    OBVIOUS
  <2>1. i + m \in m + 1 .. m + n /\ (i + m) - m = i
    BY <1>1
  <2> QED BY <1>2, <2>1
<1>4. ASSUME NEW x PROVE In(x, r) <=> In(x, q) \/ In(x, b)
  <2>1. ASSUME NEW i \in 1 .. m + n, r[i] = x
        PROVE  In(x, q) \/ In(x, b)
    <3>1. CASE i <= m
      BY <1>1, <1>2, <2>1, <3>1 DEF In
    <3>2. CASE i > m
      <4>1. i - m \in 1 .. n /\ b[i - m] = x
        BY <1>1, <1>2, <2>1, <3>2
      <4> QED BY <1>1, <4>1 DEF In
    <3> QED BY <1>1, <3>1, <3>2
  <2>2. ASSUME NEW i \in 1 .. m, q[i] = x PROVE In(x, r)
    BY <1>1, <1>2, <2>2 DEF In
  <2>3. ASSUME NEW i \in 1 .. n, b[i] = x PROVE In(x, r)
    <3>1. i + m \in 1 .. m + n /\ r[i + m] = x
      BY <1>1, <1>3, <2>3
    <3> QED BY <1>2, <3>1 DEF In
  <2> QED BY <1>1, <1>2, <2>1, <2>2, <2>3 DEF In
<1>5. NoDup(r)
  <2> SUFFICES ASSUME NEW i \in 1 .. m + n, NEW j \in 1 .. m + n, r[i] = r[j], i < j
               PROVE  FALSE
    BY <1>1, <1>2 DEF NoDup
  <2>1. CASE j <= m
    <3>1. i \in 1 .. m /\ j \in 1 .. m /\ q[i] = q[j]
      BY <1>1, <1>2, <2>1
    <3> QED BY <1>1, <3>1 DEF NoDup
  <2>2. CASE i > m
    <3>1. i - m \in 1 .. n /\ j - m \in 1 .. n /\ b[i - m] = b[j - m]
      BY <1>1, <1>2, <2>2
    <3>2. i - m = j - m
      BY <1>1, <3>1 DEF NoDup
    <3> QED BY <1>1, <3>2
  <2>3. CASE i <= m /\ j > m
    <3>1. /\ i \in 1 .. m /\ j - m \in 1 .. n /\ q[i] = b[j - m]
      BY <1>1, <1>2, <2>3
    <3>2. q[i] \in S /\ In(q[i], q) /\ In(q[i], b)
      BY <1>1, <3>1, ElementOfSeq DEF In
    <3> QED BY <3>2
  <2> QED BY <1>1, <2>1, <2>2, <2>3
<1> QED BY <1>2, <1>4, <1>5

LEMMA CopiesAre ==
  ASSUME NEW S, NEW q \in Seq(S), NoDup(q), NEW x
  PROVE  Copies(x, q) = IF In(x, q) THEN 1 ELSE 0
<1> DEFINE I == {i \in DOMAIN q : q[i] = x}
<1>1. DOMAIN q = 1 .. Len(q)
  OBVIOUS
<1>2. CASE In(x, q)
  <2>1. PICK k \in 1 .. Len(q) : q[k] = x
    BY <1>2 DEF In
  <2>2. I = {k}
    BY <1>1, <2>1 DEF NoDup
  <2>3. Cardinality(I) = 1
    BY <2>2, FS_Singleton
  <2> QED BY <1>2, <2>3 DEF Copies
<1>3. CASE ~In(x, q)
  <2>1. I = {}
    BY <1>1, <1>3 DEF In
  <2>2. Cardinality(I) = 0
    BY <2>1, FS_EmptySet
  <2> QED BY <1>3, <2>2 DEF Copies
<1> QED BY <1>2, <1>3
-----------------------------------------------------------------------------
(***************************************************************************)
(* RecipientQueue::enqueue().                                              *)
(***************************************************************************)

Fates == {"none", "pending", "refused", "settled"}

LEMMA EnqueuedIs ==
  ASSUME TypeOK, Known, NEW a \in Alerts, NEW rs \in SUBSET Recipients, NEW pass,
         Enqueued(a, rs, pass)
  PROVE  /\ recipient_queues' \in [Recipients -> Seq(Alerts)]
         /\ \A r \in Recipients :
              /\ Len(recipient_queues'[r]) <= QueueSize
              /\ recipient_queues'[r] =
                   IF r \in rs /\ r \in pass /\ canEnqueue(r)
                   THEN Append(recipient_queues[r], a) ELSE recipient_queues[r]
         /\ fate' \in [Alerts -> [Recipients -> Fates]]
         /\ \A b \in Alerts \ {a} : fate'[b] = fate[b]
         /\ \A r \in Recipients :
              fate'[a][r] = IF r \notin rs THEN fate[a][r]
                            ELSE IF r \notin pass THEN "settled"
                            ELSE IF canEnqueue(r) THEN "pending" ELSE "refused"
<1>1. /\ recipient_queues \in [Recipients -> Seq(Alerts)]
      /\ \A r \in Recipients : Len(recipient_queues[r]) <= QueueSize
      /\ fate \in [Alerts -> [Recipients -> Fates]]
  BY DEF TypeOK, Known, Fates
<1>2. ASSUME NEW r \in Recipients
      PROVE  /\ recipient_queues'[r] =
                  IF r \in rs /\ r \in pass /\ canEnqueue(r)
                  THEN Append(recipient_queues[r], a) ELSE recipient_queues[r]
             /\ recipient_queues'[r] \in Seq(Alerts)
             /\ Len(recipient_queues'[r]) <= QueueSize
  <2>1. recipient_queues'[r] =
          IF r \in rs /\ r \in pass /\ canEnqueue(r)
          THEN Append(recipient_queues[r], a) ELSE recipient_queues[r]
    BY DEF Enqueued
  <2>2. CASE r \in rs /\ r \in pass /\ canEnqueue(r)
    <3>1. Len(recipient_queues[r]) \in Nat /\ Len(recipient_queues[r]) < QueueSize
      BY <1>1, <2>2 DEF canEnqueue
    <3> QED BY <1>1, <2>1, <2>2, <3>1, PipelineAssumption
  <2>3. CASE ~(r \in rs /\ r \in pass /\ canEnqueue(r))
    BY <1>1, <2>1, <2>3
  <2> QED BY <2>1, <2>2, <2>3
<1>3. recipient_queues' \in [Recipients -> Seq(Alerts)]
  BY <1>2 DEF Enqueued
<1>4. PICK g : /\ g = [r \in Recipients |->
                        CASE r \notin rs      -> fate[a][r]
                          [] r \in rs \ pass  -> "settled"
                          [] OTHER -> IF canEnqueue(r) THEN "pending" ELSE "refused"]
               /\ fate' = [fate EXCEPT ![a] = g]
  BY DEF Enqueued
<1>5. \A r \in Recipients :
        g[r] = IF r \notin rs THEN fate[a][r]
               ELSE IF r \notin pass THEN "settled"
               ELSE IF canEnqueue(r) THEN "pending" ELSE "refused"
  BY <1>4
<1>6. g \in [Recipients -> Fates]
  <2>1. \A r \in Recipients : g[r] \in Fates
    BY <1>1, <1>5 DEF Fates
  <2> QED BY <1>4, <2>1
<1>7. /\ fate' \in [Alerts -> [Recipients -> Fates]] /\ fate'[a] = g
      /\ \A b \in Alerts \ {a} : fate'[b] = fate[b]
  BY <1>1, <1>4, <1>6
<1> QED BY <1>2, <1>3, <1>5, <1>7
-----------------------------------------------------------------------------
(***************************************************************************)
(* The way of an alert to the recipients.                                  *)
(***************************************************************************)

Waiting == OnePlace /\ Untouched /\ Offered

LEMMA WaitingSame ==
  ASSUME Waiting,
         UNCHANGED <<raised, ifaceQueue, internal_alerts_queue, d_alert, p_alert, lost>>,
         p_pc' = "dispatch" <=> p_pc = "dispatch",
         p_pc = "dispatch" => p_todo' = p_todo /\ p_alert \in Alerts,
         \A r \in p_todo : r \in Recipients,
         \A a \in Alerts, r \in Recipients :
           fate'[a][r] = "none" <=> fate[a][r] = "none",
         raised \subseteq Alerts
  PROVE  Waiting'
<1> USE DEF Waiting
<1>1. OnePlace'
  BY DEF OnePlace
<1>2. Untouched'
  BY DEF Untouched, Permanent
<1>3. Offered'
  BY DEF Offered, Permanent
<1> QED BY <1>1, <1>2, <1>3

LEMMA RaiseWaiting ==
  ASSUME TypeOK, Waiting, NEW a \in Alerts, Raise(a)
  PROVE  Waiting'
<1> USE DEF Waiting
<1>1. /\ a \notin raised /\ raised' = raised \cup {a}
      /\ UNCHANGED <<d_alert, p_alert, p_pc, p_todo, fate, lost>>
  BY DEF Raise, passVars, countVars
<1>2. \A r \in Recipients : fate[a][r] = "none"
  BY <1>1 DEF Untouched
<1>3. ~In(a, ifaceQueue) /\ ~In(a, internal_alerts_queue) /\ a \notin {d_alert, p_alert}
  BY <1>1 DEF OnePlace
<1>4. /\ NoDup(ifaceQueue') /\ NoDup(internal_alerts_queue')
      /\ \A b : In(b, ifaceQueue') <=>
                  In(b, ifaceQueue) \/ (b = a /\ a \in IfaceAlerts)
      /\ \A b : In(b, internal_alerts_queue') <=>
                  In(b, internal_alerts_queue) \/ (b = a /\ a \notin IfaceAlerts)
  <2>1. CASE a \in IfaceAlerts
    <3>1. /\ ifaceQueue \in Seq(IfaceAlerts) /\ NoDup(ifaceQueue)
          /\ NoDup(internal_alerts_queue)
          /\ ifaceQueue' = Append(ifaceQueue, a)
          /\ internal_alerts_queue' = internal_alerts_queue
      BY <2>1 DEF Raise, TypeOK, OnePlace
    <3>2. /\ NoDup(Append(ifaceQueue, a))
          /\ \A b : In(b, Append(ifaceQueue, a)) <=> In(b, ifaceQueue) \/ b = a
      BY <1>3, <2>1, <3>1, InAppend
    <3> QED BY <2>1, <3>1, <3>2
  <2>2. CASE a \notin IfaceAlerts
    <3>1. /\ internal_alerts_queue \in Seq(InternalAlerts) /\ a \in InternalAlerts
          /\ NoDup(internal_alerts_queue) /\ NoDup(ifaceQueue)
          /\ internal_alerts_queue' = Append(internal_alerts_queue, a)
          /\ ifaceQueue' = ifaceQueue
      BY <2>2 DEF Raise, TypeOK, OnePlace, Alerts
    <3>2. /\ NoDup(Append(internal_alerts_queue, a))
          /\ \A b : In(b, Append(internal_alerts_queue, a))
                      <=> In(b, internal_alerts_queue) \/ b = a
      BY <1>3, <2>2, <3>1, InAppend
    <3> QED BY <2>2, <3>1, <3>2
  <2> QED BY <2>1, <2>2
<1>5. OnePlace'
  BY <1>1, <1>3, <1>4 DEF OnePlace
<1>6. Untouched'
  BY <1>1, <1>2, <1>3, <1>4 DEF Untouched, Permanent
<1>7. Offered'
  BY <1>1, <1>4 DEF Offered, Permanent
<1> QED BY <1>5, <1>6, <1>7

LEMMA TakeWaiting ==
  ASSUME TypeOK, Waiting, DequeueAlert
  PROVE  Waiting'
<1> USE DEF Waiting
<1>1. /\ d_alert = NoAlert /\ ifaceQueue # <<>> /\ d_alert' = Head(ifaceQueue)
      /\ ifaceQueue' = Tail(ifaceQueue)
      /\ UNCHANGED <<raised, internal_alerts_queue, p_alert, p_pc, p_todo, fate, lost>>
  BY DEF DequeueAlert, passVars, countVars
<1>2. /\ NoDup(ifaceQueue') /\ In(d_alert', ifaceQueue) /\ d_alert' \in Alerts
      /\ \A b : In(b, ifaceQueue') <=> In(b, ifaceQueue) /\ b # d_alert'
  BY <1>1, InTail DEF TypeOK, OnePlace, Alerts
<1>3. OnePlace'
  BY <1>1, <1>2 DEF OnePlace
<1>4. Untouched'
  BY <1>1, <1>2 DEF Untouched, Permanent
<1>5. Offered'
  BY <1>1, <1>2, PipelineAssumption DEF Offered, Permanent, TypeOK
<1> QED BY <1>3, <1>4, <1>5

LEMMA EnqueueWaiting ==
  ASSUME TypeOK, Known, Waiting, NEW pass \in SUBSET registered, enqueue(pass)
  PROVE  Waiting'
<1> USE DEF Waiting
<1>1. PICK a \in Alerts : a = d_alert
  BY DEF enqueue, TypeOK, Alerts
<1>2. /\ Enqueued(a, registered, pass) /\ d_alert' = NoAlert /\ a \in IfaceAlerts
      /\ UNCHANGED <<raised, ifaceQueue, internal_alerts_queue, p_alert, p_pc, p_todo,
                     lost>>
  BY <1>1, PipelineAssumption DEF enqueue, sourceVars, passVars, TypeOK
<1>3. registered \in SUBSET Recipients
  BY DEF TypeOK
<1>4. /\ \A b \in Alerts \ {a} : fate'[b] = fate[b]
      /\ \A r \in registered : fate'[a][r] # "none"
  BY <1>2, <1>3, EnqueuedIs
<1>5. \A b : In(b, ifaceQueue) => b \in Alerts
  BY InSet DEF TypeOK, Alerts
<1>6. NoAlert \notin Alerts
  BY PipelineAssumption
<1>7. /\ ~In(a, ifaceQueue) /\ a \in raised /\ a # p_alert
      /\ ~In(a, internal_alerts_queue)
  <2>1. a \in raised /\ ~In(a, ifaceQueue)
    BY <1>1 DEF OnePlace
  <2>2. a \notin InternalAlerts /\ a # NoAlert
    BY <1>2, <1>6, PipelineAssumption
  <2> QED BY <2>1, <2>2, InSet DEF TypeOK
<1>8. OnePlace'
  BY <1>2, <1>5, <1>6 DEF OnePlace
<1>9. Untouched'
  <2>1. ASSUME NEW b \in Alerts,
               \/ b \notin raised' \/ In(b, ifaceQueue')
               \/ In(b, internal_alerts_queue') \/ b = d_alert',
               NEW r \in Recipients
        PROVE  fate'[b][r] = "none"
    <3>1. b # a
      BY <1>2, <1>6, <1>7, <2>1
    <3>2. fate[b][r] = "none"
      BY <1>2, <1>6, <2>1 DEF Untouched
    <3> QED BY <1>4, <3>1, <3>2
  <2>2. p_pc = "dispatch" => p_alert \in Alerts \ {a}
    BY <1>7 DEF OnePlace, TypeOK, Alerts
  <2> QED BY <1>2, <1>4, <2>1, <2>2 DEF Untouched
<1>10. Offered'
  <2>1. Permanent \subseteq registered
    BY DEF Known
  <2>2. raised \subseteq Alerts
    BY DEF TypeOK
  <2> QED BY <1>1, <1>2, <1>4, <2>1, <2>2 DEF Offered
<1> QED BY <1>8, <1>9, <1>10

LEMMA PopWaiting ==
  ASSUME TypeOK, Known, Waiting, PopInternal
  PROVE  Waiting'
<1> USE DEF Waiting
<1>1. /\ p_pc = "pop" /\ internal_alerts_queue # <<>> /\ p_pc' = "dispatch"
      /\ p_alert' = Head(internal_alerts_queue) /\ p_todo' = cached_recipients
      /\ internal_alerts_queue' = Tail(internal_alerts_queue)
      /\ UNCHANGED <<raised, ifaceQueue, d_alert, fate, lost>>
  BY DEF PopInternal, countVars
<1>2. /\ NoDup(internal_alerts_queue') /\ In(p_alert', internal_alerts_queue)
      /\ p_alert' \in Alerts
      /\ \A b : In(b, internal_alerts_queue') <=>
                  In(b, internal_alerts_queue) /\ b # p_alert'
  BY <1>1, InTail DEF TypeOK, OnePlace, Alerts
<1>3. p_alert = NoAlert /\ NoAlert \notin Alerts
  BY <1>1, PipelineAssumption DEF OnePlace
<1>4. OnePlace'
  BY <1>1, <1>2, <1>3 DEF OnePlace
<1>5. Untouched'
  BY <1>1, <1>2 DEF Untouched, Permanent, Known, TypeOK
<1>6. Offered'
  BY <1>1, <1>2, <1>3 DEF Offered, Permanent, TypeOK
<1> QED BY <1>4, <1>5, <1>6

\* The fate of the alert at one recipient is decided, and at no other.
LEMMA DispatchFate ==
  ASSUME TypeOK, Known, Waiting, NEW r \in Recipients, NEW passes \in BOOLEAN,
         dispatch_notification(r, passes)
  PROVE  /\ p_alert \in Alerts /\ p_alert \in InternalAlerts
         /\ fate' \in [Alerts -> [Recipients -> Fates]]
         /\ \A b \in Alerts \ {p_alert} : fate'[b] = fate[b]
         /\ \A s \in Recipients \ {r} : fate'[p_alert][s] = fate[p_alert][s]
         /\ fate[p_alert][r] = "none" /\ fate'[p_alert][r] # "none"
         /\ fate'[p_alert][r] = "refused" <=>
              passes /\ ~(r \in registered /\ canEnqueue(r))
<1>1. p_pc = "dispatch" /\ r \in p_todo
  BY DEF dispatch_notification
<1>2. p_alert \in Alerts /\ p_alert \in InternalAlerts
  BY <1>1 DEF Waiting, OnePlace, TypeOK, Alerts
<1>3. fate[p_alert][r] = "none"
  BY <1>1 DEF Waiting, Untouched
<1>4. CASE passes /\ r \in registered
  <2>1. Enqueued(p_alert, {r}, {r})
    BY <1>4 DEF dispatch_notification, recipient_enqueue
  <2>2. PICK a \in Alerts, rs \in SUBSET Recipients :
          a = p_alert /\ rs = {r} /\ Enqueued(a, rs, rs)
    BY <1>2, <2>1
  <2>3. Enqueued(a, rs, rs)
    BY <2>2
  <2>4. /\ fate' \in [Alerts -> [Recipients -> Fates]]
        /\ \A b \in Alerts \ {a} : fate'[b] = fate[b]
        /\ \A s \in Recipients :
             fate'[a][s] = IF s \notin rs THEN fate[a][s]
                           ELSE IF s \notin rs THEN "settled"
                           ELSE IF canEnqueue(s) THEN "pending" ELSE "refused"
    BY <2>3, EnqueuedIs
  <2>5. r \in rs /\ \A s \in Recipients \ {r} : s \notin rs
    BY <2>2
  <2>6. /\ \A s \in Recipients \ {r} : fate'[a][s] = fate[a][s]
        /\ fate'[a][r] = IF canEnqueue(r) THEN "pending" ELSE "refused"
    BY <2>4, <2>5
  <2> QED BY <1>2, <1>3, <1>4, <2>2, <2>4, <2>6
<1>5. CASE passes /\ r \notin registered
  <2>1. fate' = [fate EXCEPT ![p_alert][r] = "refused"]
    BY <1>5 DEF dispatch_notification, recipient_enqueue
  <2>2. fate \in [Alerts -> [Recipients -> Fates]]
    BY DEF TypeOK, Fates
  <2>3. fate'[p_alert] = [fate[p_alert] EXCEPT ![r] = "refused"]
    BY <1>2, <2>1, <2>2
  <2>4. fate' \in [Alerts -> [Recipients -> Fates]]
    BY <1>2, <2>1, <2>2 DEF Fates
  <2> QED BY <1>2, <1>3, <1>5, <2>1, <2>2, <2>3, <2>4
<1>6. CASE ~passes
  <2>1. Enqueued(p_alert, {r}, {})
    BY <1>6 DEF dispatch_notification
  <2>2. PICK a \in Alerts, rs \in SUBSET Recipients, pass \in SUBSET Recipients :
          a = p_alert /\ rs = {r} /\ pass = {} /\ Enqueued(a, rs, pass)
    BY <1>2, <2>1
  <2>3. Enqueued(a, rs, pass)
    BY <2>2
  <2>4. /\ fate' \in [Alerts -> [Recipients -> Fates]]
        /\ \A b \in Alerts \ {a} : fate'[b] = fate[b]
        /\ \A s \in Recipients :
             fate'[a][s] = IF s \notin rs THEN fate[a][s]
                           ELSE IF s \notin pass THEN "settled"
                           ELSE IF canEnqueue(s) THEN "pending" ELSE "refused"
    BY <2>3, EnqueuedIs
  <2>5. fate'[a][r] = "settled" /\ \A s \in Recipients \ {r} : fate'[a][s] = fate[a][s]
    BY <2>2, <2>4
  <2> QED BY <1>2, <1>3, <1>6, <2>2, <2>4, <2>5
<1> QED BY <1>4, <1>5, <1>6

LEMMA DispatchWaiting ==
  ASSUME TypeOK, Known, Waiting, NEW r \in Recipients, NEW passes \in BOOLEAN,
         dispatch_notification(r, passes)
  PROVE  Waiting'
<1> USE DEF Waiting
<1>1. /\ p_pc = "dispatch" /\ r \in p_todo /\ p_todo' = p_todo \ {r}
      /\ UNCHANGED <<raised, ifaceQueue, internal_alerts_queue, d_alert, p_alert, p_pc,
                     lost>>
  BY DEF dispatch_notification, sourceVars
<1>2. PICK a \in Alerts :
        /\ a = p_alert /\ a \in InternalAlerts
        /\ \A b \in Alerts \ {a} : fate'[b] = fate[b]
        /\ \A s \in Recipients \ {r} : fate'[a][s] = fate[a][s]
        /\ fate'[a][r] # "none"
  BY DispatchFate
<1>3. /\ a \in raised /\ ~In(a, internal_alerts_queue)
      /\ ~In(a, ifaceQueue) /\ a # d_alert
  <2>1. a \in raised /\ ~In(a, internal_alerts_queue)
    BY <1>2 DEF OnePlace
  <2>2. a \notin IfaceAlerts /\ a # NoAlert
    BY <1>2, PipelineAssumption
  <2> QED BY <2>1, <2>2, InSet DEF TypeOK
<1>4. OnePlace'
  BY <1>1 DEF OnePlace
<1>5. Untouched'
  <2>1. ASSUME NEW b \in Alerts,
               \/ b \notin raised' \/ In(b, ifaceQueue')
               \/ In(b, internal_alerts_queue') \/ b = d_alert',
               NEW s \in Recipients
        PROVE  fate'[b][s] = "none"
    BY <1>1, <1>2, <1>3, <2>1 DEF Untouched
  <2>2. \A s \in p_todo' : fate'[a][s] = "none"
    BY <1>1, <1>2 DEF Untouched, TypeOK
  <2>3. \A s \in Permanent \ p_todo' : fate'[a][s] # "none"
    BY <1>1, <1>2 DEF Untouched, Permanent
  <2> QED BY <1>1, <1>2, <2>1, <2>2, <2>3 DEF Untouched
<1>6. Offered'
  <2>1. raised \subseteq Alerts
    BY DEF TypeOK
  <2> QED BY <1>1, <1>2, <2>1 DEF Offered
<1> QED BY <1>4, <1>5, <1>6

LEMMA DispatchedWaiting ==
  ASSUME TypeOK, Waiting, Dispatched
  PROVE  Waiting'
<1> USE DEF Waiting
<1>1. /\ p_pc = "dispatch" /\ p_todo = {} /\ p_pc' = "pop" /\ p_alert' = NoAlert
      /\ UNCHANGED <<raised, ifaceQueue, internal_alerts_queue, d_alert, fate, lost>>
  BY DEF Dispatched, sourceVars, countVars
<1>2. ~In(NoAlert, internal_alerts_queue)
  <2>1. NoAlert \notin InternalAlerts
    BY PipelineAssumption DEF Alerts
  <2> QED BY <2>1, InSet DEF TypeOK
<1>3. OnePlace'
  BY <1>1, <1>2, PipelineAssumption DEF OnePlace
<1>4. Untouched'
  BY <1>1 DEF Untouched
<1>5. Offered'
  BY <1>1 DEF Offered, Untouched
<1> QED BY <1>3, <1>4, <1>5

LEMMA LoseWaiting ==
  ASSUME TypeOK, Waiting, NEW stops \in BOOLEAN, LoseInternal(stops)
  PROVE  Waiting'
<1> USE DEF Waiting
<1>1. /\ p_pc = "dispatch" /\ p_pc' \in {"end", "pop"} /\ p_alert' = NoAlert
      /\ lost' = lost \cup {p_alert}
      /\ UNCHANGED <<raised, ifaceQueue, internal_alerts_queue, d_alert, fate>>
  BY DEF LoseInternal, sourceVars
<1>2. ~In(NoAlert, internal_alerts_queue)
  <2>1. NoAlert \notin InternalAlerts
    BY PipelineAssumption DEF Alerts
  <2> QED BY <2>1, InSet DEF TypeOK
<1>3. OnePlace'
  BY <1>1, <1>2, PipelineAssumption DEF OnePlace
<1>4. Untouched'
  BY <1>1 DEF Untouched
<1>5. Offered'
  BY <1>1 DEF Offered
<1> QED BY <1>3, <1>4, <1>5
-----------------------------------------------------------------------------
(***************************************************************************)
(* What the recipients have.                                               *)
(***************************************************************************)

LEMMA QueueTypes ==
  ASSUME TypeOK, Known
  PROVE  /\ \A r \in Recipients : recipient_queues[r] \in Seq(Alerts)
         /\ p_batch \in Seq(Alerts)
         /\ \A a : In(a, p_batch) => a \in Alerts
         /\ \A a, r : r \in Recipients /\ In(a, recipient_queues[r]) => a \in Alerts
<1>1. \A r \in Recipients : recipient_queues[r] \in Seq(Alerts)
  BY DEF Known
<1>2. p_batch \in Seq(Alerts)
  BY DEF TypeOK
<1> QED BY <1>1, <1>2, InSet

\* The alert a goes to the end of the queues of some recipients.
LEMMA PendingAdded ==
  ASSUME TypeOK, Known, PendingOnce, NEW a \in Alerts, UNCHANGED <<p_rec, p_batch>>,
         \A r \in Recipients :
           \/ /\ recipient_queues'[r] = recipient_queues[r]
              /\ \A b \in Alerts : fate'[b][r] = "pending" <=> fate[b][r] = "pending"
           \/ /\ recipient_queues'[r] = Append(recipient_queues[r], a)
              /\ fate[a][r] # "pending" /\ fate'[a][r] = "pending"
              /\ \A b \in Alerts \ {a} : fate'[b][r] = fate[b][r]
  PROVE  PendingOnce'
<1>1. NoDup(p_batch')
  BY DEF PendingOnce
<1>2. ASSUME NEW r \in Recipients
      PROVE  /\ NoDup(recipient_queues'[r])
             /\ \A b \in Alerts :
                  /\ ~(p_rec' = r /\ In(b, recipient_queues'[r]) /\ In(b, p_batch'))
                  /\ fate'[b][r] = "pending" <=>
                       In(b, recipient_queues'[r]) \/ (p_rec' = r /\ In(b, p_batch'))
  <2>1. CASE /\ recipient_queues'[r] = recipient_queues[r]
             /\ \A b \in Alerts : fate'[b][r] = "pending" <=> fate[b][r] = "pending"
    BY <2>1 DEF PendingOnce
  <2>2. CASE /\ recipient_queues'[r] = Append(recipient_queues[r], a)
             /\ fate[a][r] # "pending" /\ fate'[a][r] = "pending"
             /\ \A b \in Alerts \ {a} : fate'[b][r] = fate[b][r]
    <3>1. ~In(a, recipient_queues[r]) /\ ~(p_rec = r /\ In(a, p_batch))
      BY <2>2 DEF PendingOnce
    <3>2. recipient_queues[r] \in Seq(Alerts) /\ NoDup(recipient_queues[r])
      BY QueueTypes DEF PendingOnce
    <3>3. /\ NoDup(recipient_queues'[r])
          /\ \A b : In(b, recipient_queues'[r]) <=> In(b, recipient_queues[r]) \/ b = a
      BY <2>2, <3>1, <3>2, InAppend
    <3> QED BY <2>2, <3>1, <3>3 DEF PendingOnce
  <2> QED BY <2>1, <2>2
<1> QED BY <1>1, <1>2 DEF PendingOnce

LEMMA EnqueuePending ==
  ASSUME TypeOK, Known, Waiting, PendingOnce, NEW pass \in SUBSET registered,
         enqueue(pass)
  PROVE  PendingOnce'
<1>1. PICK a \in Alerts : a = d_alert
  BY DEF enqueue, TypeOK, Alerts
<1>2. Enqueued(a, registered, pass) /\ UNCHANGED <<p_rec, p_batch>>
  BY <1>1 DEF enqueue, passVars
<1>3. \A r \in Recipients : fate[a][r] = "none"
  BY <1>1 DEF Waiting, Untouched
<1>4. registered \in SUBSET Recipients
  BY DEF TypeOK
<1>5. /\ \A r \in Recipients :
           recipient_queues'[r] =
             IF r \in registered /\ r \in pass /\ canEnqueue(r)
             THEN Append(recipient_queues[r], a) ELSE recipient_queues[r]
      /\ \A b \in Alerts \ {a} : fate'[b] = fate[b]
      /\ \A r \in Recipients :
           fate'[a][r] = IF r \notin registered THEN fate[a][r]
                         ELSE IF r \notin pass THEN "settled"
                         ELSE IF canEnqueue(r) THEN "pending" ELSE "refused"
  BY <1>2, <1>4, EnqueuedIs
<1>6. ASSUME NEW r \in Recipients
      PROVE  \/ /\ recipient_queues'[r] = recipient_queues[r]
                /\ \A b \in Alerts : fate'[b][r] = "pending" <=> fate[b][r] = "pending"
             \/ /\ recipient_queues'[r] = Append(recipient_queues[r], a)
                /\ fate[a][r] # "pending" /\ fate'[a][r] = "pending"
                /\ \A b \in Alerts \ {a} : fate'[b][r] = fate[b][r]
  <2>1. CASE r \in registered /\ r \in pass /\ canEnqueue(r)
    BY <1>3, <1>5, <2>1
  <2>2. CASE ~(r \in registered /\ r \in pass /\ canEnqueue(r))
    <3>1. fate'[a][r] # "pending"
      BY <1>3, <1>5, <2>2
    <3> QED BY <1>3, <1>5, <2>2, <3>1
  <2> QED BY <2>1, <2>2
<1> QED BY <1>2, <1>6, PendingAdded

LEMMA DispatchPending ==
  ASSUME TypeOK, Known, Waiting, PendingOnce, NEW r \in Recipients,
         NEW passes \in BOOLEAN, dispatch_notification(r, passes)
  PROVE  PendingOnce' /\ recipient_queues' \in [Recipients -> Seq(Alerts)]
         /\ \A s \in Recipients :
              /\ Len(recipient_queues'[s]) <= QueueSize
              /\ s \notin registered => recipient_queues'[s] = recipient_queues[s]
<1>1. PICK a \in Alerts : a = p_alert
  BY DispatchFate
<1>2. /\ \A b \in Alerts \ {a} : fate'[b] = fate[b]
      /\ \A s \in Recipients \ {r} : fate'[a][s] = fate[a][s]
      /\ fate[a][r] = "none"
  BY <1>1, DispatchFate
<1>3. UNCHANGED <<p_rec, p_batch>>
  BY DEF dispatch_notification
<1>4. CASE UNCHANGED recipient_queues /\ fate'[a][r] # "pending"
  <2>1. PendingOnce'
    BY <1>2, <1>3, <1>4, PendingAdded
  <2> QED BY <1>4, <2>1 DEF TypeOK, Known
<1>5. CASE passes /\ r \in registered
  <2>1. PICK rs \in SUBSET Recipients, pass \in SUBSET Recipients :
          rs = {r} /\ pass = {r} /\ Enqueued(a, rs, pass)
    BY <1>1, <1>5 DEF dispatch_notification, recipient_enqueue
  <2>2. Enqueued(a, rs, pass)
    BY <2>1
  <2>3. /\ recipient_queues' \in [Recipients -> Seq(Alerts)]
        /\ \A s \in Recipients :
             /\ Len(recipient_queues'[s]) <= QueueSize
             /\ recipient_queues'[s] =
                   IF s \in rs /\ s \in pass /\ canEnqueue(s)
                   THEN Append(recipient_queues[s], a) ELSE recipient_queues[s]
             /\ fate'[a][s] = IF s \notin rs THEN fate[a][s]
                              ELSE IF s \notin pass THEN "settled"
                              ELSE IF canEnqueue(s) THEN "pending" ELSE "refused"
    BY <2>2, EnqueuedIs
  <2>4. /\ \A s \in Recipients \ {r} : recipient_queues'[s] = recipient_queues[s]
        /\ IF canEnqueue(r)
           THEN /\ recipient_queues'[r] = Append(recipient_queues[r], a)
                /\ fate'[a][r] = "pending"
           ELSE /\ recipient_queues'[r] = recipient_queues[r]
                /\ fate'[a][r] = "refused"
    BY <2>1, <2>3
  <2>5. ASSUME NEW s \in Recipients
        PROVE  \/ /\ recipient_queues'[s] = recipient_queues[s]
                  /\ \A b \in Alerts :
                       fate'[b][s] = "pending" <=> fate[b][s] = "pending"
               \/ /\ recipient_queues'[s] = Append(recipient_queues[s], a)
                  /\ fate[a][s] # "pending" /\ fate'[a][s] = "pending"
                  /\ \A b \in Alerts \ {a} : fate'[b][s] = fate[b][s]
    <3>1. CASE s = r /\ canEnqueue(r)
      BY <1>2, <2>4, <3>1
    <3>2. CASE ~(s = r /\ canEnqueue(r))
      <4>1. /\ recipient_queues'[s] = recipient_queues[s]
            /\ fate'[a][s] = "pending" <=> fate[a][s] = "pending"
        BY <1>2, <2>4, <3>2
      <4> QED BY <1>2, <4>1
    <3> QED BY <3>1, <3>2
  <2>6. PendingOnce'
    BY <1>3, <2>5, PendingAdded
  <2> QED BY <1>5, <2>3, <2>4, <2>6
<1>6. CASE passes /\ r \notin registered
  <2>1. recipient_queues' = recipient_queues /\ fate'[a][r] = "refused"
    BY <1>1, <1>6, DispatchFate DEF dispatch_notification, recipient_enqueue
  <2> QED BY <1>4, <2>1
<1>7. CASE ~passes
  <2>1. PICK rs \in SUBSET Recipients, pass \in SUBSET Recipients :
          rs = {r} /\ pass = {} /\ Enqueued(a, rs, pass)
    BY <1>1, <1>7 DEF dispatch_notification
  <2>2. Enqueued(a, rs, pass)
    BY <2>1
  <2>3. /\ recipient_queues' \in [Recipients -> Seq(Alerts)]
        /\ \A s \in Recipients :
             /\ recipient_queues'[s] =
                   IF s \in rs /\ s \in pass /\ canEnqueue(s)
                   THEN Append(recipient_queues[s], a) ELSE recipient_queues[s]
             /\ fate'[a][s] = IF s \notin rs THEN fate[a][s]
                              ELSE IF s \notin pass THEN "settled"
                              ELSE IF canEnqueue(s) THEN "pending" ELSE "refused"
    BY <2>2, EnqueuedIs
  <2>4. /\ \A s \in Recipients : recipient_queues'[s] = recipient_queues[s]
        /\ fate'[a][r] = "settled"
    BY <2>1, <2>3
  <2>5. recipient_queues' = recipient_queues
    BY <2>3, <2>4 DEF Known
  <2> QED BY <1>4, <2>4, <2>5
<1> QED BY <1>5, <1>6, <1>7

\* The notifications of a queue or of a batch are done with.
LEMMA SettledFate ==
  ASSUME TypeOK, NEW r \in Recipients, NEW q \in Seq(Alerts),
         fate' = [a \in Alerts |-> IF a \in ToSet(q)
                                   THEN [fate[a] EXCEPT ![r] = "settled"]
                                   ELSE fate[a]]
  PROVE  /\ fate' \in [Alerts -> [Recipients -> Fates]]
         /\ \A a \in Alerts, s \in Recipients :
              fate'[a][s] = IF In(a, q) /\ s = r THEN "settled" ELSE fate[a][s]
<1>1. fate \in [Alerts -> [Recipients -> Fates]]
  BY DEF TypeOK, Fates
<1>2. \A a \in Alerts : /\ fate'[a] = IF In(a, q) THEN [fate[a] EXCEPT ![r] = "settled"]
                                                  ELSE fate[a]
                        /\ fate[a] \in [Recipients -> Fates]
  BY <1>1, InSet
<1>3. \A a \in Alerts : fate'[a] \in [Recipients -> Fates]
  BY <1>2 DEF Fates
<1> QED BY <1>2, <1>3

LEMMA DeletePending ==
  ASSUME TypeOK, Known, PendingOnce, NEW r \in Recipients, delete_recipient(r)
  PROVE  PendingOnce'
<1>1. /\ recipient_queues'[r] = <<>> /\ UNCHANGED <<p_rec, p_batch>>
      /\ \A s \in Recipients \ {r} : recipient_queues'[s] = recipient_queues[s]
  BY DEF delete_recipient, passVars, Known
<1>2. recipient_queues[r] \in Seq(Alerts)
  BY QueueTypes
<1>3. \A a \in Alerts, s \in Recipients :
        fate'[a][s] = IF In(a, recipient_queues[r]) /\ s = r THEN "settled"
                      ELSE fate[a][s]
  BY <1>2, SettledFate DEF delete_recipient
<1> QED BY <1>1, <1>3, InEmpty DEF PendingOnce

LEMMA DeliverPending ==
  ASSUME TypeOK, Known, Batch, PendingOnce, NEW success \in BOOLEAN, Deliver(success)
  PROVE  PendingOnce' /\ Batch'
<1>1. /\ p_batch # <<>> /\ p_batch' = <<>> /\ p_rec' = NoRecipient
      /\ UNCHANGED recipient_queues
  BY DEF Deliver, recipientVars
<1>2. PICK r \in Recipients : r = p_rec
  BY <1>1 DEF Batch
<1>3. \A a \in Alerts, s \in Recipients :
        fate'[a][s] = IF In(a, p_batch) /\ s = r THEN "settled" ELSE fate[a][s]
  <2>1. p_batch \in Seq(Alerts)
    BY QueueTypes
  <2>2. fate' = [a \in Alerts |-> IF a \in ToSet(p_batch)
                                  THEN [fate[a] EXCEPT ![r] = "settled"]
                                  ELSE fate[a]]
    BY <1>2 DEF Deliver
  <2> QED BY <2>1, <2>2, SettledFate
<1>4. NoRecipient \notin Recipients
  BY PipelineAssumption
<1>5. PendingOnce'
  BY <1>1, <1>2, <1>3, <1>4, InEmpty DEF PendingOnce
<1>6. Batch'
  BY <1>1 DEF Batch
<1> QED BY <1>5, <1>6

LEMMA TakePending ==
  ASSUME TypeOK, Known, Batch, PendingOnce, NEW r \in Recipients, dequeue(r)
  PROVE  PendingOnce' /\ Batch'
<1>1. /\ p_pc = "serve" /\ p_rec \in {r, NoRecipient} /\ recipient_queues[r] # <<>>
      /\ recipient_queues' = [recipient_queues EXCEPT ![r] = Tail(@)]
      /\ p_rec' = r /\ p_batch' = Append(p_batch, Head(recipient_queues[r]))
      /\ dequeued' = [dequeued EXCEPT ![r] = TRUE] /\ UNCHANGED <<p_pc, fate>>
  BY DEF dequeue, Take, countVars
<1>2. \A a : In(a, p_batch) => p_rec = r
  BY <1>1, InEmpty, PipelineAssumption DEF Batch
<1>3. PICK q \in Seq(Alerts) : q = recipient_queues[r] /\ NoDup(q)
  BY QueueTypes DEF PendingOnce
<1>4. PICK h \in Alerts :
        /\ h = Head(q) /\ In(h, q) /\ NoDup(Tail(q))
        /\ \A a : In(a, Tail(q)) <=> In(a, q) /\ a # h
  BY <1>1, <1>3, InTail
<1>5. ~In(h, p_batch)
  BY <1>2, <1>3, <1>4 DEF PendingOnce
<1>6. p_batch \in Seq(Alerts) /\ NoDup(p_batch)
  BY DEF TypeOK, PendingOnce
<1>7. /\ NoDup(p_batch') /\ p_batch' # <<>>
      /\ \A a : In(a, p_batch') <=> In(a, p_batch) \/ a = h
  BY <1>1, <1>3, <1>4, <1>5, <1>6, InAppend
<1>8. /\ recipient_queues'[r] = Tail(q)
      /\ \A s \in Recipients \ {r} : recipient_queues'[s] = recipient_queues[s]
  BY <1>1, <1>3 DEF Known
<1>9. ASSUME NEW s \in Recipients
      PROVE  /\ NoDup(recipient_queues'[s])
             /\ \A a \in Alerts :
                  /\ ~(p_rec' = s /\ In(a, recipient_queues'[s]) /\ In(a, p_batch'))
                  /\ fate'[a][s] = "pending" <=>
                       In(a, recipient_queues'[s]) \/ (p_rec' = s /\ In(a, p_batch'))
  <2>1. CASE s = r
    <3>1. /\ recipient_queues'[s] = Tail(q) /\ NoDup(Tail(q))
          /\ p_rec' = s /\ fate' = fate
      BY <1>1, <1>4, <1>8, <2>1
    <3>2. ASSUME NEW a \in Alerts
          PROVE  /\ ~(In(a, q) /\ In(a, p_batch))
                 /\ fate[a][s] = "pending" <=> In(a, q) \/ In(a, p_batch)
      BY <1>2, <1>3, <2>1 DEF PendingOnce
    <3>3. ASSUME NEW a \in Alerts
          PROVE  /\ ~(In(a, Tail(q)) /\ In(a, p_batch'))
                 /\ fate[a][s] = "pending" <=> In(a, Tail(q)) \/ In(a, p_batch')
      BY <1>4, <1>7, <3>2
    <3> QED BY <3>1, <3>3
  <2>2. CASE s # r
    BY <1>1, <1>2, <1>8, <2>2 DEF PendingOnce
  <2> QED BY <2>1, <2>2
<1>10. PendingOnce'
  BY <1>7, <1>9 DEF PendingOnce
<1>11. Batch'
  BY <1>1, <1>7 DEF Batch, TypeOK
<1> QED BY <1>10, <1>11

LEMMA PendingSame ==
  ASSUME PendingOnce, UNCHANGED <<recipient_queues, p_rec, p_batch, fate>>
  PROVE  PendingOnce'
BY DEF PendingOnce

LEMMA BatchSame ==
  ASSUME Batch, UNCHANGED <<p_rec, p_batch>>,
         p_batch # <<>> => p_pc' = p_pc,
         p_batch # <<>> /\ dequeued[p_rec] => dequeued'[p_rec]
  PROVE  Batch'
BY DEF Batch
-----------------------------------------------------------------------------
(***************************************************************************)
(* The refusals are counted.                                               *)
(***************************************************************************)

LEMMA RefusedSomewhere ==
  ASSUME NEW f \in [Alerts -> [Recipients -> Fates]], NEW a \in Alerts
  PROVE  "refused" \in Range(f[a]) <=> \E r \in Recipients : f[a][r] = "refused"
BY DEF Range

LEMMA RefusedFinite ==
  /\ IsFiniteSet(RefusedIface) /\ Cardinality(RefusedIface) \in Nat
  /\ IsFiniteSet(RefusedInternal) /\ Cardinality(RefusedInternal) \in Nat
<1>1. IsFiniteSet(IfaceAlerts) /\ IsFiniteSet(InternalAlerts) /\ IsFiniteSet(Recipients)
  <2>1. IfaceAlerts \subseteq Alerts /\ InternalAlerts \subseteq Alerts
    BY DEF Alerts
  <2> QED BY <2>1, PipelineAssumption, FS_Subset
<1>2. IsFiniteSet(InternalAlerts \X Recipients)
  BY <1>1, FS_Product
<1>3. RefusedIface \subseteq IfaceAlerts
  BY DEF RefusedIface
<1>4. RefusedInternal \subseteq InternalAlerts \X Recipients
  BY DEF RefusedInternal
<1>5. IsFiniteSet(RefusedIface) /\ IsFiniteSet(RefusedInternal)
  BY <1>1, <1>2, <1>3, <1>4, FS_Subset
<1> QED BY <1>5, FS_CardinalityType

LEMMA CountedSame ==
  ASSUME Counted, UNCHANGED num_dropped_alerts,
         fate \in [Alerts -> [Recipients -> Fates]],
         fate' \in [Alerts -> [Recipients -> Fates]],
         \A a \in Alerts, r \in Recipients :
           fate'[a][r] = "refused" <=> fate[a][r] = "refused"
  PROVE  Counted'
<1>1. RefusedIface' = RefusedIface
  <2>1. \A a \in IfaceAlerts :
          "refused" \in Range(fate'[a]) <=> "refused" \in Range(fate[a])
    <3> SUFFICES ASSUME NEW a \in Alerts
                 PROVE  "refused" \in Range(fate'[a]) <=> "refused" \in Range(fate[a])
      BY DEF Alerts
    <3>1. "refused" \in Range(fate[a]) <=> \E r \in Recipients : fate[a][r] = "refused"
      BY RefusedSomewhere
    <3>2. "refused" \in Range(fate'[a]) <=> \E r \in Recipients : fate'[a][r] = "refused"
      BY RefusedSomewhere
    <3> QED BY <3>1, <3>2
  <2> QED BY <2>1 DEF RefusedIface
<1>2. RefusedInternal' = RefusedInternal
  <2>1. \A ar \in InternalAlerts \X Recipients :
          fate'[ar[1]][ar[2]] = "refused" <=> fate[ar[1]][ar[2]] = "refused"
    BY DEF Alerts
  <2> QED BY <2>1 DEF RefusedInternal
<1> QED BY <1>1, <1>2 DEF Counted

\* The dequeue threads count an alert that some recipient refuses,
LEMMA EnqueueCounted ==
  ASSUME TypeOK, Known, Waiting, Counted, NEW pass \in SUBSET registered,
         enqueue(pass)
  PROVE  Counted'
<1>1. PICK a \in Alerts : a = d_alert
  BY DEF enqueue, TypeOK, Alerts
<1>2. /\ Enqueued(a, registered, pass) /\ a \in IfaceAlerts
      /\ num_dropped_alerts' = IF \A r \in registered \cap pass : canEnqueue(r)
                               THEN num_dropped_alerts ELSE num_dropped_alerts + 1
  BY <1>1 DEF enqueue, TypeOK
<1>3. /\ registered \in SUBSET Recipients /\ num_dropped_alerts \in Nat
      /\ fate \in [Alerts -> [Recipients -> Fates]]
  BY DEF TypeOK, Fates
<1>4. \A r \in Recipients : fate[a][r] = "none"
  BY <1>1 DEF Waiting, Untouched
<1>5. /\ fate' \in [Alerts -> [Recipients -> Fates]]
      /\ \A b \in Alerts \ {a} : fate'[b] = fate[b]
      /\ \A r \in Recipients :
           fate'[a][r] = IF r \notin registered THEN fate[a][r]
                         ELSE IF r \notin pass THEN "settled"
                         ELSE IF canEnqueue(r) THEN "pending" ELSE "refused"
  BY <1>2, <1>3, EnqueuedIs
<1>6. \A r \in Recipients :
        fate'[a][r] = "refused" <=> r \in registered \cap pass /\ ~canEnqueue(r)
  BY <1>4, <1>5
<1>7. CASE \A r \in registered \cap pass : canEnqueue(r)
  <2>1. num_dropped_alerts' = num_dropped_alerts
    BY <1>2, <1>7
  <2>2. \A b \in Alerts, r \in Recipients :
          fate'[b][r] = "refused" <=> fate[b][r] = "refused"
    BY <1>4, <1>5, <1>6, <1>7
  <2> QED BY <1>3, <1>5, <2>1, <2>2, CountedSame
<1>8. CASE \E r \in registered \cap pass : ~canEnqueue(r)
  <2>1. num_dropped_alerts' = num_dropped_alerts + 1
    BY <1>2, <1>8
  <2>2. "refused" \notin Range(fate[a])
    BY <1>3, <1>4, RefusedSomewhere
  <2>3. "refused" \in Range(fate'[a])
    <3>1. \E r \in Recipients : fate'[a][r] = "refused"
      BY <1>3, <1>6, <1>8
    <3> QED BY <1>5, <3>1, RefusedSomewhere
  <2>4. RefusedIface' = RefusedIface \cup {a} /\ a \notin RefusedIface
    BY <1>2, <1>5, <2>2, <2>3 DEF RefusedIface, Alerts
  <2>5. RefusedInternal' = RefusedInternal
    <3>1. a \notin InternalAlerts
      BY <1>2, PipelineAssumption
    <3>2. \A ar \in InternalAlerts \X Recipients : fate'[ar[1]] = fate[ar[1]]
      BY <1>5, <3>1 DEF Alerts
    <3> QED BY <3>2 DEF RefusedInternal
  <2>6. Cardinality(RefusedIface') = Cardinality(RefusedIface) + 1
    BY <2>4, RefusedFinite, FS_AddElement
  <2> QED BY <2>1, <2>5, <2>6, RefusedFinite DEF Counted
<1> QED BY <1>7, <1>8

\* the script each refusal.
LEMMA DispatchCounted ==
  ASSUME TypeOK, Known, Waiting, Counted, NEW r \in Recipients,
         NEW passes \in BOOLEAN, dispatch_notification(r, passes)
  PROVE  Counted'
<1>1. PICK a \in Alerts :
        /\ a = p_alert /\ a \in InternalAlerts
        /\ \A b \in Alerts \ {a} : fate'[b] = fate[b]
        /\ \A s \in Recipients \ {r} : fate'[a][s] = fate[a][s]
        /\ fate[a][r] = "none"
        /\ fate'[a][r] = "refused" <=> passes /\ ~(r \in registered /\ canEnqueue(r))
  BY DispatchFate
<1>2. /\ fate \in [Alerts -> [Recipients -> Fates]]
      /\ fate' \in [Alerts -> [Recipients -> Fates]] /\ num_dropped_alerts \in Nat
  BY DispatchFate DEF TypeOK, Fates
<1>3. CASE fate'[a][r] # "refused"
  <2>1. num_dropped_alerts' = num_dropped_alerts
    BY <1>1, <1>3 DEF dispatch_notification, recipient_enqueue
  <2>2. \A b \in Alerts, s \in Recipients :
          fate'[b][s] = "refused" <=> fate[b][s] = "refused"
    BY <1>1, <1>3
  <2> QED BY <1>2, <2>1, <2>2, CountedSame
<1>4. CASE fate'[a][r] = "refused"
  <2>1. num_dropped_alerts' = num_dropped_alerts + 1
    BY <1>1, <1>4 DEF dispatch_notification, recipient_enqueue
  <2>2. RefusedIface' = RefusedIface
    <3>1. a \notin IfaceAlerts
      BY <1>1, PipelineAssumption
    <3>2. \A b \in IfaceAlerts : fate'[b] = fate[b]
      BY <1>1, <3>1 DEF Alerts
    <3> QED BY <3>2 DEF RefusedIface
  <2>3. RefusedInternal' = RefusedInternal \cup {<<a, r>>} /\ <<a, r>> \notin RefusedInternal
    <3>1. ASSUME NEW b \in InternalAlerts, NEW s \in Recipients
          PROVE  <<b, s>> \in RefusedInternal' <=>
                   <<b, s>> \in RefusedInternal \/ <<b, s>> = <<a, r>>
      <4>1. b \in Alerts
        BY DEF Alerts
      <4>2. fate'[b][s] = "refused" <=> fate[b][s] = "refused" \/ (b = a /\ s = r)
        BY <1>1, <1>4, <4>1
      <4> QED BY <4>2 DEF RefusedInternal
    <3>2. <<a, r>> \notin RefusedInternal
      BY <1>1 DEF RefusedInternal
    <3>3. /\ \A x \in RefusedInternal : x \in InternalAlerts \X Recipients
          /\ \A x \in RefusedInternal' : x \in InternalAlerts \X Recipients
      BY DEF RefusedInternal
    <3> QED BY <1>1, <3>1, <3>2, <3>3
  <2>4. Cardinality(RefusedInternal') = Cardinality(RefusedInternal) + 1
    BY <2>3, RefusedFinite, FS_AddElement
  <2> QED BY <2>1, <2>2, <2>4, RefusedFinite DEF Counted
<1> QED BY <1>3, <1>4

\* What was pending and is done with was not refused.
LEMMA SettledCounted ==
  ASSUME TypeOK, Counted, PendingOnce, NEW r \in Recipients, NEW q \in Seq(Alerts),
         \A a \in Alerts : In(a, q) => fate[a][r] = "pending",
         fate' = [a \in Alerts |-> IF a \in ToSet(q)
                                   THEN [fate[a] EXCEPT ![r] = "settled"]
                                   ELSE fate[a]],
         UNCHANGED num_dropped_alerts
  PROVE  Counted'
<1>1. /\ fate' \in [Alerts -> [Recipients -> Fates]]
      /\ \A a \in Alerts, s \in Recipients :
           fate'[a][s] = IF In(a, q) /\ s = r THEN "settled" ELSE fate[a][s]
  BY SettledFate
<1>2. fate \in [Alerts -> [Recipients -> Fates]]
  BY DEF TypeOK, Fates
<1>3. \A a \in Alerts, s \in Recipients :
        fate'[a][s] = "refused" <=> fate[a][s] = "refused"
  BY <1>1
<1> QED BY <1>1, <1>2, <1>3, CountedSame
-----------------------------------------------------------------------------
(***************************************************************************)
(* Types, and what the test has seen.                                      *)
(***************************************************************************)

LEMMA EnqueueTypes ==
  ASSUME TypeOK, Known, NEW pass \in SUBSET registered, enqueue(pass)
  PROVE  TypeOK' /\ Known'
<1>1. PICK a \in Alerts : a = d_alert
  BY DEF enqueue, TypeOK, Alerts
<1>2. Enqueued(a, registered, pass) /\ registered \in SUBSET Recipients
  BY <1>1 DEF enqueue, TypeOK
<1>3. /\ recipient_queues' \in [Recipients -> Seq(Alerts)]
      /\ fate' \in [Alerts -> [Recipients -> Fates]]
      /\ \A r \in Recipients :
           /\ Len(recipient_queues'[r]) <= QueueSize
           /\ r \notin registered => recipient_queues'[r] = recipient_queues[r]
  BY <1>2, EnqueuedIs
<1>4. num_dropped_alerts' \in Nat
  BY DEF enqueue, TypeOK
<1> QED BY <1>3, <1>4 DEF TypeOK, Known, Fates, enqueue, sourceVars, passVars,
                           scriptVars

LEMMA DispatchTypes ==
  ASSUME TypeOK, Known, Waiting, PendingOnce, NEW r \in Recipients,
         NEW passes \in BOOLEAN, dispatch_notification(r, passes)
  PROVE  TypeOK' /\ Known'
<1>1. /\ recipient_queues' \in [Recipients -> Seq(Alerts)]
      /\ \A s \in Recipients :
           /\ Len(recipient_queues'[s]) <= QueueSize
           /\ s \notin registered => recipient_queues'[s] = recipient_queues[s]
  BY DispatchPending
<1>2. fate' \in [Alerts -> [Recipients -> Fates]]
  BY DispatchFate
<1>3. num_dropped_alerts' \in Nat
  BY DEF dispatch_notification, recipient_enqueue, TypeOK
<1> QED BY <1>1, <1>2, <1>3 DEF TypeOK, Known, Fates, dispatch_notification, sourceVars,
                                 scriptVars

LEMMA DeleteTypes ==
  ASSUME TypeOK, Known, NEW r \in Deletable, delete_recipient(r)
  PROVE  TypeOK' /\ Known'
<1>1. r \in Recipients /\ r \notin Permanent
  BY PipelineAssumption DEF Permanent
<1>2. /\ recipient_queues' \in [Recipients -> Seq(Alerts)]
      /\ recipient_queues'[r] = <<>>
      /\ \A s \in Recipients \ {r} : recipient_queues'[s] = recipient_queues[s]
  BY <1>1 DEF delete_recipient, Known
<1>3. fate' \in [Alerts -> [Recipients -> Fates]]
  BY <1>1, QueueTypes, SettledFate DEF delete_recipient
<1>4. Len(<<>>) = 0 /\ QueueSize \in Nat
  BY PipelineAssumption
<1>5. \A s \in Recipients :
        /\ recipient_queues'[s] \in Seq(Alerts) /\ Len(recipient_queues'[s]) <= QueueSize
        /\ s \notin registered' => recipient_queues'[s] = <<>>
  BY <1>2, <1>4 DEF TypeOK, delete_recipient
<1> QED
  BY <1>1, <1>2, <1>3, <1>5 DEF TypeOK, Known, Fates, delete_recipient, sourceVars,
                                passVars, scriptVars

LEMMA DequeueTypes ==
  ASSUME TypeOK, Known, PendingOnce, NEW r \in Recipients, dequeue(r)
  PROVE  TypeOK' /\ Known'
<1>1. PICK q \in Seq(Alerts) : q = recipient_queues[r] /\ NoDup(q) /\ q # <<>>
  BY QueueTypes DEF PendingOnce, dequeue, Take
<1>2. Tail(q) \in Seq(Alerts) /\ Len(Tail(q)) <= Len(q) /\ Head(q) \in Alerts
  BY <1>1, InTail
<1>3. /\ recipient_queues'[r] = Tail(q)
      /\ recipient_queues' \in [Recipients -> Seq(Alerts)]
      /\ \A s \in Recipients \ {r} : recipient_queues'[s] = recipient_queues[s]
  BY <1>1, <1>2 DEF dequeue, Take, Known
<1>4. p_batch' \in Seq(Alerts)
  BY <1>1, <1>2 DEF dequeue, Take, TypeOK
<1>5. r \in registered
  BY <1>1 DEF TypeOK
<1>6. Len(q) \in Nat /\ Len(Tail(q)) \in Nat /\ QueueSize \in Nat /\ Len(q) <= QueueSize
  BY <1>1, <1>2, PipelineAssumption DEF TypeOK
<1>7. \A s \in Recipients :
        /\ recipient_queues'[s] \in Seq(Alerts) /\ Len(recipient_queues'[s]) <= QueueSize
        /\ s \notin registered => recipient_queues'[s] = <<>>
  <2> SUFFICES ASSUME NEW s \in Recipients
               PROVE  /\ recipient_queues'[s] \in Seq(Alerts)
                      /\ Len(recipient_queues'[s]) <= QueueSize
                      /\ s \notin registered => recipient_queues'[s] = <<>>
    OBVIOUS
  <2>1. CASE s = r
    <3>1. Len(Tail(q)) <= QueueSize
      BY <1>2, <1>6
    <3> QED BY <1>2, <1>3, <1>5, <2>1, <3>1
  <2>2. CASE s # r
    BY <1>3, <2>2 DEF TypeOK
  <2> QED BY <2>1, <2>2
<1> QED
  BY <1>3, <1>4, <1>7 DEF TypeOK, Known, dequeue, Take, sourceVars, scriptVars,
                              countVars

LEMMA DeliverTypes ==
  ASSUME TypeOK, Known, Batch, NEW success \in BOOLEAN, Deliver(success)
  PROVE  TypeOK' /\ Known'
<1>1. p_rec \in Recipients
  BY DEF Batch, Deliver
<1>2. fate' \in [Alerts -> [Recipients -> Fates]]
  BY <1>1, QueueTypes, SettledFate DEF Deliver
<1>3. p_batch' \in Seq(Alerts)
  BY DEF Deliver
<1> QED
  BY <1>2, <1>3 DEF TypeOK, Known, Fates, Deliver, sourceVars, recipientVars

LEMMA RaiseTypes ==
  ASSUME TypeOK, Known, NEW a \in Alerts, Raise(a)
  PROVE  TypeOK' /\ Known'
<1>1. ifaceQueue' \in Seq(IfaceAlerts) /\ internal_alerts_queue' \in Seq(InternalAlerts)
  <2>1. ifaceQueue \in Seq(IfaceAlerts) /\ internal_alerts_queue \in Seq(InternalAlerts)
    BY DEF TypeOK
  <2>2. CASE a \in IfaceAlerts
    BY <2>1, <2>2, InAppend DEF Raise
  <2>3. CASE a \notin IfaceAlerts
    <3>1. a \in InternalAlerts
      BY <2>3 DEF Alerts
    <3> QED BY <2>1, <2>3, <3>1, InAppend DEF Raise
  <2> QED BY <2>2, <2>3
<1> QED BY <1>1 DEF TypeOK, Known, Raise, recipientVars, passVars, scriptVars,
                      countVars

LEMMA TestedSame ==
  ASSUME Tested, UNCHANGED <<t_pc, raised, internal_alerts_queue, ifaceQueue>>
  PROVE  Tested'
BY DEF Tested
-----------------------------------------------------------------------------
(***************************************************************************)
(* The steps preserve the invariant.                                       *)
(***************************************************************************)

\* A step that leaves the notifications alone.
LEMMA Quiet ==
  ASSUME IInv,
         UNCHANGED <<recipient_queues, fate, num_dropped_alerts, p_rec, p_batch>>,
         p_batch # <<>> => UNCHANGED <<p_pc, dequeued>>
  PROVE  Batch' /\ PendingOnce' /\ Counted'
<1>1. Batch'
  <2>1. CASE p_batch # <<>>
    BY <2>1 DEF IInv, Batch
  <2>2. CASE p_batch = <<>>
    BY <2>2 DEF IInv, Batch
  <2> QED BY <2>1, <2>2
<1>2. PendingOnce'
  BY PendingSame DEF IInv
<1>3. Counted'
  BY DEF IInv, Counted, RefusedIface, RefusedInternal
<1> QED BY <1>1, <1>2, <1>3

LEMMA RaiseStep ==
  ASSUME IInv, NEW a \in Alerts, Raise(a)
  PROVE  IInv'
<1>1. TypeOK' /\ Known'
  BY RaiseTypes DEF IInv
<1>2. Waiting'
  BY RaiseWaiting DEF IInv, Waiting
<1>3. Batch' /\ PendingOnce' /\ Counted'
  BY Quiet DEF Raise, recipientVars, passVars, countVars
<1>4. Tested'
  BY DEF IInv, Tested, Raise
<1> QED BY <1>1, <1>2, <1>3, <1>4 DEF IInv, Waiting

LEMMA RegisterStep ==
  ASSUME IInv, NEW r \in Deletable, register_recipient(r)
  PROVE  IInv'
<1>1. r \in Recipients
  BY PipelineAssumption
<1>2. TypeOK' /\ Known'
  BY <1>1 DEF IInv, TypeOK, Known, register_recipient, sourceVars, passVars,
                 scriptVars, countVars
<1>3. Waiting'
  BY WaitingSame DEF IInv, Waiting, TypeOK, OnePlace, register_recipient, sourceVars,
                     passVars, countVars, Alerts
<1>4. Batch' /\ PendingOnce' /\ Counted'
  BY Quiet DEF register_recipient, passVars, countVars
<1>5. Tested'
  BY TestedSame DEF IInv, register_recipient, sourceVars
<1> QED BY <1>2, <1>3, <1>4, <1>5 DEF IInv, Waiting

LEMMA DeleteStep ==
  ASSUME IInv, NEW r \in Deletable, delete_recipient(r)
  PROVE  IInv'
<1>1. r \in Recipients /\ recipient_queues[r] \in Seq(Alerts)
  BY PipelineAssumption, QueueTypes DEF IInv
<1>2. TypeOK' /\ Known'
  BY DeleteTypes DEF IInv
<1>3. \A a \in Alerts : In(a, recipient_queues[r]) => fate[a][r] = "pending"
  BY <1>1 DEF IInv, PendingOnce
<1>4. \A a \in Alerts, s \in Recipients :
        fate'[a][s] = IF In(a, recipient_queues[r]) /\ s = r THEN "settled"
                      ELSE fate[a][s]
  BY <1>1, SettledFate DEF IInv, delete_recipient
<1>5. \A a \in Alerts, s \in Recipients : fate'[a][s] = "none" <=> fate[a][s] = "none"
  BY <1>3, <1>4
<1>6. /\ UNCHANGED <<raised, ifaceQueue, internal_alerts_queue, d_alert, p_alert,
                     p_pc, p_todo, p_rec, p_batch, dequeued, t_pc, num_dropped_alerts,
                     lost>>
  BY DEF delete_recipient, sourceVars, passVars
<1>7. Waiting'
  BY <1>5, <1>6, WaitingSame DEF IInv, Waiting, TypeOK, OnePlace, Alerts
<1>8. Batch'
  BY <1>6, BatchSame DEF IInv
<1>9. PendingOnce'
  BY <1>1, DeletePending DEF IInv
<1>10. Counted'
  BY <1>1, <1>3, <1>6, SettledCounted DEF IInv, delete_recipient
<1>11. Tested'
  BY <1>6, TestedSame DEF IInv
<1> QED BY <1>2, <1>7, <1>8, <1>9, <1>10, <1>11 DEF IInv, Waiting

LEMMA DequeueThreadStep ==
  ASSUME IInv, DequeueThread
  PROVE  IInv'
<1>1. CASE DequeueAlert
  <2>1. PICK h \in IfaceAlerts, q \in Seq(IfaceAlerts) :
          h = Head(ifaceQueue) /\ q = Tail(ifaceQueue)
    BY <1>1, InTail DEF IInv, TypeOK, OnePlace, DequeueAlert
  <2>2. TypeOK' /\ Known'
    BY <1>1, <2>1 DEF IInv, TypeOK, Known, DequeueAlert, recipientVars, passVars,
                           scriptVars, countVars
  <2>3. Waiting'
    BY <1>1, TakeWaiting DEF IInv, Waiting
  <2>4. Batch' /\ PendingOnce' /\ Counted'
    BY <1>1, Quiet DEF DequeueAlert, recipientVars, passVars, countVars
  <2>5. Tested'
    BY <1>1 DEF IInv, Tested, DequeueAlert
  <2> QED BY <2>2, <2>3, <2>4, <2>5 DEF IInv, Waiting
<1>2. ASSUME NEW pass \in SUBSET registered, enqueue(pass) PROVE IInv'
  <2>1. TypeOK' /\ Known'
    BY <1>2, EnqueueTypes DEF IInv
  <2>2. Waiting'
    BY <1>2, EnqueueWaiting DEF IInv, Waiting
  <2>3. Batch'
    BY <1>2, BatchSame DEF IInv, enqueue, passVars
  <2>4. PendingOnce'
    BY <1>2, EnqueuePending DEF IInv, Waiting
  <2>5. Counted'
    BY <1>2, EnqueueCounted DEF IInv, Waiting
  <2>6. Tested'
    BY <1>2, TestedSame DEF IInv, enqueue, sourceVars
  <2> QED BY <2>1, <2>2, <2>3, <2>4, <2>5, <2>6 DEF IInv, Waiting
<1> QED BY <1>1, <1>2 DEF DequeueThread

\* The pass takes an alert of the data path, or goes on to its next part.
LEMMA PassMoves ==
  ASSUME IInv,
         \/ PopInternal \/ Dispatched \/ PoppedAll \/ CheckedAll \/ EndPass
         \/ \E reloaded, over \in BOOLEAN : BeginPass(reloaded, over)
         \/ \E stops \in BOOLEAN : LoseInternal(stops)
         \/ \E r \in Recipients, ready \in BOOLEAN : last_use(r, ready)
  PROVE  IInv'
<1>1. p_batch # <<>> => p_pc = "serve"
  BY DEF IInv, Batch
<1>2. CASE PopInternal
  <2>1. PICK h \in InternalAlerts, q \in Seq(InternalAlerts) :
          h = Head(internal_alerts_queue) /\ q = Tail(internal_alerts_queue)
    BY <1>2, InTail DEF IInv, TypeOK, OnePlace, PopInternal
  <2>2. TypeOK' /\ Known'
    BY <1>2, <2>1 DEF IInv, TypeOK, Known, PopInternal, recipientVars, scriptVars,
                           countVars
  <2>3. Waiting'
    BY <1>2, PopWaiting DEF IInv, Waiting
  <2>4. Batch' /\ PendingOnce' /\ Counted'
    BY <1>1, <1>2, Quiet DEF PopInternal, recipientVars, countVars
  <2>5. Tested'
    BY <1>2 DEF IInv, Tested, PopInternal
  <2> QED BY <2>2, <2>3, <2>4, <2>5 DEF IInv, Waiting
<1>3. CASE Dispatched
  <2>1. TypeOK' /\ Known'
    BY <1>3 DEF IInv, TypeOK, Known, Dispatched, sourceVars, recipientVars,
                scriptVars, countVars
  <2>2. Waiting'
    BY <1>3, DispatchedWaiting DEF IInv, Waiting
  <2>3. Batch' /\ PendingOnce' /\ Counted'
    BY <1>1, <1>3, Quiet DEF Dispatched, recipientVars, countVars
  <2>4. Tested'
    BY <1>3, TestedSame DEF IInv, Dispatched, sourceVars
  <2> QED BY <2>1, <2>2, <2>3, <2>4 DEF IInv, Waiting
<1>4. ASSUME /\ UNCHANGED <<sourceVars, d_alert, recipient_queues, registered, p_alert,
                            p_rec, p_batch, t_pc, num_dropped_alerts, fate, lost>>
             /\ alerts_enabled' \in BOOLEAN /\ error_recent' \in BOOLEAN
             /\ dequeued' \in [Recipients -> BOOLEAN]
             /\ Permanent \subseteq cached_recipients' /\ cached_recipients' \subseteq Recipients
             /\ p_pc # "dispatch" /\ p_pc' \in {"end", "pop", "check", "serve"}
             /\ p_todo' \subseteq Recipients /\ ready_recipients' \subseteq Recipients,
             p_batch # <<>> => UNCHANGED <<p_pc, dequeued>>
      PROVE  IInv'
  <2>1. TypeOK' /\ Known'
    BY <1>4 DEF IInv, TypeOK, Known, sourceVars
  <2>2. Waiting'
    BY <1>4, WaitingSame DEF IInv, Waiting, TypeOK, sourceVars
  <2>3. Batch' /\ PendingOnce' /\ Counted'
    BY <1>4, Quiet
  <2>4. Tested'
    BY <1>4, TestedSame DEF IInv, sourceVars
  <2> QED BY <2>1, <2>2, <2>3, <2>4 DEF IInv, Waiting
<1>5. /\ dequeued \in [Recipients -> BOOLEAN]
      /\ Permanent \subseteq registered /\ registered \subseteq Recipients
      /\ Permanent \subseteq cached_recipients /\ cached_recipients \subseteq Recipients
      /\ p_todo \subseteq Recipients /\ ready_recipients \subseteq Recipients
      /\ alerts_enabled \in BOOLEAN /\ error_recent \in BOOLEAN
  BY DEF IInv, TypeOK, Known
<1>6. CASE PoppedAll
  BY <1>1, <1>4, <1>5, <1>6 DEF PoppedAll, recipientVars, scriptVars, countVars
<1>7. CASE CheckedAll
  BY <1>1, <1>4, <1>5, <1>7 DEF CheckedAll, recipientVars, scriptVars, countVars
<1>8. CASE EndPass
  BY <1>4, <1>5, <1>8 DEF EndPass, recipientVars, scriptVars, countVars
<1>9. ASSUME NEW reloaded \in BOOLEAN, NEW over \in BOOLEAN, BeginPass(reloaded, over)
      PROVE  IInv'
  <2>1. Permanent \subseteq cached_recipients' /\ cached_recipients' \subseteq Recipients
    BY <1>5, <1>9 DEF BeginPass
  <2>2. alerts_enabled' \in BOOLEAN
    BY <1>5, <1>9 DEF BeginPass
  <2>3. error_recent' \in BOOLEAN
    BY <1>5, <1>9 DEF BeginPass
  <2>4. p_pc = "end" /\ p_pc' \in {"end", "pop"} /\ p_batch = <<>>
    BY <1>1, <1>9 DEF BeginPass
  <2>5. UNCHANGED <<sourceVars, d_alert, recipientVars, p_alert, p_todo,
                    ready_recipients, p_rec, p_batch, t_pc, countVars>>
    BY <1>9 DEF BeginPass
  <2> QED BY <1>4, <1>5, <2>1, <2>2, <2>3, <2>4, <2>5 DEF recipientVars, countVars
<1>10. ASSUME NEW r \in Recipients, NEW ready \in BOOLEAN, last_use(r, ready) PROVE IInv'
  <2>1. dequeued' \in [Recipients -> BOOLEAN]
    BY <1>5, <1>10 DEF last_use
  <2>2. p_todo' \subseteq Recipients /\ ready_recipients' \subseteq Recipients
    BY <1>5, <1>10 DEF last_use
  <2>3. p_batch = <<>>
    BY <1>1, <1>10 DEF last_use
  <2>4. p_pc = "check" /\ p_pc' = "check"
    BY <1>10 DEF last_use
  <2>5. /\ UNCHANGED <<sourceVars, d_alert, recipient_queues, registered, p_alert,
                       p_rec, p_batch, t_pc, num_dropped_alerts, fate, lost>>
        /\ UNCHANGED <<cached_recipients, alerts_enabled, error_recent>>
    BY <1>10 DEF last_use, scriptVars, countVars
  <2> QED BY <1>4, <1>5, <2>1, <2>2, <2>3, <2>4, <2>5
<1>11. ASSUME NEW stops \in BOOLEAN, LoseInternal(stops) PROVE IInv'
  <2>1. p_alert \in InternalAlerts
    BY <1>11 DEF IInv, TypeOK, OnePlace, LoseInternal
  <2>2. p_pc' \in {"end", "pop"} /\ p_batch = <<>>
    BY <1>1, <1>11 DEF LoseInternal
  <2>3. TypeOK' /\ Known'
    BY <1>11, <2>1, <2>2 DEF IInv, TypeOK, Known, LoseInternal, sourceVars,
                             recipientVars, scriptVars
  <2>4. Waiting'
    BY <1>11, LoseWaiting DEF IInv, Waiting
  <2>5. Batch' /\ PendingOnce' /\ Counted'
    BY <1>11, <2>2, Quiet DEF LoseInternal, recipientVars
  <2>6. Tested'
    BY <1>11, TestedSame DEF IInv, LoseInternal, sourceVars
  <2> QED BY <2>3, <2>4, <2>5, <2>6 DEF IInv, Waiting
<1> QED BY <1>2, <1>3, <1>6, <1>7, <1>8, <1>9, <1>10, <1>11

LEMMA PassStep ==
  ASSUME IInv, Pass
  PROVE  IInv'
<1>1. ASSUME NEW r \in Recipients, NEW passes \in BOOLEAN,
             dispatch_notification(r, passes)
      PROVE  IInv'
  <2>1. TypeOK' /\ Known'
    BY <1>1, DispatchTypes DEF IInv, Waiting
  <2>2. Waiting'
    BY <1>1, DispatchWaiting DEF IInv, Waiting
  <2>3. Batch'
    BY <1>1, BatchSame DEF IInv, dispatch_notification
  <2>4. PendingOnce'
    BY <1>1, DispatchPending DEF IInv, Waiting
  <2>5. Counted'
    BY <1>1, DispatchCounted DEF IInv, Waiting
  <2>6. Tested'
    BY <1>1, TestedSame DEF IInv, dispatch_notification, sourceVars
  <2> QED BY <2>1, <2>2, <2>3, <2>4, <2>5, <2>6 DEF IInv, Waiting
<1>2. ASSUME NEW r \in Recipients, dequeue(r)
      PROVE  IInv'
  <2>1. UNCHANGED <<raised, ifaceQueue, internal_alerts_queue, d_alert, p_alert, p_pc,
                    p_todo, t_pc, num_dropped_alerts, fate, lost>>
    BY <1>2 DEF dequeue, Take, sourceVars, countVars
  <2>2. TypeOK' /\ Known'
    BY <1>2, DequeueTypes DEF IInv
  <2>3. Waiting'
    BY <2>1, WaitingSame DEF IInv, Waiting, TypeOK, OnePlace, Alerts
  <2>4. PendingOnce' /\ Batch'
    BY <1>2, TakePending DEF IInv
  <2>5. Counted'
    BY <2>1 DEF IInv, Counted, RefusedIface, RefusedInternal
  <2>6. Tested'
    BY <2>1, TestedSame DEF IInv
  <2> QED BY <2>2, <2>3, <2>4, <2>5, <2>6 DEF IInv, Waiting
<1>3. ASSUME NEW success \in BOOLEAN, Deliver(success)
      PROVE  IInv'
  <2>1. UNCHANGED <<raised, ifaceQueue, internal_alerts_queue, d_alert, p_alert, p_pc,
                    p_todo, t_pc, num_dropped_alerts, lost>>
    BY <1>3 DEF Deliver, sourceVars
  <2>2. PICK r \in Recipients, q \in Seq(Alerts) : r = p_rec /\ q = p_batch
    BY <1>3 DEF IInv, Batch, TypeOK, Deliver
  <2>3. \A a \in Alerts : In(a, q) => fate[a][r] = "pending"
    BY <2>2 DEF IInv, PendingOnce
  <2>4. fate' = [a \in Alerts |-> IF a \in ToSet(q)
                                  THEN [fate[a] EXCEPT ![r] = "settled"]
                                  ELSE fate[a]]
    BY <1>3, <2>2 DEF Deliver
  <2>5. \A a \in Alerts, s \in Recipients :
          fate'[a][s] = IF In(a, q) /\ s = r THEN "settled" ELSE fate[a][s]
    BY <2>4, SettledFate DEF IInv
  <2>6. \A a \in Alerts, s \in Recipients : fate'[a][s] = "none" <=> fate[a][s] = "none"
    BY <2>3, <2>5
  <2>7. TypeOK' /\ Known'
    BY <1>3, DeliverTypes DEF IInv
  <2>8. Waiting'
    BY <2>1, <2>6, WaitingSame DEF IInv, Waiting, TypeOK, OnePlace, Alerts
  <2>9. PendingOnce' /\ Batch'
    BY <1>3, DeliverPending DEF IInv
  <2>10. Counted'
    BY <2>1, <2>3, <2>4, SettledCounted DEF IInv
  <2>11. Tested'
    BY <2>1, TestedSame DEF IInv
  <2> QED BY <2>7, <2>8, <2>9, <2>10, <2>11 DEF IInv, Waiting
<1> QED BY <1>1, <1>2, <1>3, PassMoves DEF Pass

LEMMA DrainedStep ==
  ASSUME IInv, Drained
  PROVE  IInv'
<1>1. /\ UNCHANGED <<raised, ifaceQueue, internal_alerts_queue, d_alert,
                     recipient_queues, registered, dequeued, cached_recipients,
                     alerts_enabled, error_recent, p_pc, p_alert, p_todo,
                     ready_recipients, p_rec, p_batch, num_dropped_alerts, fate, lost>>
      /\ t_pc' \in {"idle", "ifaces", "recipients", "drained"}
  BY DEF Drained, TestInternal, alertsQueuesDrained, recipients_are_empty, Test,
         sourceVars, recipientVars, passVars, scriptVars, countVars
<1>2. TypeOK' /\ Known'
  BY <1>1 DEF IInv, TypeOK, Known
<1>3. Waiting'
  BY <1>1, WaitingSame DEF IInv, Waiting, TypeOK, OnePlace, Alerts
<1>4. Batch' /\ PendingOnce' /\ Counted'
  BY <1>1, Quiet
<1>5. Tested'
  <2>1. CASE TestInternal
    BY <1>1, <2>1 DEF TestInternal, Test, Tested
  <2>2. CASE alertsQueuesDrained
    BY <1>1, <2>2 DEF IInv, alertsQueuesDrained, Test, Tested
  <2>3. CASE recipients_are_empty
    BY <1>1, <2>3 DEF IInv, recipients_are_empty, Test, Tested
  <2> QED BY <2>1, <2>2, <2>3 DEF Drained
<1> QED BY <1>2, <1>3, <1>4, <1>5 DEF IInv, Waiting

LEMMA Initially == Init => IInv
<1> SUFFICES ASSUME Init PROVE IInv
  OBVIOUS
<1>1. /\ <<>> \in Seq(Alerts) /\ <<>> \in Seq(IfaceAlerts) /\ <<>> \in Seq(InternalAlerts)
      /\ Len(<<>>) = 0 /\ QueueSize \in Nat /\ QueueSize >= 0
  BY PipelineAssumption
<1>2. \A r \in Recipients : recipient_queues[r] = <<>>
  BY DEF Init
<1>3. fate \in [Alerts -> [Recipients -> Fates]]
  BY DEF Init, Fates
<1>4. TypeOK
  BY <1>1, <1>2, <1>3 DEF Init, TypeOK, Fates
<1>5. Known
  BY <1>1 DEF Init, Known, Permanent
<1>6. \A a \in Alerts, r \in Recipients : fate[a][r] = "none"
  BY DEF Init
<1>7. OnePlace
  BY InEmpty, PipelineAssumption DEF Init, OnePlace
<1>8. Untouched
  BY <1>6 DEF Init, Untouched
<1>9. Offered
  BY DEF Init, Offered
<1>10. Batch
  BY DEF Init, Batch
<1>11. PendingOnce
  BY <1>2, <1>6, InEmpty DEF Init, PendingOnce
<1>12. Counted
  <2>1. RefusedIface = {}
    <3>1. \A a \in Alerts : "refused" \notin Range(fate[a])
      BY <1>3, <1>6, RefusedSomewhere
    <3> QED BY <3>1 DEF RefusedIface, Alerts
  <2>2. RefusedInternal = {}
    BY <1>6 DEF RefusedInternal, Alerts
  <2> QED BY <2>1, <2>2, FS_EmptySet DEF Init, Counted
<1>13. Tested
  BY DEF Init, Tested
<1> QED BY <1>4, <1>5, <1>7, <1>8, <1>9, <1>10, <1>11, <1>12, <1>13 DEF IInv

LEMMA Stuttering ==
  ASSUME IInv, UNCHANGED vars
  PROVE  IInv'
<1>1. UNCHANGED <<raised, ifaceQueue, internal_alerts_queue, d_alert,
                  recipient_queues, registered, dequeued, cached_recipients,
                  alerts_enabled, error_recent, p_pc, p_alert, p_todo,
                  ready_recipients, p_rec, p_batch, t_pc, num_dropped_alerts, fate,
                  lost>>
  BY DEF vars, sourceVars, recipientVars, passVars, scriptVars, countVars
<1>2. TypeOK' /\ Known'
  BY <1>1 DEF IInv, TypeOK, Known
<1>3. Waiting'
  BY <1>1, WaitingSame DEF IInv, Waiting, TypeOK, OnePlace, Alerts
<1>4. Batch' /\ PendingOnce' /\ Counted'
  BY <1>1, Quiet
<1>5. Tested'
  BY <1>1, TestedSame DEF IInv
<1> QED BY <1>2, <1>3, <1>4, <1>5 DEF IInv, Waiting

LEMMA Inductive == IInv /\ [Next]_vars => IInv'
<1> SUFFICES ASSUME IInv, [Next]_vars PROVE IInv'
  OBVIOUS
<1>1. ASSUME NEW a \in Alerts, Raise(a) PROVE IInv'
  BY <1>1, RaiseStep
<1>2. ASSUME NEW r \in Deletable, register_recipient(r) PROVE IInv'
  BY <1>2, RegisterStep
<1>3. ASSUME NEW r \in Deletable, delete_recipient(r) PROVE IInv'
  BY <1>3, DeleteStep
<1>4. CASE DequeueThread
  BY <1>4, DequeueThreadStep
<1>5. CASE Pass
  BY <1>5, PassStep
<1>6. CASE Drained
  BY <1>6, DrainedStep
<1>7. CASE UNCHANGED vars
  BY <1>7, Stuttering
<1> QED BY <1>1, <1>2, <1>3, <1>4, <1>5, <1>6, <1>7 DEF Next
-----------------------------------------------------------------------------
(***************************************************************************)
(* The theorems.                                                           *)
(***************************************************************************)

LEMMA WhatBecomes == IInv => OfferedOrLost
<1> SUFFICES ASSUME IInv PROVE OfferedOrLost
  OBVIOUS
<1>1. TypeOK /\ Known
  BY DEF IInv
<1>2. ASSUME NEW a \in raised \ (Upstream \cup lost), NEW r \in Recipients \ Deletable
      PROVE  fate[a][r] # "none"
  <2>1. a \in Alerts /\ a # NoAlert
    BY <1>1, PipelineAssumption DEF TypeOK
  <2>2. /\ ifaceQueue \in Seq(IfaceAlerts)
        /\ internal_alerts_queue \in Seq(InternalAlerts)
    BY <1>1 DEF TypeOK
  <2>3. ~In(a, ifaceQueue) /\ ~In(a, internal_alerts_queue)
    BY <2>2, InSet DEF Upstream
  <2>4. a \notin {d_alert, p_alert}
    BY <2>1 DEF Upstream, InHand
  <2> QED BY <2>3, <2>4 DEF IInv, Offered, Permanent
<1>3. ASSUME NEW a \in Alerts, NEW r \in Recipients
      PROVE  Copies(a, Pending(r)) = IF fate[a][r] = "pending" THEN 1 ELSE 0
  <2>1. PICK q \in Seq(Alerts), b \in Seq(Alerts) :
          q = recipient_queues[r] /\ b = (IF p_rec = r THEN p_batch ELSE <<>>)
    <3>1. /\ recipient_queues[r] \in Seq(Alerts)
          /\ p_batch \in Seq(Alerts) /\ <<>> \in Seq(Alerts)
      BY <1>1, QueueTypes
    <3>2. (IF p_rec = r THEN p_batch ELSE <<>>) \in Seq(Alerts)
      BY <3>1
    <3> QED BY <3>1, <3>2
  <2>2. \A x : In(x, b) <=> p_rec = r /\ In(x, p_batch)
    BY <2>1, InEmpty
  <2>3. NoDup(q) /\ NoDup(b) /\ \A x \in Alerts : ~(In(x, q) /\ In(x, b))
    BY <2>1, <2>2, InEmpty DEF IInv, PendingOnce
  <2>4. /\ q \o b \in Seq(Alerts) /\ NoDup(q \o b)
        /\ In(a, q \o b) <=> In(a, q) \/ In(a, b)
    BY <2>3, InConcat
  <2>5. fate[a][r] = "pending" <=> In(a, q \o b)
    BY <2>1, <2>2, <2>4 DEF IInv, PendingOnce
  <2>6. Pending(r) = q \o b
    BY <2>1 DEF Pending
  <2>7. Copies(a, q \o b) = IF In(a, q \o b) THEN 1 ELSE 0
    BY <2>4, CopiesAre
  <2> QED BY <2>5, <2>6, <2>7
<1>4. num_dropped_alerts =
        Cardinality({a \in IfaceAlerts : "refused" \in Range(fate[a])})
        + Cardinality({ar \in InternalAlerts \X Recipients :
                         fate[ar[1]][ar[2]] = "refused"})
  BY DEF IInv, Counted, RefusedIface, RefusedInternal
<1> QED BY <1>1, <1>2, <1>3, <1>4 DEF OfferedOrLost

\* However the dequeue threads, the passes of the script, the deletion and the
\* registration of recipients interleave: unless the script lost it, which happens to
\* alerts of the data path only, an alert that has left the queues of the interfaces
\* and the internal queue was offered to every recipient that is never deleted; a
\* recipient has one copy of what it still has to deliver; and every refusal is
\* counted (Recipients::enqueue, dequeue, incNumDroppedAlerts).
THEOREM AlertsOfferedOrLost == Spec => []OfferedOrLost
<1>1. Spec => []IInv
  BY Initially, Inductive, PTL DEF Spec
<1> QED BY <1>1, WhatBecomes, PTL

\* The test that says that the pipeline is drained is right about everything but
\* the alerts in the hands of a thread.
LEMMA DrainedStepSettled ==
  ASSUME IInv, [Next]_vars, t_pc # "drained", t_pc' = "drained",
         NEW a \in Alerts \ InHand, NEW r \in Recipients
  PROVE  fate[a][r] # "pending" /\ (r \notin Deletable /\ a \notin lost => fate[a][r] # "none")
<1>1. recipients_are_empty
  BY DEF Next, vars, Raise, register_recipient, delete_recipient, DequeueThread,
         DequeueAlert, enqueue, Pass, PopInternal, Dispatched, PoppedAll, CheckedAll,
         EndPass, BeginPass, LoseInternal, dispatch_notification, last_use, dequeue, Take, Deliver,
         Drained, TestInternal, alertsQueuesDrained, Test
<1>2. t_pc = "recipients" /\ empty
  BY <1>1 DEF recipients_are_empty, Test
<1>3. raised = Alerts /\ internal_alerts_queue = <<>> /\ ifaceQueue = <<>>
  BY <1>2 DEF IInv, Tested
<1>4. p_rec # r
  <2>1. p_batch = <<>>
    BY <1>2 DEF IInv, Batch, empty
  <2> QED BY <2>1, PipelineAssumption DEF IInv, Batch
<1>5. recipient_queues[r] = <<>>
  BY <1>2 DEF empty
<1>6. fate[a][r] # "pending"
  BY <1>4, <1>5, InEmpty DEF IInv, PendingOnce
<1>7. ASSUME r \notin Deletable, a \notin lost PROVE fate[a][r] # "none"
  <2>1. a \notin {d_alert, p_alert}
    BY PipelineAssumption DEF InHand
  <2> QED BY <1>3, <1>7, <2>1, InEmpty DEF IInv, Offered, Permanent
<1> QED BY <1>6, <1>7

\* When alerts_pipeline_drained() says so, no recipient has anything left to
\* deliver, notifications taken by the script included, and every alert has been
\* offered or lost by the script: but for an alert that a thread has in its hands between two queues.
\* The test reads the queues one after the other while they change.
THEOREM DrainedMeansSettled == Spec => DrainedIsSettled
<1>1. Spec => []IInv
  BY Initially, Inductive, PTL DEF Spec
<1>2. IInv /\ [Next]_vars =>
        [t_pc # "drained" /\ t_pc' = "drained" =>
           \A a \in Alerts \ InHand, r \in Recipients :
             /\ fate[a][r] # "pending"
             /\ r \notin Deletable /\ a \notin lost => fate[a][r] # "none"]_vars
  BY DrainedStepSettled
<1> QED BY <1>1, <1>2, PTL DEF Spec, DrainedIsSettled
=============================================================================
