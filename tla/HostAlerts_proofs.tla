-------------------------- MODULE HostAlerts_proofs -------------------------
(***************************************************************************)
(* The safety of the alerts of a host, for any number of checks and alerts *)
(* and every length of the queue: no deleted alert is used, none is        *)
(* forgotten, the host outlives its events, counts and score are given     *)
(* back, the recipients and the filter learn of every event.               *)
(*                                                                         *)
(* The inductive invariant is about the events under way, in the order in  *)
(* which they will be handled: the engage event of an alert comes before   *)
(* its release, and an alert whose release is the last one is followed by  *)
(* the engage event of whatever is engaged after it.                       *)
(***************************************************************************)
EXTENDS HostAlerts, FiniteSetTheorems, TLAPS

\* The events under way: the one being notified, at 0, and those in the queue.
Slots == {k \in 0 .. Len(hostAlertsQueue) : k = 0 => d_pc = "notify"}
Event(k) == IF k = 0 THEN d_pair ELSE hostAlertsQueue[k]
OnTheWay(a, rel) == \E k \in Slots : Event(k) = <<a, rel>>

Engaged(a) == \E c \in Checks : engaged_alerts[c] = a
EngagedChecks == {c \in Checks : engaged_alerts[c] # NoAlert}

\* The use of the host is counted after the event is queued.
UsesCounted ==
  uses = Len(hostAlertsQueue) + (IF d_pc = "idle" THEN 0 ELSE 1)
                              - (IF i_pc = "count" THEN 1 ELSE 0)

DeletedQuiet ==
  host = "deleted" =>
    i_pc = "idle" /\ Len(hostAlertsQueue) = 0 /\ d_pc = "idle"

\* An engaged alert is its check's, and has the flag released only in the
\* middle of its release.
Engagement ==
  /\ \A c \in Checks : engaged_alerts[c] # NoAlert =>
       LET a == engaged_alerts[c]
       IN /\ memory[a] = "live" /\ check[a] = c
          /\ released[a] => i_pc = "remove" /\ i_alert = a
  /\ i_pc = "remove" => /\ i_alert \in Alerts /\ released[i_alert]
                        /\ engaged_alerts[check[i_alert]] = i_alert
  /\ \A a \in Alerts : memory[a] = "none" => ~released[a] /\ ~last_released[a]

Balanced ==
  num_engaged_alerts = Cardinality(EngagedChecks) /\ score = num_engaged_alerts

\* An alert has at most two events, the engage event first.
InOrder ==
  /\ d_pc = "notify" => d_pair \in Pairs
  /\ \A k, l \in Slots : k < l /\ Event(k)[1] = Event(l)[1]
                           => ~Event(k)[2] /\ Event(l)[2]

\* The alert of an event: allocated, and no longer engaged once released.
EventsMatch ==
  \A k \in Slots : LET a == Event(k)[1]
                   IN /\ memory[a] # "none"
                      /\ ~refused => memory[a] = "live"
                      /\ Event(k)[2] => released[a] /\ ~Engaged(a)

NotForgotten ==
  \A a \in Alerts : memory[a] = "live" => Engaged(a) \/ OnTheWay(a, TRUE)

EngageKnown ==
  ~refused => \A a \in Alerts : memory[a] # "none" =>
                "engage" \in notified[a] \/ OnTheWay(a, FALSE)

\* What the filter will become: an engaged alert has set it or will set it, no
\* event of a last released alert comes after the engagement of another one,
\* and when nothing is engaged the last event of all clears it.
FilterFollows ==
  ~refused =>
    /\ \A c \in Checks : engaged_alerts[c] # NoAlert =>
         LET a == engaged_alerts[c]
         IN ~released[a] => filter \/ OnTheWay(a, FALSE)
    /\ \A k \in Slots, c \in Checks :
         engaged_alerts[c] # NoAlert /\ last_released[Event(k)[1]] =>
           \E l \in Slots : k < l /\ Event(l) = <<engaged_alerts[c], FALSE>>
    /\ EngagedChecks = {} =>
         IF Slots = {} THEN ~filter
         ELSE LET p == Event(Len(hostAlertsQueue))
              IN p[2] /\ last_released[p[1]]

IInv == /\ TypeOK /\ UsesCounted /\ DeletedQuiet /\ Engagement /\ Balanced
        /\ InOrder /\ EventsMatch /\ NotForgotten /\ EngageKnown
        /\ EngageBeforeRelease /\ FilterFollows
-----------------------------------------------------------------------------
(***************************************************************************)
(* How the steps change the events under way.                              *)
(***************************************************************************)

LEMMA SlotsAre ==
  ASSUME TypeOK
  PROVE  /\ Len(hostAlertsQueue) \in Nat
         /\ Slots \subseteq 0 .. Len(hostAlertsQueue)
         /\ \A k \in Slots : k # 0 => Event(k) = hostAlertsQueue[k]
         /\ 0 \in Slots <=> d_pc = "notify"
BY DEF TypeOK, Slots, Event

LEMMA EventTypes ==
  ASSUME TypeOK, InOrder
  PROVE  \A k \in Slots : /\ Event(k) \in Pairs /\ Event(k)[1] \in Alerts
                          /\ Event(k)[2] \in BOOLEAN
                          /\ Event(k) = <<Event(k)[1], Event(k)[2]>>
<1>1. \A k \in Slots : Event(k) \in Pairs
  BY DEF TypeOK, InOrder, Slots, Event
<1> QED BY <1>1 DEF Pairs

LEMMA EventsSame ==
  ASSUME UNCHANGED <<hostAlertsQueue, d_pc, d_pair>>
  PROVE  /\ Slots' = Slots /\ \A k : Event(k)' = Event(k)
         /\ \A a, r : OnTheWay(a, r)' <=> OnTheWay(a, r)
BY DEF Slots, Event, OnTheWay

LEMMA EventsQueued ==
  ASSUME TypeOK, NEW p \in Pairs, NEW n \in Nat, n = Len(hostAlertsQueue),
         hostAlertsQueue' = Append(hostAlertsQueue, p),
         UNCHANGED <<d_pc, d_pair>>
  PROVE  /\ Len(hostAlertsQueue') = n + 1
         /\ hostAlertsQueue' \in Seq(Pairs)
         /\ Slots' = Slots \cup {n + 1}
         /\ \A k \in Slots : k \in Int /\ k < n + 1 /\ Event(k)' = Event(k)
         /\ Event(n + 1)' = p
<1>1. /\ n \in Nat /\ Len(hostAlertsQueue') = n + 1
      /\ hostAlertsQueue' \in Seq(Pairs)
      /\ \A k \in 1 .. n : hostAlertsQueue'[k] = hostAlertsQueue[k]
      /\ hostAlertsQueue'[n + 1] = p
  BY DEF TypeOK
<1>2. Slots' = Slots \cup {n + 1}
  BY <1>1 DEF Slots
<1>3. \A k \in Slots : k \in Int /\ k < n + 1 /\ Event(k)' = Event(k)
  BY <1>1 DEF Slots, Event
<1>4. Event(n + 1)' = p
  BY <1>1 DEF Event
<1> QED BY <1>1, <1>2, <1>3, <1>4

LEMMA EventsShift ==
  ASSUME TypeOK, Dequeue
  PROVE  /\ Len(hostAlertsQueue) \in Nat /\ Len(hostAlertsQueue) > 0
         /\ Len(hostAlertsQueue') = Len(hostAlertsQueue) - 1
         /\ hostAlertsQueue' \in Seq(Pairs) /\ d_pair' \in Pairs
         /\ \A k \in Slots' : k \in Int /\ k + 1 \in Slots
                              /\ Event(k)' = Event(k + 1)
         /\ \A k \in Slots : k \in Int /\ k - 1 \in Slots'
                             /\ Event(k - 1)' = Event(k)
<1> DEFINE n == Len(hostAlertsQueue)
<1>1. /\ n \in Nat /\ n > 0 /\ Len(hostAlertsQueue') = n - 1
      /\ hostAlertsQueue' \in Seq(Pairs)
      /\ \A k \in 1 .. n - 1 : hostAlertsQueue'[k] = hostAlertsQueue[k + 1]
      /\ d_pair' = hostAlertsQueue[1] /\ d_pair' \in Pairs
  BY DEF TypeOK, Dequeue
<1>2. d_pc = "idle" /\ d_pc' = "notify"
  BY DEF Dequeue
<1> HIDE DEF n
<1>3. Slots = 1 .. n /\ Slots' = 0 .. n - 1
  BY <1>1, <1>2 DEF Slots, n
<1>4. \A k \in 1 .. n : Event(k) = hostAlertsQueue[k]
  BY <1>1 DEF Event
<1>5. \A k \in 0 .. n - 1 : Event(k)' = hostAlertsQueue[k + 1]
  BY <1>1 DEF Event
<1>6. \A k \in Slots' : k \in Int /\ k + 1 \in Slots /\ Event(k)' = Event(k + 1)
  BY <1>1, <1>3, <1>4, <1>5
<1>7. \A k \in Slots : k \in Int /\ k - 1 \in Slots' /\ Event(k - 1)' = Event(k)
  BY <1>1, <1>3, <1>4, <1>5
<1> QED BY <1>1, <1>6, <1>7 DEF n

LEMMA EventsHandled ==
  ASSUME TypeOK, enqueueAlertToRecipients
  PROVE  /\ Slots' = Slots \ {0} /\ 0 \in Slots /\ Event(0) = d_pair
         /\ \A k : Event(k)' = Event(k)
         /\ \A k \in Slots' : 0 < k
BY DEF TypeOK, enqueueAlertToRecipients, Slots, Event

LEMMA EventsForgotten ==
  ASSUME TypeOK, decUses
  PROVE  /\ Slots' = Slots /\ \A k \in Slots : k # 0 /\ Event(k)' = Event(k)
         /\ \A a, r : OnTheWay(a, r)' <=> OnTheWay(a, r)
BY DEF TypeOK, decUses, Slots, Event, OnTheWay
-----------------------------------------------------------------------------
(***************************************************************************)
(* The kinds of steps.                                                     *)
(***************************************************************************)

\* Steps of the inline thread that neither engage nor release anything.
Quiet ==
  /\ UNCHANGED <<memory, released, last_released, check, hostVars,
                 hostAlertsQueue, dequeueVars, refused, i_alert>>
  /\ i_pc # "remove" /\ i_pc' # "remove"

\* releaseAlert() of a check's engaged alert.
Mark(c) ==
  /\ engaged_alerts[c] # NoAlert /\ i_pc # "remove"
  /\ \E next \in {"idle", "leaving"} : releaseAlert(engaged_alerts[c], next)
  /\ UNCHANGED <<memory, expiring, last_released, check, hostVars,
                 hostAlertsQueue, uses, host, i_check, dequeueVars, refused>>

\* The invariants but for the types, the uses and the host.
AlertInv == /\ Engagement /\ Balanced /\ InOrder /\ EventsMatch /\ NotForgotten
            /\ EngageKnown /\ EngageBeforeRelease /\ FilterFollows

LEMMA QuietInv ==
  ASSUME AlertInv, Quiet
  PROVE  AlertInv'
<1> USE DEF AlertInv, Quiet, hostVars, dequeueVars
<1>1. /\ Slots' = Slots /\ \A k : Event(k)' = Event(k)
      /\ \A a, r : OnTheWay(a, r)' <=> OnTheWay(a, r)
  BY EventsSame
<1>2. Engagement' /\ Balanced'
  BY DEF Engagement, Balanced, EngagedChecks
<1>3. InOrder' /\ EventsMatch'
  BY <1>1 DEF InOrder, EventsMatch, Engaged
<1>4. NotForgotten' /\ EngageKnown' /\ EngageBeforeRelease'
  BY <1>1 DEF NotForgotten, EngageKnown, EngageBeforeRelease, Engaged
<1>5. FilterFollows'
  BY <1>1 DEF FilterFollows, EngagedChecks
<1> QED BY <1>2, <1>3, <1>4, <1>5

LEMMA MarkInv ==
  ASSUME TypeOK, AlertInv, NEW c \in Checks, Mark(c)
  PROVE  AlertInv'
<1> USE DEF AlertInv, hostVars, dequeueVars
<1> DEFINE a == engaged_alerts[c]
<1>1. /\ Slots' = Slots /\ \A k : Event(k)' = Event(k)
      /\ \A x, r : OnTheWay(x, r)' <=> OnTheWay(x, r)
  BY EventsSame DEF Mark
<1>2. /\ a \in Alerts /\ memory[a] = "live" /\ check[a] = c /\ i_pc # "remove"
      /\ released' = [released EXCEPT ![a] = TRUE]
      /\ i_alert' = a /\ i_pc' = "remove"
      /\ UNCHANGED <<memory, last_released, check, engaged_alerts,
                     num_engaged_alerts, score, filter, notified, refused,
                     d_pc, d_pair, hostAlertsQueue>>
  BY DEF TypeOK, Engagement, Mark, releaseAlert
<1>3. \A x \in Alerts : /\ released[x] => released'[x]
                        /\ x # a => released'[x] = released[x]
  BY <1>2 DEF TypeOK
<1>4. Engagement'
  <2>1. \A d \in Checks : engaged_alerts[d] # NoAlert /\ released'[engaged_alerts[d]]
          => engaged_alerts[d] = a
    BY <1>2, <1>3 DEF Engagement, TypeOK
  <2>2. \A x \in Alerts : memory'[x] = "none" => ~released'[x] /\ ~last_released'[x]
    BY <1>2, <1>3 DEF Engagement
  <2>3. i_alert' \in Alerts /\ released'[i_alert']
          /\ engaged_alerts'[check'[i_alert']] = i_alert'
    BY <1>2 DEF TypeOK
  <2> QED BY <1>2, <2>1, <2>2, <2>3 DEF Engagement
<1>5. Balanced'
  BY <1>2 DEF Balanced, EngagedChecks
<1>6. InOrder' /\ EventsMatch'
  BY <1>1, <1>2, <1>3, EventTypes DEF InOrder, EventsMatch, Engaged
<1>7. NotForgotten' /\ EngageKnown' /\ EngageBeforeRelease'
  BY <1>1, <1>2 DEF NotForgotten, EngageKnown, EngageBeforeRelease, Engaged
<1>8. FilterFollows'
  <2> SUFFICES ASSUME ~refused
               PROVE  FilterFollows'
    BY <1>2 DEF FilterFollows
  <2>1. ASSUME NEW d \in Checks, engaged_alerts'[d] # NoAlert,
               ~released'[engaged_alerts'[d]]
        PROVE  filter' \/ OnTheWay(engaged_alerts[d], FALSE)'
    <3>1. engaged_alerts[d] \in Alerts /\ ~released[engaged_alerts[d]]
      BY <1>2, <1>3, <2>1 DEF TypeOK
    <3>2. filter \/ OnTheWay(engaged_alerts[d], FALSE)
      BY <1>2, <2>1, <3>1 DEF FilterFollows
    <3> QED BY <1>2, <3>2, EventsSame DEF OnTheWay
  <2>2. EngagedChecks' = EngagedChecks
    BY <1>2 DEF EngagedChecks
  <2>3. Event(Len(hostAlertsQueue))' = Event(Len(hostAlertsQueue))
    BY <1>2 DEF Event
  <2> QED BY <1>1, <1>2, <2>1, <2>2, <2>3 DEF FilterFollows
<1> QED BY <1>4, <1>5, <1>6, <1>7, <1>8

LEMMA DequeueInv ==
  ASSUME TypeOK, AlertInv, Dequeue
  PROVE  AlertInv'
<1> USE DEF AlertInv
<1>1. UNCHANGED <<memory, released, last_released, check, engaged_alerts,
                  num_engaged_alerts, score, i_pc, i_alert, filter, notified,
                  refused>>
  BY DEF Dequeue, alertVars, hostVars, inlineVars
<1>2. /\ Len(hostAlertsQueue) \in Nat /\ Len(hostAlertsQueue) > 0
      /\ Len(hostAlertsQueue') = Len(hostAlertsQueue) - 1 /\ d_pair' \in Pairs
      /\ \A k \in Slots' : k \in Int /\ k + 1 \in Slots
                           /\ Event(k)' = Event(k + 1)
      /\ \A k \in Slots : k \in Int /\ k - 1 \in Slots'
                          /\ Event(k - 1)' = Event(k)
  BY EventsShift
<1>3. \A a, r : OnTheWay(a, r)' <=> OnTheWay(a, r)
  BY <1>2 DEF OnTheWay
<1>4. Engagement' /\ Balanced'
  BY <1>1 DEF Engagement, Balanced, EngagedChecks
<1>5. InOrder'
  <2>1. ASSUME NEW k \in Slots', NEW l \in Slots', k < l,
               Event(k)'[1] = Event(l)'[1]
        PROVE  ~Event(k)'[2] /\ Event(l)'[2]
    <3>1. k + 1 \in Slots /\ l + 1 \in Slots /\ k + 1 < l + 1
      BY <1>2, <2>1
    <3> QED BY <1>2, <2>1, <3>1 DEF InOrder
  <2> QED BY <1>2, <2>1 DEF InOrder
<1>6. EventsMatch'
  BY <1>1, <1>2 DEF EventsMatch, Engaged
<1>7. NotForgotten' /\ EngageKnown' /\ EngageBeforeRelease'
  BY <1>1, <1>3 DEF NotForgotten, EngageKnown, EngageBeforeRelease, Engaged
<1>8. FilterFollows'
  <2> SUFFICES ASSUME ~refused
               PROVE  FilterFollows'
    BY <1>1 DEF FilterFollows
  <2>1. ASSUME NEW c \in Checks, engaged_alerts'[c] # NoAlert,
               ~released'[engaged_alerts'[c]]
        PROVE  filter' \/ OnTheWay(engaged_alerts[c], FALSE)'
    BY <1>1, <1>3, <2>1 DEF FilterFollows
  <2>2. ASSUME NEW k \in Slots', NEW c \in Checks, engaged_alerts'[c] # NoAlert,
               last_released'[Event(k)'[1]]
        PROVE  \E l \in Slots' : k < l /\ Event(l)' = <<engaged_alerts'[c], FALSE>>
    <3>1. PICK l \in Slots : k + 1 < l /\ Event(l) = <<engaged_alerts[c], FALSE>>
      BY <1>1, <1>2, <2>2 DEF FilterFollows
    <3>2. l \in Int /\ l - 1 \in Slots' /\ Event(l - 1)' = Event(l)
      BY <1>2
    <3>3. k \in Int /\ k < l - 1
      BY <1>2, <3>1, <3>2
    <3> QED BY <1>1, <3>1, <3>2, <3>3
  <2>3. ASSUME EngagedChecks' = {}
        PROVE  /\ Slots' # {}
               /\ LET p == Event(Len(hostAlertsQueue))'
                  IN p[2] /\ last_released'[p[1]]
    <3>1. Len(hostAlertsQueue) \in Slots
      BY <1>2 DEF Slots
    <3>2. /\ Len(hostAlertsQueue') \in Slots'
          /\ Event(Len(hostAlertsQueue))' = Event(Len(hostAlertsQueue))
      <4>0. PICK n \in Nat : n = Len(hostAlertsQueue)
        BY <1>2
      <4>1. n - 1 \in Slots' /\ Event(n - 1)' = Event(n)
        BY <1>2, <3>1, <4>0
      <4>2. Len(hostAlertsQueue') = n - 1
        BY <1>2, <4>0
      <4>3. Event(Len(hostAlertsQueue))' = Event(n - 1)'
        BY <4>2 DEF Event
      <4> QED BY <4>0, <4>1, <4>2, <4>3
    <3>3. EngagedChecks = {}
      BY <1>1, <2>3 DEF EngagedChecks
    <3> QED BY <1>1, <3>1, <3>2, <3>3 DEF FilterFollows
  <2> QED BY <1>1, <2>1, <2>2, <2>3 DEF FilterFollows
<1> QED BY <1>4, <1>5, <1>6, <1>7, <1>8

\* The last step of the dequeue thread leaves all but the uses alone.
LEMMA DoneInv ==
  ASSUME TypeOK, AlertInv, decUses
  PROVE  AlertInv'
<1> USE DEF AlertInv
<1>1. /\ UNCHANGED <<memory, released, last_released, check, engaged_alerts,
                     num_engaged_alerts, score, i_pc, i_alert, filter, notified,
                     refused, hostAlertsQueue>>
      /\ d_pc' = "idle"
  BY DEF decUses, alertVars, hostVars, inlineVars
<1>2. /\ Slots' = Slots /\ \A k \in Slots : k # 0 /\ Event(k)' = Event(k)
      /\ \A a, r : OnTheWay(a, r)' <=> OnTheWay(a, r)
  BY EventsForgotten
<1>3. Engagement' /\ Balanced'
  BY <1>1 DEF Engagement, Balanced, EngagedChecks
<1>4. InOrder' /\ EventsMatch'
  BY <1>1, <1>2 DEF InOrder, EventsMatch, Engaged
<1>5. NotForgotten' /\ EngageKnown' /\ EngageBeforeRelease'
  BY <1>1, <1>2 DEF NotForgotten, EngageKnown, EngageBeforeRelease, Engaged
<1>6. FilterFollows'
  <2>1. Slots # {} => Len(hostAlertsQueue) \in Slots
    <3>1. Len(hostAlertsQueue) \in Nat
      BY SlotsAre
    <3> QED BY <1>2, <3>1 DEF Slots
  <2>2. Slots # {} =>
          Event(Len(hostAlertsQueue))' = Event(Len(hostAlertsQueue))
    BY <1>1, <1>2, <2>1 DEF Event
  <2>3. EngagedChecks' = EngagedChecks
    BY <1>1 DEF EngagedChecks
  <2>4. ASSUME NEW c \in Checks
        PROVE  OnTheWay(engaged_alerts[c], FALSE)
                 => OnTheWay(engaged_alerts[c], FALSE)'
    BY <1>1, <1>2 DEF OnTheWay
  <2>5. ASSUME ~refused, NEW k \in Slots', NEW c \in Checks,
               engaged_alerts'[c] # NoAlert, last_released'[Event(k)'[1]]
        PROVE  \E l \in Slots' : k < l /\ Event(l)' = <<engaged_alerts'[c], FALSE>>
    BY <1>1, <1>2, <2>5 DEF FilterFollows
  <2> QED BY <1>1, <1>2, <2>2, <2>3, <2>4, <2>5 DEF FilterFollows
<1> QED BY <1>3, <1>4, <1>5, <1>6

\* A release is the last event of its alert, which nothing refers to any more.
LEMMA NotifyInv ==
  ASSUME TypeOK, AlertInv, enqueueAlertToRecipients
  PROVE  AlertInv'
<1> USE DEF AlertInv
<1> DEFINE a == d_pair[1]
<1>1. /\ UNCHANGED <<released, last_released, check, engaged_alerts, d_pair,
                     num_engaged_alerts, score, i_pc, i_alert, refused,
                     hostAlertsQueue>>
      /\ d_pc = "notify" /\ d_pc' = "release"
  BY DEF enqueueAlertToRecipients, hostVars, inlineVars
<1>2. /\ Slots' = Slots \ {0} /\ 0 \in Slots /\ Event(0) = d_pair
      /\ \A k : Event(k)' = Event(k)
      /\ \A k \in Slots' : 0 < k
  BY EventsHandled
<1>3. a \in Alerts /\ d_pair[2] \in BOOLEAN /\ d_pair = <<a, d_pair[2]>>
  BY <1>2, EventTypes
<1>4. /\ memory[a] # "none" /\ (~refused => memory[a] = "live")
      /\ d_pair[2] => released[a] /\ ~Engaged(a)
  BY <1>2 DEF EventsMatch
<1>5. \A x, r : OnTheWay(x, r) => OnTheWay(x, r)' \/ <<x, r>> = d_pair
  BY <1>2 DEF OnTheWay
<1>6. \A x \in Alerts :
        memory'[x] = IF x = a /\ d_pair[2] THEN "freed" ELSE memory[x]
  BY <1>3 DEF TypeOK, enqueueAlertToRecipients
<1>7. \A x \in Alerts : Engaged(x)' <=> Engaged(x)
  BY <1>1 DEF Engaged
<1>8. Engagement'
  <2>1. \A c \in Checks : engaged_alerts[c] # NoAlert =>
          /\ engaged_alerts[c] \in Alerts
          /\ memory'[engaged_alerts[c]] = memory[engaged_alerts[c]]
    BY <1>4, <1>6 DEF Engaged, TypeOK
  <2>2. \A x \in Alerts : memory'[x] = "none" => memory[x] = "none"
    BY <1>6
  <2> QED BY <1>1, <2>1, <2>2 DEF Engagement
<1>9. Balanced'
  BY <1>1 DEF Balanced, EngagedChecks
<1>10. InOrder'
  BY <1>1, <1>2 DEF InOrder
<1>11. EventsMatch'
  <2> SUFFICES ASSUME NEW k \in Slots'
               PROVE  LET x == Event(k)[1]
                      IN /\ memory'[x] # "none" /\ (~refused => memory'[x] = "live")
                         /\ Event(k)[2] => released[x] /\ ~Engaged(x)
    BY <1>1, <1>2 DEF EventsMatch, Engaged
  <2>1. k \in Slots /\ 0 < k /\ Event(k)[1] \in Alerts
    BY <1>2, EventTypes
  <2>2. d_pair[2] => Event(k)[1] # a
    BY <1>2, <2>1 DEF InOrder
  <2>3. memory'[Event(k)[1]] = memory[Event(k)[1]]
    BY <1>6, <2>1, <2>2
  <2> QED BY <2>1, <2>3 DEF EventsMatch
<1>12. NotForgotten'
  <2> SUFFICES ASSUME NEW x \in Alerts, memory'[x] = "live"
               PROVE  Engaged(x)' \/ OnTheWay(x, TRUE)'
    BY DEF NotForgotten
  <2>1. memory[x] = "live" /\ ~(x = a /\ d_pair[2])
    BY <1>6
  <2>2. Engaged(x) \/ OnTheWay(x, TRUE)
    BY <2>1 DEF NotForgotten
  <2>3. ASSUME <<x, TRUE>> = d_pair PROVE FALSE
    <3>1. d_pair[1] = x /\ d_pair[2] = TRUE
      BY <2>3
    <3> QED BY <2>1, <3>1
  <2> QED BY <1>5, <1>7, <2>2, <2>3
<1>13. \A x \in Alerts : /\ notified[x] \subseteq notified'[x]
                         /\ x # a => notified'[x] = notified[x]
  BY <1>3 DEF TypeOK, enqueueAlertToRecipients
<1>14. (IF d_pair[2] THEN "release" ELSE "engage") \in notified'[a]
       /\ (~d_pair[2] => ("release" \in notified'[a] => "release" \in notified[a]))
  BY <1>3 DEF TypeOK, enqueueAlertToRecipients
<1>15. EngageKnown'
  <2> SUFFICES ASSUME ~refused, NEW x \in Alerts, memory'[x] # "none"
               PROVE  "engage" \in notified'[x] \/ OnTheWay(x, FALSE)'
    BY <1>1 DEF EngageKnown
  <2>1. memory[x] # "none"
    BY <1>4, <1>6
  <2>2. "engage" \in notified[x] \/ OnTheWay(x, FALSE)
    BY <2>1 DEF EngageKnown
  <2>3. CASE "engage" \in notified[x]
    BY <1>13, <2>3
  <2>4. CASE OnTheWay(x, FALSE)'
    BY <2>4
  <2>5. CASE <<x, FALSE>> = d_pair
    <3>1. x = a /\ ~d_pair[2]
      BY <1>3, <2>5
    <3> QED BY <1>14, <3>1
  <2> QED BY <1>5, <2>2, <2>3, <2>4, <2>5
<1>16. EngageBeforeRelease'
  <2> SUFFICES ASSUME ~refused, NEW x \in Alerts, "release" \in notified'[x]
               PROVE  "engage" \in notified'[x]
    BY <1>1 DEF EngageBeforeRelease
  <2>1. CASE x # a
    BY <1>13, <2>1 DEF EngageBeforeRelease
  <2>2. CASE x = a /\ ~d_pair[2]
    BY <1>14, <2>2
  <2>3. CASE x = a /\ d_pair[2]
    <3>1. ~OnTheWay(a, FALSE)
      <4> SUFFICES ASSUME NEW k \in Slots, Event(k) = <<a, FALSE>> PROVE FALSE
        BY DEF OnTheWay
      <4>1. ASSUME k = 0 PROVE FALSE
        <5>1. Event(k)[2] = FALSE
          OBVIOUS
        <5>2. Event(k) = d_pair
          BY <4>1 DEF Event
        <5> QED BY <2>3, <5>1, <5>2
      <4>2. 0 < k
        BY <1>2, <4>1
      <4> QED BY <1>2, <2>3, <4>2 DEF InOrder
    <3>2. "engage" \in notified[a]
      BY <1>3, <1>4, <3>1 DEF EngageKnown
    <3> QED BY <1>3, <1>13, <2>3, <3>2
  <2> QED BY <2>1, <2>2, <2>3
<1>17. FilterFollows'
  <2> SUFFICES ASSUME ~refused PROVE FilterFollows'
    BY <1>1 DEF FilterFollows
  <2>1. filter' = IF ~released[a] THEN TRUE ELSE filter /\ ~last_released[a]
    BY DEF enqueueAlertToRecipients
  <2>2. ASSUME NEW c \in Checks, engaged_alerts[c] # NoAlert,
               ~released[engaged_alerts[c]]
        PROVE  filter' \/ OnTheWay(engaged_alerts[c], FALSE)'
    <3> DEFINE b == engaged_alerts[c]
    <3>1. b' = b
      BY <1>1
    <3>2. CASE ~released[a]
      BY <2>1, <3>2
    <3>3. CASE released[a] /\ ~last_released[a] /\ filter
      BY <2>1, <3>3
    <3>4. CASE released[a] /\ ~last_released[a] /\ OnTheWay(b, FALSE)
      <4>1. ASSUME <<b, FALSE>> = d_pair PROVE FALSE
        <5>1. d_pair[1] = b
          BY <4>1
        <5> QED BY <2>2, <3>4, <5>1
      <4>2. PICK k \in Slots : Event(k) = <<b, FALSE>>
        BY <3>4 DEF OnTheWay
      <4>3. k \in Slots' /\ Event(k)' = <<b, FALSE>>
        BY <1>2, <4>1, <4>2
      <4> QED BY <3>1, <4>3 DEF OnTheWay
    <3>5. CASE last_released[a]
      <4>1. PICK l \in Slots : 0 < l /\ Event(l) = <<b, FALSE>>
        BY <1>2, <2>2, <3>5 DEF FilterFollows
      <4>2. l \in Slots' /\ Event(l)' = <<b, FALSE>>
        <5>1. l \in Int
          BY SlotsAre
        <5>2. l # 0
          BY <4>1, <5>1
        <5> QED BY <1>2, <4>1, <5>2
      <4> QED BY <3>1, <4>2 DEF OnTheWay
    <3> QED BY <2>2, <3>2, <3>3, <3>4, <3>5 DEF FilterFollows
  <2>3. ASSUME NEW k \in Slots', NEW c \in Checks, engaged_alerts[c] # NoAlert,
               last_released[Event(k)[1]]
        PROVE  \E l \in Slots' : k < l /\ Event(l)' = <<engaged_alerts[c], FALSE>>
    <3>1. PICK l \in Slots : k < l /\ Event(l) = <<engaged_alerts[c], FALSE>>
      BY <1>2, <2>3 DEF FilterFollows
    <3>2. k \in Int /\ l \in Int /\ 0 < k
      BY <1>2, SlotsAre
    <3>3. l \in Slots'
      BY <1>2, <3>1, <3>2
    <3> QED BY <1>2, <3>1, <3>3
  <2>4. ASSUME EngagedChecks = {}
        PROVE  IF Slots' = {} THEN ~filter'
               ELSE LET p == Event(Len(hostAlertsQueue))'
                    IN p[2] /\ last_released'[p[1]]
    <3>1. Event(Len(hostAlertsQueue))' = Event(Len(hostAlertsQueue))
      BY <1>1 DEF Event
    <3>2. LET p == Event(Len(hostAlertsQueue)) IN p[2] /\ last_released[p[1]]
      BY <1>2, <2>4 DEF FilterFollows
    <3>3. CASE Slots' = {}
      <4>1. Len(hostAlertsQueue) = 0
        <5>1. Len(hostAlertsQueue) \in Nat
          BY SlotsAre
        <5>2. Len(hostAlertsQueue) > 0 => Len(hostAlertsQueue) \in Slots
          BY <5>1 DEF Slots
        <5> QED BY <1>2, <3>3, <5>1, <5>2
      <4>2. last_released[a] /\ d_pair[2]
        BY <1>2, <3>2, <4>1
      <4>3. released[a]
        BY <1>4, <4>2
      <4>4. filter' = (filter /\ ~last_released[a])
        BY <2>1, <4>3
      <4> QED BY <3>3, <4>2, <4>4
    <3> QED BY <1>1, <3>1, <3>2, <3>3
  <2>5. EngagedChecks' = EngagedChecks
    BY <1>1 DEF EngagedChecks
  <2> QED BY <1>1, <1>2, <2>2, <2>3, <2>4, <2>5 DEF FilterFollows
<1> QED BY <1>8, <1>9, <1>10, <1>11, <1>12, <1>15, <1>16, <1>17

\* The event that enqueueHostAlert() adds, unless it is refused.
Added(p) ==
  /\ hostAlertsQueue' = Append(hostAlertsQueue, p) /\ refused' = refused
NotAdded == hostAlertsQueue' = hostAlertsQueue /\ refused' = TRUE

LEMMA AddedOrNot ==
  ASSUME TypeOK, NEW p \in Pairs, NotAdded
  PROVE  ~Added(p)
<1>1. /\ Len(Append(hostAlertsQueue, p)) = Len(hostAlertsQueue) + 1
      /\ Len(hostAlertsQueue) \in Nat
  BY DEF TypeOK
<1>2. hostAlertsQueue' = hostAlertsQueue
  BY DEF NotAdded
<1>3. Added(p) => hostAlertsQueue' = Append(hostAlertsQueue, p)
  BY DEF Added
<1> QED BY <1>1, <1>2, <1>3

\* The other events stay as they are, and the new one comes after them.
LEMMA EventsAdded ==
  ASSUME TypeOK, NEW p \in Pairs, UNCHANGED <<d_pc, d_pair>>,
         Added(p) \/ NotAdded
  PROVE  /\ \A k \in Slots : k \in Slots' /\ Event(k)' = Event(k) /\ k \in Int
         /\ \A k \in Slots' : \/ k \in Slots
                              \/ /\ Added(p) /\ Event(k)' = p /\ k \in Int
                                 /\ \A l \in Slots : l < k
         /\ Added(p) => /\ Event(Len(hostAlertsQueue))' = p
                        /\ \E k \in Slots' : Event(k)' = p /\ \A l \in Slots : l < k
<1>1. CASE NotAdded
  <2>1. Slots' = Slots /\ \A k : Event(k)' = Event(k)
    BY <1>1, EventsSame DEF NotAdded
  <2>2. ~Added(p)
    BY <1>1, AddedOrNot
  <2> QED BY <2>1, <2>2, SlotsAre
<1>2. CASE Added(p)
  <2>1. PICK n \in Nat : n = Len(hostAlertsQueue)
    BY SlotsAre
  <2>2. /\ Len(hostAlertsQueue') = n + 1 /\ Slots' = Slots \cup {n + 1}
        /\ \A k \in Slots : k \in Int /\ k < n + 1 /\ Event(k)' = Event(k)
        /\ Event(n + 1)' = p
    BY <1>2, <2>1, EventsQueued DEF Added
  <2>3. Event(Len(hostAlertsQueue))' = Event(n + 1)'
    BY <2>2 DEF Event
  <2>4. \A k \in Slots' : k \in Slots \/ k = n + 1
    BY <2>2
  <2>5. n + 1 \in Slots' /\ \A l \in Slots : l < n + 1
    BY <2>2
  <2> QED BY <1>2, <2>2, <2>3, <2>4, <2>5
<1> QED BY <1>1, <1>2

LEMMA AddedUnlessRefused ==
  ASSUME NEW p, Added(p) \/ NotAdded
  PROVE  /\ refused => refused'
         /\ ~refused' => Added(p)
<1>1. CASE Added(p)
  <2>1. refused' = refused
    BY <1>1 DEF Added
  <2> QED BY <1>1, <2>1
<1>2. CASE NotAdded
  BY <1>2 DEF NotAdded
<1> QED BY <1>1, <1>2

LEMMA EngageInv ==
  ASSUME TypeOK, AlertInv, NEW a \in Alerts, Engage(a)
  PROVE  AlertInv' /\ num_engaged_alerts' \in 1 .. Cardinality(Checks)
<1> USE DEF AlertInv
<1> DEFINE p == <<a, FALSE>>
<1>1. /\ i_check \in Checks /\ engaged_alerts[i_check] = NoAlert
      /\ memory[a] = "none" /\ i_pc = "check" /\ i_pc' # "remove"
      /\ check' = [check EXCEPT ![a] = i_check]
      /\ engaged_alerts' = [engaged_alerts EXCEPT ![i_check] = a]
      /\ memory' = [memory EXCEPT ![a] = "live"]
      /\ num_engaged_alerts' = num_engaged_alerts + 1 /\ score' = score + 1
      /\ UNCHANGED <<released, last_released, d_pc, d_pair, filter, notified>>
  BY DEF Engage, enqueueHostAlert, Queue, Refuse, dequeueVars, TypeOK
<1>2. p \in Pairs /\ (Added(p) \/ NotAdded)
  BY DEF Engage, enqueueHostAlert, Queue, Refuse, Added, NotAdded, Pairs
<1>3. /\ \A k \in Slots : k \in Slots' /\ Event(k)' = Event(k) /\ k \in Int
      /\ \A k \in Slots' : \/ k \in Slots
                           \/ /\ Added(p) /\ Event(k)' = p /\ k \in Int
                              /\ \A l \in Slots : l < k
      /\ Added(p) => /\ Event(Len(hostAlertsQueue))' = p
                     /\ \E k \in Slots' : Event(k)' = p /\ \A l \in Slots : l < k
  BY <1>1, <1>2, EventsAdded
<1>4. \A k \in Slots : /\ Event(k)[1] \in Alerts /\ Event(k)[1] # a
                       /\ Event(k)[2] \in BOOLEAN
  BY <1>1, EventTypes DEF EventsMatch
<1>5. ~released[a] /\ ~last_released[a] /\ a # NoAlert
  BY <1>1, AlertAssumption DEF Engagement
<1>6. \A c \in Checks : engaged_alerts[c] # a
  BY <1>1, <1>5 DEF Engagement
<1>7. \A x : Engaged(x)' => Engaged(x) \/ x = a
  BY <1>1 DEF Engaged, TypeOK
<1>8. Engaged(a)' /\ \A x \in Alerts : Engaged(x) => Engaged(x)'
  BY <1>1, AlertAssumption DEF Engaged, TypeOK
<1>9. \A x, r : OnTheWay(x, r) => OnTheWay(x, r)'
  BY <1>3 DEF OnTheWay
<1>10. Engagement'
  BY <1>1, <1>5, <1>6 DEF Engagement, TypeOK
<1>11. Balanced' /\ num_engaged_alerts' \in 1 .. Cardinality(Checks)
  <2>1. EngagedChecks' = EngagedChecks \cup {i_check} /\ i_check \notin EngagedChecks
    BY <1>1, <1>5 DEF EngagedChecks, TypeOK
  <2>2. IsFiniteSet(EngagedChecks) /\ EngagedChecks' \in SUBSET Checks
    BY <1>1, <2>1, AlertAssumption, FS_Subset DEF EngagedChecks
  <2>3. Cardinality(EngagedChecks') = Cardinality(EngagedChecks) + 1
    BY <2>1, <2>2, FS_AddElement
  <2>4. Cardinality(EngagedChecks') <= Cardinality(Checks)
    BY <2>2, AlertAssumption, FS_Subset
  <2>5. Cardinality(EngagedChecks) \in Nat /\ Cardinality(Checks) \in Nat
    BY <2>2, AlertAssumption, FS_CardinalityType
  <2> QED BY <1>1, <2>3, <2>4, <2>5 DEF Balanced
<1>12. InOrder'
  <2>1. ASSUME NEW k \in Slots', NEW l \in Slots', k < l,
               Event(k)'[1] = Event(l)'[1]
        PROVE  ~Event(k)'[2] /\ Event(l)'[2]
    <3>1. k \in Slots
      <4>1. k \in Slots \/ (k \in Int /\ \A m \in Slots : m < k /\ m \in Int)
        BY <1>3
      <4>2. CASE k \notin Slots /\ l \in Slots
        BY <2>1, <4>1, <4>2
      <4>3. CASE k \notin Slots /\ l \notin Slots
        <5>1. Added(p)
          BY <1>3, <4>3
        <5>2. PICK n \in Nat : n = Len(hostAlertsQueue)
          BY SlotsAre
        <5>3. Slots' = Slots \cup {n + 1}
          BY <1>1, <1>2, <5>1, <5>2, EventsQueued DEF Added
        <5> QED BY <2>1, <4>3, <5>3
      <4> QED BY <4>2, <4>3
    <3>2. CASE l \in Slots
      BY <1>3, <2>1, <3>1, <3>2 DEF InOrder
    <3>3. CASE l \notin Slots
      <4>1. Event(l)' = p
        BY <1>3, <3>3
      <4>2. Event(l)'[1] = a
        BY <4>1
      <4>3. Event(k)' = Event(k) /\ Event(k)[1] # a
        BY <1>3, <1>4, <3>1
      <4> QED BY <2>1, <4>2, <4>3
    <3> QED BY <3>2, <3>3
  <2> QED BY <1>1, <2>1 DEF InOrder
<1>13. EventsMatch'
  <2> SUFFICES ASSUME NEW k \in Slots', NEW x, x = Event(k)'[1]
               PROVE  /\ memory'[x] # "none"
                      /\ ~refused' => memory'[x] = "live"
                      /\ Event(k)'[2] => released'[x] /\ ~Engaged(x)'
    BY DEF EventsMatch, Engaged
  <2>1. CASE k \in Slots
    <3>1. Event(k)' = Event(k) /\ (~refused' => ~refused)
      BY <1>2, <1>3, <2>1, AddedUnlessRefused
    <3>2. memory'[Event(k)[1]] = memory[Event(k)[1]]
      BY <1>1, <1>4, <2>1 DEF TypeOK
    <3>3. x \in Alerts /\ x = Event(k)[1]
      BY <1>4, <2>1, <3>1
    <3>4. ~Engaged(x) => ~Engaged(x)'
      BY <1>4, <1>7, <2>1, <3>3
    <3> QED BY <1>1, <2>1, <3>1, <3>2, <3>3, <3>4 DEF EventsMatch, Engaged
  <2>2. CASE k \notin Slots
    <3>1. Event(k)' = p
      BY <1>3, <2>2
    <3>2. Event(k)'[1] = a /\ Event(k)'[2] = FALSE
      BY <3>1
    <3>3. memory'[a] = "live"
      BY <1>1 DEF TypeOK
    <3> QED BY <3>2, <3>3
  <2> QED BY <2>1, <2>2
<1>14. NotForgotten'
  BY <1>1, <1>8, <1>9 DEF NotForgotten, TypeOK
<1>15. EngageKnown'
  <2> SUFFICES ASSUME ~refused', NEW x \in Alerts, memory'[x] # "none"
               PROVE  "engage" \in notified'[x] \/ OnTheWay(x, FALSE)'
    BY DEF EngageKnown
  <2>1. Added(p) /\ ~refused
    BY <1>2, AddedUnlessRefused
  <2>2. CASE x = a
    BY <1>3, <2>1, <2>2 DEF OnTheWay
  <2>3. CASE x # a
    BY <1>1, <1>9, <2>1, <2>3 DEF EngageKnown, TypeOK
  <2> QED BY <2>2, <2>3
<1>16. EngageBeforeRelease'
  BY <1>1, <1>2, AddedUnlessRefused DEF EngageBeforeRelease
<1>17. FilterFollows'
  <2> SUFFICES ASSUME ~refused' PROVE FilterFollows'
    BY DEF FilterFollows
  <2>1. Added(p) /\ ~refused
    BY <1>2, AddedUnlessRefused
  <2>2. PICK n \in Slots' : Event(n)' = p /\ \A l \in Slots : l < n
    BY <1>3, <2>1
  <2>3. \A c \in Checks : engaged_alerts'[c] =
                            IF c = i_check THEN a ELSE engaged_alerts[c]
    BY <1>1 DEF TypeOK
  <2>4. ASSUME NEW c \in Checks, engaged_alerts'[c] # NoAlert,
               ~released'[engaged_alerts'[c]]
        PROVE  filter' \/ OnTheWay(engaged_alerts[c], FALSE)'
    <3>1. CASE c = i_check
      BY <2>2, <2>3, <3>1 DEF OnTheWay
    <3>2. CASE c # i_check
      <4>1. PICK b : b = engaged_alerts[c] /\ b = engaged_alerts'[c]
        BY <2>3, <3>2
      <4>2. filter \/ OnTheWay(b, FALSE)
        BY <1>1, <2>1, <2>4, <4>1 DEF FilterFollows
      <4>3. filter' \/ OnTheWay(b, FALSE)'
        BY <1>1, <1>9, <4>2
      <4> QED BY <4>1, <4>3 DEF OnTheWay
    <3> QED BY <3>1, <3>2
  <2>5. ASSUME NEW k \in Slots', NEW c \in Checks, engaged_alerts'[c] # NoAlert,
               last_released'[Event(k)'[1]]
        PROVE  \E l \in Slots' : k < l /\ Event(l)' = <<engaged_alerts'[c], FALSE>>
    <3>1. k \in Slots /\ Event(k)' = Event(k)
      <4>1. CASE k \notin Slots
        <5>1. Event(k)' = p
          BY <1>3, <4>1
        <5>2. Event(k)'[1] = a
          BY <5>1
        <5> QED BY <1>1, <1>5, <2>5, <5>2
      <4> QED BY <1>3, <4>1
    <3>2. CASE c = i_check
      BY <2>2, <2>3, <3>1, <3>2
    <3>3. CASE c # i_check
      <4>1. PICK l \in Slots : k < l /\ Event(l) = <<engaged_alerts[c], FALSE>>
        BY <1>1, <2>1, <2>3, <2>5, <3>1, <3>3 DEF FilterFollows
      <4> QED BY <1>3, <2>3, <3>3, <4>1
    <3> QED BY <3>2, <3>3
  <2>6. EngagedChecks' # {}
    BY <1>1, <1>5, <2>3 DEF EngagedChecks
  <2> QED BY <2>4, <2>5, <2>6 DEF FilterFollows
<1> QED BY <1>10, <1>11, <1>12, <1>13, <1>14, <1>15, <1>16, <1>17

LEMMA RemoveInv ==
  ASSUME TypeOK, AlertInv, removeEngagedAlert
  PROVE  /\ AlertInv' /\ num_engaged_alerts' \in 0 .. Cardinality(Checks)
         /\ last_released' \in [Alerts -> BOOLEAN]
<1> USE DEF AlertInv
<1>1. PICK a \in Alerts, d \in Checks :
        a = i_alert /\ d = check[a] /\ engaged_alerts[d] = a /\ released[a]
  BY DEF removeEngagedAlert, Engagement, TypeOK
<1> DEFINE p == <<a, TRUE>>
<1>2. /\ i_pc = "remove" /\ i_pc' # "remove"
      /\ engaged_alerts' = [engaged_alerts EXCEPT ![d] = NoAlert]
      /\ num_engaged_alerts' = num_engaged_alerts - 1 /\ score' = score - 1
      /\ last_released' = [last_released EXCEPT ![a] = num_engaged_alerts' = 0]
      /\ UNCHANGED <<released, check, d_pc, d_pair, filter, notified>>
  BY <1>1 DEF removeEngagedAlert, enqueueHostAlert, Queue, Refuse, dequeueVars,
     TypeOK
<1>3. /\ p \in Pairs /\ (Added(p) \/ NotAdded)
      /\ Added(p) => memory' = [memory EXCEPT ![a] = "live"]
      /\ ~Added(p) => memory' = [memory EXCEPT ![a] = "freed"]
  <2>1. p \in Pairs
    BY DEF Pairs
  <2>2. Queue(a, TRUE) \/ Refuse(a, "freed", i_next)
    BY <1>1 DEF removeEngagedAlert, enqueueHostAlert
  <2>3. CASE Queue(a, TRUE)
    BY <2>1, <2>3 DEF Queue, Added
  <2>4. CASE Refuse(a, "freed", i_next)
    <3>1. NotAdded /\ memory' = [memory EXCEPT ![a] = "freed"]
      BY <2>4 DEF Refuse, NotAdded
    <3> QED BY <2>1, <3>1, AddedOrNot
  <2> QED BY <2>2, <2>3, <2>4
<1>4. /\ \A k \in Slots : k \in Slots' /\ Event(k)' = Event(k) /\ k \in Int
      /\ \A k \in Slots' : \/ k \in Slots
                           \/ /\ Added(p) /\ Event(k)' = p /\ k \in Int
                              /\ \A l \in Slots : l < k
      /\ Added(p) => /\ Event(Len(hostAlertsQueue))' = p
                     /\ \E k \in Slots' : Event(k)' = p /\ \A l \in Slots : l < k
  BY <1>2, <1>3, EventsAdded
<1>5. /\ memory[a] = "live" /\ Engaged(a) /\ a # NoAlert
      /\ \A x \in Alerts \ {a} : memory'[x] = memory[x]
      /\ memory'[a] = IF Added(p) THEN "live" ELSE "freed"
  BY <1>1, <1>3, AlertAssumption DEF Engagement, Engaged, TypeOK
<1>6. \A c \in Checks :
        engaged_alerts'[c] # NoAlert =>
          /\ c # d /\ engaged_alerts'[c] = engaged_alerts[c]
          /\ engaged_alerts[c] \in Alerts \ {a} /\ ~released[engaged_alerts[c]]
  BY <1>1, <1>2, <1>5 DEF Engagement, TypeOK
<1>7. /\ ~Engaged(a)' /\ \A x \in Alerts : Engaged(x)' => Engaged(x)
      /\ \A x \in Alerts \ {a} : Engaged(x) => Engaged(x)'
  BY <1>1, <1>2, <1>5, <1>6, AlertAssumption DEF Engaged, TypeOK
<1>8. \A k \in Slots : /\ Event(k)[1] \in Alerts /\ Event(k)[2] \in BOOLEAN
                       /\ Event(k)[1] = a => ~Event(k)[2]
  BY <1>5, EventTypes DEF EventsMatch
<1>9. \A x, r : OnTheWay(x, r) => OnTheWay(x, r)'
  BY <1>4 DEF OnTheWay
<1>10. Engagement'
  <2>1. \A c \in Checks : engaged_alerts'[c] # NoAlert =>
          /\ memory'[engaged_alerts'[c]] = "live" /\ check'[engaged_alerts'[c]] = c
          /\ ~released'[engaged_alerts'[c]]
    BY <1>2, <1>5, <1>6 DEF Engagement
  <2>2. \A x \in Alerts : memory'[x] = "none" => ~released'[x] /\ ~last_released'[x]
    BY <1>2, <1>5 DEF Engagement, TypeOK
  <2> QED BY <1>2, <2>1, <2>2 DEF Engagement
<1>11. /\ Balanced' /\ num_engaged_alerts' \in 0 .. Cardinality(Checks)
       /\ num_engaged_alerts' = 0 <=> EngagedChecks' = {}
  <2>1. EngagedChecks' = EngagedChecks \ {d} /\ d \in EngagedChecks
    BY <1>1, <1>2, <1>5 DEF EngagedChecks, TypeOK
  <2>2. IsFiniteSet(EngagedChecks) /\ EngagedChecks' \in SUBSET Checks
    BY <2>1, AlertAssumption, FS_Subset DEF EngagedChecks
  <2>3. Cardinality(EngagedChecks') = Cardinality(EngagedChecks) - 1
    BY <2>1, <2>2, FS_RemoveElement
  <2>4. /\ Cardinality(EngagedChecks') <= Cardinality(Checks)
        /\ IsFiniteSet(EngagedChecks')
    BY <2>2, AlertAssumption, FS_Subset
  <2>5. Cardinality(EngagedChecks') \in Nat /\ Cardinality(Checks) \in Nat
    BY <2>4, AlertAssumption, FS_CardinalityType
  <2>6. Cardinality(EngagedChecks) \in Nat
    BY <2>2, FS_CardinalityType
  <2>7. Cardinality(EngagedChecks') = 0 <=> EngagedChecks' = {}
    BY <2>4, FS_EmptySet
  <2> QED BY <1>2, <2>3, <2>4, <2>5, <2>6, <2>7 DEF Balanced
<1>12. /\ last_released' \in [Alerts -> BOOLEAN]
       /\ last_released'[a] <=> EngagedChecks' = {}
       /\ \A x \in Alerts \ {a} : last_released'[x] = last_released[x]
  BY <1>2, <1>11 DEF TypeOK
<1>13. InOrder'
  <2>1. ASSUME NEW k \in Slots', NEW l \in Slots', k < l,
               Event(k)'[1] = Event(l)'[1]
        PROVE  ~Event(k)'[2] /\ Event(l)'[2]
    <3>1. k \in Slots
      <4>1. k \in Slots \/ (k \in Int /\ \A m \in Slots : m < k /\ m \in Int)
        BY <1>4
      <4>2. CASE k \notin Slots /\ l \in Slots
        BY <2>1, <4>1, <4>2
      <4>3. CASE k \notin Slots /\ l \notin Slots
        <5>1. Added(p)
          BY <1>4, <4>3
        <5>2. PICK n \in Nat : n = Len(hostAlertsQueue)
          BY SlotsAre
        <5>3. Slots' = Slots \cup {n + 1}
          BY <1>2, <1>3, <5>1, <5>2, EventsQueued DEF Added
        <5> QED BY <2>1, <4>3, <5>3
      <4> QED BY <4>2, <4>3
    <3>2. CASE l \in Slots
      BY <1>4, <2>1, <3>1, <3>2 DEF InOrder
    <3>3. CASE l \notin Slots
      <4>1. Event(l)' = p
        BY <1>4, <3>3
      <4>2. Event(l)'[1] = a /\ Event(l)'[2] = TRUE
        BY <4>1
      <4>3. Event(k)' = Event(k)
        BY <1>4, <3>1
      <4> QED BY <1>8, <2>1, <3>1, <4>2, <4>3
    <3> QED BY <3>2, <3>3
  <2> QED BY <1>2, <2>1 DEF InOrder
<1>14. EventsMatch'
  <2> SUFFICES ASSUME NEW k \in Slots', NEW x, x = Event(k)'[1]
               PROVE  /\ memory'[x] # "none"
                      /\ ~refused' => memory'[x] = "live"
                      /\ Event(k)'[2] => released'[x] /\ ~Engaged(x)'
    BY DEF EventsMatch, Engaged
  <2>1. CASE k \in Slots /\ Event(k)[1] # a
    <3>1. Event(k)' = Event(k) /\ (~refused' => ~refused)
      BY <1>3, <1>4, <2>1, AddedUnlessRefused
    <3>2. x \in Alerts /\ x = Event(k)[1] /\ memory'[x] = memory[x]
      BY <1>5, <1>8, <2>1, <3>1
    <3> QED BY <1>2, <1>7, <2>1, <3>1, <3>2 DEF EventsMatch
  <2>2. CASE k \in Slots /\ Event(k)[1] = a
    <3>1. Event(k)' = Event(k) /\ x = a /\ ~Event(k)[2]
      BY <1>4, <1>8, <2>2
    <3>2. ~refused' => Added(p)
      BY <1>3, AddedUnlessRefused
    <3> QED BY <1>5, <3>1, <3>2
  <2>3. CASE k \notin Slots
    <3>1. Event(k)' = p /\ Added(p)
      BY <1>4, <2>3
    <3>2. x = a
      BY <3>1
    <3> QED BY <1>1, <1>2, <1>5, <1>7, <3>1, <3>2
  <2> QED BY <2>1, <2>2, <2>3
<1>15. NotForgotten'
  <2> SUFFICES ASSUME NEW x \in Alerts, memory'[x] = "live"
               PROVE  Engaged(x)' \/ OnTheWay(x, TRUE)'
    BY DEF NotForgotten
  <2>1. CASE x = a
    <3>1. Added(p)
      BY <1>5, <2>1
    <3> QED BY <1>4, <2>1, <3>1 DEF OnTheWay
  <2>2. CASE x # a
    BY <1>5, <1>7, <1>9, <2>2 DEF NotForgotten
  <2> QED BY <2>1, <2>2
<1>16. EngageKnown'
  <2> SUFFICES ASSUME ~refused', NEW x \in Alerts, memory'[x] # "none"
               PROVE  "engage" \in notified'[x] \/ OnTheWay(x, FALSE)'
    BY DEF EngageKnown
  <2>1. ~refused /\ memory[x] # "none"
    BY <1>3, <1>5, AddedUnlessRefused
  <2> QED BY <1>2, <1>9, <2>1 DEF EngageKnown
<1>17. EngageBeforeRelease'
  BY <1>2, <1>3, AddedUnlessRefused DEF EngageBeforeRelease
<1>18. FilterFollows'
  <2> SUFFICES ASSUME ~refused' PROVE FilterFollows'
    BY DEF FilterFollows
  <2>1. Added(p) /\ ~refused
    BY <1>3, AddedUnlessRefused
  <2>2. ASSUME NEW c \in Checks, engaged_alerts'[c] # NoAlert,
               ~released'[engaged_alerts'[c]]
        PROVE  filter' \/ OnTheWay(engaged_alerts[c], FALSE)'
    <3>1. PICK b : b = engaged_alerts[c] /\ b = engaged_alerts'[c]
      BY <1>6, <2>2
    <3>2. filter \/ OnTheWay(b, FALSE)
      BY <1>2, <2>1, <2>2, <3>1 DEF FilterFollows
    <3>3. filter' \/ OnTheWay(b, FALSE)'
      BY <1>2, <1>9, <3>2
    <3> QED BY <3>1, <3>3 DEF OnTheWay
  <2>3. ASSUME NEW k \in Slots', NEW c \in Checks, engaged_alerts'[c] # NoAlert,
               last_released'[Event(k)'[1]]
        PROVE  \E l \in Slots' : k < l /\ Event(l)' = <<engaged_alerts'[c], FALSE>>
    <3>1. ~last_released'[a]
      BY <1>12, <2>3 DEF EngagedChecks
    <3>2. k \in Slots /\ Event(k)' = Event(k) /\ Event(k)[1] # a
      <4>1. CASE k \notin Slots
        <5>1. Event(k)' = p
          BY <1>4, <4>1
        <5>2. Event(k)'[1] = a
          BY <5>1
        <5> QED BY <2>3, <3>1, <5>2
      <4> QED BY <1>4, <2>3, <3>1, <4>1
    <3>3. last_released[Event(k)[1]]
      BY <1>8, <1>12, <2>3, <3>2
    <3>4. PICK l \in Slots : k < l /\ Event(l) = <<engaged_alerts[c], FALSE>>
      BY <1>6, <2>1, <2>3, <3>2, <3>3 DEF FilterFollows
    <3> QED BY <1>4, <1>6, <2>3, <3>4
  <2>4. ASSUME EngagedChecks' = {}
        PROVE  /\ Slots' # {}
               /\ LET q == Event(Len(hostAlertsQueue))'
                  IN q[2] /\ last_released'[q[1]]
    <3>1. Event(Len(hostAlertsQueue))' = p /\ Slots' # {}
      BY <1>4, <2>1
    <3>2. last_released'[a]
      BY <1>12, <2>4
    <3> QED BY <3>1, <3>2
  <2> QED BY <2>2, <2>3, <2>4 DEF FilterFollows
<1> QED BY <1>10, <1>11, <1>12, <1>13, <1>14, <1>15, <1>16, <1>17, <1>18
-----------------------------------------------------------------------------
(***************************************************************************)
(* The types, the uses and the host.                                       *)
(***************************************************************************)

HostInv == TypeOK /\ UsesCounted /\ DeletedQuiet

\* The range of the uses follows from what they count.
LEMMA UsesRange ==
  ASSUME UsesCounted, Len(hostAlertsQueue) \in 0 .. QueueLen
  PROVE  uses \in -1 .. QueueLen + 1
BY AlertAssumption DEF UsesCounted

LEMMA EnqueueType ==
  ASSUME TypeOK, NEW a \in Alerts, NEW rel \in BOOLEAN,
         NEW next \in {"idle", "verify", "leaving"},
         enqueueHostAlert(a, rel, next)
  PROVE  /\ memory' \in [Alerts -> {"none", "live", "freed"}]
         /\ hostAlertsQueue' \in Seq(Pairs) /\ Len(hostAlertsQueue') <= QueueLen
         /\ i_next' = next /\ refused' \in BOOLEAN
         /\ \/ i_pc' = "count" /\ Len(hostAlertsQueue') = Len(hostAlertsQueue) + 1
            \/ i_pc' = next /\ Len(hostAlertsQueue') = Len(hostAlertsQueue)
         /\ Len(hostAlertsQueue) \in Nat /\ Len(hostAlertsQueue') \in Nat
<1> USE AlertAssumption DEF TypeOK
<1>1. CASE Queue(a, rel)
  <2>1. <<a, rel>> \in Pairs
    BY DEF Pairs
  <2>2. /\ hostAlertsQueue' \in Seq(Pairs) /\ Len(hostAlertsQueue) \in Nat
        /\ Len(hostAlertsQueue') = Len(hostAlertsQueue) + 1
    BY <1>1, <2>1 DEF Queue
  <2> QED BY <1>1, <2>2 DEF enqueueHostAlert, Queue, CanQueue
<1>2. CASE Refuse(a, IF rel THEN "freed" ELSE "live", next)
  BY <1>2 DEF enqueueHostAlert, Refuse
<1> QED BY <1>1, <1>2 DEF enqueueHostAlert

\* An event is queued before its use is counted.
LEMMA UsesQueued ==
  ASSUME UsesCounted, i_pc # "count", uses' = uses, d_pc' = d_pc,
         NEW n \in Nat, n = Len(hostAlertsQueue), uses \in Int,
         \/ i_pc' = "count" /\ Len(hostAlertsQueue') = n + 1
         \/ i_pc' # "count" /\ Len(hostAlertsQueue') = n
  PROVE  UsesCounted'
<1>1. uses = n + (IF d_pc = "idle" THEN 0 ELSE 1)
  BY DEF UsesCounted
<1>2. CASE i_pc' = "count" /\ Len(hostAlertsQueue') = n + 1
  BY <1>1, <1>2 DEF UsesCounted
<1>3. CASE i_pc' # "count" /\ Len(hostAlertsQueue') = n
  BY <1>1, <1>3 DEF UsesCounted
<1> QED BY <1>2, <1>3

LEMMA InlineHost ==
  ASSUME HostInv, Quiet,
         \/ incUses \/ NotTriggered \/ Refresh \/ SetIdle \/ DeleteHost
         \/ \E c \in Checks : ExecCheck(c)
         \/ \E disabled \in BOOLEAN : Verify(disabled)
  PROVE  HostInv'
<1> USE DEF HostInv, Quiet, hostVars, dequeueVars, alertVars
<1>1. Len(hostAlertsQueue) \in 0 .. QueueLen
  BY AlertAssumption DEF TypeOK
<1>2. CASE incUses
  <2>1. UsesCounted'
    <3>1. /\ i_pc = "count" /\ i_pc' # "count" /\ uses' = uses + 1
          /\ UNCHANGED <<hostAlertsQueue, d_pc>> /\ uses \in Int
      BY <1>2, AlertAssumption DEF incUses, TypeOK
    <3> QED BY <1>1, <3>1 DEF UsesCounted
  <2>2. uses' \in -1 .. QueueLen + 1
    BY <1>1, <1>2, <2>1, AlertAssumption DEF incUses, UsesCounted
  <2>3. TypeOK'
    BY <1>2, <2>2 DEF incUses, TypeOK
  <2>4. DeletedQuiet'
    BY <1>2 DEF incUses, DeletedQuiet
  <2> QED BY <2>1, <2>3, <2>4
<1>3. CASE NotTriggered \/ Refresh \/ SetIdle
  <2> USE <1>3 DEF NotTriggered, Refresh, SetIdle
  <2>1. /\ i_pc \in {"check", "idle"} /\ i_pc' \in {"verify", "leaving"}
        /\ UNCHANGED <<hostAlertsQueue, uses, d_pc>>
        /\ host' = host \/ (host = "active" /\ host' = "idle")
    OBVIOUS
  <2>2. expiring' \in [Alerts -> BOOLEAN]
    BY DEF TypeOK
  <2>3. TypeOK'
    BY <2>1, <2>2 DEF TypeOK
  <2>4. UsesCounted'
    BY <2>1 DEF UsesCounted
  <2>5. DeletedQuiet'
    BY <2>1 DEF DeletedQuiet
  <2> QED BY <2>3, <2>4, <2>5
<1>4. CASE DeleteHost
  <2>1. Len(hostAlertsQueue) = 0 /\ d_pc = "idle"
    BY <1>1, <1>4 DEF DeleteHost, UsesCounted
  <2> QED BY <1>4, <2>1 DEF DeleteHost, TypeOK, UsesCounted, DeletedQuiet
<1>5. ASSUME NEW c \in Checks, ExecCheck(c)
      PROVE  HostInv'
  BY <1>5 DEF ExecCheck, TypeOK, UsesCounted, DeletedQuiet
<1>6. ASSUME NEW disabled \in BOOLEAN, Verify(disabled)
      PROVE  HostInv'
  BY <1>6 DEF Verify, releaseAlert, TypeOK, UsesCounted, DeletedQuiet
<1> QED BY <1>2, <1>3, <1>4, <1>5, <1>6

LEMMA MarkHost ==
  ASSUME HostInv, NEW c \in Checks, Mark(c),
         i_pc \notin {"count"}, host # "deleted"
  PROVE  HostInv'
BY DEF HostInv, Mark, releaseAlert, hostVars, dequeueVars, TypeOK, UsesCounted,
       DeletedQuiet

LEMMA EngageHost ==
  ASSUME HostInv, NEW a \in Alerts, Engage(a),
         num_engaged_alerts' \in 0 .. Cardinality(Checks),
         score' = num_engaged_alerts'
  PROVE  HostInv'
<1> USE DEF HostInv
<1>1. /\ memory' \in [Alerts -> {"none", "live", "freed"}]
      /\ hostAlertsQueue' \in Seq(Pairs) /\ Len(hostAlertsQueue') <= QueueLen
      /\ i_next' = "verify" /\ refused' \in BOOLEAN
      /\ \/ i_pc' = "count" /\ Len(hostAlertsQueue') = Len(hostAlertsQueue) + 1
         \/ i_pc' = "verify" /\ Len(hostAlertsQueue') = Len(hostAlertsQueue)
      /\ Len(hostAlertsQueue) \in Nat /\ Len(hostAlertsQueue') \in Nat
  BY EnqueueType DEF Engage
<1>2. TypeOK'
  BY <1>1 DEF Engage, dequeueVars, TypeOK
<1>3. /\ i_pc = "check" /\ UNCHANGED <<uses, d_pc, host>> /\ uses \in Int
  BY AlertAssumption DEF Engage, dequeueVars, TypeOK
<1>4. UsesCounted'
  BY <1>1, <1>3, UsesQueued
<1>5. DeletedQuiet'
  BY <1>3 DEF DeletedQuiet
<1> QED BY <1>2, <1>4, <1>5

LEMMA RemoveHost ==
  ASSUME HostInv, Engagement, removeEngagedAlert,
         num_engaged_alerts' \in 0 .. Cardinality(Checks),
         score' = num_engaged_alerts', last_released' \in [Alerts -> BOOLEAN]
  PROVE  HostInv'
<1> USE DEF HostInv
<1>1. i_alert \in Alerts /\ i_pc = "remove"
  BY DEF removeEngagedAlert, Engagement
<1>2. /\ memory' \in [Alerts -> {"none", "live", "freed"}]
      /\ hostAlertsQueue' \in Seq(Pairs) /\ Len(hostAlertsQueue') <= QueueLen
      /\ i_next' = i_next /\ refused' \in BOOLEAN
      /\ \/ i_pc' = "count" /\ Len(hostAlertsQueue') = Len(hostAlertsQueue) + 1
         \/ i_pc' = i_next /\ Len(hostAlertsQueue') = Len(hostAlertsQueue)
      /\ Len(hostAlertsQueue) \in Nat /\ Len(hostAlertsQueue') \in Nat
  <2>1. enqueueHostAlert(i_alert, TRUE, i_next)
    BY DEF removeEngagedAlert
  <2>2. PICK next \in {"idle", "verify", "leaving"} : next = i_next
    BY DEF TypeOK
  <2>3. enqueueHostAlert(i_alert, TRUE, next)
    BY <2>1, <2>2
  <2>4. i_next' = next
    BY <1>1, <2>3, EnqueueType
  <2> HIDE DEF HostInv
  <2> QED BY <1>1, <2>2, <2>3, <2>4, EnqueueType DEF HostInv
<1>3. TypeOK'
  BY <1>1, <1>2 DEF removeEngagedAlert, dequeueVars, TypeOK
<1>4. /\ UNCHANGED <<uses, d_pc, host>> /\ uses \in Int /\ i_next # "count"
  BY AlertAssumption DEF removeEngagedAlert, dequeueVars, TypeOK
<1>5. UsesCounted'
  BY <1>1, <1>2, <1>4, UsesQueued
<1>6. DeletedQuiet'
  BY <1>1, <1>4 DEF DeletedQuiet
<1> QED BY <1>3, <1>5, <1>6

LEMMA DequeueHost ==
  ASSUME HostInv, InOrder, DequeueThread
  PROVE  HostInv'
<1> USE DEF HostInv
<1>1. CASE Dequeue
  <2>1. /\ Len(hostAlertsQueue) \in Nat /\ Len(hostAlertsQueue) > 0
        /\ Len(hostAlertsQueue') = Len(hostAlertsQueue) - 1
        /\ hostAlertsQueue' \in Seq(Pairs) /\ d_pair' \in Pairs
    BY <1>1, EventsShift
  <2> USE DEF Dequeue, alertVars, hostVars, inlineVars
  <2>2. TypeOK'
    BY <1>1, <2>1, AlertAssumption DEF TypeOK
  <2>3. UsesCounted'
    <3>1. /\ UNCHANGED <<uses, i_pc>> /\ d_pc = "idle" /\ d_pc' = "notify"
      BY <1>1
    <3> QED BY <2>1, <3>1 DEF UsesCounted
  <2>4. DeletedQuiet'
    BY <1>1, <2>1 DEF DeletedQuiet
  <2> QED BY <2>2, <2>3, <2>4
<1>2. CASE enqueueAlertToRecipients
  <2> USE DEF enqueueAlertToRecipients, hostVars, inlineVars
  <2>1. d_pair[1] \in Alerts /\ d_pair[2] \in BOOLEAN
    BY <1>2 DEF InOrder, Pairs
  <2>2. /\ filter' \in BOOLEAN
        /\ memory' \in [Alerts -> {"none", "live", "freed"}]
        /\ notified' \in [Alerts -> SUBSET {"engage", "release"}]
    BY <1>2, <2>1 DEF TypeOK
  <2>3. TypeOK'
    BY <1>2, <2>2 DEF TypeOK
  <2>4. UsesCounted' /\ DeletedQuiet'
    BY <1>2 DEF UsesCounted, DeletedQuiet
  <2> QED BY <2>3, <2>4
<1>3. CASE decUses
  <2> USE DEF decUses, alertVars, hostVars, inlineVars
  <2>1. Len(hostAlertsQueue) \in 0 .. QueueLen
    BY AlertAssumption DEF TypeOK
  <2>2. UsesCounted'
    BY <1>3, <2>1 DEF UsesCounted
  <2>3. uses' \in -1 .. QueueLen + 1
    BY <1>3, <2>1, <2>2, AlertAssumption DEF UsesCounted
  <2>4. TypeOK'
    BY <1>3, <2>3 DEF TypeOK
  <2>5. DeletedQuiet'
    BY <1>3 DEF DeletedQuiet
  <2> QED BY <2>2, <2>4, <2>5
<1> QED BY <1>1, <1>2, <1>3 DEF DequeueThread
-----------------------------------------------------------------------------
(***************************************************************************)
(* The invariant is inductive.                                             *)
(***************************************************************************)

\* The steps of the inline thread that enqueue nothing are quiet, or mark an
\* alert as released.
LEMMA QuietSteps ==
  ASSUME TypeOK,
         \/ incUses \/ NotTriggered \/ Refresh \/ SetIdle \/ DeleteHost
         \/ \E c \in Checks : ExecCheck(c)
  PROVE  Quiet
BY DEF TypeOK, incUses, NotTriggered, Refresh, SetIdle, DeleteHost, ExecCheck,
       Quiet, alertVars

LEMMA MarkSteps ==
  ASSUME HostInv, NEW c \in Checks, ReleaseDisabled(c) \/ releaseAllEngagedAlerts(c)
  PROVE  Mark(c) /\ i_pc # "count" /\ host # "deleted"
<1>1. CASE ReleaseDisabled(c)
  <2>1. releaseAlert(engaged_alerts[c], "idle")
    BY <1>1 DEF ReleaseDisabled
  <2>2. \E next \in {"idle", "leaving"} : releaseAlert(engaged_alerts[c], next)
    BY <2>1
  <2> QED BY <1>1, <2>2 DEF ReleaseDisabled, Mark
<1>2. CASE releaseAllEngagedAlerts(c)
  <2>1. releaseAlert(engaged_alerts[c], "leaving")
    BY <1>2 DEF releaseAllEngagedAlerts
  <2>2. \E next \in {"idle", "leaving"} : releaseAlert(engaged_alerts[c], next)
    BY <2>1
  <2>3. host # "deleted"
    BY <1>2 DEF releaseAllEngagedAlerts, HostInv, DeletedQuiet
  <2> QED BY <1>2, <2>2, <2>3 DEF releaseAllEngagedAlerts, Mark
<1> QED BY <1>1, <1>2

LEMMA VerifySteps ==
  ASSUME HostInv, NEW disabled \in BOOLEAN, Verify(disabled)
  PROVE  Quiet \/ (Mark(i_check) /\ i_pc # "count" /\ host # "deleted")
<1> DEFINE a == engaged_alerts[i_check]
<1>1. CASE a # NoAlert /\ (expiring[a] \/ disabled)
  <2>1. releaseAlert(a, "idle")
    BY <1>1 DEF Verify
  <2>2. \E next \in {"idle", "leaving"} : releaseAlert(a, next)
    BY <2>1
  <2>3. i_pc = "verify" /\ host # "deleted"
    BY DEF Verify, HostInv, DeletedQuiet
  <2> QED BY <1>1, <2>2, <2>3 DEF Verify, Mark
<1>2. CASE ~(a # NoAlert /\ (expiring[a] \/ disabled))
  BY <1>2 DEF Verify, Quiet
<1> QED BY <1>1, <1>2

LEMMA InitInv == Init => IInv
<1> SUFFICES ASSUME Init PROVE IInv
  OBVIOUS
<1>1. Slots = {} /\ Len(hostAlertsQueue) = 0
  BY DEF Init, Slots
<1>2. EngagedChecks = {}
  BY DEF Init, EngagedChecks
<1>3. Cardinality(Checks) \in Nat /\ Cardinality(EngagedChecks) = 0
  BY <1>2, AlertAssumption, FS_CardinalityType, FS_EmptySet
<1>4. TypeOK
  <2>1. hostAlertsQueue \in Seq(Pairs) /\ Len(hostAlertsQueue) <= QueueLen
    BY <1>1, AlertAssumption DEF Init
  <2>2. uses \in -1 .. QueueLen + 1
    BY AlertAssumption DEF Init
  <2>3. num_engaged_alerts \in 0 .. Cardinality(Checks) /\ score \in 0 .. Cardinality(Checks)
    BY <1>3 DEF Init
  <2>4. notified \in [Alerts -> SUBSET {"engage", "release"}]
    BY DEF Init
  <2>5. check \in [Alerts -> Checks] /\ i_check \in Checks
    BY DEF Init
  <2> QED BY <2>1, <2>2, <2>3, <2>4, <2>5 DEF Init, TypeOK, NoPair
<1>5. UsesCounted /\ DeletedQuiet
  BY <1>1 DEF Init, UsesCounted, DeletedQuiet
<1>6. Engagement /\ Balanced
  BY <1>3 DEF Init, Engagement, Balanced
<1>7. InOrder /\ EventsMatch
  BY <1>1 DEF Init, InOrder, EventsMatch
<1>8. NotForgotten /\ EngageKnown /\ EngageBeforeRelease
  BY DEF Init, NotForgotten, EngageKnown, EngageBeforeRelease
<1>9. FilterFollows
  BY <1>1, <1>2 DEF Init, FilterFollows
<1> QED BY <1>4, <1>5, <1>6, <1>7, <1>8, <1>9 DEF IInv

LEMMA StutterInv ==
  ASSUME IInv, UNCHANGED vars
  PROVE  IInv'
<1> USE DEF vars, alertVars, hostVars, inlineVars, dequeueVars
<1>1. /\ Slots' = Slots /\ \A k : Event(k)' = Event(k)
      /\ \A a, r : OnTheWay(a, r)' <=> OnTheWay(a, r)
  BY EventsSame
<1>2. TypeOK'
  BY DEF IInv, TypeOK
<1>2a. UsesCounted' /\ DeletedQuiet'
  BY DEF IInv, UsesCounted, DeletedQuiet
<1>3. Engagement' /\ Balanced'
  BY DEF IInv, Engagement, Balanced, EngagedChecks
<1>4. InOrder' /\ EventsMatch'
  BY <1>1 DEF IInv, InOrder, EventsMatch, Engaged
<1>5. NotForgotten' /\ EngageKnown' /\ EngageBeforeRelease'
  BY <1>1 DEF IInv, NotForgotten, EngageKnown, EngageBeforeRelease, Engaged
<1>6. FilterFollows'
  BY <1>1 DEF IInv, FilterFollows, EngagedChecks
<1> QED BY <1>2, <1>2a, <1>3, <1>4, <1>5, <1>6 DEF IInv

LEMMA NextInv ==
  ASSUME IInv, Next
  PROVE  IInv'
<1>1. HostInv /\ AlertInv /\ TypeOK
  BY DEF IInv, HostInv, AlertInv
<1> SUFFICES HostInv' /\ AlertInv'
  BY DEF IInv, HostInv, AlertInv
<1>2. CASE \/ incUses \/ NotTriggered \/ Refresh \/ SetIdle \/ DeleteHost
           \/ \E c \in Checks : ExecCheck(c)
  <2>1. Quiet
    BY <1>1, <1>2, QuietSteps
  <2> QED BY <1>1, <1>2, <2>1, QuietInv, InlineHost
<1>3. ASSUME NEW disabled \in BOOLEAN, Verify(disabled)
      PROVE  HostInv' /\ AlertInv'
  <2>1. CASE Quiet
    BY <1>1, <1>3, <2>1, QuietInv, InlineHost
  <2>2. CASE Mark(i_check) /\ i_pc # "count" /\ host # "deleted"
    <3>1. i_check \in Checks
      BY <1>1 DEF TypeOK
    <3> QED BY <1>1, <2>2, <3>1, MarkInv, MarkHost
  <2> QED BY <1>1, <1>3, <2>1, <2>2, VerifySteps
<1>4. ASSUME NEW c \in Checks, ReleaseDisabled(c) \/ releaseAllEngagedAlerts(c)
      PROVE  HostInv' /\ AlertInv'
  <2>1. Mark(c) /\ i_pc # "count" /\ host # "deleted"
    BY <1>1, <1>4, MarkSteps
  <2> QED BY <1>1, <2>1, MarkInv, MarkHost
<1>5. CASE removeEngagedAlert
  <2>1. /\ AlertInv' /\ num_engaged_alerts' \in 0 .. Cardinality(Checks)
        /\ last_released' \in [Alerts -> BOOLEAN]
    BY <1>1, <1>5, RemoveInv
  <2>2. score' = num_engaged_alerts'
    BY <2>1 DEF AlertInv, Balanced
  <2>3. Engagement
    BY <1>1 DEF AlertInv
  <2> QED BY <1>1, <1>5, <2>1, <2>2, <2>3, RemoveHost
<1>6. ASSUME NEW a \in Alerts, Engage(a)
      PROVE  HostInv' /\ AlertInv'
  <2>1. AlertInv' /\ num_engaged_alerts' \in 1 .. Cardinality(Checks)
    BY <1>1, <1>6, EngageInv
  <2>2. /\ score' = num_engaged_alerts'
        /\ num_engaged_alerts' \in 0 .. Cardinality(Checks)
    <3>1. score' = num_engaged_alerts'
      BY <2>1 DEF AlertInv, Balanced
    <3>2. Cardinality(Checks) \in Nat
      BY AlertAssumption, FS_CardinalityType
    <3> QED BY <2>1, <3>1, <3>2
  <2> QED BY <1>1, <1>6, <2>1, <2>2, EngageHost
<1>7. CASE DequeueThread
  <2>1. AlertInv'
    BY <1>1, <1>7, DequeueInv, NotifyInv, DoneInv DEF DequeueThread
  <2>2. InOrder
    BY <1>1 DEF AlertInv
  <2> QED BY <1>1, <1>7, <2>1, <2>2, DequeueHost
<1> QED BY <1>2, <1>3, <1>4, <1>5, <1>6, <1>7 DEF Next, Inline

LEMMA Inductive == Spec => []IInv
<1>1. IInv /\ [Next]_vars => IInv'
  BY NextInv, StutterInv
<1> QED BY <1>1, InitInv, PTL DEF Spec
-----------------------------------------------------------------------------
(***************************************************************************)
(* The theorems.                                                           *)
(***************************************************************************)

LEMMA PendingIs ==
  ASSUME TypeOK
  PROVE  Pending = {Event(k) : k \in Slots}
<1>1. Len(hostAlertsQueue) \in Nat /\ DOMAIN hostAlertsQueue = 1 .. Len(hostAlertsQueue)
  BY DEF TypeOK
<1>2. ASSUME NEW p \in Pending
      PROVE  \E k \in Slots : p = Event(k)
  <2>1. CASE \E k \in DOMAIN hostAlertsQueue : p = hostAlertsQueue[k]
    BY <1>1, <2>1 DEF Slots, Event
  <2>2. CASE d_pc = "notify" /\ p = d_pair
    BY <1>1, <2>2 DEF Slots, Event
  <2> QED BY <1>2, <2>1, <2>2 DEF Pending, Queued
<1>3. ASSUME NEW k \in Slots
      PROVE  Event(k) \in Pending
  <2>1. CASE k = 0
    BY <2>1 DEF Slots, Event, Pending
  <2>2. CASE k # 0
    BY <1>1, <2>2 DEF Slots, Event, Pending, Queued
  <2> QED BY <2>1, <2>2
<1> QED BY <1>2, <1>3

\* No deleted alert is referred to, however the inline thread and the dequeue
\* thread interleave: the alert of a check is engaged by that check and lives,
\* and so does the alert of every event in hostAlertsQueue unless some event was
\* refused.
THEOREM AlertsLive == Spec => []AlertsAreLive
<1>1. ASSUME IInv PROVE AlertsAreLive
  <2>1. \A c \in Checks : LET a == engaged_alerts[c]
                          IN a # NoAlert => memory[a] = "live" /\ check[a] = c
    BY <1>1 DEF IInv, Engagement
  <2>2. ~refused => \A k \in Slots : memory[Event(k)[1]] = "live"
    BY <1>1 DEF IInv, EventsMatch
  <2>3. Pending = {Event(k) : k \in Slots}
    BY <1>1, PendingIs DEF IInv
  <2> QED BY <2>1, <2>2, <2>3 DEF AlertsAreLive
<1> QED BY <1>1, Inductive, PTL

\* enqueueHostAlert() and the dequeue thread forget no alert: one that was not
\* deleted is engaged, or its release is on its way to the recipients.
THEOREM AlertsNotLeaked == Spec => []NoLeak
<1>1. ASSUME IInv PROVE NoLeak
  <2>1. Pending = {Event(k) : k \in Slots}
    BY <1>1, PendingIs DEF IInv
  <2> QED BY <1>1, <2>1 DEF IInv, NotForgotten, Engaged, OnTheWay, NoLeak
<1> QED BY <1>1, Inductive, PTL

\* The uses that enqueueHostAlert() counts after the enqueue keep the host until
\* its last event is handled.
THEOREM HostOutlives == Spec => []HostOutlivesEvents
<1>1. ASSUME IInv PROVE HostOutlivesEvents
  <2> SUFFICES ASSUME host = "deleted" PROVE Pending = {} /\ d_pc = "idle"
    BY DEF HostOutlivesEvents
  <2>1. Len(hostAlertsQueue) = 0 /\ d_pc = "idle"
    BY <1>1 DEF IInv, DeletedQuiet
  <2>2. Slots = {}
    BY <2>1 DEF Slots
  <2> QED BY <1>1, <2>1, <2>2, PendingIs DEF IInv
<1> QED BY <1>1, Inductive, PTL

\* num_engaged_alerts and the score of the host are those of its engaged alerts,
\* whichever way an alert is released.
THEOREM ScoresBalanced == Spec => []ScoreBalanced
<1>1. IInv => ScoreBalanced
  BY DEF IInv, Balanced, EngagedChecks, ScoreBalanced
<1> QED BY <1>1, Inductive, PTL

\* The recipients are told of the engagement of an alert before its release.
THEOREM EngagedBeforeReleased == Spec => []EngageBeforeRelease
<1>1. IInv => EngageBeforeRelease
  BY DEF IInv
<1> QED BY <1>1, Inductive, PTL

\* enqueueAlertToRecipients() goes by the present flags of the alert, and yet the
\* host is in the filters exactly when it has engaged alerts, once its events
\* are handled.
THEOREM FilterIsRight == Spec => []FilterAgrees
<1>1. ASSUME IInv PROVE FilterAgrees
  <2> SUFFICES ASSUME ~refused, Pending = {}, i_pc # "remove"
               PROVE  filter = (num_engaged_alerts > 0)
    BY DEF FilterAgrees
  <2>1. Slots = {}
    BY <1>1, PendingIs DEF IInv
  <2>2. \A a, r : ~OnTheWay(a, r)
    BY <2>1 DEF OnTheWay
  <2>3. num_engaged_alerts \in Nat /\ (num_engaged_alerts = 0 <=> EngagedChecks = {})
    <3>1. IsFiniteSet(EngagedChecks)
      BY AlertAssumption, FS_Subset DEF EngagedChecks
    <3>2. num_engaged_alerts = Cardinality(EngagedChecks)
      BY <1>1 DEF IInv, Balanced
    <3> QED BY <3>1, <3>2, FS_CardinalityType, FS_EmptySet
  <2>4. filter \in BOOLEAN
    BY <1>1 DEF IInv, TypeOK
  <2>5. CASE EngagedChecks = {}
    <3>1. ~filter
      BY <1>1, <2>1, <2>5 DEF IInv, FilterFollows
    <3> QED BY <2>3, <2>4, <2>5, <3>1
  <2>6. CASE EngagedChecks # {}
    <3>1. PICK c \in Checks : engaged_alerts[c] # NoAlert
      BY <2>6 DEF EngagedChecks
    <3>2. ~released[engaged_alerts[c]]
      BY <1>1, <3>1 DEF IInv, Engagement
    <3>3. filter
      BY <1>1, <2>2, <3>1, <3>2 DEF IInv, FilterFollows
    <3>4. num_engaged_alerts > 0
      BY <2>3, <2>6
    <3> QED BY <2>4, <3>3, <3>4
  <2> QED BY <2>5, <2>6
<1> QED BY <1>1, Inductive, PTL
=============================================================================
