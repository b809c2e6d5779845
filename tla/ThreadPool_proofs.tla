------------------------- MODULE ThreadPool_proofs --------------------------
(***************************************************************************)
(* The safety of the periodic activities, for any number of jobs and       *)
(* threads: a job is queued or run once at a time, no job is refused for   *)
(* ever, and the activities are deleted after the last script.             *)
(*                                                                         *)
(* The inductive invariant says what queueJob() relies on when it reads    *)
(* the state of a job without the mutex: before a shutdown request, the    *)
(* state tells whether the job is somewhere; after it, no job is queued    *)
(* but the one whose state was read before.  It also says which thread has *)
(* already stopped in each phase of the shutdown.                          *)
(***************************************************************************)
EXTENDS ThreadPool, FiniteSetTheorems, TLAPS

InQueue(j) == \E i \in 1 .. Len(threads) : threads[i] = j
Held(j) == \E w \in Workers : w_job[w] = j

\* The steps in which a thread holds a job, and the main thread after the end
\* of the scheduler.
Busy == {"got", "start", "run", "script", "end"}
Ending == {"delete", "join", "joining", "deleted"}

Scheduled == s_pc \in {"read", "flag", "spawn", "push"} => s_job \in Jobs

HoldsJob ==
  \A w \in Workers : w_pc[w] \in Busy <=> w_job[w] # NoJob

\* A job is in one place.
OnePlace ==
  /\ \A i, k \in 1 .. Len(threads) : threads[i] = threads[k] => i = k
  /\ \A w, v \in Workers : w_job[w] = w_job[v] /\ w_job[w] # NoJob => w = v
  /\ \A j \in Jobs : ~(InQueue(j) /\ Held(j))
  /\ \A j \in Jobs : BeingQueued(j) => ~InQueue(j) /\ ~Held(j)

\* Before a shutdown request the state of a job tells whether it is somewhere.
StateTells ==
  ~shutdownRequested =>
    \A j \in Jobs : ~isQueueable(state[j]) <=> InQueue(j) \/ Held(j)

\* The threads that exist, and those that have ended.
ThreadsJoined ==
  \A w \in Workers : /\ w > num_threads => w_pc[w] = "none"
                     /\ w <= m_joined => w_pc[w] = "exited"

Phases ==
  /\ m_pc = "create" => s_pc = "none"
  /\ m_pc = "running" /\ ~thread_running => s_pc \in {"none", "done"}
  /\ m_pc \in Ending => s_pc \in {"none", "done"} /\ shutdownRequested
  /\ terminating => m_pc \in Ending
  /\ m_pc = "joining" => m_joined < num_threads
  /\ m_pc = "deleted" => m_joined = num_threads

IInv == /\ TypeOK /\ Scheduled /\ HoldsJob /\ OnePlace /\ StateTells
        /\ ThreadsJoined /\ Phases
-----------------------------------------------------------------------------
(***************************************************************************)
(* What the helpers do.                                                    *)
(***************************************************************************)

Steps == {"none", "check", "dequeue", "wait", "got", "start", "run", "script",
          "end", "exited"}

\* spawn() starts threads that were not there, at most up to the maximum.
LEMMA SpawnEffect ==
  ASSUME TypeOK, NEW n \in Nat, spawn(n)
  PROVE  /\ num_threads' \in num_threads .. MaxThreads
         /\ w_pc' \in [Workers -> Steps]
         /\ \A w \in Workers :
              \/ w_pc'[w] = w_pc[w]
              \/ num_threads < w /\ w <= num_threads' /\ w_pc'[w] = "check"
<1> DEFINE most == IF n <= MaxThreads - num_threads THEN n
                                                    ELSE MaxThreads - num_threads
<1>1. most \in 0 .. MaxThreads - num_threads
  BY PoolAssumption DEF TypeOK
<1>2. PICK k \in 0 .. most :
        /\ num_threads' = num_threads + k
        /\ w_pc' = [w \in Workers |->
                      IF num_threads < w /\ w <= num_threads + k THEN "check"
                                                                 ELSE w_pc[w]]
  BY <1>1 DEF spawn
<1> HIDE DEF most
<1>3. num_threads' \in num_threads .. MaxThreads
  BY <1>1, <1>2, PoolAssumption DEF TypeOK
<1>4. w_pc' \in [Workers -> Steps]
  BY <1>2 DEF TypeOK, Steps
<1> QED BY <1>2, <1>3, <1>4

\* A signal or a broadcast only wakes up threads that wait.
LEMMA SignalEffect ==
  ASSUME TypeOK, cond_signal \/ cond_broadcast
  PROVE  /\ w_pc' \in [Workers -> Steps]
         /\ \A w \in Workers : \/ w_pc'[w] = w_pc[w]
                               \/ w_pc[w] = "wait" /\ w_pc'[w] = "dequeue"
<1>1. CASE cond_broadcast
  BY <1>1 DEF TypeOK, cond_broadcast, Steps
<1>2. CASE cond_signal
  <2>1. CASE Waiting = {}
    BY <1>2, <2>1 DEF TypeOK, cond_signal, Steps
  <2>2. CASE Waiting # {}
    <3>1. PICK v \in Waiting : w_pc' = [w_pc EXCEPT ![v] = "dequeue"]
      BY <1>2, <2>2 DEF cond_signal
    <3> QED BY <3>1 DEF TypeOK, Waiting, Steps
  <2> QED BY <2>1, <2>2
<1> QED BY <1>1, <1>2

LEMMA StateType ==
  ASSUME TypeOK, NEW j \in Jobs,
         NEW s \in {"unknown", "sleeping", "queued", "running"}, set_state(j, s)
  PROVE  state' \in [Jobs -> {"unknown", "sleeping", "queued", "running"}]
BY DEF TypeOK, set_state

\* A queue in which no job is twice is not longer than there are jobs.
LEMMA QueueFits ==
  ASSUME NEW q \in Seq(Jobs),
         \A i, k \in 1 .. Len(q) : q[i] = q[k] => i = k
  PROVE  Len(q) <= Cardinality(Jobs)
<1>1. Len(q) \in Nat /\ q \in [1 .. Len(q) -> Jobs]
  OBVIOUS
<1>2. IsFiniteSet(1 .. Len(q)) /\ Cardinality(1 .. Len(q)) = Len(q)
  <2>1. PICK n \in Nat : n = Len(q)
    BY <1>1
  <2>2. IsFiniteSet(1 .. n) /\ Cardinality(1 .. n) = n
    BY FS_Interval
  <2> QED BY <2>1, <2>2
<1>3. Cardinality(Jobs) \in Nat
  BY PoolAssumption, FS_CardinalityType
<1>4. ASSUME Cardinality(Jobs) < Cardinality(1 .. Len(q)) PROVE FALSE
  <2>1. \E x, y \in 1 .. Len(q) : x # y /\ q[x] = q[y]
    BY <1>1, <1>2, <1>4, PoolAssumption, FS_PigeonHole
  <2> QED BY <2>1
<1> QED BY <1>2, <1>3, <1>4

\* A job that leaves the queue at its head, or enters it at its end.
LEMMA TailQueue ==
  ASSUME NEW q \in Seq(Jobs), q # <<>>
  PROVE  /\ Head(q) = q[1] /\ Head(q) \in Jobs /\ Tail(q) \in Seq(Jobs)
         /\ Len(q) \in Nat /\ Len(q) >= 1 /\ Len(Tail(q)) = Len(q) - 1
         /\ \A i \in 1 .. Len(Tail(q)) : Tail(q)[i] = q[i + 1]
OBVIOUS

LEMMA AppendQueue ==
  ASSUME NEW q \in Seq(Jobs), NEW j \in Jobs
  PROVE  /\ Append(q, j) \in Seq(Jobs) /\ Len(q) \in Nat
         /\ Len(Append(q, j)) = Len(q) + 1
         /\ \A i \in 1 .. Len(q) : Append(q, j)[i] = q[i]
         /\ Append(q, j)[Len(q) + 1] = j
OBVIOUS
-----------------------------------------------------------------------------
(***************************************************************************)
(* Where the jobs are.                                                     *)
(***************************************************************************)

LEMMA PlaceFrame ==
  ASSUME OnePlace, UNCHANGED <<threads, w_job>>,
         \A j \in Jobs : BeingQueued(j)' => BeingQueued(j)
  PROVE  OnePlace'
BY DEF OnePlace, InQueue, Held

LEMMA TellsFrame ==
  ASSUME StateTells, UNCHANGED <<threads, w_job, state>>,
         shutdownRequested => shutdownRequested'
  PROVE  StateTells'
BY DEF StateTells, InQueue, Held

\* queueJob() goes on with a job that is nowhere, because it saw its state
\* before a shutdown was requested.
LEMMA ReadPlace ==
  ASSUME TypeOK, Scheduled, OnePlace, StateTells, ReadState
  PROVE  OnePlace'
<1>1. UNCHANGED <<threads, w_job, s_job>>
  BY DEF ReadState, poolVars, workerVars
<1>2. s_pc' # "push" /\ (s_pc' = "spawn" => ~InQueue(s_job) /\ ~Held(s_job))
  BY DEF ReadState, StateTells, Scheduled
<1> QED BY <1>1, <1>2 DEF OnePlace, InQueue, Held, BeingQueued

LEMMA PushPlace ==
  ASSUME TypeOK, Scheduled, OnePlace, StateTells, Push
  PROVE  OnePlace' /\ StateTells' /\ threads' \in Seq(Jobs)
<1>1. /\ s_job \in Jobs /\ ~InQueue(s_job) /\ ~Held(s_job)
      /\ threads' = Append(threads, s_job)
      /\ s_pc' = "round" /\ UNCHANGED <<w_job, s_job, shutdownRequested>>
  BY DEF Push, Scheduled, OnePlace, BeingQueued
<1>2. /\ threads' \in Seq(Jobs) /\ Len(threads) \in Nat
      /\ Len(threads') = Len(threads) + 1
      /\ \A i \in 1 .. Len(threads) : threads'[i] = threads[i]
      /\ threads'[Len(threads) + 1] = s_job
  BY <1>1, AppendQueue DEF TypeOK
<1>3. \A j \in Jobs : InQueue(j)' <=> InQueue(j) \/ j = s_job
  BY <1>2 DEF InQueue
<1>4. \A j \in Jobs : Held(j)' <=> Held(j)
  BY <1>1 DEF Held
<1>5. \A i, k \in 1 .. Len(threads') : threads'[i] = threads'[k] => i = k
  <2> SUFFICES ASSUME NEW i \in 1 .. Len(threads'), NEW k \in 1 .. Len(threads'),
                      threads'[i] = threads'[k], i < k
               PROVE  FALSE
    BY <1>2
  <2>1. i \in 1 .. Len(threads) /\ threads'[i] = threads[i]
    BY <1>2
  <2>2. CASE k = Len(threads) + 1
    BY <1>1, <1>2, <2>1, <2>2 DEF InQueue
  <2>3. CASE k \in 1 .. Len(threads)
    <3>1. threads[i] = threads[k]
      BY <1>2, <2>1, <2>3
    <3>2. i = k
      BY <2>1, <2>3, <3>1 DEF OnePlace
    <3> QED BY <3>2
  <2> QED BY <1>2, <2>2, <2>3
<1>6. OnePlace'
  BY <1>1, <1>3, <1>4, <1>5 DEF OnePlace, BeingQueued
<1>7. StateTells'
  BY <1>1, <1>3, <1>4 DEF TypeOK, StateTells, Push, set_state, isQueueable
<1> QED BY <1>2, <1>6, <1>7

LEMMA DequeuePlace ==
  ASSUME TypeOK, HoldsJob, OnePlace, StateTells,
         NEW w \in Workers, DequeueJob(w)
  PROVE  OnePlace' /\ StateTells' /\ threads' \in Seq(Jobs) /\ Head(threads) \in Jobs
<1> DEFINE h == Head(threads)
<1>1. /\ threads # <<>> /\ threads' = Tail(threads)
      /\ w_job' = [w_job EXCEPT ![w] = h] /\ w_job[w] = NoJob
      /\ UNCHANGED <<state, shutdownRequested, s_pc, s_job>>
  BY DEF DequeueJob, HoldsJob, Busy, jobVars, schedVars
<1>2. /\ h = threads[1] /\ h \in Jobs /\ threads' \in Seq(Jobs)
      /\ Len(threads) \in Nat /\ Len(threads) >= 1
      /\ Len(threads') = Len(threads) - 1
      /\ \A i \in 1 .. Len(threads') : threads'[i] = threads[i + 1]
  BY <1>1, TailQueue DEF TypeOK
<1> HIDE DEF h
<1>3. InQueue(h) /\ ~Held(h) /\ ~BeingQueued(h)
  BY <1>2 DEF InQueue, OnePlace
<1>4. \A j \in Jobs : InQueue(j)' => InQueue(j) /\ j # h
  <2> SUFFICES ASSUME NEW i \in 1 .. Len(threads')
               PROVE  InQueue(threads'[i]) /\ threads'[i] # h
    BY DEF InQueue
  <2>1. i + 1 \in 1 .. Len(threads) /\ 1 \in 1 .. Len(threads) /\ i + 1 # 1
    BY <1>2
  <2>2. threads'[i] = threads[i + 1]
    BY <1>2
  <2> QED BY <1>2, <2>1, <2>2 DEF InQueue, OnePlace
<1>5. \A j \in Jobs : InQueue(j) /\ j # h => InQueue(j)'
  <2> SUFFICES ASSUME NEW i \in 1 .. Len(threads), threads[i] # h
               PROVE  \E k \in 1 .. Len(threads') : threads'[k] = threads[i]
    BY DEF InQueue
  <2>1. i - 1 \in 1 .. Len(threads') /\ (i - 1) + 1 = i
    BY <1>2
  <2> QED BY <1>2, <2>1
<1>6. \A j \in Jobs : Held(j)' <=> Held(j) \/ j = h
  BY <1>1, <1>2, PoolAssumption DEF Held, TypeOK
<1>7. OnePlace'
  <2>1. \A i, k \in 1 .. Len(threads') : threads'[i] = threads'[k] => i = k
    BY <1>2 DEF OnePlace
  <2>2. \A u, v \in Workers :
          w_job'[u] = w_job'[v] /\ w_job'[u] # NoJob => u = v
    BY <1>1, <1>3 DEF OnePlace, Held, TypeOK
  <2>3. \A j \in Jobs : BeingQueued(j)' <=> BeingQueued(j)
    BY <1>1 DEF BeingQueued
  <2> QED BY <1>3, <1>4, <1>6, <2>1, <2>2, <2>3 DEF OnePlace
<1>8. StateTells'
  BY <1>1, <1>3, <1>4, <1>5, <1>6 DEF StateTells
<1> QED BY <1>2, <1>7, <1>8 DEF h

\* A job is deleted after its state is sleeping again, or without any change of
\* its state, but then a shutdown was requested.
LEMMA ReleasePlace ==
  ASSUME TypeOK, HoldsJob, OnePlace, StateTells, Phases,
         NEW w \in Workers, DropJob(w) \/ set_state_sleeping(w)
  PROVE  OnePlace' /\ StateTells'
<1>1. /\ w_job' = [w_job EXCEPT ![w] = NoJob] /\ w_job[w] \in Jobs
      /\ UNCHANGED <<threads, s_pc, s_job, shutdownRequested>>
  BY DEF DropJob, set_state_sleeping, HoldsJob, Busy, TypeOK, poolVars, schedVars
<1>2. \A j \in Jobs : /\ InQueue(j)' <=> InQueue(j)
                      /\ Held(j)' <=> Held(j) /\ j # w_job[w]
                      /\ BeingQueued(j)' <=> BeingQueued(j)
  BY <1>1, PoolAssumption DEF InQueue, Held, BeingQueued, TypeOK, OnePlace
<1>3. OnePlace'
  BY <1>1, <1>2 DEF OnePlace, TypeOK
<1>4. StateTells'
  <2>1. CASE DropJob(w)
    <3>1. shutdownRequested
      BY <2>1 DEF DropJob, Phases
    <3> QED BY <1>1, <3>1 DEF StateTells
  <2>2. CASE set_state_sleeping(w)
    <3>1. Held(w_job[w])
      BY DEF Held
    <3>2. ~InQueue(w_job[w])
      BY <1>1, <3>1 DEF OnePlace
    <3> QED BY <1>1, <1>2, <2>2, <3>2
            DEF StateTells, set_state_sleeping, set_state, isQueueable, TypeOK
  <2> QED BY <2>1, <2>2
<1> QED BY <1>3, <1>4

LEMMA RunningPlace ==
  ASSUME TypeOK, HoldsJob, OnePlace, StateTells,
         NEW w \in Workers, set_state_running(w)
  PROVE  OnePlace' /\ StateTells'
<1>1. /\ UNCHANGED <<threads, w_job, s_pc, s_job, shutdownRequested>>
      /\ w_job[w] \in Jobs
  BY DEF set_state_running, HoldsJob, Busy, TypeOK, poolVars, schedVars
<1>2. OnePlace'
  BY <1>1, PlaceFrame DEF BeingQueued
<1>3. Held(w_job[w])
  BY DEF Held
<1>4. StateTells'
  BY <1>1, <1>3 DEF StateTells, set_state_running, set_state, isQueueable, InQueue,
     Held, TypeOK
<1> QED BY <1>2, <1>4
-----------------------------------------------------------------------------
(***************************************************************************)
(* The steps of each thread.                                               *)
(***************************************************************************)

\* A thread changes its step unless it has ended, and starts once it is there.
LEMMA ThreadsFrame ==
  ASSUME TypeOK, ThreadsJoined, num_threads' \in Int, num_threads <= num_threads',
         m_joined' = m_joined,
         \A w \in Workers :
           w_pc'[w] # w_pc[w] => /\ w_pc[w] # "exited"
                                 /\ w_pc[w] # "none" \/ w <= num_threads'
  PROVE  ThreadsJoined'
BY PoolAssumption DEF TypeOK, ThreadsJoined, Workers

LEMMA HoldsFrame ==
  ASSUME HoldsJob, UNCHANGED w_job,
         \A w \in Workers :
           w_pc'[w] # w_pc[w] => (w_pc'[w] \in Busy <=> w_pc[w] \in Busy)
  PROVE  HoldsJob'
BY DEF HoldsJob

MainStep == Main \/ requestShutdown

LEMMA MainInv == IInv /\ MainStep => IInv'
<1> SUFFICES ASSUME IInv, MainStep PROVE IInv'
  OBVIOUS
<1> USE DEF IInv
<1>1. CASE \/ CreateLoop \/ CreateLoopFails \/ SetThreadRunning
           \/ shutdownPeriodicActivities \/ requestShutdown
  <2> USE DEF CreateLoop, CreateLoopFails, SetThreadRunning, poolVars, jobVars,
          shutdownPeriodicActivities, requestShutdown, workerVars, schedVars,
          mainVars
  <2>1. TypeOK'
    <3>1. /\ m_pc' \in {"create", "created", "running", "delete", "join",
                         "joining", "deleted"}
          /\ s_pc' \in {s_pc, "oneshot"}
      BY <1>1 DEF TypeOK
    <3>2. thread_running' \in BOOLEAN /\ shutdownRequested' \in BOOLEAN
      BY <1>1 DEF TypeOK
    <3>3. UNCHANGED <<poolVars, jobVars, m_joined, s_todo, s_job, workerVars>>
      BY <1>1
    <3> HIDE DEF CreateLoop, CreateLoopFails, SetThreadRunning,
             shutdownPeriodicActivities, requestShutdown
    <3> QED BY <3>1, <3>2, <3>3 DEF TypeOK
  <2>2. OnePlace' /\ StateTells'
    BY <1>1, PlaceFrame, TellsFrame DEF BeingQueued, Phases
  <2>3. Scheduled' /\ Phases'
    BY <1>1 DEF Scheduled, Phases, Ending
  <2>4. HoldsJob' /\ ThreadsJoined'
    BY <1>1 DEF HoldsJob, ThreadsJoined
  <2> QED BY <2>1, <2>2, <2>3, <2>4
<1>2. CASE shutdown \/ SignalThread
  <2> USE DEF shutdown, SignalThread, poolVars, jobVars, schedVars
  <2>1. cond_signal \/ cond_broadcast
    BY <1>2
  <2>2. /\ w_pc' \in [Workers -> Steps]
        /\ \A w \in Workers : \/ w_pc'[w] = w_pc[w]
                              \/ w_pc[w] = "wait" /\ w_pc'[w] = "dequeue"
    BY <2>1, SignalEffect
  <2>3. TypeOK'
    BY <1>2, <2>2 DEF TypeOK, Steps
  <2>4. OnePlace' /\ StateTells'
    BY <1>2, PlaceFrame, TellsFrame DEF BeingQueued
  <2>5. Scheduled' /\ Phases'
    BY <1>2 DEF Scheduled, Phases, Ending
  <2>6. HoldsJob'
    BY <1>2, <2>2, HoldsFrame DEF Busy
  <2>7. ThreadsJoined'
    BY <1>2, <2>2 DEF ThreadsJoined
  <2> QED BY <2>3, <2>4, <2>5, <2>6, <2>7
<1>3. CASE JoinThread
  <2> USE DEF JoinThread, poolVars, jobVars, schedVars, workerVars
  <2>1. m_joined < num_threads
    BY <1>3 DEF Phases
  <2>2. TypeOK'
    BY <1>3, <2>1 DEF TypeOK
  <2>3. OnePlace' /\ StateTells'
    BY <1>3, PlaceFrame, TellsFrame DEF BeingQueued
  <2>4. Scheduled' /\ Phases' /\ HoldsJob'
    BY <1>3 DEF Scheduled, Phases, Ending, HoldsJob
  <2>5. ThreadsJoined'
    BY <1>3 DEF ThreadsJoined, TypeOK, Workers
  <2> QED BY <2>2, <2>3, <2>4, <2>5
<1>4. CASE DeleteActivities
  <2> USE DEF DeleteActivities, jobVars, schedVars, workerVars
  <2>1. TypeOK'
    <3>1. threads' \in Seq(Jobs) /\ Len(threads') = 0
      BY <1>4
    <3>2. Cardinality(Jobs) \in Nat
      BY PoolAssumption, FS_CardinalityType
    <3> QED BY <1>4, <3>1, <3>2 DEF TypeOK
  <2>2. OnePlace'
    <3>1. Len(threads') = 0
      BY <1>4
    <3>2. \A j \in Jobs : ~InQueue(j)'
      BY <3>1 DEF InQueue
    <3>3. \A i \in 1 .. Len(threads') : FALSE
      BY <3>1
    <3> QED BY <1>4, <3>2, <3>3 DEF OnePlace, Held, BeingQueued
  <2>3. shutdownRequested
    BY <1>4 DEF Phases, Ending
  <2>4. StateTells'
    BY <1>4, <2>3 DEF StateTells
  <2>5. Scheduled' /\ Phases' /\ HoldsJob' /\ ThreadsJoined'
    BY <1>4 DEF Scheduled, Phases, Ending, HoldsJob, ThreadsJoined
  <2> QED BY <2>1, <2>2, <2>4, <2>5
<1> QED BY <1>1, <1>2, <1>3, <1>4 DEF MainStep, Main

LEMMA SchedulerInv == IInv /\ Scheduler => IInv'
<1> SUFFICES ASSUME IInv, Scheduler PROVE IInv'
  OBVIOUS
<1> USE DEF IInv
<1>1. m_pc \notin Ending
  BY DEF Scheduler, Phases, ScheduleOneShot, RoundDone, LoopEnd, ScheduleRound,
     queueJob, ReadState, setNotExecutedActivity, SpawnMore, NoMemory, Push
<1>2. CASE \/ ScheduleOneShot \/ RoundDone \/ LoopEnd
           \/ \E due \in SUBSET (Jobs \ OneShot) : ScheduleRound(due)
           \/ setNotExecutedActivity \/ NoMemory
  <2> USE DEF ScheduleOneShot, RoundDone, LoopEnd, ScheduleRound,
          setNotExecutedActivity, NoMemory, poolVars, jobVars, mainVars, workerVars
  <2>1. TypeOK'
    <3>1. s_pc' \in {"none", "oneshot", "top", "round", "read", "flag", "spawn",
                     "push", "done"}
      BY <1>2
    <3>2. s_todo' \subseteq Jobs
      BY <1>2, PoolAssumption DEF TypeOK
    <3>3. not_executed' \in [Jobs -> BOOLEAN] /\ thread_running' \in BOOLEAN
      BY <1>2 DEF TypeOK
    <3>4. UNCHANGED <<shutdownRequested, poolVars, state, mainVars, s_job, workerVars>>
      BY <1>2
    <3> HIDE DEF ScheduleOneShot, RoundDone, LoopEnd, ScheduleRound,
             setNotExecutedActivity, NoMemory
    <3> QED BY <3>1, <3>2, <3>3, <3>4 DEF TypeOK
  <2>2. OnePlace' /\ StateTells'
    BY <1>2, PlaceFrame, TellsFrame DEF BeingQueued
  <2>3. Scheduled' /\ Phases'
    BY <1>1, <1>2 DEF Scheduled, Phases
  <2>4. HoldsJob' /\ ThreadsJoined'
    BY <1>2 DEF HoldsJob, ThreadsJoined
  <2> QED BY <2>1, <2>2, <2>3, <2>4
<1>3. CASE ReadState
  <2> USE DEF ReadState, poolVars, jobVars, mainVars, workerVars
  <2>1. TypeOK'
    BY <1>3 DEF TypeOK
  <2>2. OnePlace' /\ StateTells'
    BY <1>3, ReadPlace, TellsFrame
  <2>3. Scheduled' /\ Phases'
    BY <1>1, <1>3 DEF Scheduled, Phases
  <2>4. HoldsJob' /\ ThreadsJoined'
    BY <1>3 DEF HoldsJob, ThreadsJoined
  <2> QED BY <2>1, <2>2, <2>3, <2>4
<1>4. CASE (\E j \in Jobs : queueJob(j)) \/ SpawnMore
  <2> USE DEF queueJob, SpawnMore, jobVars, mainVars
  <2>1. \/ UNCHANGED <<num_threads, w_pc>>
        \/ \E n \in Nat : spawn(n)
    BY <1>4, PoolAssumption
  <2>2. /\ num_threads' \in num_threads .. MaxThreads
        /\ w_pc' \in [Workers -> Steps]
        /\ \A w \in Workers :
             \/ w_pc'[w] = w_pc[w]
             \/ num_threads < w /\ w <= num_threads' /\ w_pc'[w] = "check"
    <3>1. CASE UNCHANGED <<num_threads, w_pc>>
      BY <3>1, PoolAssumption DEF TypeOK, Steps
    <3>2. CASE \E n \in Nat : spawn(n)
      BY <3>2, SpawnEffect
    <3> QED BY <2>1, <3>1, <3>2
  <2>3. TypeOK'
    BY <1>4, <2>2, PoolAssumption DEF TypeOK, Steps
  <2>4. OnePlace' /\ StateTells'
    BY <1>4, PlaceFrame, TellsFrame DEF BeingQueued
  <2>5. Scheduled' /\ Phases'
    BY <1>1, <1>4 DEF Scheduled, Phases, Ending
  <2>6. \A w \in Workers : w > num_threads => w_pc[w] = "none"
    BY DEF ThreadsJoined
  <2>7. HoldsJob'
    <3>1. \A w \in Workers :
            w_pc'[w] # w_pc[w] => w_pc[w] = "none" /\ w_pc'[w] = "check"
      BY <2>2, <2>6 DEF Workers, TypeOK
    <3> QED BY <1>4, <3>1, HoldsFrame DEF Busy
  <2>8. ThreadsJoined'
    <3>1. \A w \in Workers : w_pc'[w] # w_pc[w] =>
            w_pc[w] # "exited" /\ w <= num_threads'
      BY <2>2, <2>6 DEF Workers, TypeOK
    <3>2. num_threads' \in Int /\ num_threads <= num_threads'
      BY <2>2 DEF TypeOK
    <3> QED BY <1>4, <3>1, <3>2, ThreadsFrame
  <2> QED BY <2>3, <2>4, <2>5, <2>7, <2>8
<1>5. CASE Push
  <2> USE DEF Push, mainVars
  <2>1. OnePlace' /\ StateTells' /\ threads' \in Seq(Jobs)
    BY <1>5, PushPlace
  <2>2. Len(threads') <= Cardinality(Jobs)
    BY <2>1, QueueFits DEF OnePlace
  <2>3. /\ w_pc' \in [Workers -> Steps]
        /\ \A w \in Workers : \/ w_pc'[w] = w_pc[w]
                              \/ w_pc[w] = "wait" /\ w_pc'[w] = "dequeue"
    BY <1>5, SignalEffect
  <2>4. state' \in [Jobs -> {"unknown", "sleeping", "queued", "running"}]
    BY <1>5, StateType DEF Scheduled
  <2>5. TypeOK'
    BY <1>5, <2>1, <2>2, <2>3, <2>4 DEF TypeOK, Steps
  <2>6. Scheduled' /\ Phases'
    BY <1>1, <1>5 DEF Scheduled, Phases
  <2>7. HoldsJob'
    BY <1>5, <2>3, HoldsFrame DEF Busy
  <2>8. ThreadsJoined'
    BY <1>5, <2>3 DEF ThreadsJoined
  <2> QED BY <2>1, <2>5, <2>6, <2>7, <2>8
<1> QED BY <1>2, <1>3, <1>4, <1>5 DEF Scheduler

LEMMA WorkerInv ==
  ASSUME IInv, NEW w \in Workers, Worker(w) \/ SpuriousWakeup(w)
  PROVE  IInv'
<1> USE DEF IInv
<1>1. CASE \/ Check(w) \/ DequeueWait(w) \/ DequeueNull(w) \/ BeginJob(w)
           \/ SkipScript(w) \/ ScriptEnd(w) \/ SpuriousWakeup(w)
  <2> USE DEF Check, DequeueWait, DequeueNull, BeginJob, SkipScript, ScriptEnd,
          SpuriousWakeup
  <2>1. /\ UNCHANGED <<shutdownRequested, thread_running, poolVars, jobVars,
                       mainVars, schedVars, w_job>>
        /\ w_pc[w] \notin {"none", "exited"}
        /\ \E s \in Steps : /\ w_pc' = [w_pc EXCEPT ![w] = s]
                            /\ s \in Busy <=> w_pc[w] \in Busy
    BY <1>1 DEF Steps, Busy
  <2> HIDE DEF Check, DequeueWait, DequeueNull, BeginJob, SkipScript, ScriptEnd,
           SpuriousWakeup
  <2> USE DEF poolVars, jobVars, mainVars, schedVars
  <2>2. TypeOK'
    BY <2>1 DEF TypeOK, Steps
  <2>3. OnePlace' /\ StateTells'
    BY <2>1, PlaceFrame, TellsFrame DEF BeingQueued
  <2>4. Scheduled' /\ Phases'
    BY <2>1 DEF Scheduled, Phases
  <2>5. HoldsJob' /\ ThreadsJoined'
    BY <2>1 DEF HoldsJob, ThreadsJoined, TypeOK
  <2> QED BY <2>2, <2>3, <2>4, <2>5
<1>2. CASE DequeueJob(w)
  <2> USE DEF DequeueJob, jobVars, mainVars, schedVars
  <2>1. OnePlace' /\ StateTells' /\ threads' \in Seq(Jobs) /\ Head(threads) \in Jobs
    BY <1>2, DequeuePlace
  <2>2. Len(threads') <= Cardinality(Jobs)
    BY <2>1, QueueFits DEF OnePlace
  <2>3. TypeOK'
    BY <1>2, <2>1, <2>2 DEF TypeOK
  <2>4. Scheduled' /\ Phases'
    BY <1>2 DEF Scheduled, Phases
  <2>5. HoldsJob' /\ ThreadsJoined'
    BY <1>2, <2>1, PoolAssumption DEF HoldsJob, ThreadsJoined, TypeOK, Busy
  <2> QED BY <2>1, <2>3, <2>4, <2>5
<1>3. CASE DropJob(w) \/ set_state_sleeping(w)
  <2>1. OnePlace' /\ StateTells'
    BY <1>3, ReleasePlace
  <2>2. state' \in [Jobs -> {"unknown", "sleeping", "queued", "running"}]
    <3>1. CASE DropJob(w)
      BY <3>1 DEF DropJob, jobVars, TypeOK
    <3>2. CASE set_state_sleeping(w)
      BY <3>2, StateType DEF set_state_sleeping, HoldsJob, Busy, TypeOK
    <3> QED BY <1>3, <3>1, <3>2
  <2> USE DEF DropJob, set_state_sleeping, poolVars, jobVars, mainVars, schedVars
  <2>3. TypeOK'
    BY <1>3, <2>2 DEF TypeOK
  <2>4. Scheduled' /\ Phases'
    BY <1>3 DEF Scheduled, Phases
  <2>5. HoldsJob' /\ ThreadsJoined'
    BY <1>3 DEF HoldsJob, ThreadsJoined, TypeOK, Busy
  <2> QED BY <2>1, <2>3, <2>4, <2>5
<1>4. CASE set_state_running(w)
  <2>1. OnePlace' /\ StateTells'
    BY <1>4, RunningPlace
  <2>2. state' \in [Jobs -> {"unknown", "sleeping", "queued", "running"}]
    BY <1>4, StateType DEF set_state_running, HoldsJob, Busy, TypeOK
  <2> USE DEF set_state_running, poolVars, jobVars, mainVars, schedVars
  <2>3. TypeOK'
    BY <1>4, <2>2 DEF TypeOK
  <2>4. Scheduled' /\ Phases'
    BY <1>4 DEF Scheduled, Phases
  <2>5. HoldsJob' /\ ThreadsJoined'
    BY <1>4 DEF HoldsJob, ThreadsJoined, TypeOK, Busy
  <2> QED BY <2>1, <2>3, <2>4, <2>5
<1>5. CASE runScript(w)
  <2> USE DEF runScript, poolVars, jobVars, mainVars, schedVars
  <2>1. OnePlace' /\ StateTells'
    BY <1>5, PlaceFrame, TellsFrame DEF BeingQueued
  <2>2. TypeOK'
    BY <1>5 DEF TypeOK
  <2>3. Scheduled' /\ Phases'
    BY <1>5 DEF Scheduled, Phases
  <2>4. HoldsJob' /\ ThreadsJoined'
    BY <1>5 DEF HoldsJob, ThreadsJoined, TypeOK, Busy
  <2> QED BY <2>1, <2>2, <2>3, <2>4
<1> QED BY <1>1, <1>2, <1>3, <1>4, <1>5 DEF Worker

LEMMA Inductive == Spec => []IInv
<1>1. Init => IInv
  <2> SUFFICES ASSUME Init PROVE IInv
    OBVIOUS
  <2> USE PoolAssumption DEF Init
  <2>1. threads \in Seq(Jobs) /\ Len(threads) = 0 /\ Cardinality(Jobs) \in Nat
    BY FS_CardinalityType
  <2>2. TypeOK
    <3>1. Len(threads) <= Cardinality(Jobs)
      BY <2>1
    <3>2. num_threads \in 0 .. MaxThreads /\ m_joined \in 0 .. num_threads
      OBVIOUS
    <3>3. /\ state \in [Jobs -> {"unknown", "sleeping", "queued", "running"}]
          /\ not_executed \in [Jobs -> BOOLEAN]
          /\ w_pc \in [Workers -> Steps]
          /\ w_job \in [Workers -> Jobs \cup {NoJob}]
      BY DEF Steps
    <3> QED BY <2>1, <3>1, <3>2, <3>3 DEF TypeOK, Steps
  <2>3. Scheduled /\ HoldsJob /\ ThreadsJoined /\ Phases
    BY DEF Scheduled, HoldsJob, Busy, ThreadsJoined, Phases, Ending, Workers
  <2>4. \A j \in Jobs : ~InQueue(j) /\ ~Held(j)
    BY <2>1 DEF InQueue, Held
  <2>5. OnePlace
    BY <2>1, <2>4 DEF OnePlace, BeingQueued
  <2>6. StateTells
    BY <2>4 DEF StateTells, isQueueable
  <2> QED BY <2>2, <2>3, <2>5, <2>6 DEF IInv
<1>2. IInv /\ UNCHANGED vars => IInv'
  BY DEF IInv, vars, poolVars, jobVars, mainVars, schedVars, workerVars, TypeOK,
     Scheduled, HoldsJob, OnePlace, StateTells, ThreadsJoined, Phases, InQueue,
     Held, BeingQueued
<1>3. IInv /\ [Next]_vars => IInv'
  BY <1>2, MainInv, SchedulerInv, WorkerInv DEF Next, MainStep
<1> QED BY <1>1, <1>3, PTL DEF Spec

\* A set with at most one element.
LEMMA AtMostOne ==
  ASSUME NEW S, \A x, y \in S : x = y
  PROVE  Cardinality(S) = IF S = {} THEN 0 ELSE 1
<1>1. CASE S = {}
  BY <1>1, FS_EmptySet
<1>2. CASE S # {}
  <2>1. PICK x \in S : TRUE
    BY <1>2
  <2>2. S = {x}
    BY <2>1
  <2> QED BY <2>2, FS_Singleton
<1> QED BY <1>1, <1>2

\* Whatever the number of jobs and threads, a job is in the queue or with a
\* thread at most once, and queueJob() does not queue it meanwhile.
THEOREM JobsRunOnce == Spec => []JobOnce
<1>1. IInv => JobOnce
  <2> SUFFICES ASSUME IInv, NEW j \in Jobs
               PROVE  /\ Cardinality(Queued(j)) + Cardinality(Holders(j)) <= 1
                      /\ BeingQueued(j) => Queued(j) = {} /\ Holders(j) = {}
    BY DEF JobOnce, IInv
  <2> USE DEF IInv
  <2>1. Queued(j) = {i \in 1 .. Len(threads) : threads[i] = j}
    BY DEF Queued, TypeOK
  <2>2. Cardinality(Queued(j)) = IF Queued(j) = {} THEN 0 ELSE 1
    BY <2>1, AtMostOne DEF OnePlace
  <2>3. Cardinality(Holders(j)) = IF Holders(j) = {} THEN 0 ELSE 1
    <3>1. \A x, y \in Holders(j) : x = y
      BY PoolAssumption DEF OnePlace, Holders
    <3> QED BY <3>1, AtMostOne
  <2>4. Queued(j) # {} <=> InQueue(j)
    BY <2>1 DEF InQueue
  <2>5. Holders(j) # {} <=> Held(j)
    BY DEF Holders, Held
  <2> QED BY <2>2, <2>3, <2>4, <2>5 DEF OnePlace
<1> QED BY Inductive, <1>1, PTL

\* Until a shutdown is requested, a job that queueJob() refuses because of its
\* state is in the queue or with a thread: no activity stops being scheduled.
THEOREM JobsNeverStuck == Spec => []NeverStuck
<1>1. IInv => NeverStuck
  <2> SUFFICES ASSUME IInv, ~shutdownRequested, NEW j \in Jobs,
                      ~isQueueable(state[j])
               PROVE  Queued(j) \cup Holders(j) # {}
    BY DEF NeverStuck
  <2>1. InQueue(j) \/ Held(j)
    BY DEF IInv, StateTells
  <2>2. CASE InQueue(j)
    BY <2>2 DEF InQueue, Queued, IInv, TypeOK
  <2>3. CASE Held(j)
    BY <2>3 DEF Held, Holders
  <2> QED BY <2>1, <2>2, <2>3
<1> QED BY Inductive, <1>1, PTL

\* When the activities are deleted the scheduler has ended, every thread of the
\* pool has been joined, and no thread holds a job.
THEOREM ActivitiesOutliveScripts == Spec => []ScriptsEndFirst
<1>1. IInv => ScriptsEndFirst
  <2> SUFFICES ASSUME IInv, m_pc = "deleted"
               PROVE  /\ s_pc \in {"none", "done"}
                      /\ \A w \in Workers : /\ w_job[w] = NoJob
                                            /\ w_pc[w] \in {"none", "exited"}
    BY DEF ScriptsEndFirst
  <2>1. s_pc \in {"none", "done"} /\ m_joined = num_threads
    BY DEF IInv, Phases, Ending
  <2>2. \A w \in Workers : w_pc[w] \in {"none", "exited"}
    BY <2>1 DEF IInv, ThreadsJoined, TypeOK, Workers
  <2> QED BY <2>1, <2>2 DEF IInv, HoldsJob, Busy
<1> QED BY Inductive, <1>1, PTL
=============================================================================
