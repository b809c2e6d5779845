----------------------------- MODULE ThreadPool -----------------------------
(***************************************************************************)
(* The periodic activities: PeriodicActivities.cpp, ThreadedActivity.cpp,  *)
(* ThreadPool.cpp and QueuedThreadData.cpp.                                *)
(*                                                                         *)
(* A scheduler thread wakes up every second and queues the jobs (a script  *)
(* and an interface) of the activities that are due.  The threads of a     *)
(* pool, which grows with the queue, run them.  At shutdown the main       *)
(* thread waits for the scheduler, terminates the pool, joins its threads  *)
(* and deletes the activities.                                             *)
(*                                                                         *)
(* When an activity is due is a free choice.  The pool's mutex is never    *)
(* held across a step, so a critical section is one action.  The state of  *)
(* a job is read and written without it.  The counters of running tasks,   *)
(* which nothing reads, and the durations and deadlines are left out.      *)
(***************************************************************************)
EXTENDS Integers, Sequences, FiniteSets

CONSTANTS Jobs, NoJob,
          OneShot,        \* the jobs of the activities with periodicity 0
          MinThreads,     \* threads spawned by the first job (5)
          MaxThreads,     \* CONST_MAX_NUM_THREADED_ACTIVITIES (64)
          SpareThreads,   \* the 3 of the rule that grows the pool
          LimitResources, \* limitResourcesUsage()
          NoResources     \* pthread_create and new can fail

ASSUME PoolAssumption ==
         /\ IsFiniteSet(Jobs) /\ NoJob \notin Jobs
         /\ OneShot \subseteq Jobs
         /\ MinThreads \in Nat \ {0} /\ MaxThreads \in Nat /\ SpareThreads \in Nat
         /\ MinThreads <= MaxThreads
         /\ LimitResources \in BOOLEAN /\ NoResources \in BOOLEAN

VARIABLES
  shutdownRequested,      \* isShutdownRequested()
  thread_running,         \* isRunning(): the scheduler runs
  threads,                \* the queue of jobs
  num_threads,            \* threads created: 1 .. num_threads
  terminating,            \* isTerminating() of the pool
  state,                  \* of each job
  not_executed,           \* the flag of each job shown in the web pages
  m_pc, m_joined,         \* the main thread and the threads it has joined
  s_pc, s_todo, s_job,    \* the scheduler, its due jobs, the one it queues
  w_pc, w_job             \* the pool's threads and the job each one holds

mainVars == <<m_pc, m_joined>>
schedVars == <<s_pc, s_todo, s_job>>
poolVars == <<threads, num_threads, terminating>>
jobVars == <<state, not_executed>>
workerVars == <<w_pc, w_job>>
vars == <<shutdownRequested, thread_running, poolVars, jobVars, mainVars,
          schedVars, workerVars>>

Workers == 1 .. MaxThreads

TypeOK ==
  /\ shutdownRequested \in BOOLEAN /\ thread_running \in BOOLEAN
  /\ threads \in Seq(Jobs) /\ Len(threads) <= Cardinality(Jobs)
  /\ num_threads \in 0 .. MaxThreads /\ terminating \in BOOLEAN
  /\ state \in [Jobs -> {"unknown", "sleeping", "queued", "running"}]
  /\ not_executed \in [Jobs -> BOOLEAN]
  /\ m_pc \in {"create", "created", "running", "delete", "join", "joining",
               "deleted"}
  /\ m_joined \in 0 .. num_threads
  /\ s_pc \in {"none", "oneshot", "top", "round", "read", "flag", "spawn",
               "push", "done"}
  /\ s_todo \subseteq Jobs /\ s_job \in Jobs \cup {NoJob}
  /\ w_pc \in [Workers -> {"none", "check", "dequeue", "wait", "got", "start",
                           "run", "script", "end", "exited"}]
  /\ w_job \in [Workers -> Jobs \cup {NoJob}]

Init ==
  /\ shutdownRequested = FALSE /\ thread_running = FALSE
  /\ threads = <<>> /\ num_threads = 0 /\ terminating = FALSE
  /\ state = [j \in Jobs |-> "unknown"]
  /\ not_executed = [j \in Jobs |-> FALSE]
  /\ m_pc = "create" /\ m_joined = 0
  /\ s_pc = "none" /\ s_todo = {} /\ s_job = NoJob
  /\ w_pc = [w \in Workers |-> "none"] /\ w_job = [w \in Workers |-> NoJob]
-----------------------------------------------------------------------------
(***************************************************************************)
(* Helpers.                                                                *)
(***************************************************************************)

\* spawn() called n times: k threads are created, up to the maximum.
spawn(n) ==
  LET most == IF n <= MaxThreads - num_threads THEN n ELSE MaxThreads - num_threads
  IN \E k \in (IF NoResources THEN 0 .. most ELSE {most}) :
       /\ num_threads' = num_threads + k
       /\ w_pc' = [w \in Workers |->
                     IF num_threads < w /\ w <= num_threads + k THEN "check"
                                                                ELSE w_pc[w]]

\* pthread_cond_signal: one thread that waits, if any, goes back to the test.
Waiting == {w \in Workers : w_pc[w] = "wait"}
cond_signal ==
  w_pc' \in IF Waiting = {} THEN {w_pc}
                            ELSE {[w_pc EXCEPT ![w] = "dequeue"] : w \in Waiting}

cond_broadcast ==
  w_pc' = [w \in Workers |-> IF w_pc[w] = "wait" THEN "dequeue" ELSE w_pc[w]]

\* getThreadedActivityStats() returns NULL once a shutdown is requested, and
\* the state of the job is then left alone.
set_state(j, s) ==
  state' = IF shutdownRequested THEN state ELSE [state EXCEPT ![j] = s]

isQueueable(s) == s \in {"sleeping", "unknown"}
-----------------------------------------------------------------------------
(***************************************************************************)
(* The main thread and the signal handler.                                 *)
(***************************************************************************)

\* startPeriodicActivitiesLoop(): the scheduler is created ...
CreateLoop ==
  /\ m_pc = "create"
  /\ m_pc' = "created" /\ s_pc' = "oneshot"
  /\ UNCHANGED <<shutdownRequested, thread_running, poolVars, jobVars, m_joined,
                 s_todo, s_job, workerVars>>

\* ... unless the system has no threads left ...
CreateLoopFails ==
  /\ NoResources /\ m_pc = "create" /\ m_pc' = "running"
  /\ UNCHANGED <<shutdownRequested, thread_running, poolVars, jobVars, m_joined,
                 schedVars, workerVars>>

\* ... and thread_running is set after it has started.
SetThreadRunning ==
  /\ m_pc = "created" /\ m_pc' = "running" /\ thread_running' = TRUE
  /\ UNCHANGED <<shutdownRequested, poolVars, jobVars, m_joined, schedVars,
                 workerVars>>

\* A signal, or the end of the main loop.
requestShutdown ==
  /\ ~shutdownRequested /\ shutdownRequested' = TRUE
  /\ UNCHANGED <<thread_running, poolVars, jobVars, mainVars, schedVars,
                 workerVars>>

\* A form in which the main thread does not wait for the scheduler.
shutdownAtOnce ==
  /\ m_pc = "running" /\ shutdownRequested
  /\ m_pc' = "delete"
  /\ UNCHANGED <<shutdownRequested, thread_running, poolVars, jobVars, m_joined,
                 schedVars, workerVars>>

\* The main thread polls isRunning().
shutdownPeriodicActivities ==
  /\ m_pc = "running" /\ shutdownRequested /\ ~thread_running
  /\ m_pc' = "delete"
  /\ UNCHANGED <<shutdownRequested, thread_running, poolVars, jobVars, m_joined,
                 schedVars, workerVars>>

\* A form that leaves waking up the threads to the loop that joins them.
shutdownNoBroadcast ==
  /\ m_pc = "delete" /\ m_pc' = "join"
  /\ terminating' = TRUE
  /\ UNCHANGED <<shutdownRequested, thread_running, threads, num_threads,
                 jobVars, m_joined, schedVars, workerVars>>

\* ~ThreadPool(): shutdown(), then each thread is signalled and joined.
shutdown ==
  /\ m_pc = "delete" /\ m_pc' = "join"
  /\ terminating' = TRUE /\ cond_broadcast
  /\ UNCHANGED <<shutdownRequested, thread_running, threads, num_threads,
                 jobVars, m_joined, schedVars, w_job>>

SignalThread ==
  /\ m_pc = "join" /\ m_joined < num_threads /\ m_pc' = "joining"
  /\ cond_signal
  /\ UNCHANGED <<shutdownRequested, thread_running, poolVars, jobVars, m_joined,
                 schedVars, w_job>>

JoinThread ==
  /\ m_pc = "joining" /\ w_pc[m_joined + 1] = "exited"
  /\ m_joined' = m_joined + 1 /\ m_pc' = "join"
  /\ UNCHANGED <<shutdownRequested, thread_running, poolVars, jobVars, schedVars,
                 workerVars>>

\* The jobs still queued and the activities are deleted.
DeleteActivities ==
  /\ m_pc = "join" /\ m_joined = num_threads
  /\ m_pc' = "deleted" /\ threads' = <<>>
  /\ UNCHANGED <<shutdownRequested, thread_running, num_threads, terminating,
                 jobVars, m_joined, schedVars, workerVars>>
-----------------------------------------------------------------------------
(***************************************************************************)
(* The scheduler.                                                          *)
(***************************************************************************)

\* One-shot activities are scheduled before the loop.
ScheduleOneShot ==
  /\ s_pc = "oneshot" /\ s_pc' = "round" /\ s_todo' = OneShot
  /\ UNCHANGED <<shutdownRequested, thread_running, poolVars, jobVars, mainVars,
                 s_job, workerVars>>

\* A round of the loop: schedule() of each activity that is due.
ScheduleRound(due) ==
  /\ s_pc = "top" /\ ~shutdownRequested
  /\ s_pc' = "round" /\ s_todo' = due
  /\ UNCHANGED <<shutdownRequested, thread_running, poolVars, jobVars, mainVars,
                 s_job, workerVars>>

RoundDone ==
  /\ s_pc = "round" /\ s_todo = {} /\ s_pc' = "top"
  /\ UNCHANGED <<shutdownRequested, thread_running, poolVars, jobVars, mainVars,
                 s_todo, s_job, workerVars>>

LoopEnd ==
  /\ s_pc = "top" /\ shutdownRequested
  /\ thread_running' = FALSE /\ s_pc' = "done"
  /\ UNCHANGED <<shutdownRequested, poolVars, jobVars, mainVars, s_todo, s_job,
                 workerVars>>

\* queueJob() of the next job, which spawns the first threads ...
queueJob(j) ==
  /\ s_pc = "round" /\ j \in s_todo /\ ~terminating
  /\ s_todo' = s_todo \ {j} /\ s_job' = j /\ s_pc' = "read"
  /\ IF num_threads = 0 THEN spawn(MinThreads) ELSE UNCHANGED <<num_threads, w_pc>>
  /\ UNCHANGED <<shutdownRequested, thread_running, threads, terminating, jobVars,
                 mainVars, w_job>>

\* ... reads the state of the job without the mutex ...
ReadState ==
  /\ s_pc = "read"
  /\ s_pc' = IF shutdownRequested THEN "round"
             ELSE IF isQueueable(state[s_job]) THEN "spawn"
             ELSE IF state[s_job] = "queued" THEN "flag" ELSE "round"
  /\ UNCHANGED <<shutdownRequested, thread_running, poolVars, jobVars, mainVars,
                 s_todo, s_job, workerVars>>

\* ... says that a job found in the queue has not been executed ...
setNotExecutedActivity ==
  /\ s_pc = "flag" /\ s_pc' = "round"
  /\ not_executed' = [not_executed EXCEPT ![s_job] = TRUE]
  /\ UNCHANGED <<shutdownRequested, thread_running, poolVars, state, mainVars,
                 s_todo, s_job, workerVars>>

\* ... or allocates the job and spawns a thread if the queue is long ...
SpawnMore ==
  /\ s_pc = "spawn" /\ s_pc' = "push"
  /\ IF ~LimitResources /\ Len(threads) > num_threads - SpareThreads
       THEN spawn(1) ELSE UNCHANGED <<num_threads, w_pc>>
  /\ UNCHANGED <<shutdownRequested, thread_running, threads, terminating, jobVars,
                 mainVars, s_todo, s_job, w_job>>

NoMemory ==
  /\ NoResources /\ s_pc = "spawn" /\ s_pc' = "round"
  /\ UNCHANGED <<shutdownRequested, thread_running, poolVars, jobVars, mainVars,
                 s_todo, s_job, workerVars>>

\* Forms of the next step that forget the state, or the signal.
PushNotQueued ==
  /\ s_pc = "push" /\ s_pc' = "round"
  /\ threads' = Append(threads, s_job) /\ cond_signal
  /\ UNCHANGED <<shutdownRequested, thread_running, num_threads, terminating,
                 jobVars, mainVars, s_todo, s_job, w_job>>

PushNoSignal ==
  /\ s_pc = "push" /\ s_pc' = "round"
  /\ set_state(s_job, "queued") /\ threads' = Append(threads, s_job)
  /\ UNCHANGED <<shutdownRequested, thread_running, num_threads, terminating,
                 not_executed, mainVars, s_todo, s_job, workerVars>>

\* ... and puts the job in the queue under the mutex.
Push ==
  /\ s_pc = "push" /\ s_pc' = "round"
  /\ set_state(s_job, "queued") /\ threads' = Append(threads, s_job)
  /\ cond_signal
  /\ UNCHANGED <<shutdownRequested, thread_running, num_threads, terminating,
                 not_executed, mainVars, s_todo, s_job, w_job>>
-----------------------------------------------------------------------------
(***************************************************************************)
(* The threads of the pool.                                                *)
(***************************************************************************)

\* The test of the loop of run().
Check(w) ==
  /\ w_pc[w] = "check"
  /\ w_pc' = [w_pc EXCEPT ![w] = IF terminating THEN "exited" ELSE "dequeue"]
  /\ UNCHANGED <<shutdownRequested, thread_running, poolVars, jobVars, mainVars,
                 schedVars, w_job>>

\* dequeueJob(): waits for a job, gives up, or takes the first one.
DequeueWait(w) ==
  /\ w_pc[w] = "dequeue" /\ threads = <<>> /\ ~terminating
  /\ w_pc' = [w_pc EXCEPT ![w] = "wait"]
  /\ UNCHANGED <<shutdownRequested, thread_running, poolVars, jobVars, mainVars,
                 schedVars, w_job>>

SpuriousWakeup(w) ==
  /\ w_pc[w] = "wait"
  /\ w_pc' = [w_pc EXCEPT ![w] = "dequeue"]
  /\ UNCHANGED <<shutdownRequested, thread_running, poolVars, jobVars, mainVars,
                 schedVars, w_job>>

DequeueNull(w) ==
  /\ w_pc[w] = "dequeue" /\ terminating
  /\ w_pc' = [w_pc EXCEPT ![w] = "exited"]
  /\ UNCHANGED <<shutdownRequested, thread_running, poolVars, jobVars, mainVars,
                 schedVars, w_job>>

DequeueJob(w) ==
  /\ w_pc[w] = "dequeue" /\ threads # <<>> /\ ~terminating
  /\ w_pc' = [w_pc EXCEPT ![w] = "got"] /\ w_job' = [w_job EXCEPT ![w] = Head(threads)]
  /\ threads' = Tail(threads)
  /\ UNCHANGED <<shutdownRequested, thread_running, num_threads, terminating,
                 jobVars, mainVars, schedVars>>

\* A job taken while the pool terminates is deleted without being run.
DropJob(w) ==
  /\ w_pc[w] = "got" /\ terminating
  /\ w_pc' = [w_pc EXCEPT ![w] = "exited"] /\ w_job' = [w_job EXCEPT ![w] = NoJob]
  /\ UNCHANGED <<shutdownRequested, thread_running, poolVars, jobVars, mainVars,
                 schedVars>>

BeginJob(w) ==
  /\ w_pc[w] = "got" /\ ~terminating
  /\ w_pc' = [w_pc EXCEPT ![w] = "start"]
  /\ UNCHANGED <<shutdownRequested, thread_running, poolVars, jobVars, mainVars,
                 schedVars, w_job>>

\* QueuedThreadData::run()
set_state_running(w) ==
  /\ w_pc[w] = "start" /\ set_state(w_job[w], "running")
  /\ w_pc' = [w_pc EXCEPT ![w] = "run"]
  /\ UNCHANGED <<shutdownRequested, thread_running, poolVars, not_executed,
                 mainVars, schedVars, w_job>>

\* runScript(): nothing at shutdown, else the flag is reset and the script run.
SkipScript(w) ==
  /\ w_pc[w] = "run" /\ shutdownRequested
  /\ w_pc' = [w_pc EXCEPT ![w] = "end"]
  /\ UNCHANGED <<shutdownRequested, thread_running, poolVars, jobVars, mainVars,
                 schedVars, w_job>>

runScript(w) ==
  /\ w_pc[w] = "run" /\ ~shutdownRequested
  /\ w_pc' = [w_pc EXCEPT ![w] = "script"]
  /\ not_executed' = [not_executed EXCEPT ![w_job[w]] = FALSE]
  /\ UNCHANGED <<shutdownRequested, thread_running, poolVars, state, mainVars,
                 schedVars, w_job>>

ScriptEnd(w) ==
  /\ w_pc[w] = "script" /\ w_pc' = [w_pc EXCEPT ![w] = "end"]
  /\ UNCHANGED <<shutdownRequested, thread_running, poolVars, jobVars, mainVars,
                 schedVars, w_job>>

\* A form that leaves the state as it is.
StillRunning(w) ==
  /\ w_pc[w] = "end"
  /\ w_pc' = [w_pc EXCEPT ![w] = "check"] /\ w_job' = [w_job EXCEPT ![w] = NoJob]
  /\ UNCHANGED <<shutdownRequested, thread_running, poolVars, jobVars, mainVars,
                 schedVars>>

\* The job is deleted after its state is sleeping again.
set_state_sleeping(w) ==
  /\ w_pc[w] = "end" /\ set_state(w_job[w], "sleeping")
  /\ w_pc' = [w_pc EXCEPT ![w] = "check"] /\ w_job' = [w_job EXCEPT ![w] = NoJob]
  /\ UNCHANGED <<shutdownRequested, thread_running, poolVars, not_executed,
                 mainVars, schedVars>>
-----------------------------------------------------------------------------
Main ==
  \/ CreateLoop \/ CreateLoopFails \/ SetThreadRunning
  \/ shutdownPeriodicActivities \/ shutdown \/ SignalThread \/ JoinThread
  \/ DeleteActivities

Scheduler ==
  \/ ScheduleOneShot \/ RoundDone \/ LoopEnd
  \/ \E due \in SUBSET (Jobs \ OneShot) : ScheduleRound(due)
  \/ \E j \in Jobs : queueJob(j)
  \/ ReadState \/ setNotExecutedActivity \/ SpawnMore \/ NoMemory \/ Push

Worker(w) ==
  \/ Check(w) \/ DequeueWait(w) \/ DequeueNull(w) \/ DequeueJob(w)
  \/ DropJob(w) \/ BeginJob(w) \/ set_state_running(w) \/ SkipScript(w)
  \/ runScript(w) \/ ScriptEnd(w) \/ set_state_sleeping(w)

Next ==
  \/ Main \/ requestShutdown \/ Scheduler
  \/ \E w \in Workers : Worker(w) \/ SpuriousWakeup(w)

Spec == Init /\ [][Next]_vars

\* Every thread runs when it can, and a script ends.  Nobody has to request a
\* shutdown and no thread has to be woken up without a signal.
FairSpec == /\ Spec /\ WF_vars(Main) /\ WF_vars(Scheduler)
            /\ \A w \in Workers : WF_vars(Worker(w))
-----------------------------------------------------------------------------
(***************************************************************************)
(* Properties.                                                             *)
(***************************************************************************)
Holders(j) == {w \in Workers : w_job[w] = j}
Queued(j) == {i \in DOMAIN threads : threads[i] = j}
BeingQueued(j) == s_pc \in {"spawn", "push"} /\ s_job = j

\* A job is in the queue or with a thread at most once, and is not queued again
\* meanwhile, although queueJob() reads its state without the mutex and the
\* state is no longer written after a shutdown request.
JobOnce ==
  /\ TypeOK
  /\ \A j \in Jobs :
       /\ Cardinality(Queued(j)) + Cardinality(Holders(j)) <= 1
       /\ BeingQueued(j) => Queued(j) = {} /\ Holders(j) = {}

\* Until a shutdown is requested, a job whose state makes queueJob() refuse it
\* really is in the queue or with a thread: no activity stops being scheduled.
NeverStuck ==
  ~shutdownRequested =>
    \A j \in Jobs : ~isQueueable(state[j]) => Queued(j) \cup Holders(j) # {}

\* When the activities are deleted and the interfaces begin to shut down, no
\* thread holds a job and the scheduler is not in queueJob().
ScriptsEndFirst ==
  m_pc = "deleted" =>
    /\ s_pc \in {"none", "done"}
    /\ \A w \in Workers : w_job[w] = NoJob /\ w_pc[w] \in {"none", "exited"}

\* A queued job is taken by a thread, if the pool has any, unless a shutdown is
\* requested first.
QueuedRuns ==
  \A j \in Jobs : (Queued(j) # {} /\ num_threads > 0)
                    ~> (Holders(j) # {} \/ shutdownRequested)

\* A shutdown requested while the scheduler runs, after isRunning() was set,
\* ends with the pool joined and the activities deleted.
ShutdownCompletes ==
  (shutdownRequested /\ thread_running /\ s_pc # "done") ~> (m_pc = "deleted")

\* Every shutdown ends: shutdownAll() waits "for other threads termination".
ShutdownTerminates == shutdownRequested ~> (m_pc = "deleted")
=============================================================================
