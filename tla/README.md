# ntopng: a verification project in TLA+

ntopng monitors network traffic. One *inline* thread per interface processes
packets (or collected records) and keeps the flows and hosts; around it run
threads that dump flows, deliver alerts, run scripts and serve web pages. The
program's own difficulty is in the hand-over between these threads, mostly
without locks: who may still hold an object, who deletes it, and what is lost
when a queue is full, memory is short or a shutdown arrives. That is what the
modules here model. Parsing, presentation and I/O are left out.

Each module is translated from the source; `PROJECT.json` maps every definition
to the lines it stands for.

## 1. Inventory

### 1.1 The parts and their state

| Part | State | Operations | Module |
|---|---|---|---|
| Single-producer single-consumer queue (`include/SPSCQueue.h`, `Condvar.cpp`) | slots, `head`/`tail` and their private copies | `enqueue`, `dequeue`, `isNotEmpty`, `isFull`, `wait` | `SPSCQueue` |
| Hash tables (`GenericHash.cpp`, `GenericHashEntry.cpp`) | buckets, `idle_entries`, `idle_entries_shadow`, `idle_entries_in_use`; per entry its state and `num_uses` | `add`, `purgeIdle`, `purgeQueuedIdleEntries`, `walk`, `cleanup`, `set_state` | `GenericHash` |
| Flow dump (`NetworkInterface.cpp`, `Flow.cpp`, `PartializableFlowTrafficStats.cpp`) | two queues of flows; per flow counters, last snapshot, delta, `in_progress`, `num_uses` | `dump`, `dumpFlow`, `dumpFlowLoop`, `dequeueFlowsForDump`, `dumpFlowOut`, `swap`, `shutdown` | `FlowDump` |
| Host checks and alerts (`Host.cpp`, `HostChecksExecutor.cpp`, `HostAlertableEntity.cpp`, `NetworkInterface.cpp`) | engaged alerts, score, alert queue, configuration | `execChecks`, `triggerAlert`, `releaseAlert`, `enqueueHostAlert`, `dequeueHostAlerts`, `enqueueAlertToRecipients` | `HostAlerts` |
| Periodic activities (`PeriodicActivities.cpp`, `ThreadedActivity.cpp`, `ThreadPool.cpp`, `QueuedThreadData.cpp`) | job queue, pool threads, state of each job, running flags | scheduler loop, `queueJob`, `dequeueJob`, `runScript`, `shutdown`, destructors | `ThreadPool` |
| Flow checks and alerts (`FlowChecksExecutor.cpp`, `Flow.cpp`, `NetworkInterface.cpp`) | alerts of a flow, the predominant one, the text and its shadow, scores and counters, alert queue | `execChecks`, `triggerAlert`, `flushAlerts`, `updateAlertsJSON`, `enqueueFlowAlert`, `dequeueFlowAlerts`, `swap`, `decAllFlowScores` | `FlowAlerts` |
| Recipients (`Recipients.cpp`, `RecipientQueue.cpp`, `recipients.lua`) and the drained test (`Ntop.cpp`) | one bounded queue and one mark per recipient, a lock; the recipients cached by the script | `enqueue`, `dequeue`, `last_use`, `register_recipient`, `delete_recipient`, `empty`; the passes of the script; `alerts_pipeline_drained` | `AlertPipeline` |
| Reload of the checks (`Ntop.cpp`, `NetworkInterface.cpp`, `PcapInterface.cpp`) | requested flag, loader, executor and previous executor of each interface | `checkReloadFlowChecks`, `reloadFlowChecks`, `registerInterface`, the wait of the capture thread | `ChecksReload` |
| Job queue (`JobQueue.cpp`) | queued and running external commands | `queueJob`, `idleTask`, `getJobResult` | not modelled |
| Exporters | buffers, connection | `dumpFlow` | interface only, in `FlowDump` |
| Collectors, dissection, Lua, HTTP, Redis, address trees, time series, preferences, web pages | | | not modelled (section 7) |

### 1.2 How they interact

    packets --> inline thread --add/purge--> GenericHash <--walk-- Lua/HTTP threads
                  |        |
        dumpFlow()|        |enqueueFlowAlert(), enqueueHostAlert()
                  v        v
               SPSCQueue  SPSCQueue
                  |        |
                  v        v
            dump thread   dequeue threads --> recipients --> script --> database, mail
                  |                                ^
                  |          data path alerts -----+   (internal queue, same script)
                  v
              database          scheduler --queueJob()--> pool --> scripts

An object in a queue or in a walker's hands is protected only by its use count,
which is tested when the inline thread wants to delete it. The checks the inline
thread runs are replaced under its feet by the main thread, which keeps the old
ones for a while. The queues carry raw
pointers. Preferences and the global shutdown flag are read by everybody without
a lock.

### 1.3 What is hard

The full list, with lines, is `hazards` in `PROJECT.json`. In short:

* **use counts**: they are incremented *after* the enqueue (`dumpFlow`,
  `enqueueHostAlert`), so the consumer may decrement first; a walker counts uses
  under a bucket lock, the purge tests them under no lock;
* **late publication**: the consumer of a queue publishes its progress only at
  multiples of a watermark;
* **state read early and used late**: `queueJob()` tests a job's state without
  the mutex, `dequeue()` trusts an earlier `isNotEmpty()`, the dequeue thread
  reads flags of an alert that go on changing;
* **refusals**: a full queue, failed allocation, a refused dump, failed thread
  creation;
* **shutdown at any time**: last purge, last dump, draining, joining the pool,
  deleting what threads may still be in;
* **replaced while in use**: the text of a flow's alerts, the executor and the
  checks of an interface are kept for one replacement, or for two seconds;
* **one of many**: one of several recipients refuses an alert, or is deleted in
  the middle of a pass;
* **progress**: nothing waits for ever, everything unlinked is deleted.

## 2. Modules

`M` is the component's specification with its properties, `MCM`, where there is
one, adds what TLC needs (symmetry sets, values of the constants), `M_<run>.cfg`
is one run. A
definition whose comment begins with "Mutant of" is a plausible bug in the
definition that follows; it is never part of `Next`. It documents that the
property it is paired with in `PROJECT.json` can be broken.

### SPSCQueue, BoundedFifo

`EnqueueRoom/Write/Publish` are the three steps of `enqueue()`,
`ConsumerCheck` the caller's `isNotEmpty()`, `DequeueCopy/Advance` the two steps
of `dequeue()`, `WaitBegin/WaitEnd` those of `wait()` (which no caller in the repository uses:
they poll). Each step makes at most one access to a shared index or slot. The
indices are `volatile` and not atomic; the model takes the order of loads and
stores in which x86 executes them. On a weaker memory model the argument for
`OnlyStoredItems` does not hold. `Size` is the length after rounding to a power
of two, though the proofs do not need it to be one.

`BoundedFifo` is what a user of the queue may rely on: items come out once and
in order; at most `Size - 2` are held; an item may be refused only when at least
`Size - 2 - Watermark` are. `FifoSpec` states that `SPSCQueue` implements it, with
the items not yet copied as the abstract queue. `FlowDump`,
`HostAlerts` and `FlowAlerts` use such a FIFO for their queues and so compose with
this module.

### GenericHash

The inline thread (`pc`) runs `purgeIdle` bucket by bucket and entry by entry;
buckets are locked with `trywrlock` (`SkipBucket` when a walker is in). Expired
entries go to `idle_entries_shadow`, become idle after the unlock, and are
deleted or kept in use in a later round. Walkers take a bucket lock, collect
entries, count a use on each and go on after the unlock. Three parameters
distinguish the tables: `StartStates` (flows begin allocated and progress with
traffic, hosts begin active), `NeedsUnused` (hosts and the others expire only
without uses, flows regardless) and `Collected` (flows of a collector may skip
the local dissection; that preference is reloaded at any time, so each read of
it is a free choice). `Enqueued/Dequeued` are the references through
the dump and alert queues. `Shutdown` and `cleanup` are the forced purge and the
destructor.

### FlowDump

Inline thread: `Packet`, `swap`, `PeriodicDump`, `Expire` and `LastDump`, then the
separate steps of `dumpFlow()` (enqueue, `incUses`, `set_dump_in_progress`), and the
purge. Dump thread: start-up wait, rounds over the idle then the active queue
with a budget each, and for each flow the four passes of `get_partial()`
(`CopyStats`, `DiffStats`, `StoreDelta`, `KeepStats`), the export, `set_dump_done`,
`decUses`.

`Flow::swap()` and `get_partial()` work on the same fields without a lock. The model
has one step per field written: a swap is the two writes of `swapme` on the counters,
then on the copy of the last dump, then on the delta (`swap_stats`, `swap_partial`,
`swap_delta`), with the pivot in between; each pass of `get_partial()` is one step per
direction. Formally the race is undefined behaviour; the steps are the writes in
program order, as x86 makes them visible, of the bytes of the two directions, which
stand for all the pairs of counters. The export, which reads the delta several times, is
one step; a swap between the copy and the end of the export counts as a race.
Differences stop at zero (`NON_NEGATIVE_DIFF`), hence nothing wraps.

History: `handed` is what was given to the database, which may refuse it (a refused
delta is counted and not asked for again, so it is the same to the model), `raced`
marks the flows that were swapped during a dump and that `ExportedOnce` and
`LastDumpComplete` leave out, `starved` those for which an allocation failed,
`recorded` those whose last dump was queued.

### HostAlerts

One host. Inline thread: `ReleaseDisabled`, `ExecCheck` with its outcomes
(`NotTriggered`, `Refresh`, `Engage`), `Verify` and the release; the enqueue and
the count of the use are separate steps. Dequeue thread: `Dequeue`,
`enqueueAlertToRecipients` (which reads the alert's *present* flags), `decUses`.
The configuration (loaded checks, disabled alerts, the preference not to emit
alerts) is reloaded by other threads at any time, so it has no variable: each
read of it is a free choice. `notified` and `refused` are history.

### ThreadPool

Main thread (`m_pc`), signal handler (`requestShutdown`), scheduler (`s_pc`) and
pool threads (`w_pc`). The scheduler reads the job's state, marks it not
executed, spawns threads and pushes the job in separate steps; only the pool's
critical sections are atomic. Waits on the condition variable may end without a
signal (`SpuriousWakeup`). Thread creation and allocation may fail.

### FlowAlerts

One flow, from its first packet to its deletion. Inline thread: `execChecks`
opens a round of checks, in which `triggerAlert` and `refreshAlert` may happen;
`flushAlerts` closes it. The replacement of the text (`flushAlerts` moves the old
one to the shadow, `updateAlertsJSON` stores the new one), the enqueue and the
count of the use are separate steps, as the dequeue thread reads in between.
Buffers are memory that `strdup()` may reuse: three of them suffice, since the
flow refers to two and the dequeue thread to one. Around them the life of the
flow: detection, swap of the ends (requested by a packet, performed by the next
one or at the end), housekeeping, `decAllFlowScores`, deletion. Dequeue thread:
`alert2JSON` copies the pointer to the text, `enqueueAlertToRecipients` reads the
flow's *present* score. `last` is the last notification; `refused`,
`swap_alerted` and `postponed` are history.

### AlertPipeline

What follows the queues of the interfaces (`DequeueAlert`, then `enqueue` to all
recipients under one lock). A pass of the script does nothing if alerts are
switched off, as the virtual machine has read the preference (`BeginPass`). It
empties the internal queue, dispatching each alert to the recipients *it has
cached*, calls `last_use` on each cached recipient whose endpoint module is
available (`Served`; the others are offered alerts and never served), takes batches
from the ready ones and delivers them, unless a delivery failed less than
`MIN_ERROR_DELAY` ago, to whomever (`error_recent`). An alert of the data path that
was popped may get lost (`LoseInternal`): its type is unknown, which ends the script
with an error (`recipients.lua:163`), it has no entity (`196`), its notification
cannot be encoded (`1232`), or any other error stops the script between two
recipients. `lost` records these. `alerts_api.store()` tests whether alerts are
enabled once more (`alerts_api.lua:212`), but the answer is cached per virtual machine
(`check_redis_prefs.lua:166`) and is the one with which the pass began. The
main thread's `alerts_pipeline_drained()` is three reads, at three moments
(`TestInternal`, `alertsQueuesDrained`, `recipients_are_empty`). `fate` records
what became of each alert for each recipient. Its producers are `FlowAlerts` and
`HostAlerts`, reduced to `Raise`.

A run of the script makes up to twenty passes in one virtual machine: `BeginPass` with
`reloaded` is the first of them. The recipients are really read at their first use in
the pass, a moment after; one registered in between counts as registered later. After
a failure the code keeps one time in the virtual machine and one per recipient in
redis, and a new virtual machine takes over the first of the latter it meets: it may
serve some recipients earlier, which `over` allows for.

### ChecksReload

User interface (saves, then requests), main thread (clears the flag, builds the
loader, gives each interface an executor, publishes, sleeps, deletes), interface
threads (`ExecBegin/ExecEnd`, no lock), creators of interfaces (`registerInterface`
then `LoadLate`), capture thread. Executors are numbered per interface, loaders
globally; `live_loaders` are those not deleted, and an executor is deleted when it
is neither `executor` nor `prev_executor`. The sleep is the one place where the
code relies on time: it is modelled as what two seconds give, the end of the
executions that were running when it began (`m_wait`). That this is enough is
`ChecksLive`. The checks of hosts have the same code and the same model.

## 3. Runs

| Run | Shows | Bounds |
|---|---|---|
| `spsc_safety` | No item is torn or invented, `dequeue()` never throws, a drained queue is not full, the ring is a bounded FIFO | 8 slots, watermark 2: the indices go around the ring and all the four multiples of the watermark occur; 2 items show a swap |
| `spsc_ports` (violation) | Queue of contacted ports: full for ever when empty | the real values, 8 and 8 |
| `hash_flows` | No deletion of what is referred to; one container per entry; what waits is idle; counters agree; deletion at least one purge after unlinking | 2 flows, 2 buckets, 1 walker: two entries in one bucket or in two, one in use while the other is purged |
| `hash_hosts` | No walker holds an expired host; unlinked hosts are deleted in the end | 2 hosts, 2 buckets, 1 walker, 1 queued alert each |
| `dump_queues` | Uses count queue slots; no deleted flow is dumped; each is at most once in each; queues drained at stop | 2 flows, a queue of idle flows of 1, which gets full and refuses a last dump, one of 2 for the others, budgets of 1, so that rounds end early |
| `dump_flow` | Each byte is exported once, all of them by the last dump, unless the flow is swapped during a dump, also with swaps between dumps and failed allocations; flows that left the table are deleted | 1 flow, 1 byte from the client before the swap and 1 after it, so that two dumps carry traffic and others none; 1 swap by a packet and 1 at the expiry, at every field; no queue gets full here (`dump_queues` has that) |
| `alerts_life` | Queued and engaged alerts are alive unless some event was refused; engagement before release; no leak; the host outlives its events; score and filter agree with the engaged alerts; idle hosts are deleted | 2 checks with one alert each, or one that engages twice; a queue of 2 that gets full |
| `alerts_full` (violation) | Queue full: an alert is deleted with its engagement still queued | 1 alert, queue of 1 |
| `pool_life` | A job is queued or run once at a time; none is stuck; queued jobs run; a shutdown of a running scheduler completes, and the activities are deleted after all threads left | a periodic and a one-shot job, 1 thread growing to 2, failures |
| `flow_alerts` | The flow outlives its queued alerts; the text being sent is still there during one replacement; the last notification tells all; counters and scores are given back | 2 alerts of different severity, 4 rounds of checks and more, a queue of 2 that gets full, swaps, alerts switched off |
| `pipeline` | Every alert is offered to every recipient or, if it is one of the data path, lost by the script; refusals are counted; the drained test is right about the recipients, and succeeds in the end while alerts are enabled | one alert of a flow, one of the data path, 2 served recipients with room for 1, one of them deleted and registered again; batches of 1; alerts switched on and off, failing deliveries, losses (126,424 states) |
| `checks_reload` | No interface runs a deleted executor or deleted checks; a request made at any time is honoured | one interface from the start, one added at any time, 3 reloads (initial and 2 configurations, so that an executor is replaced twice), failing allocation |

Bounds that are not of the code are named in the `CONSTANTS` (`MaxBytes`,
`Traffic`, `MaxQueued`, the finite sets of entries and alerts, each allocated at
most once). Address reuse is thus out of the models: a deleted object stays
deleted, which makes use after deletion visible. Deadlock is checked for the
queue, which runs for ever; the other systems end (destroyed table, stopped
threads), and there the liveness properties say that they do not end too early.

In `ChecksReload` the number of configurations is bounded (`MaxConfig`); after the
last one the system may stop. `AlertPipeline` never stops.

The properties of the runs that fail are kept apart as instances of their own,
which are not part of the list above but can be run like the others:

| Instance | Fails, because |
|---|---|
| `FlowDump_flag.cfg`, `InProgressMeansQueued` | section 4, no. 3 |
| `FlowDump_swap.cfg`, `StatsNeverBackwards` | section 4, no. 12 |
| `ThreadPool_start.cfg`, `ShutdownTerminates` | section 4, no. 4 |
| `FlowAlerts_swap.cfg`, `ScoresInSync` | section 4, no. 5 |
| `FlowAlerts_severity.cfg`, `ErrorsCounted` | section 4, no. 6 |
| `FlowAlerts_postponed.cfg`, `PostponedChecksRun` | section 4, no. 7 |
| `AlertPipeline_pending.cfg`, `NothingPending` | section 4, no. 8 |
| `AlertPipeline_orphan.cfg`, `ShutdownWhenDone` | section 4, no. 9 |
| `ChecksReload_late.cfg`, `LoaderLive` | section 4, no. 10 |
| `ChecksReload_wait.cfg`, `ReloadAwaited` | section 4, no. 11 |

`AlertPipeline_unserved.cfg` passes: the properties of `pipeline` with a recipient
that has no endpoint module (the other exception in `EventuallyDrained`; the listed
run has the exception for orphans, and both together are too large for a run).
`SPSCQueue_live.cfg` passes: with a consumer that keeps draining and all enqueues
flushed, as all callers do, accepted items are delivered and a full queue gets
room again.

Symmetry is used in safety runs only, over items, entries and flows.

### Fairness

Only what the scheduling gives: a thread that can go on does, the purge recurs
(`purgeIdle` is called by every interface's loop, traffic or not), scripts
and walks end, the consumer threads poll with timed waits. Two
conditions in `FlowDump` are strong: a scan ends although it may
be extended by another flow each time (there are finitely many), and a requested
shutdown is carried out although purges keep beginning (the capture loop ends).
In `AlertPipeline` four things recur (`SF`). The script begins a run, with a new
virtual machine, when the delay after the last failure is over (`BeginPass(TRUE,
TRUE)`): it is run every minute, and the failures end, because the alerts are finitely
many and a notification that failed is not sent again. A recipient *that has an endpoint
module* is found ready (`last_use(r, TRUE)`): its last use moves only when something is
taken from it, so the clock catches up. And it gets its turn before the time of the
pass is over (`dequeue(r)`). The last is an assumption about finitely many alerts, not a
guarantee of the code: with an endless stream of alerts, a recipient that fails again
and again would keep the delay running for all the others. Nothing is assumed of
recipients without a module, and nothing of the preference that switches alerts off:
`EventuallyDrained` has both as premises, and the orphans. In `ChecksReload` whoever saves a configuration then
requests the reload, the main thread's housekeeping recurs, and an execution of
the checks ends.

Nothing is assumed of traffic, requests, expiry, configuration changes, spurious
wakeups or shutdown requests. The two temporal instances that fail
(`ThreadPool_start`, `AlertPipeline_orphan`) are under this fairness.

## 4. Where the code disagrees with what it says

The first two are runs of the list (`findings` has the quotations), the others
instances of the second table of section 3.

1. `spsc_ports`: a queue as small as the watermark never publishes its tail.
   After seven ports the queue of contacted ports of a local host accepts no more.
2. `alerts_full`: an alert is deleted while its engagement is still queued.
3. `FlowDump_flag`: `dumpFlow()` raises `in_progress` after the enqueue; the dump
   thread may have lowered it already, and the flow then gets no periodic dump.
4. `ThreadPool_start`: `thread_running` is set after the thread that clears it
   starts.
5. `FlowAlerts_swap`: what an alert gave to the hosts' scores before a swap is
   taken back from the other host, "Keep decements in sync with
   Host::incScoreValue" notwithstanding; the scores stop at zero, so one host
   keeps too much.
6. `FlowAlerts_severity`: `num_active_alerted_flows_error` "Counts all flow alerts
   with severity >= error", but critical and emergency have no counter.
7. `FlowAlerts_postponed`: `housekeep()` postpones the checks of a detected
   protocol when a swap is requested ("hook execution will occur on the swapped
   flow"); if the next packet performs the swap, nothing runs them.
8. `AlertPipeline_pending`: the drained test says that nothing is pending while an
   alert is in a thread's hands, between the queue it left and the next.
9. `AlertPipeline_orphan`: a recipient that is deleted after the script took
   notifications from it leaves its mark set, and the test then never succeeds
   (alerts stay enabled, and every recipient that has alerts has its module).
10. `ChecksReload_late`: an interface that registers between the loop over the
    interfaces and the publication of the loader gets the old one, which is then
    deleted.
11. `ChecksReload_wait`: the capture thread waits for the flag, which is cleared
    before the reload and not after it.
12. `FlowDump_swap`: a swap whose writes fall between those of a dump makes the copy of
    the last dump be ahead of the counters, which `operator-()` reports once as "Flow
    stats went backwards". The difference is then cut to zero, and what is exported is
    too little in one direction or, if the copy was half swapped, contains bytes that
    were exported already.

The passing runs of the same modules separate these from the rest: for
instance the early decrement of a use (-1 for a moment) is harmless, because the
thread that deletes is the one that increments.

Seen in the code while modelling, without a run of their own (see `hazards`):
`hasEmptyRoom()` admits one entry more than `max_hash_size`
(`GenericHash.cpp:517`); `dumpFlowOut()` keeps the use of a flow when there is no
memory for its dump (`NetworkInterface.cpp:4156`, the exception in
`EventuallyDeleted`); the hour and day scripts run concurrently
(`PeriodicActivities.cpp:119`); a job may be marked as not executed after its run
(`ThreadPool.cpp:238`); `enqueueFlowAlert()` deletes an alert it cannot queue although
the flow still refers to it (`NetworkInterface.cpp:1257`, the exception `refused` in
`FlowOutlivesAlerts`); if the swap heuristic is switched off while a swap is
pending, the lookup of the flow jumps back for ever (`NetworkInterface.cpp:2307`);
`replace_alert` is computed after the alert was set (`Flow.cpp:5803`); an alert of the
data path whose type the script does not know ends the script after it was popped
(`type_info` is nil at `recipients.lua:166`), so that it is offered to nobody, counted
nowhere, and the pass serves nobody; recipients whose endpoint module is not available
are offered alerts and never served (`recipients.lua:1579`), so that their queues stay
full and the drained test fails for ever.

## 5. What is proved

Every safety property of the passing runs is a theorem `Spec => []P` (or
`Spec => P` for an action property and for the refinement), proved for every value
of the constants that the module's named assumption admits. Each proof module
`M_proofs` extends `M`, states an inductive invariant, proves it step by step (one
lemma or case per action, steps that do not touch what a conjunct is about taken
together) and derives the theorems from it. The invariants were checked with TLC,
on the instances of section 3, before they were proved.

### SPSCQueue_proofs

For every size of at least 4, every watermark from 1 to the size and every set of
items (`QueueAssumption`):

* `TypeCorrect`, `NeverTorn` (`NoTornRead`), `ReadsStoredItems`
  (`OnlyStoredItems`), `DequeueNeverThrows` (`NeverThrows`);
* `DrainedHasRoom` (`NotFullWhenEmpty`), under the further assumption
  `Watermark <= Size - 2`, which the queue of ports does not meet (`spsc_ports`);
* `RingIsFifo` (`FifoSpec`): the ring implements `BoundedFifo`.

None of the properties is inductive: they speak of the private indices, while the
threads decide on the published, older ones. `IInv` adds what relates them: `Room`
(the slots between the *published* tail and the private head never fill the ring,
and one more is free while an enqueue is between its check and its write, so an
old tail only makes `enqueue()` more careful), `HeadBehind` (the published head is
not beyond the private one), `ItemToTake` (between check and advance there is an
item, since only the consumer takes items), and `Stored` (each used slot holds an
item). The proof rests on lemmas of ring arithmetic (`DistAdd`, `DistNear`,
`ShiftInjective`, ...), so that modular reasoning is done once.
`DrainedHasRoom` needs `LagIsRemainder`: how far the published tail is behind is
the remainder of the private one by the watermark (zero before the first wrap).

The refinement maps `EnqueueWrite` to `Accept`, `DequeueCopy` to `Deliver`,
`EnqueueNoRoom` to `Refuse` and every other step to a stutter. `Contents` is a slice
of the ring; `SliceAppend` and `SliceTail` say that a write at its end appends and
that a move of its beginning takes the head. That `Refuse` is allowed rests on
`LagIsRemainder` again: of the slots that are not free, fewer than `Watermark` are
merely unpublished.

### ChecksReload_proofs

For every number of interfaces and of configurations (`ReloadAssumption`):

* `RunningChecksLive` (`ChecksLive`): no interface runs a deleted executor or
  deleted checks. Alone it is not inductive, since it does not say why an old
  executor is still there. `IInv` does: an interface runs its present executor, or
  the previous one, and then it was replaced in the reload under way or the sleep
  waits for it (`RunningKept`); the present executor is of the new loader if
  already replaced, else of the published one (`ExecutorLoader`); so the loader
  deleted after the sleep is nobody's (`RunningLive`). Excepted are the interfaces
  that a reload did not reach, for want of memory or because they registered too
  late (`missed`, section 4, no. 10).

### FlowAlerts_proofs

For every set of alerts, all scores and every length of the queue
(`FlowAlertAssumption`):

* `OutlivesAlerts` (`FlowOutlivesAlerts`). The uses alone do not tell: they may be
  one less than the alerts under way, or -1. `UsesInv` adds that the inline thread
  is done when a flow is purged (`DoneWhenPurged`), so that at the one place where
  the uses are tested nothing is left to be counted.
* `TextOutlivesUpdate` (`ShadowHolds`). `TextKept` adds that between the two halves
  of a replacement the text is in both places, and who read it when. It rests on
  `FreeBufferExists`: of three buffers, one is free.
* `NotificationsTell` (`LastNotificationTells`). The property speaks of the end,
  when nothing is under way; the invariant follows the newest alert backwards, from
  the end of the queue through the hands of the dequeue thread to the notification
  (`Newest`): unless alerts are pending or one was refused, it is the predominant
  one and its text is complete. `Texts` says that the flow's text lists every queued
  alert although it may be replaced meanwhile, `Predominant` that alerts are pending
  only from the check that fires to the flush.
* `FlowCountersBalanced` (`CountersBalanced`). `Counters` gives the value of each
  counter in each state; `Scores` that the hosts' scores are the flow's, in the roles
  that the ends have, as long as no swap followed an alert.

### GenericHash_proofs

For any number of entries, buckets and walkers, for flows and for hosts
(`HashAssumption`): `EntriesOutliveReferences` (`NoUseAfterFree`),
`ContainersAreDisjoint` (`OneContainer`), `WaitingEntriesAreIdle` (`WaitingIsIdle`),
`CountersAreExact` (`CountersAgree`), `DeletionIsLater` (`DeletedLater`) and
`ExpiredIsUnused` (`UnusedWhenExpired`).

The properties depend on each other and are proved together. `NoUseAfterFree` needs
that the uses are the references (`UsesCounted`) and that a walker's next entry is in
the bucket it has locked (`WalkersLock`): a reference begins only there, where no
purge can unlink the entry. `CountersAgree` holds between two purges only; `Counts`
says what the counters are in the middle of one, which needs the containers to be
disjoint at every step, the batch taken by `purgeQueuedIdleEntries()` included
(`Disjoint`), and the place of the entries that a loop has still to reach
(`LoopEntries`). `IdleStates` says which unlinked entries are still to become idle.

### FlowDump_proofs

For any number of flows, all lengths of the queues, budgets and numbers of bytes
(`DumpAssumption`):

* `UsesAreAccounted` (`UsesAccounted`) and `DrainedWhenStopped` (`DrainedAtStop`),
  under `AllocMayFail = FALSE`: a dump for which there is no memory keeps its use for
  ever, so that the statements are false with failing allocations (section 4);
* `DumpedFlowsLive` (`NoUseAfterFree`), `BytesExportedOnce` (`ExportedOnce`) and
  `LastDumpsComplete` (`LastDumpComplete`), with failing allocations too.

That a flow is in each queue once is not inductive: `QueuedOnce` adds that a flow of
the table which is in `activeFlowsToDump`, or was taken from it and is not yet marked
as dumped, is in progress or in the hands of `dumpFlow()`. `Accounts` bounds the uses
from both sides, exact for the flows that never starved; `LastRound` says that the
round without a budget begins after the last enqueue.

For the bytes of a flow that has not raced the invariant follows both threads field by
field. `Ordered` says that the copy of the last dump is not ahead of the counters,
compared in the order in which a swap under way has them, pivot included; it is what
keeps the differences from being cut to zero. `Computed` says what each pass of
`get_partial()` has done so far. `Base` is the copy whose delta was exported, also while
the dump overwrites it, and `Once` that it is what was handed over. `Complete` says that
a flow whose last dump was queued is still queued, or starved, or is copied with its
final counters: no packet and no swap follows that enqueue. `NullPartial` is why a swap
may skip the copy that does not exist yet.

### HostAlerts_proofs

For any number of checks and alerts and every length of the queue
(`AlertAssumption`): `AlertsLive` (`AlertsAreLive`), `AlertsNotLeaked` (`NoLeak`),
`HostOutlives` (`HostOutlivesEvents`), `ScoresBalanced` (`ScoreBalanced`),
`EngagedBeforeReleased` (`EngageBeforeRelease`) and `FilterIsRight` (`FilterAgrees`).

The invariant is about the events under way in the order in which they will be
handled, the one in the hands of the dequeue thread first: an alert has at most two,
the engagement first (`InOrder`); the alert of a release is no longer engaged
(`EventsMatch`); a live alert that is not engaged has its release on the way
(`NotForgotten`). `FilterFollows` is what makes the filter right although the dequeue
thread goes by flags that have changed since: an event of an alert that was the last
to be released is always followed by the engagement of whatever was engaged later.

### ThreadPool_proofs

For any number of jobs and threads (`PoolAssumption`): `JobsRunOnce` (`JobOnce`),
`JobsNeverStuck` (`NeverStuck`) and `ActivitiesOutliveScripts` (`ScriptsEndFirst`).

`queueJob()` reads the state of a job without the mutex. `StateTells` says why this is
enough: before a shutdown is requested the state tells exactly whether the job is in
the queue or with a thread. After the request this is no longer so, and `OnePlace`
carries the job whose state was read before. `Phases` and `ThreadsJoined` say which
thread has ended in each phase of the shutdown.

### AlertPipeline_proofs

For any number of alerts and recipients, sizes of queues and budgets
(`PipelineAssumption`):

* `AlertsOfferedOrLost` (`OfferedOrLost`). The invariant follows an alert: it waits
  in one place (`OnePlace`), no recipient has seen it before it is offered
  (`Untouched`), whoever was passed by the script's loop has an answer, and so has
  everybody about an alert that waits no more and was not lost (`Offered`; only alerts
  of the data path are ever lost, which is part of the types);
  what is pending at a recipient is in its queue or in the batch, once
  (`PendingOnce`), and each refusal was counted (`Counted`).
* `DrainedMeansSettled` (`DrainedIsSettled`), an action property: what the test saw at
  its first two moments is still so at the third, since the alerts have all been
  raised and only move on (`Tested`).

### Only model-checked

The liveness properties `EventuallyFreed`, `EventuallyDeleted`, `IdleHostDeleted`,
`QueuedRuns`, `ShutdownCompletes`, `EventuallyDrained` and `RequestSeen`, and those of
`SPSCQueue_live.cfg`: the proof system has no reasoning about fairness. The proofs say
nothing about memory reordering, nor about anything the modules leave out (section 7).

## 6. Plan

Done: `SPSCQueue`, `GenericHash`, `FlowDump`, `HostAlerts`, `ThreadPool`,
`FlowAlerts`, `AlertPipeline`, `ChecksReload`; all their safety properties proved.
Next, in this order:

1. Proofs: that what `FlowDump`, `HostAlerts` and `FlowAlerts` do to their queues are
   steps of `BoundedFifo`, so that they compose with the ring also formally; shorter
   proofs where two modules repeat lemmas on queues (`InAppend`, `InTail`).
2. `HostAlerts` with the second producer (`LuaEngineInterface.cpp:6332`).
3. `GenericHash` with failed allocation; the buffer of `ElasticSearch.cpp`; the two
   limits of `JobQueue`.

## 7. Not modelled

* **Dissection, nDPI, collectors**: decoding of data. Their effect on a flow's
  state is a free choice in `GenericHash`.
* **Lua bindings, HTTP**: their walks are the walkers of `GenericHash`.
* **Exporters**: I/O. `FlowDump` has their answer, accepted or refused.
* **View interfaces**: the half that feeds them is not in the repository.
* **Redis client, address trees, time series, preferences, start-up, web
  pages**: formatting, vendored structures, I/O; the order of `shutdownAll()` is
  modelled where it matters.
* **`threaded_activity_stats`**, a `std::map` extended without a lock: only the
  state it holds is modelled, not the container.
* **Job queue**: external commands and pipes. Seen in it: the size is tested
  outside the lock and with `>`; `idleTask()` tests the limit of running jobs once
  and then starts all queued ones; `fgets()` may block with the lock held; nothing
  sets `job_completed`, so `purgeOldResults()` is never called.
* **Failed allocations** in `GenericHash`, `HostAlerts` (an alert that
  `addEngagedAlert()` cannot record, `HostAlertableEntity.cpp:67`) and `FlowAlerts` (a
  text that `updateAlertsJSON()` cannot build, `Flow.cpp:9128`: the notification then
  carries the old one).
* **The exact moment `isRunning()` turns false**: from the global request on and during
  the join, a little before `GenericHash.Shutdown`; `set_state()` may then let a flow
  skip a state before the forced purge begins.
* **Flows of views and capture files** in `FlowAlerts`; the statistics of
  recipients and the forced pass at shutdown in `AlertPipeline`.
* **Memory reordering** beyond x86.

By lines, most of the program decodes packets and records, binds functions to
Lua, formats and stores: sequential code over large data, for which a model would
restate the program. The share of the source that the modules cover is therefore
small; it is the share in which several threads or several steps can disagree.
