---------------------------- MODULE ChecksReload ----------------------------
(***************************************************************************)
(* Reloading the checks while they run: checkReloadFlowChecks() and        *)
(* reloadFlowChecks() of Ntop.cpp and NetworkInterface.cpp, and their twins*)
(* for the checks of hosts, which have the same shape.                     *)
(*                                                                         *)
(* The user interface saves a configuration and raises a flag.  The main   *)
(* thread finds the flag, builds a loader (the owner of all the checks)    *)
(* from the configuration, gives every interface an executor (lists of     *)
(* pointers to checks of that loader), sleeps, and deletes the old loader. *)
(* The thread of an interface reads its executor and runs its checks       *)
(* without any lock.  Interfaces are added at run time by other threads.   *)
(* The thread that reads a capture file waits for the reload its initial   *)
(* script may have asked for.                                              *)
(*                                                                         *)
(* Configurations are numbered.  The code relies on time in one place: the *)
(* checks that were running when the sleep of two seconds began are done   *)
(* when it ends.                                                           *)
(***************************************************************************)
EXTENDS Integers, Sequences, FiniteSets

CONSTANTS Ifaces,      \* the interfaces of the command line
          LateIfaces,  \* the interfaces added at run time
          PcapIface,   \* the interface that reads a capture file
          MaxConfig,   \* bound on the number of configurations
          AllocFails   \* whether an allocation can fail

AllIfaces == Ifaces \cup LateIfaces

ASSUME ReloadAssumption ==
         /\ IsFiniteSet(AllIfaces) /\ Ifaces \cap LateIfaces = {}
         /\ PcapIface \in Ifaces /\ MaxConfig \in Nat /\ AllocFails \in BOOLEAN

VARIABLES
  config,             \* the configuration in redis
  u_pc,               \* the user interface: "idle" or "saved"
  reloadInProgress,   \* flowChecksReloadInProgress: a reload is requested
  loaders,            \* the configuration of each loader built so far
  live_loaders,       \* the loaders that are not deleted
  checks_loader,      \* flow_checks_loader, 0 at first
  m_pc, m_tmp,        \* the main thread: its step, the new loader,
  m_done, m_wait,     \*   interfaces done, executions the sleep waits for
  iface,              \* the interfaces that are registered
  loading,            \*   and those whose creator has yet to load the checks
  executor, prev_executor,
  running,            \* the executor each interface is running
  p_pc, p_config,     \* the capture thread, and what its script asked for
  missed, lost        \* history: interfaces that a reload did not reach,
                      \*   and whether an allocation failed

mainVars == <<checks_loader, live_loaders, loaders, m_pc, m_tmp, m_done,
              m_wait>>
execVars == <<executor, prev_executor>>
pcapVars == <<p_pc, p_config>>
history == <<missed, lost>>
ifaceVars == <<iface, loading>>
vars == <<config, u_pc, reloadInProgress, mainVars, ifaceVars, execVars,
          running, pcapVars, history>>

NoExecutor == [serial |-> 0, loader |-> 0]
Executors == [serial : Nat, loader : Nat]

TypeOK ==
  /\ config \in 0..MaxConfig /\ u_pc \in {"idle", "saved"}
  /\ reloadInProgress \in BOOLEAN
  /\ loaders \in Seq(0..MaxConfig)
  /\ live_loaders \subseteq DOMAIN loaders
  /\ checks_loader \in {0} \cup live_loaders
  /\ m_pc \in {"idle", "initialize", "reload", "sleep"}
  /\ m_tmp \in 0..Len(loaders)
  /\ m_done \subseteq iface /\ m_wait \subseteq iface
  /\ Ifaces \subseteq iface /\ iface \subseteq AllIfaces
  /\ loading \subseteq iface \cap LateIfaces
  /\ executor \in [AllIfaces -> Executors]
  /\ prev_executor \in [AllIfaces -> Executors]
  /\ running \in [AllIfaces -> Executors]
  /\ p_pc \in {"script", "wait", "run", "timeout"} /\ p_config \in 0..MaxConfig
  /\ missed \subseteq AllIfaces /\ lost \in BOOLEAN

Init ==
  /\ config = 0 /\ u_pc = "idle" /\ reloadInProgress = TRUE
  /\ loaders = <<>> /\ live_loaders = {} /\ checks_loader = 0
  /\ m_pc = "idle" /\ m_tmp = 0 /\ m_done = {} /\ m_wait = {}
  /\ iface = Ifaces /\ loading = {}
  /\ executor = [i \in AllIfaces |-> NoExecutor]
  /\ prev_executor = executor /\ running = executor
  /\ p_pc = "script" /\ p_config = 0
  /\ missed = {} /\ lost = FALSE
-----------------------------------------------------------------------------
(***************************************************************************)
(* The user interface.                                                     *)
(***************************************************************************)

SaveConfig ==
  /\ u_pc = "idle" /\ config < MaxConfig
  /\ config' = config + 1 /\ u_pc' = "saved"
  /\ UNCHANGED <<reloadInProgress, mainVars, ifaceVars, execVars, running,
                 pcapVars, history>>

\* ntop.reloadFlowChecks().
RequestReload ==
  /\ u_pc = "saved"
  /\ reloadInProgress' = TRUE /\ u_pc' = "idle"
  /\ UNCHANGED <<config, mainVars, ifaceVars, execVars, running, pcapVars,
                 history>>
-----------------------------------------------------------------------------
(***************************************************************************)
(* The main thread.                                                        *)
(***************************************************************************)

\* checkReloadFlowChecks(): the flag is cleared before anything is read.
CheckReload ==
  /\ m_pc = "idle" /\ reloadInProgress
  /\ reloadInProgress' = FALSE /\ m_pc' = "initialize"
  /\ UNCHANGED <<config, u_pc, checks_loader, live_loaders, loaders, m_tmp,
                 m_done, m_wait, ifaceVars, execVars, running, pcapVars,
                 history>>

\* The new loader reads the configuration.
initialize ==
  /\ m_pc = "initialize"
  /\ loaders' = Append(loaders, config)
  /\ m_tmp' = Len(loaders) + 1 /\ live_loaders' = live_loaders \cup {m_tmp'}
  /\ m_pc' = "reload" /\ m_done' = {}
  /\ UNCHANGED <<config, u_pc, reloadInProgress, checks_loader, m_wait,
                 ifaceVars, execVars, running, pcapVars, history>>

\* Without memory for a loader the request is forgotten.
NoMemoryForLoader ==
  /\ AllocFails /\ m_pc = "initialize"
  /\ m_pc' = "idle" /\ lost' = TRUE
  /\ UNCHANGED <<config, u_pc, reloadInProgress, checks_loader, live_loaders,
                 loaders, m_tmp, m_done, m_wait, ifaceVars, execVars, running,
                 pcapVars, missed>>

\* An executor is deleted when the one that replaced it is replaced.
reloadFlowChecks(i, loader) ==
  /\ prev_executor' = [prev_executor EXCEPT ![i] = executor[i]]
  /\ executor' = [executor EXCEPT ![i] =
                    [serial |-> @.serial + 1, loader |-> loader]]

ReloadIface(i) ==
  /\ m_pc = "reload" /\ i \in iface \ m_done
  /\ m_done' = m_done \cup {i}
  /\ \/ reloadFlowChecks(i, m_tmp) /\ UNCHANGED history
     \/ /\ AllocFails
        /\ missed' = missed \cup {i} /\ lost' = TRUE /\ UNCHANGED execVars
  /\ UNCHANGED <<config, u_pc, reloadInProgress, checks_loader, live_loaders,
                 loaders, m_pc, m_tmp, m_wait, ifaceVars, running, pcapVars>>

\* Mutant of Publish: the flag is cleared at the end of the reload.
PublishAndClear ==
  /\ m_pc = "reload" /\ m_done = iface
  /\ checks_loader' = m_tmp
  /\ m_pc' = IF checks_loader = 0 THEN "idle" ELSE "sleep"
  /\ m_wait' = {i \in iface : running[i] # NoExecutor}
  /\ reloadInProgress' = FALSE
  /\ UNCHANGED <<config, u_pc, live_loaders, loaders, m_tmp, m_done, ifaceVars,
                 execVars, running, pcapVars, history>>

\* All the interfaces are done: the loader is published and the sleep begins, if
\* there is an old one.
Publish ==
  /\ m_pc = "reload" /\ m_done = iface
  /\ checks_loader' = m_tmp
  /\ m_pc' = IF checks_loader = 0 THEN "idle" ELSE "sleep"
  /\ m_wait' = {i \in iface : running[i] # NoExecutor}
  /\ UNCHANGED <<config, u_pc, reloadInProgress, live_loaders, loaders, m_tmp,
                 m_done, ifaceVars, execVars, running, pcapVars, history>>

\* Mutant of DeleteOld: nothing is waited for.
DeleteOldAtOnce ==
  /\ m_pc = "sleep" /\ m_pc' = "idle"
  /\ live_loaders' = {checks_loader} /\ m_wait' = {}
  /\ UNCHANGED <<config, u_pc, reloadInProgress, checks_loader, loaders, m_tmp,
                 m_done, ifaceVars, execVars, running, pcapVars, history>>

\* "Make sure nobody is using the old one".
DeleteOld ==
  /\ m_pc = "sleep" /\ m_wait = {}
  /\ m_pc' = "idle"
  /\ live_loaders' = {checks_loader}
  /\ UNCHANGED <<config, u_pc, reloadInProgress, checks_loader, loaders, m_tmp,
                 m_done, m_wait, ifaceVars, execVars, running, pcapVars,
                 history>>
-----------------------------------------------------------------------------
(***************************************************************************)
(* The interfaces.                                                         *)
(***************************************************************************)

\* registerInterface(), on behalf of createRuntimeInterface() or of
\* registerSubInterface(),
registerInterface(i) ==
  /\ i \in LateIfaces \ iface /\ checks_loader # 0
  /\ iface' = iface \cup {i} /\ loading' = loading \cup {i}
  /\ UNCHANGED <<config, u_pc, reloadInProgress, mainVars, execVars, running,
                 pcapVars, history>>

\* which then load the checks from the loader they find, before the interface
\* starts.  If the main thread is done with its interfaces but has not published
\* the new loader yet, these are the checks that are about to be deleted.  Reading the
\* loader and installing its checks are one step: an interface between the two differs
\* in nothing from one in missed.
LoadLate(i) ==
  /\ i \in loading
  /\ loading' = loading \ {i}
  /\ \/ /\ reloadFlowChecks(i, checks_loader)
        /\ missed' = IF m_pc = "reload" THEN missed \cup {i} ELSE missed
        /\ UNCHANGED lost
     \/ AllocFails /\ lost' = TRUE /\ UNCHANGED <<execVars, missed>>
  /\ UNCHANGED <<config, u_pc, reloadInProgress, mainVars, iface, running,
                 pcapVars>>

\* execChecks() of a flow or of a host.  A capture thread begins after its wait.
ExecBegin(i) ==
  /\ running[i] = NoExecutor /\ executor[i] # NoExecutor
  /\ i \notin loading
  /\ i = PcapIface => p_pc \in {"run", "timeout"}
  /\ running' = [running EXCEPT ![i] = executor[i]]
  /\ UNCHANGED <<config, u_pc, reloadInProgress, mainVars, ifaceVars, execVars,
                 pcapVars, history>>

ExecEnd(i) ==
  /\ running[i] # NoExecutor
  /\ running' = [running EXCEPT ![i] = NoExecutor]
  /\ m_wait' = m_wait \ {i}
  /\ UNCHANGED <<config, u_pc, reloadInProgress, checks_loader, live_loaders,
                 loaders, m_pc, m_tmp, m_done, ifaceVars, execVars, pcapVars,
                 history>>

\* The initial script has ended, its requests made.
PreScriptDone ==
  /\ p_pc = "script" /\ u_pc = "idle"
  /\ p_pc' = "wait" /\ p_config' = config
  /\ UNCHANGED <<config, u_pc, reloadInProgress, mainVars, ifaceVars, execVars,
                 running, history>>

\* The thread polls isFlowChecksReloadPending(), for a limited time.
WaitReload(timeout) ==
  /\ p_pc = "wait"
  /\ timeout \/ ~reloadInProgress
  /\ p_pc' = IF timeout THEN "timeout" ELSE "run"
  /\ UNCHANGED <<config, u_pc, reloadInProgress, mainVars, ifaceVars, execVars,
                 running, p_config, history>>
-----------------------------------------------------------------------------
MainThread ==
  \/ CheckReload \/ initialize \/ NoMemoryForLoader \/ Publish \/ DeleteOld
  \/ \E i \in AllIfaces : ReloadIface(i)

Next ==
  \/ SaveConfig \/ RequestReload \/ MainThread \/ PreScriptDone
  \/ \E timeout \in BOOLEAN : WaitReload(timeout)
  \/ \E i \in AllIfaces : \/ registerInterface(i) \/ LoadLate(i)
                          \/ ExecBegin(i) \/ ExecEnd(i)

Spec == Init /\ [][Next]_vars

\* A request follows the configuration it is for, the main thread does its
\* housekeeping and the checks of a flow or of a host end.
FairSpec ==
  /\ Spec /\ WF_vars(RequestReload) /\ WF_vars(MainThread)
  /\ \A i \in AllIfaces : WF_vars(ExecEnd(i))
-----------------------------------------------------------------------------
(***************************************************************************)
(* Properties.                                                             *)
(***************************************************************************)

\* An interface never runs an executor that was deleted, nor checks of a loader
\* that was deleted, unless a reload missed the interface (no memory for it, or
\* added in the middle of the reload).  It takes both the executor kept by
\* reloadFlowChecks() and the sleep of checkReloadFlowChecks().
ChecksLive ==
  /\ TypeOK
  /\ \A i \in AllIfaces : running[i] # NoExecutor =>
       /\ running[i] \in {executor[i], prev_executor[i]}
       /\ i \in missed \/ running[i].loader \in live_loaders

ConfigOf(e) == IF e = NoExecutor THEN -1 ELSE loaders[e.loader]

\* A requested configuration, or a later one, is given to every interface of the
\* command line in the end, also when the request comes during a reload.
RequestSeen ==
  \A i \in Ifaces, c \in 1..MaxConfig :
    (u_pc = "idle" /\ config >= c) ~> (ConfigOf(executor[i]) >= c \/ lost)

\* What the comment on the sleep says: when the old loader is deleted, nobody is
\* using it (Ntop.cpp).
LoaderLive == \A i \in AllIfaces :
                running[i] # NoExecutor => running[i].loader \in live_loaders

\* What the comment on the wait of the capture thread says: it polls for the
\* completion of the reload, so the capture is processed with the checks the
\* initial script has configured (PcapInterface.cpp).
ReloadAwaited ==
  p_pc = "run" /\ running[PcapIface] # NoExecutor =>
    ConfigOf(running[PcapIface]) >= p_config
=============================================================================
