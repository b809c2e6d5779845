------------------------- MODULE ChecksReload_proofs -------------------------
(***************************************************************************)
(* No interface runs a deleted executor or deleted checks, for any number  *)
(* of interfaces and of configurations: ChecksLive is an invariant of      *)
(* ChecksReload.                                                           *)
(*                                                                         *)
(* ChecksLive is not inductive.  The inductive invariant says how long an  *)
(* interface may run the executor before the present one (only from its    *)
(* reload to the end of the sleep that follows), and of which loader the   *)
(* present executor is.                                                    *)
(***************************************************************************)
EXTENDS ChecksReload, TLAPS

\* The interfaces that have been given the new loader in this reload, and those
\* whose executions the sleep waits for.
Replaced(i) == m_pc = "reload" /\ i \in m_done
Awaited(i) == m_pc = "sleep" /\ i \in m_wait

\* An interface runs its present executor, or the one before in the reload that
\* replaced it.
RunningKept ==
  \A i \in AllIfaces : running[i] # NoExecutor =>
    \/ running[i] = executor[i]
    \/ running[i] = prev_executor[i] /\ (Replaced(i) \/ Awaited(i))

\* Until the first loader is published no executor has been replaced.
FirstLoad ==
  checks_loader = 0 =>
    /\ loading = {} /\ m_pc # "sleep"
    /\ \A i \in AllIfaces : /\ prev_executor[i] = NoExecutor
                            /\ executor[i] # NoExecutor => Replaced(i)

\* The present executor is of the new loader or of the published one.
ExecutorLoader ==
  \A i \in AllIfaces : executor[i] # NoExecutor /\ i \notin missed =>
    executor[i].loader = IF Replaced(i) THEN m_tmp ELSE checks_loader

\* The loader that is being given to the interfaces is not deleted.
NewLoaderLive == m_pc = "reload" => m_tmp \in live_loaders

\* The checks that are running are not deleted.
RunningLive ==
  \A i \in AllIfaces : running[i] # NoExecutor /\ i \notin missed =>
    running[i].loader \in live_loaders

\* An interface does not run before it is registered and has been loaded.
NotStarted ==
  /\ \A i \in loading : running[i] = NoExecutor
  /\ \A i \in AllIfaces \ iface : /\ running[i] = NoExecutor
                                  /\ executor[i] = NoExecutor

IInv == /\ TypeOK /\ RunningKept /\ FirstLoad /\ ExecutorLoader
        /\ NewLoaderLive /\ RunningLive /\ NotStarted
-----------------------------------------------------------------------------
\* The user interface and the capture thread touch neither executors nor loaders;
\* neither does the main thread when it finds the flag, or has no memory.
LEMMA OtherPreserves ==
  ASSUME IInv,
         \/ SaveConfig \/ RequestReload \/ PreScriptDone
         \/ \E timeout \in BOOLEAN : WaitReload(timeout)
         \/ CheckReload \/ NoMemoryForLoader
  PROVE  IInv'
<1> USE DEF SaveConfig, RequestReload, PreScriptDone, WaitReload, CheckReload,
            NoMemoryForLoader, mainVars, ifaceVars, execVars, pcapVars, history
<1>1. TypeOK'
  <2>1. CASE SaveConfig
    BY <2>1, ReloadAssumption DEF IInv, TypeOK
  <2>2. CASE RequestReload
    BY <2>2 DEF IInv, TypeOK
  <2>3. CASE PreScriptDone \/ \E timeout \in BOOLEAN : WaitReload(timeout)
    BY <2>3 DEF IInv, TypeOK
  <2>4. CASE CheckReload \/ NoMemoryForLoader
    BY <2>4 DEF IInv, TypeOK
  <2> QED BY <2>1, <2>2, <2>3, <2>4
<1>2. RunningKept'
  BY DEF IInv, RunningKept, Replaced, Awaited
<1>3. FirstLoad'
  BY DEF IInv, FirstLoad, Replaced
<1>4. ExecutorLoader'
  BY DEF IInv, ExecutorLoader, Replaced
<1>5. NewLoaderLive'
  BY DEF IInv, NewLoaderLive
<1>6. RunningLive'
  BY DEF IInv, RunningLive
<1>7. NotStarted'
  BY DEF IInv, NotStarted
<1> QED BY <1>1, <1>2, <1>3, <1>4, <1>5, <1>6, <1>7 DEF IInv

\* A new loader is built; no interface has it yet.
LEMMA InitializePreserves ==
  ASSUME IInv, initialize
  PROVE  IInv'
<1>1. TypeOK'
  <2>1. /\ loaders' \in Seq(0..MaxConfig) /\ Len(loaders') = Len(loaders) + 1
        /\ DOMAIN loaders = 1..Len(loaders) /\ DOMAIN loaders' = 1..Len(loaders')
        /\ Len(loaders) \in Nat
    BY DEF IInv, TypeOK, initialize
  <2> QED BY <2>1 DEF IInv, TypeOK, initialize, ifaceVars, execVars, pcapVars, history
<1>2. RunningKept'
  BY DEF IInv, RunningKept, Replaced, Awaited, initialize, history,
     pcapVars, ifaceVars, execVars
<1>3. FirstLoad'
  BY DEF IInv, FirstLoad, Replaced, initialize, history, pcapVars,
     ifaceVars, execVars
<1>4. ExecutorLoader'
  BY DEF IInv, ExecutorLoader, Replaced, initialize, history, pcapVars,
     ifaceVars, execVars
<1>5. NewLoaderLive'
  BY DEF IInv, NewLoaderLive, initialize, history, pcapVars, ifaceVars,
     execVars
<1>6. RunningLive'
  BY DEF IInv, RunningLive, initialize, history, pcapVars, ifaceVars,
     execVars
<1>7. NotStarted'
  BY DEF IInv, NotStarted, initialize, history, pcapVars, ifaceVars,
     execVars
<1> QED BY <1>1, <1>2, <1>3, <1>4, <1>5, <1>6, <1>7 DEF IInv

\* An interface is given its new executor, or keeps the old one and is missed; what
\* it runs was its present executor, since it had no reload since the last sleep.
LEMMA ReloadPreserves ==
  ASSUME IInv, NEW i \in AllIfaces, ReloadIface(i)
  PROVE  IInv'
<1>1. TypeOK'
  <2>1. [serial |-> executor[i].serial + 1, loader |-> m_tmp] \in Executors
    <3>1. executor[i].serial \in Nat /\ m_tmp \in Nat
      BY DEF IInv, TypeOK, Executors
    <3> QED BY <3>1 DEF Executors
  <2>2. /\ executor' \in [AllIfaces -> Executors]
        /\ prev_executor' \in [AllIfaces -> Executors]
    BY <2>1 DEF IInv, TypeOK, ReloadIface, reloadFlowChecks, execVars
  <2> QED BY <2>2 DEF IInv, TypeOK, ReloadIface, ifaceVars, pcapVars, mainVars,
                      history, AllIfaces
<1>2. RunningKept'
  BY DEF IInv, RunningKept, Replaced, Awaited, ReloadIface,
     reloadFlowChecks, history, pcapVars, ifaceVars, execVars, TypeOK
<1>3. FirstLoad'
  BY DEF IInv, FirstLoad, Replaced, ReloadIface, reloadFlowChecks,
     history, pcapVars, ifaceVars, execVars, TypeOK
<1>4. ExecutorLoader'
  <2> SUFFICES ASSUME NEW j \in AllIfaces, executor[j]' # NoExecutor, j \notin missed'
               PROVE  executor[j]'.loader = (IF Replaced(j) THEN m_tmp ELSE checks_loader)'
    BY DEF ExecutorLoader
  <2>1. j \notin missed
    BY DEF ReloadIface, history
  <2>2. CASE j = i /\ reloadFlowChecks(i, m_tmp)
    <3>1. executor'[i].loader = m_tmp
      BY <2>2 DEF IInv, TypeOK, reloadFlowChecks
    <3> QED BY <2>2, <3>1 DEF Replaced, ReloadIface
  <2>3. CASE j # i
    <3>1. executor'[j] = executor[j]
      BY <2>3 DEF IInv, TypeOK, ReloadIface, reloadFlowChecks, execVars
    <3> QED BY <2>1, <2>3, <3>1 DEF IInv, ExecutorLoader, Replaced, ReloadIface
  <2> QED BY <2>2, <2>3 DEF ReloadIface
<1>5. NewLoaderLive'
  BY DEF IInv, NewLoaderLive, ReloadIface, reloadFlowChecks, history,
     pcapVars, ifaceVars, execVars
<1>6. RunningLive'
  BY DEF IInv, RunningLive, ReloadIface, reloadFlowChecks, history,
     pcapVars, ifaceVars, execVars
<1>7. NotStarted'
  BY DEF IInv, NotStarted, ReloadIface, reloadFlowChecks, history,
     pcapVars, ifaceVars, execVars, TypeOK
<1> QED BY <1>1, <1>2, <1>3, <1>4, <1>5, <1>6, <1>7 DEF IInv

\* The executors that were replaced and still run are those the sleep waits for.
LEMMA PublishPreserves ==
  ASSUME IInv, Publish
  PROVE  IInv'
<1>1. TypeOK'
  BY DEF IInv, TypeOK, Publish, history, pcapVars, ifaceVars, execVars,
     NewLoaderLive
<1>2. RunningKept'
  BY DEF IInv, RunningKept, Replaced, Awaited, Publish, history, pcapVars,
     ifaceVars, execVars, TypeOK, FirstLoad, NotStarted
<1>3. FirstLoad'
  BY DEF IInv, FirstLoad, Replaced, Publish, history, pcapVars, ifaceVars,
     execVars, TypeOK, NewLoaderLive
<1>4. ExecutorLoader'
  BY DEF IInv, ExecutorLoader, Replaced, Publish, history, pcapVars,
     ifaceVars, execVars, TypeOK, NotStarted
<1>5. NewLoaderLive'
  BY DEF IInv, NewLoaderLive, Publish, history, pcapVars, ifaceVars,
     execVars
<1>6. RunningLive'
  BY DEF IInv, RunningLive, Publish, history, pcapVars, ifaceVars,
     execVars
<1>7. NotStarted'
  BY DEF IInv, NotStarted, Publish, history, pcapVars, ifaceVars, execVars
<1> QED BY <1>1, <1>2, <1>3, <1>4, <1>5, <1>6, <1>7 DEF IInv

\* After the sleep every interface runs its present executor.
LEMMA DeletePreserves ==
  ASSUME IInv, DeleteOld
  PROVE  IInv'
<1>1. TypeOK'
  BY DEF IInv, TypeOK, DeleteOld, history, pcapVars, ifaceVars, execVars,
     FirstLoad
<1>2. RunningKept'
  BY DEF IInv, RunningKept, Replaced, Awaited, DeleteOld, history,
     pcapVars, ifaceVars, execVars
<1>3. FirstLoad'
  BY DEF IInv, FirstLoad, Replaced, DeleteOld, history, pcapVars,
     ifaceVars, execVars
<1>4. ExecutorLoader'
  BY DEF IInv, ExecutorLoader, Replaced, DeleteOld, history, pcapVars,
     ifaceVars, execVars
<1>5. NewLoaderLive'
  BY DEF IInv, NewLoaderLive, DeleteOld, history, pcapVars, ifaceVars,
     execVars
<1>6. RunningLive'
  BY DEF IInv, RunningLive, DeleteOld, history, pcapVars, ifaceVars,
     execVars, TypeOK, RunningKept, ExecutorLoader, FirstLoad, Replaced,
     Awaited
<1>7. NotStarted'
  BY DEF IInv, NotStarted, DeleteOld, history, pcapVars, ifaceVars,
     execVars
<1> QED BY <1>1, <1>2, <1>3, <1>4, <1>5, <1>6, <1>7 DEF IInv

\* A new interface runs nothing.
LEMMA RegisterPreserves ==
  ASSUME IInv, NEW i \in AllIfaces, registerInterface(i)
  PROVE  IInv'
<1>1. TypeOK'
  BY DEF IInv, TypeOK, registerInterface, history, pcapVars, mainVars,
     execVars
<1>2. RunningKept'
  BY DEF IInv, RunningKept, Replaced, Awaited, registerInterface, history,
     pcapVars, mainVars, execVars
<1>3. FirstLoad'
  BY DEF IInv, FirstLoad, Replaced, registerInterface, history, pcapVars,
     mainVars, execVars
<1>4. ExecutorLoader'
  BY DEF IInv, ExecutorLoader, Replaced, registerInterface, history,
     pcapVars, mainVars, execVars
<1>5. NewLoaderLive'
  BY DEF IInv, NewLoaderLive, registerInterface, history, pcapVars,
     mainVars, execVars
<1>6. RunningLive'
  BY DEF IInv, RunningLive, registerInterface, history, pcapVars,
     mainVars, execVars
<1>7. NotStarted'
  BY DEF IInv, NotStarted, registerInterface, history, pcapVars, mainVars,
     execVars
<1> QED BY <1>1, <1>2, <1>3, <1>4, <1>5, <1>6, <1>7 DEF IInv

\* An interface that is loaded late runs nothing yet.
LEMMA LoadPreserves ==
  ASSUME IInv, NEW i \in AllIfaces, LoadLate(i)
  PROVE  IInv'
<1>1. TypeOK'
  <2>1. [serial |-> executor[i].serial + 1, loader |-> checks_loader] \in Executors
    <3>1. executor[i].serial \in Nat /\ checks_loader \in Nat
      BY DEF IInv, TypeOK, Executors
    <3> QED BY <3>1 DEF Executors
  <2>2. /\ executor' \in [AllIfaces -> Executors]
        /\ prev_executor' \in [AllIfaces -> Executors]
    BY <2>1 DEF IInv, TypeOK, LoadLate, reloadFlowChecks, execVars
  <2> QED BY <2>2 DEF IInv, TypeOK, LoadLate, ifaceVars, pcapVars, mainVars,
                      history, AllIfaces
<1>2. RunningKept'
  BY DEF IInv, RunningKept, Replaced, Awaited, LoadLate, reloadFlowChecks,
     history, pcapVars, mainVars, execVars, TypeOK, NotStarted
<1>3. FirstLoad'
  BY DEF IInv, FirstLoad, Replaced, LoadLate, reloadFlowChecks, history,
     pcapVars, mainVars, execVars, TypeOK
<1>4. ExecutorLoader'
  <2> SUFFICES ASSUME NEW j \in AllIfaces, executor[j]' # NoExecutor, j \notin missed'
               PROVE  executor[j]'.loader = (IF Replaced(j) THEN m_tmp ELSE checks_loader)'
    BY DEF ExecutorLoader
  <2>1. j \notin missed
    BY DEF LoadLate, history
  <2>2. CASE j = i /\ reloadFlowChecks(i, checks_loader) /\ m_pc # "reload"
    <3>1. executor'[i].loader = checks_loader
      BY <2>2 DEF IInv, TypeOK, reloadFlowChecks
    <3> QED BY <2>2, <3>1 DEF Replaced, LoadLate, mainVars
  <2>3. CASE j # i \/ executor' = executor
    <3>1. executor'[j] = executor[j]
      BY <2>3 DEF IInv, TypeOK, LoadLate, reloadFlowChecks, execVars
    <3> QED BY <2>1, <2>3, <3>1 DEF IInv, ExecutorLoader, Replaced, LoadLate, mainVars
  <2> QED BY <2>2, <2>3 DEF LoadLate, execVars
<1>5. NewLoaderLive'
  BY DEF IInv, NewLoaderLive, LoadLate, reloadFlowChecks, history,
     pcapVars, mainVars, execVars
<1>6. RunningLive'
  BY DEF IInv, RunningLive, LoadLate, reloadFlowChecks, history, pcapVars,
     mainVars, execVars
<1>7. NotStarted'
  BY DEF IInv, NotStarted, LoadLate, reloadFlowChecks, history, pcapVars,
     mainVars, execVars, TypeOK
<1> QED BY <1>1, <1>2, <1>3, <1>4, <1>5, <1>6, <1>7 DEF IInv

\* An interface begins with its present executor.
LEMMA BeginPreserves ==
  ASSUME IInv, NEW i \in AllIfaces, ExecBegin(i)
  PROVE  IInv'
<1>1. TypeOK'
  BY DEF IInv, TypeOK, ExecBegin, history, pcapVars, ifaceVars, mainVars,
     execVars
<1>2. RunningKept'
  BY DEF IInv, RunningKept, Replaced, Awaited, ExecBegin, history,
     pcapVars, ifaceVars, mainVars, execVars, TypeOK
<1>3. FirstLoad'
  BY DEF IInv, FirstLoad, Replaced, ExecBegin, history, pcapVars,
     ifaceVars, mainVars, execVars
<1>4. ExecutorLoader'
  BY DEF IInv, ExecutorLoader, Replaced, ExecBegin, history, pcapVars,
     ifaceVars, mainVars, execVars
<1>5. NewLoaderLive'
  BY DEF IInv, NewLoaderLive, ExecBegin, history, pcapVars, ifaceVars,
     mainVars, execVars
<1>6. RunningLive'
  BY DEF IInv, RunningLive, ExecBegin, history, pcapVars, ifaceVars,
     mainVars, execVars, TypeOK, ExecutorLoader, FirstLoad, NewLoaderLive,
     Replaced
<1>7. NotStarted'
  BY DEF IInv, NotStarted, ExecBegin, history, pcapVars, ifaceVars,
     mainVars, execVars, TypeOK
<1> QED BY <1>1, <1>2, <1>3, <1>4, <1>5, <1>6, <1>7 DEF IInv

\* An execution that has ended is not waited for any more.
LEMMA EndPreserves ==
  ASSUME IInv, NEW i \in AllIfaces, ExecEnd(i)
  PROVE  IInv'
<1>1. TypeOK'
  BY DEF IInv, TypeOK, ExecEnd, history, pcapVars, ifaceVars, execVars,
     NoExecutor, Executors
<1>2. RunningKept'
  BY DEF IInv, RunningKept, Replaced, Awaited, ExecEnd, history, pcapVars,
     ifaceVars, execVars, TypeOK
<1>3. FirstLoad'
  BY DEF IInv, FirstLoad, Replaced, ExecEnd, history, pcapVars, ifaceVars,
     execVars
<1>4. ExecutorLoader'
  BY DEF IInv, ExecutorLoader, Replaced, ExecEnd, history, pcapVars,
     ifaceVars, execVars
<1>5. NewLoaderLive'
  BY DEF IInv, NewLoaderLive, ExecEnd, history, pcapVars, ifaceVars,
     execVars
<1>6. RunningLive'
  BY DEF IInv, RunningLive, ExecEnd, history, pcapVars, ifaceVars,
     execVars, TypeOK
<1>7. NotStarted'
  BY DEF IInv, NotStarted, ExecEnd, history, pcapVars, ifaceVars,
     execVars, TypeOK
<1> QED BY <1>1, <1>2, <1>3, <1>4, <1>5, <1>6, <1>7 DEF IInv

\* Nothing depends on what is not in vars.
LEMMA StutterPreserves ==
  ASSUME IInv, UNCHANGED vars
  PROVE  IInv'
BY DEF IInv, TypeOK, RunningKept, FirstLoad, ExecutorLoader, NewLoaderLive,
       RunningLive, NotStarted, Replaced, Awaited, vars, mainVars, ifaceVars,
       execVars, pcapVars, history

\* IInv holds in every reachable state.
LEMMA Inductive == Spec => []IInv
<1>1. Init => IInv
  <2> SUFFICES ASSUME Init PROVE IInv
    OBVIOUS
  <2>1. NoExecutor \in Executors
    BY DEF NoExecutor, Executors
  <2>2. /\ executor \in [AllIfaces -> Executors]
        /\ prev_executor \in [AllIfaces -> Executors]
        /\ running \in [AllIfaces -> Executors]
    BY <2>1 DEF Init
  <2>3. loaders \in Seq(0..MaxConfig) /\ Len(loaders) = 0
    BY DEF Init
  <2>4. TypeOK
    <3>1. config \in 0..MaxConfig /\ p_config \in 0..MaxConfig
      BY ReloadAssumption DEF Init
    <3>2. /\ live_loaders \subseteq DOMAIN loaders
          /\ checks_loader \in {0} \cup live_loaders /\ m_tmp \in 0..Len(loaders)
      BY <2>3 DEF Init
    <3>3. /\ m_done \subseteq iface /\ m_wait \subseteq iface
          /\ Ifaces \subseteq iface /\ iface \subseteq AllIfaces
          /\ loading \subseteq iface \cap LateIfaces /\ missed \subseteq AllIfaces
      BY DEF Init, AllIfaces
    <3> QED BY <2>2, <2>3, <3>1, <3>2, <3>3 DEF Init, TypeOK
  <2> QED BY <2>4 DEF Init, IInv, RunningKept, FirstLoad, ExecutorLoader,
                      NewLoaderLive, RunningLive, NotStarted
<1>2. IInv /\ [Next]_vars => IInv'
  BY OtherPreserves, InitializePreserves, ReloadPreserves, PublishPreserves,
     DeletePreserves, RegisterPreserves, LoadPreserves, BeginPreserves,
     EndPreserves, StutterPreserves DEF Next, MainThread
<1> QED BY <1>1, <1>2, PTL DEF Spec

\* The executor an interface runs is its present or its previous one, which are not
\* deleted, and the checks in it are not deleted, whatever the reloads and the
\* requests that arrive meanwhile, unless a reload missed the interface
\* (reloadFlowChecks() and checkReloadFlowChecks()).
THEOREM RunningChecksLive == Spec => []ChecksLive
<1>1. IInv => ChecksLive
  BY DEF IInv, ChecksLive, RunningKept, RunningLive
<1> QED BY <1>1, Inductive, PTL
=============================================================================
