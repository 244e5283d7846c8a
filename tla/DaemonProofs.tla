---------------------------- MODULE DaemonProofs ----------------------------
(***************************************************************************)
(* Proofs about Daemon.  Crashes, restarts, recovery and drains do to the  *)
(* tables nothing that TaskStore does not allow.  So what TaskStoreProofs  *)
(* proves of the store holds over the whole life of the data base, however *)
(* many daemons serve it one after the other.                              *)
(***************************************************************************)
EXTENDS Daemon, SchedulerProofs, TaskStoreTables

DaemonInv == SchedulerInv /\ DaemonTypeOK

\* The main thread and the worker are threads.
LEMMA DaemonThreads ==
  /\ Main \in Threads /\ Worker \in Threads
  /\ \A c \in Hosts : c \in Callers
  BY DaemonAssumption DEF Main, Worker, Threads, Hosts

\* The row that the startup reads is a row.
LEMMA RowOK == TypeOK => row \in Row
  BY Constants DEF TypeOK, row

LEMMA AbsentOK == TypeOK => AbsentRow \in Row
  BY Constants DEF TypeOK, Row, AbsentRow, Phases, TurnStates

\* A daemon that ends leaves no thread and nothing in memory.
LEMMA EndedOK ==
  ASSUME TypeOK, DaemonInv, Ended, UNCHANGED proc, crashes' \in 0..MaxCrashes
  PROVE  DaemonInv'
<1>1. ThreadsOK'
  BY IdleOK DEF Ended, ThreadsOK
<1>2. MemoryOK'
  BY Constants DEF Ended, DaemonInv, SchedulerInv, MemoryOK, Lives, Owners,
     Terminals, Turns, Sink
<1>3. DaemonTypeOK'
  BY AbsentOK, Zenon DEF Ended, DaemonTypeOK
<1> QED
  BY <1>1, <1>2, <1>3 DEF DaemonInv, SchedulerInv

\* A thread that stops a task does what a caller of cancel or close does.
LEMMA ThreadActs ==
  ASSUME TypeOK, SchedulerInv, NEW t \in Threads,
         Finish(t) \/ Deliver(t) \/ Control(t)
  PROVE  SchedulerInv' /\ [Next]_vars
<1>1. CASE Finish(t)
  BY <1>1, FinishStores, FinishThreads, FinishMemory DEF SchedulerInv
<1>2. CASE Deliver(t)
  BY <1>2, ARun, DeliverStores, DeliverThreads, MonitorMemory DEF SchedulerInv
<1>3. CASE Control(t)
  BY <1>3, ControlStores, ControlThreads, CallerMemory DEF SchedulerInv
<1> QED
  BY <1>1, <1>2, <1>3

LEMMA StopsActs ==
  ASSUME TypeOK, SchedulerInv, NEW t \in Threads, NEW close, Stops(t, close)
  PROVE  SchedulerInv' /\ [Next]_vars
<1>1. Finish(t) \/ Deliver(t) \/ Control(t)
  BY Zenon DEF Stops, ThreadStep, Control
<1> QED
  BY <1>1, ThreadActs

LEMMA LookUpActs ==
  ASSUME TypeOK, SchedulerInv, NEW t \in Threads, LookUp(t)
  PROVE  SchedulerInv' /\ UNCHANGED vars
<1>1. Control(t)
  BY DEF Control
<1> QED
  BY <1>1, ThreadActs DEF LookUp

\* What the daemon itself does not change.
LEMMA Unmoved ==
  ASSUME SchedulerInv, UNCHANGED <<th, memory>> PROVE SchedulerInv'
  BY DEF SchedulerInv, ThreadsOK, MemoryOK, memory

LEMMA SvarsUnmoved ==
  ASSUME SchedulerInv, UNCHANGED svars PROVE SchedulerInv' /\ UNCHANGED vars
  BY Unmoved DEF svars

LEMMA DvarsUnmoved == ASSUME DaemonTypeOK, UNCHANGED dvars PROVE DaemonTypeOK'
  BY DEF DaemonTypeOK, dvars

LEMMA ContinueStartOK ==
  ASSUME DaemonTypeOK,
         NEW place \in {"recover", "finish", "reap", "settle", "serve"},
         ContinueStart(place)
  PROVE  DaemonTypeOK'
  BY DEF DaemonTypeOK, ContinueStart

LEMMA AdminGoesOK ==
  ASSUME DaemonTypeOK,
         NEW place \in {"idle", "sweep", "straggler", "swept", "list", "ids",
                        "cancelling", "active", "rows", "claim"},
         AdminGoes(place)
  PROVE  DaemonTypeOK'
  BY DEF DaemonTypeOK, AdminGoes
-----------------------------------------------------------------------------
(* The steps, one lemma for each part of the daemon                        *)

LEMMA EndSteps ==
  ASSUME TypeOK, DaemonInv,
         \/ Crash \/ Shutdown \/ ShutdownAll \/ CloseTask \/ Exit
         \/ CannotStop \/ RefuseReap \/ AbandonStart
  PROVE  DaemonInv' /\ [Next]_vars
<1>0. SchedulerInv /\ DaemonTypeOK /\ MaxCrashes \in Nat
  BY DaemonAssumption DEF DaemonInv
<1>1. CASE Crash
  <2>1. crashes' \in 0..MaxCrashes
    BY <1>0, <1>1 DEF DaemonTypeOK, Crash
  <2> QED
    BY <1>1, <2>1, EndedOK DEF Crash
<1>2. CASE Exit \/ CannotStop \/ RefuseReap \/ AbandonStart
  <2>1. Ended /\ UNCHANGED <<vars, proc, crashes>>
    BY <1>2 DEF Exit, CannotStop, RefuseReap, AbandonStart, FailStart
  <2>2. crashes' \in 0..MaxCrashes
    BY <1>0, <2>1 DEF DaemonTypeOK
  <2> QED
    BY <2>1, <2>2, EndedOK
<1>3. CASE Shutdown \/ ShutdownAll
  <2>1. UNCHANGED svars /\ DaemonTypeOK'
    BY <1>0, <1>3 DEF DaemonTypeOK, Shutdown, ShutdownAll
  <2> QED
    BY <1>0, <2>1, SvarsUnmoved DEF DaemonInv
<1>4. CASE CloseTask
  <2>1. DaemonTypeOK'
    BY <1>0, <1>4 DEF DaemonTypeOK, CloseTask
  <2> QED
    BY <1>0, <1>4, <2>1, DaemonThreads, LookUpActs DEF CloseTask, DaemonInv
<1> QED
  BY <1>1, <1>2, <1>3, <1>4

LEMMA RecoverySteps ==
  ASSUME TypeOK, DaemonInv, StartUp \/ Recover
  PROVE  DaemonInv' /\ [Next]_vars
<1>0. SchedulerInv /\ DaemonTypeOK /\ ThreadsOK
  BY DEF DaemonInv, SchedulerInv
<1>1. CASE StartUp
  <2>1. UNCHANGED svars
    BY <1>1 DEF StartUp
  <2>2. DaemonTypeOK'
    BY <1>0, <1>1, RowOK, AbsentOK DEF DaemonTypeOK, StartUp
  <2> QED
    BY <1>0, <2>1, <2>2, SvarsUnmoved DEF DaemonInv
<1>2. CASE CancelFenced
  <2>1. DaemonTypeOK'
    BY <1>0, <1>2, ContinueStartOK DEF CancelFenced
  <2> QED
    BY <1>0, <1>2, <2>1, DaemonThreads, LookUpActs DEF CancelFenced, DaemonInv
<1>3. CASE FinishNeverClaimed
  <2>1. DaemonTypeOK' /\ UNCHANGED memory
    BY <1>0, <1>3, ContinueStartOK DEF FinishNeverClaimed
  <2>2. MemoryOK'
    BY <1>0, <2>1 DEF SchedulerInv, MemoryOK, memory
  <2>3. CASE Becomes(Main, Unstarted(Main, "CANCELLED", "persist")) /\ UNCHANGED vars
    <3>1. ThreadsOK'
      BY <1>0, <2>3, DaemonThreads, ResultNames, UnstartedOK, BecomesOK
    <3> QED
      BY <2>1, <2>2, <2>3, <3>1 DEF DaemonInv, SchedulerInv
  <2>4. CASE /\ StoreTaskResultWithReason(Task, [outcome |-> "CANCELLED", text |-> "unstarted"])
             /\ UNCHANGED th
    <3>1. ThreadsOK'
      BY <1>0, <2>4 DEF ThreadsOK
    <3>2. Next
      BY <2>4, ResultNames, ResultCall
    <3> QED
      BY <2>1, <2>2, <3>1, <3>2 DEF DaemonInv, SchedulerInv
  <2> QED
    BY Zenon, <1>3, <2>3, <2>4 DEF FinishNeverClaimed
<1>4. CASE StopPersisted
  <2>1. DaemonTypeOK' /\ UNCHANGED vars
    BY <1>0, <1>4, ContinueStartOK DEF StopPersisted
  <2>2. MemoryOK'
    BY <1>0, <1>4, Zenon DEF SchedulerInv, MemoryOK, StopPersisted, Processes
  <2>3. ThreadsOK'
    BY <1>0, <1>4 DEF StopPersisted, ThreadsOK
  <2> QED
    BY <2>1, <2>2, <2>3 DEF DaemonInv, SchedulerInv
<1>5. CASE NothingToStop \/ Settled
  <2>1. UNCHANGED svars /\ DaemonTypeOK'
    BY <1>0, <1>5, ContinueStartOK DEF NothingToStop, Settled
  <2> QED
    BY <1>0, <2>1, SvarsUnmoved DEF DaemonInv
<1>6. CASE FinishRecovered \/ ReapRecovered
  <2>1. UNCHANGED <<th, memory>> /\ DaemonTypeOK'
    BY <1>0, <1>6, ContinueStartOK DEF FinishRecovered, ReapRecovered
  <2>2. Next
    <3>1. ReapTask(Task) => Next
      BY TaskCall DEF TaskStep
    <3>2. ASSUME NEW outcome \in {"CANCELLED", "RUNTIME_LOST", "RESULT_INVALID"},
                 StoreTaskResultWithReason(Task, [outcome |-> outcome, text |-> "unstarted"])
          PROVE  Next
      BY <3>2, ResultNames, ResultCall
    <3> QED
      BY ZenonT(40), <1>6, <3>1, <3>2 DEF FinishRecovered, ReapRecovered
  <2> QED
    BY <1>0, <2>1, <2>2, Unmoved, SMTT(30) DEF DaemonInv
<1>7. CASE Serve
  <2>1. UNCHANGED svars /\ DaemonTypeOK'
    BY <1>0, <1>7, AbsentOK DEF DaemonTypeOK, Serve
  <2> QED
    BY <1>0, <2>1, SvarsUnmoved DEF DaemonInv
<1> QED
  BY <1>1, <1>2, <1>3, <1>4, <1>5, <1>6, <1>7 DEF Recover

LEMMA DrainSteps ==
  ASSUME TypeOK, DaemonInv,
         \/ BeginDrain \/ AbortDrain \/ BeginActivation \/ Manage
         \/ WorkerCancels \/ WorkerDone
  PROVE  DaemonInv' /\ [Next]_vars
<1>0. SchedulerInv /\ DaemonTypeOK
  BY DEF DaemonInv
<1>1. CASE BeginDrain \/ AbortDrain \/ StartWorker \/ ListUnfinished \/ WorkerDone \/ ClaimActivation
  <2>1. UNCHANGED svars /\ DaemonTypeOK'
    BY <1>0, <1>1, Zenon DEF DaemonTypeOK, BeginDrain, AbortDrain, StartWorker,
       ListUnfinished, WorkerDone, ClaimActivation
  <2> QED
    BY <1>0, <2>1, SvarsUnmoved, SMTT(30) DEF DaemonInv
<1>2. CASE BeginActivation \/ Sweep \/ Drained \/ ReadReadiness
  <2>1. UNCHANGED svars /\ DaemonTypeOK'
    BY <1>0, <1>2, AdminGoesOK DEF BeginActivation, Sweep, Drained, ReadReadiness
  <2> QED
    BY <1>0, <2>1, SvarsUnmoved DEF DaemonInv
<1>3. CASE ReapStraggler
  <2>1. UNCHANGED <<th, memory>> /\ DaemonTypeOK'
    BY <1>0, <1>3, AdminGoesOK DEF ReapStraggler
  <2>2. [Next]_vars
    BY <1>3, TaskCall DEF ReapStraggler, TaskStep
  <2> QED
    BY <1>0, <2>1, <2>2, Unmoved DEF DaemonInv
<1>4. CASE FenceQueued
  <2>1. UNCHANGED <<th, memory>> /\ DaemonTypeOK'
    BY <1>0, <1>4, AdminGoesOK DEF FenceQueued
  <2>2. Next
    BY <1>4 DEF FenceQueued, Next
  <2> QED
    BY <1>0, <2>1, <2>2, Unmoved DEF DaemonInv
<1>5. CASE WorkerCancels
  <2>1. DaemonTypeOK'
    BY <1>0, <1>5 DEF DaemonTypeOK, WorkerCancels
  <2> QED
    BY <1>0, <1>5, <2>1, DaemonThreads, LookUpActs DEF WorkerCancels, DaemonInv
<1> QED
  BY <1>1, <1>2, <1>3, <1>4, <1>5 DEF Manage

LEMMA ServedSteps ==
  ASSUME TypeOK, DaemonInv,
         \/ WorkerStops \/ MainStops \/ SubmitServed
         \/ \E e \in Runs : StartReadyServed(e) \/ RunMoves(e) \/ RuntimeMoves(e)
         \/ \E c \in Hosts : HostMoves(c)
  PROVE  DaemonInv' /\ [Next]_vars
<1>0. SchedulerInv /\ DaemonTypeOK /\ DaemonTypeOK'
  BY DvarsUnmoved, Zenon DEF DaemonInv, WorkerStops, MainStops, SubmitServed,
     StartReadyServed, RunMoves, RuntimeMoves, HostMoves
<1>1. CASE WorkerStops \/ MainStops
  BY <1>0, <1>1, DaemonThreads, StopsActs, Zenon DEF WorkerStops, MainStops, DaemonInv
<1>2. CASE /\ ~(WorkerStops \/ MainStops)
  <2>1. SchedulerNext
    BY Zenon, <1>2, DaemonThreads DEF SchedulerNext, SubmitServed, StartReadyServed,
       RunMoves, RuntimeMoves, HostMoves
  <2> QED
    BY <1>0, <2>1, SchedulerStep DEF DaemonInv
<1> QED
  BY <1>1, <1>2
-----------------------------------------------------------------------------
(* The theorems                                                            *)

LEMMA DaemonInvInit == DaemonInit => Init /\ TypeOK /\ DaemonInv
<1> SUFFICES ASSUME DaemonInit PROVE Init /\ TypeOK /\ DaemonInv
  OBVIOUS
<1>1. Init /\ TypeOK /\ SchedulerInv
  BY TypeInit, SchedulerInvInit DEF DaemonInit, SchedulerInit
<1>2. 0 \in 0..MaxCrashes
  BY DaemonAssumption
<1>3. DaemonTypeOK
  BY Zenon, <1>1, <1>2, AbsentOK DEF DaemonInit, DaemonTypeOK
<1> QED
  BY <1>1, <1>3 DEF DaemonInv

LEMMA DaemonStep ==
  TypeOK /\ DaemonInv /\ [DaemonNext]_allvars => (TypeOK /\ DaemonInv)' /\ [Next]_vars
<1> SUFFICES ASSUME TypeOK, DaemonInv, [DaemonNext]_allvars
             PROVE  DaemonInv' /\ [Next]_vars
  BY TypeStep
<1>1. CASE DaemonNext
  BY Zenon, <1>1, EndSteps, RecoverySteps, DrainSteps, ServedSteps DEF DaemonNext
<1>2. CASE UNCHANGED allvars
  BY <1>2, SvarsUnmoved, DvarsUnmoved DEF allvars, DaemonInv
<1> QED
  BY <1>1, <1>2

\* The startup, the shutdown and the drain of the daemon are where their code
\* can be, and what the startup has read is a row of the table.
THEOREM DaemonTypeCorrect == DaemonSpec => []DaemonTypeOK
<1>1. DaemonInv => DaemonTypeOK
  BY DEF DaemonInv
<1> QED
  BY <1>1, DaemonInvInit, DaemonStep, PTL DEF DaemonSpec

\* Whenever the daemon is killed, restarted, drained or shut down, the tables
\* go through a behaviour of TaskStore.
THEOREM DaemonImplementsStore == DaemonSpec => Spec
  BY DaemonInvInit, DaemonStep, PTL DEF DaemonSpec, Spec

\* A recorded stop or close intent survives crashes and startup recovery: the
\* task can only end cancelled.
THEOREM CancellationSurvives == DaemonSpec => IntentWins
  BY DaemonImplementsStore, CancellationWins, PTL

\* No message is handed over again after a restart.
THEOREM NoReplayAcrossRestarts == DaemonSpec => NeverReplayed
  BY DaemonImplementsStore, NoReplay, PTL

\* Phase, result, messages, requests, runtime and events of a task agree in
\* every state the threads, crashes and startup recovery lead to.
THEOREM TablesAgreeAcrossRestarts == DaemonSpec => []TablesAgree
  BY DaemonImplementsStore, StoreTablesAgree, PTL

\* Neither recovery nor a drain changes a result that was stored, and none of
\* them completes a task that still has a message or a request.
THEOREM NothingForgottenAcrossRestarts == DaemonSpec => NothingForgotten
  BY DaemonImplementsStore, StoreForgetsNothing, PTL
=============================================================================
