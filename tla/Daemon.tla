------------------------------- MODULE Daemon -------------------------------
(***************************************************************************)
(* The process that runs the scheduler (daemon.rs, main.rs): it crashes or *)
(* is shut down, restarts, reconciles what it finds in the store before it *)
(* serves anybody (scheduler/recovery.rs), and is drained before an        *)
(* upgrade (scheduler/admission.rs, rpc/handlers.rs).  The tables and the  *)
(* process groups outlive the daemon, its threads and memory do not.  Two  *)
(* more threads call the scheduler: the main thread, which cancels fenced  *)
(* tasks at startup and closes active ones at shutdown, and the worker of  *)
(* a drain that cancels.                                                   *)
(***************************************************************************)
EXTENDS Scheduler

CONSTANTS
  MaxCrashes,   \* bound: how often the daemon is killed
  Requests      \* the management requests it gets, of AllRequests

AllRequests == {"drain", "cancel", "abort", "activate", "shutdown"}

ASSUME DaemonAssumption ==
  /\ MaxCrashes \in Nat
  /\ Requests \subseteq AllRequests
  /\ {"main", "worker"} \subseteq Callers

VARIABLES
  daemon,     \* the process: "down", "starting", "up" or "closing"
  crashes,    \* how often it was killed
  main,       \* where the main thread is in startup and shutdown
  admin,      \* where the handler of a management request is
  seen,       \* the row as reconcile_startup read it
  draining,   \* admission is closed
  worker,     \* the drain-cancel worker: "off", "on", "listed", "busy"
  claimed     \* the activation claim was handed out

dvars == <<daemon, crashes, main, admin, seen, draining, worker, claimed>>
allvars == <<svars, dvars>>

Main == Caller("main")
Worker == Caller("worker")
Sender == Caller("send")

DaemonTypeOK ==
  /\ daemon \in {"down", "starting", "up", "closing"}
  /\ crashes \in 0..MaxCrashes
  /\ main \in {"idle", "recover", "finish", "reap", "settle", "serve", "close"}
  /\ admin \in {"idle", "sweep", "straggler", "swept", "list", "ids",
                "cancelling", "active", "rows", "claim"}
  /\ seen \in Row
  /\ draining \in BOOLEAN /\ claimed \in BOOLEAN
  /\ worker \in {"off", "on", "listed", "busy"}

DaemonInit ==
  /\ SchedulerInit
  /\ daemon = "up" /\ crashes = 0 /\ main = "idle" /\ admin = "idle"
  /\ seen = AbsentRow
  /\ draining = FALSE /\ worker = "off" /\ claimed = FALSE
-----------------------------------------------------------------------------
(* The end of the process: the rows and the process groups stay.  A run    *)
(* that was claimed has no gate, publisher or sink any more.               *)

Past(e) == e <= row.owner_epoch

Ended ==
  /\ daemon' = "down"
  /\ th' = [t \in Threads |-> IdleThread]
  /\ active' = 0 /\ starting' = 0
  /\ life' = [e \in Runs |-> IF Past(e) THEN "terminal" ELSE "running"]
  /\ owner' = [e \in Runs |-> IF Past(e) THEN "Lost" ELSE "running"]
  /\ turn' = [e \in Runs |-> "none"]
  /\ op' = [e \in Runs |-> Nobody]
  /\ sink' = [e \in Runs |-> [writer |-> "nobody", error |-> FALSE,
                              fault |-> FALSE, written |-> FALSE]]
  /\ main' = "idle" /\ admin' = "idle" /\ seen' = AbsentRow
  /\ draining' = FALSE /\ worker' = "off" /\ claimed' = FALSE

Crash ==
  /\ daemon # "down"
  /\ crashes < MaxCrashes
  /\ Ended
  /\ crashes' = crashes + 1
  /\ UNCHANGED <<vars, proc>>

\* SIGTERM: the servers and the claim loop end, then every run in the active
\* slot is closed, then the process exits whatever its other threads do.
Shutdown ==
  /\ "shutdown" \in Requests
  /\ daemon = "up"
  /\ daemon' = "closing"
  /\ UNCHANGED <<svars, crashes, main, admin, seen, draining, worker, claimed>>

ShutdownAll ==
  /\ daemon = "closing" /\ main = "idle"
  /\ active # 0
  /\ main' = "close"
  /\ UNCHANGED <<svars, daemon, crashes, admin, seen, draining, worker, claimed>>

CloseTask ==
  /\ main = "close"
  /\ LookUp(Main)
  /\ main' = "settle"
  /\ UNCHANGED <<daemon, crashes, admin, seen, draining, worker, claimed>>

Exit ==
  /\ daemon = "closing"
  /\ \/ main = "idle" /\ active = 0
     \/ main = "settle" /\ At(Main, "idle")
  /\ Ended
  /\ UNCHANGED <<vars, proc, crashes>>
-----------------------------------------------------------------------------
(* Startup: reconcile_startup, before the servers and the claim loop.  An  *)
(* error ends the process, which its service manager starts again.         *)

\* Faulty variant: the query forgets the tasks that were running.
RecoverableUnstarted(r) ==
  \/ r.phase \in {"PREPARING", "CANCELLING"}
  \/ r.phase = "QUEUED" /\ r.stop_requested
  \/ r.phase = "TERMINAL" /\ ~r.reaped_at

\* Faulty variant: a queued task that a drain fenced waits for its claim.
RecoverableUnfenced(r) ==
  \/ r.phase \in ActivePhases
  \/ r.phase = "TERMINAL" /\ ~r.reaped_at

\* startup_recovery_tasks
Recoverable(r) ==
  \/ r.phase \in ActivePhases
  \/ r.phase = "QUEUED" /\ r.stop_requested
  \/ r.phase = "TERMINAL" /\ ~r.reaped_at

Identified(r) == r.runtime_agent_id # 0 /\ r.process_identity
Unidentified(r) == r.runtime_agent_id = 0 /\ ~r.process_identity

\* A drain fenced it, or a cancellation of a task that was never claimed was
\* cut short.
FencedQueued(r) == r.phase = "QUEUED" /\ r.stop_requested /\ Unidentified(r)
NeverClaimed(r) ==
  /\ r.phase = "CANCELLING" /\ r.owner_epoch = 0 /\ ~r.session_id
  /\ r.stop_requested /\ Unidentified(r)

StartUp ==
  /\ daemon = "down"
  /\ daemon' = "starting"
  /\ main' = IF Recoverable(row) THEN "recover" ELSE "serve"
  /\ seen' = IF Recoverable(row) THEN row ELSE AbsentRow
  /\ UNCHANGED <<svars, crashes, admin, draining, worker, claimed>>

FailStart == Ended /\ UNCHANGED <<vars, proc, crashes>>
ContinueStart(place) ==
  main' = place /\ UNCHANGED <<daemon, crashes, admin, seen, draining, worker, claimed>>

CancelFenced ==
  /\ main = "recover"
  /\ FencedQueued(seen)
  /\ LookUp(Main)
  /\ ContinueStart("settle")

\* A launch that does not decode gets its result and no receipt.
FinishNeverClaimed ==
  /\ main = "recover"
  /\ NeverClaimed(seen)
  /\ \/ /\ Becomes(Main, Unstarted(Main, "CANCELLED", "persist"))
        /\ UNCHANGED vars
     \/ /\ "prepare" \in Faults
        /\ StoreTaskResultWithReason(Task, [outcome |-> "CANCELLED", text |-> "unstarted"])
        /\ UNCHANGED th
  /\ UNCHANGED memory
  /\ ContinueStart("settle")

ByIdentity(r) == ~FencedQueued(r) /\ ~NeverClaimed(r)

\* Faulty variants: the row is finished and the group left alone; a group that
\* is gone already is an error.
StopPersistedUnsent ==
  /\ main = "recover"
  /\ ByIdentity(seen) /\ Identified(seen)
  /\ UNCHANGED svars
  /\ ContinueStart("finish")


\* stop_and_reap_persisted_process_group: the group of the stored identity is
\* signalled until it is gone, or the startup fails.
StopPersisted ==
  /\ main = "recover"
  /\ ByIdentity(seen) /\ Identified(seen)
  /\ proc' = [proc EXCEPT ![seen.runtime_agent_id] = "dead"]
  /\ UNCHANGED <<vars, th, active, starting, life, owner, turn, op, sink>>
  /\ ContinueStart("finish")

CannotStop ==
  /\ main = "recover"
  /\ "unproven" \in Faults
  /\ ByIdentity(seen) /\ Identified(seen)
  /\ FailStart

\* Without an identity there is nothing to stop.
NothingToStop ==
  /\ main = "recover"
  /\ ByIdentity(seen) /\ Unidentified(seen) /\ seen.phase \in {"PREPARING", "TERMINAL"}
  /\ UNCHANGED svars
  /\ ContinueStart("finish")

RefuseReap ==
  /\ main = "recover"
  /\ ByIdentity(seen) /\ ~Identified(seen)
  /\ ~(Unidentified(seen) /\ seen.phase \in {"PREPARING", "TERMINAL"})
  /\ FailStart

\* A finished row gets its receipt; an unfinished one its result first.
FinishRecovered ==
  /\ main = "finish"
  /\ UNCHANGED <<th, memory>>
  /\ \/ /\ seen.phase = "TERMINAL"
        /\ ReapTask(Task)
        /\ ContinueStart("serve")
     \/ /\ seen.phase # "TERMINAL"
        /\ StoreTaskResultWithReason(Task,
             [outcome |-> IF Intent(seen) THEN "CANCELLED" ELSE "RUNTIME_LOST",
              text |-> "unstarted"])
        /\ ContinueStart("reap")
     \/ /\ seen.phase # "TERMINAL" /\ "prepare" \in Faults
        /\ StoreTaskResultWithReason(Task,
             [outcome |-> IF Intent(seen) THEN "CANCELLED" ELSE "RESULT_INVALID",
              text |-> "unstarted"])
        /\ ContinueStart("serve")

ReapRecovered ==
  /\ main = "reap"
  /\ ReapTask(Task)
  /\ UNCHANGED <<th, memory>>
  /\ ContinueStart("serve")

Settled ==
  /\ daemon = "starting" /\ main = "settle"
  /\ At(Main, "idle")
  /\ row.outcome # None
  /\ UNCHANGED svars
  /\ ContinueStart("serve")

\* A SIGTERM during the startup is looked at before the servers come up.
AbandonStart ==
  /\ "shutdown" \in Requests
  /\ main = "serve"
  /\ FailStart

Serve ==
  /\ main = "serve"
  /\ daemon' = "up" /\ main' = "idle" /\ seen' = AbsentRow
  /\ UNCHANGED <<svars, crashes, admin, draining, worker, claimed>>

Recover ==
  \/ CancelFenced \/ FinishNeverClaimed \/ StopPersisted \/ NothingToStop
  \/ FinishRecovered \/ ReapRecovered \/ Settled \/ Serve
-----------------------------------------------------------------------------
(* Drain.  begin_drain, abort_drain, enqueue and send_message take the     *)
(* admission lock; a sender holds it to the end of its call.               *)

AdmissionFree == "send" \in Callers => At(Sender, "idle")

AdminGoes(place) ==
  admin' = place /\ UNCHANGED <<daemon, crashes, main, seen, draining, worker, claimed>>

BeginDrain ==
  /\ "drain" \in Requests
  /\ daemon = "up" /\ admin = "idle"
  /\ AdmissionFree
  /\ draining' = TRUE
  /\ admin' = "sweep"
  /\ UNCHANGED <<svars, daemon, crashes, main, seen, worker, claimed>>

\* reap_terminal_stragglers: a row without an identity counts as one whose
\* process is gone; a recorded group is observed.
Straggler(r) ==
  /\ r.phase = "TERMINAL" /\ ~r.reaped_at
  /\ \/ Unidentified(r)
     \/ Identified(r) /\ proc[r.runtime_agent_id] # "alive"

Sweep ==
  /\ admin = "sweep"
  /\ AdminGoes(IF Straggler(row) THEN "straggler" ELSE "swept")
  /\ UNCHANGED svars

ReapStraggler ==
  /\ admin = "straggler"
  /\ IF row.phase = "TERMINAL" THEN ReapTask(Task) ELSE UNCHANGED vars
  /\ AdminGoes("swept")
  /\ UNCHANGED <<th, memory>>

Drained ==
  /\ admin = "swept"
  /\ AdminGoes("idle")
  /\ UNCHANGED svars

\* cancel_draining_tasks: queued tasks are fenced off the claim loop first,
\* then a single worker cancels what is unfinished.
FenceQueued ==
  /\ "cancel" \in Requests
  /\ admin = "swept"
  /\ FenceQueuedCancellation
  /\ AdminGoes("list")
  /\ UNCHANGED <<th, memory>>

StartWorker ==
  /\ admin = "list"
  /\ IF worker # "off"
       THEN admin' = "idle" /\ UNCHANGED worker
       ELSE admin' = "ids" /\ worker' = "on"
  /\ UNCHANGED <<svars, daemon, crashes, main, seen, draining, claimed>>

ListUnfinished ==
  /\ admin = "ids"
  /\ admin' = "idle"
  /\ worker' = IF row.phase \in NonterminalPhases THEN "listed" ELSE "busy"
  /\ UNCHANGED <<svars, daemon, crashes, main, seen, draining, claimed>>

WorkerCancels ==
  /\ worker = "listed"
  /\ LookUp(Worker)
  /\ worker' = "busy"
  /\ UNCHANGED <<daemon, crashes, main, admin, seen, draining, claimed>>

WorkerDone ==
  /\ worker = "busy"
  /\ At(Worker, "idle")
  /\ worker' = "off"
  /\ UNCHANGED <<svars, daemon, crashes, main, admin, seen, draining, claimed>>

AbortDrain ==
  /\ "abort" \in Requests
  /\ daemon = "up"
  /\ AdmissionFree
  /\ draining /\ worker = "off"
  /\ draining' = FALSE
  /\ UNCHANGED <<svars, daemon, crashes, main, admin, seen, worker, claimed>>

\* claim_activation: readiness is four reads, and the claim comes after them.
BeginActivation ==
  /\ "activate" \in Requests
  /\ daemon = "up" /\ admin = "idle"
  /\ draining
  /\ AdminGoes("cancelling")
  /\ UNCHANGED svars


ReadReadiness ==
  /\ \/ admin = "cancelling" /\ AdminGoes(IF worker = "off" THEN "active" ELSE "idle")
     \/ admin = "active" /\ AdminGoes(IF active = 0 THEN "rows" ELSE "idle")
     \/ admin = "rows" /\ AdminGoes(IF AllTasksReaped THEN "claim" ELSE "idle")
  /\ UNCHANGED svars

ClaimActivation ==
  /\ admin = "claim"
  /\ claimed' = TRUE
  /\ admin' = "idle"
  /\ UNCHANGED <<svars, daemon, crashes, main, seen, draining, worker>>

Manage ==
  \/ Sweep \/ ReapStraggler \/ Drained \/ FenceQueued \/ StartWorker
  \/ ListUnfinished \/ ReadReadiness \/ ClaimActivation
-----------------------------------------------------------------------------
\* The rest of cancel_task or close_task.
Stops(t, close) ==
  \/ ThreadStep(t) \/ Shut(t) \/ Abandon(t) \/ LockForStop(t) \/ Route(t)
  \/ Ask(t) /\ tasks'[Task].closed_at = (close \/ row.closed_at)

MainStops == Stops(Main, daemon = "closing") /\ UNCHANGED dvars
WorkerStops == Stops(Worker, FALSE) /\ UNCHANGED dvars

\* A call that begins needs the servers, and admission if it sends.
Served(c) ==
  At(Caller(c), "idle") => daemon = "up" /\ (c = "send" => ~draining)

Hosts == Callers \ {"main", "worker"}

SubmitServed == daemon = "up" /\ ~draining /\ Submit /\ UNCHANGED dvars
\* Faulty variant: the claim loop stops claiming during a drain.
StartReadyAdmitted(e) ==
  daemon = "up" /\ ~draining /\ StartReady(e) /\ UNCHANGED dvars

StartReadyServed(e) == daemon = "up" /\ StartReady(e) /\ UNCHANGED dvars
RunMoves(e) == RunStep(e) /\ UNCHANGED dvars
RuntimeMoves(e) == Runtime(e) /\ UNCHANGED dvars
HostMoves(c) == Served(c) /\ CallerStep(c) /\ UNCHANGED dvars

DaemonNext ==
  \/ Crash \/ Shutdown \/ ShutdownAll \/ CloseTask \/ Exit
  \/ StartUp \/ Recover \/ CannotStop \/ RefuseReap \/ AbandonStart
  \/ BeginDrain \/ AbortDrain \/ BeginActivation \/ Manage
  \/ WorkerCancels \/ WorkerDone \/ WorkerStops \/ MainStops
  \/ SubmitServed
  \/ \E e \in Runs : StartReadyServed(e) \/ RunMoves(e) \/ RuntimeMoves(e)
  \/ \E c \in Hosts : HostMoves(c)

DaemonSpec == DaemonInit /\ [][DaemonNext]_allvars

\* The service manager starts the daemon again, its threads go on, and a
\* group that is signalled at every start is gone in the end.
DaemonFairness ==
  /\ WF_allvars(StartUp) /\ WF_allvars(Recover \/ CannotStop \/ RefuseReap)
  /\ SF_allvars(StopPersisted)
  /\ WF_allvars(ShutdownAll \/ CloseTask \/ Exit) /\ WF_allvars(MainStops)
  /\ WF_allvars(Manage)
  /\ WF_allvars(WorkerCancels \/ WorkerDone) /\ WF_allvars(WorkerStops)
  /\ \A e \in Runs :
       /\ WF_allvars(StartReadyServed(e)) /\ WF_allvars(RunMoves(e))
       /\ WF_allvars((InsertRequest(e) \/ DropRequest(e)) /\ UNCHANGED dvars)
       /\ WF_allvars(PublishExit(e) /\ UNCHANGED dvars)
  /\ \A c \in Hosts : WF_allvars(~At(Caller(c), "idle") /\ HostMoves(c))

FairDaemon == DaemonSpec /\ DaemonFairness

\* Runtimes that end the turns they were given.
FairTurns == FairDaemon /\ \A e \in Runs : WF_allvars(TurnEnds(e) /\ UNCHANGED dvars)
-----------------------------------------------------------------------------
(* Properties                                                              *)

\* A recorded process group is gone when the row has its receipt, also across
\* crashes and whoever wrote the receipt.
RecordedGroupReaped ==
  row.reaped_at /\ row.process_identity => proc[row.runtime_agent_id] # "alive"

\* While the daemon serves, what is registered in memory and what the rows say
\* agree, although the memory was rebuilt from nothing.
ServingAgrees ==
  daemon = "up" => RunningIsActive /\ SomebodyWorks /\ NothingLeaks

\* When the daemon begins to serve, every row is final, absent, or waits to
\* be claimed: nothing is left that nobody would ever work on.
ServesSettled ==
  [][daemon = "starting" /\ daemon' = "up" =>
       /\ row.phase \in {"ABSENT", "QUEUED", "TERMINAL"}
       /\ row.phase = "QUEUED" => ~Intent(row)]_allvars

Quiet == AllTasksReaped /\ active = 0 /\ starting = 0


\* A start of the daemon succeeds in the end.
StartupSucceeds == daemon = "starting" ~> daemon = "up"

\* A task that was claimed becomes terminal, whenever the daemon dies.
ClaimedEnds == row.phase \in ActivePhases ~> row.phase = "TERMINAL"


\* A drained daemon becomes quiet.
DrainCompletes == draining ~> Quiet \/ ~draining
=============================================================================
