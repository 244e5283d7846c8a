----------------------------- MODULE Scheduler ------------------------------
(***************************************************************************)
(* The threads of the daemon that drive one task (scheduler/lifecycle.rs,  *)
(* monitor.rs, control.rs, messages.rs, admission.rs and the lifecycle     *)
(* sink).  A claim is a run; run e has a thread that starts the runtime    *)
(* and then monitors it, a process group, a publisher of its terminal, and *)
(* an event pump that writes into the sink of the run.  Callers cancel or  *)
(* close the task, answer a request, send messages, or give up waiting for *)
(* the spawn.  The threads share the store, the slots `active` and         *)
(* `starting`, and per run an operation lock and an ingress gate.  A step  *)
(* makes at most one call of the store; between two calls any other thread *)
(* may act.  Only the calls of the store change its tables, so every       *)
(* behaviour of this module is one of TaskStore.                           *)
(***************************************************************************)
EXTENDS TaskStore

CONSTANTS
  Callers,        \* which callers there are (main and worker: see Daemon)
  Faults,         \* which faults the environment shows, of AllFaults
  NativeQueue     \* the adapter takes a queued message into a running turn

AllCallers == {"control", "respond", "submit", "send", "main", "worker"}
AllFaults == {"prepare", "spawn", "bootstrap", "unproven", "exit", "orphan",
              "frame", "stuck", "deliver", "respond", "turn", "text"}

ASSUME SchedulerAssumption ==
  /\ Callers \subseteq AllCallers
  /\ Faults \subseteq AllFaults
  /\ NativeQueue \in BOOLEAN
  /\ FirstId = LastId
  /\ Texts = {"routed", "unstarted", "bounded"}
  /\ ProposedOutcomes = Outcomes

Task == FirstId
row == tasks[Task]

\* A run is named by the owner epoch of its claim.
Runs == Epochs \ {0}
RunThread(e) == <<"run", e>>
Caller(c) == <<c, 0>>
Threads == {RunThread(e) : e \in Runs} \cup {Caller(c) : c \in Callers}
Nobody == <<"nobody", 0>>

\* RuntimeTerminal.  "Lost" stands for FailedRuntimeLost and for Orphaned;
\* "NeverRan" for a run that never had a runtime.
Proven == {"Stopped", "Completed", "FailedTurn", "Exited"}
Terminals == Proven \cup {"Lost"}
\* Faulty variant: an unproven stop counts as a reap.
ProvesAnything(terminal) == TRUE
Proves(terminal) == terminal \in Proven \cup {"NeverRan"}

VARIABLES
  th,        \* [Threads -> Thread]: where each thread is, and its locals
  active,    \* the run in the active slot of the task, 0 if none
  starting,  \* the run whose handle is registered as starting, 0 if none
  life,      \* [Runs -> Lives]: RuntimeLifecycle, the ingress gate of the run
  proc,      \* [Runs -> Processes]: the process group of the run
  owner,     \* [Runs -> Owners]: the publisher of the run
  turn,      \* [Runs -> Turns]: TurnTracker
  op,        \* [Runs -> Threads]: who holds the operation lock
  sink       \* [Runs -> Sink]: the lifecycle sink of the run

memory == <<active, starting, life, proc, owner, turn, op, sink>>
svars == <<vars, th, memory>>

Lives == {"running", "stopping", "terminal"}
Processes == {"none", "alive", "dead"}
Owners == {"running", "stopping"} \cup Terminals
Turns == {"none", "active", "completed", "failed"}
Sink == [writer : {"nobody", "pump", "thread"}, error : BOOLEAN,
         fault : BOOLEAN, written : BOOLEAN]

\* Where a thread can be, and where a subroutine can return to.
StartPlaces == {"prepare", "register", "recheck", "bootstrap", "mark",
                "unmarked", "confirm", "firstsend"}
FinishPlaces == {"cleanup", "own", "stop", "reap", "reread", "adjudicate",
                 "seal", "record", "persist", "precedence",
                 "persist_cancelled", "refused", "receipt", "release", "unlock"}
DeliverPlaces == {"deliver", "hand_over", "settle_message", "fail_message"}
MonitorPlaces == {"monitor", "watch", "fault", "force", "commit_fault",
                  "ended", "sink_failed", "boundary"}
CallerPlaces == {"ask", "shut", "abandon", "lock", "route", "lock_answer",
                 "check_answer", "claim_answer", "verify_answer", "answer",
                 "take_back", "fail_closed", "complete_answer", "lock_send",
                 "check_send", "insert", "flush", "kill"}
Places == {"idle"} \cup StartPlaces \cup FinishPlaces \cup DeliverPlaces
            \cup MonitorPlaces \cup CallerPlaces
Returns == {"none", "reread", "seal", "persist", "adjudicate", "lock", "unlock",
            "abandon", "start", "terminal", "Completed", "FailedTurn", "sending"}

Thread == [pc : Places,
           epoch : Nat,                              \* the run it acts for
           gate : Epochs,                            \* the run whose sink it uses
           outcome : Outcomes \cup {None},           \* forced, then effective
           kind : {"Stopped", "Completed", "FailedTurn"},  \* of a clean stop
           terminal : Terminals \cup {"NeverRan"},   \* what stopping returned
           text : Texts,
           try : {"sink", "direct", "invalid"},      \* which persist is tried
           next : Returns,                           \* where a subroutine returns
           message : MessageIds \cup {None},         \* being delivered
           own : MessageIds \cup {None}]             \* the one being sent

IdleThread == [pc |-> "idle", epoch |-> 0, gate |-> 0, outcome |-> None,
               kind |-> "Stopped", terminal |-> "NeverRan", text |-> "routed",
               try |-> "sink", next |-> "none", message |-> None,
               own |-> None]

SchedulerTypeOK ==
  /\ th \in [Threads -> Thread]
  /\ active \in Epochs /\ starting \in Epochs
  /\ life \in [Runs -> Lives]
  /\ proc \in [Runs -> Processes]
  /\ owner \in [Runs -> Owners]
  /\ turn \in [Runs -> Turns]
  /\ op \in [Runs -> Threads \cup {Nobody}]
  /\ sink \in [Runs -> Sink]

SchedulerInit ==
  /\ Init
  /\ th = [t \in Threads |-> IdleThread]
  /\ active = 0 /\ starting = 0
  /\ life = [e \in Runs |-> "running"]
  /\ proc = [e \in Runs |-> "none"]
  /\ owner = [e \in Runs |-> "running"]
  /\ turn = [e \in Runs |-> "none"]
  /\ op = [e \in Runs |-> Nobody]
  /\ sink = [e \in Runs |-> [writer |-> "nobody", error |-> FALSE,
                             fault |-> FALSE, written |-> FALSE]]
-----------------------------------------------------------------------------
At(t, pc) == th[t].pc = pc
Becomes(t, local) == th' = [th EXCEPT ![t] = local]
Go(t, pc) == Becomes(t, [th[t] EXCEPT !.pc = pc])

\* RuntimeLifecycle: request_stop and force_terminating close the gate, a
\* gate that is terminal stays so.
Closed(e) == [life EXCEPT ![e] = IF @ = "terminal" THEN @ ELSE "stopping"]
Ingress(e) == life[e] = "running"

Freed(t) == [e \in Runs |-> IF op[e] = t THEN Nobody ELSE op[e]]
Locked(e) == op[e] # Nobody

\* The pump holds the publisher and the write state of the sink while it
\* waits to insert a request.
PumpWaits(e) == sink[e].writer = "pump"

\* What append_lifecycle asks of the row.
Appendable(e) == row.phase \in NonterminalPhases /\ row.owner_epoch = e
-----------------------------------------------------------------------------
(* Submission and claim.  The daemon loop and the starter thread of a      *)
(* spawn claim in the same way.                                            *)

Submit ==
  /\ ReserveTaskId \/ \E w \in Workspaces : EnqueueTask(Task, w)
  /\ UNCHANGED <<th, memory>>

StartReady(e) ==
  /\ e = row.owner_epoch + 1
  /\ ClaimNext(Task) \/ ClaimSpecific(Task)
  /\ Becomes(RunThread(e), [IdleThread EXCEPT !.pc = "prepare", !.epoch = e,
                                              !.gate = e])
  /\ UNCHANGED memory

\* A start that fails before the runtime is registered: what is to be stored.
Unstarted(t, outcome, pc) ==
  [th[t] EXCEPT !.pc = pc, !.outcome = outcome, !.text = "unstarted",
                !.try = "direct", !.next = "persist"]

\* start_claim, up to the spawn.  A launch that does not decode stores its
\* result without cancellation precedence and is not reaped.
Undecodable(t, e) ==
  /\ "prepare" \in Faults
  /\ At(t, "prepare")
  /\ LET result == [outcome |-> "RESULT_INVALID", text |-> "unstarted"]
     IN IF Storable(Task, result)
          THEN StoreTaskResultWithReason(Task, result)
          ELSE UNCHANGED vars
  /\ Becomes(t, IdleThread)
  /\ UNCHANGED memory

SpawnFails(t, e) ==
  /\ At(t, "prepare")
  /\ \/ "prepare" \in Faults /\ Becomes(t, Unstarted(t, "RESULT_INVALID", "persist"))
     \/ "spawn" \in Faults /\ Becomes(t, Unstarted(t, "FAILED", "persist"))
  /\ UNCHANGED <<vars, memory>>

Spawn(t, e) ==
  /\ At(t, "prepare")
  /\ proc' = [proc EXCEPT ![e] = "alive"]
  /\ Go(t, "register")
  /\ UNCHANGED <<vars, active, starting, life, owner, turn, op, sink>>

RegisterStarting(t, e) ==
  /\ At(t, "register")
  /\ starting' = e
  /\ Go(t, "recheck")
  /\ UNCHANGED <<vars, active, life, proc, owner, turn, op, sink>>

Unregistered(e) == IF starting = e THEN 0 ELSE starting

CancelledBeforeBootstrap(e) ==
  row.owner_epoch = e /\ (row.phase = "CANCELLING" \/ Intent(row))

Recheck(t, e) ==
  /\ At(t, "recheck")
  /\ IF CancelledBeforeBootstrap(e)
       THEN /\ starting' = Unregistered(e)
            /\ Becomes(t, Unstarted(t, "CANCELLED", "stop"))
       ELSE Go(t, "bootstrap") /\ UNCHANGED starting
  /\ UNCHANGED <<vars, active, life, proc, owner, turn, op, sink>>

\* Only a fresh session gets the initial prompt; claim 1 is the fresh one.
Fresh(e) == e = 1

FirstTurnStarts(e) ==
  /\ At(RunThread(e), "bootstrap")
  /\ Fresh(e) /\ proc[e] = "alive" /\ turn[e] = "none"
  /\ turn' = [turn EXCEPT ![e] = "active"]
  /\ UNCHANGED <<vars, th, active, starting, life, proc, owner, op, sink>>

\* Faulty variant: the handle of a start that failed stays registered.
BootstrapFailsRegistered(t, e) ==
  /\ At(t, "bootstrap")
  /\ "bootstrap" \in Faults \/ proc[e] = "dead" \/ owner[e] # "running"
  /\ Becomes(t, Unstarted(t, "FAILED", "stop"))
  /\ UNCHANGED <<vars, memory>>

BootstrapFails(t, e) ==
  /\ At(t, "bootstrap")
  /\ "bootstrap" \in Faults \/ proc[e] = "dead" \/ owner[e] # "running"
  /\ starting' = Unregistered(e)
  /\ Becomes(t, Unstarted(t, "FAILED", "stop"))
  /\ UNCHANGED <<vars, active, life, proc, owner, turn, op, sink>>

Activate(t, e) ==
  /\ At(t, "bootstrap")
  /\ Fresh(e) => turn[e] # "none"
  /\ starting' = 0
  /\ active' = e
  /\ Go(t, "mark")
  /\ UNCHANGED <<vars, life, proc, owner, turn, op, sink>>

Mark(t, e) ==
  /\ At(t, "mark")
  /\ IF row.phase = "PREPARING" /\ row.owner_epoch = e
       THEN MarkSessionRunning(Task, e, TRUE, TRUE) /\ Go(t, "confirm")
       ELSE UNCHANGED vars /\ Go(t, "unmarked")
  /\ UNCHANGED memory

\* failure = None: the task was stopped; it ends CANCELLED.
CleanUp(t, outcome) ==
  [th[t] EXCEPT !.pc = "cleanup", !.outcome = outcome]

Unmarked(t, e) ==
  /\ At(t, "unmarked")
  /\ Becomes(t, CleanUp(t, IF Intent(row) \/ row.phase \in {"CANCELLING", "TERMINAL"}
                             THEN "CANCELLED" ELSE "FAILED"))
  /\ UNCHANGED <<vars, memory>>

Confirm(t, e) ==
  /\ At(t, "confirm")
  /\ Becomes(t, IF Intent(row) \/ row.phase # "RUNNING"
                  THEN CleanUp(t, "CANCELLED")
                  ELSE [th[t] EXCEPT !.pc = IF Fresh(e) THEN "monitor" ELSE "firstsend"])
  /\ UNCHANGED <<vars, memory>>

\* A resumed run sends its message before anybody monitors it.
FirstSend(t, e) ==
  /\ At(t, "firstsend")
  /\ ~Locked(e)
  /\ op' = [op EXCEPT ![e] = t]
  /\ Becomes(t, [th[t] EXCEPT !.pc = "deliver", !.next = "start"])
  /\ UNCHANGED <<vars, active, starting, life, proc, owner, turn, sink>>
-----------------------------------------------------------------------------
(* Stopping a runtime, deciding what its end means, and storing it.  These *)
(* steps are the same for every thread t that gets here.                   *)

\* cleanup_registered_runtime_with_grace: the stop is persisted first; an
\* intent that was there before decides the outcome.
BeginCleanup(t) ==
  /\ At(t, "cleanup")
  /\ RequestRuntimeStop(Task)
  /\ Becomes(t, [th[t] EXCEPT !.pc = "own",
                              !.outcome = IF Intent(row) THEN "CANCELLED" ELSE @])
  /\ UNCHANGED memory

OwnRuntime(t) ==
  /\ At(t, "own")
  /\ IF active = th[t].epoch
       THEN /\ life' = Closed(active)
            /\ Becomes(t, [th[t] EXCEPT !.pc = "stop", !.kind = "Stopped",
                                        !.next = "reread"])
       ELSE Go(t, "release") /\ UNCHANGED life
  /\ UNCHANGED <<vars, active, starting, proc, owner, turn, op, sink>>

\* finish_process: a terminal that is frozen already is what stopping returns.
BeginStopping(t) ==
  LET e == th[t].epoch IN
  /\ At(t, "stop")
  /\ ~PumpWaits(e)
  /\ IF owner[e] \in Terminals
       THEN /\ Becomes(t, [th[t] EXCEPT !.pc = th[t].next, !.terminal = owner[e]])
            /\ UNCHANGED owner
       ELSE /\ owner' = [owner EXCEPT ![e] = "stopping"]
            /\ Go(t, "reap")
  /\ UNCHANGED <<vars, active, starting, life, proc, turn, op, sink>>

\* stop_and_reap proves the group gone, or fails and proves nothing; the
\* first terminal to be published wins.
StopAndReap(t) ==
  LET e == th[t].epoch IN
  /\ At(t, "reap")
  /\ ~PumpWaits(e)
  /\ \E found \in {th[t].kind} \cup {"Lost" : f \in Faults \cap {"unproven"}} :
       LET published == IF owner[e] \in Terminals THEN owner[e] ELSE found IN
       /\ proc' = [proc EXCEPT ![e] = IF found = "Lost" THEN @ ELSE "dead"]
       /\ owner' = [owner EXCEPT ![e] = published]
       /\ Becomes(t, [th[t] EXCEPT !.pc = th[t].next, !.terminal = published])
  /\ UNCHANGED <<vars, active, starting, life, turn, op, sink>>

Reread(t) ==
  /\ At(t, "reread")
  /\ Becomes(t, IF row.phase \in {"RUNNING", "CANCELLING", "TERMINAL"}
                  THEN [th[t] EXCEPT !.pc = "seal", !.text = "routed"]
                  ELSE Unstarted(t, th[t].outcome, "persist"))
  /\ UNCHANGED <<vars, memory>>

MeaningsOfAnyTurn(terminal, kind) ==
  IF terminal \in {"Completed", "FailedTurn"} THEN {"COMPLETED"} ELSE {"RUNTIME_LOST"}

\* What the end of a runtime means for the task.  A turn that completed but
\* left no text is RESULT_INVALID.
Meanings(terminal, kind) ==
  CASE terminal = "Completed" /\ kind = "Completed" ->
         {"COMPLETED"} \cup {"RESULT_INVALID" : f \in Faults \cap {"text"}}
    [] terminal = "Stopped" -> {"CANCELLED"}
    [] terminal \in {"Lost", "Exited"} -> {"RUNTIME_LOST"}
    [] OTHER -> {"FAILED"}

\* finish_locked_monitor_terminal: the row has the last word.
Adjudicate(t) ==
  LET e == th[t].epoch IN
  /\ At(t, "adjudicate")
  /\ \/ /\ row.phase = "TERMINAL" \/ row.owner_epoch # e
        /\ Go(t, "release")
        /\ UNCHANGED life
     \/ /\ row.phase # "TERMINAL" /\ row.owner_epoch = e /\ Intent(row)
        /\ life' = Closed(e)
        /\ Becomes(t, [th[t] EXCEPT !.pc = "stop", !.outcome = "CANCELLED",
                                    !.kind = "Stopped", !.next = "seal"])
     \/ /\ row.phase # "TERMINAL" /\ row.owner_epoch = e /\ ~Intent(row)
        /\ th[t].outcome = None => sink[e].writer = "nobody"
        /\ \E meant \in Meanings(th[t].terminal, th[t].kind) :
             Becomes(t, [th[t] EXCEPT
               !.pc = "seal",
               !.outcome = IF @ # None THEN @
                           ELSE IF sink[e].error THEN "RUNTIME_LOST" ELSE meant])
        /\ UNCHANGED life
  /\ UNCHANGED <<vars, active, starting, proc, owner, turn, op, sink>>

\* finish_routed_terminal closes the gate for good ...
Seal(t) ==
  /\ At(t, "seal")
  /\ life' = [life EXCEPT ![th[t].gate] = "terminal"]
  /\ Becomes(t, [th[t] EXCEPT !.pc = "record", !.text = "routed"])
  /\ UNCHANGED <<vars, active, starting, proc, owner, turn, op, sink>>

\* ... and finish_general holds the write state of the sink to the end.  One
\* source sequence stands for the records of the run.
Record(t) ==
  LET g == th[t].gate
      known == \E e \in events : e.runtime = g
  IN
  /\ At(t, "record")
  /\ sink[g].writer = "nobody"
  /\ \/ /\ sink[g].error \/ ~Appendable(g)
        /\ ~sink[g].error => ~sink[g].written
        /\ Becomes(t, [th[t] EXCEPT !.pc = "persist", !.try = "direct"])
        /\ UNCHANGED <<vars, sink>>
     \/ /\ ~sink[g].error /\ sink[g].written
        /\ Go(t, "release")
        /\ UNCHANGED <<vars, sink>>
     \/ /\ ~sink[g].error /\ ~sink[g].written /\ Appendable(g)
        /\ IF known THEN UNCHANGED vars
           ELSE \E s \in SourceSeqs : AppendLifecycle(Task, g, s, None, None)
        /\ sink' = [sink EXCEPT ![g].writer = "thread"]
        /\ Becomes(t, [th[t] EXCEPT !.pc = "persist", !.try = "sink"])
  /\ UNCHANGED <<active, starting, life, proc, owner, turn, op>>

Proposal(t) ==
  IF th[t].try = "invalid" THEN [outcome |-> "RESULT_INVALID", text |-> "bounded"]
  ELSE [outcome |-> th[t].outcome, text |-> th[t].text]

CancelledResult == [outcome |-> "CANCELLED", text |-> "bounded"]

\* store_task_result, or a result with the same digest that is there already.
Stored(result) ==
  \/ StoreTaskResultWithReason(Task, result)
  \/ results[Task] = result /\ UNCHANGED vars
Refused(result) ==
  ~Storable(Task, result) /\ results[Task] # result /\ UNCHANGED vars

Persist(t) ==
  /\ At(t, "persist")
  /\ \/ Stored(Proposal(t)) /\ Go(t, "receipt")
     \/ Refused(Proposal(t)) /\ Go(t, "precedence")
  /\ UNCHANGED memory

\* store_result_with_cancel_precedence: a refused result gives way to the
\* cancellation that refused it.
Precedence(t) ==
  /\ At(t, "precedence")
  /\ Go(t, IF /\ Intent(row)
              /\ Proposal(t).outcome # "CANCELLED"
              /\ results[Task].outcome = None
             THEN "persist_cancelled" ELSE "refused")
  /\ UNCHANGED <<vars, memory>>

PersistCancelled(t) ==
  /\ At(t, "persist_cancelled")
  /\ \/ Stored(CancelledResult) /\ Go(t, "receipt")
     \/ Refused(CancelledResult) /\ Go(t, "refused")
  /\ UNCHANGED memory

\* The sink failed: persist_general_completion tries without it.
FallBack(t) ==
  /\ sink' = [sink EXCEPT ![th[t].gate].writer = "nobody"]
  /\ Becomes(t, [th[t] EXCEPT !.pc = "persist", !.try = "direct"])

\* No result at all: a placeholder.  Another result: it stands.
AfterRefusal(t) ==
  /\ At(t, "refused")
  /\ \/ th[t].try = "sink" /\ FallBack(t)
     \/ /\ th[t].try = "direct"
        /\ Becomes(t, IF results[Task].outcome = None
                        THEN [th[t] EXCEPT !.pc = "persist", !.try = "invalid"]
                        ELSE [th[t] EXCEPT !.pc = "receipt"])
        /\ UNCHANGED sink
     \/ th[t].try = "invalid" /\ Go(t, "release") /\ UNCHANGED sink
  /\ UNCHANGED <<vars, active, starting, life, proc, owner, turn, op>>

\* The reap receipt is written only for a group that is proven gone.
Receipt(t) ==
  LET done == Go(t, "release") /\ sink' = IF th[t].try = "sink"
                THEN [sink EXCEPT ![th[t].gate].writer = "nobody",
                                  ![th[t].gate].written = TRUE]
                ELSE sink
  IN
  /\ At(t, "receipt")
  /\ \/ ~Proves(th[t].terminal) /\ UNCHANGED vars /\ done
     \/ Proves(th[t].terminal) /\ ReapTask(Task) /\ done
     \/ /\ Proves(th[t].terminal) /\ row.phase # "TERMINAL"
        /\ UNCHANGED vars
        /\ IF th[t].try = "sink" THEN FallBack(t)
           ELSE Go(t, "release") /\ UNCHANGED sink
  /\ UNCHANGED <<active, starting, life, proc, owner, turn, op>>

\* release_active, which leaves the run of another epoch alone; then the
\* operation guard is dropped.
Release(t) ==
  LET e == th[t].epoch IN
  /\ At(t, "release")
  /\ IF active = e /\ e # 0
       THEN active' = 0 /\ life' = [life EXCEPT ![e] = "terminal"]
       ELSE UNCHANGED <<active, life>>
  /\ op' = Freed(t)
  /\ Becomes(t, IdleThread)
  /\ UNCHANGED <<vars, starting, proc, owner, turn, sink>>

\* A caller returns and drops the guard.
Unlock(t) ==
  /\ At(t, "unlock")
  /\ op' = Freed(t)
  /\ Becomes(t, IdleThread)
  /\ UNCHANGED <<vars, active, starting, life, proc, owner, turn, sink>>

Finish(t) ==
  \/ BeginCleanup(t) \/ OwnRuntime(t) \/ BeginStopping(t) \/ StopAndReap(t)
  \/ Reread(t) \/ Adjudicate(t) \/ Seal(t) \/ Record(t) \/ Persist(t)
  \/ Precedence(t) \/ PersistCancelled(t) \/ AfterRefusal(t) \/ Receipt(t)
  \/ Release(t) \/ Unlock(t)
-----------------------------------------------------------------------------
(* deliver_next_message, under the operation lock.  Where it returns to    *)
(* depends on who called it.                                               *)

\* The caller's next step after Ok(Some(message)), Ok(None) and Err.
Continue(t, result) ==
  LET local == th[t] IN
  CASE local.next = "start" ->
         IF result = "error" THEN CleanUp(t, "FAILED")
         ELSE [local EXCEPT !.pc = "watch"]
    [] local.next = "terminal" -> [local EXCEPT !.pc = "watch"]
    [] local.next \in {"Completed", "FailedTurn"} ->
         IF result = "some" THEN [local EXCEPT !.pc = "watch"]
         ELSE IF result = "none"
           THEN [local EXCEPT !.pc = "stop", !.kind = local.next, !.next = "adjudicate"]
           ELSE [local EXCEPT !.pc = "stop", !.kind = "FailedTurn",
                              !.outcome = "FAILED", !.next = "adjudicate"]
    [] OTHER -> [local EXCEPT !.pc = IF result = "some" THEN "flush" ELSE "unlock"]

ClaimMessage(t) ==
  /\ At(t, "deliver")
  /\ \/ ~Ingress(th[t].epoch) /\ Becomes(t, Continue(t, "error")) /\ UNCHANGED vars
     \/ /\ Ingress(th[t].epoch)
        /\ \/ \E m \in MessageIds :
                /\ ClaimNextMessage(Task, m)
                /\ Becomes(t, [th[t] EXCEPT !.pc = "hand_over", !.message = m])
           \/ /\ ~Accepting(row) \/ QueuedMessages(Task) = {}
              /\ Becomes(t, Continue(t, "none"))
              /\ UNCHANGED vars
  /\ UNCHANGED memory

\* Ingress is asked again; then the runtime gets the message.  A steer stops
\* the turn first; either way a turn is active afterwards.
HandOver(t) ==
  LET e == th[t].epoch IN
  /\ At(t, "hand_over")
  /\ \/ /\ ~Ingress(e) \/ "deliver" \in Faults \/ proc[e] # "alive"
        /\ Go(t, "fail_message")
        /\ turn' \in {turn} \cup
             {[turn EXCEPT ![e] = b] : b \in
                IF messages[th[t].message].mode = "steer" /\ turn[e] = "active"
                  THEN {"completed", "failed"} ELSE {}}
     \/ /\ Ingress(e) /\ proc[e] = "alive"
        /\ Go(t, "settle_message")
        /\ turn' = [turn EXCEPT ![e] = "active"]
  /\ UNCHANGED <<vars, active, starting, life, proc, owner, op, sink>>

\* A message that a stop settled meanwhile has lost its claim.
SettleMessage(t) ==
  LET m == th[t].message IN
  /\ \/ /\ At(t, "settle_message") /\ CompleteMessage(m)
        /\ Becomes(t, Continue(t, "some"))
     \/ /\ At(t, "settle_message") /\ messages[m].state # "SENDING"
        /\ UNCHANGED vars
        /\ Becomes(t, Continue(t, "error"))
     \/ /\ At(t, "fail_message")
        /\ IF messages[m].state \in OpenMessage THEN FailMessage(m) ELSE UNCHANGED vars
        /\ Becomes(t, Continue(t, "error"))
  /\ UNCHANGED memory

Deliver(t) == ClaimMessage(t) \/ HandOver(t) \/ SettleMessage(t)
-----------------------------------------------------------------------------
(* The monitor of a run.                                                   *)

\* The guard is dropped and the loop goes round.
Watch(t, e) ==
  /\ At(t, "watch")
  /\ op' = Freed(t)
  /\ Becomes(t, [IdleThread EXCEPT !.pc = "monitor", !.epoch = e, !.gate = e])
  /\ UNCHANGED <<vars, active, starting, life, proc, owner, turn, sink>>

\* One round: the latched frame fault is looked at before a terminal and
\* before a turn boundary, never after.
Observe(t, e) ==
  /\ At(t, "monitor")
  /\ \/ sink[e].fault /\ Go(t, "fault")
     \/ /\ owner[e] \in Terminals /\ ~sink[e].fault
        /\ Becomes(t, [th[t] EXCEPT !.pc = "ended", !.terminal = owner[e]])
     \/ /\ sink[e].error /\ sink[e].writer = "nobody" /\ Go(t, "sink_failed")
     \/ /\ turn[e] \in {"completed", "failed"} /\ ~sink[e].fault
        /\ Becomes(t, [th[t] EXCEPT !.pc = "boundary",
                         !.next = IF turn[e] = "completed" THEN "Completed" ELSE "FailedTurn"])
  /\ UNCHANGED <<vars, memory>>

\* handle_transport_failure: the decision is made under the lock, the lock is
\* dropped for the cleanup.
HandleTransportFailure(t, e) ==
  /\ At(t, "fault")
  /\ ~Locked(e)
  /\ IF row.phase # "TERMINAL" /\ row.owner_epoch = e /\ active = e
       THEN life' = Closed(e) /\ Go(t, "force")
       ELSE Go(t, "release") /\ UNCHANGED life
  /\ UNCHANGED <<vars, active, starting, proc, owner, turn, op, sink>>

\* cleanup_for_forced_failure stops and reaps whatever was published before,
\* and its terminal replaces that.
ForceCleanup(t, e) ==
  /\ At(t, "force")
  /\ ~PumpWaits(e)
  /\ \E found \in {"Stopped"} \cup {"Lost" : f \in Faults \cap {"unproven"}} :
       /\ proc' = [proc EXCEPT ![e] = IF found = "Lost" THEN @ ELSE "dead"]
       /\ owner' = [owner EXCEPT ![e] = found]
       /\ Becomes(t, [th[t] EXCEPT !.pc = "commit_fault", !.terminal = found,
                                   !.outcome = "FAILED"])
  /\ UNCHANGED <<vars, active, starting, life, turn, op, sink>>

Locks(t, e) == ~Locked(e) /\ op' = [op EXCEPT ![e] = t]

CommitFault(t, e) ==
  /\ At(t, "commit_fault")
  /\ Locks(t, e)
  /\ Go(t, "adjudicate")
  /\ UNCHANGED <<vars, active, starting, life, proc, owner, turn, sink>>

\* Faulty variant: a queued message only defers the completion.
NaturalCompletionDeferred(e, next, deferred, queued) ==
  \/ ~Ingress(e) /\ next /\ UNCHANGED life
  \/ Ingress(e) /\ OpenRequests(Task) \cup OpenMessages(Task) # {} /\ deferred /\ UNCHANGED life
  \/ /\ Ingress(e) /\ OpenRequests(Task) = {} /\ OpenMessages(Task) = {} /\ next
     /\ life' = [life EXCEPT ![e] = "terminal"]

\* begin_natural_completion reads the blockers and closes the gate in one
\* critical section.
NaturalCompletion(e, next, deferred, queued) ==
  \/ ~Ingress(e) /\ next /\ UNCHANGED life
  \/ Ingress(e) /\ OpenRequests(Task) # {} /\ deferred /\ UNCHANGED life
  \/ Ingress(e) /\ OpenRequests(Task) = {} /\ OpenMessages(Task) # {} /\ queued /\ UNCHANGED life
  \/ /\ Ingress(e) /\ OpenRequests(Task) = {} /\ OpenMessages(Task) = {} /\ next
     /\ life' = [life EXCEPT ![e] = "terminal"]

\* A terminal was published.  If another thread is finishing the run there is
\* nothing to do, unless the runtime completed by itself.
TerminalPublished(t, e) ==
  /\ At(t, "ended")
  /\ Locks(t, e)
  /\ IF th[t].terminal = "Completed"
       THEN NaturalCompletion(e,
              Becomes(t, [th[t] EXCEPT !.pc = "adjudicate", !.kind = "Completed"]),
              Go(t, "watch"),
              Becomes(t, [th[t] EXCEPT !.pc = "deliver", !.next = "terminal"]))
       ELSE /\ Go(t, IF life[e] = "terminal" THEN "unlock" ELSE "adjudicate")
            /\ UNCHANGED life
  /\ UNCHANGED <<vars, active, starting, proc, owner, turn, sink>>

SinkFailed(t, e) ==
  /\ At(t, "sink_failed")
  /\ Locks(t, e)
  /\ life' = Closed(e)
  /\ Becomes(t, [th[t] EXCEPT !.pc = "stop", !.outcome = "RUNTIME_LOST",
                              !.kind = "Stopped", !.next = "adjudicate"])
  /\ UNCHANGED <<vars, active, starting, proc, owner, turn, sink>>

TurnBoundary(t, e) ==
  LET seen == IF th[t].next = "Completed" THEN "completed" ELSE "failed" IN
  /\ At(t, "boundary")
  /\ Locks(t, e)
  /\ \/ /\ seen = "failed" /\ ~Ingress(e)
        /\ Go(t, "unlock") /\ UNCHANGED life
     \/ /\ seen = "failed" => Ingress(e)
        /\ turn[e] # seen
        /\ Go(t, "watch") /\ UNCHANGED life
     \/ /\ seen = "failed" /\ Ingress(e) /\ turn[e] = "failed"
        /\ Go(t, "deliver") /\ UNCHANGED life
     \/ /\ seen = "completed" /\ turn[e] = "completed"
        /\ NaturalCompletion(e, Becomes(t, Continue(t, "none")), Go(t, "watch"), Go(t, "deliver"))
  /\ UNCHANGED <<vars, active, starting, proc, owner, turn, sink>>

Monitor(t, e) ==
  \/ Watch(t, e) \/ Observe(t, e) \/ HandleTransportFailure(t, e) \/ ForceCleanup(t, e)
  \/ CommitFault(t, e) \/ TerminalPublished(t, e) \/ SinkFailed(t, e) \/ TurnBoundary(t, e)

StartClaim(t, e) ==
  \/ Undecodable(t, e) \/ SpawnFails(t, e) \/ Spawn(t, e) \/ RegisterStarting(t, e)
  \/ Recheck(t, e) \/ BootstrapFails(t, e) \/ Activate(t, e) \/ Mark(t, e)
  \/ Unmarked(t, e) \/ Confirm(t, e) \/ FirstSend(t, e)
-----------------------------------------------------------------------------
(* request_stop_or_close: the active run is looked up before the request   *)
(* is persisted, and only that run is stopped.                             *)

LookUp(t) ==
  /\ At(t, "idle")
  /\ row.phase # "ABSENT"
  /\ Becomes(t, [IdleThread EXCEPT !.pc = "ask", !.epoch = active])
  /\ UNCHANGED <<vars, memory>>

\* Faulty variant: a queued task is left to somebody else.
AfterAskingLeft(t) ==
  IF row.phase \in ActivePhases /\ th[t].epoch # 0 /\ th[t].epoch = row.owner_epoch
    THEN "lock" ELSE "unlock"

\* What the decision of the store and the looked-up run ask for.
AfterAsking(t) ==
  IF row.phase \in ActivePhases
    THEN IF th[t].epoch # 0 /\ th[t].epoch = row.owner_epoch THEN "lock" ELSE "unlock"
    ELSE IF row.phase = "QUEUED" /\ th[t].epoch = 0 THEN "abandon" ELSE "unlock"

Ask(t) ==
  /\ At(t, "ask")
  /\ RequestStop(Task) \/ RequestClose(Task)
  /\ Becomes(t, IF th[t].epoch = 0
                  THEN [th[t] EXCEPT !.pc = AfterAsking(t)]
                  ELSE [th[t] EXCEPT !.pc = "shut", !.next = AfterAsking(t)])
  /\ UNCHANGED memory

Shut(t) ==
  /\ At(t, "shut")
  /\ life' = Closed(th[t].epoch)
  /\ Go(t, th[t].next)
  /\ UNCHANGED <<vars, active, starting, proc, owner, turn, op, sink>>

\* A task that was still queued is finished here; one whose prepared launch
\* does not decode gets its result without a receipt.
Abandon(t) ==
  /\ At(t, "abandon")
  /\ \/ Becomes(t, Unstarted(t, "CANCELLED", "persist")) /\ UNCHANGED vars
     \/ /\ "prepare" \in Faults
        /\ LET result == [outcome |-> "CANCELLED", text |-> "unstarted"]
           IN Stored(result) \/ Refused(result)
        /\ Becomes(t, IdleThread)
  /\ UNCHANGED memory

\* fail_closed_control, if the run is still the active one.
FailClosed(t) ==
  IF active = th[t].epoch
    THEN [CleanUp(t, "FAILED") EXCEPT !.gate = th[t].epoch]
    ELSE [th[t] EXCEPT !.pc = "unlock"]

\* The operation lock, or the deadline.
LockForStop(t) ==
  LET e == th[t].epoch IN
  /\ At(t, "lock")
  /\ \/ Locks(t, e) /\ Go(t, "route")
     \/ Locked(e) /\ Becomes(t, FailClosed(t)) /\ UNCHANGED op
  /\ UNCHANGED <<vars, active, starting, life, proc, owner, turn, sink>>

\* The sink is that of whatever run is active now, the runtime that of the
\* run looked up.
Route(t) ==
  LET e == th[t].epoch IN
  /\ At(t, "route")
  /\ IF active = 0
       THEN Go(t, "unlock") /\ UNCHANGED life
       ELSE /\ life' = Closed(e)
            /\ Becomes(t, [th[t] EXCEPT !.pc = "stop", !.gate = active, !.kind = "Stopped",
                                        !.outcome = "CANCELLED", !.next = "seal"])
  /\ UNCHANGED <<vars, active, starting, proc, owner, turn, op, sink>>

Control(t) == LookUp(t) \/ Ask(t) \/ Shut(t) \/ Abandon(t) \/ LockForStop(t) \/ Route(t)
-----------------------------------------------------------------------------
(* respond_request: the epoch, the gate and the row are asked before the   *)
(* claim and again after it.  One request at a time.                       *)

Answerable(t) ==
  Ingress(th[t].epoch) /\ row.owner_epoch = th[t].epoch /\ Accepting(row)

FindRequest(t) ==
  /\ At(t, "idle")
  /\ active # 0
  /\ \E q \in RequestIds : requests[q].state = "PENDING"
  /\ Becomes(t, [IdleThread EXCEPT !.pc = "lock_answer", !.epoch = active])
  /\ UNCHANGED <<vars, memory>>

LockForAnswer(t) ==
  LET e == th[t].epoch IN
  /\ At(t, "lock_answer")
  /\ \/ Locks(t, e) /\ Go(t, "check_answer")
     \/ Locked(e) /\ Becomes(t, IdleThread) /\ UNCHANGED op
  /\ UNCHANGED <<vars, active, starting, life, proc, owner, turn, sink>>

CheckAnswer(t) ==
  /\ At(t, "check_answer")
  /\ Go(t, IF Answerable(t) THEN "claim_answer" ELSE "unlock")
  /\ UNCHANGED <<vars, memory>>

ClaimAnswer(t) ==
  /\ At(t, "claim_answer")
  /\ \/ /\ \E q \in RequestIds : ClaimPendingResponseIfAccepting(Task, q)
        /\ Go(t, "verify_answer")
     \/ /\ ~Accepting(row) \/ \A q \in RequestIds : requests[q].state # "PENDING"
        /\ Go(t, "unlock")
        /\ UNCHANGED vars
  /\ UNCHANGED memory

\* release_pending_response; a request that was settled meanwhile is gone.
ReleaseAnswer ==
  \/ \E q \in RequestIds : ReleasePendingResponse(Task, q)
  \/ (\A q \in RequestIds : requests[q].state # "SENDING") /\ UNCHANGED vars

VerifyAnswer(t) ==
  /\ At(t, "verify_answer")
  /\ \/ Answerable(t) /\ Go(t, "answer") /\ UNCHANGED vars
     \/ ~Answerable(t) /\ Go(t, "unlock") /\ ReleaseAnswer
  /\ UNCHANGED memory

\* The runtime takes the answer, or fails or is late.
Answer(t) ==
  /\ At(t, "answer")
  /\ \/ proc[th[t].epoch] = "alive" /\ Go(t, "complete_answer")
     \/ ("respond" \in Faults \/ proc[th[t].epoch] # "alive") /\ Go(t, "take_back")
  /\ UNCHANGED <<vars, memory>>

TakeBack(t) ==
  /\ At(t, "take_back")
  /\ ReleaseAnswer
  /\ Go(t, "fail_closed")
  /\ UNCHANGED memory

FailClosedAnswer(t) ==
  /\ At(t, "fail_closed")
  /\ Becomes(t, FailClosed(t))
  /\ UNCHANGED <<vars, memory>>

CompleteAnswer(t) ==
  /\ At(t, "complete_answer")
  /\ \/ \E q \in RequestIds : CompletePendingResponse(Task, q)
     \/ (\A q \in RequestIds : requests[q].state # "SENDING") /\ UNCHANGED vars
  /\ Go(t, "unlock")
  /\ UNCHANGED memory

Respond(t) ==
  \/ FindRequest(t) \/ LockForAnswer(t) \/ CheckAnswer(t) \/ ClaimAnswer(t)
  \/ VerifyAnswer(t) \/ Answer(t) \/ TakeBack(t) \/ FailClosedAnswer(t) \/ CompleteAnswer(t)
-----------------------------------------------------------------------------
(* send_message holds the admission lock throughout, so there is one       *)
(* sender.  A terminal task is resumed.                                    *)

Resume(t) ==
  /\ At(t, "idle")
  /\ \E m \in MessageIds, mode \in Modes : RequeueTaskForResumeWithMessage(Task, m, mode)
  /\ UNCHANGED <<th, memory>>

FindRun(t) ==
  /\ At(t, "idle")
  /\ row.phase \in NonterminalPhases
  /\ \E m \in MessageIds : messages[m].state = "ABSENT"
  /\ Becomes(t, [IdleThread EXCEPT !.pc = IF active = 0 THEN "check_send" ELSE "lock_send",
                                   !.epoch = active, !.next = "sending"])
  /\ UNCHANGED <<vars, memory>>

LockForSend(t) ==
  LET e == th[t].epoch IN
  /\ At(t, "lock_send")
  /\ \/ Locks(t, e) /\ Go(t, "check_send")
     \/ Locked(e) /\ Becomes(t, IdleThread) /\ UNCHANGED op
  /\ UNCHANGED <<vars, active, starting, life, proc, owner, turn, sink>>

\* Without a run the row must be RUNNING: then the message only waits.
CheckSend(t) ==
  LET e == th[t].epoch IN
  /\ At(t, "check_send")
  /\ Go(t, IF IF e = 0 THEN row.phase = "RUNNING" /\ ~Intent(row) ELSE Ingress(e)
             THEN "insert" ELSE "unlock")
  /\ UNCHANGED <<vars, memory>>

Insert(t) ==
  LET e == th[t].epoch IN
  /\ At(t, "insert")
  /\ \/ \E m \in MessageIds, mode \in Modes :
          /\ InsertMessage(m, Task, mode)
          /\ Becomes(t, [th[t] EXCEPT
               !.pc = IF e # 0 /\ (mode = "steer" \/ NativeQueue \/ turn[e] # "active")
                        THEN "flush" ELSE "unlock",
               !.own = m])
     \/ /\ row.phase = "TERMINAL" \/ Intent(row)
        /\ Go(t, "unlock")
        /\ UNCHANGED vars
  /\ UNCHANGED memory

\* Earlier messages go first, until the own one has gone; a queued message
\* waits for the turn to end.
Flush(t) ==
  LET own == messages[th[t].own] IN
  /\ At(t, "flush")
  /\ Go(t, IF /\ own.state = "QUEUED"
              /\ NativeQueue \/ own.mode = "steer" \/ turn[th[t].epoch] # "active"
             THEN "deliver" ELSE "unlock")
  /\ UNCHANGED <<vars, memory>>

Send(t) ==
  \/ Resume(t) \/ FindRun(t) \/ LockForSend(t) \/ CheckSend(t) \/ Insert(t) \/ Flush(t)
-----------------------------------------------------------------------------
(* submit: the caller gives up on a spawn that is not ready in time.  A    *)
(* task that was still queued is finished here; the process group of one   *)
(* that is being prepared is killed, so that its bootstrap fails.          *)

GiveUp(t) ==
  /\ At(t, "idle")
  /\ CancelUnstartedIfStillFresh(Task)
  /\ Becomes(t, IF row.phase = "QUEUED"
                  THEN Unstarted(t, "CANCELLED", "persist")
                  ELSE [IdleThread EXCEPT !.pc = "kill", !.epoch = row.owner_epoch])
  /\ UNCHANGED memory

KillStarting(t) ==
  LET e == th[t].epoch IN
  /\ At(t, "kill")
  /\ proc' = IF starting = e THEN [proc EXCEPT ![e] = "dead"] ELSE proc
  /\ Becomes(t, IdleThread)
  /\ UNCHANGED <<vars, active, starting, life, owner, turn, op, sink>>
-----------------------------------------------------------------------------
(* The process of run e, its publisher and its event pump.                 *)

TurnEnds(e) ==
  /\ proc[e] = "alive" /\ turn[e] = "active"
  /\ \/ turn' = [turn EXCEPT ![e] = "completed"]
     \/ "turn" \in Faults /\ turn' = [turn EXCEPT ![e] = "failed"]
  /\ UNCHANGED <<vars, th, active, starting, life, proc, owner, op, sink>>

ProcessDies(e) ==
  /\ "exit" \in Faults
  /\ proc[e] = "alive"
  /\ proc' = [proc EXCEPT ![e] = "dead"]
  /\ UNCHANGED <<vars, th, active, starting, life, owner, turn, op, sink>>

\* The child's exit is published unless somebody stops the runtime.  The
\* leader may be gone and its group not.
PublishExit(e) ==
  /\ owner[e] = "running" /\ ~PumpWaits(e)
  /\ \/ /\ proc[e] = "dead"
        /\ \/ owner' = [owner EXCEPT ![e] = "Exited"]
           \/ owner' = [owner EXCEPT ![e] = IF turn[e] = "completed" THEN "Completed" ELSE "Lost"]
     \/ /\ "orphan" \in Faults /\ proc[e] = "alive"
        /\ owner' = [owner EXCEPT ![e] = "Lost"]
  /\ UNCHANGED <<vars, th, active, starting, life, proc, turn, op, sink>>

\* The pump forwards a record while no terminal is published and the gate of
\* the run is open.
Pumping(e) ==
  /\ proc[e] = "alive" /\ owner[e] \notin Terminals
  /\ Ingress(e)
  /\ sink[e].writer = "nobody" /\ ~sink[e].error

\* A request record: the pump keeps the sink until the request is inserted.
EmitRequest(e) ==
  /\ Pumping(e)
  /\ \E q \in RequestIds : requests[q].state = "ABSENT"
  /\ sink' = [sink EXCEPT ![e].writer = "pump"]
  /\ UNCHANGED <<vars, th, active, starting, life, proc, owner, turn, op>>

\* The record follows the request if the gate is still open; the store
\* refuses it when the row has moved on.
InsertRequest(e) ==
  /\ PumpWaits(e)
  /\ \E q \in RequestIds, c \in Correlations : InsertPendingRequest(q, Task, c)
  /\ sink' = [sink EXCEPT ![e].writer = "nobody",
                          ![e].error = Ingress(e) /\ ~Appendable(e)]
  /\ UNCHANGED <<th, active, starting, life, proc, owner, turn, op>>


\* The task does not accept requests (yet): retried while the gate is open,
\* dropped when it is not, an error of the sink at the deadline.
DropRequest(e) ==
  /\ PumpWaits(e)
  /\ \/ ~Ingress(e) /\ sink' = [sink EXCEPT ![e].writer = "nobody"]
     \/ /\ "stuck" \in Faults /\ Ingress(e) /\ ~Accepting(row)
        /\ sink' = [sink EXCEPT ![e].writer = "nobody", ![e].error = TRUE]
  /\ UNCHANGED <<vars, th, active, starting, life, proc, owner, turn, op>>

\* Any other record the row refuses, and an oversized frame.
EmitRecord(e) ==
  /\ Pumping(e)
  /\ \/ ~Appendable(e) /\ sink' = [sink EXCEPT ![e].error = TRUE]
     \/ "frame" \in Faults /\ ~sink[e].fault /\ sink' = [sink EXCEPT ![e].fault = TRUE]
  /\ UNCHANGED <<vars, th, active, starting, life, proc, owner, turn, op>>

Runtime(e) ==
  \/ FirstTurnStarts(e) \/ TurnEnds(e) \/ ProcessDies(e) \/ PublishExit(e)
  \/ EmitRequest(e) \/ InsertRequest(e) \/ DropRequest(e) \/ EmitRecord(e)
-----------------------------------------------------------------------------
ThreadStep(t) == Finish(t) \/ Deliver(t)

RunStep(e) ==
  \/ StartClaim(RunThread(e), e) \/ Monitor(RunThread(e), e) \/ ThreadStep(RunThread(e))

CallerStep(c) ==
  LET t == Caller(c) IN
  \/ ThreadStep(t)
  \/ c = "control" /\ Control(t)
  \/ c = "respond" /\ Respond(t)
  \/ c = "send" /\ Send(t)
  \/ c = "submit" /\ (GiveUp(t) \/ KillStarting(t))

SchedulerNext ==
  \/ Submit
  \/ \E e \in Runs : StartReady(e) \/ RunStep(e) \/ Runtime(e)
  \/ \E c \in Callers : CallerStep(c)

SchedulerSpec == SchedulerInit /\ [][SchedulerNext]_svars

\* Threads that run go on running, a call that was made goes on to its
\* return, a request the pump waits with is retried, an exit is published,
\* and the daemon loop claims what is queued.  Nobody has to make a call, and
\* a runtime has to do nothing at all.
Fairness ==
  /\ \A e \in Runs : /\ WF_svars(RunStep(e))
                     /\ WF_svars(StartReady(e))
                     /\ WF_svars(InsertRequest(e) \/ DropRequest(e))
                     /\ WF_svars(PublishExit(e))
  /\ \A c \in Callers : WF_svars(~At(Caller(c), "idle") /\ CallerStep(c))

FairScheduler == SchedulerSpec /\ Fairness

\* A host that repeats its cancel until it sees the task finished.
PersistentHost ==
  /\ FairScheduler
  /\ \A c \in Callers \cap {"control"} : WF_svars(LookUp(Caller(c)))

\* Runtimes that end the turns they were given.
TurnsEnd == FairScheduler /\ \A e \in Runs : WF_svars(TurnEnds(e))
-----------------------------------------------------------------------------
(* Safety                                                                  *)

Works(t, e) == ~At(t, "idle") /\ th[t].epoch = e

\* No two runs of a task have live process groups: a claim that follows a
\* resume starts its process in the workspace the earlier run worked in.
OneProcess == \A e, f \in Runs : proc[e] = "alive" /\ proc[f] = "alive" => e = f

\* The reap receipt is the truth: a row with reaped_at has no live process
\* group.  Drain readiness and the resume gate both trust it.
ReceiptProven == row.reaped_at => \A e \in Runs : proc[e] # "alive"

\* While the row says that a task runs or waits for input, the run of its
\* latest claim is the one in the active slot: the one that cancel, send and
\* respond find.
RunningIsActive == row.phase \in AcceptingPhases => active = row.owner_epoch

\* A task that was started and is not finished has a thread that works on it:
\* nothing else would ever make it terminal.  (A queued task that is being
\* cancelled has its canceller, which works for no run.)
SomebodyWorks ==
  row.phase \in ActivePhases =>
    \E t \in Threads : Works(t, row.owner_epoch) \/ Works(t, 0)

\* What is registered has a thread that will release it: a run in the active
\* slot, a handle in the starting slot, a lock, the write state of a sink.
NothingLeaks ==
  /\ active # 0 => \E t \in Threads : Works(t, active)
  /\ starting # 0 => Works(RunThread(starting), starting)
  /\ \A e \in Runs : /\ op[e] # Nobody => Works(op[e], e)
                     /\ sink[e].writer = "thread" => \E t \in Threads : th[t].gate = e

\* Rows and slots agree: a running row is found through the active slot, and
\* every slot, lock and write state has a thread that will release it.
SlotsAgree == RunningIsActive /\ NothingLeaks

\* A task is COMPLETED only if the last turn of its latest run completed.
CompletedTurn ==
  row.outcome = "COMPLETED" => turn[row.owner_epoch] = "completed"

OwnRunOnly(t) ==
  (/\ th'[t] # th[t] /\ th[t].epoch # 0 /\ ~At(t, "ask")
   /\ tasks' # tasks)
    => row.owner_epoch = th[t].epoch



\* A message that was accepted is delivered or failed, it does not wait for
\* ever: if the turns end, also the one it waits for.
MessageSettles ==
  \A m \in MessageIds :
    messages[m].state \in OpenMessage ~> messages[m].state \in {"DELIVERED", "FAILED"}
=============================================================================
