-------------------------- MODULE SchedulerProofs ---------------------------
(***************************************************************************)
(* Proofs about Scheduler: the threads keep their types, and whatever they *)
(* do, the tables go through a behaviour of TaskStore.  So every property  *)
(* that TaskStoreProofs proves of the store holds under the threads of the *)
(* daemon as well.                                                         *)
(***************************************************************************)
EXTENDS SchedulerThreads, TaskStoreProofs

-----------------------------------------------------------------------------
(* The tables: every step of a thread is a step of TaskStore or changes no *)
(* table                                                                   *)

\* A method of the store, called for the task, is a step of the store.
LEMMA TaskCall == TaskStep(Task) => Next
  BY Constants DEF Next

LEMMA ResultCall ==
  ASSUME NEW outcome \in Outcomes, NEW text \in Texts,
         StoreTaskResultWithReason(Task, [outcome |-> outcome, text |-> text])
  PROVE  Next
  BY Constants, TaskCall DEF TaskStep

LEMMA MessageCall == ASSUME NEW m \in MessageIds, MessageStep(m) PROVE Next
  BY DEF Next

LEMMA RequestCall == ASSUME NEW q \in RequestIds, RequestStep(q) PROVE Next
  BY DEF Next

\* What a thread proposes for storage is a result of the table.
LEMMA ProposalOK ==
  ASSUME ThreadsOK, NEW t \in Threads, At(t, "persist")
  PROVE  \E outcome \in Outcomes, text \in Texts :
           Proposal(t) = [outcome |-> outcome, text |-> text]
<1>1. th[t] \in Thread /\ th[t].outcome \in Outcomes
  BY DEF ThreadsOK, Ready, Decided, At
<1>2. CASE th[t].try = "invalid"
  BY <1>2, Constants DEF Proposal, Outcomes
<1>3. CASE th[t].try # "invalid"
  BY <1>1, <1>3 DEF Proposal, Thread
<1> QED
  BY <1>2, <1>3

LEMMA FinishStores ==
  ASSUME SchedulerInv, NEW t \in Threads, Finish(t)
  PROVE  [Next]_vars
<1>1. CASE BeginCleanup(t)
  BY <1>1, TaskCall DEF BeginCleanup, TaskStep
<1>2. CASE Record(t)
  <2>1. th[t].gate \in Epochs
    BY DEF SchedulerInv, ThreadsOK, Thread
  <2>2. ASSUME NEW s \in SourceSeqs, AppendLifecycle(Task, th[t].gate, s, None, None)
        PROVE  Next
    BY <2>1, <2>2, TaskCall DEF TaskStep
  <2> QED
    BY <1>2, <2>2 DEF Record
<1>3. CASE Persist(t)
  BY <1>3, ProposalOK, ResultCall DEF Persist, Stored, Refused, SchedulerInv
<1>4. CASE PersistCancelled(t)
  <2>1. "CANCELLED" \in Outcomes /\ "bounded" \in Texts
    BY Constants DEF Outcomes
  <2> QED
    BY <1>4, <2>1, ResultCall DEF PersistCancelled, Stored, Refused, CancelledResult
<1>5. CASE Receipt(t)
  BY <1>5, TaskCall DEF Receipt, TaskStep
<1> QED
  BY Zenon, <1>1, <1>2, <1>3, <1>4, <1>5 DEF Finish, OwnRuntime, BeginStopping,
     StopAndReap, Reread, Adjudicate, Seal, Precedence, AfterRefusal, Release,
     Unlock

LEMMA DeliverStores ==
  ASSUME SchedulerInv, NEW t \in Threads, Deliver(t)
  PROVE  [Next]_vars
<1>1. CASE ClaimMessage(t)
  BY Zenon, <1>1, Constants, MessageCall DEF ClaimMessage, MessageStep
<1>2. CASE SettleMessage(t)
  <2>1. At(t, "settle_message") \/ At(t, "fail_message") => th[t].message \in MessageIds
    BY DEF SchedulerInv, ThreadsOK, Ready, Delivering, At
  <2> QED
    BY <1>2, <2>1, MessageCall DEF SettleMessage, MessageStep
<1> QED
  BY <1>1, <1>2 DEF Deliver, HandOver

LEMMA RunStores ==
  ASSUME SchedulerInv, NEW e \in Runs, NEW t \in Threads,
         StartClaim(t, e) \/ Monitor(t, e) \/ StartReady(e) \/ Runtime(e)
  PROVE  [Next]_vars
<1>1. CASE Undecodable(t, e)
  <2>1. "RESULT_INVALID" \in Outcomes /\ "unstarted" \in Texts
    BY Constants DEF Outcomes
  <2> QED
    BY <1>1, <2>1, ResultCall DEF Undecodable
<1>2. CASE Mark(t, e)
  <2>1. e \in Epochs
    BY Constants
  <2> QED
    BY Zenon, <1>2, <2>1, TaskCall DEF Mark, TaskStep
<1>3. CASE StartReady(e)
  BY <1>3, TaskCall DEF StartReady, TaskStep
<1>4. CASE InsertRequest(e)
  BY <1>4, Constants, RequestCall DEF InsertRequest, RequestStep
<1>5. CASE Monitor(t, e)
  BY Zenon, <1>5 DEF Monitor, Watch, Observe, HandleTransportFailure, ForceCleanup,
     CommitFault, TerminalPublished, SinkFailed, TurnBoundary
<1> QED
  BY Zenon, <1>1, <1>2, <1>3, <1>4, <1>5 DEF StartClaim, SpawnFails, Spawn,
     RegisterStarting, Recheck, BootstrapFails, Activate, Unmarked, Confirm,
     FirstSend, Runtime, FirstTurnStarts, TurnEnds, ProcessDies, PublishExit,
     EmitRequest, DropRequest, EmitRecord

LEMMA ControlStores ==
  ASSUME SchedulerInv, NEW t \in Threads,
         Control(t) \/ GiveUp(t) \/ KillStarting(t)
  PROVE  [Next]_vars
<1>1. CASE Ask(t)
  BY <1>1, TaskCall DEF Ask, TaskStep
<1>2. CASE Abandon(t)
  <2>1. "CANCELLED" \in Outcomes /\ "unstarted" \in Texts
    BY Constants DEF Outcomes
  <2> QED
    BY <1>2, <2>1, ResultCall DEF Abandon, Stored, Refused
<1>3. CASE GiveUp(t)
  BY <1>3, TaskCall DEF GiveUp, TaskStep
<1> QED
  BY <1>1, <1>2, <1>3 DEF Control, LookUp, Shut, LockForStop, Route, KillStarting

LEMMA RespondStores ==
  ASSUME SchedulerInv, NEW t \in Threads, Respond(t)
  PROVE  [Next]_vars
<1>1. ReleaseAnswer => [Next]_vars
  BY Constants, RequestCall DEF ReleaseAnswer, RequestStep
<1>2. CASE ClaimAnswer(t)
  BY <1>2, Constants, RequestCall DEF ClaimAnswer, RequestStep
<1>3. CASE VerifyAnswer(t) \/ TakeBack(t)
  BY <1>1, <1>3 DEF VerifyAnswer, TakeBack
<1>4. CASE CompleteAnswer(t)
  BY <1>4, Constants, RequestCall DEF CompleteAnswer, RequestStep
<1> QED
  BY <1>2, <1>3, <1>4 DEF Respond, FindRequest, LockForAnswer, CheckAnswer,
     Answer, FailClosedAnswer

LEMMA SendStores ==
  ASSUME SchedulerInv, NEW t \in Threads, Send(t)
  PROVE  [Next]_vars
<1>1. CASE Resume(t)
  BY <1>1, TaskCall DEF Resume, TaskStep
<1>2. CASE Insert(t)
  BY Zenon, <1>2, Constants, MessageCall DEF Insert, MessageStep
<1> QED
  BY <1>1, <1>2 DEF Send, FindRun, LockForSend, CheckSend, Flush

LEMMA SubmitStores == Submit => [Next]_vars
  BY TaskCall DEF Submit, TaskStep, Next
-----------------------------------------------------------------------------
(* The memory: slots, gates, locks, processes, publishers and sinks        *)

\* Updates that keep a function over the runs well typed.
LEMMA ClosedOK == ASSUME MemoryOK, NEW e PROVE Closed(e) \in [Runs -> Lives]
  BY Zenon DEF MemoryOK, Closed, Lives

LEMMA FreedOK ==
  ASSUME MemoryOK, NEW t PROVE Freed(t) \in [Runs -> Threads \cup {Nobody}]
  BY DEF MemoryOK, Freed

LEMMA LocksOK ==
  ASSUME MemoryOK, NEW t \in Threads, NEW e, Locks(t, e)
  PROVE  op' \in [Runs -> Threads \cup {Nobody}]
  BY Zenon DEF MemoryOK, Locks

LEMMA WriterOK ==
  ASSUME MemoryOK, NEW g, NEW w \in {"nobody", "pump", "thread"}
  PROVE  [sink EXCEPT ![g].writer = w] \in [Runs -> Sink]
  BY Zenon DEF MemoryOK, Sink

LEMMA StartMemory ==
  ASSUME SchedulerInv, NEW e \in Runs, NEW t \in Threads,
         StartClaim(t, e) \/ StartReady(e) \/ Submit
  PROVE  MemoryOK'
<1>0. MemoryOK /\ e \in Epochs /\ 0 \in Epochs
  BY Constants DEF SchedulerInv
<1>1. CASE Spawn(t, e)
  BY <1>0, <1>1 DEF MemoryOK, Spawn, Processes
<1>2. CASE RegisterStarting(t, e) \/ Recheck(t, e) \/ BootstrapFails(t, e) \/ Activate(t, e)
  BY <1>0, <1>2 DEF MemoryOK, RegisterStarting, Recheck, Unregistered,
     BootstrapFails, Activate
<1>3. CASE FirstSend(t, e)
  BY <1>0, <1>3 DEF MemoryOK, FirstSend
<1> QED
  BY Zenon, <1>0, <1>1, <1>2, <1>3 DEF MemoryOK, StartClaim, Undecodable, SpawnFails,
     Mark, Unmarked, Confirm, StartReady, Submit, memory

LEMMA FinishMemory ==
  ASSUME SchedulerInv, NEW t \in Threads, Finish(t)
  PROVE  MemoryOK'
<1>0. MemoryOK /\ 0 \in Epochs /\ th[t] \in Thread
  BY Constants DEF SchedulerInv, ThreadsOK
<1>1. CASE OwnRuntime(t) \/ Adjudicate(t)
  BY Zenon, <1>0, <1>1, ClosedOK DEF MemoryOK, OwnRuntime, Adjudicate
<1>2. CASE BeginStopping(t)
  BY <1>0, <1>2 DEF MemoryOK, BeginStopping, Owners
<1>3. CASE StopAndReap(t)
  <2>1. th[t].kind \in Terminals /\ "Lost" \in Terminals /\ Terminals \subseteq Owners
    BY <1>0 DEF Thread, Terminals, Proven, Owners
  <2>2. PICK found \in {th[t].kind} \cup {"Lost" : f \in Faults \cap {"unproven"}} :
          LET e == th[t].epoch
              published == IF owner[e] \in Terminals THEN owner[e] ELSE found
          IN /\ proc' = [proc EXCEPT ![e] = IF found = "Lost" THEN @ ELSE "dead"]
             /\ owner' = [owner EXCEPT ![e] = published]
    BY Zenon, <1>3 DEF StopAndReap
  <2>3. found \in Terminals
    BY <2>1
  <2>4. proc' \in [Runs -> Processes]
    BY Zenon, <1>0, <2>2 DEF MemoryOK, Processes
  <2>5. owner' \in [Runs -> Owners]
    BY Zenon, <1>0, <2>1, <2>2, <2>3 DEF MemoryOK
  <2> QED
    BY <1>0, <1>3, <2>4, <2>5 DEF MemoryOK, StopAndReap
<1>4. CASE Seal(t)
  BY Zenon, <1>0, <1>4 DEF MemoryOK, Seal, Lives
<1>5. CASE Record(t) \/ AfterRefusal(t)
  <2>1. \/ UNCHANGED sink
        \/ \E w \in {"nobody", "thread"} :
             sink' = [sink EXCEPT ![th[t].gate].writer = w]
    BY <1>5, Zenon DEF Record, AfterRefusal, FallBack
  <2>2. CASE UNCHANGED sink
    BY <1>0, <1>5, <2>2 DEF MemoryOK, Record, AfterRefusal
  <2>3. ASSUME NEW w \in {"nobody", "thread"},
               sink' = [sink EXCEPT ![th[t].gate].writer = w]
        PROVE  sink' \in [Runs -> Sink]
    BY ZenonT(40), <1>0, <2>3, WriterOK
  <2> QED
    BY ZenonT(40), <1>0, <1>5, <2>1, <2>2, <2>3 DEF MemoryOK, Record, AfterRefusal
<1>6. CASE Receipt(t)
  BY <1>0, <1>6, SMTT(30) DEF MemoryOK, Receipt, FallBack, Sink
<1>7. CASE Release(t)
  BY <1>0, <1>7, FreedOK DEF MemoryOK, Release, Lives
<1>8. CASE Unlock(t)
  BY <1>0, <1>8, FreedOK DEF MemoryOK, Unlock
<1> QED
  BY Zenon, <1>0, <1>1, <1>2, <1>3, <1>4, <1>5, <1>6, <1>7, <1>8 DEF MemoryOK, Finish,
     BeginCleanup, Reread, Persist, Precedence, PersistCancelled, memory

LEMMA MonitorMemory ==
  ASSUME SchedulerInv, NEW e \in Runs, NEW t \in Threads,
         Monitor(t, e) \/ Deliver(t)
  PROVE  MemoryOK'
<1>0. MemoryOK
  BY DEF SchedulerInv
<1>1. CASE Watch(t, e)
  BY <1>0, <1>1, FreedOK DEF MemoryOK, Watch
<1>2. CASE HandleTransportFailure(t, e)
  BY <1>0, <1>2, ClosedOK DEF MemoryOK, HandleTransportFailure
<1>3. CASE ForceCleanup(t, e)
  BY <1>0, <1>3 DEF MemoryOK, ForceCleanup, Processes, Owners, Terminals, Proven
<1>4. CASE CommitFault(t, e) \/ SinkFailed(t, e)
  BY <1>0, <1>4, LocksOK, ClosedOK DEF MemoryOK, CommitFault, SinkFailed
<1>5. CASE TerminalPublished(t, e) \/ TurnBoundary(t, e)
  <2>1. op' \in [Runs -> Threads \cup {Nobody}]
    BY <1>0, <1>5, LocksOK DEF TerminalPublished, TurnBoundary
  <2>2. life' \in [Runs -> Lives]
    BY <1>0, <1>5 DEF MemoryOK, TerminalPublished, TurnBoundary, NaturalCompletion, Lives
  <2> QED
    BY <1>0, <1>5, <2>1, <2>2 DEF MemoryOK, TerminalPublished, TurnBoundary
<1>6. CASE HandOver(t)
  BY Zenon, <1>0, <1>6 DEF MemoryOK, HandOver, Turns
<1> QED
  BY Zenon, <1>0, <1>1, <1>2, <1>3, <1>4, <1>5, <1>6 DEF MemoryOK, Monitor, Observe,
     Deliver, ClaimMessage, SettleMessage, memory

LEMMA CallerMemory ==
  ASSUME SchedulerInv, NEW t \in Threads,
         Control(t) \/ Respond(t) \/ Send(t) \/ GiveUp(t) \/ KillStarting(t)
  PROVE  MemoryOK'
<1>0. MemoryOK
  BY DEF SchedulerInv
<1>1. CASE Shut(t) \/ Route(t)
  BY <1>0, <1>1, ClosedOK, SMTT(30) DEF MemoryOK, Shut, Route
<1>2. CASE LockForStop(t) \/ LockForAnswer(t) \/ LockForSend(t)
  BY <1>0, <1>2, LocksOK DEF MemoryOK, LockForStop, LockForAnswer, LockForSend
<1>3. CASE KillStarting(t)
  BY Zenon, <1>0, <1>3 DEF MemoryOK, KillStarting, Processes
<1>4. CASE LookUp(t) \/ Ask(t) \/ Abandon(t) \/ GiveUp(t)
  BY <1>0, <1>4 DEF MemoryOK, LookUp, Ask, Abandon, GiveUp, memory
<1>5. CASE /\ Respond(t)
           /\ ~LockForAnswer(t)
  BY Zenon, <1>0, <1>5 DEF MemoryOK, Respond, FindRequest, CheckAnswer, ClaimAnswer,
     VerifyAnswer, Answer, TakeBack, FailClosedAnswer, CompleteAnswer, memory
<1>6. CASE Resume(t) \/ FindRun(t) \/ CheckSend(t) \/ Insert(t) \/ Flush(t)
  BY Zenon, <1>0, <1>6 DEF MemoryOK, Resume, FindRun, CheckSend, Insert, Flush, memory
<1> QED
  BY <1>1, <1>2, <1>3, <1>4, <1>5, <1>6 DEF Control, Send

LEMMA RuntimeMemory ==
  ASSUME SchedulerInv, NEW e \in Runs, Runtime(e)
  PROVE  MemoryOK'
<1>0. MemoryOK
  BY DEF SchedulerInv
<1>1. CASE FirstTurnStarts(e) \/ TurnEnds(e)
  BY <1>0, <1>1 DEF MemoryOK, FirstTurnStarts, TurnEnds, Turns
<1>2. CASE ProcessDies(e)
  BY <1>0, <1>2 DEF MemoryOK, ProcessDies, Processes
<1>3. CASE PublishExit(e)
  BY <1>0, <1>3 DEF MemoryOK, PublishExit, Owners, Terminals, Proven
<1>4. CASE EmitRequest(e) \/ DropRequest(e) \/ EmitRecord(e)
  <2>1. CASE EmitRequest(e)
    BY Zenon, <1>0, <2>1, WriterOK DEF MemoryOK, EmitRequest
  <2>2. CASE DropRequest(e)
    <3>1. [sink EXCEPT ![e].writer = "nobody", ![e].error = TRUE] \in [Runs -> Sink]
      BY ZenonT(40), <1>0 DEF MemoryOK, Sink
    <3>2. [sink EXCEPT ![e].writer = "nobody"] \in [Runs -> Sink]
      BY Zenon, <1>0, WriterOK
    <3>3. sink' \in [Runs -> Sink]
      BY <2>2, <3>1, <3>2 DEF DropRequest
    <3> QED
      BY <1>0, <2>2, <3>3 DEF MemoryOK, DropRequest
  <2>3. CASE EmitRecord(e)
    <3>1. /\ [sink EXCEPT ![e].error = TRUE] \in [Runs -> Sink]
          /\ [sink EXCEPT ![e].fault = TRUE] \in [Runs -> Sink]
      BY Zenon, <1>0 DEF MemoryOK, Sink
    <3>2. sink' \in [Runs -> Sink]
      BY Zenon, <2>3, <3>1 DEF EmitRecord
    <3> QED
      BY <1>0, <2>3, <3>2 DEF MemoryOK, EmitRecord
  <2> QED
    BY <1>4, <2>1, <2>2, <2>3
<1>5. CASE InsertRequest(e)
  <2>1. (Ingress(e) /\ ~Appendable(e)) \in BOOLEAN
    BY Zenon DEF Ingress, Appendable
  <2> QED
    BY ZenonT(40), <1>0, <1>5, <2>1 DEF MemoryOK, InsertRequest, Sink
<1> QED
  BY <1>1, <1>2, <1>3, <1>4, <1>5 DEF Runtime
-----------------------------------------------------------------------------
(* The theorems                                                            *)

LEMMA SchedulerInvInit == SchedulerInit => SchedulerInv
<1> SUFFICES ASSUME SchedulerInit PROVE ThreadsOK /\ MemoryOK
  BY DEF SchedulerInv
<1>1. ThreadsOK
  BY IdleOK DEF SchedulerInit, ThreadsOK
<1>2. MemoryOK
  BY Constants DEF SchedulerInit, MemoryOK, Lives, Processes, Owners, Turns, Sink
<1> QED
  BY <1>1, <1>2

\* Who may take a step.
LEMMA Actors ==
  ASSUME SchedulerNext
  PROVE  \/ Submit
         \/ \E e \in Runs : StartReady(e) \/ Runtime(e)
         \/ \E e \in Runs : \E t \in Threads :
              StartClaim(t, e) \/ Monitor(t, e) \/ Finish(t) \/ Deliver(t)
         \/ \E t \in Threads : \/ Finish(t) \/ Deliver(t) \/ Control(t) \/ Respond(t)
                               \/ Send(t) \/ GiveUp(t) \/ KillStarting(t)
<1>1. \A e \in Runs : RunThread(e) \in Threads
  BY DEF Threads
<1>2. \A c \in Callers : Caller(c) \in Threads
  BY DEF Threads
<1> QED
  BY <1>1, <1>2 DEF SchedulerNext, RunStep, CallerStep, ThreadStep

LEMMA SchedulerStep ==
  ASSUME TypeOK, SchedulerInv, SchedulerNext
  PROVE  SchedulerInv' /\ [Next]_vars
<1>1. CASE Submit
  <2>1. RunThread(1) \in Threads
    BY ARun DEF Threads
  <2> QED
    BY <1>1, <2>1, ARun, SubmitStores, OtherThreads, StartMemory DEF SchedulerInv
<1>2. ASSUME NEW e \in Runs, StartReady(e) \/ Runtime(e)
      PROVE  SchedulerInv' /\ [Next]_vars
  <2>1. RunThread(e) \in Threads
    BY DEF Threads
  <2> QED
    BY <1>2, <2>1, RunStores, OtherThreads, StartMemory, RuntimeMemory DEF SchedulerInv
<1>3. ASSUME NEW e \in Runs, NEW t \in Threads, StartClaim(t, e)
      PROVE  SchedulerInv' /\ [Next]_vars
  BY <1>3, RunStores, StartClaimThreads, StartMemory DEF SchedulerInv
<1>4. ASSUME NEW e \in Runs, NEW t \in Threads, Monitor(t, e)
      PROVE  SchedulerInv' /\ [Next]_vars
  BY <1>4, RunStores, MonitorThreads, MonitorMemory DEF SchedulerInv
<1>5. ASSUME NEW t \in Threads, Finish(t) PROVE SchedulerInv' /\ [Next]_vars
  BY <1>5, FinishStores, FinishThreads, FinishMemory DEF SchedulerInv
<1>6. ASSUME NEW t \in Threads, Deliver(t) PROVE SchedulerInv' /\ [Next]_vars
  BY <1>6, ARun, DeliverStores, DeliverThreads, MonitorMemory, SMTT(30) DEF SchedulerInv
<1>7. ASSUME NEW t \in Threads, Control(t) \/ Respond(t) \/ Send(t)
      PROVE  SchedulerInv' /\ [Next]_vars
  BY <1>7, ControlStores, RespondStores, SendStores, ControlThreads,
     RespondThreads, SendThreads, CallerMemory DEF SchedulerInv
<1>8. ASSUME NEW t \in Threads, GiveUp(t) \/ KillStarting(t)
      PROVE  SchedulerInv' /\ [Next]_vars
  BY <1>8, ARun, ControlStores, OtherThreads, CallerMemory DEF SchedulerInv
<1> QED
  BY <1>1, <1>2, <1>3, <1>4, <1>5, <1>6, <1>7, <1>8, Actors

\* However the threads of the daemon interleave, what they do to the tables is
\* a behaviour of TaskStore: each step is one call of a method of the store, or
\* none.  So the theorems about the store hold while the daemon runs.
THEOREM SchedulerImplementsStore == SchedulerSpec => Spec
<1>1. SchedulerInit => Init /\ TypeOK /\ SchedulerInv
  BY SchedulerInvInit, TypeInit DEF SchedulerInit
<1>2. TypeOK /\ SchedulerInv /\ [SchedulerNext]_svars
        => (TypeOK /\ SchedulerInv)' /\ [Next]_vars
  <2> SUFFICES ASSUME TypeOK, SchedulerInv, [SchedulerNext]_svars
               PROVE  SchedulerInv' /\ [Next]_vars
    BY TypeStep
  <2>1. CASE SchedulerNext
    BY <2>1, SchedulerStep
  <2>2. CASE UNCHANGED svars
    BY <2>2 DEF svars, memory, SchedulerInv, ThreadsOK, MemoryOK
  <2> QED
    BY <2>1, <2>2
<1> QED
  BY <1>1, <1>2, PTL DEF SchedulerSpec, Spec

\* Every thread is where its code can be, with locals of their types: in
\* particular, a thread that stores a result has decided an outcome.
THEOREM SchedulerTypeCorrect == SchedulerSpec => []SchedulerTypeOK
<1>1. SchedulerInit => TypeOK /\ SchedulerInv
  BY SchedulerInvInit, TypeInit DEF SchedulerInit
<1>2. TypeOK /\ SchedulerInv /\ [SchedulerNext]_svars => (TypeOK /\ SchedulerInv)'
  <2> SUFFICES ASSUME TypeOK, SchedulerInv, [SchedulerNext]_svars
               PROVE  SchedulerInv' /\ [Next]_vars
    BY TypeStep
  <2>1. CASE SchedulerNext
    BY <2>1, SchedulerStep
  <2>2. CASE UNCHANGED svars
    BY <2>2 DEF svars, memory, SchedulerInv, ThreadsOK, MemoryOK
  <2> QED
    BY <2>1, <2>2
<1>3. SchedulerInv => SchedulerTypeOK
  BY DEF SchedulerInv, ThreadsOK, MemoryOK, SchedulerTypeOK
<1> QED
  BY <1>1, <1>2, <1>3, PTL DEF SchedulerSpec
=============================================================================
