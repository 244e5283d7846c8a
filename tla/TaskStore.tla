----------------------------- MODULE TaskStore ------------------------------
(***************************************************************************)
(* The durable store of the daemon (crates/external-store): the tables     *)
(* tasks, task_results, messages, pending_requests, events and the task id *)
(* allocator.  Every public method holds the one connection mutex and runs *)
(* one IMMEDIATE transaction, so every method is one action.  The callers  *)
(* are left unconstrained: any method may be called with any arguments at  *)
(* any time, which is what the threads of the daemon can at most do.  A    *)
(* call the method refuses (Conflict, InvalidState, Ok(false), Ok(None))   *)
(* changes nothing and is a stuttering step.                               *)
(***************************************************************************)
EXTENDS TaskRows, FiniteSets

CONSTANTS
  FirstId, LastId,     \* the range of the task id allocator
  Workspaces,          \* values of the workspace_path column
  RepositoryOf,        \* the repository column, by workspace
  Limit,               \* per_workspace_max_agents
  Texts,               \* final texts of a result (its digest, with the outcome)
  MessageIds,          \* ids of messages; bounds inserts and so resumes
  RequestIds,          \* ids of pending requests
  Correlations,        \* wire ids a runtime gives its requests
  SourceSeqs,          \* source sequence numbers of lifecycle records
  ProposedOutcomes     \* outcomes a caller may propose

Ids == FirstId..LastId
Modes == {"queue", "steer"}
OpenMessage == {"QUEUED", "SENDING"}
OpenRequest == {"PENDING", "SENDING"}
MessageStates == OpenMessage \cup {"DELIVERED", "FAILED"}
RequestStates == OpenRequest \cup {"RESPONDED"}
\* A slot of task_results that holds no row has the outcome None.
Results == [outcome : Outcomes \cup {None}, text : Texts]
NoResult == [outcome |-> None, text |-> CHOOSE t \in Texts : TRUE]

ASSUME StoreAssumption ==
  /\ FirstId \in Nat /\ LastId \in Nat /\ FirstId <= LastId
  /\ Limit \in Nat
  /\ IsFiniteSet(MessageIds)
  /\ SourceSeqs \subseteq Nat
  /\ ProposedOutcomes \subseteq Outcomes
  /\ Workspaces # {} /\ Texts # {} /\ Correlations # {}

VARIABLES
  next_id,     \* task_id_allocator.next_id
  tasks,       \* [Ids -> Row]
  placed,      \* [Ids -> [workspace, created]]: the columns nothing updates
  results,     \* [Ids -> Results]: the table task_results
  messages,    \* [MessageIds -> message row]
  requests,    \* [RequestIds -> pending request row]
  events       \* set of rows of the table events

vars == <<next_id, tasks, placed, results, messages, requests, events>>

Message == [state : MessageStates \cup {"ABSENT"}, agent_id : Ids,
            mode : Modes, created : Nat]
Request == [state : RequestStates \cup {"ABSENT"}, agent_id : Ids,
            correlation_id : Correlations]
Event == [agent_id : Ids, runtime : Nat, seq : Nat, source_seq : SourceSeqs]
Place == [workspace : Workspaces, created : Nat]

TypeOK ==
  /\ next_id \in FirstId..(LastId + 1)
  /\ tasks \in [Ids -> Row]
  /\ placed \in [Ids -> Place]
  /\ results \in [Ids -> Results]
  /\ messages \in [MessageIds -> Message]
  /\ requests \in [RequestIds -> Request]
  /\ events \subseteq Event

Init ==
  /\ next_id = FirstId
  /\ tasks = [a \in Ids |-> AbsentRow]
  /\ placed \in [Ids -> {[workspace |-> CHOOSE w \in Workspaces : TRUE,
                          created |-> 0]}]
  /\ results = [a \in Ids |-> NoResult]
  /\ messages \in [MessageIds -> {[state |-> "ABSENT", agent_id |-> FirstId,
                                   mode |-> "queue", created |-> 0]}]
  /\ requests \in [RequestIds -> {[state |-> "ABSENT", agent_id |-> FirstId,
                       correlation_id |-> CHOOSE c \in Correlations : TRUE]}]
  /\ events = {}
-----------------------------------------------------------------------------
(* Helpers: what the WHERE clauses and the shared statements say.          *)

Exists(a) == tasks[a].phase # "ABSENT"

NonterminalIn(w) == {a \in Ids : /\ tasks[a].phase \in NonterminalPhases
                                 /\ placed[a].workspace = w}

ActiveIn(repository) ==
  {a \in Ids : /\ tasks[a].phase \in ActivePhases
               /\ RepositoryOf[placed[a].workspace] = repository}

OpenMessages(a) == {m \in MessageIds : /\ messages[m].agent_id = a
                                       /\ messages[m].state \in OpenMessage}
OpenRequests(a) == {q \in RequestIds : /\ requests[q].agent_id = a
                                       /\ requests[q].state \in OpenRequest}

\* created_at, rowid: rows are never deleted from messages.
NextMessageRow == Cardinality({m \in MessageIds : messages[m].state # "ABSENT"})

\* settle_terminal_commands
SettledMessages(a) ==
  [m \in MessageIds |-> IF m \in OpenMessages(a)
                          THEN [messages[m] EXCEPT !.state = "FAILED"]
                          ELSE messages[m]]
SettledRequests(a) ==
  [q \in RequestIds |-> IF q \in OpenRequests(a)
                          THEN [requests[q] EXCEPT !.state = "ABSENT"]
                          ELSE requests[q]]
SettleTerminalCommands(a) ==
  /\ messages' = SettledMessages(a)
  /\ requests' = SettledRequests(a)

\* apply_terminal, on the row as the enclosing method left it
ApplyTerminal(a, row, outcome) ==
  /\ tasks' = [tasks EXCEPT ![a] = Terminated(row, outcome)]
  /\ SettleTerminalCommands(a)
-----------------------------------------------------------------------------
(* tasks.rs                                                                *)

ReserveTaskId ==
  /\ next_id <= LastId
  /\ next_id' = next_id + 1
  /\ UNCHANGED <<tasks, placed, results, messages, requests, events>>

\* Ids come from the allocator; a reserved id may never be enqueued.
EnqueueTask(a, w) ==
  /\ a < next_id
  /\ ~Exists(a)
  /\ NonterminalIn(w) = {}
  /\ tasks' = [tasks EXCEPT ![a] = NewRow]
  /\ placed' = [placed EXCEPT ![a] =
                  [workspace |-> w, created |-> Cardinality({b \in Ids : Exists(b)})]]
  /\ UNCHANGED <<next_id, results, messages, requests, events>>

Claimable(a) ==
  /\ tasks[a].phase = "QUEUED"
  /\ ~Intent(tasks[a])
  /\ Cardinality(ActiveIn(RepositoryOf[placed[a].workspace])) < Limit

Claim(a) ==
  /\ tasks' = [tasks EXCEPT ![a] = Claimed(@)]
  /\ UNCHANGED <<next_id, placed, results, messages, requests, events>>

ClaimNext(a) ==
  /\ Claimable(a)
  /\ \A b \in Ids : Claimable(b) => placed[a].created <= placed[b].created
  /\ Claim(a)

ClaimSpecific(a) == Claimable(a) /\ Claim(a)

CancelUnstartedIfStillFresh(a) ==
  /\ ~tasks[a].session_id
  /\ tasks[a].phase \in {"QUEUED", "PREPARING"}
  /\ ~tasks[a].stop_requested
  /\ tasks' = [tasks EXCEPT ![a] = StopRequested(@, FALSE, TRUE)]
  /\ SettleTerminalCommands(a)
  /\ UNCHANGED <<next_id, placed, results, events>>

MarkSessionRunning(a, epoch, hasIdentity, hasSession) ==
  /\ tasks[a].phase = "PREPARING"
  /\ tasks[a].owner_epoch = epoch
  /\ tasks' = [tasks EXCEPT ![a] = Started(@, hasIdentity, hasSession)]
  /\ UNCHANGED <<next_id, placed, results, messages, requests, events>>
-----------------------------------------------------------------------------
(* lifecycle.rs                                                            *)

\* A record seen before (same runtime, same source sequence) returns its old
\* sequence number; the primary key refuses a sequence number in use.
AppendLifecycle(a, epoch, source, turn, terminal) ==
  LET seq == tasks[a].last_event_seq + 1
      row == Recorded(tasks[a], turn)
  IN /\ Exists(a)
     /\ tasks[a].phase # "TERMINAL"
     /\ tasks[a].owner_epoch = epoch
     /\ \A e \in events : (e.agent_id = a /\ e.runtime = epoch)
                            => (e.source_seq # source /\ e.seq # seq)
     /\ events' = events \cup {[agent_id |-> a, runtime |-> epoch,
                                seq |-> seq, source_seq |-> source]}
     /\ \/ /\ terminal = None
           /\ tasks' = [tasks EXCEPT ![a] = row]
           /\ UNCHANGED <<messages, requests>>
        \/ /\ terminal # None
           /\ ApplyTerminal(a, row, terminal)
     /\ UNCHANGED <<next_id, placed, results>>

\* fail_claim is the call with RUNTIME_LOST.
TransitionTerminal(a, epoch, outcome) ==
  /\ tasks[a].phase \in NonterminalPhases
  /\ tasks[a].owner_epoch = epoch
  /\ ApplyTerminal(a, tasks[a], outcome)
  /\ UNCHANGED <<next_id, placed, results, events>>

RequestStopInternal(a, close, intent) ==
  /\ Exists(a)
  /\ tasks' = [tasks EXCEPT ![a] = StopRequested(@, close, intent)]
  /\ IF tasks[a].phase = "TERMINAL"
       THEN UNCHANGED <<messages, requests>>
       ELSE SettleTerminalCommands(a)
  /\ UNCHANGED <<next_id, placed, results, events>>

RequestClose(a) == RequestStopInternal(a, TRUE, TRUE)
RequestStop(a) == RequestStopInternal(a, FALSE, TRUE)
RequestRuntimeStop(a) == RequestStopInternal(a, FALSE, FALSE)

NewMessage(a, mode) == [state |-> "QUEUED", agent_id |-> a, mode |-> mode,
                        created |-> NextMessageRow]

\* Faulty variant: no look for a rival in the workspace.
RequeueIntoBusyWorkspace(a, m, mode) ==
  /\ Resumable(tasks[a])
  /\ messages[m].state = "ABSENT"
  /\ results' = [results EXCEPT ![a] = NoResult]
  /\ tasks' = [tasks EXCEPT ![a] = Requeued(@)]
  /\ messages' = [messages EXCEPT ![m] = NewMessage(a, mode)]
  /\ UNCHANGED <<next_id, placed, requests, events>>

RequeueTaskForResumeWithMessage(a, m, mode) ==
  /\ Resumable(tasks[a])
  /\ NonterminalIn(placed[a].workspace) \ {a} = {}
  /\ messages[m].state = "ABSENT"
  /\ results' = [results EXCEPT ![a] = NoResult]
  /\ tasks' = [tasks EXCEPT ![a] = Requeued(@)]
  /\ messages' = [messages EXCEPT ![m] = NewMessage(a, mode)]
  /\ UNCHANGED <<next_id, placed, requests, events>>

ReapTask(a) ==
  /\ tasks[a].phase = "TERMINAL"
  /\ tasks' = [tasks EXCEPT ![a] = Reaped(@)]
  /\ UNCHANGED <<next_id, placed, results, messages, requests, events>>
-----------------------------------------------------------------------------
(* results.rs                                                              *)

\* Faulty variant: the completion gate forgets queued messages.
StorableOverMessages(a, result) ==
  /\ results[a].outcome = None
  /\ tasks[a].phase \in ActivePhases
  /\ result.outcome = "COMPLETED" => OpenRequests(a) = {}
  /\ Intent(tasks[a]) => result.outcome = "CANCELLED"

Storable(a, result) ==
  /\ results[a].outcome = None
  /\ tasks[a].phase \in ActivePhases
  /\ result.outcome = "COMPLETED" => OpenRequests(a) = {} /\ OpenMessages(a) = {}
  /\ Intent(tasks[a]) => result.outcome = "CANCELLED"

StoreTaskResultWithReason(a, result) ==
  /\ Storable(a, result)
  /\ results' = [results EXCEPT ![a] = result]
  /\ ApplyTerminal(a, tasks[a], result.outcome)
  /\ UNCHANGED <<next_id, placed, events>>
-----------------------------------------------------------------------------
(* messages.rs                                                             *)

\* INSERT OR IGNORE: an id in use is left as it is.
InsertMessage(m, a, mode) ==
  /\ tasks[a].phase \in NonterminalPhases
  /\ ~Intent(tasks[a])
  /\ messages[m].state = "ABSENT"
  /\ messages' = [messages EXCEPT ![m] = NewMessage(a, mode)]
  /\ UNCHANGED <<next_id, tasks, placed, results, requests, events>>

QueuedMessages(a) == {m \in OpenMessages(a) : messages[m].state = "QUEUED"}

\* ORDER BY steer first, then created_at and rowid
GoesBefore(m, n) ==
  \/ messages[m].mode = "steer" /\ messages[n].mode = "queue"
  \/ messages[m].mode = messages[n].mode /\ messages[m].created <= messages[n].created

ClaimNextMessage(a, m) ==
  /\ Accepting(tasks[a])
  /\ m \in QueuedMessages(a)
  /\ \A n \in QueuedMessages(a) : GoesBefore(m, n)
  /\ messages' = [messages EXCEPT ![m].state = "SENDING"]
  /\ UNCHANGED <<next_id, tasks, placed, results, requests, events>>

CompleteMessage(m) ==
  /\ messages[m].state = "SENDING"
  /\ messages' = [messages EXCEPT ![m].state = "DELIVERED"]
  /\ UNCHANGED <<next_id, tasks, placed, results, requests, events>>

\* Faulty variant: a failed delivery goes back to the queue.
RetryMessage(m) ==
  /\ messages[m].state \in OpenMessage
  /\ messages' = [messages EXCEPT ![m].state = "QUEUED"]
  /\ UNCHANGED <<next_id, tasks, placed, results, requests, events>>

FailMessage(m) ==
  /\ messages[m].state \in OpenMessage
  /\ messages' = [messages EXCEPT ![m].state = "FAILED"]
  /\ UNCHANGED <<next_id, tasks, placed, results, requests, events>>
-----------------------------------------------------------------------------
(* pending.rs                                                              *)

\* INSERT OR IGNORE with UNIQUE (agent_id, correlation_id): answered rows
\* stay in the table and keep their correlation id taken.
InsertPendingRequest(q, a, correlation) ==
  /\ Accepting(tasks[a])
  /\ requests[q].state = "ABSENT"
  /\ \A p \in RequestIds :
       ~(/\ requests[p].state # "ABSENT"
         /\ requests[p].agent_id = a
         /\ requests[p].correlation_id = correlation)
  /\ requests' = [requests EXCEPT ![q] =
       [state |-> "PENDING", agent_id |-> a, correlation_id |-> correlation]]
  /\ tasks' = [tasks EXCEPT ![a] = InPhase(@, "WAITING_INPUT")]
  /\ UNCHANGED <<next_id, placed, results, messages, events>>

ClaimPendingResponseIfAccepting(a, q) ==
  /\ requests[q].agent_id = a
  /\ requests[q].state = "PENDING"
  /\ Accepting(tasks[a])
  /\ requests' = [requests EXCEPT ![q].state = "SENDING"]
  /\ UNCHANGED <<next_id, tasks, placed, results, messages, events>>

\* Faulty variant: the first answer resumes the task.
CompleteResponseIgnoringOthers(a, q) ==
  /\ requests[q].agent_id = a
  /\ requests[q].state = "SENDING"
  /\ requests' = [requests EXCEPT ![q].state = "RESPONDED"]
  /\ tasks' = IF tasks[a].phase = "WAITING_INPUT" /\ ~Intent(tasks[a])
                THEN [tasks EXCEPT ![a] = InPhase(@, "RUNNING")]
                ELSE tasks
  /\ UNCHANGED <<next_id, placed, results, messages, events>>

\* The last answer lets a task that nobody stops run again.
CompletePendingResponse(a, q) ==
  /\ requests[q].agent_id = a
  /\ requests[q].state = "SENDING"
  /\ requests' = [requests EXCEPT ![q].state = "RESPONDED"]
  /\ tasks' = IF /\ OpenRequests(a) \ {q} = {}
                 /\ tasks[a].phase = "WAITING_INPUT"
                 /\ ~Intent(tasks[a])
                THEN [tasks EXCEPT ![a] = InPhase(@, "RUNNING")]
                ELSE tasks
  /\ UNCHANGED <<next_id, placed, results, messages, events>>

ReleasePendingResponse(a, q) ==
  /\ requests[q].agent_id = a
  /\ requests[q].state = "SENDING"
  /\ requests' = [requests EXCEPT ![q].state = "PENDING"]
  /\ UNCHANGED <<next_id, tasks, placed, results, messages, events>>
-----------------------------------------------------------------------------
(* recovery.rs                                                             *)

\* The phase stays QUEUED: the claim's WHERE clause does the fencing.
FenceQueuedCancellation ==
  /\ tasks' = [a \in Ids |-> IF tasks[a].phase = "QUEUED"
                               THEN Fenced(tasks[a])
                               ELSE tasks[a]]
  /\ UNCHANGED <<next_id, placed, results, messages, requests, events>>

\* all_tasks_reaped: the store's half of activation readiness
AllTasksReaped == \A a \in Ids : Exists(a) => /\ tasks[a].phase = "TERMINAL"
                                              /\ tasks[a].reaped_at
-----------------------------------------------------------------------------
\* An epoch is a claim; after the first, a claim follows a resume, and a
\* resume takes a new message id.
Epochs == 0..(Cardinality(MessageIds) + 1)

TaskStep(a) ==
  \/ \E w \in Workspaces : EnqueueTask(a, w)
  \/ ClaimNext(a)
  \/ ClaimSpecific(a)
  \/ CancelUnstartedIfStillFresh(a)
  \/ \E epoch \in Epochs, hasIdentity, hasSession \in BOOLEAN :
       MarkSessionRunning(a, epoch, hasIdentity, hasSession)
  \/ \E epoch \in Epochs, source \in SourceSeqs, turn \in TurnStates \cup {None},
       terminal \in ProposedOutcomes \cup {None} :
       AppendLifecycle(a, epoch, source, turn, terminal)
  \/ \E epoch \in Epochs, outcome \in ProposedOutcomes :
       TransitionTerminal(a, epoch, outcome)
  \/ RequestClose(a)
  \/ RequestStop(a)
  \/ RequestRuntimeStop(a)
  \/ \E m \in MessageIds, mode \in Modes : RequeueTaskForResumeWithMessage(a, m, mode)
  \/ ReapTask(a)
  \/ \E outcome \in ProposedOutcomes, text \in Texts :
       StoreTaskResultWithReason(a, [outcome |-> outcome, text |-> text])

MessageStep(m) ==
  \/ \E a \in Ids, mode \in Modes : InsertMessage(m, a, mode)
  \/ \E a \in Ids : ClaimNextMessage(a, m)
  \/ CompleteMessage(m)
  \/ FailMessage(m)

RequestStep(q) ==
  \E a \in Ids :
    \/ \E c \in Correlations : InsertPendingRequest(q, a, c)
    \/ ClaimPendingResponseIfAccepting(a, q)
    \/ CompletePendingResponse(a, q)
    \/ ReleasePendingResponse(a, q)

Next ==
  \/ ReserveTaskId
  \/ FenceQueuedCancellation
  \/ \E a \in Ids : TaskStep(a)
  \/ \E m \in MessageIds : MessageStep(m)
  \/ \E q \in RequestIds : RequestStep(q)

Spec == Init /\ [][Next]_vars
-----------------------------------------------------------------------------
(* Safety                                                                  *)

\* Two tasks that are not terminal never share a workspace: enqueue and
\* resume both look for a rival inside their transaction, and nothing else
\* makes a row nonterminal.
WorkspaceExclusive ==
  \A a, b \in Ids :
    (/\ tasks[a].phase \in NonterminalPhases
     /\ tasks[b].phase \in NonterminalPhases
     /\ placed[a].workspace = placed[b].workspace) => a = b

\* A task waits for input exactly while it has a request nobody has answered:
\* wait, list and the completion gate read the one or the other.
WaitingInputAgrees ==
  \A a \in Ids : (tasks[a].phase = "WAITING_INPUT") <=> (OpenRequests(a) # {})

\* A finished task, and a task being cancelled on request, has no message or
\* request left that somebody could still deliver or answer.
StoppedIsSettled ==
  \A a \in Ids :
    (\/ tasks[a].phase = "TERMINAL"
     \/ tasks[a].phase = "CANCELLING" /\ Intent(tasks[a]))
    => OpenMessages(a) = {} /\ OpenRequests(a) = {}

\* A stored result belongs to a terminal row and says what the row says,
\* also after a cancellation changed the outcome and after a resume.
ResultAgrees ==
  \A a \in Ids : results[a].outcome # None
                  => /\ tasks[a].phase = "TERMINAL"
                     /\ tasks[a].outcome = results[a].outcome

\* A row has an outcome exactly when it is terminal (the CHECK of the table,
\* which would abort the transaction of a method that broke it).
OutcomeIffTerminal ==
  \A a \in Ids : (tasks[a].phase = "TERMINAL") <=> (tasks[a].outcome # None)

\* A task somebody asked to stop is never preparing or running.  That is why
\* mark_session_running and complete_pending_response can move a row to
\* RUNNING without asking claim's question again.
StoppedNeverRuns ==
  \A a \in Ids : Intent(tasks[a])
                  => tasks[a].phase \in {"QUEUED", "CANCELLING", "TERMINAL"}

\* The runtime identity of a row is of its latest claim, and a row that is
\* queued or being prepared has none: what start-up recovery relies on when
\* it decides whether there is a process group to reap.
RuntimeOfLatestClaim ==
  \A a \in Ids :
    /\ tasks[a].runtime_agent_id \in {0, tasks[a].owner_epoch}
    /\ tasks[a].process_identity => tasks[a].runtime_agent_id # 0
    /\ tasks[a].phase \in {"QUEUED", "PREPARING"}
         => tasks[a].runtime_agent_id = 0
    /\ tasks[a].phase = "PREPARING" => tasks[a].owner_epoch # 0
    /\ tasks[a].phase \in AcceptingPhases => tasks[a].runtime_agent_id # 0

\* No repository has more claimed tasks at work than the limit.  (Rows in
\* CANCELLING are left out: a queued row gets there without a claim.)
ClaimedWithinLimit ==
  \A w \in Workspaces :
    Cardinality({a \in ActiveIn(RepositoryOf[w]) : tasks[a].phase # "CANCELLING"})
      <= Limit

\* While a claimed run is at work its event cursor covers every event the run
\* has recorded, although a resume starts the cursor of the row from 0 again.
CursorCoversRun ==
  \A e \in events :
    (/\ e.runtime = tasks[e.agent_id].owner_epoch
     /\ tasks[e.agent_id].phase \in {"PREPARING", "RUNNING", "WAITING_INPUT"})
    => e.seq <= tasks[e.agent_id].last_event_seq

\* The tables agree with each other after every transaction: the phase of a
\* row with its result, its open messages and requests, its runtime and the
\* events of its run, over stops, answers and resumes.
TablesAgree ==
  /\ WaitingInputAgrees /\ StoppedIsSettled /\ ResultAgrees
  /\ StoppedNeverRuns /\ RuntimeOfLatestClaim /\ CursorCoversRun

\* Tasks stay apart: enqueue, claim and resume look at the other rows inside
\* their transactions, so no workspace has two unfinished tasks and no
\* repository more claimed ones than its limit.
TasksApart == WorkspaceExclusive /\ ClaimedWithinLimit

IntentDecides(a) ==
  Intent(tasks[a]) =>
    /\ Intent(tasks'[a])
    /\ (tasks[a].phase # "TERMINAL" /\ tasks'[a].phase = "TERMINAL")
         => tasks'[a].outcome = "CANCELLED"

\* Once asked, a cancel or close is never withdrawn, and the step that makes
\* such a task terminal makes it CANCELLED whatever its caller proposed.
IntentWins == [][\A a \in Ids : IntentDecides(a)]_vars

KeptOrResumed(a) ==
  tasks[a].phase = "TERMINAL" =>
    \/ /\ tasks'[a].phase = "TERMINAL"
       /\ tasks'[a].outcome = tasks[a].outcome
       /\ results'[a] = results[a]
    \/ /\ tasks'[a].phase = "QUEUED"
       /\ tasks'[a].session_id
       /\ ~Intent(tasks[a])
       /\ tasks[a].outcome # "CANCELLED"
       /\ tasks[a].process_identity => tasks[a].reaped_at

\* A terminal row keeps its outcome and result.  It leaves TERMINAL only to be
\* queued again with its session, and only if nobody cancelled or closed it
\* and a recorded process is proven reaped.
TerminalIsFinal == [][\A a \in Ids : KeptOrResumed(a)]_vars

CompletedIdle(a) ==
  (results[a].outcome = None /\ results'[a].outcome = "COMPLETED")
    => OpenMessages(a) = {} /\ OpenRequests(a) = {}

\* No step loses what a task was told or has said: a terminal row keeps outcome
\* and result until a legitimate resume, and a result is stored as COMPLETED
\* only when no request waits for an answer and no message for its turn.
NothingForgotten == [][\A a \in Ids : KeptOrResumed(a) /\ CompletedIdle(a)]_vars

GoesForward(m) ==
  /\ messages[m].state = "SENDING"
       => messages'[m].state \in {"SENDING", "DELIVERED", "FAILED"}
  /\ messages[m].state \in {"DELIVERED", "FAILED"} => messages'[m] = messages[m]

\* A message that was handed to a runtime, or settled, is never queued again:
\* an uncertain delivery is not replayed.
NeverReplayed == [][\A m \in MessageIds : GoesForward(m)]_vars
-----------------------------------------------------------------------------
(* What the store promises: TaskLifecycle.                                 *)

StageOf(phase) ==
  CASE phase = "ABSENT" -> "none"
    [] phase = "QUEUED" -> "queued"
    [] phase = "PREPARING" -> "claimed"
    [] phase \in AcceptingPhases -> "running"
    [] phase = "CANCELLING" -> "cancelling"
    [] phase = "TERMINAL" -> "finished"

Lifecycle == INSTANCE TaskLifecycle WITH
  Tasks <- Ids, Cancelled <- "CANCELLED", NoOutcome <- None,
  stage <- [a \in Ids |-> StageOf(tasks[a].phase)],
  stopping <- [a \in Ids |-> Intent(tasks[a])],
  outcome <- [a \in Ids |-> tasks[a].outcome],
  claims <- [a \in Ids |-> tasks[a].owner_epoch]

\* Every method of the store is, for the life of the tasks, one step of the
\* abstract life cycle or none.
ImplementsLifecycle == Lifecycle!Spec
=============================================================================
