-------------------------- MODULE TaskStoreTables ---------------------------
(***************************************************************************)
(* Proofs about how the tables of TaskStore agree with each other, for     *)
(* every number of tasks, workspaces, messages and requests: the queues    *)
(* with the rows, the workspaces and the limit with the claims, the cursor *)
(* with the events, and what a task has been told and has said.            *)
(***************************************************************************)
EXTENDS TaskStoreProofs

-----------------------------------------------------------------------------
(* Messages and requests.  QueueInv is the part of WaitingInputAgrees and   *)
(* StoppedIsSettled about one row r with the open messages om and the open  *)
(* requests oq.                                                             *)

QueueInv(r, om, oq) ==
  /\ (r.phase = "WAITING_INPUT") <=> (oq # {})
  /\ (r.phase = "TERMINAL" \/ (r.phase = "CANCELLING" /\ Intent(r)))
       => om = {} /\ oq = {}

QueuesInv == \A a \in Ids : QueueInv(tasks[a], OpenMessages(a), OpenRequests(a))

\* settle_terminal_commands closes what is open of its task and nothing else.
LEMMA SettleEffect ==
  ASSUME TypeOK, NEW b \in Ids, SettleTerminalCommands(b), NEW a \in Ids
  PROVE  /\ a = b => OpenMessages(a)' = {} /\ OpenRequests(a)' = {}
         /\ a # b => /\ OpenMessages(a)' = OpenMessages(a)
                     /\ OpenRequests(a)' = OpenRequests(a)
<1>1. ASSUME NEW m \in MessageIds
      PROVE  /\ messages'[m].agent_id = messages[m].agent_id
             /\ m \in OpenMessages(b) => messages'[m].state = "FAILED"
             /\ m \notin OpenMessages(b) => messages'[m].state = messages[m].state
  BY DEF SettleTerminalCommands, SettledMessages, TypeOK, Message
<1>2. ASSUME NEW q \in RequestIds
      PROVE  /\ requests'[q].agent_id = requests[q].agent_id
             /\ q \in OpenRequests(b) => requests'[q].state = "ABSENT"
             /\ q \notin OpenRequests(b) => requests'[q].state = requests[q].state
  BY DEF SettleTerminalCommands, SettledRequests, TypeOK, Request
<1>3. /\ a = b => OpenMessages(a)' = {}
      /\ a # b => OpenMessages(a)' = OpenMessages(a)
  BY <1>1 DEF OpenMessages, OpenMessage
<1>4. /\ a = b => OpenRequests(a)' = {}
      /\ a # b => OpenRequests(a)' = OpenRequests(a)
  BY <1>2 DEF OpenRequests, OpenRequest
<1>5. QED
  BY <1>3, <1>4

\* A new message opens one entry of its own task.
LEMMA NewMessageEffect ==
  ASSUME TypeOK, NEW b \in Ids, NEW m \in MessageIds, NEW mode \in Modes,
         messages[m].state = "ABSENT",
         messages' = [messages EXCEPT ![m] = NewMessage(b, mode)],
         NEW a \in Ids, a # b
  PROVE  OpenMessages(a)' = OpenMessages(a)
<1>1. ASSUME NEW n \in MessageIds PROVE n \in OpenMessages(a)' <=> n \in OpenMessages(a)
  <2>1. CASE n = m
    BY <2>1 DEF OpenMessages, OpenMessage, NewMessage, TypeOK
  <2>2. CASE n # m
    BY <2>2 DEF OpenMessages, TypeOK
  <2>3. QED
    BY <2>1, <2>2
<1>2. QED
  BY <1>1 DEF OpenMessages

\* A message that changes state closes, or stays open, where it was.
LEMMA MessageStateEffect ==
  ASSUME TypeOK, NEW m \in MessageIds, NEW s \in MessageStates,
         messages[m].state \in OpenMessage,
         messages' = [messages EXCEPT ![m].state = s],
         NEW a \in Ids
  PROVE  OpenMessages(a)' \subseteq OpenMessages(a)
  BY DEF OpenMessages, TypeOK, Message

\* A pending request that changes state stays with its task.
LEMMA RequestStateEffect ==
  ASSUME TypeOK, NEW q \in RequestIds, NEW s \in RequestStates,
         requests[q].state \in OpenRequest,
         requests' = [requests EXCEPT ![q].state = s],
         NEW a \in Ids
  PROVE  /\ s \in OpenRequest => OpenRequests(a)' = OpenRequests(a)
         /\ requests[q].agent_id # a => OpenRequests(a)' = OpenRequests(a)
         /\ s \notin OpenRequest => OpenRequests(a)' = OpenRequests(a) \ {q}
<1>1. ASSUME NEW p \in RequestIds
      PROVE  /\ requests'[p].agent_id = requests[p].agent_id
             /\ requests'[p].state = IF p = q THEN s ELSE requests[p].state
  BY DEF TypeOK, Request
<1>2. QED
  BY <1>1 DEF OpenRequests

\* Both queues are empty at first.
LEMMA QueuesInvInit == Init => QueuesInv
<1> SUFFICES ASSUME Init, NEW a \in Ids
             PROVE  QueueInv(tasks[a], OpenMessages(a), OpenRequests(a))
  BY DEF QueuesInv
<1>1. OpenMessages(a) = {} /\ OpenRequests(a) = {}
  BY DEF Init, OpenMessages, OpenRequests, OpenMessage, OpenRequest
<1>2. tasks[a].phase = "ABSENT"
  BY DEF Init, AbsentRow
<1>3. QED
  BY <1>1, <1>2 DEF QueueInv

\* The calls on a task row keep phases and queues in agreement.
LEMMA QueuesInvTask ==
  ASSUME TypeOK, RowsInv, QueuesInv, NEW b \in Ids, TaskStep(b), NEW a \in Ids
  PROVE  QueueInv(tasks'[a], OpenMessages(a)', OpenRequests(a)')
<1> DEFINE Goal == QueueInv(tasks'[a], OpenMessages(a)', OpenRequests(a)')
<1>0. /\ tasks[a] \in Row /\ tasks[b] \in Row
      /\ QueueInv(tasks[a], OpenMessages(a), OpenRequests(a))
  BY DEF TypeOK, QueuesInv
<1>1. ASSUME a # b, tasks'[a] = tasks[a],
             OpenMessages(a)' = OpenMessages(a), OpenRequests(a)' = OpenRequests(a)
      PROVE  Goal
  BY <1>0, <1>1
\* Nothing is sent or asked.
<1>2. ASSUME messages' = messages, requests' = requests
      PROVE  OpenMessages(a)' = OpenMessages(a) /\ OpenRequests(a)' = OpenRequests(a)
  BY <1>2 DEF OpenMessages, OpenRequests
<1>3. ASSUME NEW w \in Workspaces, EnqueueTask(b, w) PROVE Goal
  <2>1. CASE a = b
    <3>1. tasks[a].phase = "ABSENT" /\ tasks'[a].phase = "QUEUED"
      BY Zenon, <1>3, <2>1, OwnRow, FreshRows DEF EnqueueTask, Exists
    <3>2. QED
      BY <1>0, <1>2, <1>3, <3>1 DEF EnqueueTask, QueueInv
  <2>2. QED
    BY SMTT(20), <1>1, <1>2, <1>3, <2>1, OtherRows DEF EnqueueTask
<1>4. ASSUME Claimable(b), Claim(b) PROVE Goal
  <2>1. CASE a = b
    <3>1. tasks[a].phase = "QUEUED" /\ tasks'[a].phase = "PREPARING"
      BY Zenon, <1>0, <1>4, <2>1, OwnRow, ClaimedRow DEF Claim, Claimable
    <3>2. QED
      BY <1>0, <1>2, <1>4, <3>1 DEF Claim, QueueInv
  <2>2. QED
    BY <1>1, <1>2, <1>4, <2>1, OtherRows DEF Claim
<1>5. ASSUME CancelUnstartedIfStillFresh(b) PROVE Goal
  <2>1. CASE a = b
    <3>1. /\ tasks[a].phase # "TERMINAL"
          /\ tasks'[a] = StopRequested(tasks[a], FALSE, TRUE)
      BY Zenon, <1>5, <2>1, OwnRow DEF CancelUnstartedIfStillFresh
    <3>2. tasks'[a].phase = "CANCELLING"
      BY <1>0, <3>1 DEF Row, StopRequested
    <3>3. QED
      BY Zenon, <1>5, <2>1, <3>2, SettleEffect DEF CancelUnstartedIfStillFresh, QueueInv
  <2>2. QED
    BY Zenon, <1>1, <1>5, <2>1, OtherRows, SettleEffect DEF CancelUnstartedIfStillFresh
<1>6. ASSUME NEW e \in Epochs, NEW i \in BOOLEAN, NEW s \in BOOLEAN,
             MarkSessionRunning(b, e, i, s)
      PROVE  Goal
  <2>1. CASE a = b
    <3>1. tasks[a].phase = "PREPARING" /\ tasks'[a] = Started(tasks[a], i, s)
      BY Zenon, <1>6, <2>1, OwnRow DEF MarkSessionRunning
    <3>2. tasks'[a].phase = "RUNNING"
      BY <1>0, <3>1, StartedEffect
    <3>3. QED
      BY <1>0, <1>2, <1>6, <3>1, <3>2 DEF MarkSessionRunning, QueueInv
  <2>2. QED
    BY SMTT(20), <1>1, <1>2, <1>6, <2>1, OtherRows DEF MarkSessionRunning
\* A task that becomes terminal is settled.
<1>7. ASSUME NEW r \in Row, NEW o \in Outcomes, ApplyTerminal(b, r, o) PROVE Goal
  <2>1. CASE a = b
    <3>0. tasks'[a] = Terminated(r, o)
      BY Zenon, <1>7, <2>1, OwnRow DEF ApplyTerminal
    <3>1. tasks'[a].phase = "TERMINAL"
      BY <3>0, TerminatedRow
    <3>2. QED
      BY <1>7, <2>1, <3>1, SettleEffect DEF ApplyTerminal, QueueInv
  <2>2. QED
    BY <1>1, <1>7, <2>1, OtherRows, SettleEffect DEF ApplyTerminal
<1>8. ASSUME NEW e \in Epochs, NEW source \in SourceSeqs,
             NEW turn \in TurnStates \cup {None},
             NEW terminal \in ProposedOutcomes \cup {None},
             AppendLifecycle(b, e, source, turn, terminal)
      PROVE  Goal
  <2>1. CASE terminal # None
    <3>1. Recorded(tasks[b], turn) \in Row /\ terminal \in Outcomes
      BY <1>0, <2>1, RecordedRow, StoreAssumption
    <3>2. QED
      BY Zenon, <1>7, <1>8, <2>1, <3>1 DEF AppendLifecycle
  <2>2. CASE terminal = None
    <3>1. /\ tasks' = [tasks EXCEPT ![b] = Recorded(tasks[b], turn)]
          /\ OpenMessages(a)' = OpenMessages(a) /\ OpenRequests(a)' = OpenRequests(a)
      BY <1>2, <1>8, <2>2 DEF AppendLifecycle
    <3>2. CASE a = b
      <4>0. tasks'[a] = Recorded(tasks[a], turn)
        BY ZenonT(40), <3>1, <3>2, OwnRow
      <4>1. tasks'[a].phase = tasks[a].phase /\ SameFlags(tasks[a], tasks'[a])
        BY <1>0, <4>0, RecordedRow
      <4>2. Intent(tasks'[a]) <=> Intent(tasks[a])
        BY <4>1 DEF SameFlags, Intent
      <4>3. QED
        BY <1>0, <3>1, <4>1, <4>2 DEF QueueInv
    <3>3. QED
      BY SMTT(20), <1>1, <3>1, <3>2, OtherRows
  <2>3. QED
    BY <2>1, <2>2
<1>9. ASSUME NEW e \in Epochs, NEW o \in ProposedOutcomes, TransitionTerminal(b, e, o)
      PROVE  Goal
  BY Zenon, <1>0, <1>7, <1>9, StoreAssumption DEF TransitionTerminal
<1>10. ASSUME NEW c \in BOOLEAN, NEW i \in BOOLEAN, RequestStopInternal(b, c, i)
       PROVE  Goal
  <2>1. CASE tasks[b].phase = "TERMINAL"
    <3>1. /\ tasks' = [tasks EXCEPT ![b] = StopRequested(tasks[b], c, i)]
          /\ OpenMessages(a)' = OpenMessages(a) /\ OpenRequests(a)' = OpenRequests(a)
      BY <1>2, <1>10, <2>1 DEF RequestStopInternal
    <3>2. CASE a = b
      <4>0. tasks'[a] = StopRequested(tasks[a], c, i)
        BY Zenon, <3>1, <3>2, OwnRow
      <4>1. tasks'[a].phase = "TERMINAL"
        BY SMTT(20), <1>0, <2>1, <3>2, <4>0, StopRequestedEffect
      <4>2. QED
        BY <1>0, <2>1, <3>1, <3>2, <4>1 DEF QueueInv
    <3>3. QED
      BY SMTT(20), <1>1, <3>1, <3>2, OtherRows
  <2>2. CASE tasks[b].phase # "TERMINAL"
    <3>1. /\ tasks' = [tasks EXCEPT ![b] = StopRequested(tasks[b], c, i)]
          /\ SettleTerminalCommands(b)
      BY <1>10, <2>2 DEF RequestStopInternal
    <3>2. CASE a = b
      <4>0. tasks'[a] = StopRequested(tasks[a], c, i)
        BY ZenonT(40), <3>1, <3>2, OwnRow
      <4>1. tasks'[a].phase = "CANCELLING"
        BY <1>0, <2>2, <3>2, <4>0, StopRequestedEffect
      <4>2. QED
        BY <3>1, <3>2, <4>1, SettleEffect DEF QueueInv
    <3>3. QED
      BY <1>1, <3>1, <3>2, OtherRows, SettleEffect
  <2>3. QED
    BY <2>1, <2>2
<1>11. ASSUME NEW m \in MessageIds, NEW mode \in Modes,
              RequeueTaskForResumeWithMessage(b, m, mode)
       PROVE  Goal
  <2>0. OpenRequests(a)' = OpenRequests(a)
    BY <1>11 DEF RequeueTaskForResumeWithMessage, OpenRequests
  <2>1. CASE a = b
    <3>1. tasks[a].phase = "TERMINAL" /\ tasks'[a].phase = "QUEUED"
      BY Zenon, <1>0, <1>11, <2>1, OwnRow, RequeuedRow
      DEF RequeueTaskForResumeWithMessage, Resumable
    <3>2. QED
      BY <1>0, <2>0, <3>1 DEF QueueInv
  <2>2. CASE a # b
    BY Zenon, <1>1, <1>11, <2>0, <2>2, OtherRows, NewMessageEffect
    DEF RequeueTaskForResumeWithMessage
  <2>3. QED
    BY SMTT(20), <2>1, <2>2
<1>12. ASSUME ReapTask(b) PROVE Goal
  <2>1. CASE a = b
    <3>1. tasks'[a].phase = tasks[a].phase /\ SameFlags(tasks[a], tasks'[a])
      BY Zenon, <1>0, <1>12, <2>1, OwnRow, ReapedRow DEF ReapTask
    <3>2. Intent(tasks'[a]) <=> Intent(tasks[a])
      BY <3>1 DEF SameFlags, Intent
    <3>3. OpenMessages(a)' = OpenMessages(a) /\ OpenRequests(a)' = OpenRequests(a)
      BY <1>2, <1>12 DEF ReapTask
    <3>4. QED
      BY <1>0, <3>1, <3>2, <3>3 DEF QueueInv
  <2>2. QED
    BY SMTT(20), <1>1, <1>2, <1>12, <2>1, OtherRows DEF ReapTask
<1>13. ASSUME NEW o \in ProposedOutcomes, NEW t \in Texts,
              StoreTaskResultWithReason(b, [outcome |-> o, text |-> t])
       PROVE  Goal
  BY Zenon, <1>0, <1>7, <1>13, StoreAssumption DEF StoreTaskResultWithReason, Storable
<1>14. QED
  BY Zenon, <1>3, <1>4, <1>5, <1>6, <1>8, <1>9, <1>10, <1>11, <1>12, <1>13
  DEF TaskStep, ClaimNext, ClaimSpecific, RequestClose, RequestStop, RequestRuntimeStop

\* The calls on a pending request keep phases and queues in agreement.
LEMMA QueuesInvRequest ==
  ASSUME TypeOK, RowsInv, QueuesInv,
         NEW q \in RequestIds, RequestStep(q), NEW a \in Ids
  PROVE  QueueInv(tasks'[a], OpenMessages(a)', OpenRequests(a)')
<1> DEFINE Goal == QueueInv(tasks'[a], OpenMessages(a)', OpenRequests(a)')
<1>0. /\ tasks[a] \in Row
      /\ QueueInv(tasks[a], OpenMessages(a), OpenRequests(a))
      /\ RowInv(tasks[a], results[a])
  BY DEF TypeOK, QueuesInv, RowsInv
<1>1. PICK b \in Ids : \/ \E c \in Correlations : InsertPendingRequest(q, b, c)
                       \/ ClaimPendingResponseIfAccepting(b, q)
                       \/ CompletePendingResponse(b, q)
                       \/ ReleasePendingResponse(b, q)
  BY DEF RequestStep
<1>2. OpenMessages(a)' = OpenMessages(a)
  BY <1>1 DEF OpenMessages, InsertPendingRequest, ClaimPendingResponseIfAccepting,
              CompletePendingResponse, ReleasePendingResponse
<1>3. ASSUME tasks'[a] = tasks[a], OpenRequests(a)' = OpenRequests(a) PROVE Goal
  BY Zenon, <1>0, <1>2, <1>3
<1>4. ASSUME NEW c \in Correlations, InsertPendingRequest(q, b, c) PROVE Goal
  <2>1. ASSUME NEW p \in RequestIds
        PROVE  requests'[p] = IF p = q THEN [state |-> "PENDING", agent_id |-> b,
                                             correlation_id |-> c]
                                       ELSE requests[p]
    BY <1>4 DEF InsertPendingRequest, TypeOK
  <2>2. CASE a = b
    <3>1. tasks'[a] = InPhase(tasks[a], "WAITING_INPUT") /\ Accepting(tasks[a])
      BY Zenon, <1>4, <2>2, OwnRow DEF InsertPendingRequest
    <3>2. /\ tasks'[a].phase = "WAITING_INPUT"
      BY <1>0, <3>1 DEF InPhase, Row
    <3>3. q \in OpenRequests(a)'
      BY <2>1, <2>2 DEF OpenRequests, OpenRequest
    <3>4. QED
      BY <3>2, <3>3 DEF QueueInv
  <2>3. CASE a # b
    <3>1. OpenRequests(a)' = OpenRequests(a)
      BY <1>4, <2>1, <2>3 DEF OpenRequests, OpenRequest, InsertPendingRequest
    <3>2. QED
      BY SMTT(20), <1>3, <1>4, <2>3, <3>1, OtherRows DEF InsertPendingRequest
  <2>4. QED
    BY <2>2, <2>3
<1>5. ASSUME ClaimPendingResponseIfAccepting(b, q) PROVE Goal
  BY Zenon, <1>3, <1>5, RequestStateEffect
  DEF ClaimPendingResponseIfAccepting, OpenRequest, RequestStates
<1>6. ASSUME ReleasePendingResponse(b, q) PROVE Goal
  BY Zenon, <1>3, <1>6, RequestStateEffect
  DEF ReleasePendingResponse, OpenRequest, RequestStates
<1>7. ASSUME CompletePendingResponse(b, q) PROVE Goal
  <2>1. /\ requests[q].state \in OpenRequest /\ requests[q].agent_id = b
        /\ requests' = [requests EXCEPT ![q].state = "RESPONDED"]
        /\ "RESPONDED" \in RequestStates /\ "RESPONDED" \notin OpenRequest
    BY <1>7 DEF CompletePendingResponse, OpenRequest, RequestStates
  <2>2. CASE a # b
    <3>1. tasks'[a] = tasks[a]
      BY <1>7, <2>2 DEF CompletePendingResponse, TypeOK
    <3>2. QED
      BY Zenon, <1>3, <2>1, <2>2, <3>1, RequestStateEffect
  <2>3. CASE a = b
    <3>0. q \in OpenRequests(a)
      BY <2>1, <2>3 DEF OpenRequests
    <3>1. OpenRequests(a)' = OpenRequests(a) \ {q} /\ q \in OpenRequests(a)
      BY ZenonT(40), <2>1, <3>0, RequestStateEffect
    <3>2. tasks[a].phase = "WAITING_INPUT" /\ ~Intent(tasks[a])
      BY SMTT(20), <1>0, <3>1 DEF QueueInv, RowInv
    <3>3. CASE OpenRequests(a) \ {q} = {}
      <4>1. tasks'[a] = InPhase(tasks[a], "RUNNING")
        BY Zenon, <1>7, <2>3, <3>2, <3>3, OwnRow DEF CompletePendingResponse
      <4>2. tasks'[a].phase = "RUNNING"
        BY <1>0, <4>1 DEF InPhase, Row
      <4>3. QED
        BY <3>1, <3>3, <4>2 DEF QueueInv
    <3>4. CASE OpenRequests(a) \ {q} # {}
      <4>1. tasks' = tasks
        BY <1>7, <2>3, <3>4 DEF CompletePendingResponse
      <4>2. QED
        BY <3>1, <3>2, <3>4, <4>1 DEF QueueInv
    <3>5. QED
      BY <3>3, <3>4
  <2>4. QED
    BY <2>2, <2>3
<1>8. QED
  BY <1>1, <1>4, <1>5, <1>6, <1>7

\* The calls on a message keep phases and queues in agreement.
LEMMA QueuesInvMessage ==
  ASSUME TypeOK, QueuesInv, NEW m \in MessageIds, MessageStep(m), NEW a \in Ids
  PROVE  QueueInv(tasks'[a], OpenMessages(a)', OpenRequests(a)')
<1>0. QueueInv(tasks[a], OpenMessages(a), OpenRequests(a))
  BY DEF QueuesInv
<1>1. tasks' = tasks /\ OpenRequests(a)' = OpenRequests(a)
  BY DEF MessageStep, InsertMessage, ClaimNextMessage, CompleteMessage, FailMessage,
         OpenRequests
<1>2. ASSUME NEW b \in Ids, NEW mode \in Modes, InsertMessage(m, b, mode)
      PROVE  QueueInv(tasks'[a], OpenMessages(a)', OpenRequests(a)')
  <2>1. CASE a = b
    BY Zenon, <1>0, <1>1, <1>2, <2>1 DEF QueueInv, InsertMessage, NonterminalPhases, ActivePhases
  <2>2. CASE a # b
    BY ZenonT(40), <1>0, <1>1, <1>2, <2>2, NewMessageEffect DEF InsertMessage
  <2>3. QED
    BY <2>1, <2>2
<1>3. ASSUME OpenMessages(a)' \subseteq OpenMessages(a)
      PROVE  QueueInv(tasks'[a], OpenMessages(a)', OpenRequests(a)')
  BY <1>0, <1>1, <1>3 DEF QueueInv
<1>4. ASSUME NEW b \in Ids, ClaimNextMessage(b, m)
      PROVE  OpenMessages(a)' \subseteq OpenMessages(a)
  BY Zenon, <1>4, MessageStateEffect
  DEF ClaimNextMessage, QueuedMessages, OpenMessage, MessageStates
<1>5. ASSUME CompleteMessage(m) PROVE OpenMessages(a)' \subseteq OpenMessages(a)
  BY Zenon, <1>5, MessageStateEffect DEF CompleteMessage, OpenMessage, MessageStates
<1>6. ASSUME FailMessage(m) PROVE OpenMessages(a)' \subseteq OpenMessages(a)
  BY Zenon, <1>6, MessageStateEffect DEF FailMessage, OpenMessage, MessageStates
<1>7. QED
  BY <1>2, <1>3, <1>4, <1>5, <1>6 DEF MessageStep

\* Every call of the store keeps phases and queues in agreement.
LEMMA QueuesInvStep == TypeOK /\ RowsInv /\ QueuesInv /\ [Next]_vars => QueuesInv'
<1> SUFFICES ASSUME TypeOK, RowsInv, QueuesInv, [Next]_vars, NEW a \in Ids
             PROVE  QueueInv(tasks'[a], OpenMessages(a)', OpenRequests(a)')
  BY DEF QueuesInv
<1>0. tasks[a] \in Row /\ QueueInv(tasks[a], OpenMessages(a), OpenRequests(a))
  BY DEF TypeOK, QueuesInv
<1>1. CASE UNCHANGED <<tasks, messages, requests>>
  BY <1>0, <1>1 DEF OpenMessages, OpenRequests
<1>2. CASE FenceQueuedCancellation
  <2>1. OpenMessages(a)' = OpenMessages(a) /\ OpenRequests(a)' = OpenRequests(a)
    BY <1>2 DEF FenceQueuedCancellation, OpenMessages, OpenRequests
  <2>2. tasks'[a] = IF tasks[a].phase = "QUEUED" THEN Fenced(tasks[a]) ELSE tasks[a]
    BY <1>2 DEF FenceQueuedCancellation
  <2>3. CASE tasks[a].phase = "QUEUED"
    <3>1. tasks'[a].phase = "QUEUED"
      BY <1>0, <2>2, <2>3, FencedRow
    <3>2. QED
      BY <1>0, <2>1, <2>3, <3>1 DEF QueueInv
  <2>4. QED
    BY <1>0, <2>1, <2>2, <2>3
<1>3. QED
  BY SMTT(20), <1>1, <1>2, QueuesInvTask, QueuesInvRequest, QueuesInvMessage
  DEF Next, ReserveTaskId, vars

\* Waiting for input means an unanswered request, and a stopped or finished
\* task has nothing left to deliver, for any number of tasks and messages.
THEOREM QueuesAgree == Spec => [](WaitingInputAgrees /\ StoppedIsSettled)
<1>1. QueuesInv => WaitingInputAgrees /\ StoppedIsSettled
  BY DEF QueuesInv, QueueInv, WaitingInputAgrees, StoppedIsSettled
<1>2. QED
  BY <1>1, RowsCorrect, QueuesInvInit, QueuesInvStep, PTL DEF Spec
-----------------------------------------------------------------------------
(* The workspace, messages that were handed out, and completion.           *)

\* Only an enqueue places a task, and only an enqueue or a resume makes a
\* row nonterminal; both look for a rival first.
LEMMA ExclusiveStep ==
  TypeOK /\ WorkspaceExclusive /\ [Next]_vars => WorkspaceExclusive'
<1> SUFFICES ASSUME TypeOK, WorkspaceExclusive, [Next]_vars
             PROVE  WorkspaceExclusive'
  OBVIOUS
\* a task is nonterminal after the step
<1> DEFINE Live(a) == tasks[a].phase \in NonterminalPhases
\* one row moves, from a nonterminal phase or to the terminal one
<1>1. ASSUME placed' = placed, NEW b \in Ids, NEW row,
             tasks' = [tasks EXCEPT ![b] = row], Live(b) \/ row.phase = "TERMINAL"
      PROVE  WorkspaceExclusive'
  <2>1. \A a \in Ids : Live(a)' => Live(a)
    BY <1>1, OtherRows, OwnRow DEF NonterminalPhases, ActivePhases
  <2>2. QED
    BY <1>1, <2>1 DEF WorkspaceExclusive
<1>2. CASE tasks' = tasks /\ placed' = placed
  BY <1>2 DEF WorkspaceExclusive
<1>3. ASSUME NEW b \in Ids, NEW w \in Workspaces, EnqueueTask(b, w)
      PROVE  WorkspaceExclusive'
  <2>1. /\ NonterminalIn(w) = {}
        /\ placed'[b].workspace = w
        /\ \A a \in Ids : a # b => tasks'[a] = tasks[a] /\ placed'[a] = placed[a]
    BY <1>3, OtherRows DEF EnqueueTask, TypeOK
  <2>2. QED
    BY <2>1 DEF WorkspaceExclusive, NonterminalIn
<1>4. ASSUME NEW b \in Ids, NEW m \in MessageIds, NEW mode \in Modes,
             RequeueTaskForResumeWithMessage(b, m, mode)
      PROVE  WorkspaceExclusive'
  <2>1. /\ NonterminalIn(placed[b].workspace) \ {b} = {}
        /\ placed' = placed
        /\ \A a \in Ids : a # b => tasks'[a] = tasks[a]
    BY <1>4, OtherRows DEF RequeueTaskForResumeWithMessage
  <2>2. QED
    BY SMTT(20), <2>1 DEF WorkspaceExclusive, NonterminalIn
<1>5. ASSUME NEW b \in Ids, TaskStep(b) PROVE WorkspaceExclusive'
  <2>0. tasks[b] \in Row
    BY DEF TypeOK
  <2> USE DEF NonterminalPhases, ActivePhases
  <2>1. ASSUME Claimable(b), Claim(b) PROVE WorkspaceExclusive'
    BY Zenon, <1>1, <2>1 DEF Claim, Claimable
  <2>2. ASSUME CancelUnstartedIfStillFresh(b) PROVE WorkspaceExclusive'
    BY Zenon, <1>1, <2>2 DEF CancelUnstartedIfStillFresh
  <2>3. ASSUME NEW e, NEW i, NEW s, MarkSessionRunning(b, e, i, s)
        PROVE  WorkspaceExclusive'
    BY Zenon, <1>1, <2>3 DEF MarkSessionRunning
  <2>4. ASSUME NEW e, NEW source, NEW turn, NEW terminal,
               AppendLifecycle(b, e, source, turn, terminal)
        PROVE  WorkspaceExclusive'
    <3>1. Live(b) /\ placed' = placed
      BY <2>0, <2>4, Zenon DEF AppendLifecycle, Exists, Row, Phases
    <3>2. \/ tasks' = [tasks EXCEPT ![b] = Recorded(tasks[b], turn)]
          \/ tasks' = [tasks EXCEPT ![b] = Terminated(Recorded(tasks[b], turn), terminal)]
      BY Zenon, <2>4 DEF AppendLifecycle, ApplyTerminal
    <3>3. QED
      BY SMTT(20), <1>1, <3>1, <3>2
  <2>5. ASSUME NEW e, NEW o, TransitionTerminal(b, e, o) PROVE WorkspaceExclusive'
    BY Zenon, <1>1, <2>5 DEF TransitionTerminal, ApplyTerminal
  <2>6. ASSUME NEW c, NEW i, RequestStopInternal(b, c, i) PROVE WorkspaceExclusive'
    <3>1. /\ tasks' = [tasks EXCEPT ![b] = StopRequested(tasks[b], c, i)]
          /\ placed' = placed
      BY SMTT(20), <2>6 DEF RequestStopInternal
    <3>2. Live(b) \/ StopRequested(tasks[b], c, i).phase = "TERMINAL"
      BY <2>0, <2>6, StopRequestedEffect DEF RequestStopInternal, Exists, Row, Phases
    <3>3. QED
      BY Zenon, <1>1, <3>1, <3>2
  <2>7. ASSUME ReapTask(b) PROVE WorkspaceExclusive'
    BY Zenon, <1>1, <2>0, <2>7, ReapedRow DEF ReapTask
  <2>8. ASSUME NEW result, StoreTaskResultWithReason(b, result)
        PROVE  WorkspaceExclusive'
    BY Zenon, <1>1, <2>8 DEF StoreTaskResultWithReason, Storable, ApplyTerminal
  <2>9. QED
    BY Zenon, <1>3, <1>4, <1>5, <2>1, <2>2, <2>3, <2>4, <2>5, <2>6, <2>7, <2>8
    DEF TaskStep, ClaimNext, ClaimSpecific, RequestClose, RequestStop, RequestRuntimeStop
<1>6. ASSUME NEW q \in RequestIds, RequestStep(q) PROVE WorkspaceExclusive'
  <2>1. PICK b \in Ids : \/ \E c \in Correlations : InsertPendingRequest(q, b, c)
                         \/ ClaimPendingResponseIfAccepting(b, q)
                         \/ CompletePendingResponse(b, q)
                         \/ ReleasePendingResponse(b, q)
    BY <1>6 DEF RequestStep
  <2>2. placed' = placed
    BY <2>1 DEF InsertPendingRequest, ClaimPendingResponseIfAccepting,
                CompletePendingResponse, ReleasePendingResponse
  <2>3. \/ tasks' = tasks
        \/ Live(b) /\ \E p \in Phases : tasks' = [tasks EXCEPT ![b] = InPhase(tasks[b], p)]
    BY <2>1 DEF InsertPendingRequest, ClaimPendingResponseIfAccepting,
                CompletePendingResponse, ReleasePendingResponse, Accepting,
                AcceptingPhases, Phases, NonterminalPhases, ActivePhases
  <2>4. QED
    BY <1>1, <1>2, <2>2, <2>3
<1>7. ASSUME FenceQueuedCancellation PROVE WorkspaceExclusive'
  <2>1. placed' = placed /\ \A a \in Ids : tasks'[a].phase = tasks[a].phase
    BY <1>7, FencedRow DEF FenceQueuedCancellation, TypeOK
  <2>2. QED
    BY <2>1 DEF WorkspaceExclusive
<1>8. ASSUME NEW m \in MessageIds, MessageStep(m) PROVE WorkspaceExclusive'
  BY <1>2, <1>8
  DEF MessageStep, InsertMessage, ClaimNextMessage, CompleteMessage, FailMessage
<1>9. QED
  BY <1>2, <1>5, <1>6, <1>7, <1>8 DEF Next, ReserveTaskId, vars

\* No two unfinished tasks ever share a workspace, for any number of tasks.
THEOREM WorkspacesExclusive == Spec => []WorkspaceExclusive
<1>1. Init => WorkspaceExclusive
  <2>1. AbsentRow.phase \notin NonterminalPhases
    BY DEF AbsentRow, NonterminalPhases, ActivePhases
  <2>2. QED
    BY <2>1 DEF Init, WorkspaceExclusive
<1>2. QED
  BY <1>1, ExclusiveStep, TypeCorrect, PTL DEF Spec

\* No call of the store moves a message back in its life.
LEMMA MessagesGoForward ==
  ASSUME TypeOK, [Next]_vars, NEW m \in MessageIds
  PROVE  GoesForward(m)
<1>1. CASE messages' = messages
  BY <1>1 DEF GoesForward, TypeOK, Message, MessageStates, OpenMessage
<1>2. ASSUME NEW b \in Ids, messages' = SettledMessages(b) PROVE GoesForward(m)
  BY <1>2 DEF SettledMessages, OpenMessages, OpenMessage, GoesForward, TypeOK, Message
<1>3. ASSUME NEW b \in Ids, NEW n \in MessageIds, NEW mode \in Modes,
             messages[n].state = "ABSENT",
             messages' = [messages EXCEPT ![n] = NewMessage(b, mode)]
      PROVE  GoesForward(m)
  BY <1>3 DEF GoesForward, TypeOK
<1>4. ASSUME NEW n \in MessageIds, NEW s \in {"SENDING", "DELIVERED", "FAILED"},
             messages[n].state \in OpenMessage,
             messages' = [messages EXCEPT ![n].state = s]
      PROVE  GoesForward(m)
  BY <1>4 DEF GoesForward, TypeOK, Message, OpenMessage
<1>5. ASSUME NEW b \in Ids, TaskStep(b) PROVE GoesForward(m)
  <2>1. \/ messages' = messages
        \/ messages' = SettledMessages(b)
        \/ \E n \in MessageIds, mode \in Modes :
             RequeueTaskForResumeWithMessage(b, n, mode)
    BY Zenon, <1>5
    DEF TaskStep, EnqueueTask, ClaimNext, ClaimSpecific, Claim,
        CancelUnstartedIfStillFresh, MarkSessionRunning, AppendLifecycle,
        TransitionTerminal, RequestClose, RequestStop, RequestRuntimeStop,
        RequestStopInternal, ReapTask, StoreTaskResultWithReason, Storable, ApplyTerminal,
        SettleTerminalCommands
  <2>2. QED
    BY <1>1, <1>2, <1>3, <2>1 DEF RequeueTaskForResumeWithMessage
<1>6. ASSUME NEW n \in MessageIds, MessageStep(n) PROVE GoesForward(m)
  <2>1. ASSUME NEW b \in Ids, NEW mode \in Modes, InsertMessage(n, b, mode)
        PROVE  GoesForward(m)
    BY Zenon, <1>3, <2>1 DEF InsertMessage
  <2>2. ASSUME NEW b \in Ids, ClaimNextMessage(b, n) PROVE GoesForward(m)
    BY Zenon, <1>4, <2>2 DEF ClaimNextMessage, QueuedMessages, OpenMessage
  <2>3. ASSUME CompleteMessage(n) PROVE GoesForward(m)
    BY Zenon, <1>4, <2>3 DEF CompleteMessage, OpenMessage
  <2>4. ASSUME FailMessage(n) PROVE GoesForward(m)
    BY Zenon, <1>4, <2>4 DEF FailMessage
  <2>5. QED
    BY <1>6, <2>1, <2>2, <2>3, <2>4 DEF MessageStep
<1>7. QED
  BY <1>1, <1>5, <1>6
  DEF Next, vars, ReserveTaskId, FenceQueuedCancellation, RequestStep,
      InsertPendingRequest, ClaimPendingResponseIfAccepting,
      CompletePendingResponse, ReleasePendingResponse

\* No message that was handed to a runtime is ever queued again.
THEOREM NoReplay == Spec => NeverReplayed
<1>1. TypeOK /\ [Next]_vars => [\A m \in MessageIds : GoesForward(m)]_vars
  BY MessagesGoForward, SMTT(30)
<1>2. QED
  BY <1>1, TypeCorrect, PTL DEF Spec, NeverReplayed
-----------------------------------------------------------------------------
(* The event cursor.  CursorInv strengthens CursorCoversRun: no event is of *)
(* a task that does not exist or of a claim that has not happened, so that  *)
(* the next claim starts with no event of its own.                          *)

AtWork == {"PREPARING", "RUNNING", "WAITING_INPUT"}

CursorInv ==
  \A e \in events :
    /\ Exists(e.agent_id)
    /\ e.runtime <= tasks[e.agent_id].owner_epoch
    /\ (/\ e.runtime = tasks[e.agent_id].owner_epoch
        /\ tasks[e.agent_id].phase \in AtWork)
         => e.seq <= tasks[e.agent_id].last_event_seq

\* What a step does to the columns the cursor depends on.
CursorMove(r, s) ==
  r.phase # "ABSENT" =>
    /\ s.phase # "ABSENT"
    /\ r.owner_epoch <= s.owner_epoch
    /\ (s.owner_epoch = r.owner_epoch /\ s.phase \in AtWork)
         => r.phase \in AtWork /\ r.last_event_seq <= s.last_event_seq

\* The cursor of a row never goes back while its claim is at work.
LEMMA CursorAdvances ==
  ASSUME TypeOK, [Next]_vars, NEW a \in Ids
  PROVE  CursorMove(tasks[a], tasks'[a])
<1> DEFINE r == tasks[a]
           s == tasks'[a]
<1>1. r \in Row /\ RowStep(a)
  BY EveryStepIsARowStep, SMTT(30) DEF TypeOK
<1>2. r.owner_epoch \in Nat /\ r.last_event_seq \in Nat
  BY <1>1 DEF Row
<1> HIDE DEF r, s
<1> USE DEF CursorMove, AtWork, SameRuntime
<1>3. ASSUME s = r PROVE CursorMove(r, s)
  BY <1>2, <1>3
<1>4. ASSUME s = Claimed(r) PROVE CursorMove(r, s)
  BY <1>1, <1>2, <1>4, ClaimedRow
<1>5. ASSUME NEW i \in BOOLEAN, NEW x \in BOOLEAN, r.phase = "PREPARING", s = Started(r, i, x)
      PROVE  CursorMove(r, s)
  <2>1. s.last_event_seq = r.last_event_seq
    BY <1>1, <1>5 DEF Row, Started
  <2>2. QED
    BY <1>1, <1>2, <1>5, <2>1, StartedEffect
<1>6. ASSUME NEW c \in BOOLEAN, NEW i \in BOOLEAN, s = StopRequested(r, c, i)
      PROVE  CursorMove(r, s)
  BY <1>1, <1>2, <1>6, StopRequestedEffect
<1>7. ASSUME NEW t \in TurnStates \cup {None}, s = Recorded(r, t)
      PROVE  CursorMove(r, s)
  <2>1. s.last_event_seq = r.last_event_seq + 1
    BY <1>1, <1>7 DEF Row, Recorded
  <2>2. QED
    BY <1>1, <1>2, <1>7, <2>1, RecordedRow
<1>8. ASSUME NEW t \in TurnStates \cup {None}, NEW o \in Outcomes,
             s = Terminated(Recorded(r, t), o)
      PROVE  CursorMove(r, s)
  BY <1>1, <1>2, <1>8, RecordedRow, TerminatedRow
<1>9. ASSUME NEW o \in Outcomes, s = Terminated(r, o) PROVE CursorMove(r, s)
  BY <1>1, <1>2, <1>9, TerminatedRow
<1>10. ASSUME r.phase = "TERMINAL" /\ s = Reaped(r) PROVE CursorMove(r, s)
  BY <1>1, <1>2, <1>10, ReapedRow
<1>11. ASSUME NEW p \in Phases, r.phase \in AtWork, s = InPhase(r, p), p \in AtWork
       PROVE  CursorMove(r, s)
  <2>1. s.last_event_seq = r.last_event_seq
    BY <1>1, <1>11, SMTT(30) DEF Row, InPhase
  <2>2. QED
    BY <1>1, <1>2, <1>11, <2>1, PhaseOnlyRow
<1>12. ASSUME RowMove(r, s) PROVE CursorMove(r, s)
  <2>1. "WAITING_INPUT" \in Phases /\ "RUNNING" \in Phases
    BY DEF Phases, NonterminalPhases, ActivePhases
  <2>2. Accepting(r) => r.phase \in AtWork
    BY DEF Accepting, AcceptingPhases
  <2>3. QED
    BY <1>3, <1>4, <1>5, <1>6, <1>7, <1>8, <1>9, <1>10, <1>11, <1>12, <2>1, <2>2
    DEF RowMove
<1>13. ASSUME RowResume(r, s, results'[a]) PROVE CursorMove(r, s)
  BY <1>1, <1>2, <1>13, RequeuedRow DEF RowResume
<1>14. ASSUME r.phase = "QUEUED" /\ s = Fenced(r) PROVE CursorMove(r, s)
  BY <1>1, <1>2, <1>14, FencedRow
<1>15. ASSUME RowResult(r, s, results[a], results'[a]) PROVE CursorMove(r, s)
  BY <1>9, <1>15 DEF RowResult
<1>16. QED
  BY <1>1, <1>12, <1>13, <1>14, <1>15, Zenon DEF RowStep, RowChange, RowFence, r, s

\* Only append_lifecycle writes an event: with the current epoch, at the cursor it leaves.
LEMMA EventsGrow ==
  ASSUME TypeOK, [Next]_vars, NEW e \in events', e \notin events
  PROVE  /\ e.agent_id \in Ids
         /\ tasks'[e.agent_id].phase # "ABSENT"
         /\ e.runtime = tasks'[e.agent_id].owner_epoch
         /\ tasks'[e.agent_id].phase \in AtWork
              => e.seq = tasks'[e.agent_id].last_event_seq
<1>1. \E b \in Ids, epoch \in Epochs, source \in SourceSeqs,
        turn \in TurnStates \cup {None}, terminal \in ProposedOutcomes \cup {None} :
        AppendLifecycle(b, epoch, source, turn, terminal)
  <2>1. events' # events
    OBVIOUS
  <2>2. ASSUME NEW b \in Ids, TaskStep(b)
        PROVE  \E epoch \in Epochs, source \in SourceSeqs,
                 turn \in TurnStates \cup {None}, terminal \in ProposedOutcomes \cup {None} :
                 AppendLifecycle(b, epoch, source, turn, terminal)
    BY Zenon, <2>1, <2>2
    DEF TaskStep, EnqueueTask, ClaimNext, ClaimSpecific, Claim,
        CancelUnstartedIfStillFresh, MarkSessionRunning,
        TransitionTerminal, RequestClose, RequestStop, RequestRuntimeStop,
        RequestStopInternal, ReapTask, StoreTaskResultWithReason,
        RequeueTaskForResumeWithMessage
  <2>3. QED
    BY <2>1, <2>2
    DEF Next, vars, ReserveTaskId, FenceQueuedCancellation, MessageStep, InsertMessage,
        ClaimNextMessage, CompleteMessage, FailMessage, RequestStep,
        InsertPendingRequest, ClaimPendingResponseIfAccepting,
        CompletePendingResponse, ReleasePendingResponse
<1>2. PICK b \in Ids, epoch \in Epochs, source \in SourceSeqs,
        turn \in TurnStates \cup {None}, terminal \in ProposedOutcomes \cup {None} :
        AppendLifecycle(b, epoch, source, turn, terminal)
  BY <1>1, SMTT(30)
<1>3. /\ e = [agent_id |-> b, runtime |-> epoch,
              seq |-> tasks[b].last_event_seq + 1, source_seq |-> source]
      /\ tasks[b].owner_epoch = epoch /\ tasks[b].phase # "ABSENT"
  BY <1>2 DEF AppendLifecycle, Exists
<1>4. tasks[b] \in Row
  BY SMTT(30) DEF TypeOK
<1>5. \/ tasks' = [tasks EXCEPT ![b] = Recorded(tasks[b], turn)]
      \/ /\ terminal \in Outcomes
         /\ tasks' = [tasks EXCEPT ![b] = Terminated(Recorded(tasks[b], turn), terminal)]
  BY SMTT(20), <1>2, StoreAssumption DEF AppendLifecycle, ApplyTerminal
<1>6. \/ tasks'[b] = Recorded(tasks[b], turn)
      \/ terminal \in Outcomes /\ tasks'[b] = Terminated(Recorded(tasks[b], turn), terminal)
  BY <1>5, OwnRow, SMTT(30)
<1>7. CASE tasks'[b] = Recorded(tasks[b], turn)
  <2>1. tasks'[b].last_event_seq = tasks[b].last_event_seq + 1
    BY <1>4, <1>7 DEF Row, Recorded
  <2>2. QED
    BY <1>3, <1>4, <1>7, <2>1, RecordedRow DEF SameRuntime
<1>8. CASE terminal \in Outcomes /\ tasks'[b] = Terminated(Recorded(tasks[b], turn), terminal)
  BY <1>3, <1>4, <1>8, RecordedRow, TerminatedRow DEF SameRuntime, AtWork
<1>9. QED
  BY <1>6, <1>7, <1>8

\* The strengthened cursor invariant is inductive.
LEMMA CursorInvStep == TypeOK /\ TypeOK' /\ CursorInv /\ [Next]_vars => CursorInv'
<1> SUFFICES ASSUME TypeOK, TypeOK', CursorInv, [Next]_vars, NEW e \in events'
             PROVE  /\ tasks'[e.agent_id].phase # "ABSENT"
                    /\ e.runtime <= tasks'[e.agent_id].owner_epoch
                    /\ (/\ e.runtime = tasks'[e.agent_id].owner_epoch
                        /\ tasks'[e.agent_id].phase \in AtWork)
                         => e.seq <= tasks'[e.agent_id].last_event_seq
  BY DEF CursorInv, Exists
<1> DEFINE a == e.agent_id
<1>1. a \in Ids /\ e.runtime \in Nat /\ e.seq \in Nat
  BY DEF TypeOK, Event
<1>2. /\ tasks[a].owner_epoch \in Nat /\ tasks[a].last_event_seq \in Nat
      /\ tasks'[a].owner_epoch \in Nat /\ tasks'[a].last_event_seq \in Nat
  BY <1>1 DEF TypeOK, Row
<1>3. CASE e \in events
  <2>1. CursorMove(tasks[a], tasks'[a])
    BY <1>1, CursorAdvances
  <2>2. /\ tasks[a].phase # "ABSENT"
        /\ e.runtime <= tasks[a].owner_epoch
        /\ (e.runtime = tasks[a].owner_epoch /\ tasks[a].phase \in AtWork)
             => e.seq <= tasks[a].last_event_seq
    BY <1>3 DEF CursorInv, Exists
  <2>3. QED
    BY <1>1, <1>2, <2>1, <2>2 DEF CursorMove
<1>4. CASE e \notin events
  BY <1>1, <1>2, <1>4, EventsGrow
<1>5. QED
  BY <1>3, <1>4

\* While a claim is at work its cursor covers every event it recorded, for any
\* number of claims, resumes and records (append_lifecycle, list_events).
THEOREM CursorCovers == Spec => []CursorCoversRun
<1>1. Init => CursorInv
  BY DEF Init, CursorInv
<1>2. CursorInv => CursorCoversRun
  BY DEF CursorInv, CursorCoversRun, AtWork
<1>3. QED
  BY <1>1, <1>2, CursorInvStep, TypeCorrect, PTL DEF Spec

\* After every transaction the tables agree, whatever the callers do: the phase
\* of a row with its flags, result, runtime identity, open messages and requests,
\* and the events of its run.
THEOREM StoreTablesAgree == Spec => []TablesAgree
  BY RowsAgree, QueuesAgree, CursorCovers, PTL DEF TablesAgree
-----------------------------------------------------------------------------
(* The limit of a repository.                                              *)

\* The claimed tasks of a repository that nobody is cancelling.
AtWorkIn(repository) ==
  {a \in ActiveIn(repository) : tasks[a].phase # "CANCELLING"}

\* The place of a row is written by its insert alone.
LEMMA PlacesStay ==
  ASSUME TypeOK, [Next]_vars, NEW a \in Ids
  PROVE  \/ placed'[a] = placed[a]
         \/ tasks[a].phase = "ABSENT" /\ tasks'[a] = NewRow
<1>1. CASE placed' = placed
  BY <1>1
<1>2. ASSUME NEW b \in Ids, NEW w \in Workspaces, EnqueueTask(b, w)
      PROVE  \/ placed'[a] = placed[a]
             \/ tasks[a].phase = "ABSENT" /\ tasks'[a] = NewRow
  BY <1>2 DEF EnqueueTask, TypeOK, Exists
<1>3. ASSUME NEW b \in Ids, TaskStep(b)
      PROVE  placed' = placed \/ \E w \in Workspaces : EnqueueTask(b, w)
  BY Zenon, <1>3
  DEF TaskStep, ClaimNext, ClaimSpecific, Claim, AppendLifecycle,
      CancelUnstartedIfStillFresh, MarkSessionRunning,
      TransitionTerminal, RequestClose, RequestStop, RequestRuntimeStop,
      RequestStopInternal, ReapTask, StoreTaskResultWithReason,
      RequeueTaskForResumeWithMessage
<1>4. QED
  BY <1>1, <1>2, <1>3
  DEF Next, vars, ReserveTaskId, FenceQueuedCancellation, MessageStep, InsertMessage,
      ClaimNextMessage, CompleteMessage, FailMessage, RequestStep,
      InsertPendingRequest, ClaimPendingResponseIfAccepting,
      CompletePendingResponse, ReleasePendingResponse

\* Only a claim puts a row to work.
LEMMA OnlyClaimsPutToWork ==
  ASSUME TypeOK, [Next]_vars
  PROVE  \/ \E b \in Ids : Claimable(b) /\ Claim(b)
         \/ \A a \in Ids : tasks'[a].phase \in AtWork => tasks[a].phase \in AtWork
<1> DEFINE Stays == \A a \in Ids : tasks'[a].phase \in AtWork => tasks[a].phase \in AtWork
<1>0. \A a \in Ids : tasks[a] \in Row
  BY DEF TypeOK
<1>1. ASSUME NEW b \in Ids, NEW row, tasks' = [tasks EXCEPT ![b] = row],
             row.phase \in AtWork => tasks[b].phase \in AtWork
      PROVE  Stays
  BY Zenon, <1>1, OtherRows, OwnRow
<1>2. CASE tasks' = tasks
  BY <1>2
<1>3. ASSUME NEW b \in Ids, TaskStep(b), ~(Claimable(b) /\ Claim(b)) PROVE Stays
  <2> USE DEF AtWork
  <2>1. ASSUME NEW w \in Workspaces, EnqueueTask(b, w) PROVE Stays
    BY <1>1, <2>1, FreshRows DEF EnqueueTask
  <2>2. ASSUME NEW c \in BOOLEAN, NEW i \in BOOLEAN,
               tasks' = [tasks EXCEPT ![b] = StopRequested(tasks[b], c, i)]
        PROVE  Stays
    <3>1. StopRequested(tasks[b], c, i).phase \in {"TERMINAL", "CANCELLING"}
      BY <1>0, StopRequestedEffect
    <3>2. QED
      BY <1>1, <2>2, <3>1
  <2>3. ASSUME NEW e \in Epochs, NEW i \in BOOLEAN, NEW s \in BOOLEAN,
               MarkSessionRunning(b, e, i, s)
        PROVE  Stays
    BY <1>1, <2>3 DEF MarkSessionRunning
  <2>4. ASSUME NEW r \in Row, NEW o \in Outcomes, ApplyTerminal(b, r, o) PROVE Stays
    BY <1>1, <2>4, TerminatedRow DEF ApplyTerminal
  <2>5. ASSUME NEW e \in Epochs, NEW source \in SourceSeqs,
               NEW turn \in TurnStates \cup {None},
               NEW terminal \in ProposedOutcomes \cup {None},
               AppendLifecycle(b, e, source, turn, terminal)
        PROVE  Stays
    <3>1. Recorded(tasks[b], turn) \in Row /\ Recorded(tasks[b], turn).phase = tasks[b].phase
      BY <1>0, RecordedRow, SMTT(30)
    <3>2. \/ tasks' = [tasks EXCEPT ![b] = Recorded(tasks[b], turn)]
          \/ terminal \in Outcomes /\ ApplyTerminal(b, Recorded(tasks[b], turn), terminal)
      BY SMTT(20), <2>5, StoreAssumption DEF AppendLifecycle
    <3>3. QED
      BY <1>1, <2>4, <3>1, <3>2
  <2>6. ASSUME NEW e \in Epochs, NEW o \in ProposedOutcomes, TransitionTerminal(b, e, o)
        PROVE  Stays
    BY <1>0, <2>4, <2>6, StoreAssumption, Zenon DEF TransitionTerminal
  <2>7. ASSUME NEW m \in MessageIds, NEW mode \in Modes,
               RequeueTaskForResumeWithMessage(b, m, mode)
        PROVE  Stays
    BY <1>0, <1>1, <2>7, RequeuedRow, Zenon DEF RequeueTaskForResumeWithMessage
  <2>8. ASSUME ReapTask(b) PROVE Stays
    BY <1>0, <1>1, <2>8, ReapedRow, SMTT(30) DEF ReapTask
  <2>9. ASSUME NEW o \in ProposedOutcomes, NEW t \in Texts,
               StoreTaskResultWithReason(b, [outcome |-> o, text |-> t])
        PROVE  Stays
    BY <1>0, <2>4, <2>9, StoreAssumption, Zenon DEF StoreTaskResultWithReason
  <2>10. QED
    BY Zenon, <1>3, <2>1, <2>2, <2>3, <2>5, <2>6, <2>7, <2>8, <2>9
    DEF TaskStep, ClaimNext, ClaimSpecific, RequestClose, RequestStop, RequestRuntimeStop,
        RequestStopInternal, CancelUnstartedIfStillFresh
<1>4. ASSUME NEW q \in RequestIds, RequestStep(q) PROVE Stays
  <2>1. PICK b \in Ids : \/ \E c \in Correlations : InsertPendingRequest(q, b, c)
                         \/ ClaimPendingResponseIfAccepting(b, q)
                         \/ CompletePendingResponse(b, q)
                         \/ ReleasePendingResponse(b, q)
    BY <1>4 DEF RequestStep
  <2>2. \/ tasks' = tasks
        \/ tasks[b].phase \in AtWork /\ \E p \in Phases :
             tasks' = [tasks EXCEPT ![b] = InPhase(tasks[b], p)]
    BY <2>1 DEF InsertPendingRequest, ClaimPendingResponseIfAccepting,
                CompletePendingResponse, ReleasePendingResponse, Accepting,
                AcceptingPhases, Phases, NonterminalPhases, ActivePhases, AtWork
  <2>3. QED
    BY <1>1, <1>2, <2>2
<1>5. ASSUME FenceQueuedCancellation PROVE Stays
  BY <1>0, <1>5, FencedRow DEF FenceQueuedCancellation, TypeOK
<1>6. ASSUME NEW m \in MessageIds, MessageStep(m) PROVE Stays
  BY <1>2, <1>6, SMTT(30)
  DEF MessageStep, InsertMessage, ClaimNextMessage, CompleteMessage, FailMessage
<1>7. QED
  BY <1>2, <1>3, <1>4, <1>5, <1>6 DEF Next, ReserveTaskId, vars

\* A claim finds room in the repository before it takes the task, and nothing
\* else puts a task to work there.
LEMMA LimitStep == TypeOK /\ ClaimedWithinLimit /\ [Next]_vars => ClaimedWithinLimit'
<1> SUFFICES ASSUME TypeOK, ClaimedWithinLimit, [Next]_vars, NEW w \in Workspaces
             PROVE  Cardinality(AtWorkIn(RepositoryOf[w])') <= Limit
  BY SMTT(30) DEF ClaimedWithinLimit, AtWorkIn
<1> DEFINE R == RepositoryOf[w]
           S == AtWorkIn(R)
           T == AtWorkIn(R)'
<1>1. /\ IsFiniteSet(S) /\ IsFiniteSet(ActiveIn(R)) /\ Cardinality(S) <= Limit
      /\ Cardinality(S) \in Nat /\ Cardinality(ActiveIn(R)) \in Nat /\ Limit \in Nat
      /\ Cardinality(S) <= Cardinality(ActiveIn(R))
  <2>0. IsFiniteSet(Ids)
    BY FS_Interval, StoreAssumption DEF Ids
  <2>1. IsFiniteSet(Ids) /\ ActiveIn(R) \subseteq Ids /\ S \subseteq ActiveIn(R)
    BY <2>0 DEF ActiveIn, AtWorkIn
  <2>2. IsFiniteSet(ActiveIn(R)) /\ IsFiniteSet(S)
    BY <2>1, FS_Subset
  <2>3. Cardinality(S) <= Cardinality(ActiveIn(R))
    BY <2>1, <2>2, FS_Subset
  <2>4. QED
    BY <2>2, <2>3, FS_CardinalityType, StoreAssumption DEF ClaimedWithinLimit, AtWorkIn
<1>2. \A a \in Ids : /\ a \in S <=> /\ tasks[a].phase \in AtWork
                                     /\ RepositoryOf[placed[a].workspace] = R
                     /\ a \in T <=> /\ tasks'[a].phase \in AtWork
                                     /\ RepositoryOf[placed'[a].workspace] = R
  BY DEF AtWorkIn, ActiveIn, AtWork, ActivePhases
<1>3. S \subseteq Ids /\ T \subseteq Ids
  BY DEF AtWorkIn, ActiveIn
<1>4. \A a \in Ids : tasks'[a].phase \in AtWork => placed'[a] = placed[a]
  BY PlacesStay, FreshRows DEF AtWork
<1>5. ASSUME \A a \in Ids : tasks'[a].phase \in AtWork => tasks[a].phase \in AtWork
      PROVE  Cardinality(T) <= Limit
  <2>1. T \subseteq S
    BY <1>2, <1>3, <1>4, <1>5
  <2>2. Cardinality(T) \in Nat /\ Cardinality(T) <= Cardinality(S)
    BY <1>1, <2>1, FS_Subset, FS_CardinalityType
  <2>3. QED
    BY <1>1, <2>2
<1>6. ASSUME NEW b \in Ids, Claimable(b), Claim(b) PROVE Cardinality(T) <= Limit
  <2>1. \A a \in Ids \ {b} : tasks'[a] = tasks[a]
    BY <1>6, OtherRows, SMTT(30) DEF Claim
  <2>2. T \subseteq S \cup {b}
    BY <1>2, <1>3, <1>4, <2>1
  <2>3. CASE RepositoryOf[placed[b].workspace] = R
    <3>1. Cardinality(ActiveIn(R)) < Limit
      BY <1>6, <2>3 DEF Claimable
    <3>2. /\ IsFiniteSet(S \cup {b})
          /\ Cardinality(S \cup {b}) <= Cardinality(S) + 1
          /\ Cardinality(S \cup {b}) \in Nat
      <4>1. /\ IsFiniteSet(S \cup {b})
            /\ Cardinality(S \cup {b}) = IF b \in S THEN Cardinality(S) ELSE Cardinality(S) + 1
        BY <1>1, FS_AddElement
      <4>2. QED
        BY <1>1, <4>1
    <3>3. Cardinality(T) \in Nat /\ Cardinality(T) <= Cardinality(S \cup {b})
      BY <2>2, <3>2, FS_Subset, FS_CardinalityType
    <3>4. QED
      BY <1>1, <3>1, <3>2, <3>3, SMTT(30)
  <2>4. CASE RepositoryOf[placed[b].workspace] # R
    <3>1. T \subseteq S
      BY <1>2, <1>3, <1>4, <2>2, <2>4
    <3>2. Cardinality(T) \in Nat /\ Cardinality(T) <= Cardinality(S)
      BY <1>1, <3>1, FS_Subset, FS_CardinalityType
    <3>3. QED
      BY <1>1, <3>2
  <2>5. QED
    BY <2>3, <2>4
<1>7. QED
  BY <1>5, <1>6, OnlyClaimsPutToWork

\* Tasks stay apart, for any number of tasks, workspaces and repositories: no
\* workspace has two unfinished tasks and no repository more claimed ones than
\* its limit (enqueue_task_authoritative, claim_next, claim_specific, requeue).
THEOREM StoreTasksApart == Spec => []TasksApart
<1>1. Init => ClaimedWithinLimit
  <2> SUFFICES ASSUME Init, NEW w \in Workspaces
               PROVE  Cardinality(AtWorkIn(RepositoryOf[w])) <= Limit
    BY SMTT(30) DEF ClaimedWithinLimit, AtWorkIn
  <2>1. AtWorkIn(RepositoryOf[w]) = {}
    BY SMTT(30) DEF Init, AbsentRow, AtWorkIn, ActiveIn, ActivePhases
  <2>2. QED
    BY <2>1, FS_EmptySet, StoreAssumption
<1>2. Spec => []ClaimedWithinLimit
  BY <1>1, LimitStep, TypeCorrect, PTL DEF Spec
<1>3. QED
  BY <1>2, WorkspacesExclusive, PTL DEF TasksApart
-----------------------------------------------------------------------------
(* What a task was told and has said.                                      *)

\* A completed result is stored only over empty queues.
LEMMA CompletesIdle ==
  ASSUME TypeOK, [Next]_vars, NEW a \in Ids
  PROVE  CompletedIdle(a)
<1> SUFFICES ASSUME results[a].outcome = None, results'[a].outcome = "COMPLETED"
             PROVE  OpenMessages(a) = {} /\ OpenRequests(a) = {}
  BY DEF CompletedIdle
<1>0. "COMPLETED" # None
  BY DEF None
<1>1. results' # results
  BY <1>0
<1>2. ASSUME NEW b \in Ids, TaskStep(b)
      PROVE  \/ \E m \in MessageIds, mode \in Modes :
                  RequeueTaskForResumeWithMessage(b, m, mode)
             \/ \E o \in ProposedOutcomes, t \in Texts :
                  StoreTaskResultWithReason(b, [outcome |-> o, text |-> t])
  BY Zenon, <1>1, <1>2
  DEF TaskStep, EnqueueTask, ClaimNext, ClaimSpecific, Claim, AppendLifecycle,
      CancelUnstartedIfStillFresh, MarkSessionRunning,
      TransitionTerminal, RequestClose, RequestStop, RequestRuntimeStop,
      RequestStopInternal, ReapTask
<1>3. PICK b \in Ids :
        \/ \E m \in MessageIds, mode \in Modes :
             RequeueTaskForResumeWithMessage(b, m, mode)
        \/ \E o \in ProposedOutcomes, t \in Texts :
             StoreTaskResultWithReason(b, [outcome |-> o, text |-> t])
  BY <1>1, <1>2, SMTT(30)
  DEF Next, vars, ReserveTaskId, FenceQueuedCancellation, MessageStep, InsertMessage,
      ClaimNextMessage, CompleteMessage, FailMessage, RequestStep,
      InsertPendingRequest, ClaimPendingResponseIfAccepting,
      CompletePendingResponse, ReleasePendingResponse
<1>4. ASSUME NEW m \in MessageIds, NEW mode \in Modes,
             RequeueTaskForResumeWithMessage(b, m, mode)
      PROVE  FALSE
  BY <1>0, <1>4 DEF RequeueTaskForResumeWithMessage, TypeOK, NoResult
<1>5. ASSUME NEW o \in ProposedOutcomes, NEW t \in Texts,
             StoreTaskResultWithReason(b, [outcome |-> o, text |-> t])
      PROVE  OpenMessages(a) = {} /\ OpenRequests(a) = {}
  <2>1. a = b /\ o = "COMPLETED"
    BY <1>0, <1>5 DEF StoreTaskResultWithReason, TypeOK
  <2>2. QED
    BY <1>5, <2>1, Zenon DEF StoreTaskResultWithReason, Storable
<1>6. QED
  BY <1>3, <1>4, <1>5, Zenon

\* No step loses what a task was told or has said (NothingForgotten), for any
\* number of tasks, messages and requests.
THEOREM StoreForgetsNothing == Spec => NothingForgotten
<1>1. TypeOK /\ [Next]_vars => [\A a \in Ids : CompletedIdle(a)]_vars
  BY CompletesIdle
<1>2. Spec => [][\A a \in Ids : CompletedIdle(a)]_vars
  BY <1>1, TypeCorrect, PTL DEF Spec
<1>3. /\ [\A a \in Ids : KeptOrResumed(a)]_vars
      /\ [\A a \in Ids : CompletedIdle(a)]_vars
      => [\A a \in Ids : KeptOrResumed(a) /\ CompletedIdle(a)]_vars
  OBVIOUS
<1>4. QED
  BY <1>2, <1>3, TerminalFinality, PTL DEF TerminalIsFinal, NothingForgotten
=============================================================================
