-------------------------- MODULE TaskStoreProofs ---------------------------
(***************************************************************************)
(* Proofs about the rows of TaskStore, for every number of tasks,          *)
(* workspaces, messages and requests: their types, what a step does to one *)
(* of them, and the action properties of a task.                           *)
(***************************************************************************)
EXTENDS TaskStore, FiniteSetTheorems, TLAPS

-----------------------------------------------------------------------------
(* Every operator on rows gives a row; what it does to the columns that    *)
(* the invariants speak about.                                             *)

SameFlags(r, s) == /\ s.close_requested = r.close_requested
                   /\ s.stop_requested = r.stop_requested
                   /\ s.session_id = r.session_id
SameRuntime(r, s) == /\ s.owner_epoch = r.owner_epoch
                     /\ s.runtime_agent_id = r.runtime_agent_id
                     /\ s.process_identity = r.process_identity

\* The row enqueue_task_authoritative inserts, and no row at all, have the type of a row.
LEMMA FreshRows ==
  /\ AbsentRow \in Row
  /\ NewRow \in Row
  /\ NewRow.phase = "QUEUED" /\ NewRow.outcome = None
  /\ ~NewRow.close_requested /\ ~NewRow.stop_requested
  /\ NewRow.owner_epoch = 0 /\ NewRow.runtime_agent_id = 0
  /\ ~NewRow.process_identity
  BY Zenon DEF Row, NewRow, AbsentRow, TurnStates, Phases, NonterminalPhases

\* claim_next and claim_specific leave a row: the epoch goes up and the phase moves on.
LEMMA ClaimedRow ==
  ASSUME NEW r \in Row
  PROVE  /\ Claimed(r) \in Row
         /\ Claimed(r).phase = "PREPARING" /\ Claimed(r).outcome = r.outcome
         /\ Claimed(r).owner_epoch = r.owner_epoch + 1
         /\ Claimed(r).runtime_agent_id = r.runtime_agent_id
         /\ Claimed(r).process_identity = r.process_identity
         /\ SameFlags(r, Claimed(r))
<1>1. r.owner_epoch + 1 \in Nat
  BY DEF Row
<1>2. Claimed(r) \in Row
  BY Zenon, <1>1 DEF Row, Claimed, Phases, NonterminalPhases, ActivePhases
<1>3. QED
  BY <1>2 DEF Row, Claimed, SameFlags

\* mark_session_running leaves a row.
LEMMA StartedRow ==
  ASSUME NEW r \in Row, NEW i \in BOOLEAN, NEW s \in BOOLEAN
  PROVE  Started(r, i, s) \in Row
<1>1. r.owner_epoch \in Nat /\ (r.session_id \/ s) \in BOOLEAN
  BY DEF Row
<1>2. QED
  BY Zenon, <1>1 DEF Row, Started, Phases, NonterminalPhases, ActivePhases

\* What mark_session_running leaves in the columns it writes.
LEMMA StartedEffect ==
  ASSUME NEW r \in Row, NEW i, NEW s
  PROVE  /\ Started(r, i, s).phase = "RUNNING" /\ Started(r, i, s).outcome = r.outcome
         /\ Started(r, i, s).owner_epoch = r.owner_epoch
         /\ Started(r, i, s).runtime_agent_id = r.owner_epoch
         /\ Started(r, i, s).close_requested = r.close_requested
         /\ Started(r, i, s).stop_requested = r.stop_requested
  BY DEF Row, Started

\* request_stop_internal leaves a row.
LEMMA StopRequestedRow ==
  ASSUME NEW r \in Row, NEW c \in BOOLEAN, NEW i \in BOOLEAN
  PROVE  StopRequested(r, c, i) \in Row
<1>1. /\ (r.close_requested \/ c) \in BOOLEAN
      /\ (r.stop_requested \/ i) \in BOOLEAN
      /\ (r.closed_at \/ c) \in BOOLEAN
      /\ (IF r.phase = "TERMINAL" THEN r.phase ELSE "CANCELLING")
           \in Phases \cup {"ABSENT"}
  BY DEF Row, Phases, NonterminalPhases, ActivePhases
<1>2. \A p \in Phases \cup {"ABSENT"}, x, y, z \in BOOLEAN :
        [r EXCEPT !.phase = p, !.close_requested = x,
                  !.stop_requested = y, !.closed_at = z] \in Row
  BY Zenon DEF Row
<1>3. QED
  BY Zenon, <1>1, <1>2 DEF StopRequested

\* What request_stop_internal leaves in the columns it writes.
LEMMA StopRequestedEffect ==
  ASSUME NEW r \in Row, NEW c, NEW i
  PROVE  /\ StopRequested(r, c, i).phase
              = (IF r.phase = "TERMINAL" THEN "TERMINAL" ELSE "CANCELLING")
         /\ StopRequested(r, c, i).outcome = r.outcome
         /\ StopRequested(r, c, i).close_requested = (r.close_requested \/ c)
         /\ StopRequested(r, c, i).stop_requested = (r.stop_requested \/ i)
         /\ SameRuntime(r, StopRequested(r, c, i))
  BY DEF Row, StopRequested, SameRuntime

\* apply_terminal leaves a row.
LEMMA TerminatedRow ==
  ASSUME NEW r \in Row, NEW o \in Outcomes
  PROVE  /\ Terminated(r, o) \in Row
         /\ Terminated(r, o).phase = "TERMINAL"
         /\ Terminated(r, o).outcome = EffectiveOutcome(r, o)
         /\ EffectiveOutcome(r, o) \in Outcomes
         /\ SameFlags(r, Terminated(r, o))
         /\ SameRuntime(r, Terminated(r, o))
<1>1. /\ EffectiveOutcome(r, o) \in Outcomes
      /\ (r.closed_at \/ r.close_requested) \in BOOLEAN
      /\ "TERMINAL" \in Phases
      /\ (IF EffectiveOutcome(r, o) \in FailureOutcomes THEN "FAILED" ELSE "IDLE")
           \in TurnStates
  BY DEF EffectiveOutcome, Outcomes, TurnStates, Phases
<1>2. Terminated(r, o) \in Row
  BY Zenon, <1>1 DEF Row, Terminated
<1>3. QED
  BY <1>1, <1>2 DEF Row, Terminated, SameFlags, SameRuntime

\* append_lifecycle leaves a row, and only its ledger columns differ.
LEMMA RecordedRow ==
  ASSUME NEW r \in Row, NEW t \in TurnStates \cup {None}
  PROVE  /\ Recorded(r, t) \in Row
         /\ Recorded(r, t).phase = r.phase /\ Recorded(r, t).outcome = r.outcome
         /\ SameFlags(r, Recorded(r, t))
         /\ SameRuntime(r, Recorded(r, t))
<1>1. /\ r.last_event_seq + 1 \in Nat
      /\ (IF t = None THEN r.turn_state ELSE t) \in TurnStates
  BY DEF Row
<1>2. Recorded(r, t) \in Row
  BY Zenon, <1>1 DEF Row, Recorded
<1>3. QED
  BY <1>2 DEF Row, Recorded, SameFlags, SameRuntime

\* requeue_task_for_resume_with_message leaves a row.
LEMMA RequeuedRow ==
  ASSUME NEW r \in Row
  PROVE  /\ Requeued(r) \in Row
         /\ Requeued(r).phase = "QUEUED" /\ Requeued(r).outcome = None
         /\ ~Requeued(r).close_requested /\ ~Requeued(r).stop_requested
         /\ Requeued(r).owner_epoch = r.owner_epoch
         /\ Requeued(r).runtime_agent_id = 0
         /\ ~Requeued(r).process_identity
         /\ Requeued(r).session_id = r.session_id
  BY Zenon DEF Row, Requeued, NewRow, AbsentRow, TurnStates, Phases, NonterminalPhases

\* Moving to and from WAITING_INPUT changes the phase alone.
LEMMA PhaseOnlyRow ==
  ASSUME NEW r \in Row, NEW p \in Phases
  PROVE  /\ InPhase(r, p) \in Row
         /\ InPhase(r, p).phase = p /\ InPhase(r, p).outcome = r.outcome
         /\ SameFlags(r, InPhase(r, p)) /\ SameRuntime(r, InPhase(r, p))
  BY DEF Row, InPhase, SameFlags, SameRuntime

\* fence_queued_cancellation leaves a row.
LEMMA FencedRow ==
  ASSUME NEW r \in Row
  PROVE  /\ Fenced(r) \in Row
         /\ Fenced(r).phase = r.phase /\ Fenced(r).outcome = r.outcome
         /\ Fenced(r).stop_requested
         /\ Fenced(r).close_requested = r.close_requested
         /\ SameRuntime(r, Fenced(r))
  BY Zenon DEF Row, Fenced, SameRuntime

\* reap_task sets its receipt and nothing else.
LEMMA ReapedRow ==
  ASSUME NEW r \in Row
  PROVE  /\ Reaped(r) \in Row
         /\ Reaped(r).phase = r.phase /\ Reaped(r).outcome = r.outcome
         /\ SameFlags(r, Reaped(r)) /\ SameRuntime(r, Reaped(r))
  BY Zenon DEF Row, Reaped, SameFlags, SameRuntime
-----------------------------------------------------------------------------
(* Types.                                                                  *)

\* Finite tables have finitely many active rows, so the counters are naturals.
LEMMA CountsAreNaturals ==
  /\ NextMessageRow \in Nat
  /\ Cardinality({b \in Ids : Exists(b)}) \in Nat
  /\ Epochs \subseteq Nat
<1>1. IsFiniteSet(MessageIds) /\ IsFiniteSet(Ids)
  BY FS_Interval, StoreAssumption DEF Ids
<1>2. /\ IsFiniteSet({m \in MessageIds : messages[m].state # "ABSENT"})
      /\ IsFiniteSet({b \in Ids : Exists(b)})
  BY <1>1, FS_Subset
<1>3. Cardinality(MessageIds) \in Nat
  BY <1>1, FS_CardinalityType
<1>4. QED
  BY <1>2, <1>3, FS_CardinalityType DEF NextMessageRow, Epochs

\* settle_terminal_commands keeps the types of both queues.
LEMMA SettledTypes ==
  ASSUME TypeOK, NEW a \in Ids
  PROVE  /\ SettledMessages(a) \in [MessageIds -> Message]
         /\ SettledRequests(a) \in [RequestIds -> Request]
<1>1. ASSUME NEW m \in MessageIds
      PROVE  [messages[m] EXCEPT !.state = "FAILED"] \in Message
  BY DEF TypeOK, Message, MessageStates
<1>2. ASSUME NEW q \in RequestIds
      PROVE  [requests[q] EXCEPT !.state = "ABSENT"] \in Request
  BY DEF TypeOK, Request
<1>3. QED
  BY <1>1, <1>2 DEF SettledMessages, SettledRequests, TypeOK

\* The empty database is well typed.
LEMMA TypeInit == Init => TypeOK
<1> SUFFICES ASSUME Init PROVE TypeOK
  OBVIOUS
<1> USE StoreAssumption
<1>1. AbsentRow \in Row
  BY FreshRows
<1>2. next_id \in FirstId..(LastId + 1) /\ FirstId \in Ids
  BY DEF Init, Ids
<1>3. tasks \in [Ids -> Row] /\ results \in [Ids -> Results]
  BY <1>1 DEF Init, Results, NoResult
<1>4. placed \in [Ids -> Place]
  BY DEF Init, Place
<1>5. messages \in [MessageIds -> Message] /\ requests \in [RequestIds -> Request]
  BY <1>2 DEF Init, Message, Request, Modes
<1>6. QED
  BY <1>2, <1>3, <1>4, <1>5 DEF TypeOK, Init

\* Every call of the store leaves a well-typed database.
LEMMA TypeStep == TypeOK /\ [Next]_vars => TypeOK'
<1> SUFFICES ASSUME TypeOK, [Next]_vars PROVE TypeOK'
  OBVIOUS
<1> USE StoreAssumption
<1>1. ASSUME ReserveTaskId PROVE TypeOK'
  BY <1>1 DEF ReserveTaskId, TypeOK
<1>2. ASSUME FenceQueuedCancellation PROVE TypeOK'
  BY <1>2, FencedRow DEF FenceQueuedCancellation, TypeOK
<1>3. ASSUME NEW a \in Ids, TaskStep(a) PROVE TypeOK'
  <2>1. ASSUME NEW w \in Workspaces, EnqueueTask(a, w) PROVE TypeOK'
    BY <2>1, CountsAreNaturals, FreshRows DEF EnqueueTask, TypeOK, Place
  <2>2. ASSUME Claim(a) PROVE TypeOK'
    BY <2>2, ClaimedRow DEF Claim, TypeOK
  <2>3. ASSUME CancelUnstartedIfStillFresh(a) PROVE TypeOK'
    <3>0. tasks[a] \in Row
      BY DEF TypeOK
    <3>1. StopRequested(tasks[a], FALSE, TRUE) \in Row
      BY Zenon, <3>0, StopRequestedRow
    <3>2. QED
      BY Zenon, <2>3, <3>1, SettledTypes
      DEF CancelUnstartedIfStillFresh, SettleTerminalCommands, TypeOK
  <2>4. ASSUME NEW e \in Epochs, NEW i \in BOOLEAN, NEW s \in BOOLEAN,
               MarkSessionRunning(a, e, i, s)
        PROVE  TypeOK'
    BY <2>4, StartedRow DEF MarkSessionRunning, TypeOK
  <2>5. ASSUME NEW e \in Epochs, NEW source \in SourceSeqs,
               NEW turn \in TurnStates \cup {None},
               NEW terminal \in ProposedOutcomes \cup {None},
               AppendLifecycle(a, e, source, turn, terminal)
        PROVE  TypeOK'
    <3>0. tasks[a] \in Row
      BY DEF TypeOK
    <3>1. Recorded(tasks[a], turn) \in Row /\ tasks[a].last_event_seq + 1 \in Nat
      <4>1. Recorded(tasks[a], turn) \in Row
        BY <3>0, RecordedRow
      <4>2. tasks[a].last_event_seq + 1 \in Nat
        BY <3>0 DEF Row
      <4>3. QED
        BY <4>1, <4>2
    <3>2. events' \subseteq Event
      BY <2>5, <3>1, CountsAreNaturals DEF AppendLifecycle, TypeOK, Event
    <3>3. CASE terminal = None
      BY <2>5, <3>1, <3>2, <3>3 DEF AppendLifecycle, TypeOK
    <3>4. CASE terminal # None
      <4>1. terminal \in Outcomes
        BY <3>4
      <4>2. Terminated(Recorded(tasks[a], turn), terminal) \in Row
        BY <3>1, <4>1, TerminatedRow
      <4>3. QED
        BY <2>5, <3>2, <3>4, <4>2, SettledTypes
        DEF AppendLifecycle, ApplyTerminal, SettleTerminalCommands, TypeOK
    <3>5. QED
      BY <3>3, <3>4
  <2>6. ASSUME NEW e \in Epochs, NEW o \in ProposedOutcomes,
               TransitionTerminal(a, e, o)
        PROVE  TypeOK'
    BY <2>6, SettledTypes, TerminatedRow
    DEF TransitionTerminal, ApplyTerminal, SettleTerminalCommands, TypeOK
  <2>7. ASSUME NEW c \in BOOLEAN, NEW i \in BOOLEAN, RequestStopInternal(a, c, i)
        PROVE  TypeOK'
    BY <2>7, SettledTypes, StopRequestedRow
    DEF RequestStopInternal, SettleTerminalCommands, TypeOK
  <2>8. ASSUME NEW m \in MessageIds, NEW mode \in Modes,
               RequeueTaskForResumeWithMessage(a, m, mode)
        PROVE  TypeOK'
    <3>1. NewMessage(a, mode) \in Message
      BY CountsAreNaturals DEF NewMessage, Message, MessageStates, OpenMessage
    <3>2. NoResult \in Results
      BY DEF NoResult, Results
    <3>3. QED
      BY <2>8, <3>1, <3>2, RequeuedRow DEF RequeueTaskForResumeWithMessage, TypeOK
  <2>9. ASSUME ReapTask(a) PROVE TypeOK'
    BY <2>9, ReapedRow DEF ReapTask, TypeOK
  <2>10. ASSUME NEW o \in ProposedOutcomes, NEW t \in Texts,
                StoreTaskResultWithReason(a, [outcome |-> o, text |-> t])
         PROVE  TypeOK'
    <3>1. [outcome |-> o, text |-> t] \in Results
      BY DEF Results
    <3>2. Terminated(tasks[a], o) \in Row
      BY TerminatedRow DEF TypeOK
    <3>3. QED
      BY <2>10, <3>1, <3>2, SettledTypes
      DEF StoreTaskResultWithReason, Storable, ApplyTerminal, SettleTerminalCommands, TypeOK
  <2>11. QED
    BY Zenon, <1>3, <2>1, <2>2, <2>3, <2>4, <2>5, <2>6, <2>7, <2>8, <2>9, <2>10
    DEF TaskStep, ClaimNext, ClaimSpecific, RequestClose, RequestStop, RequestRuntimeStop
<1>4. ASSUME NEW m \in MessageIds, MessageStep(m) PROVE TypeOK'
  <2>1. ASSUME NEW s \in MessageStates
        PROVE  [messages[m] EXCEPT !.state = s] \in Message
    BY DEF TypeOK, Message
  <2>2. ASSUME NEW a \in Ids, NEW mode \in Modes, InsertMessage(m, a, mode)
        PROVE  TypeOK'
    <3>1. NewMessage(a, mode) \in Message
      BY CountsAreNaturals DEF NewMessage, Message, MessageStates, OpenMessage
    <3>2. QED
      BY <2>2, <3>1 DEF InsertMessage, TypeOK
  <2>3. ASSUME NEW a \in Ids, ClaimNextMessage(a, m) PROVE TypeOK'
    BY <2>1, <2>3 DEF ClaimNextMessage, TypeOK, MessageStates, OpenMessage
  <2>4. ASSUME CompleteMessage(m) PROVE TypeOK'
    BY <2>1, <2>4 DEF CompleteMessage, TypeOK, MessageStates, OpenMessage
  <2>5. ASSUME FailMessage(m) PROVE TypeOK'
    BY <2>1, <2>5 DEF FailMessage, TypeOK, MessageStates, OpenMessage
  <2>6. QED
    BY <1>4, <2>2, <2>3, <2>4, <2>5 DEF MessageStep
<1>5. ASSUME NEW q \in RequestIds, RequestStep(q) PROVE TypeOK'
  <2> USE DEF RequestStates, OpenRequest
  <2>0. PICK a \in Ids : \/ \E c \in Correlations : InsertPendingRequest(q, a, c)
                         \/ ClaimPendingResponseIfAccepting(a, q)
                         \/ CompletePendingResponse(a, q)
                         \/ ReleasePendingResponse(a, q)
    BY <1>5 DEF RequestStep
  <2>1. ASSUME NEW s \in RequestStates
        PROVE  [requests[q] EXCEPT !.state = s] \in Request
    BY DEF TypeOK, Request
  <2>2. InPhase(tasks[a], "RUNNING") \in Row /\ InPhase(tasks[a], "WAITING_INPUT") \in Row
    BY PhaseOnlyRow DEF TypeOK, Phases, NonterminalPhases, ActivePhases
  <2>3. ASSUME NEW c \in Correlations, InsertPendingRequest(q, a, c) PROVE TypeOK'
    BY <2>2, <2>3 DEF InsertPendingRequest, TypeOK, Request
  <2>4. ASSUME ClaimPendingResponseIfAccepting(a, q) PROVE TypeOK'
    BY <2>1, <2>4 DEF ClaimPendingResponseIfAccepting, TypeOK
  <2>5. ASSUME CompletePendingResponse(a, q) PROVE TypeOK'
    BY <2>1, <2>2, <2>5 DEF CompletePendingResponse, TypeOK
  <2>6. ASSUME ReleasePendingResponse(a, q) PROVE TypeOK'
    BY <2>1, <2>6 DEF ReleasePendingResponse, TypeOK
  <2>7. QED
    BY <2>0, <2>3, <2>4, <2>5, <2>6
<1>6. CASE UNCHANGED vars
  BY <1>6 DEF vars, TypeOK
<1>7. QED
  BY <1>1, <1>2, <1>3, <1>4, <1>5, <1>6 DEF Next

\* Every reachable state of the store has the shape its tables prescribe.
THEOREM TypeCorrect == Spec => []TypeOK
  BY TypeInit, TypeStep, PTL DEF Spec
-----------------------------------------------------------------------------
(* What a step of the store can do to one row and its result.              *)

\* The row moves and its result stays.
RowMove(r, s) ==
  \/ s = r
  \/ r.phase = "ABSENT" /\ s = NewRow
  \/ r.phase = "QUEUED" /\ ~Intent(r) /\ s = Claimed(r)
  \/ r.phase = "PREPARING" /\ \E i, session \in BOOLEAN : s = Started(r, i, session)
  \/ r.phase # "ABSENT" /\ \E c, i \in BOOLEAN : s = StopRequested(r, c, i)
  \/ /\ r.phase \in NonterminalPhases
     /\ \E t \in TurnStates \cup {None} :
          \/ s = Recorded(r, t)
          \/ \E o \in Outcomes : s = Terminated(Recorded(r, t), o)
  \/ r.phase \in NonterminalPhases /\ \E o \in Outcomes : s = Terminated(r, o)
  \/ r.phase = "TERMINAL" /\ s = Reaped(r)
  \/ Accepting(r) /\ s = InPhase(r, "WAITING_INPUT")
  \/ r.phase = "WAITING_INPUT" /\ ~Intent(r) /\ s = InPhase(r, "RUNNING")

\* The row ends with the result that is stored.
RowResult(r, s, old, new) ==
  /\ old.outcome = None
  /\ r.phase \in ActivePhases
  /\ new.outcome \in Outcomes
  /\ Intent(r) => new.outcome = "CANCELLED"
  /\ s = Terminated(r, new.outcome)

RowResume(r, s, new) == Resumable(r) /\ s = Requeued(r) /\ new = NoResult

RowChange(a) == \/ RowMove(tasks[a], tasks'[a]) /\ results'[a] = results[a]
                \/ RowResult(tasks[a], tasks'[a], results[a], results'[a])
                \/ RowResume(tasks[a], tasks'[a], results'[a])

\* The fence reaches all queued rows at once.
RowFence(a) == /\ tasks[a].phase = "QUEUED"
               /\ tasks'[a] = Fenced(tasks[a])
               /\ results'[a] = results[a]

RowStep(a) == RowChange(a) \/ RowFence(a)

\* A step that sets the row of b changes no other row.
LEMMA OtherRows ==
  ASSUME TypeOK, NEW b \in Ids, NEW row, tasks' = [tasks EXCEPT ![b] = row],
         NEW a \in Ids, a # b
  PROVE  tasks'[a] = tasks[a]
  BY DEF TypeOK

\* A step that sets the row of b leaves there what it wrote.
LEMMA OwnRow ==
  ASSUME TypeOK, NEW a \in Ids, NEW row, tasks' = [tasks EXCEPT ![a] = row]
  PROVE  tasks'[a] = row
  BY DEF TypeOK

\* The rows and results of all tasks but b stay.
OthersKept(b) == \A a \in Ids \ {b} : tasks'[a] = tasks[a] /\ results'[a] = results[a]

\* Each call that works on one task moves its row as RowStep says and keeps the others.
LEMMA OneRowMoves ==
  ASSUME TypeOK, [Next]_vars
  PROVE  \/ tasks' = tasks /\ results' = results
         \/ FenceQueuedCancellation
         \/ \E b \in Ids : OthersKept(b) /\ RowChange(b)
<1> DEFINE Moves(b) == OthersKept(b) /\ RowChange(b)
<1> USE StoreAssumption DEF RowChange, OthersKept
<1>1. ASSUME NEW b \in Ids, TaskStep(b) PROVE Moves(b)
  <2>1. ASSUME NEW w \in Workspaces, EnqueueTask(b, w) PROVE Moves(b)
    BY <2>1, OtherRows, OwnRow DEF EnqueueTask, RowMove, Exists
  <2>2. ASSUME Claimable(b), Claim(b) PROVE Moves(b)
    BY <2>2, OtherRows, OwnRow DEF Claim, Claimable, RowMove
  <2>3. ASSUME CancelUnstartedIfStillFresh(b) PROVE Moves(b)
    BY Zenon, <2>3, OtherRows, OwnRow DEF CancelUnstartedIfStillFresh, RowMove
  <2>4. ASSUME NEW e \in Epochs, NEW i \in BOOLEAN, NEW s \in BOOLEAN,
               MarkSessionRunning(b, e, i, s)
        PROVE  Moves(b)
    BY <2>4, OtherRows, OwnRow DEF MarkSessionRunning, RowMove
  <2>5. ASSUME NEW e \in Epochs, NEW source \in SourceSeqs,
               NEW turn \in TurnStates \cup {None},
               NEW terminal \in ProposedOutcomes \cup {None},
               AppendLifecycle(b, e, source, turn, terminal)
        PROVE  Moves(b)
    <3>1. tasks[b].phase \in NonterminalPhases /\ results' = results
      BY <2>5 DEF AppendLifecycle, Exists, TypeOK, Row, Phases
    <3>2. \/ tasks' = [tasks EXCEPT ![b] = Recorded(tasks[b], turn)]
          \/ /\ terminal \in Outcomes
             /\ tasks' = [tasks EXCEPT ![b] = Terminated(Recorded(tasks[b], turn), terminal)]
      BY SMTT(20), <2>5 DEF AppendLifecycle, ApplyTerminal
    <3>3. QED
      BY <3>1, <3>2, OtherRows, OwnRow DEF RowMove
  <2>6. ASSUME NEW e \in Epochs, NEW o \in ProposedOutcomes,
               TransitionTerminal(b, e, o)
        PROVE  Moves(b)
    BY <2>6, OtherRows, OwnRow DEF TransitionTerminal, ApplyTerminal, RowMove
  <2>7. ASSUME NEW c \in BOOLEAN, NEW i \in BOOLEAN, RequestStopInternal(b, c, i)
        PROVE  Moves(b)
    BY Zenon, <2>7, OtherRows, OwnRow DEF RequestStopInternal, Exists, RowMove
  <2>8. ASSUME NEW m \in MessageIds, NEW mode \in Modes,
               RequeueTaskForResumeWithMessage(b, m, mode)
        PROVE  Moves(b)
    <3>1. /\ results'[b] = NoResult
          /\ \A a \in Ids \ {b} : results'[a] = results[a]
      BY <2>8 DEF RequeueTaskForResumeWithMessage, TypeOK
    <3>2. QED
      BY Zenon, <2>8, <3>1, OtherRows, OwnRow
      DEF RequeueTaskForResumeWithMessage, RowMove, RowResume
  <2>9. ASSUME ReapTask(b) PROVE Moves(b)
    BY <2>9, OtherRows, OwnRow DEF ReapTask, RowMove
  <2>10. ASSUME NEW o \in ProposedOutcomes, NEW t \in Texts,
                StoreTaskResultWithReason(b, [outcome |-> o, text |-> t])
         PROVE  Moves(b)
    <3>1. /\ results'[b] = [outcome |-> o, text |-> t]
          /\ \A a \in Ids \ {b} : results'[a] = results[a]
      BY <2>10 DEF StoreTaskResultWithReason, Storable, TypeOK
    <3>2. QED
      BY Zenon, <2>10, <3>1, OtherRows, OwnRow
      DEF StoreTaskResultWithReason, Storable, ApplyTerminal, RowMove, RowResult
  <2>11. QED
    BY Zenon, <1>1, <2>1, <2>2, <2>3, <2>4, <2>5, <2>6, <2>7, <2>8, <2>9, <2>10
    DEF TaskStep, ClaimNext, ClaimSpecific, RequestClose, RequestStop, RequestRuntimeStop
<1>2. ASSUME NEW q \in RequestIds, RequestStep(q)
      PROVE  (tasks' = tasks /\ results' = results) \/ \E b \in Ids : Moves(b)
  <2>1. PICK b \in Ids : \/ \E c \in Correlations : InsertPendingRequest(q, b, c)
                         \/ ClaimPendingResponseIfAccepting(b, q)
                         \/ CompletePendingResponse(b, q)
                         \/ ReleasePendingResponse(b, q)
    BY <1>2 DEF RequestStep
  <2>2. ASSUME NEW c \in Correlations, InsertPendingRequest(q, b, c) PROVE Moves(b)
    BY <2>2, OtherRows, OwnRow DEF InsertPendingRequest, RowMove
  <2>3. ASSUME CompletePendingResponse(b, q) PROVE Moves(b)
    BY <2>3, OtherRows, OwnRow DEF CompletePendingResponse, RowMove
  <2>4. QED
    BY SMTT(20), <2>1, <2>2, <2>3 DEF ClaimPendingResponseIfAccepting, ReleasePendingResponse
<1>3. ASSUME NEW m \in MessageIds, MessageStep(m) PROVE tasks' = tasks /\ results' = results
  BY <1>3
  DEF MessageStep, InsertMessage, ClaimNextMessage, CompleteMessage, FailMessage
<1>4. QED
  BY <1>1, <1>2, <1>3 DEF Next, ReserveTaskId, vars

\* Every step of the store, seen from one row, is a row step or keeps it.
LEMMA EveryStepIsARowStep ==
  ASSUME TypeOK, [Next]_vars, NEW a \in Ids
  PROVE  RowStep(a)
<1>1. CASE tasks' = tasks /\ results' = results
  BY SMTT(20), <1>1 DEF RowStep, RowChange, RowMove
<1>2. CASE FenceQueuedCancellation
  BY <1>2 DEF FenceQueuedCancellation, RowStep, RowFence, RowChange, RowMove
<1>3. ASSUME NEW b \in Ids, OthersKept(b), RowChange(b) PROVE RowStep(a)
  BY Zenon, <1>3 DEF OthersKept, RowStep, RowChange, RowMove
<1>4. QED
  BY <1>1, <1>2, <1>3, OneRowMoves
-----------------------------------------------------------------------------
(* The inductive invariant of a row: the parts of the invariants below that *)
(* speak about one task.                                                    *)

RowInv(r, result) ==
  /\ (r.phase = "TERMINAL") <=> (r.outcome # None)
  /\ Intent(r) => r.phase \in {"QUEUED", "CANCELLING", "TERMINAL"}
  /\ result.outcome # None => r.phase = "TERMINAL" /\ r.outcome = result.outcome
  /\ r.runtime_agent_id \in {0, r.owner_epoch}
  /\ r.process_identity => r.runtime_agent_id # 0
  /\ r.phase \in {"QUEUED", "PREPARING"} => r.runtime_agent_id = 0
  /\ r.phase = "PREPARING" => r.owner_epoch # 0
  /\ r.phase \in AcceptingPhases => r.runtime_agent_id # 0
  /\ r.phase = "ABSENT" => r.owner_epoch = 0

RowsInv == \A a \in Ids : RowInv(tasks[a], results[a])

\* A move of a row keeps its columns consistent.
LEMMA RowMoveKeeps ==
  ASSUME NEW r \in Row, NEW s, NEW result, RowInv(r, result), RowMove(r, s)
  PROVE  RowInv(s, result)
<1>0. /\ r.owner_epoch \in Nat /\ r.process_identity \in BOOLEAN
      /\ None \notin Outcomes
  BY DEF Row, None, Outcomes
<1> USE <1>0 DEF RowInv, Intent, SameFlags, SameRuntime, AcceptingPhases,
            NonterminalPhases, ActivePhases
<1>1. CASE s = r
  BY <1>1
<1>2. CASE r.phase = "ABSENT" /\ s = NewRow
  BY <1>2, FreshRows
<1>3. CASE r.phase = "QUEUED" /\ ~Intent(r) /\ s = Claimed(r)
  BY <1>3, ClaimedRow
<1>4. ASSUME NEW i \in BOOLEAN, NEW x \in BOOLEAN,
             r.phase = "PREPARING", s = Started(r, i, x)
      PROVE  RowInv(s, result)
  <2>1. /\ s.phase = "RUNNING" /\ s.outcome = r.outcome
        /\ s.owner_epoch = r.owner_epoch /\ s.runtime_agent_id = r.owner_epoch
        /\ s.close_requested = r.close_requested
        /\ s.stop_requested = r.stop_requested
    BY <1>4, StartedEffect
  <2>2. s.runtime_agent_id # 0
    BY <1>4, <2>1
  <2>3. QED
    BY <1>4, <2>1, <2>2
<1>5. ASSUME NEW c \in BOOLEAN, NEW i \in BOOLEAN,
             r.phase # "ABSENT", s = StopRequested(r, c, i)
      PROVE  RowInv(s, result)
  <2>1. /\ s.phase = (IF r.phase = "TERMINAL" THEN "TERMINAL" ELSE "CANCELLING")
        /\ s.outcome = r.outcome
        /\ SameRuntime(r, s)
    BY <1>5, StopRequestedEffect
  <2>2. QED
    BY <1>5, <2>1
<1>6. ASSUME NEW t \in TurnStates \cup {None}, s = Recorded(r, t)
      PROVE  RowInv(s, result)
  BY <1>6, RecordedRow
<1>7. ASSUME NEW t \in TurnStates \cup {None}, NEW o \in Outcomes,
             r.phase \in NonterminalPhases, s = Terminated(Recorded(r, t), o)
      PROVE  RowInv(s, result)
  BY <1>7, RecordedRow, TerminatedRow
<1>8. ASSUME NEW o \in Outcomes, r.phase \in NonterminalPhases, s = Terminated(r, o)
      PROVE  RowInv(s, result)
  BY <1>8, TerminatedRow
<1>9. CASE s = Reaped(r)
  BY <1>9, ReapedRow
<1>10. ASSUME NEW p \in {"RUNNING", "WAITING_INPUT"}, Accepting(r), s = InPhase(r, p)
       PROVE  RowInv(s, result)
  BY <1>10, PhaseOnlyRow DEF Accepting, Phases
<1>11. QED
  BY Zenon, <1>1, <1>2, <1>3, <1>4, <1>5, <1>6, <1>7, <1>8, <1>9, <1>10
  DEF RowMove, Accepting

\* Storing an immutable result keeps the columns of a row consistent.
LEMMA RowResultKeeps ==
  ASSUME NEW r \in Row, NEW s, NEW old, NEW new,
         RowInv(r, old), RowResult(r, s, old, new)
  PROVE  RowInv(s, new)
<1>1. /\ s.phase = "TERMINAL" /\ s.outcome = EffectiveOutcome(r, new.outcome)
      /\ s.outcome \in Outcomes
      /\ SameRuntime(r, s)
  BY TerminatedRow DEF RowResult
<1>2. s.outcome = new.outcome
  BY <1>1 DEF RowResult, EffectiveOutcome
<1>3. QED
  BY <1>1, <1>2 DEF RowInv, SameRuntime, AcceptingPhases, None, Outcomes

\* Requeueing a reaped terminal row keeps its columns consistent.
LEMMA RowResumeKeeps ==
  ASSUME NEW r \in Row, NEW s, NEW new, RowResume(r, s, new)
  PROVE  RowInv(s, new)
<1>1. /\ s.phase = "QUEUED" /\ s.outcome = None
      /\ ~s.close_requested /\ ~s.stop_requested
      /\ s.runtime_agent_id = 0 /\ ~s.process_identity
  BY RequeuedRow DEF RowResume
<1>2. QED
  BY <1>1 DEF RowInv, Intent, AcceptingPhases, RowResume, NoResult

\* The drain fence keeps the columns of a row consistent.
LEMMA RowFenceKeeps ==
  ASSUME NEW r \in Row, NEW result, RowInv(r, result), r.phase = "QUEUED"
  PROVE  RowInv(Fenced(r), result)
  BY FencedRow DEF RowInv, SameRuntime, AcceptingPhases

\* No row is inconsistent in the empty database.
LEMMA RowsInvInit == Init => RowsInv
  BY DEF Init, RowsInv, RowInv, AbsentRow, NoResult, Intent, None, AcceptingPhases

\* No call of the store makes a row inconsistent.
LEMMA RowsInvStep == TypeOK /\ RowsInv /\ [Next]_vars => RowsInv'
<1> SUFFICES ASSUME TypeOK, RowsInv, [Next]_vars, NEW a \in Ids
             PROVE  RowInv(tasks'[a], results'[a])
  BY DEF RowsInv
<1>1. tasks[a] \in Row /\ RowInv(tasks[a], results[a]) /\ RowStep(a)
  BY EveryStepIsARowStep DEF TypeOK, RowsInv
<1>2. QED
  BY <1>1, RowMoveKeeps, RowResultKeeps, RowResumeKeeps, RowFenceKeeps
  DEF RowStep, RowChange, RowFence

\* Every reachable row is well typed and its columns agree (RowInv): the inductive
\* invariant from which the other results about single rows follow.
THEOREM RowsCorrect == Spec => [](TypeOK /\ RowsInv)
  BY TypeInit, TypeStep, RowsInvInit, RowsInvStep, PTL DEF Spec

\* At every moment the flags of a row, its phase, its outcome, its stored
\* result and its runtime identity agree, whatever the callers do.
THEOREM RowsAgree ==
  Spec => [](StoppedNeverRuns /\ ResultAgrees /\ RuntimeOfLatestClaim /\ OutcomeIffTerminal)
<1>1. RowsInv => StoppedNeverRuns /\ ResultAgrees /\ RuntimeOfLatestClaim /\ OutcomeIffTerminal
  BY DEF RowsInv, RowInv, StoppedNeverRuns, ResultAgrees, RuntimeOfLatestClaim,
         OutcomeIffTerminal
<1>2. QED
  BY <1>1, RowsCorrect, PTL
-----------------------------------------------------------------------------
(* Action properties of a row.                                             *)

\* A row with a stop or close intent never ends other than CANCELLED.
LEMMA MoveOfStopped ==
  ASSUME NEW r \in Row, NEW s, NEW result,
         RowInv(r, result), RowMove(r, s), Intent(r)
  PROVE  /\ Intent(s)
         /\ (r.phase # "TERMINAL" /\ s.phase = "TERMINAL") => s.outcome = "CANCELLED"
<1> USE DEF Intent, SameFlags, SameRuntime, EffectiveOutcome
<1>1. CASE s = r
  BY <1>1
<1>2. r.phase \notin {"ABSENT", "PREPARING"}
  BY DEF RowInv
<1>3. ASSUME NEW c \in BOOLEAN, NEW i \in BOOLEAN, s = StopRequested(r, c, i)
      PROVE  Intent(s) /\ (r.phase # "TERMINAL" => s.phase # "TERMINAL")
  <2>1. /\ s.phase = (IF r.phase = "TERMINAL" THEN "TERMINAL" ELSE "CANCELLING")
        /\ s.close_requested = (r.close_requested \/ c)
        /\ s.stop_requested = (r.stop_requested \/ i)
    BY <1>3, StopRequestedEffect
  <2>2. QED
    BY Zenon, <2>1
<1>4. ASSUME NEW t \in TurnStates \cup {None}, s = Recorded(r, t)
      PROVE  Intent(s) /\ (r.phase # "TERMINAL" => s.phase # "TERMINAL")
  BY <1>4, RecordedRow
<1>5. ASSUME NEW t \in TurnStates \cup {None}, NEW o \in Outcomes,
             s = Terminated(Recorded(r, t), o)
      PROVE  Intent(s) /\ s.outcome = "CANCELLED"
  BY <1>5, RecordedRow, TerminatedRow
<1>6. ASSUME NEW o \in Outcomes, s = Terminated(r, o)
      PROVE  Intent(s) /\ s.outcome = "CANCELLED"
  BY <1>6, TerminatedRow
<1>7. CASE s = Reaped(r)
  BY <1>7, ReapedRow
<1>8. \/ s = r
      \/ \E c, i \in BOOLEAN : r.phase # "ABSENT" /\ s = StopRequested(r, c, i)
      \/ \E t \in TurnStates \cup {None} :
           s = Recorded(r, t) \/ \E o \in Outcomes : s = Terminated(Recorded(r, t), o)
      \/ \E o \in Outcomes : s = Terminated(r, o)
      \/ s = Reaped(r)
  BY <1>2 DEF RowMove, Accepting
<1>9. QED
  BY <1>1, <1>3, <1>4, <1>5, <1>6, <1>7, <1>8

\* A terminal row moves only by being reaped, flagged or resumed.
LEMMA MoveOfTerminal ==
  ASSUME NEW r \in Row, NEW s, RowMove(r, s), r.phase = "TERMINAL"
  PROVE  s.phase = "TERMINAL" /\ s.outcome = r.outcome
<1>1. \/ s = r
      \/ s = Reaped(r)
      \/ \E c, i \in BOOLEAN : s = StopRequested(r, c, i)
  BY DEF RowMove, Accepting, AcceptingPhases, NonterminalPhases, ActivePhases
<1>2. QED
  BY <1>1, ReapedRow, StopRequestedEffect

\* A cancel or close that was recorded is never withdrawn and decides the
\* outcome, for any number of tasks and any order of calls.
THEOREM CancellationWins == Spec => IntentWins
<1>1. ASSUME TypeOK, RowsInv, [Next]_vars, NEW a \in Ids, Intent(tasks[a])
      PROVE  /\ Intent(tasks'[a])
             /\ (tasks[a].phase # "TERMINAL" /\ tasks'[a].phase = "TERMINAL")
                  => tasks'[a].outcome = "CANCELLED"
  <2>1. tasks[a] \in Row /\ RowInv(tasks[a], results[a]) /\ RowStep(a)
    BY <1>1, EveryStepIsARowStep DEF TypeOK, RowsInv
  <2>2. CASE RowMove(tasks[a], tasks'[a])
    BY SMTT(20), <1>1, <2>1, <2>2, MoveOfStopped
  <2>3. CASE RowResult(tasks[a], tasks'[a], results[a], results'[a])
    BY <1>1, <2>1, <2>3, TerminatedRow DEF RowResult, EffectiveOutcome, SameFlags, Intent
  <2>4. CASE RowResume(tasks[a], tasks'[a], results'[a])
    BY <1>1, <2>4 DEF RowResume, Resumable
  <2>5. CASE RowFence(a)
    BY <1>1, <2>1, <2>5, FencedRow DEF RowFence, Intent
  <2>6. QED
    BY <2>1, <2>2, <2>3, <2>4, <2>5, Zenon DEF RowStep, RowChange
<1>2. TypeOK /\ RowsInv /\ [Next]_vars => [\A a \in Ids : IntentDecides(a)]_vars
  BY <1>1 DEF IntentDecides
<1>3. QED
  BY <1>2, RowsCorrect, PTL DEF Spec, IntentWins

\* A terminal row keeps its outcome and result until a resume, which only a
\* task that nobody stopped and whose process is proven gone can have.
THEOREM TerminalFinality == Spec => TerminalIsFinal
<1>1. ASSUME TypeOK, [Next]_vars, NEW a \in Ids PROVE KeptOrResumed(a)
  <2> SUFFICES ASSUME tasks[a].phase = "TERMINAL" PROVE KeptOrResumed(a)
    BY DEF KeptOrResumed
  <2>1. tasks[a] \in Row /\ RowStep(a)
    BY <1>1, EveryStepIsARowStep DEF TypeOK
  <2>2. ~RowResult(tasks[a], tasks'[a], results[a], results'[a])
    BY DEF RowResult, ActivePhases
  <2>3. CASE RowResume(tasks[a], tasks'[a], results'[a])
    BY <2>1, <2>3, RequeuedRow DEF RowResume, Resumable, KeptOrResumed
  <2>4. QED
    BY SMTT(20), <2>1, <2>2, <2>3, MoveOfTerminal DEF RowStep, RowChange, RowFence, KeptOrResumed
<1>2. TypeOK /\ [Next]_vars => [\A a \in Ids : KeptOrResumed(a)]_vars
  BY <1>1
<1>3. QED
  BY <1>2, TypeCorrect, PTL DEF Spec, TerminalIsFinal
=============================================================================
