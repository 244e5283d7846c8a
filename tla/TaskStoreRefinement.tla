------------------------ MODULE TaskStoreRefinement -------------------------
(***************************************************************************)
(* TaskStore implements TaskLifecycle.  The abstract variables are         *)
(* functions of the rows alone, and a step of the store moves one row (or  *)
(* fences all queued ones), so it is enough to look at how one row moves.  *)
(***************************************************************************)
EXTENDS TaskStoreProofs

\* r and s look alike to the abstract specification, except for the stage.
SameButStage(r, s) == /\ Intent(s) <=> Intent(r)
                      /\ s.outcome = r.outcome
                      /\ s.owner_epoch = r.owner_epoch

\* The abstract step that the move of a row from r to s is.
AbstractMove(r, s) ==
  LET from == StageOf(r.phase)
      to == StageOf(s.phase)
  IN \/ from = to /\ SameButStage(r, s)
     \/ from = "none" /\ to = "queued" /\ SameButStage(r, s)
     \/ /\ from = "queued" /\ to = "claimed" /\ ~Intent(r) /\ ~Intent(s)
        /\ s.outcome = r.outcome
        /\ s.owner_epoch = r.owner_epoch + 1
     \/ from = "claimed" /\ to = "running" /\ ~Intent(r) /\ SameButStage(r, s)
     \/ /\ from # "none" /\ to = (IF from = "finished" THEN from ELSE "cancelling")
        /\ Intent(r) => Intent(s)
        /\ s.outcome = r.outcome
        /\ s.owner_epoch = r.owner_epoch
     \/ /\ from \in {"queued", "claimed", "running", "cancelling"} /\ to = "finished"
        /\ Intent(s) <=> Intent(r)
        /\ \E o \in Outcomes : s.outcome = IF Intent(r) THEN "CANCELLED" ELSE o
        /\ s.owner_epoch = r.owner_epoch
     \/ /\ from = "finished" /\ to = "queued" /\ ~Intent(r) /\ ~Intent(s)
        /\ r.outcome # "CANCELLED" /\ s.outcome = None
        /\ s.owner_epoch = r.owner_epoch

\* The stage each phase belongs to.
LEMMA Stages ==
  /\ StageOf("ABSENT") = "none"
  /\ StageOf("QUEUED") = "queued"
  /\ StageOf("PREPARING") = "claimed"
  /\ StageOf("RUNNING") = "running"
  /\ StageOf("WAITING_INPUT") = "running"
  /\ StageOf("CANCELLING") = "cancelling"
  /\ StageOf("TERMINAL") = "finished"
  BY DEF StageOf, AcceptingPhases

\* An unfinished phase belongs to an unfinished stage.
LEMMA StageOfPhase ==
  ASSUME NEW p \in NonterminalPhases
  PROVE  StageOf(p) \in {"queued", "claimed", "running", "cancelling"}
  BY Stages DEF NonterminalPhases, ActivePhases

\* A row that ends, from its own columns or from those a record left.
LEMMA FinishMove ==
  ASSUME NEW r \in Row, NEW q \in Row, NEW o \in Outcomes,
         r.phase \in NonterminalPhases, SameFlags(r, q), SameRuntime(r, q)
  PROVE  AbstractMove(r, Terminated(q, o))
<1> DEFINE s == Terminated(q, o)
<1>1. /\ s.phase = "TERMINAL" /\ s.outcome = EffectiveOutcome(q, o)
      /\ SameFlags(q, s) /\ SameRuntime(q, s)
  BY TerminatedRow
<1>2. StageOf(s.phase) = "finished"
  BY <1>1, Stages
<1>3. StageOf(r.phase) \in {"queued", "claimed", "running", "cancelling"}
  BY StageOfPhase
<1>4. /\ Intent(s) <=> Intent(r)
      /\ s.owner_epoch = r.owner_epoch
      /\ s.outcome = IF Intent(r) THEN "CANCELLED" ELSE o
  BY <1>1 DEF SameFlags, SameRuntime, Intent, EffectiveOutcome
<1> HIDE DEF s
<1>5. AbstractMove(r, s)
  BY <1>2, <1>3, <1>4 DEF AbstractMove
<1>6. QED
  BY <1>5 DEF s

\* A move of one row is a step of the abstract life of its task, or none.
LEMMA MoveIsAbstract ==
  ASSUME NEW r \in Row, NEW s, NEW result, RowInv(r, result), RowMove(r, s)
  PROVE  AbstractMove(r, s)
<1> USE DEF SameFlags, SameRuntime, SameButStage
<1>1. CASE s = r
  BY <1>1 DEF AbstractMove
<1>2. CASE r.phase = "ABSENT" /\ s = NewRow
  <2>1. /\ ~Intent(r) /\ r.outcome = None /\ r.owner_epoch = 0
        /\ ~Intent(s) /\ s.outcome = None /\ s.owner_epoch = 0 /\ s.phase = "QUEUED"
    BY <1>2, FreshRows DEF RowInv, Intent
  <2>2. QED
    BY Zenon, <1>2, <2>1, Stages DEF AbstractMove
<1>3. CASE r.phase = "QUEUED" /\ ~Intent(r) /\ s = Claimed(r)
  <2>1. /\ s.phase = "PREPARING" /\ ~Intent(s) /\ s.outcome = r.outcome
        /\ s.owner_epoch = r.owner_epoch + 1
    BY <1>3, ClaimedRow DEF Intent
  <2>2. QED
    BY <1>3, <2>1, Stages DEF AbstractMove
<1>4. ASSUME NEW i \in BOOLEAN, NEW x \in BOOLEAN,
             r.phase = "PREPARING", s = Started(r, i, x)
      PROVE  AbstractMove(r, s)
  <2>1. /\ s.phase = "RUNNING" /\ s.outcome = r.outcome
        /\ s.owner_epoch = r.owner_epoch
        /\ Intent(s) <=> Intent(r)
    BY <1>4, StartedEffect DEF Intent
  <2>2. ~Intent(r)
    BY <1>4 DEF RowInv
  <2>3. QED
    BY <1>4, <2>1, <2>2, Stages DEF AbstractMove
<1>5. ASSUME NEW c \in BOOLEAN, NEW i \in BOOLEAN,
             r.phase # "ABSENT", s = StopRequested(r, c, i)
      PROVE  AbstractMove(r, s)
  <2>1. /\ s.phase = (IF r.phase = "TERMINAL" THEN "TERMINAL" ELSE "CANCELLING")
        /\ s.outcome = r.outcome /\ s.owner_epoch = r.owner_epoch
        /\ s.close_requested = (r.close_requested \/ c)
        /\ s.stop_requested = (r.stop_requested \/ i)
    BY <1>5, StopRequestedEffect
  <2>2. Intent(r) => Intent(s)
    BY Zenon, <2>1 DEF Intent
  <2>3. /\ StageOf(r.phase) # "none"
        /\ (StageOf(r.phase) = "finished") <=> (r.phase = "TERMINAL")
    BY <1>5, Stages DEF Row, Phases, NonterminalPhases, ActivePhases
  <2>4. QED
    BY <2>1, <2>2, <2>3, Stages DEF AbstractMove
<1>6. ASSUME NEW t \in TurnStates \cup {None}, s = Recorded(r, t)
      PROVE  AbstractMove(r, s)
  BY <1>6, RecordedRow DEF AbstractMove, Intent
<1>7. ASSUME NEW t \in TurnStates \cup {None}, NEW o \in Outcomes,
             r.phase \in NonterminalPhases, s = Terminated(Recorded(r, t), o)
      PROVE  AbstractMove(r, s)
  <2>1. Recorded(r, t) \in Row /\ SameFlags(r, Recorded(r, t)) /\ SameRuntime(r, Recorded(r, t))
    BY RecordedRow
  <2>2. QED
    BY <1>7, <2>1, FinishMove
<1>8. ASSUME NEW o \in Outcomes, r.phase \in NonterminalPhases, s = Terminated(r, o)
      PROVE  AbstractMove(r, s)
  BY <1>8, FinishMove
<1>9. CASE s = Reaped(r)
  BY <1>9, ReapedRow DEF AbstractMove, Intent
<1>10. ASSUME NEW p \in {"RUNNING", "WAITING_INPUT"}, Accepting(r), s = InPhase(r, p)
       PROVE  AbstractMove(r, s)
  <2>1. /\ s.phase = p /\ s.outcome = r.outcome /\ s.owner_epoch = r.owner_epoch
        /\ Intent(s) <=> Intent(r)
    BY <1>10, PhaseOnlyRow DEF Phases, NonterminalPhases, ActivePhases, Intent
  <2>2. StageOf(r.phase) = "running" /\ StageOf(s.phase) = "running"
    BY <1>10, <2>1, Stages DEF Accepting, AcceptingPhases
  <2>3. QED
    BY <2>1, <2>2 DEF AbstractMove
<1>11. QED
  BY <1>1, <1>2, <1>3, <1>4, <1>5, <1>6, <1>7, <1>8, <1>9, <1>10
  DEF RowMove, Accepting, AcceptingPhases

\* Storing a result or resuming is a step of the abstract life of the task.
LEMMA ChangeIsAbstract ==
  ASSUME TypeOK, RowsInv, NEW b \in Ids, RowChange(b)
  PROVE  AbstractMove(tasks[b], tasks'[b])
<1>0. tasks[b] \in Row /\ RowInv(tasks[b], results[b])
  BY DEF TypeOK, RowsInv
<1>1. CASE RowMove(tasks[b], tasks'[b])
  BY <1>0, <1>1, MoveIsAbstract
<1>2. CASE RowResult(tasks[b], tasks'[b], results[b], results'[b])
  BY <1>0, <1>2, FinishMove
  DEF RowResult, SameFlags, SameRuntime, NonterminalPhases
<1>3. CASE RowResume(tasks[b], tasks'[b], results'[b])
  <2>1. /\ tasks[b].phase = "TERMINAL" /\ ~Intent(tasks[b])
        /\ tasks[b].outcome # "CANCELLED"
        /\ tasks'[b].phase = "QUEUED" /\ ~Intent(tasks'[b])
        /\ tasks'[b].outcome = None
        /\ tasks'[b].owner_epoch = tasks[b].owner_epoch
    BY <1>0, <1>3, RequeuedRow DEF RowResume, Resumable, Intent
  <2>2. QED
    BY <2>1, Stages DEF AbstractMove
<1>4. QED
  BY <1>1, <1>2, <1>3 DEF RowChange

\* The empty database maps to tasks that do not exist.
LEMMA LifecycleInit == Init => Lifecycle!Init
<1> SUFFICES ASSUME Init PROVE Lifecycle!Init
  OBVIOUS
<1>1. ASSUME NEW a \in Ids
      PROVE  /\ StageOf(tasks[a].phase) = "none"
             /\ tasks[a].outcome = None /\ tasks[a].owner_epoch = 0
             /\ ~tasks[a].stop_requested /\ ~tasks[a].close_requested
  BY Stages DEF Init, AbsentRow
<1>2. \A a \in Ids : Intent(tasks[a]) = FALSE
  BY <1>1, Zenon DEF Intent
<1>3. QED
  BY Zenon, <1>1, <1>2 DEF Lifecycle!Init

\* One row moves as AbstractMove says, the others keep their columns.
LEMMA LiftMove ==
  ASSUME NEW b \in Ids, AbstractMove(tasks[b], tasks'[b]),
         \A a \in Ids \ {b} : tasks'[a] = tasks[a]
  PROVE  [Lifecycle!Next]_(Lifecycle!lifecycleVars)
<1> DEFINE stage == [a \in Ids |-> StageOf(tasks[a].phase)]
           stopping == [a \in Ids |-> Intent(tasks[a])]
           outcome == [a \in Ids |-> tasks[a].outcome]
           claims == [a \in Ids |-> tasks[a].owner_epoch]
<1>1. /\ stage' = [stage EXCEPT ![b] = StageOf(tasks'[b].phase)]
      /\ outcome' = [outcome EXCEPT ![b] = tasks'[b].outcome]
      /\ claims' = [claims EXCEPT ![b] = tasks'[b].owner_epoch]
  BY Zenon
<1>2. stopping' = [stopping EXCEPT ![b] = Intent(tasks'[b])]
  BY Zenon
<1>3. /\ stage[b] = StageOf(tasks[b].phase) /\ stopping[b] = Intent(tasks[b])
      /\ outcome[b] = tasks[b].outcome /\ claims[b] = tasks[b].owner_epoch
  OBVIOUS
\* what does not change at b does not change at all
<1>4. /\ StageOf(tasks'[b].phase) = StageOf(tasks[b].phase) => stage' = stage
      /\ tasks'[b].outcome = tasks[b].outcome => outcome' = outcome
      /\ tasks'[b].owner_epoch = tasks[b].owner_epoch => claims' = claims
  BY <1>1
<1>5. ASSUME Intent(tasks'[b]) <=> Intent(tasks[b]) PROVE stopping' = stopping
  <2>1. Intent(tasks'[b]) = Intent(tasks[b])
    BY <1>5, Zenon DEF Intent
  <2>2. QED
    BY <1>2, <2>1
<1> DEFINE from == StageOf(tasks[b].phase)
           to == StageOf(tasks'[b].phase)
<1>6. CASE from = to /\ SameButStage(tasks[b], tasks'[b])
  BY <1>4, <1>5, <1>6 DEF SameButStage, Lifecycle!lifecycleVars
<1>7. CASE from = "none" /\ to = "queued" /\ SameButStage(tasks[b], tasks'[b])
  <2>1. Lifecycle!Submit(b)
    BY <1>1, <1>3, <1>4, <1>5, <1>7 DEF SameButStage, Lifecycle!Submit
  <2>2. QED
    BY <2>1 DEF Lifecycle!Next
<1>8. CASE /\ from = "queued" /\ to = "claimed" /\ ~Intent(tasks[b]) /\ ~Intent(tasks'[b])
           /\ tasks'[b].outcome = tasks[b].outcome
           /\ tasks'[b].owner_epoch = tasks[b].owner_epoch + 1
  <2>1. Lifecycle!Claim(b)
    BY <1>1, <1>3, <1>4, <1>5, <1>8 DEF Lifecycle!Claim
  <2>2. QED
    BY <2>1 DEF Lifecycle!Next
<1>9. CASE /\ from = "claimed" /\ to = "running" /\ ~Intent(tasks[b])
           /\ SameButStage(tasks[b], tasks'[b])
  <2>1. Lifecycle!Run(b)
    BY <1>1, <1>3, <1>4, <1>5, <1>9 DEF SameButStage, Lifecycle!Run
  <2>2. QED
    BY <2>1 DEF Lifecycle!Next
<1>10. CASE /\ from # "none" /\ to = (IF from = "finished" THEN from ELSE "cancelling")
            /\ Intent(tasks[b]) => Intent(tasks'[b])
            /\ tasks'[b].outcome = tasks[b].outcome
            /\ tasks'[b].owner_epoch = tasks[b].owner_epoch
  <2>1. Intent(tasks'[b]) = (stopping[b] \/ Intent(tasks'[b]))
    BY <1>3, <1>10, Zenon DEF Intent
  <2>2. Lifecycle!Stop(b, Intent(tasks'[b]))
    BY Zenon, <1>1, <1>2, <1>3, <1>4, <1>10, <2>1 DEF Lifecycle!Stop
  <2>3. Intent(tasks'[b]) \in BOOLEAN
    BY DEF Intent
  <2>4. QED
    BY <2>2, <2>3 DEF Lifecycle!Next
<1>11. ASSUME NEW o \in Outcomes,
              from \in {"queued", "claimed", "running", "cancelling"}, to = "finished",
              Intent(tasks'[b]) <=> Intent(tasks[b]),
              tasks'[b].outcome = IF Intent(tasks[b]) THEN "CANCELLED" ELSE o,
              tasks'[b].owner_epoch = tasks[b].owner_epoch
       PROVE  Lifecycle!Next
  <2>1. Lifecycle!Finish(b, o)
    BY <1>1, <1>3, <1>4, <1>5, <1>11 DEF Lifecycle!Finish, Lifecycle!Unfinished
  <2>2. QED
    BY <2>1 DEF Lifecycle!Next
<1>12. CASE /\ from = "finished" /\ to = "queued" /\ ~Intent(tasks[b]) /\ ~Intent(tasks'[b])
            /\ tasks[b].outcome # "CANCELLED" /\ tasks'[b].outcome = None
            /\ tasks'[b].owner_epoch = tasks[b].owner_epoch
  <2>1. Lifecycle!Resume(b)
    BY <1>1, <1>3, <1>4, <1>5, <1>12 DEF Lifecycle!Resume
  <2>2. QED
    BY <2>1 DEF Lifecycle!Next
<1>13. QED
  BY <1>6, <1>7, <1>8, <1>9, <1>10, <1>11, <1>12 DEF AbstractMove

\* The drain fence maps to stop requests for queued tasks.
LEMMA LiftFence ==
  ASSUME TypeOK, FenceQueuedCancellation
  PROVE  Lifecycle!StopAllQueued
<1>1. ASSUME NEW a \in Ids
      PROVE  /\ tasks'[a].phase = tasks[a].phase
             /\ tasks'[a].outcome = tasks[a].outcome
             /\ tasks'[a].owner_epoch = tasks[a].owner_epoch
             /\ Intent(tasks'[a]) <=> (Intent(tasks[a]) \/ tasks[a].phase = "QUEUED")
  BY FencedRow DEF FenceQueuedCancellation, TypeOK, SameRuntime, Intent
<1>2. ASSUME NEW a \in Ids
      PROVE  (StageOf(tasks[a].phase) = "queued") <=> (tasks[a].phase = "QUEUED")
  BY Stages DEF TypeOK, Row, Phases, NonterminalPhases, ActivePhases
<1>3. ASSUME NEW a \in Ids
      PROVE  Intent(tasks'[a]) = (Intent(tasks[a]) \/ StageOf(tasks[a].phase) = "queued")
  BY <1>1, <1>2, Zenon DEF Intent
<1>4. QED
  BY <1>1, <1>3 DEF Lifecycle!StopAllQueued

\* The store implements the abstract life cycle: whatever tables its methods
\* touch, for the life of the tasks each call is one abstract step or none.
THEOREM StoreImplementsLifecycle == Spec => ImplementsLifecycle
<1>1. TypeOK /\ RowsInv /\ [Next]_vars => [Lifecycle!Next]_(Lifecycle!lifecycleVars)
  <2> SUFFICES ASSUME TypeOK, RowsInv, [Next]_vars
               PROVE  [Lifecycle!Next]_(Lifecycle!lifecycleVars)
    OBVIOUS
  <2>1. CASE tasks' = tasks
    BY <2>1 DEF Lifecycle!lifecycleVars
  <2>2. CASE FenceQueuedCancellation
    BY <2>2, LiftFence DEF Lifecycle!Next
  <2>3. ASSUME NEW b \in Ids, OthersKept(b), RowChange(b)
        PROVE  [Lifecycle!Next]_(Lifecycle!lifecycleVars)
    BY <2>3, ChangeIsAbstract, LiftMove DEF OthersKept
  <2>4. QED
    BY <2>1, <2>2, <2>3, OneRowMoves
<1>2. QED
  BY <1>1, RowsCorrect, LifecycleInit, PTL DEF Spec, ImplementsLifecycle, Lifecycle!Spec
=============================================================================
