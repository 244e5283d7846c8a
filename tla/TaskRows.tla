------------------------------ MODULE TaskRows ------------------------------
(***************************************************************************)
(* The row of the `tasks` table and what each statement of the store does  *)
(* to it (crates/external-store).  A column that only matters for being    *)
(* NULL or not (session_id, the process identity, closed_at, reaped_at) is *)
(* a Boolean.  runtime_agent_id is "<agent>:<epoch>" in the daemon, so the *)
(* row keeps that epoch, 0 standing for NULL.                              *)
(***************************************************************************)
EXTENDS Naturals

None == "NONE"

ActivePhases == {"PREPARING", "RUNNING", "WAITING_INPUT", "CANCELLING"}
NonterminalPhases == ActivePhases \cup {"QUEUED"}
Phases == NonterminalPhases \cup {"TERMINAL"}
AcceptingPhases == {"RUNNING", "WAITING_INPUT"}

Outcomes == {"COMPLETED", "FAILED", "CANCELLED", "TIMED_OUT",
             "RUNTIME_LOST", "RESULT_INVALID"}
FailureOutcomes == {"FAILED", "RUNTIME_LOST", "RESULT_INVALID"}
TurnStates == {"IDLE", "ACTIVE", "FAILED"}

\* A slot of the table that holds no row yet has the phase "ABSENT".
Row == [phase : Phases \cup {"ABSENT"},
        outcome : Outcomes \cup {None},
        owner_epoch : Nat,
        close_requested : BOOLEAN,
        stop_requested : BOOLEAN,
        session_id : BOOLEAN,
        runtime_agent_id : Nat,
        process_identity : BOOLEAN,
        turn_state : TurnStates,
        last_event_seq : Nat,
        closed_at : BOOLEAN,
        reaped_at : BOOLEAN]

AbsentRow ==
  [phase |-> "ABSENT", outcome |-> None, owner_epoch |-> 0,
   close_requested |-> FALSE, stop_requested |-> FALSE, session_id |-> FALSE,
   runtime_agent_id |-> 0, process_identity |-> FALSE, turn_state |-> "IDLE",
   last_event_seq |-> 0, closed_at |-> FALSE, reaped_at |-> FALSE]

NewRow == [AbsentRow EXCEPT !.phase = "QUEUED"]

\* A cancel or a close was asked for: it wins over every later outcome.
Intent(r) == r.stop_requested \/ r.close_requested

\* The gate of messages and pending requests: a started task nobody stops.
Accepting(r) == r.phase \in AcceptingPhases /\ ~Intent(r)

Claimed(r) == [r EXCEPT !.phase = "PREPARING", !.owner_epoch = @ + 1]

\* mark_session_running: COALESCE keeps a session the row already has.
Started(r, hasIdentity, hasSession) ==
  [r EXCEPT !.phase = "RUNNING",
            !.runtime_agent_id = r.owner_epoch,
            !.process_identity = hasIdentity,
            !.session_id = @ \/ hasSession]

\* The phase moves unless it is final; the flags are set even then.
StopRequested(r, close, intent) ==
  [r EXCEPT !.phase = IF @ = "TERMINAL" THEN @ ELSE "CANCELLING",
            !.close_requested = @ \/ close,
            !.stop_requested = @ \/ intent,
            !.closed_at = @ \/ close]

\* Faulty variant: only a close wins over the proposed outcome.
OutcomeIgnoringStop(r, outcome) ==
  IF r.close_requested THEN "CANCELLED" ELSE outcome

EffectiveOutcome(r, outcome) == IF Intent(r) THEN "CANCELLED" ELSE outcome

Terminated(r, outcome) ==
  [r EXCEPT !.phase = "TERMINAL",
            !.outcome = EffectiveOutcome(r, outcome),
            !.turn_state = IF EffectiveOutcome(r, outcome) \in FailureOutcomes
                             THEN "FAILED" ELSE "IDLE",
            !.closed_at = @ \/ r.close_requested]

\* turn = None: the record carries no turn state (COALESCE).
Recorded(r, turn) ==
  [r EXCEPT !.last_event_seq = @ + 1,
            !.turn_state = IF turn = None THEN @ ELSE turn]

\* The phase alone moves (RUNNING and WAITING_INPUT), or the flag alone.
InPhase(r, phase) == [r EXCEPT !.phase = phase]
Fenced(r) == [r EXCEPT !.stop_requested = TRUE]

Reaped(r) == [r EXCEPT !.reaped_at = TRUE]

\* A resumed run keeps the session and the epoch; everything else is fresh.
Requeued(r) ==
  [NewRow EXCEPT !.owner_epoch = r.owner_epoch, !.session_id = r.session_id]

\* Faulty variant: a process that was never proven gone is forgotten.
ResumableUnreaped(r) ==
  /\ r.phase = "TERMINAL"
  /\ r.session_id
  /\ r.outcome # "CANCELLED"
  /\ ~Intent(r)
  /\ ~r.closed_at


\* Faulty variant: flags that were set on the terminal row are overlooked.
ResumableIgnoringFlags(r) ==
  /\ r.phase = "TERMINAL"
  /\ r.session_id
  /\ r.outcome # "CANCELLED"
  /\ ~r.closed_at
  /\ r.process_identity => r.reaped_at

\* What a resume asks of the row (a cancelled or closed task stays final, a
\* process that was recorded must be proven gone).
Resumable(r) ==
  /\ r.phase = "TERMINAL"
  /\ r.session_id
  /\ r.outcome # "CANCELLED"
  /\ ~Intent(r)
  /\ ~r.closed_at
  /\ r.process_identity => r.reaped_at
=============================================================================
