--------------------------- MODULE OwnerProcess ---------------------------
(***************************************************************************)
(* What the four runtime owners (external-daemon/src/lib.rs and            *)
(* {codex,dsh,agy}/{owner,transport}.rs) have in common: the process group *)
(* behind the driver, the frames the driver hands to the owner's pump      *)
(* thread, the Publisher that numbers what reaches the lifecycle sink and  *)
(* owns the terminal, the TurnTracker, and the two ways to end a process,  *)
(* finish_process and cleanup_for_forced_failure.                          *)
(*                                                                         *)
(* The pump, the thread that finishes the process, the thread of a fault   *)
(* closure and the callers of the command plane interleave at every lock.  *)
(***************************************************************************)
EXTENDS Naturals, Sequences, FiniteSets

CONSTANTS
  None,
  Scopes  \* [agent, faults, turns, asks, kinds]: what a behaviour may contain: the turns
          \* asked for, how often and how the provider acts within them, and its faults:
          \* "kid": the child leaves a descendant, "lost": the frame stream ends without
          \* an exit, "reap": stopping or reaping fails, "late": the exit boundary misses
          \* its deadline, "exit": the child ends by itself, "forced": a fault closure
          \* cleans up, "end": the monitor or the operator finishes the process, "time":
          \* a call runs out of time, "replay": the provider repeats what it sent

VARIABLES
  scope,   \* the scope of this behaviour
  live,    \* the members of the process group
  inbox,   \* frames of the driver the pump has not taken
  pump,    \* the pump thread: where it is, what it is about to emit
  pub,     \* PublisherState, and the records the sink was given
  turn,    \* TurnTrackerState
  fin,     \* the call of finish_process: stop or finish_turn
  forced   \* the call of cleanup_for_forced_failure

processVars == <<live, inbox, pump, pub, turn, fin, forced>>

Fault(f) == f \in scope.faults
Boundaries == {"Completed", "FailedTurn"}
\* RuntimeTerminal; FailedRuntimeLost by its RuntimeLoss
Terminals == {"Stopped", "Completed", "FailedTurn", "Exited", "EventStreamLost",
              "StopFailed", "PostureViolation", "Orphaned"}
\* terminal_proves_process_group_reaped
ProvesReaped == {"Stopped", "Completed", "FailedTurn", "Exited"}


IsTurn(frame) == frame.kind \in {"started", "completed", "failed"}
Frame(kind, of) == [kind |-> kind, of |-> of]

----------------------------------------------------------------------------
\* TurnTracker

NoTurn == [gen |-> 0, active |-> FALSE, boundary |-> None]

Observe(t, kind) ==
  IF kind = "started" THEN [gen |-> t.gen + 1, active |-> TRUE, boundary |-> None]
  ELSE IF kind \in {"completed", "failed"} /\ t.active
  THEN [t EXCEPT !.active = FALSE,
                 !.boundary = IF kind = "completed" THEN "Completed" ELSE "FailedTurn"]
  ELSE t

StartedAfter(previous) == turn.gen > previous
SettledSince(gen) == turn.gen >= gen /\ ~turn.active /\ turn.boundary # None

----------------------------------------------------------------------------
\* Publisher

Unpublished == [owner |-> "Running", exit |-> FALSE, log |-> << >>]

PublishLocked(p, terminal) ==
  [p EXCEPT !.owner = terminal, !.log = Append(@, Frame("terminal", terminal))]

PublishTerminal(p, terminal) ==
  IF p.owner \in Terminals THEN p ELSE PublishLocked(p, terminal)

EmitDriver(p, frame, exitTerminal) ==
  LET shown == [p EXCEPT !.log = Append(@, frame), !.exit = @ \/ frame.kind = "exit"]
  IN  IF p.owner \in Terminals THEN p
      ELSE IF exitTerminal # None /\ p.owner = "Running"
      THEN PublishLocked(shown, exitTerminal)
      ELSE shown

----------------------------------------------------------------------------
\* The process group (external)

LeaderExits(code) ==
  /\ "leader" \in live /\ Fault("exit")
  /\ live' = live \ {"leader"}
  /\ inbox' = Append(inbox, Frame("exit", code))
  /\ UNCHANGED <<pump, pub, turn, fin, forced>>

KidExits ==
  /\ "kid" \in live
  /\ live' = live \ {"kid"}
  /\ UNCHANGED <<inbox, pump, pub, turn, fin, forced>>

\* Driver::stop_and_reap: proves the group gone, unless the leader is gone
\* while descendants remain
CanReap == "leader" \in live \/ live = {}
Reap ==
  /\ live' = {}
  /\ inbox' = IF "leader" \in live THEN Append(inbox, Frame("exit", "other")) ELSE inbox
ReapFails == (~CanReap \/ Fault("reap")) /\ UNCHANGED <<live, inbox>>

----------------------------------------------------------------------------
\* The pump

\* Faulty variant: the group is not looked at.
ExitTerminalOfLeader(code) ==
  IF code # "zero" THEN "Exited"
  ELSE IF ~turn.active /\ turn.boundary = "Completed" THEN "Completed"
  ELSE "EventStreamLost"

\* classify_child_exit: nothing but an empty group proves an end
ExitTerminal(code) ==
  IF live # {} THEN "Orphaned"
  ELSE IF code # "zero" THEN "Exited"
  ELSE IF ~turn.active /\ turn.boundary = "Completed" THEN "Completed"
  ELSE "EventStreamLost"

Classified(exit) ==
  [pc |-> "exit", frame |-> exit, terminal |-> ExitTerminal(exit.of), gen |-> turn.gen]

PumpTakesExit ==
  /\ pump.pc = "recv" /\ inbox # << >> /\ Head(inbox).kind = "exit"
  /\ pump' = Classified(Head(inbox))
  /\ inbox' = Tail(inbox)
  /\ UNCHANGED <<live, pub, turn, fin, forced>>

PumpEmitsExit ==
  /\ pump.pc = "exit"
  /\ pub' = EmitDriver(pub, pump.frame, pump.terminal)
  /\ pump' = [pump EXCEPT !.pc = "done"]
  /\ UNCHANGED <<live, inbox, turn, fin, forced>>

PumpLosesStream ==
  /\ pump.pc = "recv" /\ inbox = << >> /\ Fault("lost")
  /\ pub' = PublishTerminal(pub, "EventStreamLost")
  /\ pump' = [pump EXCEPT !.pc = "done"]
  /\ UNCHANGED <<live, inbox, turn, fin, forced>>

----------------------------------------------------------------------------
\* finish_process: stop() with no boundary, finish_turn() with the one seen

FinishBegin(boundary) ==
  /\ fin.pc = "idle" /\ Fault("end")
  /\ IF pub.owner \in Terminals
     THEN fin' = [fin EXCEPT !.pc = "done", !.result = pub.owner] /\ UNCHANGED pub
     ELSE /\ pub' = [pub EXCEPT !.owner = "Stopping"]
          /\ fin' = [fin EXCEPT !.pc = "reap", !.boundary = boundary, !.gen = turn.gen]
  /\ UNCHANGED <<live, inbox, pump, turn, forced>>

FinishReap ==
  /\ fin.pc = "reap"
  /\ \/ CanReap /\ Reap /\ fin' = [fin EXCEPT !.pc = "await"]
     \/ ReapFails /\ fin' = [fin EXCEPT !.pc = "publish", !.result = "StopFailed"]
  /\ UNCHANGED <<pump, pub, turn, forced>>

\* wait_for_exit_boundary
FinishAwait ==
  /\ fin.pc = "await"
  /\ \/ pub.exit
     \/ pub.owner \in Terminals
     \/ Fault("late")
  /\ fin' = [fin EXCEPT !.pc = "publish",
       !.result = IF pub.exit THEN IF fin.boundary = None THEN "Stopped" ELSE fin.boundary
                  ELSE IF pub.owner \in Terminals THEN pub.owner ELSE "EventStreamLost"]
  /\ UNCHANGED <<live, inbox, pump, pub, turn, forced>>

FinishPublish ==
  /\ fin.pc = "publish"
  /\ pub' = PublishTerminal(pub, fin.result)
  /\ fin' = [fin EXCEPT !.pc = "done", !.result = pub'.owner]
  /\ UNCHANGED <<live, inbox, pump, turn, forced>>

\* cleanup_owned_group, then publish_cleanup_terminal: the persisted-identity
\* reaper is tried where the driver refuses
CleanupReap ==
  /\ forced.pc = "idle" /\ Fault("forced")
  /\ \/ CanReap /\ Reap /\ forced' = [pc |-> "publish", result |-> "Stopped"]
     \/ /\ ~CanReap \/ Fault("reap")
        /\ \/ /\ live' = {}
              /\ inbox' = IF "leader" \in live THEN Append(inbox, Frame("exit", "other")) ELSE inbox
              /\ forced' = [pc |-> "publish", result |-> "Stopped"]
           \/ /\ Fault("reap")
              /\ forced' = [pc |-> "publish", result |-> "StopFailed"]
              /\ UNCHANGED <<live, inbox>>
  /\ UNCHANGED <<pump, pub, turn, fin>>

CleanupPublish ==
  /\ forced.pc = "publish"
  /\ pub' = PublishLocked(pub, forced.result)
  /\ forced' = [forced EXCEPT !.pc = "done"]
  /\ UNCHANGED <<live, inbox, pump, turn, fin>>

ProcessInit ==
  /\ scope \in Scopes
  /\ live \in {{"leader"}} \cup (IF Fault("kid") THEN {{"leader", "kid"}} ELSE {})
  /\ inbox = << >>
  /\ pump = [pc |-> "recv", frame |-> None, terminal |-> None, gen |-> 0]
  /\ pub = Unpublished
  /\ turn = NoTurn
  /\ fin = [pc |-> "idle", boundary |-> None, gen |-> 0, result |-> None]
  /\ forced = [pc |-> "idle", result |-> None]

----------------------------------------------------------------------------
(***************************************************************************)
(* Whoever publishes it, a terminal that lets the scheduler give up the    *)
(* process (terminal_proves_process_group_reaped) is published only with   *)
(* the whole group gone.                                                   *)
(***************************************************************************)
ReapProven == pub.owner \in ProvesReaped => live = {}

(***************************************************************************)
(* When a runtime ends as Completed the sink has already been given the    *)
(* completed boundary of the turn it completes, the last the tracker had   *)
(* seen when finish_turn was called or the exit was classified:            *)
(* finish_process waits for the exit frame, which the pump emits after     *)
(* every earlier one.                                                      *)
(***************************************************************************)
Begun(i) == Cardinality({j \in 1..i : pub.log[j].kind = "started"})
TextBeforeCompleted ==
  pub.owner = "Completed" =>
    \E i \in 1..Len(pub.log) :
      /\ pub.log[i].kind = "completed"
      /\ Begun(i) >= (IF fin.boundary # None THEN fin.gen ELSE pump.gen)

(***************************************************************************)
(* The sink is given nothing after the terminal, except the verdict of a   *)
(* forced cleanup (emit_driver, publish_cleanup_terminal).                 *)
(***************************************************************************)
TerminalIsLast ==
  \A i \in 1..Len(pub.log) : pub.log[i].kind = "terminal" =>
    \A j \in (i + 1)..Len(pub.log) : pub.log[j].kind = "terminal" /\ forced.pc = "done"

(***************************************************************************)
(* The terminal stop() or finish_turn() hands its caller is one the sink   *)
(* was told of, whichever thread published it first (publish_terminal).    *)
(***************************************************************************)
FinishAgrees ==
  fin.pc = "done" =>
    \E i \in 1..Len(pub.log) : pub.log[i] = Frame("terminal", fin.result)

(***************************************************************************)
(* Once a stop owns the process its child's exit is no longer a terminal   *)
(* of its own: the pump cannot answer a stop with Exited or Orphaned       *)
(* (begin_stopping, emit_driver).                                          *)
(***************************************************************************)
StopOwns == fin.pc \notin {"idle", "done"} => pub.owner \notin {"Exited", "Orphaned"}

(***************************************************************************)
(* The terminal of an owner is sound: of one thread, after the text it is  *)
(* about, the last word to the sink, and reaped when it says so, whichever *)
(* of the pump, a stop and a forced cleanup publishes it.                  *)
(***************************************************************************)
OwnerTerminal ==
  ReapProven /\ TextBeforeCompleted /\ TerminalIsLast /\ FinishAgrees /\ StopOwns
=============================================================================
