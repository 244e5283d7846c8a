------------------------------ MODULE AgyOwner ------------------------------
(***************************************************************************)
(* AgyRuntimeOwner (external-daemon/src/agy/{owner,events,transport}.rs    *)
(* with session.rs of subagents/agy).  The child reads user lines one at a *)
(* time and ends each with a result; a line written while a turn runs is   *)
(* an input it buffers, counted in pending_inputs until the pump sees the  *)
(* child take it up.  The turn lock is held from a turn's opening to the   *)
(* tracker's knowing it, and from a result to its boundary; the scheduler  *)
(* reads the count and the tracker without it, one after the other, under  *)
(* its own operation lock.                                                 *)
(***************************************************************************)
EXTENDS OwnerProcess

VARIABLES
  ax,     \* AgyRuntimeShared: the start gate, the turn state and who holds its lock
  aprov,  \* the child (external)
  acmd    \* the scheduler's calls, serialised by its operation lock

avars == <<ax, aprov, acmd>>

AgyIdle == [pc |-> "idle", pending |-> 0, gen |-> 0]

\* the first call is the bootstrap, which opens the first turn
AgyInit ==
  /\ ax = [start |-> "Pending", open |-> FALSE, pending |-> 0, turns |-> 0, lock |-> None]
  /\ aprov = [lines |-> 0, read |-> 0, running |-> FALSE, greeted |-> FALSE, written |-> 0,
              announced |-> FALSE, acts |-> 0]
  /\ acmd = [AgyIdle EXCEPT !.pc = "quiet"]

----------------------------------------------------------------------------
\* The child (external).  A result carries how many turns the session has had;
\* without an identity it reports that no session started.

AgySays(child, frame) ==
  /\ "leader" \in live
  /\ inbox' = Append(inbox, frame)
  /\ aprov' = child
  /\ UNCHANGED <<live, pump, pub, turn, fin, forced, ax, acmd>>

AgyGreets ==
  /\ ~aprov.greeted /\ aprov.lines > 0
  /\ AgySays([aprov EXCEPT !.greeted = TRUE], Frame("init", None))
AgyRefuses ==
  /\ ~aprov.greeted /\ aprov.lines > 0
  /\ AgySays([aprov EXCEPT !.greeted = TRUE, !.lines = 0], Frame("result", [turns |-> 0, status |-> "none"]))

AgyReads(announced) ==
  /\ aprov.greeted /\ aprov.lines > 0 /\ ~aprov.running /\ "leader" \in live
  /\ aprov' = [aprov EXCEPT !.lines = @ - 1, !.read = @ + 1, !.running = TRUE,
                            !.announced = announced]
  /\ inbox' = IF announced THEN Append(inbox, Frame("user_input", aprov.read + 1)) ELSE inbox
  /\ UNCHANGED <<live, pump, pub, turn, fin, forced, ax, acmd>>

\* a step of the running turn: text of the response, a tool, or another
AgySteps(kind) ==
  /\ aprov.running /\ kind \in scope.kinds /\ aprov.acts < scope.asks
  /\ AgySays([aprov EXCEPT !.acts = @ + 1],
             Frame(kind, [turns |-> aprov.read, announced |-> aprov.announced]))

AgyAnswers(status) ==
  /\ aprov.running
  /\ AgySays([aprov EXCEPT !.running = FALSE],
             Frame("result", [turns |-> aprov.read, status |-> status]))

\* a signalled child may still say "interrupted", of the turn that runs or, when
\* it was idle, of the last one again
AgyDies(said) ==
  /\ live' = {}
  /\ inbox' = IF "leader" \notin live THEN inbox
              ELSE inbox \o (IF said /\ aprov.read > 0
                             THEN <<Frame("result", [turns |-> aprov.read, status |-> "interrupted"])>>
                             ELSE << >>)
                         \o <<Frame("exit", "other")>>

----------------------------------------------------------------------------
\* The pump.  A frame that touches the turn waits for its lock.

Unlocked == ax.lock = None

AgyPumpTakesInit ==
  /\ pump.pc = "recv" /\ inbox # << >> /\ Head(inbox).kind = "init"
  /\ inbox' = Tail(inbox)
  /\ ax' = [ax EXCEPT !.start = IF @ = "Pending" THEN "Ready" ELSE @]
  /\ UNCHANGED <<live, pump, pub, turn, fin, forced, aprov, acmd>>

\* Faulty variant: the input is counted off before the tracker knows its turn.
AgyOpensPendingCounted(frame) ==
  /\ ax' = [ax EXCEPT !.open = TRUE, !.lock = "pump", !.pending = 0]
  /\ pub' = EmitDriver(pub, Frame("started", None), None)
  /\ pump' = [pump EXCEPT !.pc = "opening", !.frame = frame]

\* begin_pending_turn: announced, then observed, then counted off
AgyOpensPending(frame) ==
  /\ ax' = [ax EXCEPT !.open = TRUE, !.lock = "pump"]
  /\ pub' = EmitDriver(pub, Frame("started", None), None)
  /\ pump' = [pump EXCEPT !.pc = "opening", !.frame = frame]

AgyPumpTakesInput ==
  /\ pump.pc = "recv" /\ inbox # << >> /\ Head(inbox).kind = "user_input" /\ Unlocked
  /\ inbox' = Tail(inbox)
  /\ IF ~ax.open /\ ax.pending > 0
     THEN AgyOpensPending(Head(inbox))
     ELSE UNCHANGED <<ax, pub, pump>>
  /\ UNCHANGED <<live, turn, fin, forced, aprov, acmd>>

AgyPumpOpens ==
  /\ pump.pc = "opening"
  /\ turn' = Observe(turn, "started")
  /\ pub' = EmitDriver(pub, Frame("lifecycle", "started"), None)
  /\ pump' = [pump EXCEPT !.pc = "consume"]
  /\ UNCHANGED <<live, inbox, fin, forced, avars>>

AgyPumpConsumes ==
  /\ pump.pc = "consume"
  /\ ax' = [ax EXCEPT !.pending = @ - 1, !.lock = IF pump.frame.kind = "result" THEN "pump" ELSE None]
  /\ pump' = [pump EXCEPT !.pc = IF pump.frame.kind = "result" THEN "result" ELSE "recv"]
  /\ UNCHANGED <<live, inbox, pub, turn, fin, forced, aprov, acmd>>

\* project_event, tool_activity: a step's text and a tool's activity are shown,
\* whether or not a turn is open; any other step is not
Shown(step) == step.kind \in {"agent_response", "tool"}
AgyPumpTakesStep ==
  /\ pump.pc = "recv" /\ inbox # << >>
  /\ Head(inbox).kind \in {"agent_response", "tool", "other step"}
  /\ inbox' = Tail(inbox)
  /\ pub' = IF Shown(Head(inbox)) THEN EmitDriver(pub, Head(inbox), None) ELSE pub
  /\ UNCHANGED <<live, pump, turn, fin, forced, avars>>

\* project_result: before any identity it fails the start; a result of no open
\* turn opens the next buffered one if it counts further, and else is noise
AgyPumpTakesResult ==
  /\ pump.pc = "recv" /\ inbox # << >> /\ Head(inbox).kind = "result" /\ Unlocked
  /\ inbox' = Tail(inbox)
  /\ LET r == Head(inbox).of
         known == [ax EXCEPT !.start = IF @ = "Pending" THEN "Ready" ELSE @]
     IN  IF ax.start = "Pending" /\ r.status = "none"
         THEN ax' = [ax EXCEPT !.start = "Failed"] /\ UNCHANGED <<pub, pump>>
         ELSE IF ax.open
         THEN /\ ax' = [known EXCEPT !.lock = "pump"]
              /\ pump' = [pump EXCEPT !.pc = "result", !.frame = Head(inbox)]
              /\ UNCHANGED pub
         ELSE IF ax.pending > 0 /\ r.turns > ax.turns
         THEN AgyOpensPending(Head(inbox))
         ELSE ax' = known /\ UNCHANGED <<pub, pump>>
  /\ UNCHANGED <<live, turn, fin, forced, aprov, acmd>>

\* TurnClassifier::observe: the turns of the session only grow
Classify(state, r) == [state EXCEPT !.open = FALSE, !.turns = IF r.turns > @ THEN r.turns ELSE @]

\* settle: success completes, the rest fails
AgySettle(r) ==
  IF r.status = "SUCCESS" THEN Frame("completed", r.turns)
  ELSE Frame("failed", IF r.status = "interrupted" THEN None ELSE r.turns)

\* apply_settlement: what was interrupted shows its partial text first
AgyPumpSettles ==
  /\ pump.pc = "result"
  /\ LET r == pump.frame.of
         partial == IF r.status = "interrupted" THEN EmitDriver(pub, Frame("delta", r.turns), None) ELSE pub
     IN  /\ ax' = Classify(ax, r)
         /\ pub' = EmitDriver(partial, AgySettle(r), None)
         /\ pump' = [pump EXCEPT !.pc = "settled", !.frame = AgySettle(r)]
  /\ UNCHANGED <<live, inbox, turn, fin, forced, aprov, acmd>>

AgyPumpSettled ==
  /\ pump.pc = "settled"
  /\ turn' = Observe(turn, pump.frame.kind)
  /\ pub' = EmitDriver(pub, Frame("lifecycle", pump.frame.kind), None)
  /\ ax' = [ax EXCEPT !.lock = None]
  /\ pump' = [pump EXCEPT !.pc = "recv"]
  /\ UNCHANGED <<live, inbox, fin, forced, aprov, acmd>>

----------------------------------------------------------------------------
\* The scheduler's calls

\* turn_snapshot: the count, then the tracker
AgyReadsPending ==
  /\ acmd.pc = "idle"
  /\ acmd' = [acmd EXCEPT !.pc = "counted", !.pending = ax.pending]
  /\ UNCHANGED <<processVars, ax, aprov>>

AgyReadsTracker ==
  /\ acmd.pc = "counted"
  /\ acmd' = [acmd EXCEPT !.pc = IF turn.active \/ acmd.pending > 0 THEN "busy" ELSE "quiet",
                          !.gen = turn.gen]
  /\ UNCHANGED <<processVars, ax, aprov>>

AgyDone == acmd' = AgyIdle
AgyLooksAgain == acmd.pc = "busy" /\ AgyDone /\ UNCHANGED <<processVars, ax, aprov>>

\* send_turn and the bootstrap: the turn is open before its line leaves
AgyBegins ==
  /\ acmd.pc = "quiet" /\ ~turn.active /\ Unlocked
  /\ aprov.written < scope.turns /\ "leader" \in live /\ ax.start # "Failed"
  /\ ax' = [ax EXCEPT !.open = TRUE, !.lock = "cmd"]
  /\ pub' = EmitDriver(pub, Frame("started", None), None)
  /\ acmd' = [acmd EXCEPT !.pc = "begun"]
  /\ UNCHANGED <<live, inbox, pump, turn, fin, forced, aprov>>

AgyOpens ==
  /\ acmd.pc = "begun"
  /\ turn' = Observe(turn, "started")
  /\ pub' = EmitDriver(pub, Frame("lifecycle", "started"), None)
  /\ ax' = [ax EXCEPT !.lock = None]
  /\ acmd' = [acmd EXCEPT !.pc = "write"]
  /\ UNCHANGED <<live, inbox, pump, fin, forced, aprov>>

AgyWrite == aprov' = [aprov EXCEPT !.lines = @ + 1, !.written = @ + 1]

AgyWrites ==
  /\ acmd.pc = "write" /\ "leader" \in live
  /\ AgyWrite
  /\ acmd' = [acmd EXCEPT !.pc = "start"]
  /\ UNCHANGED <<processVars, ax>>

\* wait_start, passed at once by every call after the bootstrap; a start that
\* fails, or a line that cannot be written, ends the runtime
AgyStarted ==
  /\ acmd.pc = "start" /\ ax.start # "Pending"
  /\ acmd' = [AgyIdle EXCEPT !.pc = IF ax.start = "Ready" THEN "idle" ELSE "refused"]
  /\ UNCHANGED <<processVars, ax, aprov>>
AgyCallFails ==
  /\ \/ acmd.pc = "write" /\ ("leader" \notin live \/ Fault("time"))
     \/ acmd.pc = "start" /\ ("leader" \notin live \/ Fault("time"))
  /\ acmd' = [AgyIdle EXCEPT !.pc = "refused"]
  /\ UNCHANGED <<processVars, ax, aprov>>

\* buffer_input: counted and written under the turn lock, and taken off the
\* count again when the write fails
AgyBuffers ==
  /\ Unlocked
  /\ \/ "leader" \in live /\ AgyWrite /\ ax' = [ax EXCEPT !.pending = @ + 1]
     \/ "leader" \notin live /\ UNCHANGED <<ax, aprov>>

\* inject_turn
AgyInjects ==
  /\ acmd.pc = "busy" /\ aprov.written < scope.turns
  /\ AgyBuffers
  /\ AgyDone
  /\ UNCHANGED processVars

\* stop_turn: no cooperative cancel, so it owns the stop and ends the group
AgyStops ==
  /\ acmd.pc = "busy" /\ turn.active /\ Fault("stop")
  /\ IF pub.owner \in Terminals
     THEN AgyDone /\ UNCHANGED pub
     ELSE /\ pub' = [pub EXCEPT !.owner = "Stopping"]
          /\ acmd' = [acmd EXCEPT !.pc = "kill", !.gen = turn.gen]
  /\ UNCHANGED <<live, inbox, pump, turn, fin, forced, ax, aprov>>

AgyStopKills ==
  /\ acmd.pc = "kill"
  /\ \/ /\ CanReap
        /\ \E said \in BOOLEAN : AgyDies(said)
        /\ acmd' = [acmd EXCEPT !.pc = "boundary"]
     \/ ~CanReap /\ UNCHANGED <<live, inbox>> /\ acmd' = [AgyIdle EXCEPT !.pc = "refused"]
  /\ UNCHANGED <<pump, pub, turn, fin, forced, ax, aprov>>

AgyStopReturns ==
  /\ acmd.pc = "boundary" /\ (SettledSince(acmd.gen) \/ live = {})
  /\ acmd' = [AgyIdle EXCEPT !.pc = "refused"]
  /\ UNCHANGED <<processVars, ax, aprov>>

\* finish_turn for the boundary of a quiet snapshot; stop at any time
AgyFinishes ==
  /\ \/ FinishBegin(None) /\ UNCHANGED acmd
     \/ /\ acmd.pc = "quiet" /\ turn.boundary # None
        /\ FinishBegin(turn.boundary)
        /\ acmd' = [AgyIdle EXCEPT !.pc = "finishing"]
  /\ UNCHANGED <<ax, aprov>>

AgyFinishReaps ==
  /\ fin.pc = "reap"
  /\ \/ CanReap /\ (\E said \in BOOLEAN : AgyDies(said)) /\ fin' = [fin EXCEPT !.pc = "await"]
     \/ ReapFails /\ fin' = [fin EXCEPT !.pc = "publish", !.result = "StopFailed"]
  /\ UNCHANGED <<pump, pub, turn, forced, avars>>

AgyProvider ==
  \/ AgyGreets \/ AgyRefuses
  \/ \E announced \in BOOLEAN : AgyReads(announced)
  \/ \E kind \in {"agent_response", "tool", "other step"} : AgySteps(kind)
  \/ \E status \in {"SUCCESS", "ERROR"} : AgyAnswers(status)
AgyCommands ==
  \/ AgyReadsPending \/ AgyReadsTracker \/ AgyLooksAgain
  \/ AgyBegins \/ AgyOpens \/ AgyWrites \/ AgyStarted \/ AgyCallFails
  \/ AgyInjects \/ AgyStops \/ AgyStopKills \/ AgyStopReturns \/ AgyFinishes
AgyProcess ==
  \/ AgyPumpTakesInit \/ AgyPumpTakesInput \/ AgyPumpTakesStep \/ AgyPumpOpens \/ AgyPumpConsumes
  \/ AgyPumpTakesResult \/ AgyPumpSettles \/ AgyPumpSettled
  \/ AgyFinishReaps
  \/ /\ UNCHANGED avars
     /\ \/ \E code \in {"zero", "other"} : LeaderExits(code)
        \/ KidExits \/ PumpTakesExit \/ PumpEmitsExit \/ PumpLosesStream
        \/ FinishAwait \/ FinishPublish \/ CleanupReap \/ CleanupPublish

AgyNext == UNCHANGED scope /\ (AgyProvider \/ AgyCommands \/ AgyProcess)

----------------------------------------------------------------------------
AgyBoundaries == SelectSeq(pub.log, LAMBDA f : f.kind \in {"completed", "failed"})

(***************************************************************************)
(* The scheduler never finds the runtime quiet, and so never finishes it   *)
(* for a turn's boundary, while an input it wrote has not had a turn of    *)
(* its own, although it reads the count and the tracker separately         *)
(* (turn_snapshot, begin_pending_turn).                                    *)
(***************************************************************************)
AgyNoInputLost ==
  scope.agent = "agy" /\ acmd.pc = "quiet" /\ pub.owner = "Running" => Len(AgyBoundaries) = aprov.written

(***************************************************************************)
(* Turns open and close in turn, and the n-th boundary is that of the n-th *)
(* line the child took up, whether or not it announced it; what it does    *)
(* for a line it announced is shown within the turn of that line.  What it *)
(* says when it is signalled closes an open turn at most, and is the last  *)
(* word on any turn (project_event, project_result).                       *)
(***************************************************************************)
AgyResultsInOrder ==
  scope.agent = "agy" => LET turns == SelectSeq(pub.log, IsTurn) IN
  /\ \A i \in 1..Len(turns) : (turns[i].kind = "started") = (i % 2 = 1)
  /\ \A i \in 1..Len(AgyBoundaries) :
       \/ AgyBoundaries[i].of = i
       \/ AgyBoundaries[i].of = None /\ i = Len(AgyBoundaries)
  /\ \A i \in 1..Len(pub.log) : Shown(pub.log[i]) /\ pub.log[i].of.announced =>
       LET before == SelectSeq(SubSeq(pub.log, 1, i), IsTurn)
       IN  Len(before) = 2 * pub.log[i].of.turns - 1

(***************************************************************************)
(* A child that reports that no session started settles no turn: the start *)
(* fails and nothing is published of a turn (project_result, wait_start).  *)
(***************************************************************************)
AgyFailedStart == scope.agent = "agy" /\ ax.start = "Failed" => AgyBoundaries = << >> /\ acmd.pc \in {"start", "refused"}

(***************************************************************************)
(* Every line written to agy has a turn of its own, in order, or the start *)
(* has failed.                                                             *)
(***************************************************************************)
AgyTurns == AgyNoInputLost /\ AgyResultsInOrder /\ AgyFailedStart
=============================================================================
