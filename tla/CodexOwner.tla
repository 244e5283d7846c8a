----------------------------- MODULE CodexOwner -----------------------------
(***************************************************************************)
(* CodexRuntimeOwner (external-daemon/src/codex/{owner,session,events,     *)
(* transport}.rs with the helpers of subagents/codex): notifications of    *)
(* the Codex app server become canonical turn events.  Every notification  *)
(* names its turn, and only the turn the owner is projecting may be        *)
(* touched; the provider may repeat any notification it ever sent.         *)
(* A tool or message item is <<turn, number>>.                             *)
(***************************************************************************)
EXTENDS OwnerProcess, SequencesExt

CONSTANTS
  MaxItems,    \* MAX_TRACKED_ITEMS
  MaxRetired   \* MAX_RETIRED_TURNS

VARIABLES
  cx,      \* CodexShared
  cprov,   \* the provider (external)
  ccmd     \* the call of send_turn, inject_turn or stop_turn

cvars == <<cx, cprov, ccmd>>

CodexIdle == [pc |-> "idle", gen |-> 0, req |-> 0, turn |-> None, acked |-> None]

CodexInit ==
  /\ cx = [session |-> FALSE, current |-> None, retired |-> << >>, starting |-> FALSE,
           last |-> None, items |-> {}, tools |-> {}, failure |-> None]
  /\ cprov = [requests |-> << >>, opened |-> 0, active |-> None, acts |-> 0, sent |-> {},
              answer |-> [req |-> 0, turn |-> None], asked |-> 0]
  /\ ccmd = CodexIdle

----------------------------------------------------------------------------
\* The provider (external): a turn/start opens a turn, or is folded into the
\* one that runs and answered with its id

CodexSays(p, frame) ==
  /\ "leader" \in live
  /\ inbox' = Append(inbox, frame)
  /\ cprov' = [p EXCEPT !.sent = @ \cup {frame}]
  /\ UNCHANGED <<live, pump, pub, turn, fin, forced, cx, ccmd>>

CodexOpensTurn ==
  /\ cprov.requests # << >> /\ cprov.active = None
  /\ LET t == cprov.opened + 1 IN
     CodexSays([cprov EXCEPT !.requests = Tail(@), !.opened = t, !.active = t,
                             !.answer = [req |-> Head(cprov.requests), turn |-> t]],
               Frame("turn/started", <<t, None>>))

CodexFoldsIn ==
  /\ "leader" \in live
  /\ cprov.requests # << >> /\ cprov.active # None
  /\ cprov' = [cprov EXCEPT !.requests = Tail(@),
                            !.answer = [req |-> Head(cprov.requests), turn |-> cprov.active]]
  /\ UNCHANGED <<processVars, cx, ccmd>>

\* items, errors and a contradicted posture, within the bound on them
CodexActs(kind, n) ==
  /\ kind \in scope.kinds
  /\ cprov.active # None /\ cprov.acts < scope.asks
  /\ CodexSays([cprov EXCEPT !.acts = @ + 1], Frame(kind, <<cprov.active, n>>))

\* what a resumed thread says of before, while the client awaits the thread's id
CodexLingers(kind) ==
  /\ kind \in scope.kinds
  /\ ~cx.session /\ cprov.acts < scope.asks
  /\ CodexSays([cprov EXCEPT !.acts = @ + 1], Frame(kind, <<0, None>>))

\* a completed turn may carry its first message
CodexEndsTurn(kind, own) ==
  /\ cprov.active # None
  /\ CodexSays([cprov EXCEPT !.active = None],
               Frame(kind, <<cprov.active, IF own THEN <<cprov.active, 1>> ELSE None>>))

CodexReplays(frame) ==
  /\ Fault("replay")
  /\ cprov.acts < scope.asks
  /\ CodexSays([cprov EXCEPT !.acts = @ + 1], frame)

----------------------------------------------------------------------------
\* CodexShared

\* attributable_turn
Attributable(t) == cx.current = t

\* update::observe_item_text, update::record_completed_item
ObserveItemText(items, item) ==
  IF item \in items \/ Cardinality(items) < MaxItems THEN items \cup {item} ELSE items

\* update::observe_tool_item; the turn's first-seen ids
ObserveToolItem(tools, item) == tools \cup {item}

\* update::retire_turn: a ring that forgets its oldest entry
RetireTurn(retired, t) ==
  IF t \in ToSet(retired) THEN retired
  ELSE Append(IF Len(retired) >= MaxRetired THEN Tail(retired) ELSE retired, t)

TurnIsRetired(t) == t \in ToSet(cx.retired)

\* update::final_text: the tracked text of the last message, else the first
\* message the completed turn carries
FinalText(own) == IF cx.last # None /\ cx.last \in cx.items THEN cx.last ELSE own
\* update::turn_failure_reason: the recorded error, else the turn's own
FailureReason(t) == IF cx.failure # None THEN cx.failure ELSE t

----------------------------------------------------------------------------
\* The pump: project_notification, one arm per method.  What is not projected
\* is emitted as it came ("raw").

Projects(frame, shared) ==
  /\ cx' = shared
  /\ pump' = [pump EXCEPT !.pc = "emit", !.frame = frame]
  /\ UNCHANGED pub
PassesOn == Projects(Frame("raw", None), cx)

OpensBoundary(t) == ~turn.active /\ ~TurnIsRetired(t) /\ cx.starting

CodexStarted(t) ==
  IF OpensBoundary(t)
  THEN Projects(Frame("started", t),
         [cx EXCEPT !.current = t, !.last = None, !.tools = {}, !.failure = None])
  ELSE PassesOn

CodexTool(t, item) ==
  IF Attributable(t) /\ item \notin cx.tools
  THEN Projects(Frame("tool", item), [cx EXCEPT !.tools = ObserveToolItem(@, item)])
  ELSE PassesOn

CodexDelta(t, item) ==
  IF Attributable(t)
  THEN Projects(Frame("delta", item), [cx EXCEPT !.items = ObserveItemText(@, item)])
  ELSE PassesOn

CodexMessage(t, item) ==
  IF Attributable(t)
  THEN Projects(Frame("message", item),
         [cx EXCEPT !.items = ObserveItemText(@, item), !.last = item])
  ELSE PassesOn

CodexCompleted(t, own) ==
  IF Attributable(t)
  THEN Projects(Frame("completed", [turn |-> t, text |-> FinalText(own)]), cx)
  ELSE PassesOn

CodexFailed(t) ==
  IF Attributable(t)
  THEN Projects(Frame("failed", [turn |-> t, reason |-> FailureReason(t)]),
         [cx EXCEPT !.failure = FailureReason(t)])
  ELSE PassesOn

CodexError(t) ==
  IF Attributable(t) THEN Projects(Frame("raw", None), [cx EXCEPT !.failure = t]) ELSE PassesOn

\* thread/settings/updated naming a sandbox the admitted posture excludes
CodexDowngraded ==
  IF cx.session
  THEN /\ pub' = PublishTerminal(pub, "PostureViolation")
       /\ UNCHANGED <<cx, pump>>
  ELSE PassesOn

CodexPumpTakes ==
  /\ pump.pc = "recv" /\ inbox # << >> /\ Head(inbox).kind # "exit"
  /\ inbox' = Tail(inbox)
  /\ LET kind == Head(inbox).kind
         t == Head(inbox).of[1]
         n == Head(inbox).of[2]
         scoped == kind # "thread/settings/updated"
     IN  IF scoped /\ ~cx.session THEN PassesOn
         ELSE CASE kind = "turn/started" -> CodexStarted(t)
                [] kind \in {"item/started", "item/completed"} -> CodexTool(t, <<t, n>>)
                [] kind = "item/agentMessage/delta" -> CodexDelta(t, <<t, n>>)
                [] kind = "item/completed message" -> CodexMessage(t, <<t, n>>)
                [] kind = "turn/completed" -> CodexCompleted(t, n)
                [] kind = "turn/failed" -> CodexFailed(t)
                [] kind = "error" -> CodexError(t)
                [] kind = "thread/settings/updated" -> CodexDowngraded
  /\ UNCHANGED <<live, turn, fin, forced, cprov, ccmd>>

\* the sink sees a turn event before the tracker does
CodexPumpEmits ==
  /\ pump.pc = "emit"
  /\ pub' = EmitDriver(pub, pump.frame, None)
  /\ pump' = [pump EXCEPT !.pc = IF IsTurn(pump.frame) THEN "observe" ELSE "recv"]
  /\ UNCHANGED <<live, inbox, turn, fin, forced, cvars>>

CodexPumpObserves ==
  /\ pump.pc = "observe"
  /\ turn' = Observe(turn, pump.frame.kind)
  /\ pump' = [pump EXCEPT !.pc = "retire"]
  /\ UNCHANGED <<live, inbox, pub, fin, forced, cvars>>

\* retire_turn after a boundary, then the lifecycle record
CodexPumpRetires ==
  /\ pump.pc = "retire"
  /\ cx' = IF pump.frame.kind = "started" THEN cx
           ELSE [cx EXCEPT !.retired = RetireTurn(@, cx.current), !.current = None, !.tools = {}]
  /\ pub' = EmitDriver(pub, Frame("lifecycle", pump.frame.kind), None)
  /\ pump' = [pump EXCEPT !.pc = "recv"]
  /\ UNCHANGED <<live, inbox, turn, fin, forced, cprov, ccmd>>

----------------------------------------------------------------------------
\* The command plane, one call at a time

\* bootstrap or resume stored the thread id
CodexThreadKnown ==
  /\ ~cx.session
  /\ cx' = [cx EXCEPT !.session = TRUE]
  /\ UNCHANGED <<processVars, cprov, ccmd>>

CodexAsks(call, shared) ==
  /\ ccmd.pc = "idle" /\ cx.session /\ "leader" \in live
  /\ cprov.asked < scope.turns
  /\ cprov' = [cprov EXCEPT !.asked = @ + 1, !.requests = Append(@, cprov.asked + 1)]
  /\ ccmd' = [call EXCEPT !.req = cprov.asked + 1]
  /\ cx' = shared
  /\ UNCHANGED processVars

\* send_turn, start_turn: a started notification counts while this is in flight
CodexSend ==
  /\ ~turn.active
  /\ CodexAsks([CodexIdle EXCEPT !.pc = "start", !.gen = turn.gen], [cx EXCEPT !.starting = TRUE])

\* inject_turn
CodexInject ==
  /\ cx.current # None
  /\ CodexAsks([CodexIdle EXCEPT !.pc = "inject", !.turn = cx.current], cx)

\* drive_start_turn: the answer, the started turn, and that they agree
CodexSendChecks ==
  /\ ccmd.pc = "start" /\ cprov.answer.req = ccmd.req /\ StartedAfter(ccmd.gen)
  /\ ccmd' = [ccmd EXCEPT !.acked = cprov.answer.turn,
                          !.pc = IF cx.current = cprov.answer.turn THEN "sent" ELSE "refused"]
  /\ UNCHANGED <<processVars, cx, cprov>>

\* inject_active_turn: folded into the turn that was read, or refused
CodexInjectChecks ==
  /\ ccmd.pc = "inject" /\ cprov.answer.req = ccmd.req
  /\ ccmd' = [ccmd EXCEPT !.acked = cprov.answer.turn,
                          !.pc = IF cprov.answer.turn = ccmd.turn THEN "injected" ELSE "refused"]
  /\ UNCHANGED <<processVars, cx, cprov>>

\* stop_turn: turn/interrupt, then the boundary of the turn it found active
CodexStopTurn ==
  /\ ccmd.pc = "idle" /\ turn.active /\ "leader" \in live
  /\ ccmd' = [CodexIdle EXCEPT !.pc = "stop", !.gen = turn.gen]
  /\ UNCHANGED <<processVars, cx, cprov>>

CodexStopTurnReturns ==
  /\ ccmd.pc = "stop" /\ SettledSince(ccmd.gen)
  /\ ccmd' = CodexIdle
  /\ UNCHANGED <<processVars, cx, cprov>>

CodexTimesOut ==
  /\ Fault("time")
  /\ ccmd.pc \in {"start", "inject", "stop"}
  /\ ccmd' = [ccmd EXCEPT !.pc = "failed"]
  /\ UNCHANGED <<processVars, cx, cprov>>

\* every way out of start_turn closes the attribution of started frames
CodexReturns ==
  /\ ccmd.pc \in {"sent", "injected", "refused", "failed"}
  /\ ccmd' = CodexIdle
  /\ cx' = [cx EXCEPT !.starting = FALSE]
  /\ UNCHANGED <<processVars, cprov>>

CodexFinishes ==
  /\ \/ FinishBegin(None)
     \/ /\ ccmd.pc = "idle"
        /\ ~turn.active /\ turn.boundary # None /\ FinishBegin(turn.boundary)
  /\ UNCHANGED cvars

CodexProvider ==
  \/ CodexOpensTurn \/ CodexFoldsIn
  \/ \E kind \in {"item/started", "item/completed", "item/agentMessage/delta",
                  "item/completed message"}, n \in 1..2 : CodexActs(kind, n)
  \/ \E kind \in {"error", "thread/settings/updated"} : CodexActs(kind, None) \/ CodexLingers(kind)
  \/ \E own \in BOOLEAN : CodexEndsTurn("turn/completed", own)
  \/ CodexEndsTurn("turn/failed", FALSE)
  \/ \E frame \in cprov.sent : CodexReplays(frame)
CodexCommands ==
  \/ CodexThreadKnown \/ CodexSend \/ CodexInject \/ CodexSendChecks \/ CodexInjectChecks
  \/ CodexStopTurn \/ CodexStopTurnReturns \/ CodexTimesOut \/ CodexReturns
CodexProcess ==
  \/ CodexPumpTakes \/ CodexPumpEmits \/ CodexPumpObserves \/ CodexPumpRetires
  \/ CodexFinishes
  \/ /\ UNCHANGED cvars
     /\ \/ \E code \in {"zero", "other"} : LeaderExits(code)
        \/ KidExits \/ PumpTakesExit \/ PumpEmitsExit \/ PumpLosesStream
        \/ FinishReap \/ FinishAwait \/ FinishPublish \/ CleanupReap \/ CleanupPublish

CodexNext == UNCHANGED scope /\ (CodexProvider \/ CodexCommands \/ CodexProcess)

----------------------------------------------------------------------------
(***************************************************************************)
(* Whatever the provider repeats, a turn is opened at most once and closed *)
(* at most once, after it was opened, and nothing of it reaches the sink   *)
(* outside its own span (project_notification, retire_turn).               *)
(***************************************************************************)
CodexTurnOf(f) ==
  CASE f.kind = "started" -> f.of
    [] f.kind \in {"completed", "failed"} -> f.of.turn
    [] f.kind \in {"tool", "delta", "message"} -> f.of[1]
    [] OTHER -> None
CodexTurnOnce ==
  scope.agent = "codex" => \A i, j \in 1..Len(pub.log) :
    LET a == pub.log[i]  b == pub.log[j] IN
    i < j /\ CodexTurnOf(a) # None /\ CodexTurnOf(a) = CodexTurnOf(b) =>
      a.kind \notin {"completed", "failed"} /\ b.kind # "started"

(***************************************************************************)
(* The text and the failure reason of a boundary come from its own turn,   *)
(* and the text is the last message the sink was given of it, unless that  *)
(* one found no room in the tracked items (final_text, record_turn_failure).*)
(***************************************************************************)
CodexText ==
  scope.agent = "codex" => \A i \in 1..Len(pub.log) :
    /\ pub.log[i].kind = "failed" => pub.log[i].of.reason = pub.log[i].of.turn
    /\ pub.log[i].kind = "completed" =>
         LET t == pub.log[i].of.turn
             text == pub.log[i].of.text
             messages == {j \in 1..(i - 1) : pub.log[j].kind = "message" /\ pub.log[j].of[1] = t}
         IN  /\ text # None => text[1] = t
             /\ \A j \in messages : (\A k \in messages : k <= j) =>
                  text = pub.log[j].of \/ pub.log[j].of \notin cx.items

(***************************************************************************)
(* A tool item is counted once, however often the provider announces its   *)
(* start and its completion (project_tool_item).                           *)
(***************************************************************************)
CodexToolsOnce ==
  scope.agent = "codex" => \A i, j \in 1..Len(pub.log) :
    pub.log[i].kind = "tool" /\ pub.log[j].kind = "tool" /\ i # j => pub.log[i] # pub.log[j]

=============================================================================
