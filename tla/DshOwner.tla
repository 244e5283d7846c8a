------------------------------ MODULE DshOwner ------------------------------
(***************************************************************************)
(* DshRuntimeOwner (external-daemon/src/dsh/{owner,session,events,         *)
(* transport}.rs with acp/{session,result,permission,update}.rs of dsh).    *)
(* A turn is one session/prompt request: it begins when the request is on  *)
(* the wire and ends with its response, which overtakes the frames sent    *)
(* before it.  So the thread that waits for the response only deposits it, *)
(* and the pump applies it once it has drained the frames.                 *)
(***************************************************************************)
EXTENDS OwnerProcess

CONSTANTS
  DshKeys,      \* wire ids of permission requests
  MaxDshOffers  \* MAX_OFFERED_REQUESTS

VARIABLES
  dx,      \* DshRuntimeShared, and what the pump has in hand: events to emit (out),
           \* a settlement to apply (fold)
  dprov,   \* the provider, and what the driver holds of the response (external)
  dcmd,    \* the call of send_turn, stop_turn or respond_request
  danswers \* the requests answered, in order

dvars == <<dx, dprov, dcmd, danswers>>

DshIdle == [pc |-> "idle", gen |-> 0, offer |-> None]
NoDshOffers == [k \in DshKeys |-> None]
Settled(prompt, ended, text) == [prompt |-> prompt, ended |-> ended, text |-> text]

DshInit ==
  /\ dx = [current |-> None, messages |-> {}, offers |-> NoDshOffers,
           deposit |-> None, out |-> << >>, fold |-> None, after |-> "recv", watched |-> FALSE]
  /\ dprov = [prompts |-> 0, open |-> FALSE, reply |-> None, spoke |-> FALSE, acts |-> 0,
              cut |-> FALSE]
  /\ dcmd = DshIdle
  /\ danswers = << >>

----------------------------------------------------------------------------
\* The provider (external).  A committed message is known by its prompt.

DshSays(provider, frame) ==
  /\ "leader" \in live /\ dprov.open
  /\ inbox' = Append(inbox, frame)
  /\ dprov' = provider
  /\ UNCHANGED <<live, pump, pub, turn, fin, forced, dx, dcmd, danswers>>

DshSpeaks ==
  /\ ~dprov.spoke
  /\ DshSays([dprov EXCEPT !.spoke = TRUE], Frame("agent_message", dprov.prompts))

DshActs(frame) ==
  /\ frame.kind \in scope.kinds /\ dprov.acts < scope.asks
  /\ DshSays([dprov EXCEPT !.acts = @ + 1], frame)
DshAsks(key, options) ==
  DshActs(Frame("permission", [key |-> key, serial |-> dprov.acts + 1, options |-> options]))

\* the response, with the stop reason and the message it verifies; the driver
\* hands it to the waiting thread past the frames still queued
DshSettles(ended) ==
  /\ "leader" \in live /\ dprov.open
  /\ dprov' = [dprov EXCEPT !.open = FALSE, !.spoke = FALSE,
       !.reply = Settled(dprov.prompts, ended, IF dprov.spoke THEN dprov.prompts ELSE None)]
  /\ UNCHANGED <<processVars, dx, dcmd, danswers>>

\* before it reports the exit or the end of the stream the driver answers what
\* is still pending
AnswerPending(provider) ==
  IF provider.open
  THEN [provider EXCEPT !.open = FALSE, !.spoke = FALSE,
                        !.reply = Settled(provider.prompts, "failed", None)]
  ELSE provider
DshEnds == dprov' = IF "leader" \in live /\ "leader" \notin live' THEN AnswerPending(dprov) ELSE dprov

----------------------------------------------------------------------------
\* send_prompt: the request, begin_turn, the settlement thread

DshPrompt ==
  /\ dcmd.pc = "idle" /\ ~turn.active /\ "leader" \in live /\ ~dprov.cut
  /\ dprov.prompts < scope.turns /\ dprov.reply = None
  /\ dprov' = [dprov EXCEPT !.prompts = @ + 1, !.open = TRUE]
  /\ dcmd' = [DshIdle EXCEPT !.pc = "begin"]
  /\ UNCHANGED <<processVars, dx, danswers>>

\* begin_turn: the sink is told before the tracker
DshBegins ==
  /\ dcmd.pc = "begin"
  /\ dx' = [dx EXCEPT !.current = dprov.prompts]
  /\ pub' = EmitDriver(pub, Frame("started", dprov.prompts), None)
  /\ dcmd' = [dcmd EXCEPT !.pc = "open"]
  /\ UNCHANGED <<live, inbox, pump, turn, fin, forced, dprov, danswers>>

DshOpens ==
  /\ dcmd.pc = "open"
  /\ turn' = Observe(turn, "started")
  /\ pub' = EmitDriver(pub, Frame("lifecycle", "started"), None)
  /\ dcmd' = [dcmd EXCEPT !.pc = "watch"]
  /\ UNCHANGED <<live, inbox, pump, fin, forced, dx, dprov, danswers>>

DshWatches ==
  /\ dcmd.pc = "watch"
  /\ dx' = [dx EXCEPT !.watched = TRUE]
  /\ dcmd' = DshIdle
  /\ UNCHANGED <<processVars, dprov, danswers>>

\* the settlement thread: deposit_settled_turn
DshDeposits ==
  /\ dx.watched /\ dprov.reply # None
  /\ dx' = [dx EXCEPT !.deposit = dprov.reply, !.watched = FALSE]
  /\ dprov' = [dprov EXCEPT !.reply = None]
  /\ UNCHANGED <<processVars, dcmd, danswers>>

----------------------------------------------------------------------------
\* The pump

\* update::parse_update, canonical_event_payloads: the events an update of the
\* session becomes.  One of another session ("foreign") or of no tracked kind
\* becomes none, what is no update passes unchanged.
CanonicalEvents(frame) ==
  CASE frame.kind = "agent_message" ->
         <<Frame("text_delta", frame.of), Frame("message_finished", frame.of)>>
    [] frame.kind = "agent_message_chunk" -> <<Frame("text_delta", frame.of)>>
    [] frame.kind = "agent_thought_chunk" -> <<Frame("reasoning_delta", frame.of)>>
    [] frame.kind = "tool_call" -> <<Frame("tool_call", frame.of), Frame("tool started", frame.of)>>
    [] frame.kind = "tool_call_update" -> <<Frame("tool result", frame.of)>>
    [] frame.kind \in {"foreign", "untracked"} -> << >>
    [] OTHER -> <<frame>>

\* parse_offer: a request without an option of a kind is no offer
IsOffer(request) == request.options # {}

\* OfferCache::observe: a full cache takes no new key
ObserveOffer(offers, offer) ==
  IF Cardinality({k \in DshKeys : offers[k] # None}) >= MaxDshOffers /\ offers[offer.key] = None
  THEN offers ELSE [offers EXCEPT ![offer.key] = offer]

\* project_dsh_inbound: a committed message is kept for the settlement that
\* verifies it, a permission offer for its answer
DshProject(frame) ==
  CASE frame.kind = "agent_message" ->
         [dx EXCEPT !.messages = @ \cup {frame.of}, !.out = CanonicalEvents(frame)]
    [] frame.kind = "permission" /\ IsOffer(frame.of) ->
         [dx EXCEPT !.offers = ObserveOffer(@, frame.of), !.out = <<frame>>]
    [] frame.kind = "permission" /\ ~IsOffer(frame.of) ->
         [dx EXCEPT !.out = <<Frame("unsupported input", frame.of)>>]
    [] OTHER -> [dx EXCEPT !.out = CanonicalEvents(frame)]

DshPumpTakes ==
  /\ pump.pc = "recv" /\ inbox # << >> /\ Head(inbox).kind # "exit"
  /\ dx' = DshProject(Head(inbox))
  /\ pump' = IF dx'.out = << >> THEN pump ELSE [pump EXCEPT !.pc = "emit"]
  /\ inbox' = Tail(inbox)
  /\ UNCHANGED <<live, pub, turn, fin, forced, dprov, dcmd, danswers>>

DshPumpEmits ==
  /\ pump.pc = "emit"
  /\ pub' = EmitDriver(pub, Head(dx.out), None)
  /\ dx' = [dx EXCEPT !.out = Tail(@)]
  /\ pump' = IF dx'.out = << >> THEN [pump EXCEPT !.pc = "recv"] ELSE pump
  /\ UNCHANGED <<live, inbox, turn, fin, forced, dprov, dcmd, danswers>>

\* fold_settled_turn: a pump that found nothing takes the deposit, then drains
\* what came before it
DshPumpIdles ==
  /\ pump.pc = "recv" /\ inbox = << >> /\ dx.fold = None
  /\ pump' = [pump EXCEPT !.pc = "fold"]
  /\ UNCHANGED <<live, inbox, pub, turn, fin, forced, dvars>>

DshFoldTakes ==
  /\ pump.pc = "fold"
  /\ dx' = [dx EXCEPT !.fold = dx.deposit, !.deposit = None]
  /\ pump' = [pump EXCEPT !.pc = "recv"]
  /\ UNCHANGED <<live, inbox, pub, turn, fin, forced, dprov, dcmd, danswers>>

\* apply_settled_turn, apply_settlement, fold_settlement: only end_turn
\* completes, with the text of the message it verifies where one was kept
FoldSettlement(settled) ==
  IF settled.ended = "end_turn"
  THEN Frame("completed", [turn |-> dx.current,
         text |-> IF settled.text \in dx.messages THEN settled.text ELSE None, names |-> settled])
  ELSE Frame("failed", [turn |-> dx.current, names |-> settled])

\* apply_boundary
DshApplies(settled, after) ==
  /\ pump' = [pump EXCEPT !.pc = "settle", !.frame = FoldSettlement(settled)]
  /\ dx' = [dx EXCEPT !.current = None, !.fold = None, !.after = after,
                      !.deposit = IF settled = @ THEN None ELSE @]

\* Faulty variant: the frames before the response are not drained.
DshFoldsAtOnce ==
  /\ pump.pc = "recv" /\ dx.fold # None
  /\ DshApplies(dx.fold, "recv")
  /\ UNCHANGED <<live, inbox, pub, turn, fin, forced, dprov, dcmd, danswers>>

DshFolds ==
  /\ pump.pc = "recv" /\ inbox = << >> /\ dx.fold # None
  /\ DshApplies(dx.fold, "recv")
  /\ UNCHANGED <<live, inbox, pub, turn, fin, forced, dprov, dcmd, danswers>>

DshBoundaryEmits ==
  /\ pump.pc = "settle"
  /\ pub' = EmitDriver(pub, pump.frame, None)
  /\ pump' = [pump EXCEPT !.pc = "observe"]
  /\ UNCHANGED <<live, inbox, turn, fin, forced, dvars>>

DshBoundaryObserves ==
  /\ pump.pc = "observe"
  /\ turn' = Observe(turn, pump.frame.kind)
  /\ pub' = EmitDriver(pub, Frame("lifecycle", pump.frame.kind), None)
  /\ pump' = [pump EXCEPT !.pc = dx.after]
  /\ UNCHANGED <<live, inbox, fin, forced, dvars>>

\* the exit passes through the projection first, as any other frame
DshTakesExit ==
  /\ pump.pc = "recv" /\ inbox # << >> /\ Head(inbox).kind = "exit"
  /\ pub' = EmitDriver(pub, Head(inbox), None)
  /\ pump' = [pump EXCEPT !.pc = "exiting", !.terminal = Head(inbox).of]
  /\ inbox' = Tail(inbox)
  /\ UNCHANGED <<live, turn, fin, forced, dvars>>

DshTakesEnd ==
  /\ pump.pc = "recv" /\ inbox = << >> /\ Fault("lost")
  /\ pump' = [pump EXCEPT !.pc = "losing"]
  /\ dprov' = [AnswerPending(dprov) EXCEPT !.cut = TRUE]
  /\ UNCHANGED <<live, inbox, pub, turn, fin, forced, dx, dcmd, danswers>>

\* finish_on_child_exit, finish_on_lost_stream: what was taken or is deposited
\* of a turn still open is applied first
DshEndFolds ==
  /\ pump.pc \in {"exiting", "losing"}
  /\ \/ dx.fold # None /\ DshApplies(dx.fold, pump.pc)
     \/ dx.fold = None /\ turn.active /\ dx.deposit # None /\ DshApplies(dx.deposit, pump.pc)
  /\ UNCHANGED <<live, inbox, pub, turn, fin, forced, dprov, dcmd, danswers>>

DshEndWaited ==
  /\ dx.fold = None
  /\ \/ ~turn.active
     \/ dx.deposit = None /\ Fault("late")

DshExitClassified ==
  /\ pump.pc = "exiting" /\ DshEndWaited
  /\ pump' = Classified(Frame("exit", pump.terminal))
  /\ UNCHANGED <<live, inbox, pub, turn, fin, forced, dvars>>

DshEmitsExit == PumpEmitsExit /\ dx' = [dx EXCEPT !.offers = NoDshOffers]
                /\ UNCHANGED <<dprov, dcmd, danswers>>

DshLost ==
  /\ pump.pc = "losing" /\ DshEndWaited
  /\ pub' = PublishTerminal(pub, "EventStreamLost")
  /\ pump' = [pump EXCEPT !.pc = "done"]
  /\ dx' = [dx EXCEPT !.offers = NoDshOffers]
  /\ UNCHANGED <<live, inbox, turn, fin, forced, dprov, dcmd, danswers>>

----------------------------------------------------------------------------
\* The command plane

\* stop_turn: session/cancel, then the boundary of the turn it found active
DshStopTurn ==
  /\ dcmd.pc = "idle" /\ turn.active /\ "leader" \in live /\ Fault("stop")
  /\ dcmd' = [DshIdle EXCEPT !.pc = "stop", !.gen = turn.gen]
  /\ UNCHANGED <<processVars, dx, dprov, danswers>>

DshStopTurnReturns ==
  /\ dcmd.pc = "stop" /\ (SettledSince(dcmd.gen) \/ Fault("time"))
  /\ dcmd' = DshIdle
  /\ UNCHANGED <<processVars, dx, dprov, danswers>>

\* PermissionOffer::select: an option of the decision's kind, if one was offered
Selects(offer, decision) == decision \in offer.options

\* respond_request: the offer is consumed before it is known to hold the decision
DshRespond(key, decision) ==
  /\ dcmd.pc = "idle" /\ dx.offers[key] # None
  /\ dx' = [dx EXCEPT !.offers[key] = None]
  /\ dcmd' = IF Selects(dx.offers[key], decision) THEN [DshIdle EXCEPT !.pc = "write", !.offer = dx.offers[key]] ELSE dcmd
  /\ UNCHANGED <<processVars, dprov, danswers>>

DshRespondWrites ==
  /\ dcmd.pc = "write"
  /\ \/ "leader" \in live /\ danswers' = Append(danswers, dcmd.offer)
     \/ (Fault("time") \/ "leader" \notin live) /\ UNCHANGED danswers
  /\ dcmd' = DshIdle
  /\ UNCHANGED <<processVars, dx, dprov>>

DshFinishes ==
  /\ \/ FinishBegin(None)
     \/ /\ dcmd.pc = "idle"
        /\ ~turn.active /\ turn.boundary # None /\ FinishBegin(turn.boundary)
  /\ UNCHANGED dvars

DshFinishPublishes == FinishPublish /\ dx' = [dx EXCEPT !.offers = NoDshOffers]
                      /\ UNCHANGED <<dprov, dcmd, danswers>>
DshCleanupReaps == CleanupReap /\ DshEnds /\ dx' = [dx EXCEPT !.offers = NoDshOffers]
                   /\ UNCHANGED <<dcmd, danswers>>

DshKinds == {"agent_message_chunk", "agent_thought_chunk", "tool_call", "tool_call_update",
             "foreign", "untracked", "request_input"}
DshProvider ==
  \/ DshSpeaks
  \/ \E k \in DshKeys, options \in {{}, {"deny"}} : DshAsks(k, options)
  \/ \E kind \in DshKinds : DshActs(Frame(kind, dprov.prompts))
  \/ \E ended \in {"end_turn", "cancelled"} : DshSettles(ended)
DshCommands ==
  \/ DshPrompt \/ DshBegins \/ DshOpens \/ DshWatches \/ DshDeposits
  \/ DshStopTurn \/ DshStopTurnReturns
  \/ \E k \in DshKeys, decision \in {"allow", "deny"} : DshRespond(k, decision)
  \/ DshRespondWrites
DshPump ==
  \/ DshPumpTakes \/ DshPumpEmits \/ DshPumpIdles \/ DshFoldTakes \/ DshFolds
  \/ DshBoundaryEmits \/ DshBoundaryObserves
  \/ DshTakesExit \/ DshTakesEnd \/ DshEndFolds \/ DshExitClassified \/ DshEmitsExit \/ DshLost
DshProcess ==
  \/ \E code \in {"zero", "other"} :
       LeaderExits(code) /\ DshEnds /\ UNCHANGED <<dx, dcmd, danswers>>
  \/ FinishReap /\ DshEnds /\ UNCHANGED <<dx, dcmd, danswers>>
  \/ DshFinishes \/ DshFinishPublishes \/ DshCleanupReaps
  \/ (KidExits \/ FinishAwait \/ CleanupPublish) /\ UNCHANGED dvars

DshNext == UNCHANGED scope /\ (DshProvider \/ DshCommands \/ DshPump \/ DshProcess)

----------------------------------------------------------------------------
(***************************************************************************)
(* A prompt settles once, under its own id, and a completed one with the   *)
(* text of the message its settlement verifies, which the sink was given   *)
(* before: the response never overtakes the frames sent before it          *)
(* (fold_settled_turn, project_dsh_inbound).                               *)
(***************************************************************************)
DshSettledWhole ==
  scope.agent = "dsh" => \A i \in 1..Len(pub.log) :
    LET b == pub.log[i].of IN
    pub.log[i].kind \in {"completed", "failed"} =>
    /\ b.turn = b.names.prompt
    /\ (pub.log[i].kind = "completed") => (b.text = b.names.text)
    /\ (pub.log[i].kind = "completed" /\ b.text # None) =>
         \E j \in 1..(i - 1) : pub.log[j] = Frame("message_finished", b.text)
    /\ \A j \in 1..(i - 1) :
         pub.log[j].kind \in {"completed", "failed"} => pub.log[j].of.turn # b.turn

(***************************************************************************)
(* When the child ends on its own, the prompt that was open when its exit  *)
(* was seen has its boundary in the sink before the terminal the pump      *)
(* publishes, unless the waiting thread misses its grace                   *)
(* (finish_on_child_exit).                                                 *)
(***************************************************************************)
DshCount(kinds, of, n) == Cardinality({i \in 1..n : pub.log[i].kind \in kinds /\ of \in {None, pub.log[i].of}})
DshBoundaryKept ==
  scope.agent = "dsh" /\ pub.owner \in Terminals /\ fin.pc = "idle" /\ forced.pc = "idle" /\ ~Fault("late") =>
    \A e \in 1..Len(pub.log) : pub.log[e].kind = "exit" /\ DshCount({"exit"}, None, e) = 1 =>
      DshCount({"lifecycle"}, "started", e) <= DshCount({"completed", "failed"}, None, Len(pub.log))

(***************************************************************************)
(* No permission request is answered twice (OfferCache::take).             *)
(***************************************************************************)
DshAnsweredOnce == \A i, j \in 1..Len(danswers) : i # j => danswers[i] # danswers[j]

(***************************************************************************)
(* A prompt of DSH settles whole and once, also when its child exits, and  *)
(* its permission requests are answered once.                              *)
(***************************************************************************)
DshTurns == DshSettledWhole /\ DshBoundaryKept /\ DshAnsweredOnce
=============================================================================
