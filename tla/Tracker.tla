------------------------------- MODULE Tracker -------------------------------
(***************************************************************************)
(* external-daemon/src/activity_parser.rs and activity_tracker.rs: the     *)
(* passive view of one task's runtime, fed with every event its sink       *)
(* admits.  A tracker is a record; each operator below is what one method  *)
(* does while it holds the tracker's mutex.                                *)
(*                                                                         *)
(* An event is a record                                                    *)
(*   source  "session", "telemetry" or "runtime" (where it was read)       *)
(*   kind    what it says                                                  *)
(*   id      its eventId, and turn, call, tool, request: the ids it names  *)
(*   input   the arguments of a tool call: "object", "empty", "large",     *)
(*           "scalar" or None                                              *)
(*   count   of a count-only event                                         *)
(*   text    a sequence of bytes; a byte is <<launch, id, k>>, the first   *)
(*           byte of a character exactly when k = 1                        *)
(* Instants are reduced to whether a sample is younger than the window;    *)
(* revision, the wall clock, the ages derived from them and the trust in   *)
(* the runtime's file (confirm_runtime_source) are left out.               *)
(***************************************************************************)
EXTENDS Observation

CONSTANTS
  MaxActivity,  \* MAX_ACTIVITY_IDENTITIES
  MaxTail,      \* MAX_LATEST_TEXT_BYTES
  MaxToolCount  \* MAX_TOOL_COUNT

ASSUME TrackerAssumption == {MaxActivity, MaxTail, MaxToolCount} \subseteq Nat \ {0}

Quiet == [identity |-> None, sample |-> None, count |-> 0, text |-> <<>>, transition |-> None,
          key |-> None, response |-> None, descriptor |-> None, known |-> TRUE]

Named(id, class, phase) == IF id = None THEN None ELSE <<class, id, phase>>
-----------------------------------------------------------------------------
(* activity_parser.rs                                                      *)

\* the channels of a stream; telemetry never carries the text itself
ParseStream(e) ==
  [Quiet EXCEPT !.identity = Named(e.id, "stream", None),
                !.sample = IF e.kind = "reasoning_delta" THEN "ReasoningDelta" ELSE "TextDelta",
                !.text = IF e.source = "session" /\ e.kind = "text_delta" /\ e.text # None
                           THEN e.text ELSE <<>>]

ToolPhase(kind) ==
  CASE kind = "scheduled" -> "ToolScheduled"
    [] kind = "started" -> "ToolStarted"
    [] kind = "result" -> "ToolCompleted"
    [] kind = "error" -> "ToolFailed"
    [] OTHER -> None

\* parse_detailed_descriptor: a started frame that carries its arguments
DetailedDescriptor(e) ==
  IF e.source = "session" /\ e.kind = "started" /\ None \notin {e.call, e.tool, e.input}
    THEN [turn |-> e.turn, counted |-> FALSE, call |-> e.call, tool |-> e.tool, input |-> e.input,
          source_identity |-> <<"tool", e.call, "started">>]
    ELSE None

\* parse_tool_activity
ParseTool(e) ==
  LET phase == ToolPhase(e.kind)
      named == e.call # None /\ phase # None IN
  [Quiet EXCEPT !.transition = phase,
                !.key = e.call,
                !.identity = IF named THEN <<"tool", e.call, e.kind>> ELSE None,
                !.sample = IF named /\ phase # "ToolScheduled" THEN phase ELSE None,
                !.count = 1,
                !.known = e.source = "telemetry" => (phase # None \/ e.kind = "batch"),
                !.descriptor = DetailedDescriptor(e)]

\* parse_tool_count_activity: anything malformed invents nothing
ParseCount(e) ==
  LET identity == <<"tool", e.id, "count">> IN
  IF e.count \notin 1..MaxToolCount \/ e.id = None THEN Quiet
  ELSE [Quiet EXCEPT
          !.identity = identity, !.sample = "ToolStarted", !.count = e.count,
          !.descriptor = IF e.tool = None THEN None
                         ELSE [turn |-> e.turn, counted |-> TRUE, call |-> e.id, tool |-> e.tool,
                               input |-> "object", source_identity |-> <<e.turn, identity>>]]

\* parse_model_activity and parse_permission_activity
ParseModel(e) ==
  [Quiet EXCEPT !.key = e.request, !.identity = Named(e.request, "model", e.kind),
                !.transition = IF e.kind = "model_started" THEN "ModelStarted" ELSE "ModelCompleted"]

ParsePermission(e) ==
  [Quiet EXCEPT !.key = e.call, !.identity = Named(e.request, "permission", e.kind),
                !.transition = IF e.kind = "permission_resolved"
                                 THEN "PermissionResolved" ELSE "PermissionRequested"]

\* the boundaries of a turn; telemetry names no event and no response
ParseTurn(e) ==
  LET told == e.source = "session" IN
  [Quiet EXCEPT !.identity = IF told THEN Named(e.id, "turn", e.kind) ELSE None,
                !.response = IF told /\ e.kind = "turn_completed" THEN e.text ELSE None,
                !.transition = CASE e.kind = "turn_started" -> "TurnStarted"
                                 [] e.kind = "turn_completed" -> "TurnCompleted"
                                 [] OTHER -> "TurnFailed"]

ToolKinds == {"scheduled", "started", "result", "error", "batch", "phase?"}

\* parse_passive_activity and parse_activity_message
ParseActivity(e, mode) ==
  CASE e.source = "runtime" /\ e.kind # "permission_requested" -> Quiet
    [] e.kind \in {"reasoning_delta", "text_delta"} -> ParseStream(e)
    [] e.kind = "count" /\ e.source = "session" ->
         IF mode = "Detailed" THEN Quiet ELSE ParseCount(e)
    [] e.kind \in ToolKinds -> IF mode = "CountOnly" THEN Quiet ELSE ParseTool(e)
    [] e.kind \in {"model_started", "model_completed"} -> ParseModel(e)
    [] e.kind \in {"permission_requested", "permission_resolved"} -> ParsePermission(e)
    [] e.kind \in {"turn_started", "turn_completed", "turn_failed"} -> ParseTurn(e)
    [] e.kind = "usage" -> Quiet
    [] OTHER -> [Quiet EXCEPT !.known = e.source # "telemetry"]
-----------------------------------------------------------------------------
(* activity_tracker.rs                                                     *)

\* for_launch
NewTracker(adapter, launch_scope) ==
  [mode |-> CASE adapter = "codex" -> "CountOnly"
              [] adapter \in {"zcode", "dsh", "agy"} -> "Detailed"
              [] OTHER -> "Mixed",
   active_model_requests |-> {},
   latest_text_tail |-> <<>>,
   latest_text_truncated |-> FALSE,
   appended |-> 0,
   delivered |-> 0,
   terminal_text |-> <<>>,
   terminal_text_settled |-> FALSE,
   active_tools |-> {},
   samples |-> NoFunction,
   sample_order |-> <<>>,
   telemetry_degraded |-> FALSE,
   observation |-> ForLaunch(adapter, launch_scope)]

\* the last bytes that fit the window, from a character boundary on
Windowed(text) ==
  LET boundaries == {i \in 1..Len(text) + 1 :
                       /\ Len(text) - i + 1 <= MaxTail
                       /\ i <= Len(text) => text[i][3] = 1}
      first == CHOOSE i \in boundaries : \A j \in boundaries : i <= j IN
  IF Len(text) <= MaxTail THEN text ELSE SubSeq(text, first, Len(text))

\* append_latest_text
AppendLatestText(t, delta) ==
  [t EXCEPT !.terminal_text = IF t.terminal_text_settled THEN @ ELSE @ \o delta,
            !.appended = @ + Len(delta),
            !.latest_text_tail = Windowed(@ \o delta),
            !.latest_text_truncated = @ \/ Len(t.latest_text_tail \o delta) > MaxTail]

\* observe_at, the sample of an event: a replay is refused, but a session
\* event replaces what telemetry said before
AdmitSample(t, source, p) ==
  LET known == p.identity \in DOMAIN t.samples
      replace == known => t.samples[p.identity].source = "telemetry" /\ source = "session"
      sample == [source |-> source, kind |-> p.sample, count |-> p.count, recent |-> TRUE] IN
  IF None \in {p.identity, p.sample} THEN [admitted |-> TRUE, tracker |-> t]
  ELSE IF ~replace THEN [admitted |-> FALSE, tracker |-> t]
  ELSE [admitted |-> TRUE,
        tracker |-> [t EXCEPT
          !.sample_order = IF known THEN @ ELSE Append(@, p.identity),
          !.samples = [i \in DOMAIN @ \cup {p.identity} |->
                         IF i = p.identity THEN sample ELSE @[i]]]]

\* the oldest identities are forgotten
Evict(t) ==
  LET excess == Len(t.sample_order) - MaxActivity
      gone == {t.sample_order[i] : i \in 1..excess} IN
  IF Len(t.sample_order) <= MaxActivity THEN t
  ELSE [t EXCEPT !.sample_order = SubSeq(@, excess + 1, Len(@)),
                 !.samples = [i \in DOMAIN @ \ gone |-> @[i]]]

\* what is in flight
Transit(t, p) ==
  CASE p.transition = "ModelStarted" ->
         [t EXCEPT !.active_model_requests = @ \cup {p.key}]
    [] p.transition = "ModelCompleted" ->
         [t EXCEPT !.active_model_requests = IF p.key = None THEN {} ELSE @ \ {p.key}]
    [] p.transition \in {"ToolScheduled", "ToolStarted"} ->
         [t EXCEPT !.active_tools = @ \cup ({p.key} \ {None})]
    [] p.transition \in {"ToolCompleted", "ToolFailed", "PermissionResolved"} ->
         [t EXCEPT !.active_tools = @ \ {p.key}]
    [] p.transition \in {"TurnCompleted", "TurnFailed"} ->
         [t EXCEPT !.active_model_requests = {}, !.active_tools = {}]
    [] p.transition = "TurnStarted" ->
         [t EXCEPT !.terminal_text = <<>>, !.terminal_text_settled = FALSE]
    [] OTHER -> t

\* what the observation makes of the raw event
Witness(o, e) ==
  CASE e.source = "session" /\ e.kind \in {"reasoning_delta", "tool_call"} -> ObserveMessage(o, e)
    [] e.kind = "malformed" -> ObserveLoss(o)
    [] OTHER -> o

\* observe_at
ObserveAt(t, e) ==
  LET p == ParseActivity(e, t.mode)
      step == AdmitSample([t EXCEPT !.observation = Witness(@, e),
                                    !.telemetry_degraded = @ \/ (e.source = "telemetry" /\ ~p.known)],
                          e.source, p)
      kept == Evict(step.tracker)
      spoken == IF step.admitted /\ p.text # <<>> THEN AppendLatestText(kept, p.text) ELSE kept
      settled == IF step.admitted /\ p.response # None
                   THEN [spoken EXCEPT !.terminal_text = p.response, !.terminal_text_settled = TRUE]
                   ELSE spoken
      described == IF p.descriptor = None THEN settled
                   ELSE [settled EXCEPT !.observation = ObserveDescriptor(@, p.descriptor)] IN
  Transit(described, p)

\* snapshot_at: what the last minute saw of one kind
WindowCount(t, kind) ==
  LET Add(i, acc) == acc + t.samples[i].count IN
  FoldSet(Add, 0, {i \in DOMAIN t.samples : t.samples[i].recent /\ t.samples[i].kind = kind})

\* the samples leave the window
Age(t) == [t EXCEPT !.samples = [i \in DOMAIN @ |-> [@[i] EXCEPT !.recent = FALSE]]]

\* take_terminal_text
TakeTerminalText(t) == [text |-> t.terminal_text, tracker |-> [t EXCEPT !.terminal_text = <<>>]]

\* wait_tail_locked, peek_wait_tail
WaitTail(t) ==
  LET start == t.appended - Len(t.latest_text_tail) IN
  IF t.delivered < start
    THEN [text |-> t.latest_text_tail, truncated |-> TRUE]
    ELSE [text |-> SubSeq(t.latest_text_tail, t.delivered - start + 1, Len(t.latest_text_tail)),
          truncated |-> FALSE]

\* take_wait_tail
TakeWaitTail(t) == [t EXCEPT !.delivered = t.appended]

\* Faulty variant: the new tracker starts its own stream.
InheritWaitTextUncounted(t, old) ==
  [t EXCEPT !.latest_text_tail = Windowed(old.latest_text_tail \o @),
            !.delivered = old.delivered,
            !.observation = MergeNewer(old.observation, @)]

\* inherit_wait_text
InheritWaitText(t, old) ==
  [t EXCEPT !.latest_text_tail = Windowed(old.latest_text_tail \o @),
            !.appended = old.appended + @,
            !.delivered = old.delivered,
            !.observation = MergeNewer(old.observation, @)]
=============================================================================
