----------------------------- MODULE Observation -----------------------------
(***************************************************************************)
(* external-daemon/src/observation.rs: what a task's observer keeps of the *)
(* tool calls and of the reasoning of its runtime.  The state is a record, *)
(* the operations are operators on it; a tracker (module Tracker) holds    *)
(* one and applies them under its lock.                                    *)
(*                                                                         *)
(* Texts are sequences, and an identifier that is absent, empty or too     *)
(* long is None.  The arguments of a call are abstracted to whether they   *)
(* are known, and snapshot_seq, which nothing reads, is left out.          *)
(***************************************************************************)
EXTENDS Naturals, Sequences, FiniteSets, SequencesExt

CONSTANTS
  None,            \* nothing: a model value
  MaxIdentities,   \* MAX_IDENTITIES
  MaxToolTypes,    \* MAX_TOOL_TYPES
  MaxRecentCalls,  \* MAX_RECENT_CALLS
  MaxReasoning     \* MAX_REASONING_BYTES

ASSUME ObservationAssumption ==
  {MaxIdentities, MaxToolTypes, MaxRecentCalls, MaxReasoning} \subseteq Nat \ {0}

NoFunction == [x \in {} |-> x]

\* for_launch: only ZCode exposes the whole history of its calls, and only
\* ZCode and DSH public reasoning.
ForLaunch(adapter, launch_scope) ==
  [launch_scope |-> launch_scope,
   collect_reasoning |-> adapter \in {"zcode", "dsh"},
   dsh |-> adapter = "dsh",
   next_call_seq |-> 0,
   seen_source_events |-> {},
   seen_descriptor_frames |-> {},
   seen_calls |-> NoFunction,
   tools |-> NoFunction,
   reasoning_raw |-> <<>>,
   reasoning_truncated |-> FALSE,
   tool_history_complete |-> adapter = "zcode",
   reasoning_complete |-> adapter \in {"zcode", "dsh"},
   dropped_events |-> 0]

DropEvent(o, tool) ==
  [o EXCEPT !.tool_history_complete = @ /\ ~tool,
            !.reasoning_complete = @ /\ tool,
            !.dropped_events = @ + 1]

ObserveLoss(o) ==
  [o EXCEPT !.tool_history_complete = FALSE,
            !.reasoning_complete = FALSE,
            !.dropped_events = @ + 1]

\* observe_reasoning: a rolling window
ObserveReasoning(o, delta) ==
  LET combined == o.reasoning_raw \o delta
      cut == Len(combined) - MaxReasoning IN
  IF Len(combined) <= MaxReasoning
    THEN [o EXCEPT !.reasoning_raw = combined]
    ELSE [o EXCEPT !.reasoning_raw = SubSeq(combined, cut + 1, Len(combined)),
                   !.reasoning_truncated = TRUE,
                   !.reasoning_complete = FALSE,
                   !.dropped_events = @ + 1]

\* project_arguments, with what its callers add: anything but an object is
\* unknown rather than an observed empty object.
Arguments(input, strict) ==
  [known |-> CASE input = "object" -> "object" [] input = "large" -> "preview" [] OTHER -> "empty",
   truncated |-> \/ input = "large"
                 \/ strict /\ input \notin {"object", "empty", "large"}]

UnknownDowngrade(old, new) == new.known = "empty" /\ new.truncated /\ old.known # "empty"

\* record_tool_call, a call that has been counted
UpdateCall(o, identity, arguments) ==
  LET call == o.seen_calls[identity]
      recent == o.tools[call.tool].recent_calls
      refined == [i \in DOMAIN recent |->
                    IF recent[i].seq = call.seq /\ ~UnknownDowngrade(recent[i].arguments, arguments)
                      THEN [recent[i] EXCEPT !.arguments = arguments]
                      ELSE recent[i]] IN
  [o EXCEPT !.tools[call.tool].recent_calls = refined]

\* ... and a new one, in the group of its tool
CountCall(o, identity, tool, arguments) ==
  LET seq == o.next_call_seq + 1
      group == IF tool \in DOMAIN o.tools
                 THEN o.tools[tool]
                 ELSE [call_count |-> 0, latest_seq |-> 0, recent_calls |-> <<>>]
      recent == <<[seq |-> seq, arguments |-> arguments]>> \o group.recent_calls
      counted == [call_count |-> group.call_count + 1,
                  latest_seq |-> seq,
                  recent_calls |-> SubSeq(recent, 1, IF Len(recent) < MaxRecentCalls
                                                       THEN Len(recent) ELSE MaxRecentCalls)] IN
  [o EXCEPT !.next_call_seq = seq,
            !.seen_calls = [c \in DOMAIN @ \cup {identity} |->
                              IF c = identity THEN [tool |-> tool, seq |-> seq] ELSE @[c]],
            !.tools = [t \in DOMAIN @ \cup {tool} |-> IF t = tool THEN counted ELSE @[t]]]

RecordToolCall(o, identity, tool, arguments) ==
  IF identity \in DOMAIN o.seen_calls THEN UpdateCall(o, identity, arguments)
  ELSE IF Cardinality(DOMAIN o.seen_calls) >= MaxIdentities THEN DropEvent(o, TRUE)
  ELSE IF tool \notin DOMAIN o.tools /\ Cardinality(DOMAIN o.tools) >= MaxToolTypes
         THEN DropEvent(o, TRUE)
  ELSE CountCall(o, identity, tool, arguments)

\* observe_tool
ObserveTool(o, event) ==
  IF None \in {event.call, event.tool}
    THEN DropEvent(o, TRUE)
    ELSE RecordToolCall(o, <<event.turn, FALSE, event.call>>, event.tool,
                        Arguments(event.input, o.dsh))

\* launch_key: source ids may start again with every launch
LaunchKey(o, id) == <<o.launch_scope, id>>

\* observe_message, of kind reasoning_delta or tool_call: a replay is ignored
ObserveMessage(o, event) ==
  LET key == LaunchKey(o, event.id)
      seen == [o EXCEPT !.seen_source_events = @ \cup {key}] IN
  IF event.kind = "reasoning_delta" /\ ~o.collect_reasoning THEN o
  ELSE IF event.id = None THEN DropEvent(o, event.kind = "tool_call")
  ELSE IF key \in o.seen_source_events THEN o
  ELSE IF Cardinality(o.seen_source_events) >= MaxIdentities
         THEN DropEvent(o, event.kind = "tool_call")
  ELSE IF event.kind = "tool_call" THEN ObserveTool(seen, event)
  ELSE IF event.text = None THEN DropEvent(seen, FALSE)
  ELSE ObserveReasoning(seen, event.text)

\* observe_descriptor: a frame is replayed under its own identity, so that
\* two frames of one call may both refine it
ObserveDescriptor(o, descriptor) ==
  LET key == LaunchKey(o, descriptor.source_identity)
      seen == [o EXCEPT !.seen_descriptor_frames = @ \cup {key}] IN
  IF None \in {descriptor.call, descriptor.tool} THEN DropEvent(o, TRUE)
  ELSE IF key \in o.seen_descriptor_frames THEN o
  ELSE IF Cardinality(o.seen_descriptor_frames) >= MaxIdentities THEN DropEvent(o, TRUE)
  ELSE RecordToolCall(seen, <<descriptor.turn, descriptor.counted, descriptor.call>>, descriptor.tool,
                      Arguments(descriptor.input, TRUE))
-----------------------------------------------------------------------------
(* A new launch of the same task                                           *)

\* the arguments the newer history still knows of a call
DetailOf(newer, call) ==
  LET recent == newer.tools[call.tool].recent_calls
      at == {i \in DOMAIN recent : recent[i].seq = call.seq} IN
  IF at = {} THEN [known |-> "empty", truncated |-> TRUE]
             ELSE recent[CHOOSE i \in at : TRUE].arguments

\* replay keys are carried over up to the limit, in no particular order
Carried(own, newer) ==
  LET room == MaxIdentities - Cardinality(own) IN
  IF Cardinality(newer) <= room THEN newer
  ELSE CHOOSE kept \in SUBSET newer : Cardinality(kept) = room

\* Faulty variant: the calls of the new launch are taken in any order and
\* its losses are forgotten.
MergeNewerForgetful(o, newer) ==
  LET calls == SetToSortSeq(DOMAIN newer.seen_calls,
                            LAMBDA c, d : newer.seen_calls[c].seq < newer.seen_calls[d].seq)
      Replay(acc, identity) ==
        IF identity \in DOMAIN acc.seen_calls THEN acc
        ELSE RecordToolCall(acc, identity, newer.seen_calls[identity].tool,
                            DetailOf(newer, newer.seen_calls[identity])) IN
  FoldLeft(Replay, [o EXCEPT !.launch_scope = newer.launch_scope], calls)

\* merge_newer: o is the older history, to which the newer one is added
MergeNewer(o, newer) ==
  LET spoken == IF newer.reasoning_raw = <<>> THEN o ELSE ObserveReasoning(o, newer.reasoning_raw)
      base == [spoken EXCEPT
                 !.launch_scope = newer.launch_scope,
                 !.reasoning_truncated = @ \/ newer.reasoning_truncated,
                 !.reasoning_complete = @ /\ newer.reasoning_complete,
                 !.tool_history_complete = @ /\ newer.tool_history_complete,
                 !.dropped_events = @ + newer.dropped_events]
      calls == SetToSortSeq(DOMAIN newer.seen_calls,
                            LAMBDA c, d : newer.seen_calls[c].seq < newer.seen_calls[d].seq)
      Replay(acc, identity) ==
        IF identity \in DOMAIN acc.seen_calls THEN acc
        ELSE RecordToolCall(acc, identity, newer.seen_calls[identity].tool,
                            DetailOf(newer, newer.seen_calls[identity]))
      merged == FoldLeft(Replay, base, calls)
      events == Carried(merged.seen_source_events, newer.seen_source_events)
      frames == Carried(merged.seen_descriptor_frames, newer.seen_descriptor_frames)
      lost == Cardinality({k \in {1} : events # newer.seen_source_events})
              + Cardinality({k \in {2} : frames # newer.seen_descriptor_frames}) IN
  [merged EXCEPT !.seen_source_events = @ \cup events,
                 !.seen_descriptor_frames = @ \cup frames,
                 !.tool_history_complete = @ /\ lost = 0,
                 !.reasoning_complete = @ /\ lost = 0,
                 !.dropped_events = @ + lost]

\* snapshot: the three tools called most, the later one first among equals
Ranked(o) ==
  LET before(t, u) == \/ o.tools[t].call_count > o.tools[u].call_count
                      \/ /\ o.tools[t].call_count = o.tools[u].call_count
                         /\ o.tools[t].latest_seq > o.tools[u].latest_seq
      order == SetToSortSeq(DOMAIN o.tools, before) IN
  SubSeq(order, 1, IF Len(order) < 3 THEN Len(order) ELSE 3)
-----------------------------------------------------------------------------
(* Properties of a state, checked of every tracker by module Waiting       *)

CallsOf(o, tool) == {c \in DOMAIN o.seen_calls : o.seen_calls[c].tool = tool}

\* Every call that has an identity is counted in its tool's group, once
\* (record_tool_call, merge_newer).
CountsAgree(o) ==
  /\ \A c \in DOMAIN o.seen_calls : o.seen_calls[c].tool \in DOMAIN o.tools
  /\ \A t \in DOMAIN o.tools : o.tools[t].call_count = Cardinality(CallsOf(o, t))

\* The calls shown of a tool are its latest ones, newest first.
RecentAreLatest(o) ==
  \A t \in DOMAIN o.tools :
    LET recent == o.tools[t].recent_calls
        shown == {recent[i].seq : i \in DOMAIN recent} IN
    /\ \A i, j \in DOMAIN recent : i < j => recent[i].seq > recent[j].seq
    /\ \A c \in CallsOf(o, t) :
         o.seen_calls[c].seq \notin shown => \A s \in shown : o.seen_calls[c].seq < s
=============================================================================
