------------------------------ MODULE MCWaiting ------------------------------
(* Instances of Waiting for TLC.                                           *)
EXTENDS Waiting, TLC

CONSTANTS a, b

TheTargets == [w \in {"list", "one"} |-> IF w = "list" THEN <<a, b, a>> ELSE <<a>>]

Blank == [source |-> "session", kind |-> "usage", id |-> None, turn |-> "t", call |-> None,
          tool |-> None, request |-> None, input |-> None, count |-> 0, text |-> None]

\* Texts: one character, of n bytes
Said(launch, id, n) ==
  [Blank EXCEPT !.kind = "text_delta", !.id = <<id, 0>>, !.text = [k \in 1..n |-> <<launch, id, k>>]]

\* ZCode never uses an id twice; the ids of other runtimes start again with
\* every launch.
Scope(name, launch) == IF name = "zcode" THEN launch ELSE 0

\* Two frames of one call, and a frame of another one
Calls(name, n) ==
  {[Blank EXCEPT !.kind = kind, !.id = <<id, Scope(name, n)>>, !.call = <<call, Scope(name, n)>>,
                 !.tool = "Read", !.input = input] :
     <<kind, id, call, input>> \in {<<"tool_call", "e", "c", "object">>, <<"tool_call", "f", "c", "scalar">>,
                                    <<"started", "g", "c", "large">>, <<"started", "h", "d", "empty">>, <<"started", "x", "x", "object">>}}

\* One event of every other kind
Others(n) ==
  {[Blank EXCEPT !.source = source, !.kind = kind, !.id = <<"o", 0>>, !.call = <<"c", 0>>,
                 !.tool = "Bash", !.request = <<"r", 0>>, !.count = count,
                 !.text = IF kind = "turn_completed" THEN <<<<n, "end", 1>>>> ELSE None] :
     <<source, kind, count>> \in
       ({"session", "telemetry"} \X {"scheduled", "result", "error", "model_started", "model_completed",
                                     "permission_resolved", "turn_started", "turn_completed",
                                     "turn_failed", "reasoning_delta"} \X {0})
       \cup ({"session"} \X {"count"} \X {1, MaxToolCount + 1})
       \cup {<<"telemetry", "phase?", 0>>, <<"telemetry", "other", 0>>, <<"runtime", "malformed", 0>>,
             <<"runtime", "permission_requested", 0>>}}

MCAlphabet(name, n) ==
  CASE name = "agy" -> {Said(n, "a", 1), Said(n, "b", 2)}
    [] name \in {"zcode", "dsh"} ->
         Calls(name, n) \cup {Said(n, "a", 1), Said(n, "b", 2), [Said(n, "a", 1) EXCEPT !.source = "telemetry"],
                              [Blank EXCEPT !.kind = "turn_started", !.id = <<"s", 0>>],
                              [Blank EXCEPT !.kind = "malformed", !.source = "runtime"]}
    [] OTHER -> Others(n) \cup {Said(n, "a", 1)}

\* Three cases: a list wait for two tasks, of which one is resumed and the
\* other asks; a wait for one task; one task that says everything it can and
\* nobody waits.
Alone == rows[b].phase = "absent" /\ adapter[b] = "other"
Silent(w) == UNCHANGED wait \/ wait'[w] = wait[w]

MCInit ==
  /\ WaitingInit
  /\ \/ adapter[a] = "agy" /\ adapter[b] = "agy" /\ rows[a].phase = "queued"
     \/ adapter[a] = "agy" /\ Alone
     \/ adapter[a] \notin {"agy", "other"} /\ rows[a].phase = "queued" /\ Alone

MCNext ==
  /\ WaitingNext
  /\ \A t \in Tasks : CancelQueued(t) => t = a /\ adapter[a] = "agy" /\ rows[a].owner_epoch = 1
  /\ IF adapter[a] # "agy" THEN UNCHANGED <<wait, pending>>
     ELSE IF adapter[b] # "agy" THEN Silent("list") /\ emitted' <= 2
     ELSE /\ Silent("one")
          /\ pending'[a] = None /\ pending'[b] # "unsupported" /\ rows'[b].owner_epoch <= 1
          /\ emitted' <= 1 /\ history'[b].heard = <<>> /\ history'[b].stream = <<>>
          /\ ~\E t \in Tasks : MinutePasses(t) \/ StartFails(t)

MCSpec == MCInit /\ [][MCNext]_wvars
=============================================================================
