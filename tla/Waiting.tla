------------------------------- MODULE Waiting -------------------------------
(***************************************************************************)
(* rpc/wait.rs: the hosts that wait for one task or for several, while the *)
(* runtimes talk, tasks end, are resumed and end again.  A waiter reads a  *)
(* row, the pending requests and the tracker of a task under three locks   *)
(* one after the other, so anything may happen in between.                 *)
(*                                                                         *)
(* The rows, the pending requests and the launches are what modules        *)
(* TaskStore and Scheduler say of them, reduced to what a wait reads.      *)
(***************************************************************************)
EXTENDS WaitBounds

CONSTANTS
  Tasks, Waiters,
  Targets,      \* [Waiters -> Seq(Tasks)]: the ids a wait names
  ListMode,     \* the waiters that name a list
  Adapters,     \* the adapters a task may run on
  Alphabet(_, _), \* the events a launch of an adapter may produce
  MaxEpoch,     \* bound: launches of a task
  MaxEvents     \* bound: events in a behaviour

ASSUME WaitingAssumption ==
  /\ Targets \in [Waiters -> Seq(Tasks)] /\ ListMode \subseteq Waiters
  /\ {MaxEpoch, MaxEvents} \subseteq Nat

VARIABLES
  rows,      \* task -> phase, owner_epoch, result
  adapter,   \* task -> the adapter it was admitted for
  pending,   \* task -> None, "question" or "unsupported"
  activities,\* task -> the tracker the scheduler's map holds, or None
  incoming,  \* task -> the tracker of a launch that is not yet registered, or None
  wait,      \* waiter -> its call
  emitted,   \* the number of events so far
  history    \* task -> stream and called: the text and the tool calls of its
             \* registered launches; heard and announced: those of a launch that
             \* is not registered; mark: how much of the stream waits have taken

wvars == <<rows, adapter, pending, activities, incoming, wait, emitted, history>>

\* The text of a failed task, and its failure record
Reason == <<<<0, "reason", 1>>>>
FailureOf == PersistableRecord(2, 2, 2)

NoResult == [text |-> <<>>, failure |-> None]
Idle == [pc |-> "idle", i |-> 1, slots |-> NoFunction, unknown |-> {}, any |-> FALSE,
         all |-> TRUE, now |-> FALSE, expired |-> FALSE, read |-> None, out |-> <<>>,
         floor |-> NoFunction, taken |-> {}]

Distinct == LET Add(seq, t) == IF t \in ToSet(seq) THEN seq ELSE Append(seq, t)
            IN  [w \in Waiters |-> FoldLeft(Add, <<>>, Targets[w])]
Duplicated(w) == {t \in Tasks : \E i, j \in DOMAIN Targets[w] : i # j /\ Targets[w][i] = t /\ Targets[w][j] = t}
Errors(w) == Cardinality(Duplicated(w) \cup wait[w].unknown)

WaitingInit ==
  /\ rows \in [Tasks -> {[phase |-> p, owner_epoch |-> 0, result |-> NoResult] : p \in {"absent", "queued"}}]
  /\ adapter \in [Tasks -> Adapters]
  /\ pending = [t \in Tasks |-> None]
  /\ activities = [t \in Tasks |-> None]
  /\ incoming = [t \in Tasks |-> None]
  /\ wait = [w \in Waiters |-> Idle]
  /\ emitted = 0
  /\ history = [t \in Tasks |-> [stream |-> <<>>, called |-> {}, heard |-> <<>>,
                                  announced |-> {}, mark |-> 0]]
-----------------------------------------------------------------------------
(* The tasks                                                               *)

\* A claim builds the tracker and wires it into the sink before the launch.
Claim(t) ==
  /\ rows[t].phase = "queued" /\ rows[t].owner_epoch < MaxEpoch
  /\ rows' = [rows EXCEPT ![t].phase = "active", ![t].owner_epoch = @ + 1]
  /\ incoming' = [incoming EXCEPT ![t] = NewTracker(adapter[t], rows[t].owner_epoch + 1)]
  /\ UNCHANGED <<adapter, pending, activities, wait, emitted, history>>

\* start_claim: the new tracker inherits from the old one and replaces it,
\* under one hold of the scheduler's lock.
Register(t) ==
  LET old == activities[t]
      new == incoming[t] IN
  /\ new # None
  /\ activities' = [activities EXCEPT ![t] = IF old = None THEN new ELSE InheritWaitText(new, old)]
  /\ incoming' = [incoming EXCEPT ![t] = None]
  /\ history' = [history EXCEPT ![t].stream = @ \o history[t].heard, ![t].heard = <<>>,
                                 ![t].called = @ \cup history[t].announced, ![t].announced = {}]
  /\ UNCHANGED <<rows, adapter, pending, wait, emitted>>

\* The call an event announces with everything that identifies it
Announced(e) ==
  IF e.kind \in {"tool_call", "started"} /\ None \notin {e.id, e.call, e.tool, e.input}
    THEN {<<e.turn, FALSE, e.call>>} ELSE {}

\* The runtime produces an event, which the sink of its launch observes.
Event(t) ==
  /\ rows[t].phase = "active" /\ emitted < MaxEvents
  /\ emitted' = emitted + 1
  /\ \E e \in Alphabet(adapter[t], rows[t].owner_epoch) :
       LET old == IF incoming[t] # None THEN incoming[t] ELSE activities[t]
           new == ObserveAt(old, e)
           text == IF new.appended > old.appended THEN e.text ELSE <<>> IN
       IF incoming[t] # None
         THEN /\ incoming' = [incoming EXCEPT ![t] = new]
              /\ history' = [history EXCEPT ![t].heard = @ \o text,
                                             ![t].announced = @ \cup Announced(e)]
              /\ UNCHANGED activities
         ELSE /\ activities' = [activities EXCEPT ![t] = new]
              /\ history' = [history EXCEPT ![t].stream = @ \o text,
                                             ![t].called = @ \cup Announced(e)]
              /\ UNCHANGED incoming
  /\ UNCHANGED <<rows, adapter, pending, wait>>

\* A minute passes without an event.
MinutePasses(t) ==
  /\ activities[t] # None
  /\ \E i \in DOMAIN activities[t].samples : activities[t].samples[i].recent
  /\ activities' = [activities EXCEPT ![t] = Age(@)]
  /\ UNCHANGED <<rows, adapter, pending, incoming, wait, emitted, history>>

Terminal(t, result) ==
  rows' = [rows EXCEPT ![t].phase = "terminal", ![t].result = result]

Failed == [text |-> Reason, failure |-> FailureOf]

\* finish_routed_terminal: the text of the last turn, or a failure
Ends(t) ==
  /\ rows[t].phase = "active" /\ incoming[t] = None
  /\ LET taken == TakeTerminalText(activities[t]) IN
       \/ /\ Terminal(t, IF taken.text = <<>> THEN Failed ELSE [text |-> taken.text, failure |-> None])
          /\ activities' = [activities EXCEPT ![t] = taken.tracker]
       \/ Terminal(t, Failed) /\ UNCHANGED activities
  /\ pending' = [pending EXCEPT ![t] = None]
  /\ UNCHANGED <<adapter, incoming, wait, emitted, history>>

\* A launch that fails before it is registered leaves no tracker.
StartFails(t) ==
  /\ incoming[t] # None
  /\ Terminal(t, Failed)
  /\ incoming' = [incoming EXCEPT ![t] = None]
  /\ history' = [history EXCEPT ![t].heard = <<>>, ![t].announced = {}]
  /\ UNCHANGED <<adapter, pending, activities, wait, emitted>>

\* A message resumes the task: its result is gone.
Requeue(t) ==
  /\ rows[t].phase = "terminal" /\ rows[t].owner_epoch < MaxEpoch
  /\ rows' = [rows EXCEPT ![t].phase = "queued", ![t].result = NoResult]
  /\ UNCHANGED <<adapter, pending, activities, incoming, wait, emitted, history>>

CancelQueued(t) ==
  /\ rows[t].phase = "queued"
  /\ Terminal(t, [text |-> Reason, failure |-> None])
  /\ UNCHANGED <<adapter, pending, activities, incoming, wait, emitted, history>>

\* A request the host can answer, or one it cannot, comes and goes.
Raise(t) ==
  /\ rows[t].phase = "active" /\ pending[t] = None
  /\ \E kind \in {"question", "unsupported"} : pending' = [pending EXCEPT ![t] = kind]
  /\ UNCHANGED <<rows, adapter, activities, incoming, wait, emitted, history>>

Answer(t) ==
  /\ pending[t] # None
  /\ pending' = [pending EXCEPT ![t] = None]
  /\ UNCHANGED <<rows, adapter, activities, incoming, wait, emitted, history>>

TaskStep(t) ==
  \/ Claim(t) \/ Register(t) \/ Event(t) \/ MinutePasses(t) \/ Ends(t) \/ StartFails(t)
  \/ Requeue(t) \/ CancelQueued(t) \/ Raise(t) \/ Answer(t)
-----------------------------------------------------------------------------
(* The waiters                                                             *)

others == <<rows, adapter, pending, incoming, emitted>>
Goes(w, changed) == wait' = [wait EXCEPT ![w] = changed]

\* wait_body, or the same lines of task_wait_one: what the row and the
\* requests that were read, and the tracker now, say of a task
Actionable(request) == request = "question"

TailOf(t) == IF activities[t] = None THEN [text |-> <<>>, truncated |-> FALSE] ELSE WaitTail(activities[t])

BodyOf(t, row, request) ==
  LET terminal == row.phase = "terminal"
      text == IF terminal THEN row.result.text ELSE <<>>
      bounds == PagedTextBounds(text, 0, ChunkCap) IN
  [id |-> t, terminal |-> terminal, epoch |-> row.owner_epoch, timed_out |-> FALSE,
   page |-> SubSeq(text, 1, bounds.end), total |-> Len(text), next |-> bounds.next,
   failure |-> IF terminal THEN row.result.failure ELSE None,
   question |-> IF Actionable(request) THEN SummaryCap + 1 ELSE None,
   question_truncated |-> FALSE,
   tail |-> TailOf(t).text, tail_truncated |-> TailOf(t).truncated]

\* take_wait_tail, by a wait that answers
Takes(t) ==
  IF activities[t] = None THEN UNCHANGED <<activities, history>>
  ELSE /\ activities' = [activities EXCEPT ![t] = TakeWaitTail(@)]
       /\ history' = [history EXCEPT ![t].mark = Len(history[t].stream)]

Begin(w) ==
  /\ wait[w].pc = "idle"
  /\ Goes(w, [Idle EXCEPT !.pc = "round", !.slots = [t \in ToSet(Distinct[w]) |-> None]])
  /\ UNCHANGED <<others, activities, history>>

Expire(w) ==
  /\ wait[w].pc \notin {"idle", "done", "error"} /\ ~wait[w].expired
  /\ Goes(w, [wait[w] EXCEPT !.expired = TRUE])
  /\ UNCHANGED <<others, activities, history>>

\* The peer is gone, or the server stops.
Interrupted(w) ==
  /\ wait[w].pc = "round"
  /\ Goes(w, [wait[w] EXCEPT !.pc = "error", !.slots = NoFunction, !.read = None])
  /\ UNCHANGED <<others, activities, history>>

\* task_wait_one: the row and its result under one lock,
ReadOne(w) ==
  LET t == Targets[w][1] IN
  /\ w \notin ListMode /\ wait[w].pc = "round"
  /\ IF rows[t].phase = "absent"
       THEN Goes(w, [wait[w] EXCEPT !.pc = "error", !.slots = NoFunction])
       ELSE Goes(w, [wait[w] EXCEPT !.pc = "look", !.read = rows[t]])
  /\ UNCHANGED <<others, activities, history>>

\* then the requests and the clock,
LookOne(w) ==
  LET t == Targets[w][1]
      terminal == wait[w].read.phase = "terminal"
      wake == Actionable(pending[t]) \/ terminal IN
  /\ w \notin ListMode /\ wait[w].pc = "look"
  /\ IF wake \/ wait[w].expired
       THEN Goes(w, [wait[w] EXCEPT !.pc = "answer",
                       !.out = <<[BodyOf(t, wait[w].read, pending[t])
                                    EXCEPT !.timed_out = ~wake]>>])
       ELSE Goes(w, [wait[w] EXCEPT !.pc = "round", !.read = None])
  /\ UNCHANGED <<others, activities, history>>

\* and the text is taken before the answer is known to fit.
AnswerOne(w) ==
  LET t == Targets[w][1]
      body == wait[w].out[1]
      full == [body EXCEPT !.tail = IF body.terminal THEN DedupTerminalTail(TailOf(t).text, body.page)
                                    ELSE TailOf(t).text,
                           !.tail_truncated = TailOf(t).truncated]
      bounded == BoundWaitBody(full) IN
  /\ w \notin ListMode /\ wait[w].pc = "answer"
  /\ Takes(t)
  /\ Goes(w, [wait[w] EXCEPT !.pc = IF bounded.ok THEN "done" ELSE "error",
                             !.out = <<IF bounded.ok THEN bounded.body ELSE full>>,
                             !.slots = NoFunction, !.read = None, !.taken = {t}])
  /\ UNCHANGED others

\* task_wait_many: a round looks at every id in turn.
Round(w) ==
  /\ w \in ListMode /\ wait[w].pc = "round"
  /\ Goes(w, [wait[w] EXCEPT !.pc = "scan", !.i = 1, !.now = wait[w].expired, !.any = FALSE,
                             !.all = TRUE, !.floor = [t \in ToSet(Distinct[w]) |->
                               IF wait[w].slots[t] = None THEN 0 ELSE rows[t].owner_epoch]])
  /\ UNCHANGED <<others, activities, history>>

Here(w) == Distinct[w][wait[w].i]
Next1(w) == [wait[w] EXCEPT !.i = @ + 1, !.read = None]

\* Faulty variant: only the phase of a remembered terminal row is checked.
StillFinalByPhase(t, slot) == rows[t].phase = "terminal"

StillFinal(t, slot) == rows[t].phase = "terminal" /\ rows[t].owner_epoch = slot.epoch

\* A terminal snapshot is kept while the row is still that of the same run;
\* otherwise the row of the task is read.
ScanRow(w) ==
  LET t == Here(w)
      slot == wait[w].slots[t] IN
  /\ wait[w].pc = "scan" /\ wait[w].i <= Len(Distinct[w]) /\ wait[w].read = None
  /\ Goes(w, CASE t \in wait[w].unknown -> Next1(w)
               [] t \notin wait[w].unknown /\ slot # None ->
                    IF rows[t].phase = "absent" THEN [Next1(w) EXCEPT !.unknown = @ \cup {t}]
                    ELSE IF StillFinal(t, slot) THEN Next1(w)
                    ELSE [Next1(w) EXCEPT !.slots[t] = None, !.all = FALSE]
               [] OTHER ->
                    IF rows[t].phase = "absent" THEN [Next1(w) EXCEPT !.unknown = @ \cup {t}]
                    ELSE [wait[w] EXCEPT !.read = rows[t]])
  /\ UNCHANGED <<others, activities, history>>

ScanRest(w) ==
  LET t == Here(w)
      row == wait[w].read
      terminal == row.phase = "terminal"
      wake == Actionable(pending[t])
      slot == [body |-> BodyOf(t, row, pending[t]), epoch |-> row.owner_epoch] IN
  /\ wait[w].pc = "scan" /\ wait[w].read # None
  /\ Goes(w, [Next1(w) EXCEPT !.any = @ \/ wake, !.all = @ /\ terminal,
                              !.slots[t] = IF terminal \/ wake THEN slot ELSE None])
  /\ UNCHANGED <<others, activities, history>>

\* The end of a round: another one, or the answer
Decide(w) ==
  /\ wait[w].pc = "scan" /\ wait[w].i > Len(Distinct[w])
  /\ IF wait[w].all \/ wait[w].any \/ wait[w].now
       THEN Goes(w, [wait[w] EXCEPT !.pc = "project", !.i = 1])
       ELSE Goes(w, [wait[w] EXCEPT !.pc = "round"])
  /\ UNCHANGED <<others, activities, history>>

\* An id without a snapshot is read again, whatever its state.
ProjectRow(w) ==
  LET t == Here(w)
      late == ~wait[w].all /\ ~wait[w].any
      slot == wait[w].slots[t]
      body == [slot.body EXCEPT !.timed_out = late /\ ~slot.body.terminal] IN
  /\ wait[w].pc = "project" /\ wait[w].i <= Len(Distinct[w]) /\ wait[w].read = None
  /\ Goes(w, CASE t \in wait[w].unknown -> Next1(w)
               [] t \notin wait[w].unknown /\ slot # None -> [Next1(w) EXCEPT !.out = Append(@, body)]
               [] OTHER -> [wait[w] EXCEPT !.read = rows[t]])
  /\ UNCHANGED <<others, activities, history>>

ProjectRest(w) ==
  LET t == Here(w)
      late == ~wait[w].all /\ ~wait[w].any
      body == [BodyOf(t, wait[w].read, pending[t]) EXCEPT !.timed_out = late] IN
  /\ wait[w].pc = "project" /\ wait[w].read # None
  /\ Goes(w, [Next1(w) EXCEPT !.out = Append(@, body)])
  /\ UNCHANGED <<others, activities, history>>

\* The answer is made to fit before any text is taken.
Bound(w) ==
  LET bounded == BoundWaitMany(wait[w].out, Errors(w)) IN
  /\ wait[w].pc = "project" /\ wait[w].i > Len(Distinct[w])
  /\ IF bounded.ok
       THEN Goes(w, [wait[w] EXCEPT !.pc = "take", !.i = 1, !.out = bounded.bodies, !.slots = NoFunction])
       ELSE Goes(w, [wait[w] EXCEPT !.pc = "error", !.slots = NoFunction])
  /\ UNCHANGED <<others, activities, history>>

TakeMany(w) ==
  LET body == wait[w].out[wait[w].i]
      tail == TailOf(body.id) IN
  /\ wait[w].pc = "take" /\ wait[w].i <= Len(wait[w].out)
  /\ Takes(body.id)
  /\ Goes(w, [wait[w] EXCEPT
       !.i = @ + 1, !.taken = @ \cup {body.id},
       !.out[wait[w].i].tail = IF body.terminal THEN DedupTerminalTail(tail.text, body.page) ELSE tail.text,
       !.out[wait[w].i].tail_truncated = tail.truncated])
  /\ UNCHANGED others

Return(w) ==
  /\ wait[w].pc = "take" /\ wait[w].i > Len(wait[w].out)
  /\ Goes(w, [wait[w] EXCEPT !.pc = "done"])
  /\ UNCHANGED <<others, activities, history>>

WaitStep(w) ==
  \/ ReadOne(w) \/ LookOne(w) \/ AnswerOne(w)
  \/ Round(w) \/ ScanRow(w) \/ ScanRest(w) \/ Decide(w) \/ ProjectRow(w) \/ ProjectRest(w)
  \/ Bound(w) \/ TakeMany(w) \/ Return(w)

WaitingNext ==
  \/ \E t \in Tasks : TaskStep(t)
  \/ \E w \in Waiters : Begin(w) \/ Expire(w) \/ Interrupted(w) \/ WaitStep(w)

WaitingSpec == WaitingInit /\ [][WaitingNext]_wvars
-----------------------------------------------------------------------------
(* Properties                                                              *)

Registered == {t \in Tasks : activities[t] # None}

\* The cursors and the windows of the trackers are consistent, and a waiter is
\* at one of its places.
WaitingTypeOK ==
  /\ \A t \in Tasks : rows[t].phase \in {"absent", "queued", "active", "terminal"}
  /\ \A t \in Registered :
       /\ activities[t].delivered <= activities[t].appended
       /\ Len(activities[t].latest_text_tail) <= MaxTail
       /\ Len(activities[t].latest_text_tail) <= activities[t].appended
       /\ DOMAIN activities[t].samples = ToSet(activities[t].sample_order)
       /\ Len(activities[t].sample_order) <= MaxActivity
  /\ \A w \in Waiters : wait[w].pc \in {"idle", "round", "look", "answer", "scan", "project",
                                        "take", "done", "error"}

\* What a wait would take now is exactly the text that no wait has taken yet,
\* in order, also when the tracker was replaced by that of a new launch in
\* between; a wait that cannot give all of it says so (inherit_wait_text,
\* wait_tail_locked).
TailExact ==
  \A t \in Registered :
    ~TailOf(t).truncated =>
      TailOf(t).text = SubSeq(history[t].stream, history[t].mark + 1, Len(history[t].stream))

\* A history of tool calls that is called complete has every call that was
\* announced, over all registered launches, and nothing else (merge_newer,
\* drop_event).
HonestCoverage ==
  \A t \in Registered :
    activities[t].observation.tool_history_complete =>
      DOMAIN activities[t].observation.seen_calls = history[t].called

\* The groups and the identities of the calls agree, in the trackers of the map
\* and in those of launches to come (record_tool_call).
ToolsAgree ==
  \A t \in Tasks :
    /\ activities[t] # None => /\ CountsAgree(activities[t].observation)
                               /\ RecentAreLatest(activities[t].observation)
    /\ incoming[t] # None => CountsAgree(incoming[t].observation)

\* The stored final text is text of the run that ended, never of an earlier
\* run whose stream the tracker carries on.
ResultOfItsRun ==
  \A t \in Tasks :
    rows[t].phase = "terminal" =>
      \A i \in DOMAIN rows[t].result.text :
        rows[t].result.text[i][1] \in {0, rows[t].owner_epoch}

\* Text is delivered exactly: each wait takes what no wait has taken, from
\* cursors and windows that stay consistent, and the final text is of its run
\* (wait_tail_locked, inherit_wait_text, take_terminal_text).
TextDelivered == WaitingTypeOK /\ TailExact /\ ResultOfItsRun

\* The tool history of a task agrees with the calls it was announced, over all
\* its launches and at the caps (record_tool_call, merge_newer).
ToolsHonest == HonestCoverage /\ ToolsAgree

Answered(w) == wait[w].pc = "done"
Bodies(w) == ToSet(wait[w].out)

\* However a page was shortened, its cursor says where the text goes on, and
\* no cursor says that it ends here (bound_wait_many_result, shrunk_result_page).
PageHonest ==
  \A w \in Waiters : Answered(w) =>
    \A body \in Bodies(w) :
      /\ body.next = None <=> Len(body.page) = body.total
      /\ body.next # None => body.next = Len(body.page)

\* A shortened failure record and a shortened question say so.
ShorteningTold ==
  \A w \in Waiters : Answered(w) =>
    \A body \in Bodies(w) :
      /\ body.failure # None /\ body.failure.tail < FailureOf.tail => body.failure.truncated
      /\ body.question # None => (body.question_truncated <=> body.question = SummaryCap)

\* The smallest form of a body the degradation can reach
Smallest(body, floor) ==
  [body EXCEPT !.page = SubSeq(@, 1, floor),
               !.failure = IF @ = None THEN None ELSE ShrinkRecord(@, 0),
               !.question = IF @ = None THEN None ELSE SummaryCap]

\* A list wait is refused as oversized only when its bodies, each as small as
\* it can be made, do not fit together.
OversizedOnlyIfMust ==
  \A w \in ListMode : wait[w].pc = "error" /\ wait[w].out # <<>> =>
    ~Fits([i \in DOMAIN wait[w].out |-> Smallest(wait[w].out[i], FloorBoundary(wait[w].out[i].page,
             IF wait[w].out[i].page = <<>> THEN 0 ELSE 1))], Errors(w))

\* A terminal body of a list wait is about a run after which, when the last
\* round began, the task had not been claimed again (the comparison of owner
\* epochs).
FreshBodies ==
  \A w \in ListMode : Answered(w) =>
    \A body \in Bodies(w) : body.terminal => body.epoch >= wait[w].floor[body.id]

\* A list wait that neither ran out of time nor met a request has the final
\* state of every task it knows.
SettledTogether ==
  \A w \in ListMode : Answered(w) /\ ~wait[w].any /\ ~wait[w].now =>
    /\ {body.id : body \in Bodies(w)} = ToSet(Distinct[w]) \ wait[w].unknown
    /\ \A body \in Bodies(w) : body.terminal

\* A list wait that fails has taken nobody's text.
ErrorKeepsText == \A w \in ListMode : wait[w].pc = "error" => wait[w].taken = {}

\* An answer that was made to fit says what it left out and where to go on; one
\* that was refused had to be, and has taken nothing (bound_wait_many_result).
AnswersHonest == PageHonest /\ ShorteningTold /\ OversizedOnlyIfMust /\ ErrorKeepsText

\* A list wait answers with the present: no result of a run that was followed
\* by another, and the final states of all tasks unless it was cut short.
FreshAnswers == FreshBodies /\ SettledTogether
=============================================================================
