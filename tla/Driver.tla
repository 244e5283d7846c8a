------------------------------- MODULE Driver -------------------------------
(***************************************************************************)
(* external-runtime/src/lib.rs: a child process in a process group of its  *)
(* own, and the threads of the daemon around it: the reader of its output, *)
(* the dispatcher that correlates answers with requests, the monitor of    *)
(* its exit, callers that make requests, and callers that stop it.         *)
(*                                                                         *)
(* The operating system is external: a process of the group may fork, die, *)
(* ignore SIGTERM, and outlive its leader.  A deadline is a step that is   *)
(* possible whenever the code waits with one.  On Windows (model "job")    *)
(* the group is a Job Object, whose termination kills all members.         *)
(***************************************************************************)
EXTENDS Naturals, Sequences, FiniteSets

CONSTANTS
  Stoppers,     \* threads that call stop_and_reap (Drop included)
  Requests,     \* ids of requests made to the runtime
  Kids,         \* descendants the leader may fork into its group
  MaxAnswers,   \* answers the runtime gives to one request
  MaxEvents,    \* other frames it writes
  MaxCalls      \* calls of stop_and_reap by one thread

ASSUME DriverAssumption ==
  /\ IsFiniteSet(Stoppers) /\ "free" \notin Stoppers
  /\ "InOrder" \notin Requests
  /\ MaxAnswers \in Nat /\ MaxEvents \in Nat /\ MaxCalls \in Nat

VARIABLES
  model,        \* how the runtime was started
  leader,       \* the leader of the group
  kids,         \* live descendants in the group
  signal,       \* strongest signal the group has received
  stop_state,   \* StopState, with its generation and its waiters
  th,           \* the threads that stop
  holder,       \* who holds the mutex of the Child
  monitor, termination,      \* monitor thread, and how it published the exit
  stdout, written, reader,   \* the pipe, frames written so far, the reader
  raw, dispatcher, seen,     \* channel, dispatcher, what a subscriber got
  pending, request, answer   \* map of waiters, requests and their channels

os == <<leader, kids, signal>>
stopping == <<stop_state, th, holder>>
exiting == <<monitor, termination>>
reading == <<stdout, written, reader>>
channel == <<raw, dispatcher, seen>>
calls == <<pending, request, answer>>
driverVars == <<model, os, stopping, exiting, reading, channel, calls>>

\* attached and job: a Child of the daemon (Unix, Windows); detached: started
\* by a helper; persisted: known only from the store.
Models == {"attached", "job", "detached", "persisted"}
OwnsChild == model \in {"attached", "job"}
\* where a thread is in stop_and_reap
Performing == {"probe", "ensure", "observe", "term", "termed", "check", "kill", "killed"}
Places == Performing \cup {"idle", "waiting", "ok", "err"}

Events == {"turn.started", "turn.completed", "malformed", "oversized"}
Frame(kind, id) == [kind |-> kind, id |-> id]
Frames == {Frame("response", r) : r \in Requests} \cup {Frame(k, "none") : k \in Events}
Inbound == Frames
   \cup {Frame(k, o) : k \in {"turn.started", "turn.completed"}, o \in {"InOrder", "OutOfOrder"}}
   \cup {Frame("exited", "none")} \cup {Frame("unmatched", r) : r \in Requests}
Answers == {"none", "response", "exited", "closed"}
Settled == {"response", "exited", "closed", "timeout", "unwritten"}

DriverTypeOK ==
  /\ model \in Models
  /\ leader \in {"none", "alive", "zombie", "reaped"}
  /\ kids \subseteq Kids
  /\ signal \in {"none", "term", "kill"}
  /\ stop_state \in [state : {"Running", "Stopping", "Stopped", "Failed"},
                     generation : Nat, waiters : Nat]
  /\ th \in [Stoppers -> [pc : Places, generation : Nat, calls : 0..MaxCalls]]
  /\ holder \in Stoppers \cup {"free"}
  /\ monitor \in {"polling", "boundary", "done"}
  /\ termination \in {"none", "ordered", "early"}
  /\ stdout \in Seq(Frames) /\ raw \in Seq(Inbound) /\ seen \in Seq(Inbound)
  /\ written \in [Requests \cup {"events"} -> Nat]
  /\ reader \in [on : BOOLEAN, turn_active : BOOLEAN]
  /\ dispatcher \in {"on", "off"}
  /\ pending \subseteq Requests
  /\ request \in [Requests -> {"unsent", "registered", "waiting", "expired"} \cup Settled]
  /\ answer \in [Requests -> Answers]

\* from_started: threads and pipes.  A persisted identity has neither.
DriverInit ==
  /\ model \in Models
  /\ leader = CASE OwnsChild -> "alive" [] model = "detached" -> "none" [] OTHER -> "alive"
  /\ kids = {}
  /\ signal = "none"
  /\ stop_state = [state |-> "Running", generation |-> 0, waiters |-> 0]
  /\ th = [s \in Stoppers |-> [pc |-> "idle", generation |-> 0, calls |-> 0]]
  /\ holder = "free"
  /\ monitor = IF model = "persisted" THEN "done" ELSE "polling"
  /\ termination = "none"
  /\ stdout = <<>> /\ raw = <<>> /\ seen = <<>>
  /\ written = [r \in Requests \cup {"events"} |-> 0]
  /\ reader = [on |-> model # "persisted", turn_active |-> FALSE]
  /\ dispatcher = IF model = "persisted" THEN "off" ELSE "on"
  /\ pending = {}
  /\ request = [r \in Requests |-> "unsent"]
  /\ answer = [r \in Requests |-> "none"]
-----------------------------------------------------------------------------
(* The operating system and the runtime (external)                         *)

Fork(k) ==
  /\ k \notin kids
  /\ leader = "alive" \/ kids # {}
  /\ signal = "none"
  /\ kids' = kids \cup {k}
  /\ UNCHANGED <<model, leader, signal, stopping, exiting, reading, channel, calls>>

\* The daemon reaps its child, the system reaps what has no other parent.
LeaderDies ==
  /\ leader = "alive"
  /\ leader' = IF OwnsChild THEN "zombie" ELSE "reaped"
  /\ UNCHANGED <<model, kids, signal, stopping, exiting, reading, channel, calls>>

KidDies(k) ==
  /\ k \in kids
  /\ kids' = kids \ {k}
  /\ UNCHANGED <<model, leader, signal, stopping, exiting, reading, channel, calls>>

Writes(frame, key) ==
  /\ leader = "alive"
  /\ written' = [written EXCEPT ![key] = @ + 1]
  /\ stdout' = Append(stdout, frame)
  /\ UNCHANGED <<model, os, stopping, exiting, reader, channel, calls>>

\* an answer, or a second one, perhaps after the caller has given up
Answer(r) ==
  /\ request[r] \notin {"unsent", "registered", "unwritten"} /\ written[r] < MaxAnswers
  /\ Writes(Frame("response", r), r)

Emit(kind) ==
  /\ model # "persisted"
  /\ written["events"] < MaxEvents
  /\ Writes(Frame(kind, "none"), "events")
-----------------------------------------------------------------------------
(* Requests                                                                *)

Becomes(r, state) == request' = [request EXCEPT ![r] = state]

\* begin_request_with_id: the waiter is registered before the frame is written
Register(r) ==
  /\ model # "persisted" /\ request[r] = "unsent"
  /\ Becomes(r, "registered")
  /\ pending' = pending \cup {r}
  /\ UNCHANGED <<model, os, stopping, exiting, reading, channel, answer>>

\* ... and taken out again if the write fails
WriteRequest(r) ==
  /\ request[r] = "registered"
  /\ \/ /\ leader = "alive" \/ kids # {}
        /\ Becomes(r, "waiting")
        /\ UNCHANGED pending
     \/ /\ leader # "alive"
        /\ Becomes(r, "unwritten")
        /\ pending' = pending \ {r}
  /\ UNCHANGED <<model, os, stopping, exiting, reading, channel, answer>>

\* PendingRequest::wait: the outcome, if there is one by the deadline
Receive(r) ==
  /\ request[r] = "waiting" /\ answer[r] # "none"
  /\ Becomes(r, answer[r])
  /\ pending' = pending \ {r}
  /\ UNCHANGED <<model, os, stopping, exiting, reading, channel, answer>>

\* ... the deadline, cancel or drop; the key is removed after that
Expire(r) ==
  /\ \/ /\ request[r] = "waiting" /\ answer[r] = "none"
        /\ Becomes(r, "expired")
        /\ UNCHANGED pending
     \/ /\ request[r] = "expired"
        /\ Becomes(r, "timeout")
        /\ pending' = pending \ {r}
  /\ UNCHANGED <<model, os, stopping, exiting, reading, channel, answer>>
-----------------------------------------------------------------------------
(* The dispatcher                                                          *)

\* Faulty variant: the waiters of a runtime that exited are forgotten.
TellForgets(ids, outcome) ==
  /\ answer' = [r \in Requests |->
                  IF r \in ids /\ outcome # "exited" THEN outcome ELSE answer[r]]
  /\ pending' = pending \ ids

\* the senders of these waiters are taken out of the map and used
Tell(ids, outcome) ==
  /\ answer' = [r \in Requests |-> IF r \in ids THEN outcome ELSE answer[r]]
  /\ pending' = pending \ ids

Broadcast(inbound) == seen' = Append(seen, inbound)

\* spawn_dispatcher, one message of the channel
Dispatch ==
  /\ dispatcher = "on" /\ raw # <<>>
  /\ raw' = Tail(raw)
  /\ LET inbound == Head(raw) IN
     CASE inbound.kind = "response" /\ inbound.id \in pending ->
            Tell({inbound.id}, "response") /\ UNCHANGED seen
       [] inbound.kind = "response" /\ inbound.id \notin pending ->
            Broadcast(Frame("unmatched", inbound.id)) /\ UNCHANGED <<answer, pending>>
       [] inbound.kind = "exited" -> Tell(pending, "exited") /\ Broadcast(inbound)
       [] OTHER -> Broadcast(inbound) /\ UNCHANGED <<answer, pending>>
  /\ UNCHANGED <<model, os, stopping, exiting, reading, dispatcher, request>>

\* both senders of the channel are gone
DispatcherEnds ==
  /\ dispatcher = "on" /\ raw = <<>>
  /\ ~reader.on /\ monitor = "done"
  /\ dispatcher' = "off"
  /\ Tell(pending, "closed")
  /\ UNCHANGED <<model, os, stopping, exiting, reading, raw, seen, request>>
-----------------------------------------------------------------------------
(* The reader                                                              *)

\* classify_lifecycle
InOrder(kind) == (kind = "turn.started") = ~reader.turn_active

Lifecycle(kind) == kind \in {"turn.started", "turn.completed"} /\ InOrder(kind)

\* read_loop, one line; a lifecycle event is preceded by its order, and an
\* oversized line ends the loop
ReadFrame ==
  /\ reader.on /\ stdout # <<>>
  /\ stdout' = Tail(stdout)
  /\ LET frame == Head(stdout) IN
     /\ raw' = IF frame.kind \in {"turn.started", "turn.completed"}
                 THEN raw \o <<Frame(frame.kind, IF Lifecycle(frame.kind) THEN "InOrder"
                                                                          ELSE "OutOfOrder"), frame>>
                 ELSE Append(raw, frame)
     /\ reader' = [on |-> frame.kind # "oversized",
                   turn_active |-> IF Lifecycle(frame.kind) THEN frame.kind = "turn.started"
                                                            ELSE reader.turn_active]
  /\ UNCHANGED <<model, os, stopping, exiting, written, dispatcher, seen, calls>>

\* end of the stream: nobody holds the other end of the pipe
ReaderEnds ==
  /\ reader.on /\ stdout = <<>>
  /\ leader \in {"zombie", "reaped"} /\ kids = {}
  /\ reader' = [reader EXCEPT !.on = FALSE]
  /\ UNCHANGED <<model, os, stopping, exiting, stdout, written, channel, calls>>
-----------------------------------------------------------------------------
(* The monitor                                                             *)

\* monitor_child: try_wait under the mutex of the Child; or the exit queue
MonitorPolls ==
  /\ monitor = "polling" /\ leader \in {"zombie", "reaped"}
  /\ OwnsChild => holder = "free"
  /\ leader' = "reaped"
  /\ monitor' = "boundary"
  /\ UNCHANGED <<model, kids, signal, stopping, termination, reading, channel, calls>>

\* publish_child_exit, when the reader is done or, if a descendant keeps the
\* pipe open, after one second without it
PublishExit ==
  /\ monitor = "boundary"
  /\ ~reader.on \/ (kids # {} /\ stdout = <<>>)
  /\ monitor' = "done"
  /\ termination' = IF reader.on THEN "early" ELSE "ordered"
  /\ raw' = Append(raw, Frame("exited", "none"))
  /\ UNCHANGED <<model, os, stopping, reading, dispatcher, seen, calls>>
-----------------------------------------------------------------------------
(* stop_and_reap                                                           *)

Goes(s, pc) == th' = [th EXCEPT ![s].pc = pc]
At(s, pc) == th[s].pc = pc
Calls(s, pc, generation) ==
  th' = [th EXCEPT ![s] = [pc |-> pc, generation |-> generation, calls |-> @.calls]]

\* a thread calls stop_and_reap, once more perhaps after a failure
Call(s) ==
  /\ th[s].pc \in {"ok", "err"} \/ (At(s, "idle") /\ th[s].calls = 0)
  /\ th[s].calls < MaxCalls
  /\ th' = [th EXCEPT ![s] = [pc |-> "idle", generation |-> 0, calls |-> @.calls + 1]]
  /\ UNCHANGED <<model, os, stop_state, holder, exiting, reading, channel, calls>>

Stopping(s) == At(s, "idle") /\ th[s].calls > 0

\* begin_stop: perform a new generation.  A persisted group is stopped by the
\* one thread that recovers it, without a stop_state.
Perform(s) ==
  /\ Stopping(s)
  /\ IF model = "persisted"
       THEN (\A t \in Stoppers : th[t].pc \notin Performing) /\ UNCHANGED stop_state
       ELSE /\ \/ stop_state.state = "Running"
               \/ stop_state.state = "Failed" /\ stop_state.waiters = 0
            /\ stop_state' = [state |-> "Stopping", generation |-> stop_state.generation + 1,
                              waiters |-> 0]
  /\ Calls(s, "probe", stop_state'.generation)
  /\ UNCHANGED <<model, os, holder, exiting, reading, channel, calls>>

\* begin_stop: join the generation that is being performed
Join(s) ==
  /\ Stopping(s)
  /\ stop_state.state = "Stopping"
  /\ stop_state' = [stop_state EXCEPT !.waiters = @ + 1]
  /\ Calls(s, "waiting", stop_state.generation)
  /\ UNCHANGED <<model, os, holder, exiting, reading, channel, calls>>

\* begin_stop: it was stopped, before the call or while this thread waited
AlreadyStopped(s) ==
  /\ Stopping(s) \/ At(s, "waiting")
  /\ stop_state.state = "Stopped"
  /\ Goes(s, "ok")
  /\ UNCHANGED <<model, os, stop_state, holder, exiting, reading, channel, calls>>

\* begin_stop: the generation this thread joined has failed
JoinedFailed(s) ==
  /\ At(s, "waiting")
  /\ stop_state.state = "Failed" /\ stop_state.generation = th[s].generation
  /\ stop_state' = [stop_state EXCEPT !.waiters = @ - 1]
  /\ Goes(s, "err")
  /\ UNCHANGED <<model, os, holder, exiting, reading, channel, calls>>

\* finish_stop
Finish(s, ok) ==
  /\ IF model = "persisted"
       THEN UNCHANGED stop_state
       ELSE stop_state' = [stop_state EXCEPT !.state = IF ok THEN "Stopped" ELSE "Failed"]
  /\ holder' = IF holder = s THEN "free" ELSE holder
  /\ Goes(s, IF ok THEN "ok" ELSE "err")

\* perform_stop takes the Child and keeps it; a leader that has exited is
\* reaped and its group has to be empty.  Without a Child the leader is looked
\* up: a dead one authorises no signal, but for a persisted identity.
Probe(s) ==
  /\ At(s, "probe")
  /\ IF OwnsChild THEN holder = "free" /\ holder' = s ELSE UNCHANGED holder
  /\ leader' = IF leader = "zombie" THEN "reaped" ELSE leader
  /\ Goes(s, CASE leader = "alive" -> "observe"
               [] leader # "alive" /\ model = "persisted" /\ kids # {} -> "term"
               [] OTHER -> "ensure")
  /\ UNCHANGED <<model, kids, signal, stop_state, exiting, reading, channel, calls>>

\* ensure_group_empty: descendants of a dead leader are not signalled
Ensure(s) ==
  /\ At(s, "ensure")
  /\ Finish(s, kids = {})
  /\ UNCHANGED <<model, os, exiting, reading, channel, calls>>

\* observe_process and observe_process_group, with their validation: the
\* leader is the one that was started and a member of its group.  A zombie may
\* be visible or not, and an observation may fail.
Observe(s) ==
  /\ At(s, "observe")
  /\ \/ leader # "reaped" /\ Goes(s, "term") /\ UNCHANGED <<stop_state, holder, leader>>
     \/ /\ leader # "alive" /\ leader' = "reaped"
        /\ Goes(s, "ensure") /\ UNCHANGED <<stop_state, holder>>
     \/ Finish(s, FALSE) /\ UNCHANGED leader
  /\ UNCHANGED <<model, kids, signal, exiting, reading, channel, calls>>

\* signal_group: on Windows either signal terminates the job
Signals(s, name, pc) ==
  /\ signal' = IF signal = "kill" THEN "kill" ELSE name
  /\ IF model = "job" THEN kids' = {} /\ leader' = (IF leader = "alive" THEN "zombie" ELSE leader)
                      ELSE UNCHANGED <<kids, leader>>
  /\ Goes(s, pc)
  /\ UNCHANGED <<model, stop_state, holder, exiting, reading, channel, calls>>

SendTerm(s) == At(s, "term") /\ Signals(s, "term", "termed")

\* Faulty variant: the death of the leader is taken for that of the group.
GroupDeathOfLeader(s) ==
  /\ th[s].pc \in {"termed", "killed"}
  /\ leader # "alive"
  /\ leader' = "reaped"
  /\ Finish(s, TRUE)
  /\ UNCHANGED <<model, kids, signal, exiting, reading, channel, calls>>

\* wait_for_group_death, wait_for_persisted_group_death: the group has no
\* members, and a leader that is a child has been reaped
GroupDeath(s) ==
  /\ th[s].pc \in {"termed", "killed"}
  /\ leader # "alive" /\ kids = {}
  /\ leader' = "reaped"
  /\ Finish(s, TRUE)
  /\ UNCHANGED <<model, kids, signal, exiting, reading, channel, calls>>

\* ... whose try_wait reaps the leader while descendants live on
ReapLeader(s) ==
  /\ th[s].pc \in {"termed", "killed"}
  /\ leader = "zombie" /\ kids # {}
  /\ leader' = "reaped"
  /\ UNCHANGED <<model, kids, signal, stopping, exiting, reading, channel, calls>>

\* the deadline after SIGTERM; then the members are looked at again
Escalate(s) ==
  /\ \/ At(s, "termed") /\ Goes(s, "check") /\ UNCHANGED <<stop_state, holder>>
     \/ At(s, "check") /\ Goes(s, "kill") /\ UNCHANGED <<stop_state, holder>>
     \/ At(s, "check") /\ Finish(s, FALSE)
  /\ UNCHANGED <<model, os, exiting, reading, channel, calls>>

SendKill(s) == At(s, "kill") /\ Signals(s, "kill", "killed")

\* Faulty variant: the last wait has no deadline.
SurvivedWaits(s) ==
  /\ At(s, "killed")
  /\ leader = "alive" \/ kids # {}
  /\ UNCHANGED driverVars

\* "process group survived SIGKILL"
Survived(s) ==
  /\ At(s, "killed")
  /\ leader = "alive" \/ kids # {}
  /\ Finish(s, FALSE)
  /\ UNCHANGED <<model, os, exiting, reading, channel, calls>>

StopStep(s) ==
  \/ Perform(s) \/ Join(s) \/ AlreadyStopped(s) \/ JoinedFailed(s)
  \/ Probe(s) \/ Ensure(s) \/ Observe(s) \/ SendTerm(s) \/ GroupDeath(s)
  \/ ReapLeader(s) \/ Escalate(s) \/ SendKill(s) \/ Survived(s)

Threads ==
  \/ Dispatch \/ DispatcherEnds \/ ReadFrame \/ ReaderEnds
  \/ MonitorPolls \/ PublishExit

RequestStep(r) == Register(r) \/ WriteRequest(r) \/ Receive(r) \/ Expire(r)

DriverNext ==
  \/ LeaderDies \/ \E k \in Kids : Fork(k) \/ KidDies(k)
  \/ \E kind \in Events : Emit(kind)
  \/ \E r \in Requests : Answer(r) \/ RequestStep(r)
  \/ Threads
  \/ \E s \in Stoppers : StopStep(s) \/ Call(s)
=============================================================================
