---------------------------- MODULE RuntimeLemmas ----------------------------
(***************************************************************************)
(* Lemmas about a runtime and the threads around it (Driver, OrphanSpawn): *)
(* what passes between the runtime and its callers (requests and their     *)
(* waiters, the order of the frames, the place of the exit among them, the *)
(* marks of turns), the start through the helper, and the steps of a stop. *)
(* RuntimeProofs puts them together.                                       *)
(***************************************************************************)
EXTENDS OrphanSpawn, TLAPS

(* Sequences of frames                                                     *)

\* A stream without frames.
LEMMA EmptyFrames ==
  ASSUME NEW S
  PROVE  <<>> \in Seq(S) /\ Len(<<>>) = 0 /\ \A s \in Seq(S) : Len(s) = 0 => s = <<>>
OBVIOUS

\* A stream whose first frame is taken.
LEMMA TailFrames ==
  ASSUME NEW S, NEW s \in Seq(S), s # <<>>
  PROVE  /\ Head(s) \in S /\ Head(s) = s[1]
         /\ Tail(s) \in Seq(S) /\ Len(Tail(s)) = Len(s) - 1
         /\ \A i \in 1..Len(s) - 1 : Tail(s)[i] = s[i + 1]
         /\ Len(s) \in Nat /\ Len(s) > 0
OBVIOUS

\* A stream with one more frame.
LEMMA AppendFrames ==
  ASSUME NEW S, NEW s \in Seq(S), NEW f \in S
  PROVE  /\ Append(s, f) \in Seq(S) /\ Len(Append(s, f)) = Len(s) + 1
         /\ \A i \in 1..Len(s) : Append(s, f)[i] = s[i]
         /\ Append(s, f)[Len(s) + 1] = f
         /\ Len(s) \in Nat
OBVIOUS

\* Two streams, one after the other.
LEMMA ConcatFrames ==
  ASSUME NEW S, NEW s \in Seq(S), NEW t \in Seq(S)
  PROVE  /\ Len(s \o t) = Len(s) + Len(t) /\ Len(s) \in Nat /\ Len(t) \in Nat
         /\ \A i \in 1..Len(s) + Len(t) : (s \o t)[i] = IF i <= Len(s) THEN s[i] ELSE t[i - Len(s)]
OBVIOUS

\* Two frames at once.
LEMMA TwoFrames ==
  ASSUME NEW S, NEW s \in Seq(S), NEW f \in S, NEW g \in S
  PROVE  s \o <<f, g>> = Append(Append(s, f), g) /\ s \o <<f, g>> \in Seq(S)
OBVIOUS
-----------------------------------------------------------------------------
(* Who changes what                                                        *)

\* the system, the runtime, and what it writes
Outside ==
  \/ LeaderDies \/ \E k \in Kids : Fork(k) \/ KidDies(k)
  \/ \E kind \in Events : Emit(kind)
  \/ \E r \in Requests : Answer(r)

\* The start leaves the threads of the driver alone.
LEMMA SpawnFrame ==
  ASSUME Spawning \/ HelperStep \/ HelperDies
  PROVE  UNCHANGED <<model, kids, stopping, exiting, reading, channel, calls>>
<1> USE DEF driverVars, os, stopping, exiting, reading, channel, calls
<1>1. SpawnStep => UNCHANGED <<model, kids, stopping, exiting, reading, channel, calls>>
  BY DEF SpawnStep, StartHelper, ReapParent, FirstFrame, ObserveRuntime, RegisterExit,
         Directive, ReapReply, Cleanup
<1>2. RuntimeDies \/ Recycle => UNCHANGED <<model, kids, stopping, exiting, reading, channel, calls>>
  BY SMTT(30) DEF RuntimeDies, Recycle
<1>3. HelperStep \/ HelperDies => UNCHANGED <<model, kids, stopping, exiting, reading, channel, calls>>
  BY Zenon DEF HelperStep, HelperDies, ParentForks, ParentExits, SpawnRuntime, WriteFrame, Obey,
         HelperReaps
<1> QED BY <1>1, <1>2, <1>3 DEF Spawning

\* The runtime and its descendants leave the threads and what has been read alone.
LEMMA OutsideFrame ==
  ASSUME Outside
  PROVE  /\ UNCHANGED <<model, signal, stopping, exiting, reader, channel, calls>>
         /\ leader # "alive" => leader' = leader
         /\ leader = "alive" => leader' \in {"alive", IF OwnsChild THEN "zombie" ELSE "reaped"}
         /\ leader # "alive" /\ kids = {} => kids' = {}
<1> USE DEF os, stopping, exiting, reading, channel, calls
<1>1. CASE LeaderDies
  BY <1>1 DEF LeaderDies
<1>2. ASSUME NEW k \in Kids, Fork(k) \/ KidDies(k)
      PROVE  /\ UNCHANGED <<model, leader, signal, stopping, exiting, reader, channel, calls>>
             /\ leader # "alive" /\ kids = {} => kids' = {}
  BY <1>2 DEF Fork, KidDies
<1>3. ASSUME NEW frame, NEW key, Writes(frame, key)
      PROVE  UNCHANGED <<model, os, stopping, exiting, reader, channel, calls>>
  BY <1>3 DEF Writes
<1>4. CASE \E kind \in Events : Emit(kind)
  BY <1>3, <1>4 DEF Emit
<1>5. CASE \E r \in Requests : Answer(r)
  BY <1>3, <1>5 DEF Answer
<1> QED BY <1>1, <1>2, <1>4, <1>5 DEF Outside

\* A caller touches the requests only.
LEMMA RequestFrame ==
  ASSUME NEW r \in Requests, RequestStep(r)
  PROVE  UNCHANGED <<model, os, stopping, exiting, reading, channel, answer>>
BY DEF RequestStep, Register, WriteRequest, Receive, Expire

\* The reader, the dispatcher and the monitor leave descendants, signals and stops alone.
LEMMA ThreadsFrame ==
  ASSUME Threads
  PROVE  UNCHANGED <<model, kids, signal, stopping, written>>
BY DEF Threads, Dispatch, DispatcherEnds, ReadFrame, ReaderEnds, MonitorPolls, PublishExit,
       os, stopping, reading

\* A thread that stops touches no stream and no request.
LEMMA StopFrame ==
  ASSUME NEW s \in Stoppers, StopStep(s) \/ Call(s)
  PROVE  UNCHANGED <<model, exiting, reading, channel, calls>>
<1>1. Perform(s) \/ Join(s) \/ AlreadyStopped(s) \/ JoinedFailed(s) \/ Call(s)
        => UNCHANGED <<model, exiting, reading, channel, calls>>
  BY DEF Perform, Join, AlreadyStopped, JoinedFailed, Call
<1>2. Probe(s) \/ Ensure(s) \/ Observe(s) \/ GroupDeath(s) \/ ReapLeader(s) \/ Escalate(s) \/ Survived(s)
        => UNCHANGED <<model, exiting, reading, channel, calls>>
  BY Zenon DEF Probe, Ensure, Observe, GroupDeath, ReapLeader, Escalate, Survived
<1>3. SendTerm(s) \/ SendKill(s) => UNCHANGED <<model, exiting, reading, channel, calls>>
  BY DEF SendTerm, SendKill, Signals
<1> QED BY <1>1, <1>2, <1>3 DEF StopStep

\* Who takes a step of the driver.
LEMMA DriverCases ==
  ASSUME DriverNext
  PROVE  \/ Outside \/ Threads
         \/ \E r \in Requests : RequestStep(r)
         \/ \E s \in Stoppers : StopStep(s) \/ Call(s)
BY DEF DriverNext, Outside
-----------------------------------------------------------------------------
(* Types                                                                   *)

\* what the frames of the pipe and of the channel are
LEMMA FrameKinds ==
  /\ Frames \subseteq Inbound
  /\ \A f \in Frames : f.kind # "exited" /\ f.id # "InOrder"
  /\ \A f \in Inbound : f.kind = "response" => f.id \in Requests /\ Frame("unmatched", f.id) \in Inbound
  /\ \A f \in Inbound : f.id = "InOrder" => f.kind \in {"turn.started", "turn.completed"}
  /\ Frame("exited", "none") \in Inbound
  /\ \A k \in {"turn.started", "turn.completed"} :
       Frame(k, "InOrder") \in Inbound /\ Frame(k, "OutOfOrder") \in Inbound
BY DriverAssumption DEF Frames, Inbound, Frame, Events

\* The runtime and its descendants keep the types.
LEMMA OutsideType ==
  ASSUME DriverTypeOK, Outside
  PROVE  DriverTypeOK'
<1>1. /\ leader' \in {"none", "alive", "zombie", "reaped"}
      /\ UNCHANGED <<model, signal, stopping, exiting, reader, channel, calls>>
  BY OutsideFrame DEF DriverTypeOK
<1>2. kids' \subseteq Kids /\ stdout' \in Seq(Frames) /\ written' \in [Requests \cup {"events"} -> Nat]
  <2>1. CASE LeaderDies
    BY <2>1 DEF LeaderDies, DriverTypeOK, reading
  <2>2. CASE \E k \in Kids : Fork(k) \/ KidDies(k)
    BY <2>2 DEF Fork, KidDies, DriverTypeOK, reading
  <2>3. ASSUME NEW frame \in Frames, NEW key \in Requests \cup {"events"}, Writes(frame, key)
        PROVE  kids' \subseteq Kids /\ stdout' \in Seq(Frames) /\ written' \in [Requests \cup {"events"} -> Nat]
    <3>1. kids' = kids /\ stdout' = Append(stdout, frame) /\ written' = [written EXCEPT ![key] = @ + 1]
      BY <2>3 DEF Writes, os
    <3>2. stdout' \in Seq(Frames)
      BY <3>1, AppendFrames DEF DriverTypeOK
    <3> QED BY <3>1, <3>2 DEF DriverTypeOK
  <2>4. CASE \E kind \in Events : Emit(kind)
    BY <2>3, <2>4, Zenon DEF Emit, Frames
  <2>5. CASE \E r \in Requests : Answer(r)
    BY <2>3, <2>5, Zenon DEF Answer, Frames
  <2> QED BY <2>1, <2>2, <2>4, <2>5 DEF Outside
<1> QED BY <1>1, <1>2 DEF DriverTypeOK, stopping, exiting, channel, calls

\* A caller keeps the types.
LEMMA RequestType ==
  ASSUME DriverTypeOK, NEW r \in Requests, RequestStep(r)
  PROVE  DriverTypeOK'
<1>1. UNCHANGED <<model, os, stopping, exiting, reading, channel, answer>>
  BY RequestFrame
<1>2. pending' \subseteq Requests
  BY DEF DriverTypeOK, RequestStep, Register, WriteRequest, Receive, Expire
<1>3. answer[r] # "none" => answer[r] \in Settled
  BY DEF DriverTypeOK, Answers, Settled
<1>4. request' \in [Requests -> {"unsent", "registered", "waiting", "expired"} \cup Settled]
  BY <1>3, Zenon DEF DriverTypeOK, RequestStep, Register, WriteRequest, Receive, Expire, Becomes, Settled
<1> QED BY <1>1, <1>2, <1>4 DEF DriverTypeOK, os, stopping, exiting, reading, channel

\* The reader, the dispatcher and the monitor keep the types.
LEMMA ThreadsType ==
  ASSUME DriverTypeOK, Threads
  PROVE  DriverTypeOK'
<1>1. UNCHANGED <<model, kids, signal, stopping, written>>
  BY ThreadsFrame
<1>2. CASE Dispatch
  <2> DEFINE inbound == Head(raw)
  <2>1. inbound \in Inbound /\ raw' \in Seq(Inbound)
    BY <1>2, TailFrames DEF Dispatch, DriverTypeOK
  <2>2. \/ UNCHANGED seen
        \/ \E f \in Inbound : seen' = Append(seen, f)
    BY <1>2, <2>1, FrameKinds DEF Dispatch, Broadcast
  <2>3. seen' \in Seq(Inbound)
    <3>1. seen \in Seq(Inbound)
      BY DEF DriverTypeOK
    <3>2. ASSUME NEW f \in Inbound PROVE Append(seen, f) \in Seq(Inbound)
      BY <3>1, AppendFrames
    <3> QED BY <2>2, <3>1, <3>2
  <2>4. pending' \subseteq Requests /\ answer' \in [Requests -> Answers]
    BY <1>2 DEF Dispatch, Tell, DriverTypeOK, Answers
  <2> QED BY <1>1, <1>2, <2>1, <2>3, <2>4 DEF Dispatch, DriverTypeOK, os, stopping, exiting, reading
<1>3. CASE DispatcherEnds
  BY <1>1, <1>3 DEF DispatcherEnds, Tell, DriverTypeOK, Answers, os, stopping, exiting, reading
<1>4. CASE ReadFrame
  <2> DEFINE frame == Head(stdout)
  <2>1. frame \in Frames /\ stdout' \in Seq(Frames)
    BY <1>4, TailFrames DEF ReadFrame, DriverTypeOK
  <2>2. \/ raw' = Append(raw, frame)
        \/ \E f \in Inbound : raw' = raw \o <<f, frame>>
    BY <1>4, FrameKinds, Zenon DEF ReadFrame
  <2>3. raw' \in Seq(Inbound)
    <3>1. raw \in Seq(Inbound) /\ frame \in Inbound
      BY <2>1, FrameKinds DEF DriverTypeOK
    <3>2. Append(raw, frame) \in Seq(Inbound)
      BY <3>1, AppendFrames
    <3>3. ASSUME NEW f \in Inbound PROVE raw \o <<f, frame>> \in Seq(Inbound)
      BY <3>1, TwoFrames
    <3> QED BY <2>2, <3>2, <3>3, Zenon
  <2>4. reader' \in [on : BOOLEAN, turn_active : BOOLEAN]
    BY <1>4, Zenon DEF ReadFrame, DriverTypeOK
  <2> QED BY <1>1, <1>4, <2>1, <2>3, <2>4, SMTT(30) DEF ReadFrame, DriverTypeOK, os, stopping, exiting, calls
<1>5. CASE ReaderEnds
  BY <1>1, <1>5, Zenon DEF ReaderEnds, DriverTypeOK, os, stopping, exiting, channel, calls
<1>6. CASE MonitorPolls
  BY <1>1, <1>6 DEF MonitorPolls, DriverTypeOK, stopping, reading, channel, calls
<1>7. CASE PublishExit
  <2>1. raw' \in Seq(Inbound)
    BY <1>7, FrameKinds, AppendFrames DEF PublishExit, DriverTypeOK
  <2> QED BY <1>1, <1>7, <2>1 DEF PublishExit, DriverTypeOK, os, stopping, reading, calls
<1> QED BY <1>2, <1>3, <1>4, <1>5, <1>6, <1>7 DEF Threads
-----------------------------------------------------------------------------
(* Requests                                                                *)

\* A waiter leaves the map with its answer, or when its request has ended.
LEMMA NoLostWaiterStep ==
  ASSUME SpawnTypeOK, NoLostWaiter, [Next]_vars
  PROVE  NoLostWaiter'
<1>1. UNCHANGED calls => NoLostWaiter'
  BY DEF NoLostWaiter, calls
<1>2. CASE UNCHANGED vars
  BY <1>1, <1>2 DEF vars, driverVars
<1>3. CASE Spawning \/ HelperStep \/ HelperDies
  BY <1>1, <1>3, SpawnFrame
<1>4. CASE Outside
  BY <1>1, <1>4, OutsideFrame
<1>5. ASSUME NEW s \in Stoppers, StopStep(s) \/ Call(s) PROVE NoLostWaiter'
  BY <1>1, <1>5, StopFrame
<1>6. ASSUME NEW r \in Requests, RequestStep(r) PROVE NoLostWaiter'
  BY <1>6 DEF NoLostWaiter, SpawnTypeOK, DriverTypeOK, RequestStep, Register, WriteRequest, Receive,
              Expire, Becomes, Answers
<1>7. CASE Threads
  <2>1. CASE ReadFrame \/ ReaderEnds \/ MonitorPolls \/ PublishExit
    BY <1>1, <2>1 DEF ReadFrame, ReaderEnds, MonitorPolls, PublishExit
  <2>2. ASSUME NEW ids, NEW outcome, Tell(ids, outcome), outcome # "none", UNCHANGED request
        PROVE  NoLostWaiter'
    BY <2>2 DEF NoLostWaiter, Tell
  <2>3. CASE DispatcherEnds
    BY <2>2, <2>3 DEF DispatcherEnds
  <2>4. CASE Dispatch
    <3>1. request' = request
      BY <2>4 DEF Dispatch
    <3>2. \/ Tell({Head(raw).id}, "response")
          \/ Tell(pending, "exited")
          \/ UNCHANGED <<answer, pending>>
      BY <2>4 DEF Dispatch
    <3> QED BY <1>1, <2>2, <3>1, <3>2 DEF calls
  <2> QED BY <1>7, <2>1, <2>3, <2>4 DEF Threads
<1> QED BY <1>2, <1>3, <1>4, <1>5, <1>6, <1>7, DriverCases DEF Next
-----------------------------------------------------------------------------
(* The streams                                                             *)

\* What a step does to the streams.
LEMMA StreamCases ==
  ASSUME [Next]_vars
  PROVE  \/ UNCHANGED <<seen, raw, reader, monitor, termination>>
         \/ Dispatch \/ ReadFrame \/ ReaderEnds \/ MonitorPolls \/ PublishExit
<1> USE DEF exiting, reading, channel
<1>1. CASE UNCHANGED vars
  BY <1>1 DEF vars, driverVars
<1>2. CASE Spawning \/ HelperStep \/ HelperDies
  BY <1>2, SpawnFrame
<1>3. CASE Outside
  BY <1>3, OutsideFrame
<1>4. ASSUME NEW r \in Requests, RequestStep(r)
      PROVE  UNCHANGED <<seen, raw, reader, monitor, termination>>
  BY <1>4, RequestFrame
<1>5. ASSUME NEW s \in Stoppers, StopStep(s) \/ Call(s)
      PROVE  UNCHANGED <<seen, raw, reader, monitor, termination>>
  BY <1>5, StopFrame
<1>6. CASE DispatcherEnds
  BY <1>6 DEF DispatcherEnds
<1> QED BY <1>1, <1>2, <1>3, <1>4, <1>5, <1>6, DriverCases DEF Next, Threads

\* a frame the dispatcher has taken is delivered, relabelled or dropped
LEMMA Dispatched ==
  ASSUME DriverTypeOK, Dispatch
  PROVE  /\ raw # <<>> /\ raw' = Tail(raw) /\ UNCHANGED <<reader, monitor, termination>>
         /\ \/ seen' = Append(seen, Head(raw))
            \/ /\ Head(raw).kind = "response" /\ Head(raw).id \in Requests
               /\ \/ seen' = seen
                  \/ seen' = Append(seen, Frame("unmatched", Head(raw).id))
<1>1. raw # <<>> /\ raw' = Tail(raw) /\ UNCHANGED <<reader, monitor, termination>>
  BY DEF Dispatch, exiting, reading
<1>2. Head(raw) \in Inbound
  BY <1>1, TailFrames DEF DriverTypeOK
<1>3. Head(raw).kind = "response" => Head(raw).id \in Requests
  BY <1>2, FrameKinds
<1>4. \/ seen' = Append(seen, Head(raw))
      \/ /\ Head(raw).kind = "response"
         /\ \/ seen' = seen
            \/ seen' = Append(seen, Frame("unmatched", Head(raw).id))
  BY DEF Dispatch, Broadcast
<1> QED BY <1>1, <1>3, <1>4

\* a line the reader has taken is one frame, or a mark and a frame
LEMMA FrameRead ==
  ASSUME DriverTypeOK, ReadFrame
  PROVE  /\ reader.on /\ UNCHANGED <<seen, monitor, termination>>
         /\ \E f \in Frames :
              \/ raw' = Append(raw, f) /\ reader'.turn_active = reader.turn_active
              \/ \E m \in Inbound :
                   /\ raw' = Append(Append(raw, m), f)
                   /\ m.kind \in {"turn.started", "turn.completed"}
                   /\ m.id = "InOrder" =>
                        /\ (m.kind = "turn.started") = ~reader.turn_active
                        /\ reader'.turn_active = (m.kind = "turn.started")
                   /\ m.id # "InOrder" => reader'.turn_active = reader.turn_active
<1> DEFINE f == Head(stdout)
           m == Frame(f.kind, IF Lifecycle(f.kind) THEN "InOrder" ELSE "OutOfOrder")
<1>1. reader.on /\ UNCHANGED <<seen, monitor, termination>>
  BY DEF ReadFrame, exiting
<1>2. f \in Frames /\ f \in Inbound /\ raw \in Seq(Inbound)
  BY TailFrames, FrameKinds DEF ReadFrame, DriverTypeOK
<1>3. reader'.turn_active = IF Lifecycle(f.kind) THEN f.kind = "turn.started" ELSE reader.turn_active
  BY DEF ReadFrame
<1>4. CASE f.kind \in {"turn.started", "turn.completed"}
  <2>1. raw' = raw \o <<m, f>>
    BY <1>4 DEF ReadFrame
  <2>2. m \in Inbound /\ m.kind = f.kind
        /\ m.id = IF Lifecycle(f.kind) THEN "InOrder" ELSE "OutOfOrder"
    BY <1>4, FrameKinds DEF Frame
  <2> HIDE DEF f, m
  <2>3. raw \o <<m, f>> = Append(Append(raw, m), f)
    BY <1>2, <2>2
  <2>4. Lifecycle(f.kind) => (m.kind = "turn.started") = ~reader.turn_active
    BY <2>2 DEF Lifecycle, InOrder
  <2> QED BY <1>1, <1>2, <1>3, <1>4, <2>1, <2>2, <2>3, <2>4
<1>5. CASE f.kind \notin {"turn.started", "turn.completed"}
  <2>1. raw' = Append(raw, f) /\ ~Lifecycle(f.kind)
    BY <1>5 DEF ReadFrame, Lifecycle
  <2> HIDE DEF f
  <2> QED BY <1>1, <1>2, <1>3, <2>1
<1> QED BY <1>4, <1>5

NoExit(frames) == \A i \in 1..Len(frames) : frames[i].kind # "exited"
ExitEnds(frames) ==
  /\ Len(frames) > 0 /\ frames[Len(frames)].kind = "exited"
  /\ \A i \in 1..Len(frames) - 1 : frames[i].kind # "exited"

ExitInv ==
  /\ monitor # "done" => termination = "none"
  /\ termination = "none" => NoExit(seen) /\ NoExit(raw)
  /\ termination = "ordered" =>
       /\ ~reader.on
       /\ \/ NoExit(seen) /\ ExitEnds(raw)
          \/ ExitEnds(seen) /\ raw = <<>>

\* A frame after a stream without exit adds none, or ends the stream with its own.
LEMMA NoExitAppend ==
  ASSUME NEW s \in Seq(Inbound), NEW f \in Inbound, NoExit(s)
  PROVE  /\ f.kind # "exited" => NoExit(Append(s, f))
         /\ f.kind = "exited" => ExitEnds(Append(s, f))
BY AppendFrames DEF NoExit, ExitEnds

\* Taking the first frame leaves the exit where it was, at the end.
LEMMA ExitTail ==
  ASSUME NEW s \in Seq(Inbound), s # <<>>
  PROVE  /\ NoExit(s) => NoExit(Tail(s)) /\ Head(s).kind # "exited"
         /\ ExitEnds(s) => \/ Tail(s) = <<>> /\ Head(s).kind = "exited"
                           \/ ExitEnds(Tail(s)) /\ Head(s).kind # "exited"
<1>1. NoExit(s) => NoExit(Tail(s)) /\ Head(s).kind # "exited"
  BY TailFrames DEF NoExit
<1>2. ASSUME ExitEnds(s), Len(s) = 1 PROVE Tail(s) = <<>> /\ Head(s).kind = "exited"
  <2>1. Tail(s) \in Seq(Inbound) /\ Len(Tail(s)) = 0 /\ Head(s) = s[1]
    BY <1>2, TailFrames
  <2>2. Tail(s) # <<>> => Len(Tail(s)) \in Nat \ {0}
    BY <2>1, EmptyFrames, Zenon
  <2> QED BY <1>2, <2>1, <2>2 DEF ExitEnds
<1>3. ASSUME ExitEnds(s), Len(s) # 1 PROVE ExitEnds(Tail(s)) /\ Head(s).kind # "exited"
  <2>0. Len(Tail(s)) = Len(s) - 1 /\ Len(s) \in Nat /\ Len(s) > 0 /\ Head(s) = s[1]
    BY TailFrames, Zenon
  <2>1. Len(Tail(s)) = Len(s) - 1 /\ Len(s) \in Nat /\ Len(s) > 1 /\ Head(s) = s[1]
    BY <1>3, <2>0
  <2>2. \A i \in 1..Len(s) - 1 : Tail(s)[i] = s[i + 1]
    BY TailFrames
  <2>3. Tail(s)[Len(s) - 1] = s[Len(s)]
    BY <2>1, <2>2
  <2>4. \A i \in 1..Len(s) - 1 : s[i].kind # "exited"
    BY <1>3 DEF ExitEnds
  <2>5. \A i \in 1..(Len(s) - 1) - 1 : Tail(s)[i].kind # "exited"
    BY <2>1, <2>2, <2>4
  <2> QED BY <1>3, <2>1, <2>3, <2>4, <2>5 DEF ExitEnds
<1> QED BY <1>1, <1>2, <1>3

\* The exit is put into the channel once, after the reader has ended, and the
\* dispatcher keeps the order.
LEMMA ExitInvStep ==
  ASSUME SpawnTypeOK, ExitInv, [Next]_vars
  PROVE  ExitInv'
<1>1. DriverTypeOK /\ raw \in Seq(Inbound) /\ seen \in Seq(Inbound)
  BY DEF SpawnTypeOK, DriverTypeOK
<1>2. CASE UNCHANGED <<seen, raw, reader, monitor, termination>>
  BY <1>2 DEF ExitInv, NoExit, ExitEnds
<1>3. CASE ReaderEnds \/ MonitorPolls
  <2>1. /\ UNCHANGED <<seen, raw, termination>> /\ (reader'.on => reader.on)
        /\ monitor' # "done" => monitor # "done"
    BY <1>1, <1>3 DEF ReaderEnds, MonitorPolls, exiting, channel, reading, DriverTypeOK
  <2> QED BY <2>1 DEF ExitInv, NoExit, ExitEnds
<1>4. CASE PublishExit
  <2>1. termination = "none" /\ NoExit(seen) /\ NoExit(raw)
    BY <1>4 DEF PublishExit, ExitInv
  <2>2. raw' = Append(raw, Frame("exited", "none")) /\ UNCHANGED <<seen, reader>>
    BY <1>4 DEF PublishExit, reading
  <2>3. Frame("exited", "none").kind = "exited"
    BY DEF Frame
  <2>4. ExitEnds(raw')
    BY <1>1, <2>1, <2>2, <2>3, FrameKinds, NoExitAppend
  <2>5. NoExit(seen)'
    BY <2>1, <2>2 DEF NoExit
  <2> QED BY <1>4, <2>4, <2>5 DEF PublishExit, ExitInv, reading, ExitEnds
<1>5. CASE ReadFrame
  <2>1. reader.on /\ UNCHANGED <<seen, monitor, termination>>
    BY <1>1, <1>5, FrameRead
  <2>2. ASSUME NoExit(raw) PROVE NoExit(raw')
    <3>1. PICK f \in Frames :
            \/ raw' = Append(raw, f)
            \/ \E m \in Inbound : /\ raw' = Append(Append(raw, m), f)
                                  /\ m.kind \in {"turn.started", "turn.completed"}
      BY <1>1, <1>5, FrameRead
    <3>2. f \in Inbound /\ f.kind # "exited"
      BY FrameKinds
    <3>3. CASE raw' = Append(raw, f)
      BY <1>1, <2>2, <3>2, <3>3, NoExitAppend
    <3>4. ASSUME NEW m \in Inbound, raw' = Append(Append(raw, m), f),
                 m.kind \in {"turn.started", "turn.completed"}
          PROVE  NoExit(raw')
      <4>1. Append(raw, m) \in Seq(Inbound)
        BY <1>1, AppendFrames
      <4>2. NoExit(Append(raw, m))
        BY <1>1, <2>2, <3>4, NoExitAppend
      <4> QED BY <3>2, <3>4, <4>1, <4>2, NoExitAppend, Zenon
    <3> QED BY <3>1, <3>3, <3>4
  <2>3. NoExit(seen)' = NoExit(seen) /\ NoExit(raw') = NoExit(raw)'
    BY <2>1 DEF NoExit
  <2> QED BY <2>1, <2>2, <2>3 DEF ExitInv
<1>6. CASE Dispatch
  <2>1. /\ raw # <<>> /\ raw' = Tail(raw) /\ UNCHANGED <<reader, monitor, termination>>
        /\ \/ seen' = Append(seen, Head(raw))
           \/ /\ Head(raw).kind = "response" /\ Head(raw).id \in Requests
              /\ \/ seen' = seen
                 \/ seen' = Append(seen, Frame("unmatched", Head(raw).id))
    BY <1>1, <1>6, Dispatched
  <2>2. Head(raw) \in Inbound
    BY <1>1, <2>1, TailFrames
  <2>3. Head(raw).kind = "response" => /\ Frame("unmatched", Head(raw).id) \in Inbound
                                       /\ Frame("unmatched", Head(raw).id).kind # "exited"
    BY <2>2, FrameKinds DEF Frame
  <2>4. ASSUME NoExit(seen), Head(raw).kind # "exited" PROVE NoExit(seen')
    BY <1>1, <2>1, <2>2, <2>3, <2>4, NoExitAppend, Zenon
  <2>5. ASSUME NoExit(seen), Head(raw).kind = "exited" PROVE ExitEnds(seen')
    BY <1>1, <2>1, <2>2, <2>5, NoExitAppend, Zenon
  <2>6. /\ NoExit(raw) => NoExit(raw') /\ Head(raw).kind # "exited"
        /\ ExitEnds(raw) => \/ raw' = <<>> /\ Head(raw).kind = "exited"
                            \/ ExitEnds(raw') /\ Head(raw).kind # "exited"
    BY <1>1, <2>1, ExitTail
  <2>7. /\ NoExit(seen') = NoExit(seen)' /\ ExitEnds(seen') = ExitEnds(seen)'
        /\ NoExit(raw') = NoExit(raw)' /\ ExitEnds(raw') = ExitEnds(raw)'
    BY DEF NoExit, ExitEnds
  <2> QED BY <2>1, <2>4, <2>5, <2>6, <2>7 DEF ExitInv
<1> QED BY <1>2, <1>3, <1>4, <1>5, <1>6, StreamCases

\* The subscriber sees the exit last.
LEMMA ExitInvImplies ==
  ASSUME SpawnTypeOK, ExitInv
  PROVE  ExitIsLast
<1> DEFINE stream == seen \o raw
           exits == {i \in 1..Len(stream) : stream[i].kind = "exited"}
<1> SUFFICES ASSUME termination = "ordered" PROVE exits = {Len(stream)}
  BY DEF ExitIsLast
<1>1. raw \in Seq(Inbound) /\ seen \in Seq(Inbound) /\ Len(raw) \in Nat /\ Len(seen) \in Nat
  BY ConcatFrames DEF SpawnTypeOK, DriverTypeOK
<1>2. /\ Len(stream) = Len(seen) + Len(raw)
      /\ \A i \in 1..Len(seen) + Len(raw) :
           stream[i] = IF i <= Len(seen) THEN seen[i] ELSE raw[i - Len(seen)]
  BY <1>1, ConcatFrames
<1> HIDE DEF stream
<1>3. CASE NoExit(seen) /\ ExitEnds(raw)
  <2>1. /\ \A i \in 1..Len(seen) : seen[i].kind # "exited"
        /\ Len(raw) > 0 /\ raw[Len(raw)].kind = "exited"
        /\ \A i \in 1..Len(raw) - 1 : raw[i].kind # "exited"
    BY <1>3 DEF NoExit, ExitEnds
  <2>2. ASSUME NEW i \in 1..Len(stream) PROVE stream[i].kind = "exited" <=> i = Len(stream)
    <3>1. CASE i <= Len(seen)
      BY <1>1, <1>2, <2>1, <3>1
    <3>2. CASE i > Len(seen)
      <4>1. i - Len(seen) \in 1..Len(raw) /\ stream[i] = raw[i - Len(seen)]
        BY <1>1, <1>2, <3>2
      <4>2. \A j \in 1..Len(raw) : raw[j].kind = "exited" <=> j = Len(raw)
        BY <1>1, <2>1
      <4>3. i - Len(seen) = Len(raw) <=> i = Len(stream)
        BY <1>1, <1>2
      <4> QED BY <4>1, <4>2, <4>3, Zenon
    <3> QED BY <1>1, <3>1, <3>2
  <2> QED BY <1>1, <1>2, <2>1, <2>2
<1>4. CASE ExitEnds(seen) /\ raw = <<>>
  <2>1. Len(raw) = 0
    BY <1>4, EmptyFrames
  <2> QED BY <1>1, <1>2, <1>4, <2>1 DEF ExitEnds
<1> QED BY <1>3, <1>4 DEF ExitInv


\* A turn is open before frame j, if one was open (or not) before the first.
OpenAt(frames, j, open) ==
  \/ InTurn(frames, j)
  \/ open /\ \A k \in 1..j - 1 : frames[k].id # "InOrder"

Alternates(frames, open) ==
  \A j \in 1..Len(frames) : frames[j].id = "InOrder" =>
    /\ frames[j].kind \in {"turn.started", "turn.completed"}
    /\ (frames[j].kind = "turn.started") = ~OpenAt(frames, j, open)

\* The reader's flag is what a subscriber that has seen everything knows.
SeenOpen == OpenAt(seen, Len(seen) + 1, FALSE)
TurnInv ==
  /\ Alternates(seen, FALSE)
  /\ Alternates(raw, SeenOpen)
  /\ reader.turn_active <=> OpenAt(raw, Len(raw) + 1, SeenOpen)

Begins(f) == f = Frame("turn.started", "InOrder")

\* Only a mark of a turn begins one.
LEMMA Marks ==
  /\ \A f \in Inbound : f.id = "InOrder" => (Begins(f) <=> f.kind = "turn.started")
  /\ \A f \in Inbound : f.id # "InOrder" => ~Begins(f)
BY DEF Begins, Frame, Inbound, Frames, Events

\* A frame at the end does not change what was open before it, and decides
\* what is open after it.
LEMMA OpenAppend ==
  ASSUME NEW s \in Seq(Inbound), NEW f \in Inbound, NEW open
  PROVE  /\ \A j \in 1..Len(s) + 1 : OpenAt(Append(s, f), j, open) <=> OpenAt(s, j, open)
         /\ f.id = "InOrder" => (OpenAt(Append(s, f), Len(s) + 2, open) <=> Begins(f))
         /\ f.id # "InOrder" => (OpenAt(Append(s, f), Len(s) + 2, open) <=> OpenAt(s, Len(s) + 1, open))
<1> DEFINE t == Append(s, f)
<1>1. /\ Len(t) = Len(s) + 1 /\ Len(s) \in Nat /\ t[Len(s) + 1] = f
      /\ \A i \in 1..Len(s) : t[i] = s[i]
  BY AppendFrames
<1> HIDE DEF t
<1>2. ASSUME NEW j \in 1..Len(s) + 1 PROVE OpenAt(t, j, open) <=> OpenAt(s, j, open)
  <2>1. \A i \in 1..j - 1 : i \in 1..Len(s) /\ t[i] = s[i]
    BY <1>1
  <2>2. \A i \in 1..j - 1 : \A k \in i + 1..j - 1 : k \in 1..j - 1
    BY <1>1
  <2> QED BY <2>1, <2>2 DEF OpenAt, InTurn
<1>3. ASSUME f.id = "InOrder" PROVE OpenAt(t, Len(s) + 2, open) <=> Begins(f)
  <2>1. Len(s) + 1 \in 1..(Len(s) + 2) - 1 /\ t[Len(s) + 1].id = "InOrder"
    BY <1>1, <1>3
  <2>2. \A i \in 1..(Len(s) + 2) - 1 : i # Len(s) + 1 => Len(s) + 1 \in i + 1..(Len(s) + 2) - 1
    BY <1>1
  <2>3. \A k \in (Len(s) + 1) + 1..(Len(s) + 2) - 1 : FALSE
    BY <1>1
  <2> QED BY <1>1, <2>1, <2>2, <2>3 DEF OpenAt, InTurn, Begins
<1>4. ASSUME f.id # "InOrder" PROVE OpenAt(t, Len(s) + 2, open) <=> OpenAt(s, Len(s) + 1, open)
  <2>1. OpenAt(t, Len(s) + 1, open) <=> OpenAt(s, Len(s) + 1, open)
    BY <1>1, <1>2
  <2>2. ~Begins(f)
    BY <1>4, Marks
  <2>3. \A i \in 1..(Len(s) + 2) - 1 : i = Len(s) + 1 \/ i \in 1..(Len(s) + 1) - 1
    BY <1>1
  <2>4. \A i \in 1..(Len(s) + 1) - 1 : i \in 1..(Len(s) + 2) - 1
    BY <1>1
  <2>5. \A i \in 1..(Len(s) + 1) - 1 :
          (\A k \in i + 1..(Len(s) + 2) - 1 : t[k].id # "InOrder")
            <=> (\A k \in i + 1..(Len(s) + 1) - 1 : t[k].id # "InOrder")
    BY <1>1, <1>4
  <2>6. InTurn(t, Len(s) + 2) <=> InTurn(t, Len(s) + 1)
    BY <1>1, <2>2, <2>3, <2>4, <2>5 DEF InTurn, Begins
  <2>7. (\A k \in 1..(Len(s) + 2) - 1 : t[k].id # "InOrder")
            <=> (\A k \in 1..(Len(s) + 1) - 1 : t[k].id # "InOrder")
    BY <1>1, <1>4
  <2> QED BY <2>1, <2>6, <2>7 DEF OpenAt
<1> QED BY <1>2, <1>3, <1>4 DEF t

\* Without its first frame a stream begins with what that frame has opened.
LEMMA OpenTail ==
  ASSUME NEW s \in Seq(Inbound), s # <<>>, NEW open, NEW after,
         Head(s).id = "InOrder" => (after <=> Begins(Head(s))),
         Head(s).id # "InOrder" => (after <=> open)
  PROVE  \A j \in 1..Len(s) : OpenAt(Tail(s), j, after) <=> OpenAt(s, j + 1, open)
<1> DEFINE t == Tail(s)
<1>1. /\ Head(s) \in Inbound /\ Head(s) = s[1] /\ Len(s) \in Nat /\ Len(s) > 0
      /\ \A i \in 1..Len(s) - 1 : t[i] = s[i + 1]
  BY TailFrames
<1> HIDE DEF t
<1> SUFFICES ASSUME NEW j \in 1..Len(s) PROVE OpenAt(t, j, after) <=> OpenAt(s, j + 1, open)
  BY DEF t
<1>2. \A i \in 1..j - 1 : t[i] = s[i + 1]
  BY <1>1
<1>3. ASSUME NEW i \in 1..j - 1
      PROVE  (\A k \in i + 1..j - 1 : t[k].id # "InOrder")
               <=> (\A k \in (i + 1) + 1..(j + 1) - 1 : s[k].id # "InOrder")
  <2>1. ASSUME \A k \in i + 1..j - 1 : t[k].id # "InOrder", NEW k \in (i + 1) + 1..(j + 1) - 1
        PROVE  s[k].id # "InOrder"
    <3>1. k - 1 \in i + 1..j - 1 /\ k - 1 \in 1..j - 1 /\ (k - 1) + 1 = k
      BY <1>1
    <3>2. t[k - 1] = s[(k - 1) + 1]
      BY <1>2, <3>1
    <3> QED BY <2>1, <3>1, <3>2, Zenon
  <2>2. ASSUME \A k \in (i + 1) + 1..(j + 1) - 1 : s[k].id # "InOrder", NEW k \in i + 1..j - 1
        PROVE  t[k].id # "InOrder"
    <3>1. k + 1 \in (i + 1) + 1..(j + 1) - 1 /\ k \in 1..j - 1
      BY <1>1
    <3> QED BY <1>2, <2>2, <3>1
  <2> QED BY <2>1, <2>2
<1>4. (\A k \in 1..j - 1 : t[k].id # "InOrder") <=> (\A k \in 1 + 1..(j + 1) - 1 : s[k].id # "InOrder")
  <2>1. ASSUME \A k \in 1..j - 1 : t[k].id # "InOrder", NEW k \in 1 + 1..(j + 1) - 1
        PROVE  s[k].id # "InOrder"
    <3>1. k - 1 \in 1..j - 1 /\ (k - 1) + 1 = k
      BY <1>1
    <3>2. t[k - 1] = s[(k - 1) + 1]
      BY <1>2, <3>1
    <3> QED BY <2>1, <3>1, <3>2
  <2>2. ASSUME \A k \in 1 + 1..(j + 1) - 1 : s[k].id # "InOrder", NEW k \in 1..j - 1
        PROVE  t[k].id # "InOrder"
    <3>1. k + 1 \in 1 + 1..(j + 1) - 1
      BY <1>1
    <3> QED BY <1>2, <2>2, <3>1, Zenon
  <2> QED BY <2>1, <2>2
<1>5. InTurn(s, j + 1) <=> \/ InTurn(t, j)
                           \/ Begins(s[1]) /\ \A k \in 1..j - 1 : t[k].id # "InOrder"
  <2>1. ASSUME InTurn(t, j) PROVE InTurn(s, j + 1)
    <3>1. PICK i \in 1..j - 1 : Begins(t[i]) /\ \A k \in i + 1..j - 1 : t[k].id # "InOrder"
      BY <2>1 DEF InTurn, Begins
    <3>2. i + 1 \in 1..(j + 1) - 1
      BY <1>1
    <3> QED BY <1>2, <1>3, <3>1, <3>2, Zenon DEF InTurn, Begins
  <2>2. ASSUME Begins(s[1]), \A k \in 1..j - 1 : t[k].id # "InOrder" PROVE InTurn(s, j + 1)
    <3>1. 1 \in 1..(j + 1) - 1
      BY <1>1
    <3> QED BY <1>4, <2>2, <3>1 DEF InTurn, Begins
  <2>3. ASSUME InTurn(s, j + 1)
        PROVE  InTurn(t, j) \/ (Begins(s[1]) /\ \A k \in 1..j - 1 : t[k].id # "InOrder")
    <3>1. PICK i \in 1..(j + 1) - 1 : Begins(s[i]) /\ \A k \in i + 1..(j + 1) - 1 : s[k].id # "InOrder"
      BY <2>3 DEF InTurn, Begins
    <3>2. CASE i = 1
      BY <1>4, <3>1, <3>2
    <3>3. CASE i # 1
      <4>1. i - 1 \in 1..j - 1 /\ (i - 1) + 1 = i
        BY <1>1, <3>3
      <4>2. Begins(t[i - 1]) /\ \A k \in (i - 1) + 1..j - 1 : t[k].id # "InOrder"
        BY <1>2, <1>3, <3>1, <4>1, Zenon
      <4> QED BY <4>1, <4>2 DEF InTurn, Begins
    <3> QED BY <3>2, <3>3
  <2> QED BY <2>1, <2>2, <2>3
<1>6. (\A k \in 1..(j + 1) - 1 : s[k].id # "InOrder")
        <=> s[1].id # "InOrder" /\ \A k \in 1..j - 1 : t[k].id # "InOrder"
  <2>1. 1 \in 1..(j + 1) - 1 /\ \A k \in 1..(j + 1) - 1 : k = 1 \/ k \in 1 + 1..(j + 1) - 1
    BY <1>1
  <2>2. \A k \in 1 + 1..(j + 1) - 1 : k \in 1..(j + 1) - 1
    BY <1>1
  <2> QED BY <1>4, <2>1, <2>2
<1>7. Begins(s[1]) => s[1].id = "InOrder"
  BY DEF Begins, Frame
<1> QED BY <1>1, <1>5, <1>6, <1>7 DEF OpenAt

\* A mark that fits the last one keeps the turns alternating.
LEMMA AlternatesAppend ==
  ASSUME NEW s \in Seq(Inbound), NEW f \in Inbound, NEW open, Alternates(s, open),
         f.id = "InOrder" => (f.kind = "turn.started") = ~OpenAt(s, Len(s) + 1, open)
  PROVE  Alternates(Append(s, f), open)
<1>1. /\ Len(Append(s, f)) = Len(s) + 1 /\ Len(s) \in Nat /\ Append(s, f)[Len(s) + 1] = f
      /\ \A i \in 1..Len(s) : Append(s, f)[i] = s[i]
  BY AppendFrames
<1>2. f.id = "InOrder" => f.kind \in {"turn.started", "turn.completed"}
  BY FrameKinds
<1>3. \A j \in 1..Len(s) + 1 : OpenAt(Append(s, f), j, open) <=> OpenAt(s, j, open)
  BY OpenAppend, Zenon
<1>4. Len(s) + 1 \in 1..Len(s) + 1
      /\ \A j \in 1..Len(s) + 1 : j = Len(s) + 1 \/ j \in 1..Len(s)
  BY <1>1
<1> SUFFICES ASSUME NEW j \in 1..Len(s) + 1, Append(s, f)[j].id = "InOrder"
             PROVE  /\ Append(s, f)[j].kind \in {"turn.started", "turn.completed"}
                    /\ (Append(s, f)[j].kind = "turn.started") = ~OpenAt(Append(s, f), j, open)
  BY <1>1 DEF Alternates
<1>5. CASE j = Len(s) + 1
  BY <1>1, <1>2, <1>3, <1>4, <1>5, Zenon
<1>6. CASE j \in 1..Len(s)
  BY <1>1, <1>3, <1>6, Zenon DEF Alternates
<1> QED BY <1>4, <1>5, <1>6

\* The rest of an alternating stream alternates.
LEMMA AlternatesTail ==
  ASSUME NEW s \in Seq(Inbound), s # <<>>, NEW open, NEW after,
         Head(s).id = "InOrder" => (after <=> Begins(Head(s))),
         Head(s).id # "InOrder" => (after <=> open),
         Alternates(s, open)
  PROVE  /\ Alternates(Tail(s), after)
         /\ Head(s).id = "InOrder" => (Head(s).kind = "turn.started") = ~OpenAt(s, 1, open)
<1>1. /\ Head(s) = s[1] /\ Len(s) \in Nat /\ Len(s) > 0 /\ Len(Tail(s)) = Len(s) - 1
      /\ \A i \in 1..Len(s) - 1 : Tail(s)[i] = s[i + 1]
  BY TailFrames
<1>2. 1 \in 1..Len(s) /\ \A j \in 1..Len(s) - 1 : j \in 1..Len(s) /\ j + 1 \in 1..Len(s)
  BY <1>1
<1>3. \A j \in 1..Len(s) : OpenAt(Tail(s), j, after) <=> OpenAt(s, j + 1, open)
  BY OpenTail, Zenon
<1>4. ASSUME NEW j \in 1..Len(Tail(s)), Tail(s)[j].id = "InOrder"
      PROVE  /\ Tail(s)[j].kind \in {"turn.started", "turn.completed"}
             /\ (Tail(s)[j].kind = "turn.started") = ~OpenAt(Tail(s), j, after)
  <2>1. j \in 1..Len(s) /\ j + 1 \in 1..Len(s) /\ Tail(s)[j] = s[j + 1]
    BY <1>1, <1>2
  <2>2. /\ s[j + 1].kind \in {"turn.started", "turn.completed"}
        /\ (s[j + 1].kind = "turn.started") = ~OpenAt(s, j + 1, open)
    BY <1>4, <2>1, Zenon DEF Alternates
  <2> QED BY <1>3, <2>1, <2>2, Zenon
<1>5. Head(s).id = "InOrder" => (Head(s).kind = "turn.started") = ~OpenAt(s, 1, open)
  BY <1>1, <1>2, Zenon DEF Alternates
<1> QED BY <1>4, <1>5 DEF Alternates

\* before the first frame of a stream, what is open is what was open
LEMMA OpenFirst ==
  ASSUME NEW s, NEW open
  PROVE  OpenAt(s, 1, open) <=> open
<1>1. \A k \in 1..1 - 1 : FALSE
  OBVIOUS
<1> QED BY <1>1, Zenon DEF OpenAt, InTurn

\* A frame that is no mark may come at the end of the channel.
LEMMA TurnQuiet ==
  ASSUME NEW s \in Seq(Inbound), NEW f \in Inbound, NEW open, f.id # "InOrder",
         Alternates(s, open)
  PROVE  /\ Alternates(Append(s, f), open)
         /\ OpenAt(Append(s, f), Len(Append(s, f)) + 1, open) <=> OpenAt(s, Len(s) + 1, open)
<1>1. Len(Append(s, f)) + 1 = Len(s) + 2
  BY AppendFrames
<1>2. OpenAt(Append(s, f), Len(s) + 2, open) <=> OpenAt(s, Len(s) + 1, open)
  BY OpenAppend
<1> QED BY <1>1, <1>2, AlternatesAppend, Zenon

\* A mark that fits what is open keeps the turns alternating and decides what is open.
LEMMA TurnMark ==
  ASSUME NEW s \in Seq(Inbound), NEW f \in Inbound, NEW open, f.id = "InOrder",
         Alternates(s, open), (f.kind = "turn.started") = ~OpenAt(s, Len(s) + 1, open)
  PROVE  /\ Alternates(Append(s, f), open)
         /\ OpenAt(Append(s, f), Len(Append(s, f)) + 1, open) <=> f.kind = "turn.started"
<1>1. Len(Append(s, f)) + 1 = Len(s) + 2
  BY AppendFrames
<1>2. OpenAt(Append(s, f), Len(s) + 2, open) <=> Begins(f)
  BY OpenAppend
<1>3. Begins(f) <=> f.kind = "turn.started"
  BY Marks
<1> QED BY <1>1, <1>2, <1>3, AlternatesAppend, Zenon

\* The marks of the reader alternate, and the dispatcher keeps their order.
LEMMA TurnInvStep ==
  ASSUME SpawnTypeOK, TurnInv, [Next]_vars
  PROVE  TurnInv'
<1> DEFINE after == OpenAt(seen', Len(seen') + 1, FALSE)
<1>1. /\ DriverTypeOK /\ raw \in Seq(Inbound) /\ seen \in Seq(Inbound)
      /\ reader.turn_active \in BOOLEAN
  BY SMTT(30) DEF SpawnTypeOK, DriverTypeOK
<1> SUFFICES /\ Alternates(seen', FALSE)
             /\ Alternates(raw', after)
             /\ reader'.turn_active <=> OpenAt(raw', Len(raw') + 1, after)
  BY Zenon DEF TurnInv, SeenOpen, Alternates, OpenAt, InTurn
<1>2. /\ Alternates(seen, FALSE) /\ Alternates(raw, SeenOpen)
      /\ reader.turn_active <=> OpenAt(raw, Len(raw) + 1, SeenOpen)
  BY Zenon DEF TurnInv
<1>3. seen' = seen => after = SeenOpen /\ Alternates(seen', FALSE)
  BY <1>2, Zenon DEF SeenOpen
<1> HIDE DEF after
<1>4. CASE UNCHANGED <<seen, raw, reader, monitor, termination>> \/ ReaderEnds \/ MonitorPolls
  <2>1. UNCHANGED <<seen, raw>> /\ reader'.turn_active = reader.turn_active
    BY <1>1, <1>4 DEF ReaderEnds, MonitorPolls, channel, reading, DriverTypeOK
  <2> QED BY <1>2, <1>3, <2>1, Zenon
<1>5. CASE PublishExit
  <2>1. raw' = Append(raw, Frame("exited", "none")) /\ UNCHANGED <<seen, reader>>
    BY <1>5 DEF PublishExit, reading
  <2>2. Frame("exited", "none") \in Inbound /\ Frame("exited", "none").id # "InOrder"
    BY FrameKinds DEF Frame
  <2>3. /\ Alternates(raw', SeenOpen)
        /\ OpenAt(raw', Len(raw') + 1, SeenOpen) <=> OpenAt(raw, Len(raw) + 1, SeenOpen)
    BY <1>1, <1>2, <2>1, <2>2, TurnQuiet, Zenon
  <2> QED BY <1>2, <1>3, <2>1, <2>3, Zenon
<1>6. CASE ReadFrame
  <2>1. seen' = seen
    BY <1>1, <1>6, FrameRead
  <2>2. PICK f \in Frames :
          \/ raw' = Append(raw, f) /\ reader'.turn_active = reader.turn_active
          \/ \E m \in Inbound :
               /\ raw' = Append(Append(raw, m), f)
               /\ m.id = "InOrder" => /\ (m.kind = "turn.started") = ~reader.turn_active
                                      /\ reader'.turn_active = (m.kind = "turn.started")
               /\ m.id # "InOrder" => reader'.turn_active = reader.turn_active
    BY <1>1, <1>6, FrameRead
  <2>3. f \in Inbound /\ f.id # "InOrder"
    BY FrameKinds
  <2>4. CASE raw' = Append(raw, f) /\ reader'.turn_active = reader.turn_active
    <3>1. /\ Alternates(raw', SeenOpen)
          /\ OpenAt(raw', Len(raw') + 1, SeenOpen) <=> OpenAt(raw, Len(raw) + 1, SeenOpen)
      BY <1>1, <1>2, <2>3, <2>4, TurnQuiet, Zenon
    <3> QED BY <1>2, <1>3, <2>1, <2>4, <3>1, Zenon
  <2>5. ASSUME NEW m \in Inbound, raw' = Append(Append(raw, m), f),
               m.id = "InOrder" => /\ (m.kind = "turn.started") = ~reader.turn_active
                                   /\ reader'.turn_active = (m.kind = "turn.started"),
               m.id # "InOrder" => reader'.turn_active = reader.turn_active
        PROVE  /\ Alternates(raw', SeenOpen)
               /\ reader'.turn_active <=> OpenAt(raw', Len(raw') + 1, SeenOpen)
    <3> DEFINE t == Append(raw, m)
    <3>1. t \in Seq(Inbound)
      BY <1>1, AppendFrames
    <3>2. Alternates(t, SeenOpen) /\ (reader'.turn_active <=> OpenAt(t, Len(t) + 1, SeenOpen))
      <4>1. CASE m.id = "InOrder"
        <5>1. (m.kind = "turn.started") = ~OpenAt(raw, Len(raw) + 1, SeenOpen)
          BY <1>1, <1>2, <2>5, <4>1
        <5>2. Alternates(t, SeenOpen) /\ (OpenAt(t, Len(t) + 1, SeenOpen) <=> m.kind = "turn.started")
          BY <1>1, <1>2, <4>1, <5>1, TurnMark, Zenon
        <5> QED BY <2>5, <4>1, <5>2, Zenon
      <4>2. CASE m.id # "InOrder"
        <5>1. /\ Alternates(t, SeenOpen)
              /\ OpenAt(t, Len(t) + 1, SeenOpen) <=> OpenAt(raw, Len(raw) + 1, SeenOpen)
          BY <1>1, <1>2, <4>2, TurnQuiet, Zenon
        <5> QED BY <1>2, <2>5, <4>2, <5>1
      <4> QED BY <4>1, <4>2
    <3> HIDE DEF t
    <3>3. raw' = Append(t, f)
      BY <2>5 DEF t
    <3>4. /\ Alternates(raw', SeenOpen)
          /\ OpenAt(raw', Len(raw') + 1, SeenOpen) <=> OpenAt(t, Len(t) + 1, SeenOpen)
      BY <2>3, <3>1, <3>2, <3>3, TurnQuiet, ZenonT(40)
    <3> QED BY <3>2, <3>4
  <2> QED BY <1>3, <2>1, <2>2, <2>4, <2>5, Zenon
<1>7. CASE Dispatch
  <2> DEFINE h == Head(raw)
  <2>1. /\ raw # <<>> /\ raw' = Tail(raw) /\ reader' = reader
        /\ \/ seen' = Append(seen, h)
           \/ /\ h.kind = "response" /\ h.id \in Requests
              /\ seen' = seen \/ seen' = Append(seen, Frame("unmatched", h.id))
    BY <1>1, <1>7, Dispatched
  <2>2. h \in Inbound /\ Len(Tail(raw)) + 1 = Len(raw) /\ Len(raw) \in 1..Len(raw)
    BY <1>1, <2>1, TailFrames
  <2>3. h.id = "InOrder" => (h.kind = "turn.started") = ~OpenAt(seen, Len(seen) + 1, FALSE)
    <3>1. h.id = "InOrder" => (h.kind = "turn.started") = ~OpenAt(raw, 1, SeenOpen)
      <4>1. 1 \in 1..Len(raw) /\ raw[1] = h
        BY <1>1, <2>1, TailFrames
      <4> QED BY <1>2, <4>1, Zenon DEF Alternates
    <3>2. OpenAt(raw, 1, SeenOpen) <=> SeenOpen
      BY OpenFirst
    <3> QED BY <3>1, <3>2, Zenon DEF SeenOpen
  <2> HIDE DEF h
  <2>4. /\ Alternates(seen', FALSE)
        /\ h.id = "InOrder" => (after <=> Begins(h))
        /\ h.id # "InOrder" => (after <=> SeenOpen)
    <3>1. ASSUME NEW f \in Inbound, f.id # "InOrder", seen' = Append(seen, f)
          PROVE  Alternates(seen', FALSE) /\ (after <=> SeenOpen)
      BY <1>1, <1>2, <3>1, TurnQuiet, Zenon DEF after, SeenOpen
    <3>2. CASE h.id = "InOrder" /\ seen' = Append(seen, h)
      <4>1. Alternates(seen', FALSE) /\ (after <=> h.kind = "turn.started")
        BY <1>1, <1>2, <2>2, <2>3, <3>2, TurnMark, Zenon DEF after
      <4>2. Begins(h) <=> h.kind = "turn.started"
        BY <2>2, <3>2, Marks
      <4> QED BY <3>2, <4>1, <4>2, Zenon
    <3>3. CASE h.id # "InOrder" /\ seen' = Append(seen, h)
      BY <2>2, <3>1, <3>3, Zenon
    <3>4. ASSUME h.kind = "response", h.id \in Requests,
                 seen' = seen \/ seen' = Append(seen, Frame("unmatched", h.id))
          PROVE  h.id # "InOrder" /\ Alternates(seen', FALSE) /\ (after <=> SeenOpen)
      <4>1. h.id # "InOrder"
        BY <3>4, DriverAssumption
      <4>2. Frame("unmatched", h.id) \in Inbound /\ Frame("unmatched", h.id).id # "InOrder"
        BY <2>2, <3>4, <4>1, FrameKinds, SMTT(30) DEF Frame
      <4>3. CASE seen' = seen
        <5>1. after = SeenOpen /\ Alternates(seen', FALSE)
          BY <1>3, <4>3, Zenon
        <5> QED BY <4>1, <5>1, Zenon
      <4>4. CASE seen' = Append(seen, Frame("unmatched", h.id))
        BY <3>1, <4>1, <4>2, <4>4, Zenon
      <4> QED BY <3>4, <4>3, <4>4, Zenon
    <3> QED BY <2>1, <3>2, <3>3, <3>4, Zenon
  <2>5. Alternates(Tail(raw), after)
    BY <1>1, <1>2, <2>1, <2>4, AlternatesTail, ZenonT(40) DEF h
  <2>6. OpenAt(Tail(raw), Len(raw), after) <=> OpenAt(raw, Len(raw) + 1, SeenOpen)
    BY <1>1, <2>1, <2>2, <2>4, OpenTail, ZenonT(40) DEF h
  <2> QED BY <1>2, <2>1, <2>2, <2>4, <2>5, <2>6, Zenon
<1> QED BY <1>4, <1>5, <1>6, <1>7, StreamCases, Zenon

\* The subscriber sees alternating turns.
LEMMA TurnInvImplies ==
  ASSUME TurnInv
  PROVE  TurnsAlternate
BY Zenon DEF TurnInv, Alternates, OpenAt, TurnsAlternate
-----------------------------------------------------------------------------
(* The invariants of the start and of the stop                             *)

(* The start                                                               *)

\* the places of spawn after the pid has been read
Told == {"observe", "register", "ACK", "NACK", "REAP", "reply", "cleanup", "ok"}

\* A runtime that was not started by a helper is there from the beginning.
Direct ==
  model # "detached" =>
    /\ spawner = "ok" /\ parent = "none" /\ helper = "none" /\ leader # "none"
    /\ identity = "runtime" /\ queue = "runtime"

\* What the daemon knows of the helper: once it has read a pid, the parent
\* half is reaped and the other half has started the runtime.
Handshaken ==
  model = "detached" =>
    /\ spawner \in Told \cup {"first"} => parent = "reaped"
    /\ spawner \in Told => helper \in {"waiting", "reaping", "gone"} /\ leader # "none"
    /\ handshake = "pid" => helper \in {"waiting", "reaping", "gone"} /\ leader # "none"
    /\ helper \in {"none", "spawning"} => leader = "none"
    /\ helper \in {"framing", "waiting", "reaping"} => leader # "none"

\* The helper protects the pid: as long as it lives no stranger has it, and
\* only an identity observed under its protection is used.
Protected ==
  model = "detached" =>
    /\ leader = "reaped" => helper = "gone" \/ spawner = "err"
    /\ recycled => leader = "reaped"
    /\ identity = "stranger" \/ queue = "stranger" => helper = "gone"
    /\ spawner \in {"register", "ACK", "cleanup", "ok"} => identity # "none"
    /\ spawner \in {"ACK", "ok"} => queue # "none"

SpawnInv == Direct /\ Handshaken /\ Protected /\ WatchesItsOwn /\ CleansUpItsOwn

(* The stop                                                                *)

\* before the driver is up nobody stops it
Quiet == ~Up => stop_state.state = "Running" /\ \A s \in Stoppers : th[s].pc = "idle"

Waiters == {s \in Stoppers : th[s].pc = "waiting"}

\* OnePerformer, thread by thread, with what a persisted group has instead
Alone ==
  /\ \A s, t \in Stoppers : th[s].pc \in Performing /\ th[t].pc \in Performing => s = t
  /\ model = "persisted" => stop_state.state = "Running"
  /\ model # "persisted" => \A s \in Stoppers : th[s].pc \in Performing =>
       stop_state.state = "Stopping" /\ th[s].generation = stop_state.generation
  /\ stop_state.state = "Stopping" => \E s \in Stoppers : th[s].pc \in Performing

Counted ==
  /\ stop_state.state = "Running" => Waiters = {}
  /\ \A s \in Waiters : stop_state.state # "Stopped" => th[s].generation = stop_state.generation
  /\ stop_state.state \in {"Stopping", "Failed"} => stop_state.waiters = Cardinality(Waiters)

\* The thread that performs holds the Child from the probe on, so that nobody
\* else reaps the leader between the observation and the signal.
Held ==
  \A s \in Stoppers :
    /\ th[s].pc = "ensure" => leader = "reaped"
    /\ OwnsChild /\ th[s].pc \in Performing \ {"probe"} => holder = s
    /\ OwnsChild /\ th[s].pc = "term" => leader # "reaped"

StopInv == Quiet /\ Alone /\ Counted /\ Held /\ StopProven
-----------------------------------------------------------------------------
(* Types                                                                   *)

\* The start keeps the types.
LEMMA SpawnType ==
  ASSUME SpawnTypeOK, Spawning \/ HelperStep \/ HelperDies
  PROVE  SpawnTypeOK'
<1> USE DEF driverVars, os, spawnVars
<1>1. /\ leader' \in {"none", "alive", "zombie", "reaped"}
      /\ signal' \in {"none", "term", "kill"}
  <2>1. CASE SpawnStep
    BY <2>1 DEF SpawnTypeOK, DriverTypeOK, SpawnStep, StartHelper, ReapParent, FirstFrame,
                ObserveRuntime, RegisterExit, Directive, ReapReply, Cleanup
  <2>2. CASE RuntimeDies \/ Recycle
    BY <2>2, SMTT(30) DEF SpawnTypeOK, DriverTypeOK, RuntimeDies, Recycle
  <2>3. CASE HelperStep \/ HelperDies
    BY <2>3 DEF SpawnTypeOK, DriverTypeOK, HelperStep, HelperDies, ParentForks, ParentExits,
                SpawnRuntime, WriteFrame, Obey, HelperReaps, Leaves
  <2> QED BY <2>1, <2>2, <2>3, SMTT(30) DEF Spawning
<1>2. DriverTypeOK'
  BY SpawnFrame, <1>1 DEF SpawnTypeOK, DriverTypeOK, stopping, exiting, reading, channel, calls
<1>3. CASE SpawnStep
  BY <1>2, <1>3 DEF SpawnTypeOK, SpawnStep, StartHelper, ReapParent, FirstFrame, Spawns, Whose,
              ObserveRuntime, RegisterExit, Directive, AfterDirective, ReapReply, Cleanup, Holder
<1>4. CASE RuntimeDies \/ Recycle
  BY <1>2, <1>4, Zenon DEF SpawnTypeOK, RuntimeDies, Recycle
<1>5. CASE HelperStep \/ HelperDies
  BY <1>2, <1>5 DEF SpawnTypeOK, HelperStep, HelperDies, ParentForks, ParentExits,
              SpawnRuntime, WriteFrame, Obey, HelperReaps, Leaves
<1> QED BY <1>3, <1>4, <1>5 DEF Spawning

-----------------------------------------------------------------------------
(* The start                                                               *)

\* A leader that is dead stays dead, and one that is reaped stays reaped.
LEMMA StopLeader ==
  ASSUME NEW s \in Stoppers, StopStep(s) \/ Call(s), leader # "none"
  PROVE  /\ leader' # "none"
         /\ leader # "alive" => leader' # "alive"
         /\ leader = "reaped" => leader' = "reaped"
         /\ kids = {} => kids' = {}
<1>1. Perform(s) \/ Join(s) \/ AlreadyStopped(s) \/ JoinedFailed(s) \/ Call(s) \/ Ensure(s)
        \/ Escalate(s) \/ Survived(s) => UNCHANGED <<leader, kids>>
  BY Zenon DEF Perform, Join, AlreadyStopped, JoinedFailed, Call, Ensure, Escalate, Survived, os
<1>2. CASE Probe(s) \/ Observe(s) \/ GroupDeath(s) \/ ReapLeader(s)
  BY <1>2, Zenon DEF Probe, Observe, GroupDeath, ReapLeader
<1>3. CASE SendTerm(s) \/ SendKill(s)
  BY <1>3 DEF SendTerm, SendKill, Signals
<1> QED BY <1>1, <1>2, <1>3 DEF StopStep

\* What a step of the driver does to the leader.
LEMMA DriverLeader ==
  ASSUME DriverNext, leader # "none"
  PROVE  /\ model' = model
         /\ leader' # "none"
         /\ leader # "alive" => leader' # "alive"
         /\ leader = "reaped" => leader' = "reaped"
         /\ leader # "alive" /\ kids = {} => kids' = {}
<1>1. CASE Outside
  BY <1>1, OutsideFrame
<1>2. CASE Threads
  <2>1. UNCHANGED <<model, kids>>
    BY <1>2, ThreadsFrame
  <2>2. leader' \in {leader, "reaped"}
    BY <1>2 DEF Threads, Dispatch, DispatcherEnds, ReadFrame, ReaderEnds, MonitorPolls,
                PublishExit, os
  <2> QED BY <2>1, <2>2
<1>3. CASE \E r \in Requests : RequestStep(r)
  BY <1>3, RequestFrame DEF os
<1>4. CASE \E s \in Stoppers : StopStep(s) \/ Call(s)
  BY <1>4, StopFrame, StopLeader, SMTT(30)
<1> QED BY <1>1, <1>2, <1>3, <1>4, DriverCases

\* Every step of the start and of the driver keeps the helper's protection.
LEMMA SpawnInvStep ==
  ASSUME SpawnTypeOK, SpawnInv, [Next]_vars
  PROVE  SpawnInv'
<1> USE DEF SpawnInv, Direct, Handshaken, Protected, WatchesItsOwn, CleansUpItsOwn, Told
<1>1. CASE UNCHANGED vars
  BY <1>1 DEF vars, driverVars, os, spawnVars
<1>2. CASE Up /\ DriverNext /\ UNCHANGED spawnVars
  <2>1. leader # "none" /\ (model = "detached" => helper = "gone")
    BY <1>2 DEF Up, SpawnTypeOK, DriverTypeOK
  <2> QED BY <1>2, <2>1, DriverLeader DEF spawnVars, Up
<1>3. ASSUME Spawning \/ HelperStep \/ HelperDies PROVE model' = model
  BY <1>3, SpawnFrame
<1>4. CASE model # "detached"
  <2>1. spawner = "ok" /\ parent = "none" /\ helper = "none" /\ Up
    BY <1>4 DEF Up
  <2>2. ~HelperStep /\ ~HelperDies
    BY <2>1, SMTT(30) DEF HelperStep, HelperDies, ParentForks, ParentExits, SpawnRuntime, WriteFrame, Obey,
                HelperReaps
  <2> QED BY <1>1, <1>2, <2>1, <2>2 DEF Next
<1>5. ASSUME model = "detached", SpawnStep PROVE SpawnInv'
  <2> USE <1>5, <1>3 DEF driverVars, os, Spawns
  <2>1. CASE StartHelper \/ ReapParent
    BY <2>1 DEF StartHelper, ReapParent, Spawning
  <2>2. CASE FirstFrame
    BY <2>2 DEF FirstFrame, Spawning
  <2>3. CASE ObserveRuntime
    BY <2>3 DEF ObserveRuntime, Holder, Spawning, SpawnTypeOK, DriverTypeOK
  <2>4. CASE RegisterExit
    BY <2>4 DEF RegisterExit, Holder, Spawning, SpawnTypeOK, DriverTypeOK
  <2>5. CASE Directive
    BY <2>5 DEF Directive, AfterDirective, CanRead, Spawning, SpawnTypeOK, DriverTypeOK, Whose
  <2>6. CASE ReapReply
    BY <2>6 DEF ReapReply, Spawning
  <2>7. CASE Cleanup
    BY <2>7 DEF Cleanup, Spawning
  <2> QED BY <2>1, <2>2, <2>3, <2>4, <2>5, <2>6, <2>7, Zenon DEF SpawnStep
<1>6. ASSUME model = "detached", ~Up, RuntimeDies \/ Recycle PROVE SpawnInv'
  BY <1>6, <1>3, SMTT(30) DEF RuntimeDies, Recycle, Spawning, spawnVars, driverVars, os
<1>7. ASSUME model = "detached", HelperStep \/ HelperDies PROVE SpawnInv'
  <2> USE <1>7, <1>3 DEF driverVars, os
  <2>1. CASE ParentForks \/ ParentExits
    BY <2>1 DEF ParentForks, ParentExits
  <2>2. CASE SpawnRuntime
    BY <2>2 DEF SpawnRuntime
  <2>3. CASE WriteFrame
    BY <2>3 DEF WriteFrame
  <2>4. CASE Obey \/ HelperDies
    BY <2>4 DEF Obey, HelperDies, Leaves
  <2>5. CASE HelperReaps
    BY <2>5 DEF HelperReaps
  <2> QED BY <2>1, <2>2, <2>3, <2>4, <2>5 DEF HelperStep
<1> QED BY <1>1, <1>2, <1>4, <1>5, <1>6, <1>7 DEF Next, Spawning
-----------------------------------------------------------------------------
(* The stop                                                                *)

\* Once the driver is up, the start is over.
LEMMA StartIsOver ==
  ASSUME SpawnInv, HelperStep \/ HelperDies
  PROVE  ~Up
BY DEF SpawnInv, Direct, Handshaken, Told, Up, HelperStep, HelperDies, ParentForks, ParentExits,
       SpawnRuntime, WriteFrame, Obey, HelperReaps

\* A thread moves alone.
LEMMA ThreadMoves ==
  ASSUME SpawnTypeOK, NEW s \in Stoppers, NEW pc, Goes(s, pc)
  PROVE  /\ th'[s].pc = pc /\ th'[s].generation = th[s].generation
         /\ \A t \in Stoppers : t # s => th'[t] = th[t]
BY DEF SpawnTypeOK, DriverTypeOK, Goes

\* A thread that calls or joins moves alone.
LEMMA ThreadCalls ==
  ASSUME SpawnTypeOK, NEW s \in Stoppers, NEW pc, NEW generation, Calls(s, pc, generation)
  PROVE  /\ th'[s].pc = pc /\ th'[s].generation = generation
         /\ \A t \in Stoppers : t # s => th'[t] = th[t]
BY DEF SpawnTypeOK, DriverTypeOK, Calls

\* The waiters change only with a thread that waits.
LEMMA WaitersStay ==
  ASSUME NEW s \in Stoppers, \A t \in Stoppers : t # s => th'[t] = th[t],
         th[s].pc # "waiting", th'[s].pc # "waiting"
  PROVE  Waiters' = Waiters
BY DEF Waiters

\* Nobody performs a stop that has ended.
LEMMA PerformerStops ==
  ASSUME SpawnTypeOK, StopInv, NEW s \in Stoppers, th[s].pc \in Performing
  PROVE  /\ \A t \in Stoppers : th[t].pc \in Performing => t = s
         /\ model # "persisted" => stop_state.state = "Stopping"
         /\ stop_state.state \in {"Running", "Stopping"}
BY DEF StopInv, Alone

\* A thread that goes on performing keeps the invariant.
LEMMA Advances ==
  ASSUME SpawnTypeOK, StopInv, Up', model' = model,
         NEW s \in Stoppers, NEW pc \in Performing \ {"probe"},
         th[s].pc \in Performing, Goes(s, pc), UNCHANGED stop_state,
         OwnsChild => holder' = s,
         pc = "ensure" => leader' = "reaped",
         OwnsChild /\ pc = "term" => leader' # "reaped"
  PROVE  StopInv'
<1>1. /\ th'[s].pc = pc /\ th'[s].generation = th[s].generation
      /\ \A t \in Stoppers : t # s => th'[t] = th[t]
  BY ThreadMoves
<1>2. Waiters' = Waiters
  BY <1>1, WaitersStay DEF Performing
<1>3. /\ \A t \in Stoppers : th[t].pc \in Performing => t = s
      /\ stop_state.state \in {"Running", "Stopping"}
  BY PerformerStops
<1>4. Alone'
  BY <1>1, <1>3 DEF StopInv, Alone
<1>5. Counted'
  BY <1>1, <1>2, Zenon DEF StopInv, Counted, Waiters
<1>6. Held'
  BY <1>1, <1>3 DEF StopInv, Held, OwnsChild, Performing
<1> QED BY <1>3, <1>4, <1>5, <1>6 DEF StopInv, Quiet, StopProven

\* A stop that ends keeps it, if success has been proved.
LEMMA Finishes ==
  ASSUME SpawnTypeOK, StopInv, Up', model' = model,
         NEW s \in Stoppers, th[s].pc \in Performing, NEW ok \in BOOLEAN, Finish(s, ok),
         ok => leader' = "reaped" /\ kids' = {}
  PROVE  StopInv'
<1>1. /\ th'[s].pc \in {"ok", "err"} /\ th'[s].generation = th[s].generation
      /\ \A t \in Stoppers : t # s => th'[t] = th[t]
  BY ThreadMoves DEF Finish
<1>2. Waiters' = Waiters
  BY <1>1, WaitersStay DEF Performing
<1>3. /\ \A t \in Stoppers : th[t].pc \in Performing => t = s
      /\ model # "persisted" => stop_state.state = "Stopping"
  BY PerformerStops
<1>4. \A t \in Stoppers : th'[t].pc \notin Performing
  BY <1>1, <1>3 DEF Performing
<1>5. /\ model = "persisted" => stop_state' = stop_state /\ stop_state.state = "Running"
      /\ model # "persisted" => /\ stop_state'.state = IF ok THEN "Stopped" ELSE "Failed"
                                /\ stop_state'.generation = stop_state.generation
                                /\ stop_state'.waiters = stop_state.waiters
  BY DEF Finish, SpawnTypeOK, DriverTypeOK, StopInv, Alone
<1>6. Alone'
  BY <1>4, <1>5 DEF Alone
<1>7. Counted'
  BY <1>1, <1>2, <1>3, <1>5, Zenon DEF StopInv, Counted, Waiters
<1>8. Held'
  BY <1>4 DEF Held, Performing
<1> QED BY <1>5, <1>6, <1>7, <1>8 DEF StopInv, Quiet, StopProven
=============================================================================
