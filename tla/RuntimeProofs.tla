---------------------------- MODULE RuntimeProofs ----------------------------
(***************************************************************************)
(* Theorems about a runtime and the threads around it (Driver), started    *)
(* directly or through the helper (OrphanSpawn), for any number of         *)
(* threads, requests and descendants: a stop that reports success has left *)
(* nothing behind and threads that stop exclude each other, callers are    *)
(* told, and no process but the runtime is recorded, watched or signalled. *)
(***************************************************************************)
EXTENDS RuntimeLemmas, FiniteSetTheorems, TLAPS

\* What holds in every state; the conjuncts are defined in RuntimeLemmas.
IInv == SpawnTypeOK /\ SpawnInv /\ StopInv /\ NoLostWaiter /\ ExitInv /\ TurnInv

\* The set of waiters is finite.
LEMMA WaitersFinite == IsFiniteSet(Waiters) /\ Cardinality(Waiters) \in Nat
<1>1. Waiters \subseteq Stoppers
  BY DEF Waiters
<1>2. IsFiniteSet(Waiters)
  BY <1>1, DriverAssumption, FS_Subset
<1> QED BY <1>2, FS_CardinalityType

\* begin_stop
LEMMA BeginStop ==
  ASSUME SpawnTypeOK, StopInv, Up', UNCHANGED <<model, os, holder>>, NEW s \in Stoppers,
         Perform(s) \/ Join(s) \/ AlreadyStopped(s) \/ JoinedFailed(s) \/ Call(s)
  PROVE  StopInv'
<1>1. CASE Perform(s)
  <2>1. th[s].pc = "idle" /\ Calls(s, "probe", stop_state'.generation)
    BY <1>1 DEF Perform, Stopping, At
  <2>2. /\ th'[s].pc = "probe" /\ th'[s].generation = stop_state'.generation
        /\ \A t \in Stoppers : t # s => th'[t] = th[t]
    BY <2>1, ThreadCalls
  <2>3. Waiters' = Waiters
    BY <2>1, <2>2, WaitersStay, SMTT(30)
  <2>4. \A t \in Stoppers : th[t].pc \notin Performing
    BY <1>1, SMTT(30) DEF Perform, StopInv, Alone
  <2>5. Waiters = {}
    <3>1. CASE stop_state.state = "Running"
      BY <3>1 DEF StopInv, Counted
    <3>2. CASE stop_state.state = "Failed" /\ stop_state.waiters = 0
      <4>1. Cardinality(Waiters) = 0
        BY <3>2 DEF StopInv, Counted
      <4> QED BY <4>1, WaitersFinite, FS_EmptySet, SMTT(30)
    <3> QED BY <1>1, <3>1, <3>2 DEF Perform, StopInv, Alone
  <2>6. /\ model = "persisted" => stop_state' = stop_state
        /\ model # "persisted" => stop_state'.state = "Stopping" /\ stop_state'.waiters = 0
    BY <1>1 DEF Perform
  <2>7. Alone'
    BY <2>2, <2>4, <2>6 DEF StopInv, Alone, Performing
  <2>8. Cardinality({}) = 0
    BY FS_EmptySet, SMTT(30)
  <2>9. Counted'
    BY <2>3, <2>5, <2>6, <2>8, SMTT(30) DEF StopInv, Counted, Alone
  <2>10. Held'
    BY <2>2, <2>4, SMTT(30) DEF StopInv, Held, OwnsChild, Performing
  <2>11. stop_state.state \in {"Running", "Failed"}
    BY <1>1, SMTT(30) DEF Perform, StopInv, Alone
  <2> QED BY <2>6, <2>7, <2>9, <2>10, <2>11 DEF StopInv, Quiet, StopProven
<1>2. CASE Join(s)
  <2>1. th[s].pc = "idle" /\ Calls(s, "waiting", stop_state.generation)
    BY <1>2, SMTT(30) DEF Join, Stopping, At
  <2>2. /\ th'[s].pc = "waiting" /\ th'[s].generation = stop_state.generation
        /\ \A t \in Stoppers : t # s => th'[t] = th[t]
    BY <2>1, ThreadCalls
  <2>3. Waiters' = Waiters \cup {s} /\ s \notin Waiters
    BY <2>1, <2>2 DEF Waiters
  <2>4. Cardinality(Waiters') = Cardinality(Waiters) + 1
    BY <2>3, WaitersFinite, FS_AddElement
  <2>5. /\ stop_state.state = "Stopping" /\ stop_state'.state = "Stopping"
        /\ stop_state'.generation = stop_state.generation
        /\ stop_state'.waiters = stop_state.waiters + 1
    BY <1>2, SMTT(30) DEF Join, SpawnTypeOK, DriverTypeOK
  <2>6. Alone'
    BY <2>1, <2>2, <2>5, SMTT(30) DEF StopInv, Alone, Performing
  <2>7. Counted'
    BY <2>2, <2>3, <2>4, <2>5, SMTT(30) DEF StopInv, Counted, Waiters
  <2>8. Held'
    BY <2>2, SMTT(30) DEF StopInv, Held, OwnsChild, Performing, os
  <2> QED BY <2>5, <2>6, <2>7, <2>8 DEF StopInv, Quiet, StopProven
<1>3. CASE AlreadyStopped(s)
  <2>1. th[s].pc \in {"idle", "waiting"} /\ stop_state.state = "Stopped" /\ stop_state' = stop_state
    BY <1>3, SMTT(30) DEF AlreadyStopped, Stopping, At
  <2>2. th'[s].pc = "ok" /\ \A t \in Stoppers : t # s => th'[t] = th[t]
    BY <1>3, ThreadMoves, Zenon DEF AlreadyStopped
  <2>3. Alone'
    BY <2>1, <2>2, Zenon DEF StopInv, Alone, Performing
  <2>4. Counted'
    BY <2>1, SMTT(30) DEF Counted
  <2>5. Held'
    BY <2>2, SMTT(30) DEF StopInv, Held, OwnsChild, Performing, os
  <2> QED BY <2>1, <2>3, <2>4, <2>5, SMTT(30) DEF StopInv, Quiet, StopProven, os
<1>4. CASE JoinedFailed(s)
  <2>1. th[s].pc = "waiting" /\ stop_state.state = "Failed"
    BY <1>4 DEF JoinedFailed, At
  <2>2. th'[s].pc = "err" /\ \A t \in Stoppers : t # s => th'[t] = th[t]
    BY <1>4, ThreadMoves DEF JoinedFailed
  <2>3. Waiters' = Waiters \ {s} /\ s \in Waiters
    BY <2>1, <2>2 DEF Waiters
  <2>4. Cardinality(Waiters') = Cardinality(Waiters) - 1
    BY <2>3, WaitersFinite, FS_RemoveElement, SMTT(30)
  <2>5. /\ stop_state'.state = "Failed"
        /\ stop_state'.generation = stop_state.generation
        /\ stop_state'.waiters = stop_state.waiters - 1
    BY <1>4, <2>1 DEF JoinedFailed, SpawnTypeOK, DriverTypeOK
  <2>6. Alone'
    BY <2>1, <2>2, <2>5, SMTT(30) DEF StopInv, Alone, Performing
  <2>7. Counted'
    BY <2>1, <2>2, <2>3, <2>4, <2>5, SMTT(30) DEF StopInv, Counted, Waiters
  <2>8. Held'
    BY <2>2, SMTT(30) DEF StopInv, Held, OwnsChild, Performing, os
  <2> QED BY <2>5, <2>6, <2>7, <2>8, Zenon DEF StopInv, Quiet, StopProven
<1>5. CASE Call(s)
  <2>1. th[s].pc \in {"idle", "ok", "err"} /\ stop_state' = stop_state
    BY <1>5, SMTT(30) DEF Call, At
  <2>2. th'[s].pc = "idle" /\ \A t \in Stoppers : t # s => th'[t] = th[t]
    BY <1>5 DEF Call, SpawnTypeOK, DriverTypeOK
  <2>3. Waiters' = Waiters
    BY <2>1, <2>2, WaitersStay, SMTT(30)
  <2>4. Alone'
    BY <2>1, <2>2, SMTT(30) DEF StopInv, Alone, Performing
  <2>5. Counted'
    BY <2>1, <2>2, <2>3, Zenon DEF StopInv, Counted, Waiters
  <2>6. Held'
    BY <2>2 DEF StopInv, Held, OwnsChild, Performing, os
  <2> QED BY <2>1, <2>4, <2>5, <2>6, SMTT(30) DEF StopInv, Quiet, StopProven, os
<1> QED BY <1>1, <1>2, <1>3, <1>4, <1>5

\* perform_stop, perform_detached_stop
LEMMA PerformStop ==
  ASSUME SpawnTypeOK, StopInv, Up, Up', model' = model, leader # "none", NEW s \in Stoppers,
         \/ Probe(s) \/ Ensure(s) \/ Observe(s) \/ SendTerm(s) \/ GroupDeath(s)
         \/ ReapLeader(s) \/ Escalate(s) \/ SendKill(s) \/ Survived(s)
  PROVE  StopInv'
<1>1. th[s].pc \in Performing
  BY Zenon DEF Performing, Probe, Ensure, Observe, SendTerm, GroupDeath, ReapLeader, Escalate,
         SendKill, Survived, At
<1>2. /\ th[s].pc = "ensure" => leader = "reaped"
      /\ OwnsChild /\ th[s].pc # "probe" => holder = s
      /\ OwnsChild /\ th[s].pc = "term" => leader # "reaped"
  BY <1>1 DEF StopInv, Held
<1>3. CASE Probe(s)
  <2> DEFINE pc == CASE leader = "alive" -> "observe"
                     [] leader # "alive" /\ model = "persisted" /\ kids # {} -> "term"
                     [] OTHER -> "ensure"
  <2>1. Goes(s, pc) /\ UNCHANGED stop_state
    BY <1>3 DEF Probe
  <2>2. pc \in Performing \ {"probe"}
    BY DEF Performing
  <2>3. OwnsChild => holder' = s /\ pc # "term"
    BY <1>3 DEF Probe, OwnsChild
  <2>4. pc = "ensure" => leader' = "reaped"
    BY <1>3 DEF Probe, SpawnTypeOK, DriverTypeOK
  <2> HIDE DEF pc
  <2> QED BY <1>1, <2>1, <2>2, <2>3, <2>4, Advances
<1>4. CASE Ensure(s)
  <2>1. Finish(s, kids = {}) /\ leader' = "reaped" /\ kids' = kids
    BY <1>2, <1>4, Zenon DEF Ensure, At, os
  <2> QED BY <1>1, <2>1, Finishes, Zenon
<1>5. CASE Observe(s)
  <2>1. th[s].pc = "observe"
    BY <1>5 DEF Observe, At
  <2>2. CASE leader # "reaped" /\ Goes(s, "term") /\ UNCHANGED <<stop_state, holder, leader>>
    <3>1. "term" \in Performing \ {"probe"}
      BY DEF Performing
    <3> QED BY <1>1, <1>2, <2>1, <2>2, <3>1, Advances, SMTT(30)
  <2>3. CASE leader' = "reaped" /\ Goes(s, "ensure") /\ UNCHANGED <<stop_state, holder>>
    <3>1. "ensure" \in Performing \ {"probe"}
      BY DEF Performing
    <3> QED BY <1>1, <1>2, <2>1, <2>3, <3>1, Advances
  <2>4. CASE Finish(s, FALSE)
    BY <1>1, <2>4, Finishes, Zenon
  <2> QED BY <1>5, <2>2, <2>3, <2>4, Zenon DEF Observe
<1>6. CASE SendTerm(s) \/ SendKill(s)
  <2>1. PICK pc \in {"termed", "killed"} : Goes(s, pc) /\ UNCHANGED <<stop_state, holder>>
    BY <1>6 DEF SendTerm, SendKill, Signals
  <2>2. pc \in Performing \ {"probe"} /\ pc # "term" /\ pc # "ensure"
    BY SMTT(30) DEF Performing
  <2>3. th[s].pc # "probe"
    BY <1>6 DEF SendTerm, SendKill, At
  <2> QED BY <1>1, <1>2, <2>1, <2>2, <2>3, Advances, Zenon
<1>7. CASE GroupDeath(s)
  <2>1. Finish(s, TRUE) /\ leader' = "reaped" /\ kids' = {}
    BY <1>7, Zenon DEF GroupDeath
  <2> QED BY <1>1, <2>1, Finishes, Zenon
<1>8. CASE ReapLeader(s)
  <2>1. th[s].pc \in {"termed", "killed"} /\ leader' = "reaped" /\ UNCHANGED stopping
    BY <1>8, Zenon DEF ReapLeader
  <2>2. \A t \in Stoppers : th[t].pc \in Performing => t = s
    BY <1>1, PerformerStops, SMTT(30)
  <2>3. Held'
    BY <2>1, <2>2 DEF StopInv, Held, OwnsChild, stopping, Performing
  <2>4. stop_state.state \in {"Running", "Stopping"}
    BY <1>1, PerformerStops
  <2> QED BY <2>1, <2>3, <2>4, Zenon DEF StopInv, Quiet, Alone, Counted, Waiters, StopProven, stopping
<1>9. CASE Escalate(s)
  <2>1. th[s].pc \in {"termed", "check"}
    BY <1>9, Zenon DEF Escalate, At
  <2>2. ASSUME NEW pc \in {"check", "kill"}, Goes(s, pc), UNCHANGED <<stop_state, holder>>
        PROVE  StopInv'
    <3>1. pc \in Performing \ {"probe"} /\ pc # "term" /\ pc # "ensure"
      BY DEF Performing
    <3> QED BY <1>1, <1>2, <2>1, <2>2, <3>1, Advances, Zenon
  <2>3. CASE Finish(s, FALSE)
    BY <1>1, <2>3, Finishes, Zenon
  <2> QED BY <1>9, <2>2, <2>3, Zenon DEF Escalate
<1>10. CASE Survived(s)
  <2>1. Finish(s, FALSE)
    BY <1>10, Zenon DEF Survived
  <2> QED BY <1>1, <2>1, Finishes, Zenon
<1> QED BY <1>3, <1>4, <1>5, <1>6, <1>7, <1>8, <1>9, <1>10, SMTT(30)

\* Steps that do not touch the stop: the group does not come back to life, and
\* nobody takes the leader from the thread that holds the Child.
LEMMA StopUndisturbed ==
  ASSUME StopInv, model' = model, UNCHANGED stopping, Up => Up',
         Up /\ leader = "reaped" => leader' = "reaped" /\ (kids = {} => kids' = {}),
         OwnsChild /\ holder # "free" /\ leader # "reaped" => leader' # "reaped"
  PROVE  StopInv'
<1>1. Quiet'
  BY SMTT(30) DEF StopInv, Quiet, stopping
<1>2. Alone' /\ Counted'
  BY DEF StopInv, Alone, Counted, Waiters, stopping
<1>3. Held'
  BY DriverAssumption DEF StopInv, Quiet, Held, OwnsChild, Performing, stopping
<1>4. StopProven'
  BY DEF StopInv, Quiet, StopProven, stopping
<1> QED BY <1>1, <1>2, <1>3, <1>4 DEF StopInv

\* Every step keeps the invariant of the stop.
LEMMA StopInvStep ==
  ASSUME SpawnTypeOK, SpawnInv, StopInv, [Next]_vars
  PROVE  StopInv'
<1>1. CASE UNCHANGED vars
  BY <1>1, StopUndisturbed DEF vars, driverVars, spawnVars, os, Up
<1>2. ASSUME ~Up, Spawning \/ HelperStep \/ HelperDies PROVE StopInv'
  <2>1. model' = model /\ UNCHANGED stopping
    BY <1>2, SpawnFrame
  <2>2. ~OwnsChild
    BY <1>2 DEF SpawnInv, Direct, Up, OwnsChild
  <2> QED BY <1>2, <2>1, <2>2, StopUndisturbed
<1>3. ASSUME Up, DriverNext, UNCHANGED spawnVars PROVE StopInv'
  <2>1. leader # "none" /\ Up'
    BY <1>3 DEF SpawnInv, Direct, Handshaken, Told, Up, spawnVars, SpawnTypeOK, DriverTypeOK
  <2>2. /\ model' = model
        /\ leader = "reaped" => leader' = "reaped" /\ (kids = {} => kids' = {})
    BY <1>3, <2>1, DriverLeader
  <2>3. CASE Outside
    BY <2>1, <2>2, <2>3, OutsideFrame, StopUndisturbed
  <2>4. CASE Threads
    <3>1. UNCHANGED stopping
      BY <2>4, ThreadsFrame
    <3>2. OwnsChild /\ holder # "free" => leader' = leader
      BY <2>4 DEF Threads, Dispatch, DispatcherEnds, ReadFrame, ReaderEnds, MonitorPolls,
                  PublishExit, os
    <3> QED BY <2>1, <2>2, <3>1, <3>2, StopUndisturbed
  <2>5. CASE \E r \in Requests : RequestStep(r)
    BY <2>1, <2>2, <2>5, RequestFrame, StopUndisturbed, SMTT(30) DEF os
  <2>6. ASSUME NEW s \in Stoppers, StopStep(s) \/ Call(s) PROVE StopInv'
    <3>1. CASE Perform(s) \/ Join(s) \/ AlreadyStopped(s) \/ JoinedFailed(s) \/ Call(s)
      <4>1. UNCHANGED <<model, os, holder>>
        BY <3>1 DEF Perform, Join, AlreadyStopped, JoinedFailed, Call
      <4> QED BY <2>1, <3>1, <4>1, BeginStop
    <3>2. CASE \/ Probe(s) \/ Ensure(s) \/ Observe(s) \/ SendTerm(s) \/ GroupDeath(s)
               \/ ReapLeader(s) \/ Escalate(s) \/ SendKill(s) \/ Survived(s)
      BY <1>3, <2>1, <2>2, <3>2, PerformStop, SMTT(30)
    <3> QED BY <2>6, <3>1, <3>2 DEF StopStep
  <2> QED BY <1>3, <2>3, <2>4, <2>5, <2>6, DriverCases, SMTT(30)
<1> QED BY <1>1, <1>2, <1>3, StartIsOver DEF Next

\* A thread's own variables keep their types; the count of waiters is positive
\* when one of them leaves.
LEMMA StopType ==
  ASSUME SpawnTypeOK, StopInv, NEW s \in Stoppers, StopStep(s) \/ Call(s)
  PROVE  DriverTypeOK'
<1>1. UNCHANGED <<model, exiting, reading, channel, calls>>
  BY StopFrame
<1>2. /\ leader' \in {"none", "alive", "zombie", "reaped"}
      /\ kids' \subseteq Kids
      /\ signal' \in {"none", "term", "kill"}
  <2>1. UNCHANGED os => leader' \in {"none", "alive", "zombie", "reaped"}
                          /\ kids' \subseteq Kids /\ signal' \in {"none", "term", "kill"}
    BY DEF SpawnTypeOK, DriverTypeOK, os
  <2>2. CASE Perform(s) \/ Join(s) \/ AlreadyStopped(s) \/ JoinedFailed(s) \/ Call(s) \/ Ensure(s)
               \/ Escalate(s) \/ Survived(s)
    BY <2>1, <2>2, Zenon DEF Perform, Join, AlreadyStopped, JoinedFailed, Call, Ensure, Escalate, Survived
  <2>3. CASE Probe(s) \/ Observe(s) \/ GroupDeath(s) \/ ReapLeader(s)
    BY <2>3, Zenon DEF Probe, Observe, GroupDeath, ReapLeader, SpawnTypeOK, DriverTypeOK
  <2>4. CASE SendTerm(s) \/ SendKill(s)
    BY <2>4 DEF SendTerm, SendKill, Signals, SpawnTypeOK, DriverTypeOK
  <2> QED BY <2>2, <2>3, <2>4, SMTT(30) DEF StopStep
<1> DEFINE State == [state : {"Running", "Stopping", "Stopped", "Failed"}, generation : Nat,
                     waiters : Nat]
           Threads2 == [Stoppers -> [pc : Places, generation : Nat, calls : 0..MaxCalls]]
           Ok == /\ stop_state' \in State /\ th' \in Threads2
                 /\ holder' \in Stoppers \cup {"free"}
<1>3. /\ stop_state \in State /\ th \in Threads2 /\ holder \in Stoppers \cup {"free"}
  BY DEF SpawnTypeOK, DriverTypeOK
<1> SUFFICES Ok
  BY <1>1, <1>2, Zenon DEF SpawnTypeOK, DriverTypeOK, exiting, reading, channel, calls
<1>4. ASSUME NEW pc \in Places, Goes(s, pc) PROVE th' \in Threads2
  BY <1>3, <1>4 DEF Goes
<1>5. ASSUME NEW pc \in Places, NEW g \in Nat, Calls(s, pc, g) PROVE th' \in Threads2
  BY <1>3, <1>5 DEF Calls
<1>6. ASSUME NEW ok \in BOOLEAN, Finish(s, ok) PROVE Ok
  <2>1. stop_state' \in State /\ holder' \in Stoppers \cup {"free"}
    BY <1>3, <1>6 DEF Finish
  <2>2. th' \in Threads2
    BY <1>4, <1>6, SMTT(30) DEF Finish, Places
  <2> QED BY <2>1, <2>2
<1>7. CASE Perform(s)
  <2>1. stop_state' \in State /\ stop_state'.generation \in Nat
    BY <1>3, <1>7 DEF Perform
  <2> HIDE DEF State, Threads2
  <2> QED BY <1>3, <1>5, <1>7, <2>1, SMTT(30) DEF Perform, Places, Performing
<1>8. CASE Join(s)
  <2>1. stop_state' \in State
    BY <1>3, <1>8 DEF Join
  <2>2. stop_state.generation \in Nat
    BY <1>3
  <2>3. th' \in Threads2
    BY <1>5, <1>8, <2>2 DEF Join, Places
  <2> QED BY <1>3, <1>8, <2>1, <2>3 DEF Join
<1>9. CASE AlreadyStopped(s)
  BY <1>3, <1>4, <1>9 DEF AlreadyStopped, Places
<1>10. CASE JoinedFailed(s)
  <2>1. th[s].pc = "waiting" /\ stop_state.state = "Failed"
    BY <1>10 DEF JoinedFailed, At
  <2>2. s \in Waiters /\ stop_state.waiters = Cardinality(Waiters)
    BY <2>1 DEF StopInv, Counted, Waiters
  <2>3. Cardinality(Waiters) # 0
    BY <2>2, WaitersFinite, FS_EmptySet
  <2>4. stop_state.waiters - 1 \in Nat
    BY <2>2, <2>3, WaitersFinite
  <2>5. stop_state' \in State
    BY <1>3, <1>10, <2>4, SMTT(30) DEF JoinedFailed
  <2> QED BY <1>3, <1>4, <1>10, <2>5 DEF JoinedFailed, Places
<1>11. CASE Call(s)
  <2>1. th' \in Threads2
    BY <1>3, <1>11, DriverAssumption DEF Call, Places
  <2> QED BY <1>3, <1>11, <2>1, SMTT(30) DEF Call
<1>12. CASE Probe(s)
  <2>1. holder' \in Stoppers \cup {"free"} /\ stop_state' = stop_state
    BY <1>3, <1>12 DEF Probe
  <2>2. th' \in Threads2
    BY <1>4, <1>12, SMTT(30) DEF Probe, Places, Performing
  <2> QED BY <1>3, <2>1, <2>2
<1>13. CASE Ensure(s) \/ GroupDeath(s) \/ Survived(s)
  BY <1>6, <1>13, Zenon DEF Ensure, GroupDeath, Survived
<1>14. CASE Observe(s) \/ Escalate(s)
  <2>1. "term" \in Places /\ "ensure" \in Places /\ "check" \in Places /\ "kill" \in Places
    BY DEF Places, Performing
  <2> QED BY <1>3, <1>4, <1>6, <1>14, <2>1, Zenon DEF Observe, Escalate
<1>15. CASE SendTerm(s) \/ SendKill(s)
  BY <1>3, <1>4, <1>15 DEF SendTerm, SendKill, Signals, Places, Performing
<1>16. CASE ReapLeader(s)
  BY <1>3, <1>16 DEF ReapLeader, stopping
<1> QED BY <1>7, <1>8, <1>9, <1>10, <1>11, <1>12, <1>13, <1>14, <1>15, <1>16, SMTT(30) DEF StopStep

\* Every step keeps the types.
LEMMA TypeStep ==
  ASSUME SpawnTypeOK, StopInv, [Next]_vars
  PROVE  SpawnTypeOK'
<1>1. CASE UNCHANGED vars
  BY <1>1 DEF vars, driverVars, spawnVars, os, stopping, exiting, reading, channel, calls,
              SpawnTypeOK, DriverTypeOK
<1>2. CASE Spawning \/ HelperStep \/ HelperDies
  BY <1>2, SpawnType
<1>3. CASE DriverNext /\ UNCHANGED spawnVars
  <2>1. DriverTypeOK
    BY DEF SpawnTypeOK
  <2>2. DriverTypeOK'
    BY <1>3, <2>1, DriverCases, OutsideType, RequestType, ThreadsType, StopType
  <2> QED BY <1>3, <2>2 DEF SpawnTypeOK, spawnVars
<1> QED BY <1>1, <1>2, <1>3, SMTT(30) DEF Next
-----------------------------------------------------------------------------
(* The theorems                                                            *)

\* The first state has the invariant.
LEMMA RuntimeInit == Init => IInv
<1> SUFFICES ASSUME Init PROVE IInv
  OBVIOUS
<1> USE DEF Init, DriverInit, SpawnInit
<1>1. SpawnTypeOK
  <2>1. stdout \in Seq(Frames) /\ raw \in Seq(Inbound) /\ seen \in Seq(Inbound)
    BY EmptyFrames
  <2>2. th \in [Stoppers -> [pc : Places, generation : Nat, calls : 0..MaxCalls]]
    BY DriverAssumption DEF Places
  <2> QED BY <2>1, <2>2, Zenon DEF SpawnTypeOK, DriverTypeOK, Models, OwnsChild, Settled, Answers, Whose
<1>2. SpawnInv
  BY DEF SpawnInv, Direct, Handshaken, Protected, WatchesItsOwn, CleansUpItsOwn, Told, OwnsChild
<1>3. StopInv
  BY DEF StopInv, Quiet, Alone, Counted, Held, StopProven, Waiters, Performing
<1>4. NoLostWaiter
  BY DEF NoLostWaiter
<1>5. ExitInv
  <2>1. Len(seen) = 0 /\ Len(raw) = 0
    BY EmptyFrames
  <2> QED BY <2>1 DEF ExitInv, NoExit
<1>6. TurnInv
  <2>1. Len(seen) = 0 /\ Len(raw) = 0
    BY EmptyFrames
  <2>2. SeenOpen <=> FALSE
    <3>1. Len(seen) + 1 = 1
      BY <2>1
    <3>2. OpenAt(seen, 1, FALSE) <=> FALSE
      BY OpenFirst, Zenon
    <3> QED BY <3>1, <3>2, Zenon DEF SeenOpen
  <2>3. OpenAt(raw, 1, SeenOpen) <=> SeenOpen
    BY OpenFirst
  <2> QED BY <2>1, <2>2, <2>3 DEF TurnInv, Alternates
<1> QED BY <1>1, <1>2, <1>3, <1>4, <1>5, <1>6, SMTT(30) DEF IInv

\* Every step keeps it.
LEMMA RuntimeStep == IInv /\ [Next]_vars => IInv'
BY TypeStep, SpawnInvStep, StopInvStep, NoLostWaiterStep, ExitInvStep, TurnInvStep DEF IInv

\* So every state has it.
LEMMA RuntimeInvariant == Spec => []IInv
BY RuntimeInit, RuntimeStep, PTL DEF Spec

\* A stop that reports success has left nothing of the group behind, one
\* thread performs at a time, and every thread that waits is counted
\* (begin_stop, perform_stop, finish_stop), for any number of threads.
THEOREM StopIsSound == Spec => []StopSound
<1>1. IInv => StopSound
  <2> SUFFICES ASSUME IInv PROVE OnePerformer
    BY DEF IInv, StopInv, StopSound
  <2> QED BY DEF IInv, StopInv, Alone, Counted, Waiters, OnePerformer
<1> QED BY <1>1, RuntimeInvariant, PTL

\* Whoever waits for the runtime is told: no request loses its waiter, the exit
\* comes after every frame, turns alternate (spawn_dispatcher, read_loop,
\* publish_child_exit), for any number of requests and frames.
THEOREM CallersAreTold == Spec => []CallersTold
<1>1. IInv => CallersTold
  BY ExitInvImplies, TurnInvImplies DEF IInv, CallersTold
<1> QED BY <1>1, RuntimeInvariant, PTL

\* SIGTERM goes to a group whose leader the daemon has not reaped.
LEMMA TermStep ==
  ASSUME IInv, [Next]_vars, OwnsChild, signal = "none", signal' = "term"
  PROVE  leader # "reaped"
<1>1. CASE UNCHANGED vars
  BY <1>1, SMTT(30) DEF vars, driverVars, os
<1>2. CASE Spawning \/ HelperStep \/ HelperDies
  <2>1. Direct /\ Up /\ model # "detached"
    BY DEF IInv, SpawnInv, Direct, Up, OwnsChild
  <2> QED BY <1>2, <2>1, Zenon DEF Spawning, SpawnStep, StartHelper, ReapParent, FirstFrame, ObserveRuntime,
         RegisterExit, Directive, ReapReply, Cleanup, HelperStep, HelperDies, ParentForks,
         ParentExits, SpawnRuntime, WriteFrame, Obey, HelperReaps, RuntimeDies, Recycle, Direct,
         driverVars, os
<1>3. CASE Outside
  BY <1>3, OutsideFrame
<1>4. CASE Threads
  BY <1>4, ThreadsFrame
<1>5. ASSUME NEW r \in Requests, RequestStep(r) PROVE FALSE
  BY <1>5, RequestFrame DEF os
<1>6. ASSUME NEW s \in Stoppers, StopStep(s) \/ Call(s) PROVE leader # "reaped"
  <2>1. SendTerm(s)
    <3>1. ASSUME \/ Perform(s) \/ Join(s) \/ AlreadyStopped(s) \/ JoinedFailed(s) \/ Call(s)
                 \/ Probe(s) \/ Ensure(s) \/ Observe(s) \/ GroupDeath(s) \/ ReapLeader(s)
                 \/ Escalate(s) \/ Survived(s)
          PROVE  signal' = signal
      BY <3>1 DEF Perform, Join, AlreadyStopped, JoinedFailed, Call, Probe, Ensure, Observe,
                  GroupDeath, ReapLeader, Escalate, Survived, os
    <3>2. SendKill(s) => signal' = "kill"
      BY DEF SendKill, Signals
    <3> QED BY <1>6, <3>1, <3>2, SMTT(30) DEF StopStep
  <2> QED BY <2>1 DEF SendTerm, At, IInv, StopInv, Held
<1> QED BY <1>1, <1>2, <1>3, <1>4, <1>5, <1>6, DriverCases, SMTT(30) DEF Next

\* No process but the runtime is recorded, watched or signalled, although its
\* number may be given to another once it is reaped (spawn_detached,
\* perform_stop), whatever the helper and the runtime do.
THEOREM PidsAreItsOwn == Spec => PidsItsOwn
<1>1. IInv /\ [Next]_vars =>
        [ /\ (WatchesItsOwn /\ CleansUpItsOwn)'
          /\ (OwnsChild /\ signal = "none" /\ signal' = "term") => leader # "reaped" ]_vars
  BY RuntimeStep, TermStep DEF IInv, SpawnInv
<1> QED BY <1>1, RuntimeInvariant, PTL DEF Spec, PidsItsOwn
=============================================================================
