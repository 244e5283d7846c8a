----------------------------- MODULE OrphanSpawn -----------------------------
(***************************************************************************)
(* external-runtime/src/detached.rs: on macOS a runtime that must survive  *)
(* the daemon is started through a helper.  The helper process forks; its  *)
(* parent half exits at once and is reaped by the daemon; its other half   *)
(* starts the runtime, reports the pid, and keeps the runtime from being   *)
(* reaped until the daemon has told it what to do.  The daemon meanwhile   *)
(* observes the process of that pid and registers for its exit.            *)
(*                                                                         *)
(* A pid may be given to another process once its owner has been reaped,   *)
(* so what the daemon knows of "the process pid" holds only as long as the *)
(* helper lived.  The directive pipe tells: writing to it fails when       *)
(* nobody can read it.                                                     *)
(***************************************************************************)
EXTENDS Driver

VARIABLES
  spawner,    \* where spawn is
  parent,     \* the half of the helper that the daemon waits for
  helper,     \* the half that starts the runtime
  recycled,   \* another process has the runtime's pid
  handshake,  \* the frame in the handshake pipe
  directive,  \* the instruction in the directive pipe
  identity,   \* whose identity the daemon observed
  queue       \* whose exit it registered for

spawnVars == <<spawner, parent, helper, recycled, handshake, directive, identity, queue>>
vars == <<driverVars, spawnVars>>

Whose == {"none", "runtime", "stranger"}
\* The driver, the spawner and the helper are where their code can be.
SpawnTypeOK ==
  /\ DriverTypeOK
  /\ spawner \in {"start", "parent", "first", "observe", "register", "ACK", "NACK", "REAP",
                  "reply", "cleanup", "ok", "err"}
  /\ parent \in {"none", "running", "exited", "reaped"}
  /\ helper \in {"none", "spawning", "framing", "waiting", "reaping", "gone"}
  /\ recycled \in BOOLEAN
  /\ handshake \in {"none", "pid", "error", "exit"}
  /\ directive \in {"none", "ACK", "NACK", "REAP"}
  /\ identity \in Whose /\ queue \in Whose

SpawnInit ==
  /\ spawner = IF model = "detached" THEN "start" ELSE "ok"
  /\ parent = "none" /\ helper = "none"
  /\ recycled = FALSE
  /\ handshake = "none" /\ directive = "none"
  /\ identity = IF model = "detached" THEN "none" ELSE "runtime"
  /\ queue = IF model = "detached" THEN "none" ELSE "runtime"

Spawns(pc) == spawner' = pc
-----------------------------------------------------------------------------
(* The daemon                                                              *)

\* spawn: the helper is started with the ends of five pipes, or is not
StartHelper ==
  /\ spawner = "start"
  /\ \/ Spawns("parent") /\ parent' = "running"
     \/ Spawns("err") /\ UNCHANGED parent
  /\ UNCHANGED <<driverVars, helper, recycled, handshake, directive, identity, queue>>

\* reap_parent: after two seconds it is killed, and spawn fails
ReapParent ==
  /\ spawner = "parent"
  /\ parent' = "reaped"
  /\ Spawns(IF parent = "exited" THEN "first" ELSE "err")
  /\ UNCHANGED <<driverVars, helper, recycled, handshake, directive, identity, queue>>

\* the ends of the pipes that the helper holds
CanRead == parent = "running" \/ helper \notin {"none", "gone"}

\* read_frame of the first frame: a pid, an error, the end of the stream, or
\* the deadline
FirstFrame ==
  /\ spawner = "first"
  /\ \/ handshake = "pid" /\ Spawns("observe")
     \/ Spawns("err")
  /\ handshake' = "none"
  /\ UNCHANGED <<driverVars, parent, helper, recycled, directive, identity, queue>>

\* who has the pid, for a caller that cannot see a zombie
Holder == CASE leader = "alive" -> "runtime"
            [] leader # "alive" /\ recycled -> "stranger"
            [] OTHER -> "none"

\* observe_process and validate_spawn_identity: nobody has the pid, the
\* observation fails or is not of a group leader, or there is an identity
ObserveRuntime ==
  /\ spawner = "observe"
  /\ \/ Holder = "none" /\ Spawns("REAP") /\ UNCHANGED identity
     \/ Spawns("NACK") /\ UNCHANGED identity
     \/ Holder # "none" /\ identity' = Holder /\ Spawns("register")
  /\ UNCHANGED <<driverVars, parent, helper, recycled, handshake, directive, queue>>

\* ExitQueue::register: the kernel knows no such process, fails, or watches it
RegisterExit ==
  /\ spawner = "register"
  /\ \/ Holder = "none" /\ Spawns("REAP") /\ UNCHANGED queue
     \/ Spawns("NACK") /\ UNCHANGED queue
     \/ Holder # "none" /\ queue' = Holder /\ Spawns("ACK")
  /\ UNCHANGED <<driverVars, parent, helper, recycled, handshake, directive, identity>>

AfterDirective == CASE spawner = "ACK" -> "ok"
                    [] spawner = "NACK" /\ identity = "none" -> "err"
                    [] spawner = "NACK" /\ identity # "none" -> "cleanup"
                    [] spawner = "REAP" -> "reply"

\* Faulty variant: cleanup goes ahead although the directive was not written.
DirectiveUnproven ==
  /\ spawner \in {"ACK", "NACK", "REAP"}
  /\ directive' = IF CanRead THEN spawner ELSE directive
  /\ Spawns(AfterDirective)
  /\ UNCHANGED <<driverVars, parent, helper, recycled, handshake, identity, queue>>

\* directive, nack: only a write that succeeded grants anything
Directive ==
  /\ spawner \in {"ACK", "NACK", "REAP"}
  /\ IF CanRead
       THEN directive' = spawner /\ Spawns(AfterDirective)
       ELSE UNCHANGED directive /\ Spawns("err")
  /\ UNCHANGED <<driverVars, parent, helper, recycled, handshake, identity, queue>>

\* reap_reply: the exit frame, the end of the stream or the deadline
ReapReply ==
  /\ spawner = "reply"
  /\ Spawns("err")
  /\ UNCHANGED <<driverVars, parent, helper, recycled, handshake, directive, identity, queue>>

\* nack with a validated identity: stop_and_reap_persisted_process_group,
\* which signals the process the identity is of, if it still has the pid
Cleanup ==
  /\ spawner = "cleanup"
  /\ Spawns("err")
  /\ signal' = IF identity = "runtime" /\ leader = "alive" THEN "kill" ELSE signal
  /\ leader' = IF identity = "runtime" /\ leader = "alive" THEN "reaped" ELSE leader
  /\ UNCHANGED <<model, kids, stopping, exiting, reading, channel, calls>>
  /\ UNCHANGED <<parent, helper, recycled, handshake, directive, identity, queue>>
-----------------------------------------------------------------------------
(* The helper                                                              *)

\* helper: fork, after which the parent half closes its ends and exits, when
\* it is scheduled; a fork that fails is reported in an error frame
ParentForks ==
  /\ parent = "running" /\ helper = "none"
  /\ \/ helper' = "spawning" /\ UNCHANGED <<parent, handshake>>
     \/ parent' = "exited" /\ handshake' = "error" /\ UNCHANGED helper
  /\ UNCHANGED <<driverVars, spawner, recycled, directive, identity, queue>>

ParentExits ==
  /\ parent = "running" /\ helper # "none"
  /\ parent' = "exited"
  /\ UNCHANGED <<driverVars, spawner, helper, recycled, handshake, directive, identity, queue>>

\* spawn_runtime
SpawnRuntime ==
  /\ helper = "spawning"
  /\ \/ helper' = "framing" /\ leader' = "alive" /\ UNCHANGED handshake
     \/ helper' = "gone" /\ handshake' = "error" /\ UNCHANGED leader
  /\ UNCHANGED <<model, kids, signal, stopping, exiting, reading, channel, calls>>
  /\ UNCHANGED <<spawner, parent, recycled, directive, identity, queue>>

WriteFrame ==
  /\ helper = "framing"
  /\ helper' = "waiting"
  /\ handshake' = "pid"
  /\ UNCHANGED <<driverVars, spawner, parent, recycled, directive, identity, queue>>

\* its children are the system's from now on, which reaps a dead one
Leaves == helper' = "gone" /\ leader' = IF leader = "zombie" THEN "reaped" ELSE leader

\* a directive, the end of the stream, or the deadline of ten seconds
Obey ==
  /\ helper = "waiting"
  /\ IF directive = "REAP" THEN helper' = "reaping" /\ UNCHANGED leader
                           ELSE Leaves
  /\ UNCHANGED <<model, kids, signal, stopping, exiting, reading, channel, calls>>
  /\ UNCHANGED <<spawner, parent, recycled, handshake, directive, identity, queue>>

\* waitpid blocks until the runtime is dead
HelperReaps ==
  /\ helper = "reaping" /\ leader = "zombie"
  /\ leader' = "reaped"
  /\ helper' = "gone"
  /\ handshake' = "exit"
  /\ UNCHANGED <<model, kids, signal, stopping, exiting, reading, channel, calls>>
  /\ UNCHANGED <<spawner, parent, recycled, directive, identity, queue>>

HelperDies ==
  /\ helper \in {"spawning", "framing", "waiting"}
  /\ Leaves
  /\ UNCHANGED <<model, kids, signal, stopping, exiting, reading, channel, calls>>
  /\ UNCHANGED <<spawner, parent, recycled, handshake, directive, identity, queue>>
-----------------------------------------------------------------------------
(* The operating system (external)                                         *)

\* until spawn returns, the runtime is a child of the helper, if that lives
RuntimeDies ==
  /\ leader = "alive"
  /\ leader' = IF helper = "gone" THEN "reaped" ELSE "zombie"
  /\ UNCHANGED <<model, kids, signal, stopping, exiting, reading, channel, calls>>
  /\ UNCHANGED spawnVars

Recycle ==
  /\ leader = "reaped" /\ ~recycled
  /\ recycled' = TRUE
  /\ UNCHANGED <<driverVars, spawner, parent, helper, handshake, directive, identity, queue>>

SpawnStep ==
  \/ StartHelper \/ ReapParent \/ FirstFrame \/ ObserveRuntime \/ RegisterExit
  \/ Directive \/ ReapReply \/ Cleanup
HelperStep ==
  \/ ParentForks \/ ParentExits \/ SpawnRuntime \/ WriteFrame \/ Obey \/ HelperReaps

Spawning == SpawnStep \/ RuntimeDies \/ Recycle

\* A detached driver exists once spawn has succeeded.
Up == spawner = "ok" /\ helper \in {"none", "gone"}

Init == DriverInit /\ SpawnInit

Next ==
  \/ ~Up /\ Spawning
  \/ HelperStep \/ HelperDies
  \/ Up /\ DriverNext /\ UNCHANGED spawnVars

Spec == Init /\ [][Next]_vars
-----------------------------------------------------------------------------
(* Properties                                                              *)

\* A stop that reports success has reaped the leader, and no member of the
\* group is left (perform_stop, perform_detached_stop, finish_stop).
StopProven == stop_state.state = "Stopped" => leader = "reaped" /\ kids = {}

\* One thread performs a stop at a time, under the current generation, and
\* every thread that waits is counted in it until it has been told (begin_stop).
OnePerformer ==
  LET performing == {s \in Stoppers : th[s].pc \in Performing}
      waiting == {s \in Stoppers : th[s].pc = "waiting"} IN
  model # "persisted" =>
    /\ (stop_state.state = "Stopping") = (performing # {})
    /\ \A s \in performing : performing = {s} /\ th[s].generation = stop_state.generation
    /\ \A s \in waiting : stop_state.state # "Stopped" => th[s].generation = stop_state.generation
    /\ stop_state.state \in {"Stopping", "Failed"} => stop_state.waiters = Cardinality(waiting)

\* Stops exclude each other and tell the truth: one thread performs, the others
\* wait and are told, and success means that the group is gone.
StopSound == SpawnTypeOK /\ StopProven /\ OnePerformer

\* A request whose key is not in the map any more has its outcome, and a key
\* in the map belongs to a request that has not ended.
NoLostWaiter ==
  \A r \in Requests :
    /\ request[r] \in {"registered", "waiting"} /\ r \notin pending => answer[r] # "none"
    /\ r \in pending => request[r] \in {"registered", "waiting", "expired"}

\* The exit is reported once and after every frame, unless a descendant kept
\* the pipe open when it was published (monitor_child, publish_child_exit).
ExitIsLast ==
  LET stream == seen \o raw
      exits == {i \in 1..Len(stream) : stream[i].kind = "exited"} IN
  termination = "ordered" => exits = {Len(stream)}

\* The subscriber is in a turn before frame j: the last mark begins one.
InTurn(frames, j) ==
  \E i \in 1..j - 1 :
    /\ frames[i] = Frame("turn.started", "InOrder")
    /\ \A k \in i + 1..j - 1 : frames[k].id # "InOrder"

\* Turns that are in order begin and end alternately: a mark begins a turn
\* exactly when none is open (classify_lifecycle).
TurnsAlternate ==
  \A j \in 1..Len(seen) :
    seen[j].id = "InOrder" => (seen[j].kind = "turn.started") = ~InTurn(seen, j)

\* Whoever waits for something of the runtime is told: requests are answered or
\* failed, the exit comes after the frames, turns alternate.
CallersTold == NoLostWaiter /\ ExitIsLast /\ TurnsAlternate

\* A detached runtime that was started is the one whose identity is recorded
\* and whose exit is awaited.
WatchesItsOwn == spawner = "ok" => identity = "runtime" /\ queue = "runtime"

\* A failed start signals nothing but the runtime it has started.
CleansUpItsOwn == spawner = "cleanup" => identity = "runtime"

\* No process but the runtime is recorded, watched or signalled, although its
\* number may be given to another once it is reaped: a detached start observes
\* under the helper's protection, and SIGTERM goes to a group whose leader the
\* daemon has not reaped (spawn_detached, perform_stop).
PidsItsOwn ==
  [][ /\ (WatchesItsOwn /\ CleansUpItsOwn)'
      /\ (OwnsChild /\ signal = "none" /\ signal' = "term") => leader # "reaped" ]_vars

\* Whoever calls stop_and_reap gets its result, also when the stop it waits
\* for fails, or fails again.
StopReturns ==
  \A s \in Stoppers : (Stopping(s) \/ th[s].pc \in Performing \cup {"waiting"})
                        ~> th[s].pc \in {"ok", "err"}

\* The helper ends, whatever becomes of the daemon: it is told to wait for a
\* runtime only when that is dead.
HelperEnds == helper # "none" ~> helper = "gone"

\* Nobody hangs on the runtime: every stop returns and the helper ends.
RuntimeEnds == StopReturns /\ HelperEnds
=============================================================================
