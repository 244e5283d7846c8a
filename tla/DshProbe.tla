------------------------------ MODULE DshProbe ------------------------------
(***************************************************************************)
(* One preflight probe of the DSH runtime (bounded_output, collect_probe): *)
(* a command in a process group of its own, a reader thread for each pipe, *)
(* and the collector, which waits for both, the exit or the deadline, and  *)
(* then ends the group whatever happened.                                  *)
(***************************************************************************)
EXTENDS Naturals, FiniteSets
CONSTANTS NoResult

VARIABLES
  group,    \* the command and a descendant of it that may keep the pipes (external)
  readers,  \* the state of each reader thread
  probe     \* the collector

probeVars == <<group, readers, probe>>

Pipes == {"stdout", "stderr"}

ProbeInit ==
  /\ group \in [leader : {"running"}, kid : BOOLEAN, long : BOOLEAN]
  /\ readers = [p \in Pipes |-> "reading"]
  /\ probe = [pc |-> "collect", got |-> [p \in Pipes |-> NoResult], late |-> FALSE, stop |-> FALSE,
              killed |-> TRUE, outcome |-> NoResult, result |-> NoResult]

Alive == group.leader = "running" \/ group.kid

LeaderEnds ==
  /\ group.leader = "running" /\ group' = [group EXCEPT !.leader = "exited"]
  /\ UNCHANGED <<readers, probe>>
KidEnds ==
  /\ group.kid /\ group' = [group EXCEPT !.kid = FALSE]
  /\ UNCHANGED <<readers, probe>>
Deadline ==
  /\ ~probe.late /\ probe.pc = "collect" /\ probe' = [probe EXCEPT !.late = TRUE]
  /\ UNCHANGED <<group, readers>>

\* the reader's loop: the flags, the pipe's end, the byte cap
ReaderEnds(p, how) ==
  /\ readers[p] = "reading"
  /\ readers' = [readers EXCEPT ![p] = how]
  /\ UNCHANGED <<group, probe>>
ReadsToEnd(p) == ~Alive /\ ReaderEnds(p, "whole")
ReadsTooMuch(p) == group.long /\ ReaderEnds(p, "over cap")
ReadsTooLate(p) == (probe.late \/ probe.stop) /\ ReaderEnds(p, "timed out")

\* the collector's loop: the deadline, a result of a reader, the exit
Ends(outcome) == probe' = [probe EXCEPT !.pc = "kill", !.outcome = outcome]
CollectTimesOut ==
  /\ probe.pc = "collect" /\ probe.late /\ Ends("timed out")
  /\ UNCHANGED <<group, readers>>
CollectTakes(p) ==
  /\ probe.pc = "collect" /\ ~probe.late
  /\ readers[p] # "reading" /\ probe.got[p] = NoResult
  /\ IF readers[p] = "whole" THEN probe' = [probe EXCEPT !.got[p] = "whole"] ELSE Ends(readers[p])
  /\ UNCHANGED <<group, readers>>

CollectExits ==
  /\ probe.pc = "collect" /\ ~probe.late
  /\ group.leader = "exited" /\ \A p \in Pipes : probe.got[p] = "whole"
  /\ Ends("output")
  /\ UNCHANGED <<group, readers>>

\* the group is this command's own: it is killed, the leader reaped, the readers
\* told to stop and joined
KillGroup ==
  /\ probe.pc = "kill"
  /\ \/ group' = [group EXCEPT !.leader = IF @ = "running" THEN "exited" ELSE @, !.kid = FALSE]
        /\ probe' = [probe EXCEPT !.pc = "reap"]
     \/ Alive /\ UNCHANGED group /\ probe' = [probe EXCEPT !.pc = "reap", !.killed = FALSE]
  /\ UNCHANGED readers
ReapLeader ==
  /\ probe.pc = "reap" /\ group.leader # "running"
  /\ group' = [group EXCEPT !.leader = "reaped"]
  /\ probe' = [probe EXCEPT !.pc = "join", !.stop = TRUE]
  /\ UNCHANGED readers

JoinReaders ==
  /\ probe.pc = "join" /\ \A p \in Pipes : readers[p] # "reading"
  /\ probe' = IF probe.killed THEN [probe EXCEPT !.pc = "observe"]
              ELSE [probe EXCEPT !.pc = "done", !.result = "kill failed"]
  /\ UNCHANGED <<group, readers>>

\* up to a second for the group to be gone
ObserveGroup ==
  /\ probe.pc = "observe"
  /\ \/ ~group.kid /\ probe' = [probe EXCEPT !.pc = "done", !.result = probe.outcome]
     \/ \E error \in {"not reaped", "not observed"} :
          probe' = [probe EXCEPT !.pc = "done", !.result = error]
  /\ UNCHANGED <<group, readers>>

ProbeNext ==
  \/ LeaderEnds \/ KidEnds \/ Deadline
  \/ \E p \in Pipes : ReadsToEnd(p) \/ ReadsTooMuch(p) \/ ReadsTooLate(p) \/ CollectTakes(p)
  \/ CollectTimesOut \/ CollectExits
  \/ KillGroup \/ ReapLeader \/ JoinReaders \/ ObserveGroup

----------------------------------------------------------------------------
(***************************************************************************)
(* Output is used only when it is whole: both pipes were read to their     *)
(* end, the command had exited, and nothing of its group is left.          *)
(***************************************************************************)
ProbeOutputWhole ==
  probe.result = "output" =>
    /\ \A p \in Pipes : readers[p] = "whole"
    /\ group.leader = "reaped" /\ ~group.kid

(***************************************************************************)
(* However the probe ends, no reader thread and no zombie is left behind,  *)
(* and a descendant only when the result says so.                          *)
(***************************************************************************)
ProbeLeavesNothing ==
  probe.pc = "done" =>
    /\ \A p \in Pipes : readers[p] # "reading"
    /\ group.leader = "reaped"
    /\ group.kid => probe.result \in {"kill failed", "not reaped", "not observed"}
=============================================================================
