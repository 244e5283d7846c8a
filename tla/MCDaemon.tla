------------------------------ MODULE MCDaemon ------------------------------
(* Instances of Daemon for TLC.                                            *)
EXTENDS Daemon, TLC

CONSTANTS m1, m2, q1, w1

OneRepository == [w \in {w1} |-> "repository"]
TheTexts == {"routed", "unstarted", "bounded"}

\* Bound: a drain is only called off before the first task.  Called off later,
\* while the run of a task is between its last two commits, it lets the next
\* run begin under that run's hands (README, section 5).
AbortEarly == draining /\ ~draining' /\ daemon' = "up" => row.phase = "ABSENT" /\ admin = "idle"

MCLive == /\ DaemonInit /\ [][DaemonNext]_allvars /\ DaemonFairness
          /\ \A e \in Runs : WF_allvars(TurnEnds(e) /\ UNCHANGED dvars)
=============================================================================
