---------------------------- MODULE MCScheduler -----------------------------
(* Instances of Scheduler for TLC.                                         *)
EXTENDS Scheduler, TLC

CONSTANTS m1, m2, q1, w1

OneRepository == [w \in {w1} |-> "repository"]
TheTexts == {"routed", "unstarted", "bounded"}

\* Bound: of two runs, only the first meets an oversized frame or a process that
\* ends by itself, and not both.
FaultsFirst ==
  \A e \in Runs :
    /\ e # 1 => sink'[e].fault = sink[e].fault
    /\ th' = th /\ (e # 1 \/ sink[e].fault) => proc'[e] = proc[e] /\ owner'[e] = owner[e]
=============================================================================
