---------------------------- MODULE MCTaskStore -----------------------------
(* Instances of TaskStore for TLC.                                         *)
EXTENDS TaskStore, TLC

CONSTANTS m1, m2, q1, q2, w1, w2

\* two workspaces of one repository: the collision boundary of an enqueue is
\* the workspace, the limit is counted per repository
OneRepository == [w \in {w1, w2} |-> "repository"]

Interchangeable == Permutations(MessageIds) \cup Permutations(RequestIds)
=============================================================================
