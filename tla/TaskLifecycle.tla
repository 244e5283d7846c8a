--------------------------- MODULE TaskLifecycle ----------------------------
(***************************************************************************)
(* What the store promises about the life of a task, without tables: a     *)
(* task is queued, claimed, run and finished; a request to stop it can     *)
(* arrive at any moment, is never forgotten, keeps a task that was not     *)
(* claimed from being claimed, and decides the outcome; a finished task    *)
(* changes only by being queued again, which a stopped one never is.       *)
(* TaskStore implements this specification.                                *)
(***************************************************************************)
EXTENDS Naturals

CONSTANTS Tasks, Outcomes, Cancelled, NoOutcome

VARIABLES
  stage,      \* where the task is in its life
  stopping,   \* somebody asked for it to be cancelled or closed
  outcome,    \* how it ended
  claims      \* how often it was claimed

lifecycleVars == <<stage, stopping, outcome, claims>>

Unfinished == {"queued", "claimed", "running", "cancelling"}

Init ==
  /\ stage = [t \in Tasks |-> "none"]
  /\ stopping = [t \in Tasks |-> FALSE]
  /\ outcome = [t \in Tasks |-> NoOutcome]
  /\ claims = [t \in Tasks |-> 0]

Submit(t) ==
  /\ stage[t] = "none"
  /\ stage' = [stage EXCEPT ![t] = "queued"]
  /\ UNCHANGED <<stopping, outcome, claims>>

Claim(t) ==
  /\ stage[t] = "queued"
  /\ ~stopping[t]
  /\ stage' = [stage EXCEPT ![t] = "claimed"]
  /\ claims' = [claims EXCEPT ![t] = @ + 1]
  /\ UNCHANGED <<stopping, outcome>>

Run(t) ==
  /\ stage[t] = "claimed"
  /\ ~stopping[t]
  /\ stage' = [stage EXCEPT ![t] = "running"]
  /\ UNCHANGED <<stopping, outcome, claims>>

\* The daemon may cancel a run on its own account (asked = FALSE); a request
\* may also reach a finished task, which it keeps from being resumed.
Stop(t, asked) ==
  /\ stage[t] # "none"
  /\ stage' = [stage EXCEPT ![t] = IF @ = "finished" THEN @ ELSE "cancelling"]
  /\ stopping' = [stopping EXCEPT ![t] = @ \/ asked]
  /\ UNCHANGED <<outcome, claims>>

StopAllQueued ==
  /\ stopping' = [t \in Tasks |-> stopping[t] \/ stage[t] = "queued"]
  /\ UNCHANGED <<stage, outcome, claims>>

Finish(t, o) ==
  /\ stage[t] \in Unfinished
  /\ stage' = [stage EXCEPT ![t] = "finished"]
  /\ outcome' = [outcome EXCEPT ![t] = IF stopping[t] THEN Cancelled ELSE o]
  /\ UNCHANGED <<stopping, claims>>

Resume(t) ==
  /\ stage[t] = "finished"
  /\ ~stopping[t]
  /\ outcome[t] # Cancelled
  /\ stage' = [stage EXCEPT ![t] = "queued"]
  /\ outcome' = [outcome EXCEPT ![t] = NoOutcome]
  /\ UNCHANGED <<stopping, claims>>

Next ==
  \/ StopAllQueued
  \/ \E t \in Tasks :
       \/ Submit(t) \/ Claim(t) \/ Run(t) \/ Resume(t)
       \/ \E asked \in BOOLEAN : Stop(t, asked)
       \/ \E o \in Outcomes : Finish(t, o)

Spec == Init /\ [][Next]_lifecycleVars
=============================================================================
