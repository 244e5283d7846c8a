--------------------------- MODULE MCOrphanSpawn ---------------------------
(* Small instances of OrphanSpawn, and with it of Driver.                  *)
EXTENDS OrphanSpawn

\* Bounds of the instance: two threads stop a silent runtime, or one stops it
\* once while a request is under way, or a child of the daemon talks and exits.
Calls1 == \A s, t \in Stoppers : th[s].calls <= 1 /\ (th[s].calls = 1 /\ th[t].calls = 1 => s = t)
StopOrTalk ==
  \/ (\A s \in Stoppers : th[s].calls = 0) /\ (written["events"] > 0 => model = "attached")
  \/ Calls1 /\ written["events"] = 0
  \/ written["events"] = 0 /\ \A r \in Requests : request[r] = "unsent"

MCNext == Next /\ StopOrTalk'

\* The threads of the daemon run; deadlines pass; nothing is assumed of the
\* runtime or of the system.
MCSpec ==
  /\ Init /\ [][MCNext]_vars
  /\ WF_vars(HelperStep)
  /\ \A s \in Stoppers : WF_vars(Up /\ StopStep(s) /\ UNCHANGED spawnVars)
=============================================================================
