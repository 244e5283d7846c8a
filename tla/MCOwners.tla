------------------------------ MODULE MCOwners ------------------------------
(***************************************************************************)
(* Instances of the launch of a child, its session's start, and the four   *)
(* runtime owners, for TLC.  They do not share state; a behaviour runs one *)
(* of them, as its scope says, while the others keep their initial values. *)
(***************************************************************************)
EXTENDS ZCodeOwner, CodexOwner, DshOwner, AgyOwner, SessionStart, Launch, DshProbe

allVars == <<scope, processVars, zvars, cvars, dvars, avars, startVars, launchVars, probeVars>>

Scope(agent, faults, turns, asks, kinds) ==
  [agent |-> agent, faults |-> faults, turns |-> turns, asks |-> asks, kinds |-> kinds]
Message == "item/completed message"

MCScopes == {
  Scope("launch", {}, 0, 0, {}), Scope("probe", {}, 0, 0, {}), Scope("start", {}, 0, 0, {}),
  \* the end of the process from every side, one turn
  Scope("zcode", {"kid", "reap", "late", "lost", "exit", "forced", "end"}, 1, 0, {}),
  Scope("codex", {"reap", "lost", "exit", "forced", "end"}, 1, 1, {"thread/settings/updated"}),
  Scope("dsh", {"reap", "exit", "forced"}, 1, 0, {}), Scope("dsh", {"reap", "lost", "end"}, 1, 0, {}),
  Scope("dsh", {"kid", "exit", "end"}, 1, 0, {}),
  Scope("agy", {"reap", "lost", "exit", "forced", "end", "kid", "stop"}, 1, 0, {}),
  \* several turns
  Scope("zcode", {"exit", "end", "time"}, 2, 0, {}),
  Scope("codex", {"replay", "time"}, 2, 1, {"error", "item/started"}),
  Scope("dsh", {"exit", "time", "stop", "late"}, 2, 0, {}),
  Scope("agy", {"end", "stop", "time"}, 3, 0, {}),
  \* what happens within a turn
  Scope("zcode", {}, 1, 3, {}),
  Scope("codex", {}, 2, 2, {"item/completed", Message, "item/agentMessage/delta"}),
  Scope("codex", {"replay"}, 1, 2, {"item/started", "item/completed"}),
  Scope("codex", {"kid", "exit"}, 1, 0, {}),
  Scope("dsh", {}, 1, 2, {"permission"}), Scope("dsh", {"exit"}, 1, 1, {"permission"}),
  Scope("dsh", {}, 1, 1, DshKinds),
  Scope("agy", {}, 2, 1, {"agent_response", "tool", "other step"})}
StartScope == {Scope("start", {}, 0, 0, {})}

\* admitted tasks
Tasks(agent, resume, models, modes) ==
  [agent : {agent}, resume : resume, model : models, effort : {NoValue, "high"}, mode : modes]
MCStartTasks ==
       Tasks("zcode", BOOLEAN, {NoValue, "zai/glm", "glm"}, {"build"})
  \cup Tasks("codex", BOOLEAN, {"gpt"}, {"plan", "build", "yolo"})
  \cup Tasks("dsh", {FALSE}, {NoValue, "p:m"}, {"build"})
  \cup Tasks("agy", BOOLEAN, {NoValue, "slug"}, {"build"})
\* a model token of DSH with a slash in it
SlashTasks == MCStartTasks \cup Tasks("dsh", {FALSE}, {"p:v/m"}, {"build"})

\* launches: of every user composition, of every task, in every environment
Ready == [gate |-> "Enabled", runtime |-> "executable", home |-> "absolute", configured |-> Nil,
          profile |-> "acp", patch |-> "managed", composition |-> Shipped]
Launched(agent, mode, manifest) ==
  [admission |-> agent, mode |-> mode, manifest |-> manifest, workspace |-> "workspace",
   model |-> "m", effort |-> Nil, session |-> Nil]
DshTasks == {Launched("dsh", "plan", Nil), Launched("dsh", "build", "."), Launched("dsh", "build", "src")}
MCLaunchCases ==
       [task : DshTasks,
        env : {[Ready EXCEPT !.composition = c, !.patch = p] : c \in Compositions, p \in {"managed", "own"}}]
  \cup [task : [admission : {Nil, "zcode", "codex", "agy", "dsh", "other"}, mode : {"plan", "build", "edit", "yolo"},
                manifest : {".", "src", "oversize"}, workspace : {"workspace", "relative"},
                model : {Nil, "m"}, effort : {Nil, "low", "ultra"}, session : {Nil, "s1"}],
        env : {Ready}]
  \cup [task : DshTasks \cup {Launched(a, "build", ".") : a \in {"codex", "agy"}},
        env : [gate : {"Closed", "Enabled"}, runtime : {Nil, "executable", "file", "missing"},
               home : {Nil, "absolute", "relative"}, configured : {Nil, "absolute"},
               profile : {Nil, "acp", "web"}, patch : {"managed"}, composition : {Shipped}]]

MCInit ==
  /\ ProcessInit /\ ZInit /\ CodexInit /\ DshInit /\ AgyInit
  /\ IF scope.agent = "start" THEN StartInit
     ELSE StartInit /\ task = CHOOSE t \in StartTasks : t.agent = "agy" /\ t.resume
  /\ IF scope.agent = "launch" THEN LaunchInit
     ELSE /\ lcase = [task |-> Launched("agy", "build", "."), env |-> [Ready EXCEPT !.composition = << >>]]
          /\ launch = [pc |-> "spawn", tree |-> FALSE, patch |-> NoPatch, permission |-> Nil, child |-> Nil, error |-> Nil]
  /\ ProbeInit
  /\ scope.agent # "probe" => group = [leader |-> "running", kid |-> FALSE, long |-> FALSE]

MCNext ==
  \/ scope.agent = "zcode" /\ ZNext /\ UNCHANGED <<cvars, dvars, avars, startVars, launchVars, probeVars>>
  \/ scope.agent = "codex" /\ CodexNext /\ UNCHANGED <<zvars, dvars, avars, startVars, launchVars, probeVars>>
  \/ scope.agent = "dsh" /\ DshNext /\ UNCHANGED <<zvars, cvars, avars, startVars, launchVars, probeVars>>
  \/ scope.agent = "agy" /\ AgyNext /\ UNCHANGED <<zvars, cvars, dvars, startVars, launchVars, probeVars>>
  \/ /\ scope.agent = "start" /\ StartNext
     /\ UNCHANGED <<scope, processVars, zvars, cvars, dvars, avars, launchVars, probeVars>>
  \/ /\ scope.agent = "launch" /\ LaunchNext
     /\ UNCHANGED <<scope, processVars, zvars, cvars, dvars, avars, startVars, probeVars>>
  \/ /\ scope.agent = "probe" /\ ProbeNext
     /\ UNCHANGED <<scope, processVars, zvars, cvars, dvars, avars, startVars, launchVars>>

MCSpec == MCInit /\ [][MCNext]_allVars
-----------------------------------------------------------------------------
=============================================================================
