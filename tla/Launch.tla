------------------------------- MODULE Launch -------------------------------
(***************************************************************************)
(* Launching a claimed task: the route to its agent's factory, what each   *)
(* factory resolves and refuses, the DSH preflight, and how long the files *)
(* made for a DSH launch live.                                             *)
(***************************************************************************)
EXTENDS DshProfile
CONSTANT LaunchCases  \* what is launched and where: [task, env]

VARIABLES
  lcase,   \* the claimed task and the daemon's environment
  launch   \* the call: where it is, the temporary tree, the child or the error

launchVars == <<lcase, launch>>

ltask == lcase.task
env == lcase.env

LaunchInit ==
  /\ lcase \in LaunchCases
  /\ launch = [pc |-> "spawn", tree |-> FALSE, patch |-> NoPatch, permission |-> Nil,
               child |-> Nil, error |-> Nil]

RefuseLaunch(kind) ==
  /\ launch' = [launch EXCEPT !.pc = "refused", !.tree = FALSE, !.error = kind]
  /\ UNCHANGED lcase
Spawned(child) ==
  /\ launch' = [launch EXCEPT !.pc = "running", !.child = child]
  /\ UNCHANGED lcase

\* what every child is started with
Child(agent) ==
  [agent |-> agent, cwd |-> ltask.workspace, mode |-> ltask.mode, manifest |-> Nil, home |-> env.home,
   model |-> Nil, effort |-> Nil, conversation |-> Nil, composition |-> << >>]

TaskAgent == IF ltask.admission = Nil THEN "zcode" ELSE ltask.admission
Routed(agent) == launch.pc = "spawn" /\ TaskAgent = agent

RouteUnknown ==
  /\ launch.pc = "spawn" /\ TaskAgent \notin {"zcode", "codex", "agy", "dsh"}
  /\ RefuseLaunch("InvalidInput")

RuntimePathExecutable == env.runtime = "executable"

----------------------------------------------------------------------------
\* ZCode: the daemon's policy envelope goes to every child

PolicyEnvironmentFits == ltask.workspace # "relative" /\ ltask.manifest # "oversize"
ZCodeSpawn ==
  /\ Routed("zcode")
  /\ \/ /\ PolicyEnvironmentFits
        /\ Spawned([Child("zcode") EXCEPT !.manifest = ltask.manifest])
     \/ ~PolicyEnvironmentFits /\ RefuseLaunch("InvalidInput")

\* Codex: the identity is checked before the gate, the gate before the environment
ResolveCodexHome(configured, inherited) == IF configured # Nil THEN configured ELSE inherited
CodexHome == ResolveCodexHome(env.configured, env.home)
CodexLaunchError ==
  CASE ltask.model = Nil -> "InvalidInput"
    [] ltask.model # Nil /\ env.gate = "Closed" -> "PermissionDenied"
    [] OTHER -> IF env.runtime = Nil THEN "NotFound"
                ELSE IF ~RuntimePathExecutable THEN "InvalidInput"
                ELSE IF CodexHome = Nil THEN "NotFound"
                ELSE IF CodexHome = "relative" THEN "InvalidInput" ELSE Nil
CodexSpawn ==
  /\ Routed("codex")
  /\ IF CodexLaunchError # Nil THEN RefuseLaunch(CodexLaunchError)
     ELSE Spawned([Child("codex") EXCEPT !.model = ltask.model, !.home = CodexHome])

\* agy: build and yolo only; the persisted session is the conversation
AgyPermission == ltask.mode \in {"build", "yolo"}
AgyEffortKnown == ltask.effort \in {Nil, "low", "medium", "high"}
AgyLaunchError ==
  CASE ~AgyPermission \/ ~AgyEffortKnown -> "InvalidInput"
    [] AgyPermission /\ AgyEffortKnown /\ env.gate = "Closed" -> "PermissionDenied"
    [] OTHER -> IF env.runtime = Nil THEN "NotFound"
                ELSE IF ~RuntimePathExecutable THEN "InvalidInput" ELSE Nil

AgySpawn ==
  /\ Routed("agy")
  /\ IF AgyLaunchError # Nil THEN RefuseLaunch(AgyLaunchError)
     ELSE Spawned([Child("agy") EXCEPT !.model = ltask.model, !.effort = ltask.effort,
                                       !.conversation = ltask.session])

----------------------------------------------------------------------------
\* DSH: what is resolved for the mode, the two probes, and the child with the
\* very command that was probed

IsWorkspaceRootManifest == ltask.manifest = "."
DshKind == IF ltask.mode = "plan" THEN "plan" ELSE IF IsWorkspaceRootManifest THEN "build" ELSE "manifest"

ResolveLaunchError ==
  CASE env.runtime \notin {"executable", "file"} -> "InvalidInput"
    [] ltask.workspace # "workspace" -> "InvalidInput"
    \* the manifest launch keeps no other profile name
    [] env.profile = "web" /\ DshKind # "manifest" -> "InvalidInput"
    [] env.home = "relative" -> "InvalidInput"
    [] OTHER -> Nil

DshSpawnRefused ==
  /\ Routed("dsh")
  /\ \/ env.gate = "Closed" /\ RefuseLaunch("PermissionDenied")
     \/ env.gate # "Closed" /\ env.runtime = Nil /\ RefuseLaunch("NotFound")

\* the strict patch, unless the environment names another; the guard tree,
\* whose package may not be found above the runtime
DshMaterializes ==
  /\ Routed("dsh") /\ env.gate # "Closed" /\ env.runtime # Nil
  /\ launch' = [launch EXCEPT
       !.pc = "version",
       !.permission = IF DshKind = "plan" THEN "read-only" ELSE "workspace-write",
       !.tree = DshKind = "manifest" \/ (DshKind = "plan" /\ env.patch = "managed"),
       !.patch = CASE DshKind = "plan" -> IF env.patch = "managed" THEN StrictPlanPatch ELSE NoPatch
                   [] DshKind = "build" -> NoPatch
                   [] DshKind = "manifest" -> ManifestBuildPatch(ltask.manifest)]
  /\ UNCHANGED lcase
DshMaterializeFails ==
  /\ Routed("dsh") /\ env.gate # "Closed" /\ env.runtime # Nil
  /\ DshKind = "manifest" \/ (DshKind = "plan" /\ env.patch = "managed")
  /\ RefuseLaunch("Other")

\* every preflight error is reported as PermissionDenied
DshProbesVersion ==
  /\ launch.pc = "version"
  /\ \/ ResolveLaunchError # Nil /\ RefuseLaunch("PermissionDenied")
     \/ /\ ResolveLaunchError = Nil
        /\ \/ RefuseLaunch("PermissionDenied")     \* it does not start, or names no version
           \/ launch' = [launch EXCEPT !.pc = "dump"] /\ UNCHANGED lcase

Accepts(c) ==
  CASE DshKind = "plan" -> ValidateDumpPolicy(c)
    [] DshKind = "build" -> ValidateBuildDump(c)
    [] DshKind = "manifest" -> ValidateManifestBuildDump(c, ltask.manifest)
RejectsPatchFailure == PatchFails(env.composition, launch.patch)

DshProbesDump ==
  /\ launch.pc = "dump"
  /\ \E merge \in BOOLEAN :
       LET c == Patched(env.composition, launch.patch, merge) IN
         IF RejectsPatchFailure \/ ~Accepts(c) THEN RefuseLaunch("PermissionDenied")
         ELSE Spawned([Child("dsh") EXCEPT !.mode = launch.permission, !.composition = c])
DshDumpFails == launch.pc = "dump" /\ RefuseLaunch("PermissionDenied")

----------------------------------------------------------------------------
\* The owner's drop ends the child's group before its files go

OwnerDropped ==
  /\ launch.pc = "running"
  /\ launch' = [launch EXCEPT !.pc = "dropped", !.child = Nil]
  /\ UNCHANGED lcase
TreeRemoved ==
  /\ launch.pc = "dropped"
  /\ launch' = [launch EXCEPT !.pc = "gone", !.tree = FALSE]
  /\ UNCHANGED lcase

LaunchNext ==
  \/ RouteUnknown \/ ZCodeSpawn \/ CodexSpawn \/ AgySpawn
  \/ DshSpawnRefused \/ DshMaterializes \/ DshMaterializeFails
  \/ DshProbesVersion \/ DshProbesDump \/ DshDumpFails
  \/ OwnerDropped \/ TreeRemoved

----------------------------------------------------------------------------
(***************************************************************************)
(* A DSH child runs with the sandbox of its task's mode over the task's    *)
(* workspace and asks about the rest, whatever the user's profile and      *)
(* whether or not the patch took effect; a plan child has no tool that     *)
(* writes, and a child with a write manifest has the guard of just that    *)
(* manifest and no other such tool than tool-fs (preflight,                *)
(* preflight_build, preflight_build_manifest).                             *)
(***************************************************************************)
DshChildConfined ==
  launch.child # Nil /\ launch.child.agent = "dsh" =>
    LET c == launch.child.composition
        on == {i \in 1..Len(c) : Enabled(c[i])}
    IN  /\ Confined(c, IF ltask.mode = "plan" THEN "read-only" ELSE "workspace-write", launch.permission)
        /\ DshKind = "plan" => \A i \in on : c[i].id \notin Dangerous
        /\ DshKind = "manifest" =>
             /\ \A i \in on : c[i].id \notin Dangerous \ {"tool-fs"} /\ (c[i].id = Nil => c[i].value = ltask.manifest)
             /\ \E i \in on : c[i].name = "guard"

(***************************************************************************)
(* The temporary tree a DSH child reads its patch and its guard from is    *)
(* there as long as the child, and a refused or ended launch leaves none.  *)
(***************************************************************************)
TreeOutlivesChild ==
  /\ launch.child # Nil /\ launch.patch # NoPatch => launch.tree
  /\ launch.pc \in {"refused", "gone"} => ~launch.tree

(***************************************************************************)
(* What was admitted is what the child is started with: its agent, its     *)
(* workspace and mode, the manifest or the conversation it goes on with    *)
(* (RoutingRuntimeFactory::spawn and the four factories).                  *)
(***************************************************************************)
AdmittedReachesChild ==
  launch.child # Nil =>
    /\ launch.child.agent = TaskAgent /\ launch.child.cwd = ltask.workspace
    /\ TaskAgent = "zcode" => launch.child.manifest = ltask.manifest
    /\ TaskAgent = "agy" => launch.child.conversation = ltask.session /\ launch.child.mode \notin {"plan", "edit"}
    /\ TaskAgent = "codex" => launch.child.home = "absolute" /\ launch.child.model # Nil
=============================================================================
