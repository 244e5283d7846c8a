---------------------------- MODULE AgentStatus ----------------------------
(***************************************************************************)
(* The evidence the daemon keeps about one agent (agent_status.rs,         *)
(* AgentEvidenceStore) and the calls that write and show it: agent_probe,  *)
(* agent_models, system_status with its automatic local refresh, and the   *)
(* version advisory of a failed task (rpc/handlers.rs).  Calls run on      *)
(* connection threads; a call reads the configuration, inspects the        *)
(* runtime without a lock and merges what it found under the store's lock. *)
(***************************************************************************)
EXTENDS Naturals, FiniteSets

CONSTANTS
  Nil,
  Agents,        \* "zcode", "dsh", "agy", "codex"
  Callers,       \* concurrent calls
  Workspaces,    \* workspaces a caller may name
  Failing,       \* what a failed inspection may come to: "DEGRADED", "UNAVAILABLE"
  MaxRevision,   \* bound: edits of the configuration
  MaxCalls       \* bound: calls in a behaviour

VARIABLES
  agent,    \* the agent the calls are about
  revision, \* AgentConfigSnapshot.revision
  readable, \* the configuration file can be read
  latest,   \* AgentEvidenceStore.latest: Nil or the three layers
  models,   \* AgentEvidenceStore.models_latest: Nil or the catalog
  call,     \* per caller: where it is and what it holds
  started   \* calls made so far

vars == <<agent, revision, readable, latest, models, call, started>>

Layers == {"local", "auth", "hi"}
States == {"READY", "DEGRADED", "UNAVAILABLE", "UNKNOWN"}
Revisions == 1..MaxRevision

\* ProbeScope: the home is filled in from the daemon's environment (only
\* CODEX_HOME would do for Codex, and is unset), a ZCode prompt without a
\* workspace gets a directory of its own
Scopes == [ws : {Nil, "own"} \cup Workspaces, home : {Nil, "env"}]
NoScope == [ws |-> Nil, home |-> Nil]
Completed(scope, through) ==
  [ws |-> IF agent = "zcode" /\ through = "hi" /\ scope.ws = Nil THEN "own" ELSE scope.ws,
   home |-> IF agent = "codex" THEN scope.home ELSE "env"]

\* ScopeEvidence; inspected is a ghost: the revision of the call that looked
Evidence(state, why, scope, inspected) ==
  [state |-> state, why |-> why, scope |-> scope, inspected |-> inspected]
Unprobed(scope) == Evidence("UNKNOWN", "not_probed", scope, Nil)

\* undisturbed is a ghost: nothing was recorded since the call read the scope
Idle == [pc |-> "idle", op |-> Nil, through |-> Nil, scope |-> NoScope, rev |-> Nil,
         undisturbed |-> FALSE, view |-> Nil]

Init ==
  /\ agent \in Agents
  /\ revision = 1 /\ readable = TRUE
  /\ latest = Nil /\ models = Nil
  /\ call = [c \in Callers |-> Idle]
  /\ started = 0

-----------------------------------------------------------------------------
(* ProcessProbeBackend::probe, by what it can report                       *)

LocalFindings(scope, r) ==
  {Evidence(s, "local", scope, r) : s \in {"READY"} \cup Failing}

\* unavailable: a rate limit is DEGRADED, the dsh probe has its own
HiFindings(scope, r) ==
  {Evidence(s, "hi", scope, r) :
     s \in {"READY"} \cup IF agent = "dsh" THEN {"UNAVAILABLE"} ELSE Failing}

\* what auth and hi are, by the layer asked for and the local finding; DSH and
\* agy have no credential check of their own, Codex is never prompted
UpperFindings(through, l) ==
  LET u == Unprobed(l.scope)
      hi == HiFindings(l.scope, l.inspected)
  IN CASE through = "local" \/ agent = "codex" -> {<<u, u>>}
       [] agent = "zcode" /\ l.state # "READY" -> {<<l, IF through = "hi" THEN l ELSE u>>}
       [] agent = "zcode" /\ through = "auth" -> {<<[u EXCEPT !.why = "auth_requires_hi"], u>>}
       [] agent = "zcode" -> {<<h, h>> : h \in hi}
       [] OTHER -> {<<u, h>> : h \in IF through = "hi" THEN hi ELSE {u}}

Findings(through, scope, r) ==
  UNION {{[local |-> l, auth |-> up[1], hi |-> up[2]] : up \in UpperFindings(through, l)} :
           l \in LocalFindings(scope, r)}

-----------------------------------------------------------------------------
(* AgentEvidenceStore                                                      *)


preserved_or_stale(value, scope, previous, current) ==
  IF previous # current THEN [value EXCEPT !.state = "UNKNOWN", !.why = "stale"]
  ELSE IF value.scope = scope THEN value
  ELSE Unprobed(scope)

\* the layers above the one asked for keep what an earlier probe found
Merged(found, through, scope, r) ==
  LET kept(layer) == preserved_or_stale(latest[layer], scope, latest.revision, r)
      above == CASE through = "local" -> {"auth", "hi"} [] through = "auth" -> {"hi"} [] OTHER -> {}
  IN [revision |-> r, local |-> found.local,
      auth |-> IF latest # Nil /\ "auth" \in above THEN kept("auth") ELSE found.auth,
      hi |-> IF latest # Nil /\ "hi" \in above THEN kept("hi") ELSE found.hi]

-----------------------------------------------------------------------------
(* The calls                                                               *)

\* read_agent_config_snapshot comes first: without it a probe or a sweep fails,
\* a status shows its agents as unconfigured and an advisory is left out
ReadConfig(c, op, through, scope, next) ==
  /\ call' = [call EXCEPT ![c] =
       IF readable THEN [Idle EXCEPT !.pc = next, !.op = op, !.through = through,
                                     !.scope = scope, !.rev = revision]
       ELSE Idle]
  /\ UNCHANGED <<agent, revision, readable, latest, models>>

Begin(c, op, through, scope, next) ==
  /\ call[c].pc = "idle" /\ started < MaxCalls
  /\ started' = started + 1
  /\ ReadConfig(c, op, through, scope, next)

AgentProbe(c) ==
  \E through \in Layers, scope \in Scopes :
    scope.ws # "own" /\ Begin(c, "probe", through, scope, "insert")
AgentModels(c) == Begin(c, "models", Nil, NoScope, "models")
SystemStatus(c) == Begin(c, "status", "local", NoScope, "scope")
SystemStatusRefresh(c) == Begin(c, "sweep", Nil, NoScope, "models")
Advisory(c) == Begin(c, "advisory", "local", NoScope, "scope")

\* auto_probe_no_llm_layers, probe_local_version: the scope recorded last
ReadScope(c) ==
  /\ call[c].pc = "scope"
  /\ call' = [call EXCEPT ![c].scope = IF latest = Nil THEN NoScope ELSE latest.local.scope,
                          ![c].undisturbed = TRUE, ![c].pc = "insert"]
  /\ UNCHANGED <<agent, revision, readable, latest, models, started>>

\* the inspection needs no lock and touches nothing shared; its result is
\* merged and recorded in one step
Insert(c) ==
  /\ call[c].pc = "insert"
  /\ \E found \in Findings(call[c].through, Completed(call[c].scope, call[c].through), call[c].rev) :
       latest' = Merged(found, call[c].through, call[c].scope, call[c].rev)
  /\ call' = [d \in Callers |->
       IF d # c THEN [call[d] EXCEPT !.undisturbed = FALSE]
       ELSE IF call[c].op = "advisory" THEN Idle ELSE [call[c] EXCEPT !.pc = "view"]]
  /\ UNCHANGED <<agent, revision, readable, models, started>>

\* models_sweep goes on as a status, which reads the configuration again
InsertModels(c) ==
  /\ call[c].pc = "models"
  /\ \E supported \in BOOLEAN :
       models' = [revision |-> call[c].rev, supported |-> supported, inspected |-> call[c].rev]
  /\ call' = [call EXCEPT ![c] = IF call[c].op = "sweep" THEN [Idle EXCEPT !.pc = "swept"] ELSE Idle]
  /\ UNCHANGED <<agent, revision, readable, latest, started>>

StatusAfterSweep(c) ==
  /\ call[c].pc = "swept"
  /\ ReadConfig(c, "status", "local", NoScope, "scope")
  /\ UNCHANGED started

\* current_scope and models_status
Shown(layer, r) ==
  IF latest = Nil THEN Unprobed(NoScope)
  ELSE IF latest.revision = r THEN latest[layer]
  ELSE [latest[layer] EXCEPT !.state = "UNKNOWN", !.why = "stale"]

ShownModels(r) ==
  IF models = Nil THEN Nil
  ELSE IF models.revision = r THEN models ELSE [models EXCEPT !.supported = FALSE]

\* configured_agent_statuses reads evidence and catalog under the call's config
View(c) ==
  /\ call[c].pc = "view"
  /\ LET r == call[c].rev
     IN call' = [call EXCEPT ![c].pc = "done",
                   ![c].view = [local |-> Shown("local", r), auth |-> Shown("auth", r),
                                hi |-> Shown("hi", r), models |-> ShownModels(r)]]
  /\ UNCHANGED <<agent, revision, readable, latest, models, started>>

Return(c) ==
  /\ call[c].pc = "done"
  /\ call' = [call EXCEPT ![c] = Idle]
  /\ UNCHANGED <<agent, revision, readable, latest, models, started>>

\* the CLI writes a new revision, or the file cannot be read for a while
EditConfig ==
  /\ revision < MaxRevision
  /\ revision' = revision + 1
  /\ readable' = TRUE
  /\ UNCHANGED <<agent, latest, models, call, started>>

DamageConfig ==
  /\ readable
  /\ readable' = FALSE
  /\ UNCHANGED <<agent, revision, latest, models, call, started>>

RepairConfig ==
  /\ ~readable
  /\ readable' = TRUE
  /\ UNCHANGED <<agent, revision, latest, models, call, started>>

Step(c) ==
  \/ AgentProbe(c) \/ AgentModels(c) \/ SystemStatus(c) \/ SystemStatusRefresh(c) \/ Advisory(c)
  \/ ReadScope(c) \/ Insert(c) \/ InsertModels(c) \/ StatusAfterSweep(c)
  \/ View(c) \/ Return(c)

Next == EditConfig \/ DamageConfig \/ RepairConfig \/ \E c \in Callers : Step(c)

Spec == Init /\ [][Next]_vars

-----------------------------------------------------------------------------

\* Evidence, catalogs and the calls in progress have the shapes of
\* AgentEvidenceStore; in particular every scope in use is a complete one.
TypeOK ==
  /\ agent \in Agents /\ revision \in Revisions /\ readable \in BOOLEAN
  /\ latest # Nil => /\ latest.revision \in Revisions
                     /\ \A l \in Layers : /\ latest[l].state \in States
                                          /\ latest[l].scope \in Scopes
                                          /\ latest[l].inspected \in Revisions \cup {Nil}
  /\ models # Nil => models.supported \in BOOLEAN
  /\ \A c \in Callers : call[c].scope \in Scopes

\* What a view shows as READY, or as a supported catalog, was inspected by a
\* call that had read the very configuration the view is about: nothing found
\* under another revision is ever shown as current, however calls interleave.
ShownIsCurrent ==
  \A c \in Callers :
    call[c].view # Nil =>
      /\ \A l \in Layers : call[c].view[l].state = "READY" => call[c].view[l].inspected = call[c].rev
      /\ LET m == call[c].view.models IN m # Nil /\ m.supported => m.inspected = call[c].rev

\* A prompt that was answered is on record only beside local evidence of the
\* same workspace and home: the layers of one status never mix two scopes.
OneScope ==
  latest # Nil => \A l \in {"auth", "hi"} : latest[l].state = "READY" => latest[l].scope = latest.local.scope

\* ZCode's credentials are proved by its prompt alone: they are on record as
\* READY only while the prompt is.
AuthProvedByHi ==
  latest # Nil /\ latest.auth.state = "READY" => agent = "zcode" /\ latest.hi.state = "READY"

\* The automatic refresh of a status, and the one of an advisory, leave auth
\* and hi exactly as they were, when nothing was recorded since they read the
\* scope and the configuration has not changed.
RefreshKeeps ==
  \A c \in Callers, l \in {"auth", "hi"} :
    (/\ Insert(c) /\ call[c].op \in {"status", "advisory"}
     /\ call[c].undisturbed /\ latest # Nil /\ latest.revision = call[c].rev
     /\ latest[l].state # "UNKNOWN")
    => latest'[l] = latest[l]
=============================================================================
