----------------------------- MODULE Admission -----------------------------
(***************************************************************************)
(* From a spawn request to a prepared task (rpc/handlers.rs SubmitGeneral, *)
(* rpc/agents.rs, external-core general.rs), beside a configuration file   *)
(* and a profile directory that other processes edit at any time and a     *)
(* daemon that took its factory gates and environment from the file once,  *)
(* when it started (main.rs).                                              *)
(*                                                                         *)
(* A request is handled in three reads: the profile directory, then the    *)
(* configuration, then the workspace; an edit may fall between any two.    *)
(* Text is a class: a model token is "m", "long" (a slug over 128 bytes),  *)
(* "p:m", "p:m/x", "p/m" or "blank"; developer instructions are "short",   *)
(* "large" (over the prompt bound), "huge" (over their own) or "blank".    *)
(***************************************************************************)
EXTENDS Profiles

CONSTANTS Docs,        \* what config.json may hold: documents, Missing, Unreadable
          Directories, \* what the profile directory may hold
          Requests,    \* spawn requests
          Inherited,   \* CODEX_HOME in the daemon's own environment
          MaxEdits     \* bound: edits of either, per behaviour

VARIABLES file,   \* config.json
          dir,    \* the profile directory
          boot,   \* what the running daemon took at start, or Null
          call,   \* the spawn request being handled
          edits

vars == <<file, dir, boot, call, edits>>

ValidModel ==
    [zcode |-> {"p/m"}, dsh |-> {"p:m", "p:m/x"}, codex |-> {"m", "p:m"},
     agy |-> {"m", "long"}]

ValidEffort ==
    [zcode |-> {"low", "xhigh", "minimal"}, dsh |-> {"low", "xhigh", "minimal"},
     codex |-> {"low", "xhigh"}, agy |-> {"low"}]

\* resolve_admission falls back to the configured default for these.
DefaultedAgents == {"dsh", "codex", "agy"}

ModeOf(in) == IF in.permission_mode = Null THEN "build" ELSE in.permission_mode

Fail(code, field, blamed) == [ok |-> FALSE, code |-> code, field |-> field, blamed |-> blamed]

\* Faulty variant: whatever is refused, a profile that was loaded is blamed.
FromAnyProfile(in, profile, f) == profile # Null

\* The value of a field came from the profile merged into the request.
FromProfile(in, profile, f) == profile # Null /\ profile[f] # Null /\ in[f] # Null

\* The model a spawn runs with, and where it came from.
SelectedModel(agent, in, e) ==
    IF in.model # Null THEN [token |-> in.model, source |-> "spawn_catalog"]
    ELSE IF agent \in DefaultedAgents /\ e.default_model # Null
         THEN [token |-> e.default_model, source |-> "configured_default"]
         ELSE [token |-> Null, source |-> "native"]

\* A token is refused for its form; zcode and codex need one.
ModelRefused(agent, m) ==
    IF m.token = Null THEN agent \in {"zcode", "codex"}
    ELSE m.token \notin ValidModel[agent]

\* The refusals that belong to one agent, after its model was chosen.
AgentRefusal(agent, in, e, profile, home) ==
    LET mode == ModeOf(in)
        byMode == Fail("agent_unsupported", "permission_mode",
                       profile # Null /\ profile.permission_mode # Null)
        other(code) == Fail(code, Null, FALSE)
        none == [ok |-> TRUE]
    IN  CASE agent = "dsh" ->
               IF mode \notin {"build", "plan"} THEN byMode
               ELSE IF in.manifest = "huge" THEN other("validation") ELSE none
          [] agent = "codex" ->
               IF in.manifest # "empty" THEN other("agent_unsupported")
               ELSE IF e.home = Null /\ home = Null THEN other("agent_unsupported")
               ELSE none
          [] agent = "agy" ->
               IF mode \notin {"build", "yolo"} THEN byMode
               ELSE IF in.manifest # "empty" THEN other("agent_unsupported") ELSE none
          [] agent = "zcode" -> none

\* resolve_admission_with_instructions
Resolve(in, s, instructions, profile, home) ==
    LET from(f) == FromProfile(in, profile, f)
        agent == IF in.subagent # Null THEN in.subagent ELSE s.default_subagent
        e == s.subagents[agent]
        m == SelectedModel(agent, in, e)
        refusal == AgentRefusal(agent, in, e, profile, home)
    IN  IF in.subagent = "blank" THEN Fail("validation", "subagent", from("subagent"))
        ELSE IF in.model = "blank" THEN Fail("validation", "model", from("model"))
        ELSE IF agent = Null THEN Fail("agent_required", "subagent", FALSE)
        ELSE IF agent \notin Agents THEN Fail("agent_unknown", "subagent", from("subagent"))
        ELSE IF ~e.enabled THEN Fail("agent_disabled", "subagent", from("subagent"))
        ELSE IF ~effective_spawn_supported(agent, e)
             THEN Fail("agent_unsupported", "subagent", from("subagent"))
        ELSE IF in.effort # Null /\ in.effort \notin ValidEffort[agent]
             THEN Fail("validation", "effort", from("effort"))
        ELSE IF ModelRefused(agent, m)
             THEN Fail("validation", "model", m.token # Null /\ from("model"))
        ELSE IF ~refusal.ok THEN refusal
        ELSE [ok |-> TRUE, agent |-> agent, revision |-> s.revision,
              model |-> m.token, model_source |-> m.source, effort |-> in.effort,
              developer_instructions |-> IF agent = "codex" THEN instructions ELSE Null]

\* effective_agent of the handler, which decides how instructions travel.
EffectiveAgent(in, s) == IF in.subagent # Null THEN in.subagent ELSE s.default_subagent

-----------------------------------------------------------------------------
(* external-core general.rs: validate_manifest, the scratch directory, the *)
(* write scope, in that order.                                             *)

InvalidManifest(in, spliced) ==
    \/ in.prompt = "long"
    \/ in.prompt = "blank" /\ spliced = Null
    \/ spliced = "large"
    \/ in.manifest = "dup"

\* Refused after the scratch directory was created.
ScopeRefused(in) ==
    \/ in.manifest \in {"outside", "git"}
    \/ ModeOf(in) = "plan" /\ in.manifest # "empty"

WriteScope(in) ==
    IF in.manifest = "empty" /\ ModeOf(in) # "plan" THEN "dot" ELSE in.manifest

AccessMode(mode) == IF mode = "plan" THEN "read_only" ELSE "workspace_write"

-----------------------------------------------------------------------------

NoCall == [pc |-> "idle", in |-> Null, profile |-> Null, given |-> Null,
           spliced |-> Null, snapshot |-> Null, under |-> Null, id |-> Null,
           code |-> "ok", field |-> Null, blamed |-> FALSE, scratch |-> FALSE]

Init ==
    /\ file \in Docs
    /\ dir \in Directories
    /\ boot = Null
    /\ call = NoCall
    /\ edits = 0

\* main: the process model, the gates and the environment, from one document;
\* a process model it cannot honour ends the start.
Start ==
    /\ boot = Null
    /\ \E inherited \in Inherited, available \in BOOLEAN :
         LET model == ResolveProcessModel(ReadProcessModel(file), available)
         IN  boot' = IF ReadProcessModel(file) = "invalid" \/ model = "refused" THEN Null
                     ELSE [file |-> file, model |-> model,
                           opened |-> [a \in Agents |-> production_enabled(a, file)],
                           runtime |-> [a \in {"dsh", "codex", "agy"} |->
                                          ExportedRuntime(a, file, Null)],
                           home |-> ExportedHome(file, inherited)]
    /\ UNCHANGED <<file, dir, call, edits>>

\* The service is stopped; the request it was handling dies with it.
Stop ==
    /\ boot # Null
    /\ boot' = Null
    /\ call' = NoCall
    /\ UNCHANGED <<file, dir, edits>>

EditConfig ==
    /\ edits < MaxEdits
    /\ file' \in Docs \ {file}
    /\ edits' = edits + 1
    /\ UNCHANGED <<dir, boot, call>>

EditProfiles ==
    /\ edits < MaxEdits
    /\ dir' \in Directories \ {dir}
    /\ edits' = edits + 1
    /\ UNCHANGED <<file, boot, call>>

Refused(c, code) == [c EXCEPT !.pc = "refused", !.code = code]

\* The mutex check runs before any profile file is read.
Exclusive(r) == r.profile # Null => \A f \in Selections : r[f] = Null

\* The profile's selections replace the request's own.
Merge(r, p) == [f \in DOMAIN r |-> IF f \in Selections THEN p[f] ELSE r[f]]

Unblanked(di) == IF di = "blank" THEN Null ELSE di

\* The head of SubmitGeneral, up to the read of the configuration.
Receive(r) ==
    LET loaded == load_profile(dir, r.profile)
        base   == [NoCall EXCEPT !.in = r]
        take(in, p) ==
            LET di == Unblanked(in.developer_instructions)
                c  == [base EXCEPT !.in = in, !.profile = p, !.given = di]
            IN  IF di = "huge" THEN Refused(c, "validation") ELSE [c EXCEPT !.pc = "loaded"]
    IN  /\ boot # Null
        /\ call.pc = "idle"
        /\ call' = IF ~Exclusive(r) THEN Refused(base, "validation")
                   ELSE IF r.profile = Null THEN take(r, Null)
                   ELSE IF r.profile = "blank" \/ loaded.code # "ok"
                        THEN Refused(base, "validation")
                        ELSE take(Merge(r, loaded.profile), loaded.profile)
        /\ UNCHANGED <<file, dir, boot, edits>>

\* The configuration is read and the admission resolved against that reading.
Admit ==
    LET s == ReadSnapshot(file)
        native == EffectiveAgent(call.in, s) = "codex"
        out == Resolve(call.in, s, IF native THEN call.given ELSE Null, call.profile, boot.home)
        c   == [call EXCEPT !.snapshot = s, !.under = file,
                            !.spliced = IF native THEN Null ELSE call.given]
    IN  /\ call.pc = "loaded"
        /\ call' = IF s.code # "ok" THEN Refused(call, s.code)
                   ELSE IF out.ok THEN [c EXCEPT !.pc = "admitted", !.id = out]
                   ELSE [Refused(c, out.code) EXCEPT !.field = out.field,
                                                     !.blamed = out.blamed]
        /\ UNCHANGED <<file, dir, boot, edits>>

\* prepare_direct_submission
Prepare ==
    /\ call.pc = "admitted"
    /\ call' = IF InvalidManifest(call.in, call.spliced) THEN Refused(call, "validation")
               ELSE IF ScopeRefused(call.in)
                    THEN [Refused(call, "validation") EXCEPT !.scratch = TRUE]
               ELSE [call EXCEPT !.pc = "prepared", !.scratch = TRUE]
    /\ UNCHANGED <<file, dir, boot, edits>>

Reply ==
    /\ call.pc \in {"refused", "prepared"}
    /\ call' = NoCall
    /\ UNCHANGED <<file, dir, boot, edits>>

Next ==
    \/ Start
    \/ Stop
    \/ EditConfig
    \/ EditProfiles
    \/ \E r \in Requests : Receive(r)
    \/ Admit
    \/ Prepare
    \/ Reply

Spec == Init /\ [][Next]_vars
-----------------------------------------------------------------------------
(* Properties *)

\* The fields of each variable are of their kinds.
TypeOK ==
    /\ file \in Docs
    /\ dir \in Directories
    /\ boot # Null => boot.model \in {"attached", "detached"} /\ boot.file \in Docs
    /\ call.pc \in {"idle", "loaded", "admitted", "prepared", "refused"}
    /\ edits \in 0..MaxEdits

\* Rewriting a configuration that was accepted, from the snapshot it was read
\* as, reads back as the same snapshot: migration from schema 1, defaults for
\* omitted members and null members do not drift over repeated writes
\* (config.rs parse_agent_config_snapshot and its serialization).
ConfigRoundTrips ==
    LET s == ReadSnapshot(file) IN s.code = "ok" => Parse(Serialize(s)) = s

\* No agent is opened by leaving something out: an agent that a snapshot says
\* may spawn has both flags written as true in the file that was read, and the
\* default agent is one of the enabled ones (config.rs, default_enabled).
NothingOpensByOmission ==
    LET s == ReadSnapshot(file)
    IN  s.code = "ok" =>
          /\ \A a \in Agents : effective_spawn_supported(a, s.subagents[a]) =>
               /\ file \notin {Missing, Unreadable}
               /\ a \in DOMAIN EntriesOf(file)
               /\ EntriesOf(file)[a].enabled = TRUE
               /\ EntriesOf(file)[a].spawn_supported = TRUE
          /\ s.default_subagent # Null => s.subagents[s.default_subagent].enabled

\* A task that was prepared under the very document the daemon started from
\* finds its agent's factory open and, for codex, a home exported unless the
\* configured one is relative: the gates of main.rs, evaluated once, and the
\* admission of rpc/agents.rs, evaluated per request, agree.
LaunchableAsAdmitted ==
    call.pc = "prepared" /\ call.under = boot.file =>
        /\ boot.opened[call.id.agent]
        /\ call.id.agent # "zcode" =>
              boot.runtime[call.id.agent] = call.snapshot.subagents[call.id.agent].runtime_path
        /\ call.id.agent = "codex" =>
              \/ boot.home # Null
              \/ call.snapshot.subagents["codex"].home = "relative"

\* What reaches preparation is within what a status row read from the same
\* configuration advertises: the permission mode is listed, the model token has
\* the agent's form, and a read-only task has nothing to write.
WithinAdvertised ==
    call.pc = "prepared" =>
        LET e == call.snapshot.subagents[call.id.agent]
        IN  /\ ModeOf(call.in) \in permission_modes(call.id.agent, e)
            /\ call.id.model # Null => call.id.model \in ValidModel[call.id.agent]
            /\ call.id.agent \in {"zcode", "codex"} => call.id.model # Null
            /\ AccessMode(ModeOf(call.in)) = "read_only" <=> WriteScope(call.in) = "empty"

\* The selections of a profile are the ones the task is admitted with: each one
\* the profile makes is taken, and each one it leaves open falls to the
\* configuration, never to the request (handlers.rs, the merge).
ProfileHonoured ==
    call.pc \in {"admitted", "prepared"} /\ call.profile # Null =>
        LET p == call.profile
        IN  /\ call.id.agent = IF p.subagent # Null THEN p.subagent
                               ELSE call.snapshot.default_subagent
            /\ call.id.model = IF p.model # Null THEN p.model
                               ELSE call.snapshot.subagents[call.id.agent].default_model
            /\ call.id.effort = p.effort
            /\ ModeOf(call.in) = IF p.permission_mode # Null THEN p.permission_mode
                                 ELSE "build"

\* A refusal of a selection points at the profile exactly when the profile made
\* that selection, so nobody is sent to edit a file that is not at fault
\* (AdmissionFailure::profile_provided).
BlameIsExact ==
    call.pc = "refused" /\ call.field # Null =>
        (call.blamed <=> call.profile # Null /\ call.profile[call.field] # Null)

\* Developer instructions reach the agent through exactly one channel: the
\* codex thread or a prefix of the prompt, whichever way the agent was chosen.
InstructionsOnce ==
    call.pc \in {"admitted", "prepared"} /\ call.given # Null =>
        ((call.id.developer_instructions = call.given) <=> (call.spliced # call.given))

\* A profile name stands for one file: a name that two files claim, even when
\* one of them is otherwise invalid, loads neither (profiles.rs F01).
NameHasOneOwner ==
    \A n \in available_profile_names(dir) : Cardinality(Owners(dir, n)) = 1

\* Every file the scan listed is either available or diagnosed, and each side of
\* a name conflict is told so (profiles.rs scan_profiles_dir).
EveryFileAccounted ==
    LET scanned == scan_profiles_dir(dir)
    IN  \A f \in Listed(dir) :
          /\ \/ \E p \in scanned.profiles : p.file = f
             \/ \E d \in scanned.errors : d.file = f
          /\ \A g \in Listed(dir) \ {f} :
               loose_top_level_name(dir[f]) = loose_top_level_name(dir[g]) /\
               loose_top_level_name(dir[f]) # Null =>
                 \E d \in scanned.errors : d.file = f /\ d.dup

\* A configuration that was accepted opens what it says and nothing else, it
\* survives being rewritten, and a task it admits can be launched within what
\* it advertises (parse_agent_config_snapshot, production_enabled).
AdmittedRuns ==
    TypeOK /\ ConfigRoundTrips /\ NothingOpensByOmission /\ LaunchableAsAdmitted /\ WithinAdvertised

\* A spawn request gets what it or its profile asked for: from the one profile
\* of that name, its instructions once, and a refusal that blames the right
\* side (scan_profiles_dir, the merge of handlers.rs).
RequestHonoured ==
    ProfileHonoured /\ BlameIsExact /\ InstructionsOnce /\ NameHasOneOwner /\ EveryFileAccounted
=============================================================================
