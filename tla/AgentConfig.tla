---------------------------- MODULE AgentConfig ----------------------------
(***************************************************************************)
(* The persisted agent configuration: how rpc/config.rs reads, migrates    *)
(* and validates config.json, and what main.rs derives from it once, at    *)
(* start: the per-agent factory gates, the exported launch environment and *)
(* the process model.  Everything here is a function of a document; the    *)
(* machines that read documents at different times are in Admission and    *)
(* AgentStatus.                                                            *)
(*                                                                         *)
(* A raw document is a record of JSON members.  A member is Absent, Null,  *)
(* Bad (a value of the wrong JSON type) or a value; paths are classes:     *)
(* "exec" is an absolute executable file, "plain" an absolute path that is *)
(* not executable, "relative" a relative path.                             *)
(***************************************************************************)
EXTENDS Naturals, Sequences

CONSTANTS Absent, Null, Bad, Missing, Unreadable

Agents == {"zcode", "dsh", "codex", "agy"}

RuntimeFields == {"runtime_path", "home", "profile", "version"}

\* serde_json keeps object members in name order; "other" is any other name.
NameOrder == <<"agy", "codex", "dsh", "other", "zcode">>

Unset == {Absent, Null}

Option(v) == IF v \in Unset THEN Null ELSE v

Flag(v) == IF v = Absent THEN FALSE ELSE v

\* AgentConfigEntry::default for every agent: closed.
ClosedEntry ==
    [enabled |-> FALSE, spawn_supported |-> FALSE, default_model |-> Null,
     runtime_path |-> Null, home |-> Null, profile |-> Null, version |-> Null]

DefaultSnapshot ==
    [code |-> "ok", revision |-> 0, default_subagent |-> Null,
     process_model |-> Null, subagents |-> [a \in Agents |-> ClosedEntry]]

Refuse(code) == [code |-> code]

-----------------------------------------------------------------------------
(* normalize_agent_config_value *)

MalformedEntry(n, e) ==
    \/ e = Bad
    \/ \E f \in RuntimeFields : e[f] \in {"", Bad}
    \/ n = "zcode" /\ e.runtime_path \notin Unset
    \/ Bad \in {e.enabled, e.spawn_supported}
    \/ e.default_model \in {"", Bad}

EntryError(n, e) ==
    IF MalformedEntry(n, e) THEN "validation"
    ELSE IF n = "zcode" /\ e.default_model \notin Unset
         THEN "model_selection_unsupported"
         ELSE "ok"

\* The loop over the entries stops at the first entry it refuses.
FirstEntryError(entries) ==
    LET refused == {i \in 1..Len(NameOrder) :
                      /\ NameOrder[i] \in DOMAIN entries
                      /\ EntryError(NameOrder[i], entries[NameOrder[i]]) # "ok"}
        first == CHOOSE i \in refused : \A j \in refused : i <= j
    IN  IF refused = {} THEN "ok"
        ELSE EntryError(NameOrder[first], entries[NameOrder[first]])

\* Which member names the document uses, against its schema_version.
FieldsMismatch(doc) ==
    LET legacy    == doc.agents # Absent \/ doc.default_agent # Absent
        canonical == doc.subagents # Absent \/ doc.default_subagent # Absent
    IN  \/ legacy /\ canonical
        \/ doc.schema = 1 /\ canonical
        \/ doc.schema = 2 /\ legacy

EntriesOf(doc) == IF doc.agents # Absent THEN doc.agents ELSE doc.subagents

DefaultOf(doc) ==
    IF doc.default_agent # Absent THEN doc.default_agent ELSE doc.default_subagent

Normalize(doc) ==
    IF doc = Bad \/ doc.schema \notin {Absent, 1, 2} \/ FieldsMismatch(doc)
    THEN "validation"
    ELSE IF EntriesOf(doc) = Absent THEN "ok"
    ELSE IF EntriesOf(doc) \in {Null, Bad} THEN "validation"
    ELSE FirstEntryError(EntriesOf(doc))

-----------------------------------------------------------------------------
(* parse_agent_config_snapshot *)

\* The typed decode, with deny_unknown_fields.
Undecodable(doc) ==
    \/ doc.extra
    \/ DefaultOf(doc) = Bad
    \/ doc.process_model = Bad
    \/ /\ EntriesOf(doc) # Absent
       /\ \E n \in DOMAIN EntriesOf(doc) : EntriesOf(doc)[n].extra

Entry(e) ==
    [enabled |-> Flag(e.enabled), spawn_supported |-> Flag(e.spawn_supported),
     default_model |-> Option(e.default_model),
     runtime_path |-> Option(e.runtime_path), home |-> Option(e.home),
     profile |-> Option(e.profile), version |-> Option(e.version)]

Snapshot(doc) ==
    LET entries == EntriesOf(doc)
    IN  [code |-> "ok", revision |-> doc.revision,
         default_subagent |-> Option(DefaultOf(doc)),
         process_model |-> Option(doc.process_model),
         subagents |-> [a \in Agents |->
            IF entries # Absent /\ a \in DOMAIN entries
            THEN Entry(entries[a]) ELSE ClosedEntry]]

Parse(doc) ==
    IF Normalize(doc) # "ok" THEN Refuse(Normalize(doc))
    ELSE IF Undecodable(doc) THEN Refuse("validation")
    ELSE IF Option(doc.process_model) \notin {Null, "auto", "detached", "attached"}
         THEN Refuse("validation")
    ELSE IF EntriesOf(doc) # Absent /\ ~(DOMAIN EntriesOf(doc) \subseteq Agents)
         THEN Refuse("validation")
    ELSE LET s == Snapshot(doc)
         IN  IF s.default_subagent = Null THEN s
             ELSE IF s.default_subagent \notin Agents THEN Refuse("agent_unknown")
             ELSE IF ~s.subagents[s.default_subagent].enabled
                  THEN Refuse("agent_disabled")
                  ELSE s

\* read_agent_config_snapshot: a missing file is the closed default.
ReadSnapshot(file) ==
    IF file = Missing THEN DefaultSnapshot
    ELSE IF file = Unreadable THEN Refuse("validation")
    ELSE Parse(file)

\* What serializing a snapshot writes: the canonical document.
Serialize(s) ==
    [schema |-> 2, agents |-> Absent, default_agent |-> Absent,
     default_subagent |-> s.default_subagent,
     subagents |-> [a \in Agents |->
        [f \in DOMAIN ClosedEntry \cup {"extra"} |->
           IF f = "extra" THEN FALSE ELSE s.subagents[a][f]]],
     process_model |-> s.process_model, revision |-> s.revision, extra |-> FALSE]

-----------------------------------------------------------------------------
(* rpc/agents.rs: the live gate, and what a status row advertises from it *)

Executable(path) == path = "exec"

effective_spawn_supported(agent, e) ==
    /\ e.enabled
    /\ e.spawn_supported
    /\ agent = "dsh" => e.profile = "acp"
    /\ agent # "zcode" => Executable(e.runtime_path)

permission_modes(agent, e) ==
    IF ~effective_spawn_supported(agent, e) THEN {}
    ELSE IF agent = "dsh" THEN {"build", "plan"}
    ELSE IF agent = "agy" THEN {"build", "yolo"}
    ELSE {"build", "edit", "plan", "yolo"}

-----------------------------------------------------------------------------
(* main.rs: what the daemon takes from the document once, at start *)

\* Faulty variant: the dsh factory also asks for a version.
production_enabledVersioned(agent, file) ==
    LET s == ReadSnapshot(file)
    IN  \/ agent = "zcode"
        \/ /\ file \notin {Missing, Unreadable}
           /\ s.code = "ok"
           /\ s.subagents[agent].enabled
           /\ s.subagents[agent].spawn_supported
           /\ Executable(s.subagents[agent].runtime_path)
           /\ agent = "dsh" => /\ s.subagents[agent].profile = "acp"
                               /\ s.subagents[agent].version # Null

\* dsh_production_enabled, codex_production_enabled, agy_production_enabled;
\* the zcode factory is always constructed.
production_enabled(agent, file) ==
    LET s == ReadSnapshot(file)
    IN  \/ agent = "zcode"
        \/ /\ file \notin {Missing, Unreadable}
           /\ s.code = "ok"
           /\ s.subagents[agent].enabled
           /\ s.subagents[agent].spawn_supported
           /\ Executable(s.subagents[agent].runtime_path)
           /\ agent = "dsh" => s.subagents[agent].profile = "acp"

\* resolve_codex_home: the configured home wins, and an invalid one is not
\* replaced by the inherited one.
resolve_codex_home(configured, inherited) ==
    LET chosen == IF configured # Null THEN configured ELSE inherited
    IN  IF chosen = Null THEN "none"
        ELSE IF chosen = "relative" THEN "invalid" ELSE chosen

\* configure_codex_environment: CODEX_HOME as the daemon exports it.
ExportedHome(file, inherited) ==
    LET s == ReadSnapshot(file)
        home == resolve_codex_home(s.subagents["codex"].home, inherited)
    IN  IF file \in {Missing, Unreadable} \/ s.code # "ok" \/ home = "none"
        THEN inherited
        ELSE IF home = "invalid" THEN Null ELSE home

\* configure_*_environment: the runtime path of an agent as exported; the
\* caller's own value stays when the document has none.
ExportedRuntime(agent, file, inherited) ==
    LET s == ReadSnapshot(file)
    IN  IF file \in {Missing, Unreadable} \/ s.code # "ok"
           \/ s.subagents[agent].runtime_path = Null
        THEN inherited ELSE s.subagents[agent].runtime_path

\* read_runtime_process_model: only the member itself is looked at, so the
\* rest of the document may be anything; a wrong value fails the start.
ReadProcessModel(file) ==
    IF file \in {Missing, Unreadable} \/ file = Bad \/ file.process_model = Absent
    THEN "auto"
    ELSE IF file.process_model \in {"auto", "detached", "attached"}
         THEN file.process_model ELSE "invalid"

\* resolve_runtime_process_model
ResolveProcessModel(requested, available) ==
    IF requested = "attached" THEN "attached"
    ELSE IF available THEN "detached"
    ELSE IF requested = "detached" THEN "refused" ELSE "attached"
=============================================================================
