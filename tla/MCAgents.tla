------------------------------ MODULE MCAgents ------------------------------
(***************************************************************************)
(* Instances of Admission, AgentStatus and AgentProbe for TLC.  The three  *)
(* do not share state; a behaviour runs one of them, in one of the slices  *)
(* below, while the variables of the others keep their initial values.     *)
(***************************************************************************)
EXTENDS Admission, TLC

\* An entry that opens its agent, and one-field deviations from it.
OpenEntry(a) ==
    [enabled |-> TRUE, spawn_supported |-> TRUE, default_model |-> Absent,
     runtime_path |-> IF a = "zcode" THEN Absent ELSE "exec", home |-> Absent,
     profile |-> IF a = "dsh" THEN "acp" ELSE Absent, version |-> Absent, extra |-> FALSE]

Deviations ==
    {<<"enabled", FALSE>>, <<"enabled", Absent>>, <<"enabled", Bad>>,
     <<"spawn_supported", Absent>>, <<"default_model", "m">>, <<"default_model", "p:m">>,
     <<"default_model", "blank">>, <<"default_model", "">>, <<"default_model", Null>>,
     <<"runtime_path", "plain">>, <<"runtime_path", Null>>, <<"runtime_path", "">>,
     <<"home", "relative">>, <<"home", "exec">>, <<"profile", Absent>>, <<"extra", TRUE>>}

EntriesWith(a, d) ==
    [b \in Agents |-> IF b = a THEN [OpenEntry(b) EXCEPT ![d[1]] = d[2]] ELSE OpenEntry(b)]

Canonical(entries, default) ==
    [schema |-> 2, agents |-> Absent, default_agent |-> Absent, subagents |-> entries,
     default_subagent |-> default, process_model |-> Absent, revision |-> 1, extra |-> FALSE]

Legacy(doc) == [doc EXCEPT !.schema = 1, !.agents = doc.subagents, !.subagents = Absent,
                           !.default_agent = doc.default_subagent, !.default_subagent = Absent]

Base == Canonical([a \in Agents |-> OpenEntry(a)], "codex")

MCDocs ==
    {Missing, Unreadable, Bad, Base, Legacy(Base)}
    \cup {Canonical(EntriesWith(a, d), "codex") : a \in {"zcode", "dsh", "codex"}, d \in Deviations}
    \cup {Canonical([a \in {"agy", "zcode"} |-> OpenEntry(a)], default) :
             default \in {"agy", "dsh", "other", Null, Bad}}
    \cup {[Base EXCEPT !.process_model = p] : p \in {"attached", "detached", "other", Null}}
    \cup {[Base EXCEPT !.schema = 1], [Base EXCEPT !.agents = Base.subagents],
          [Base EXCEPT !.schema = 3], [Base EXCEPT !.schema = Absent],
          [Base EXCEPT !.subagents = Bad], [Base EXCEPT !.extra = TRUE],
          [Base EXCEPT !.subagents = ("other" :> OpenEntry("other")) @@ Base.subagents]}

Profile(k, n, a, m, e, mode, di) ==
    [kind |-> k, name |-> n, subagent |-> a, model |-> m, effort |-> e,
     permission_mode |-> mode, developer_instructions |-> di]

Full  == Profile("good", "n", "agy", "m", "low", "yolo", "short")
Plain == Profile("good", "n", Null, "p:m", Null, Null, "large")

MCDirectories ==
    {Null, Unreadable}
    \cup {(1 :> c) @@ (2 :> d) :
            c \in {Full, Plain, Profile("shape", "n", Null, Null, Null, Null, Null)},
            d \in {Profile("good", "k", "dsh", "p/m", "xhigh", "edit", Null),
                   Profile("shape", "n", Null, Null, Null, Null, Null),
                   Profile("good", "n", "zcode", "p/m", Null, "plan", Null),
                   Profile("good", Null, Null, Null, Null, Null, Null),
                   Profile("syntax", Null, Null, Null, Null, Null, Null),
                   Profile("unreadable", Null, Null, Null, Null, Null, Null)}}

Request(p, a, m, e, mode, di, manifest, prompt) ==
    [profile |-> p, subagent |-> a, model |-> m, effort |-> e, permission_mode |-> mode,
     developer_instructions |-> di, manifest |-> manifest, prompt |-> prompt]

ByProfile ==
    {Request(p, Null, Null, Null, Null, Null, manifest, "text") :
       p \in {"n", "k", "blank"}, manifest \in {"empty", "paths"}}
    \cup {Request("n", "agy", Null, Null, Null, Null, "empty", "text")}

ByAgent ==
    {Request(Null, x[1], x[2], Null, Null, Null, "empty", "text") :
       x \in {<<"zcode", "p/m">>, <<"dsh", Null>>, <<"dsh", "p:m">>, <<"codex", Null>>,
              <<"codex", "p:m">>, <<"agy", Null>>, <<Null, Null>>, <<Null, "p:m">>}}

InFull ==
    {Request(Null, a, m, Null, mode, Null, "empty", "text") :
       a \in Agents \cup {Null}, m \in {Null, "m", "p:m", "p/m", "long"},
       mode \in {Null, "plan", "yolo", "edit"}}
    \cup {Request(Null, a, "p:m", e, Null, di, manifest, "text") :
            a \in {"dsh", "codex", Null}, e \in {Null, "low", "minimal"},
            di \in {Null, "blank", "short", "huge"},
            manifest \in {"empty", "dot", "outside", "huge"}}
    \cup {Request(Null, "zcode", "p/m", Null, mode, di, manifest, prompt) :
            mode \in {Null, "plan"}, di \in {Null, "short", "large"},
            manifest \in {"empty", "paths", "dup", "git"}, prompt \in {"text", "blank", "long"}}
    \cup {Request(Null, a, "blank", Null, Null, Null, "empty", "text") :
            a \in {"dsh", "other", "blank"}}

MCRequests == ByProfile \cup ByAgent \cup InFull

\* Admission, in three slices: every document with a few requests ("docs"),
\* every directory with the requests that name a profile ("profiles"), every
\* request with a few documents ("requests").  AgentStatus, in three: probes,
\* refreshes and edits of ZCode ("evidence") and of DSH ("other"), and
\* catalogs with an unreadable file ("catalog").  AgentProbe is "probe".
VARIABLE slice

VARIABLES agent, revision, readable, latest, models, calls, started
VARIABLES kind, pc, local, child, group, late, terminal, hint, tokens, count,
          outcome, unproven, sent, seen

S == INSTANCE AgentStatus WITH
       Nil <- Null, call <- calls, Callers <- {1, 2}, Workspaces <- {"w"},
       Failing <- {"UNAVAILABLE"}, MaxRevision <- 2, MaxCalls <- 2

P == INSTANCE AgentProbe WITH
       Nil <- Null, Tokens <- {"a", "b"}, MaxModels <- 3, MaxFrames <- 2

statusVars == <<agent, revision, readable, latest, models, calls, started>>
probeVars == <<kind, pc, local, child, group, late, terminal, hint, tokens, count,
               outcome, unproven, sent, seen>>
allVars == <<vars, slice, statusVars, probeVars>>

SomeDirectory == (1 :> Full) @@ (2 :> Profile("good", "k", "dsh", "p/m", "xhigh", "edit", Null))

SomeDocs == {Base, Canonical(EntriesWith("codex", <<"default_model", "m">>), "codex"),
             Canonical(EntriesWith("codex", <<"spawn_supported", Absent>>), "codex"),
             Canonical([a \in {"agy", "zcode"} |-> OpenEntry(a)], "agy")}

MCInit ==
    /\ Init /\ S!Init /\ P!Init
    /\ slice \in {"docs", "profiles", "requests", "evidence", "other", "catalog", "probe"}
    /\ slice \in {"docs", "profiles"} \/ file \in SomeDocs
    /\ slice \in {"docs", "profiles", "requests"} \/ file = Base
    /\ slice = "profiles" => file \in SomeDocs
    /\ slice = "profiles" \/ dir = SomeDirectory
    /\ IF slice = "other" THEN agent = "dsh" ELSE agent = "zcode"
    /\ slice = "probe" \/ kind = "local"

\* Away from the slice about documents one environment is enough.
OneBoot == slice # "docs" /\ boot' # Null => boot'.home # Null /\ boot'.model = "attached"

AdmissionNext ==
    \/ Start /\ OneBoot
    \/ Stop \/ Admit \/ Prepare \/ Reply
    \/ slice = "docs" /\ file = Base /\ EditConfig
    \/ slice = "docs" /\ \E r \in ByAgent : Receive(r)
    \/ slice = "profiles" /\ EditProfiles /\ dir' \in {SomeDirectory, Null}
    \/ slice = "profiles" /\ \E r \in ByProfile : Receive(r)
    \/ slice = "requests" /\ \E r \in InFull : Receive(r)

\* The callers are alike: of two idle ones the first begins.
InTurn(c) == c = 1 \/ calls[1].pc # "idle"

StatusNext ==
    \/ slice = "catalog" /\ (S!DamageConfig \/ S!RepairConfig)
    \/ S!EditConfig
    \/ \E c \in {1, 2} :
         \/ S!ReadScope(c) \/ S!Insert(c) \/ S!View(c) \/ S!Return(c)
         \/ S!InsertModels(c) \/ S!StatusAfterSweep(c)
         \/ slice = "catalog" /\ InTurn(c) /\ (S!AgentModels(c) \/ S!SystemStatusRefresh(c))
         \/ slice # "catalog" /\ InTurn(c)
            /\ (S!AgentProbe(c) \/ S!SystemStatus(c) \/ S!Advisory(c))

MCNext ==
    /\ UNCHANGED slice
    /\ \/ slice \in {"docs", "profiles", "requests"} /\ AdmissionNext /\ UNCHANGED <<statusVars, probeVars>>
       \/ slice \in {"evidence", "other", "catalog"} /\ StatusNext /\ UNCHANGED <<vars, probeVars>>
       \/ slice = "probe" /\ P!Next /\ UNCHANGED <<vars, statusVars>>

MCSpec == MCInit /\ [][MCNext]_allVars /\ (slice = "probe" => P!Fairness)
-----------------------------------------------------------------------------

\* A probe reports what it has seen: READY for a prompt that was answered with
\* nothing suspect on the way, a catalog that has models, and no process left
\* behind unless a driver's stop failed twice (probe_zcode_hi, probe_dsh_models and their kin).
ProbeSound == P!TypeOK /\ P!ReadyEarned /\ P!CatalogUsable /\ P!NothingLeft

\* Whatever the child does, the probe returns.
ProbeEnds == slice = "probe" => P!ProbeEnds
=============================================================================
