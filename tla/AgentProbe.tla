----------------------------- MODULE AgentProbe -----------------------------
(***************************************************************************)
(* One probe of one agent runtime (agent_status.rs, ProcessProbeBackend).  *)
(* Every probe first runs `--version` in a child of its own; the "hi"      *)
(* probes then send one prompt to a second child and the catalog probes    *)
(* read its models, both under a deadline.  The child is external: at      *)
(* every point it may answer, refuse, say something else, exit or be       *)
(* silent.  A stage of the exchange is the request waiting for its answer. *)
(***************************************************************************)
EXTENDS Naturals, FiniteSets

CONSTANTS
  Nil,
  Tokens,     \* the model names a runtime may offer
  MaxModels,  \* DSH_MAX_MODELS, 256 in the code
  MaxFrames   \* frames dsh_call reads for one answer, 256 in the code

VARIABLES
  kind,      \* which probe runs
  pc,        \* "local", "version", "launch", a stage, "cleanup" or "done"
  local,     \* probe_local: Nil, "ready" or the reason it is not
  child,     \* the current child: "none", "running", "exited", "reaped"
  group,     \* a descendant of the current child runs
  late,      \* the deadline has passed
  terminal,  \* ProbeEventCache.terminal: Nil, "completed" or why it failed
  hint,      \* ProbeEventCache.diagnostic_reason
  tokens,    \* the models collected so far
  count,     \* raw models of a codex catalog; frames read by a dsh_call
  outcome,   \* Nil, "ready" or the reason of the failure
  unproven,  \* the driver's stop failed, and the stop of its Drop as well
  sent,      \* ghost: the requests written
  seen       \* ghost: what the second child said

exchange == <<terminal, hint, tokens, count>>
process == <<child, group, unproven>>
vars == <<kind, pc, local, process, late, exchange, outcome, sent, seen>>

HiProbes == {"zcode_hi", "dsh_hi", "agy_hi"}
Catalogs == {"zcode_models", "codex_models", "dsh_models", "agy_models"}
Kinds == {"local"} \cup HiProbes \cup Catalogs

\* probes over a Driver; the others own their child and its process group
Driven == {"zcode_hi", "zcode_models", "codex_models", "dsh_hi"}
ZCode == kind \in {"zcode_hi", "zcode_models"}

\* classify_provider_failure
Failures == {"auth_401", "rate_limit", "network", "transport"}

Stages == {"create", "subscribe", "send", "turn", "initialize", "session/new",
           "prompt", "model/list", "models/list", "list"}

(* Each probe: what it may find wrong before it has a child to talk to,    *)
(* whether it goes on with this local layer, and its first request.        *)

\* probe_zcode_hi
ZCodeHi ==
  [refusals |-> {"workspace_required", "workspace_missing", "transport"},
   goesOn |-> local = "ready", first |-> "create"]

\* probe_zcode_models
ZCodeModels ==
  [refusals |-> {"workspace_required", "workspace_missing", "transport"},
   goesOn |-> local = "ready", first |-> "create"]

\* probe_codex_models
CodexModels ==
  [refusals |-> {"home_required", "home_invalid", "transport"},
   goesOn |-> local = "ready", first |-> "initialize"]

\* probe_dsh_hi does not look at the local layer
DshHi ==
  [refusals |-> {"workspace_missing", "auth_hi_unavailable", "strict_preflight_failed", "network"},
   goesOn |-> TRUE, first |-> "initialize"]

\* probe_dsh_models
DshModels ==
  [refusals |-> {"workspace_required", "workspace_missing", "unsupported_profile", "transport"},
   goesOn |-> local = "ready", first |-> "initialize"]

\* probe_agy_hi needs the file only
AgyHi ==
  [refusals |-> {"workspace_missing", "transport"},
   goesOn |-> local # "missing", first |-> "turn"]

\* probe_agy_models
AgyModels ==
  [refusals |-> {"workspace_required", "transport"},
   goesOn |-> local = "ready", first |-> "list"]

\* which probe a request runs
Plan ==
  [zcode_hi |-> ZCodeHi, zcode_models |-> ZCodeModels, codex_models |-> CodexModels,
   dsh_hi |-> DshHi, dsh_models |-> DshModels, agy_hi |-> AgyHi, agy_models |-> AgyModels]

\* parse_opaque_model_tokens: empty, oversized and repeated names are left out
Offers == SUBSET Tokens

Init ==
  /\ kind \in Kinds
  /\ pc = "local" /\ local = Nil /\ outcome = Nil
  /\ child = "none" /\ group = FALSE /\ unproven = FALSE /\ late = FALSE
  /\ terminal = Nil /\ hint = Nil /\ tokens = {} /\ count = 0
  /\ sent = {} /\ seen = {}

Spawned == child' = "running" /\ group' \in BOOLEAN /\ UNCHANGED unproven

Conclude(o) == pc' = "cleanup" /\ outcome' = o

-----------------------------------------------------------------------------
(* The local layer                                                         *)

\* no file at the path, or `--version` does not start
NoVersionChild ==
  /\ pc = "local"
  /\ local' \in {"missing", "transport"}
  /\ pc' = "launch"
  /\ UNCHANGED <<kind, process, late, exchange, outcome, sent, seen>>

RunVersion ==
  /\ pc = "local"
  /\ pc' = "version"
  /\ Spawned
  /\ UNCHANGED <<kind, local, late, exchange, outcome, sent, seen>>

\* the streams are read until the child exits, and a little longer after it
VersionExits ==
  /\ pc = "version" /\ ~late
  /\ child' = "exited"
  /\ local' \in {"ready", "version", "oversized", "transport"}
  /\ pc' = "cleanup"
  /\ UNCHANGED <<kind, group, unproven, late, exchange, outcome, sent, seen>>

\* too much output, or no exit in time
VersionGivenUp ==
  /\ pc = "version"
  /\ local' = IF late THEN "transport" ELSE "oversized"
  /\ pc' = "cleanup"
  /\ UNCHANGED <<kind, process, late, exchange, outcome, sent, seen>>

-----------------------------------------------------------------------------
(* The exchange: launch, time, and what all of its kinds share             *)

NoLaunch ==
  /\ pc = "launch"
  /\ pc' = "done"
  /\ IF kind = "local" THEN outcome' = local
     ELSE IF ~Plan[kind].goesOn THEN outcome' = local
     ELSE outcome' \in Plan[kind].refusals
  /\ UNCHANGED <<kind, local, process, late, exchange, sent, seen>>

Launch ==
  /\ pc = "launch"
  /\ kind # "local"
  /\ Plan[kind].goesOn
  /\ pc' = Plan[kind].first
  /\ sent' = {Plan[kind].first}
  /\ late' = FALSE
  /\ Spawned
  /\ UNCHANGED <<kind, local, exchange, outcome, seen>>

Tick ==
  /\ pc \in Stages \cup {"version"}
  /\ ~late
  /\ late' = TRUE
  /\ UNCHANGED <<kind, pc, local, process, exchange, outcome, sent, seen>>

FailureReasonOr(fallback) ==
  IF terminal \notin {Nil, "completed"} THEN terminal
  ELSE IF hint # Nil THEN hint ELSE fallback

\* zcode: the deadline is noticed by the request's own wait or by the loop
TimeoutReasons ==
  CASE kind = "dsh_hi" -> {"timeout"}
    [] kind = "codex_models" -> IF pc = "initialize" THEN {"transport", "timeout"} ELSE {"timeout"}
    [] kind = "zcode_models" -> {"create_failed"}
    [] kind = "zcode_hi" /\ pc # "turn" -> {"network", FailureReasonOr("network")}
    [] kind = "dsh_models" /\ pc = "models/list" /\ tokens # {} -> {"ready"}
    [] OTHER -> {"network"}

Timeout ==
  /\ pc \in Stages
  /\ late
  /\ \E r \in TimeoutReasons : Conclude(r)
  /\ UNCHANGED <<kind, local, process, late, exchange, sent, seen>>

Says(e) == pc \in Stages /\ ~late /\ child = "running" /\ seen' = seen \cup {e}

\* the next request shares the deadline, but for dsh_hi, which has one per call
Ask(request) ==
  /\ pc' = request
  /\ sent' = sent \cup {request}
  /\ late' = IF kind = "dsh_hi" THEN FALSE ELSE late

-----------------------------------------------------------------------------
(* ZCode: events are drained before an answer is looked at                 *)

\* Faulty variant: a completion replaces whatever was cached.
ObserveLast(e, reason) ==
  /\ terminal' = CASE e = "completed" -> "completed"
                   [] e \in {"failed", "exit"} -> reason
                   [] OTHER -> terminal
  /\ hint' = hint
  /\ IF pc = "turn" /\ terminal' # Nil
     THEN Conclude(IF terminal' = "completed" THEN "ready" ELSE terminal')
     ELSE UNCHANGED <<pc, outcome>>

\* observe
Observe(e, reason) ==
  /\ terminal' = CASE e = "completed" -> IF terminal = Nil THEN "completed" ELSE terminal
                   [] e = "failed" -> reason
                   [] e = "exit" -> IF hint = Nil THEN reason ELSE hint
                   [] OTHER -> terminal
  /\ hint' = IF e = "failed" \/ (e = "diagnostic" /\ reason # "transport") THEN reason ELSE hint
  /\ IF terminal' \notin {Nil, "completed"}
     THEN Conclude(IF kind = "zcode_models" THEN "create_failed" ELSE terminal')
     ELSE IF pc = "turn" /\ terminal' = "completed" THEN Conclude("ready")
     ELSE UNCHANGED <<pc, outcome>>

\* a turn event, a diagnostic, a request the probe declines, the child's exit
ZCodeEvent ==
  /\ ZCode
  /\ \E e \in {"completed", "failed", "diagnostic", "request", "exit"}, r \in Failures :
       /\ Says(e)
       /\ child' = IF e = "exit" THEN "exited" ELSE child
       /\ Observe(e, r)
  /\ UNCHANGED <<kind, local, group, unproven, late, tokens, count, sent>>

\* a tool, a permission request; a frame that does not parse or match
ZCodeViolation ==
  /\ ZCode
  /\ \E e \in {"tool", "malformed"} :
       /\ Says(e)
       /\ Conclude(IF kind = "zcode_models" THEN "create_failed"
                   ELSE IF e = "tool" THEN "policy_violation" ELSE "transport")
  /\ UNCHANGED <<kind, local, process, late, exchange, sent>>

\* run_read_only_hi; a turn that completed meanwhile is taken at once
HiAnswer ==
  /\ kind = "zcode_hi" /\ pc # "turn"
  /\ Says("answer")
  /\ CASE pc = "create" -> Ask("subscribe") /\ UNCHANGED outcome
       [] pc = "subscribe" -> Ask("send") /\ UNCHANGED outcome
       [] OTHER -> IF terminal = "completed" THEN Conclude("ready") /\ UNCHANGED <<sent, late>>
                   ELSE pc' = "turn" /\ UNCHANGED <<outcome, sent, late>>
  /\ UNCHANGED <<kind, local, process, exchange>>

\* run_zcode_create_catalog: entries without a provider and a model are dropped
CreateAnswer ==
  /\ kind = "zcode_models"
  /\ Says("answer")
  /\ tokens' \in Offers
  /\ Conclude(IF tokens' = {} THEN "model_catalog_empty" ELSE "ready")
  /\ UNCHANGED <<kind, local, process, late, terminal, hint, count, sent>>

ZCodeRefusal ==
  /\ ZCode /\ pc # "turn"
  /\ Says("error")
  /\ \E r \in Failures :
       Conclude(IF kind = "zcode_models" THEN "create_failed" ELSE FailureReasonOr(r))
  /\ UNCHANGED <<kind, local, process, late, exchange, sent>>

-----------------------------------------------------------------------------
(* dsh: one prompt over the ACP session, or its catalog                    *)

DshHiAnswer ==
  /\ kind = "dsh_hi"
  /\ Says("answer")
  /\ CASE pc = "initialize" -> Ask("session/new") /\ UNCHANGED outcome
       [] pc = "session/new" -> Ask("prompt") /\ UNCHANGED outcome
       [] OTHER -> Conclude("ready") /\ UNCHANGED <<sent, late>>
  /\ UNCHANGED <<kind, local, process, exchange>>

\* classify_dsh_session_error
DshHiRefusal ==
  /\ kind = "dsh_hi"
  /\ \E e \in {"error", "exit"} :
       /\ Says(e)
       /\ child' = IF e = "exit" THEN "exited" ELSE child
       /\ \E r \in IF e = "exit" THEN {"network"} ELSE {"auth", "rate_limit", "remote", "shape"} :
            Conclude(r)
  /\ UNCHANGED <<kind, local, group, unproven, late, exchange, sent>>

\* models/list that fails or lists nothing leaves what session/new offered
DshCatalogAnswer ==
  /\ kind = "dsh_models"
  /\ Says("answer")
  /\ count' = 0
  /\ \E offered \in Offers :
       CASE pc = "initialize" -> Ask("session/new") /\ UNCHANGED <<outcome, tokens>>
         [] pc = "session/new" -> Ask("models/list") /\ tokens' = offered /\ UNCHANGED outcome
         [] OTHER -> /\ tokens' = IF offered # {} THEN offered ELSE tokens
                     /\ Conclude(IF tokens' # {} THEN "ready" ELSE "model_catalog_empty")
                     /\ UNCHANGED <<sent, late>>
  /\ UNCHANGED <<kind, local, process, terminal, hint>>

CatalogFails(r) == Conclude(IF pc = "models/list" /\ tokens # {} THEN "ready" ELSE r)

DshCatalogRefusal ==
  /\ kind = "dsh_models"
  /\ \E e \in {"error", "exit", "oversized"} :
       /\ Says(e)
       /\ child' = IF e = "exit" THEN "exited" ELSE child
       /\ \E r \in CASE e = "error" -> Failures \cup {"protocol", "protocol_version"}
                     [] e = "exit" -> Failures
                     [] OTHER -> {"oversized"} :
            CatalogFails(r)
  /\ UNCHANGED <<kind, local, group, unproven, late, exchange, sent>>

\* dsh_call passes over frames of other ids, as many as its bound
DshForeignFrame ==
  /\ kind = "dsh_models"
  /\ Says("request")
  /\ count' = count + 1
  /\ IF count' = MaxFrames THEN CatalogFails("protocol") ELSE UNCHANGED <<pc, outcome>>
  /\ UNCHANGED <<kind, local, process, late, terminal, hint, tokens, sent>>

-----------------------------------------------------------------------------
(* codex: model/list, page by page, under one deadline                     *)

CodexInitialized ==
  /\ kind = "codex_models" /\ pc = "initialize"
  /\ Says("answer")
  /\ \/ Ask("model/list") /\ UNCHANGED outcome
     \/ Conclude("handshake_failed") /\ UNCHANGED <<sent, late>>
  /\ UNCHANGED <<kind, local, process, exchange>>

\* Faulty variant: each page starts a deadline of its own.
CodexPageRenewed ==
  /\ kind = "codex_models" /\ pc = "model/list"
  /\ child = "running" /\ seen' = seen \cup {"answer"}
  /\ \E shown \in Offers, more \in BOOLEAN :
       /\ tokens' = tokens \cup shown
       /\ count' = count + Cardinality(shown)
       /\ late' = FALSE
       /\ IF count' > MaxModels THEN Conclude("oversized") /\ UNCHANGED sent
          ELSE IF more THEN UNCHANGED <<pc, sent, outcome>>
          ELSE Conclude(IF tokens' = {} THEN "model_catalog_empty" ELSE "ready") /\ UNCHANGED sent
  /\ UNCHANGED <<kind, local, process, terminal, hint>>

\* hidden and unusable entries are passed over; duplicates count until the end
CodexPage ==
  /\ kind = "codex_models" /\ pc = "model/list"
  /\ Says("answer")
  /\ \E shown, hidden \in Offers, more \in BOOLEAN :
       /\ tokens' = tokens \cup (shown \ hidden)
       /\ count' = count + Cardinality(shown \ hidden)
       /\ IF count' > MaxModels THEN Conclude("oversized") /\ UNCHANGED <<sent, late>>
          ELSE IF more THEN Ask("model/list") /\ UNCHANGED outcome
          ELSE /\ Conclude(IF tokens' = {} THEN "model_catalog_empty" ELSE "ready")
               /\ UNCHANGED <<sent, late>>
  /\ UNCHANGED <<kind, local, process, terminal, hint>>

CodexRefusal ==
  /\ kind = "codex_models"
  /\ \E e \in {"error", "exit"} :
       /\ Says(e)
       /\ child' = IF e = "exit" THEN "exited" ELSE child
       /\ \E r \in IF e = "exit" \/ pc = "initialize" THEN {"transport"}
                   ELSE {"auth_required", "catalog_refused", "transport"} : Conclude(r)
  /\ UNCHANGED <<kind, local, group, unproven, late, exchange, sent>>

-----------------------------------------------------------------------------
(* agy: the lines of one turn, or what `agy models` prints                 *)

AgyLine ==
  /\ kind = "agy_hi"
  /\ \E e \in {"tool", "completed", "failed", "request", "malformed", "oversized", "exit"} :
       /\ Says(e)
       /\ child' = IF e = "exit" THEN "exited" ELSE child
       /\ CASE e = "request" -> UNCHANGED <<pc, outcome>>
            [] e = "completed" -> Conclude("ready")
            [] e = "tool" -> Conclude("policy_violation")
            [] e = "failed" -> \E r \in Failures : Conclude(r)
            [] e = "malformed" -> \E r \in {"transport", "protocol"} : Conclude(r)
            [] e = "oversized" -> Conclude("oversized")
            [] OTHER -> Conclude("transport")
  /\ UNCHANGED <<kind, local, group, unproven, late, exchange, sent>>

\* the exit status decides between the list and the diagnostic text
AgyModelsExit ==
  /\ kind = "agy_models"
  /\ Says("exit")
  /\ child' = "exited"
  /\ tokens' \in Offers
  /\ \E r \in Failures \cup {"oversized", IF tokens' = {} THEN "model_catalog_empty" ELSE "ready"} :
       Conclude(r)
  /\ UNCHANGED <<kind, local, group, unproven, late, terminal, hint, count, sent>>

AgyModelsOversized ==
  /\ kind = "agy_models"
  /\ Says("oversized")
  /\ \E r \in {"oversized", "transport"} : Conclude(r)
  /\ UNCHANGED <<kind, local, process, late, exchange, sent>>

-----------------------------------------------------------------------------
(* Every way out of a started child ends its group and reaps it:           *)
(* cleanup_catalog_process does, and stop_and_reap unless it fails, in     *)
(* this call and again when the driver is dropped.                         *)

Cleanup ==
  /\ pc = "cleanup"
  /\ \/ child' = "reaped" /\ group' = FALSE /\ UNCHANGED unproven
     \/ outcome # Nil /\ kind \in Driven /\ unproven' = TRUE /\ UNCHANGED <<child, group>>
  /\ pc' = IF outcome = Nil THEN "launch" ELSE "done"
  /\ UNCHANGED <<kind, local, late, exchange, outcome, sent, seen>>

Next ==
  \/ NoVersionChild \/ RunVersion \/ VersionExits \/ VersionGivenUp
  \/ NoLaunch \/ Launch \/ Tick \/ Timeout
  \/ ZCodeEvent \/ ZCodeViolation \/ HiAnswer \/ CreateAnswer \/ ZCodeRefusal
  \/ DshHiAnswer \/ DshHiRefusal \/ DshCatalogAnswer \/ DshCatalogRefusal \/ DshForeignFrame
  \/ CodexInitialized \/ CodexPage \/ CodexRefusal
  \/ AgyLine \/ AgyModelsExit \/ AgyModelsOversized
  \/ Cleanup

\* The prober's own steps and the clock; the child owes nothing.
Fairness ==
  /\ WF_vars(NoVersionChild \/ RunVersion) /\ WF_vars(NoLaunch \/ Launch)
  /\ WF_vars(Tick)
  /\ WF_vars(late /\ (VersionGivenUp \/ Timeout))
  /\ WF_vars(Cleanup)

Spec == Init /\ [][Next]_vars /\ Fairness

-----------------------------------------------------------------------------

\* The probe is at one of its steps and holds only reasons, tokens and counts
\* within their bounds: no catalog grows past the largest page over the limit.
TypeOK ==
  /\ kind \in Kinds /\ pc \in Stages \cup {"local", "version", "launch", "cleanup", "done"}
  /\ child \in {"none", "running", "exited", "reaped"}
  /\ group \in BOOLEAN /\ late \in BOOLEAN /\ unproven \in BOOLEAN
  /\ terminal \in {Nil, "completed"} \cup Failures /\ hint \in {Nil} \cup Failures
  /\ tokens \subseteq Tokens /\ count \in 0..(MaxModels + Cardinality(Tokens))
  /\ sent \subseteq Stages

\* READY for a prompt is earned: the prompt was written, its turn was seen to
\* complete, and nothing that was read on the way was a failure, a tool, a
\* permission request, a broken frame or the child's exit.
ReadyEarned ==
  (kind \in HiProbes /\ outcome = "ready") =>
     /\ sent \cap {"send", "prompt", "turn"} # {}
     /\ (IF kind = "dsh_hi" THEN "answer" ELSE "completed") \in seen
     /\ seen \cap {"failed", "tool", "malformed", "oversized", "error", "exit"} = {}

\* A supported catalog holds a model, and reading it never sends a prompt.
CatalogUsable ==
  kind \in Catalogs =>
     /\ outcome = "ready" => tokens # {} /\ local = "ready"
     /\ sent \cap {"send", "prompt", "turn"} = {}

\* A probe that has returned leaves no child, no zombie and no descendant,
\* save where a driver's stop failed twice.
NothingLeft ==
  pc = "done" => \/ child \in {"none", "reaped"} /\ ~group
                 \/ unproven /\ kind \in Driven

\* Whatever the child does, the probe returns.
ProbeEnds == <>(pc = "done")
=============================================================================
