---------------------------- MODULE SessionStart ----------------------------
(***************************************************************************)
(* How a claimed task's session is started or resumed: the requests of     *)
(* each adapter's bootstrap_session_with_mcp and resume_session_with_mcp,  *)
(* the checks on their replies, and the scheduler's cross-check of the     *)
(* model before the task runs.  The provider is honest and may omit what   *)
(* it applied; it may apply something else than what it was asked, refuse, *)
(* answer too late or go away.                                             *)
(***************************************************************************)
EXTENDS Naturals, Sequences
CONSTANTS
  NoValue,    \* an absent value
  StartTasks  \* the admitted tasks: [agent, resume, model, effort, mode]

VARIABLES
  task,  \* the claimed task
  sess,  \* the owner: where the call is, what it wrote, registered and returns
  host   \* the provider's session: what is in force, and what it refused (external)

startVars == <<task, sess, host>>

Workspace == "workspace"
Persisted == "s1"
Fresh == "s2"

Unset == [model |-> NoValue, effort |-> NoValue, sandbox |-> NoValue, approval |-> NoValue,
          cwd |-> NoValue, session |-> NoValue, ephemeral |-> FALSE, refused |-> NoValue,
          options |-> NoValue]

StartInit ==
  /\ task \in StartTasks
  /\ sess = [pc |-> "begin", wire |-> << >>, session |-> NoValue, effort |-> NoValue,
             model |-> NoValue, result |-> NoValue]
  /\ host = Unset

----------------------------------------------------------------------------
\* Model tokens.  A reference is provider/model, or a bare model of zai; what
\* has a second separator, or a provider with other characters, is none.

Reference(token) ==
  CASE token = "zai/glm" -> [provider |-> "zai", model |-> "glm"]
    [] token = "zai/air" -> [provider |-> "zai", model |-> "air"]
    [] token \in {"glm", "slug", "gpt", "gpt-mini", "p:m"} -> [provider |-> "zai", model |-> token]
    [] OTHER -> NoValue     \* "p:v/m": its provider would be "p:v"

Scoped(token) == token \in {"zai/glm", "zai/air"}
NormalizedZai(token) == IF Reference(token) = NoValue THEN NoValue ELSE Reference(token).model
ProviderModelMatches(token, ref) ==
  Scoped(token) /\ Reference(token) = Reference(ref)

ValidateRequestedModel(requested, observed) ==
  CASE requested = NoValue -> "ok"
    [] requested # NoValue /\ NormalizedZai(requested) = NoValue -> "MODEL_REQUEST_INVALID"
    [] OTHER -> IF observed = NoValue \/ NormalizedZai(observed) = NoValue THEN "MODEL_NOT_OBSERVED"
                ELSE IF NormalizedZai(requested) # NormalizedZai(observed) THEN "MODEL_MISMATCH" ELSE "ok"

\* a missing echo proceeds as unknown, a divergent one fails
EffortAgrees(requested, echo) == requested = NoValue \/ echo = NoValue \/ echo = requested

----------------------------------------------------------------------------
\* Requests

Is(agent, resume, pc) == task.agent = agent /\ task.resume = resume /\ sess.pc = pc
\* a Codex turn names its effort, low unless one was admitted
TurnEffort == IF task.effort = NoValue THEN "low" ELSE task.effort
Request(method) ==
  [method |-> method, effort |-> IF method = "prompt" /\ task.agent = "codex" THEN TurnEffort ELSE NoValue]
Sent(method) == Append(sess.wire, Request(method))
Wrote(method) == \E i \in 1..Len(sess.wire) : sess.wire[i].method = method

Refuse(method, error) == sess' = [sess EXCEPT !.pc = "failed", !.wire = Sent(method), !.result = error]
Proceed(method, pc) == sess' = [sess EXCEPT !.pc = pc, !.wire = Sent(method)]

\* a request that times out, is refused for some other reason, or loses its peer
Fails(agent, pc, method) ==
  /\ task.agent = agent /\ sess.pc = pc
  /\ \E error \in {"Timeout", "Remote", "Transport"} : Refuse(method, error)
  /\ UNCHANGED <<task, host>>

Echo(actual) == {NoValue, actual}
Efforts == {"high", "low"}

----------------------------------------------------------------------------
\* ZCode: create, the model switch, subscribe, send; the session is registered
\* once subscribed.

ZCreate ==
  /\ Is("zcode", FALSE, "begin")
  /\ \E model \in {"zai/glm", "zai/air"}, level \in Efforts, offered \in BOOLEAN, levels \in SUBSET Efforts :
       \E echo \in Echo(level) :
         /\ host' = [host EXCEPT !.session = Fresh, !.model = model, !.effort = level,
                                 !.options = IF offered THEN levels ELSE NoValue]
         /\ IF task.model # NoValue THEN Proceed("create", "switch")
            ELSE IF EffortAgrees(task.effort, echo)
            THEN sess' = [sess EXCEPT !.pc = "subscribe", !.wire = Sent("create"), !.model = model, !.effort = echo]
            ELSE Refuse("create", "InvalidSession")
  /\ UNCHANGED task

ZCreateInvalid ==
  /\ Is("zcode", FALSE, "begin") /\ Refuse("create", "InvalidSession")
  /\ UNCHANGED <<task, host>>

\* switch_session_model: the create result's catalog is the whitelist
ZNotOffered ==
  /\ Is("zcode", FALSE, "switch")
  /\ \/ ~Scoped(task.model)
     \/ host.options = NoValue
     \/ host.options # NoValue /\ task.effort # NoValue /\ task.effort \notin host.options
  /\ sess' = [sess EXCEPT !.pc = "failed", !.result = "InvalidSession"]
  /\ UNCHANGED <<task, host>>

ZMaySwitch ==
  /\ Is("zcode", FALSE, "switch") /\ Scoped(task.model)
  /\ host.options # NoValue /\ (task.effort = NoValue \/ task.effort \in host.options)

ZSwitch ==
  /\ ZMaySwitch
  /\ \E model \in {"zai/glm", "zai/air"}, level \in Efforts :
       \E told \in Echo(model), echo \in Echo(level) :
         /\ host' = [host EXCEPT !.model = model, !.effort = level]
         /\ IF told = NoValue \/ ~ProviderModelMatches(task.model, told) \/ ~EffortAgrees(task.effort, echo)
            THEN Refuse("setModel", "InvalidSession")
            ELSE sess' = [sess EXCEPT !.pc = "subscribe", !.wire = Sent("setModel"),
                                      !.model = task.model, !.effort = echo]
  /\ UNCHANGED task

\* remote_set_model_error: two codes say that the model was refused
ZSwitchRefused ==
  /\ ZMaySwitch
  /\ \E code \in {"invalid_model_request", "model_not_found", "other"} :
       /\ host' = [host EXCEPT !.refused = IF code = "other" THEN NoValue ELSE "model"]
       /\ Refuse("setModel", IF code = "other" THEN "InvalidSession" ELSE "ModelRejected")
  /\ UNCHANGED task

ZSubscribe ==
  /\ task.agent = "zcode" /\ sess.pc = "subscribe"
  /\ sess' = [sess EXCEPT !.pc = IF task.resume THEN "ready" ELSE "prompt",
                          !.wire = Sent("subscribe"), !.session = host.session]
  /\ UNCHANGED <<task, host>>

ZResume ==
  /\ Is("zcode", TRUE, "begin")
  /\ \E level \in Efforts : \E echo \in Echo(level) :
       /\ host' = [host EXCEPT !.session = Persisted, !.effort = level]
       /\ IF EffortAgrees(task.effort, echo)
          THEN sess' = [sess EXCEPT !.pc = "subscribe", !.wire = Sent("resume"), !.effort = echo]
          ELSE Refuse("resume", "InvalidSession")
  /\ UNCHANGED task

----------------------------------------------------------------------------
\* Codex: initialize, then a thread whose echoed identity and posture must be
\* what was admitted.

Posture(mode) ==
  CASE mode = "plan" -> "readOnly" [] mode \in {"build", "edit"} -> "workspaceWrite" [] mode = "yolo" -> "dangerFullAccess"

CodexInitialize ==
  /\ task.agent = "codex" /\ sess.pc = "begin"
  /\ \/ Proceed("initialize", "thread")
     \/ Refuse("initialize", "InvalidSession")      \* no usable codexHome
  /\ UNCHANGED <<task, host>>

Threads ==
  [model : {"gpt", "gpt-mini"}, effort : Efforts, sandbox : {"readOnly", "workspaceWrite", "dangerFullAccess", "widened"},
   approval : {"never", "ask"}, cwd : {Workspace, "elsewhere"}, session : {Persisted, Fresh},
   ephemeral : BOOLEAN, refused : {NoValue}, options : {NoValue}]

\* the result without one of its fields
Told(thread, missing) ==
  [thread EXCEPT !.model = IF missing = "model" THEN NoValue ELSE @,
                 !.effort = IF missing = "effort" THEN NoValue ELSE @,
                 !.sandbox = IF missing = "sandbox" THEN NoValue ELSE @,
                 !.approval = IF missing = "approval" THEN NoValue ELSE @,
                 !.cwd = IF missing = "cwd" THEN NoValue ELSE @,
                 !.session = IF missing = "session" THEN NoValue ELSE @]


SandboxConfirmed(sandbox) == sandbox = Posture(task.mode)
ThreadConfirmed(told) ==
  /\ told.session # NoValue /\ ~told.ephemeral
  /\ told.model = task.model
  /\ told.approval = "never" /\ SandboxConfirmed(told.sandbox) /\ told.cwd = Workspace

\* validate_resume_result: the same thread, and if it names an effort, the
\* admitted one; what a fresh thread echoes is the model's default
ResumeConfirmed(told) == told.session = Persisted /\ EffortAgrees(task.effort, told.effort)

CodexThread ==
  /\ task.agent = "codex" /\ sess.pc = "thread"
  /\ \E thread \in Threads, missing \in {"none", "model", "effort", "sandbox", "approval", "cwd", "session"} :
       LET told == Told(thread, missing)
           method == IF task.resume THEN "thread/resume" ELSE "thread/start"
       IN  /\ host' = thread
           /\ IF /\ ThreadConfirmed(told)
                 /\ task.resume => ResumeConfirmed(told)
              THEN sess' = [sess EXCEPT !.pc = IF task.resume THEN "ready" ELSE "prompt", !.wire = Sent(method),
                                        !.session = told.session, !.model = task.model,
                                        !.effort = IF task.resume THEN told.effort ELSE NoValue]
              ELSE Refuse(method, "InvalidSession")
  /\ UNCHANGED task

----------------------------------------------------------------------------
\* DSH: initialize, session/new, then one config option per selection; a
\* refused selection leaves a flag that no prompt passes.

BuildCapabilities == {"permission", "cancel"}
\* parse_initialize_result: flags, or the official nested form, which has both
AcpCapabilities(flags, nested) == IF nested THEN BuildCapabilities ELSE flags
\* require_build_capabilities
HasBuildCapabilities(capable) == BuildCapabilities \subseteq capable

DshInitialize ==
  /\ Is("dsh", FALSE, "begin")
  /\ \E version \in {1, 2}, flags \in SUBSET BuildCapabilities, nested \in BOOLEAN :
       IF version = 1 /\ HasBuildCapabilities(AcpCapabilities(flags, nested)) THEN Proceed("initialize", "new")
       ELSE Refuse("initialize", "InvalidSession")
  /\ UNCHANGED <<task, host>>

DshNewSession ==
  /\ Is("dsh", FALSE, "new")
  /\ \/ \E options \in {NoValue} \cup SUBSET {"model", "reasoning_effort"}, model \in {"p:m", "p:n"} :
          /\ host' = [host EXCEPT !.session = Fresh, !.options = options, !.model = model]
          /\ sess' = [sess EXCEPT !.pc = "model", !.wire = Sent("session/new"), !.session = Fresh]
     \/ Refuse("session/new", "InvalidSession") /\ UNCHANGED host      \* no usable sessionId
  /\ UNCHANGED task

DshSkips(pc, next, token) ==
  /\ Is("dsh", FALSE, pc) /\ token = NoValue
  /\ sess' = [sess EXCEPT !.pc = next]
  /\ UNCHANGED <<task, host>>

DshOffered(option) == host.options # NoValue => option \in host.options
DshRefused(error) == sess' = [sess EXCEPT !.pc = "failed", !.result = error]

\* set_model; every refusal by the peer, and of the offer, is the model's
DshSetsModel ==
  /\ Is("dsh", FALSE, "model") /\ task.model # NoValue
  /\ \/ ~DshOffered("model") /\ DshRefused("ModelRejected") /\ host' = [host EXCEPT !.refused = "model"]
     \/ /\ DshOffered("model")
        /\ \/ /\ host' = [host EXCEPT !.model = task.model]
              /\ sess' = [sess EXCEPT !.pc = "effort", !.wire = Sent("set model"), !.model = task.model]
           \/ host' = [host EXCEPT !.refused = "model"] /\ Refuse("set model", "ModelRejected")
           \/ UNCHANGED host /\ Refuse("set model", "InvalidSession")
  /\ UNCHANGED task

DshSetsEffort ==
  /\ Is("dsh", FALSE, "effort") /\ task.effort # NoValue
  /\ \/ ~DshOffered("reasoning_effort") /\ DshRefused("InvalidSession") /\ UNCHANGED host
     \/ /\ DshOffered("reasoning_effort")
        /\ \/ /\ host' = [host EXCEPT !.effort = task.effort]
              /\ sess' = [sess EXCEPT !.pc = "prompt", !.wire = Sent("set effort"), !.effort = task.effort]
           \/ UNCHANGED host /\ Refuse("set effort", "InvalidSession")
  /\ UNCHANGED task

----------------------------------------------------------------------------
\* agy: the model is on the command line, so the first line is written first
\* and the start gate says how the launch went; a resume writes nothing.

AgyStartFailure(reason) ==
  IF reason \in {"model", "effort"} THEN "ModelRejected" ELSE "InvalidSession"

AgyBootstraps ==
  /\ Is("agy", FALSE, "begin")
  /\ Proceed("prompt", "gate")
  /\ UNCHANGED <<task, host>>
AgyResumes ==
  /\ Is("agy", TRUE, "begin")
  /\ sess' = [sess EXCEPT !.pc = "gate"]
  /\ UNCHANGED <<task, host>>

AgyGate ==
  /\ task.agent = "agy" /\ sess.pc = "gate"
  /\ \/ \E id \in {Persisted, Fresh} :
          /\ host' = [host EXCEPT !.session = id, !.model = task.model]
          /\ sess' = IF task.resume /\ id # Persisted
                     THEN [sess EXCEPT !.pc = "failed", !.result = "InvalidSession"]
                     ELSE [sess EXCEPT !.pc = "ready", !.session = id, !.model = task.model]
     \/ \E reason \in {"model", "effort", "other"} :
          /\ host' = [host EXCEPT !.refused = IF reason = "other" THEN NoValue ELSE reason]
          /\ sess' = [sess EXCEPT !.pc = "failed", !.result = AgyStartFailure(reason)]
     \/ UNCHANGED host /\ sess' = [sess EXCEPT !.pc = "failed", !.result = "Timeout"]
  /\ UNCHANGED task

----------------------------------------------------------------------------
\* The first prompt, and the scheduler's cross-check of a fresh session

Prompt ==
  /\ sess.pc = "prompt"
  /\ sess' = [sess EXCEPT !.pc = "ready",
                          !.wire = Sent("prompt")]
  /\ UNCHANGED <<task, host>>

CrossCheck ==
  /\ sess.pc = "ready"
  /\ LET code == IF task.resume THEN "ok" ELSE ValidateRequestedModel(task.model, sess.model)
     IN  sess' = [sess EXCEPT !.pc = IF code = "ok" THEN "running" ELSE "failed", !.result = code]
  /\ UNCHANGED <<task, host>>

StartNext ==
  \/ ZCreate \/ ZCreateInvalid \/ ZNotOffered \/ ZSwitch \/ ZSwitchRefused \/ ZSubscribe \/ ZResume
  \/ Fails("zcode", "begin", IF task.resume THEN "resume" ELSE "create")
  \/ ZMaySwitch /\ Fails("zcode", "switch", "setModel")
  \/ Fails("zcode", "subscribe", "subscribe")
  \/ CodexInitialize \/ CodexThread
  \/ Fails("codex", "begin", "initialize") \/ Fails("codex", "thread", "thread")
  \/ DshInitialize \/ DshNewSession \/ DshSetsModel \/ DshSetsEffort
  \/ DshSkips("model", "effort", task.model) \/ DshSkips("effort", "prompt", task.effort)
  \/ AgyBootstraps \/ AgyResumes \/ AgyGate
  \/ Prompt \/ Fails("zcode", "prompt", "prompt") \/ Fails("codex", "prompt", "prompt")
  \/ CrossCheck

----------------------------------------------------------------------------
(***************************************************************************)
(* Where the adapter can verify what it asked for, no prompt leaves before *)
(* the model in force is the admitted one, the effort known to be in force *)
(* is not another, and a Codex thread has the admitted workspace, approval *)
(* and sandbox (switch_session_model, start_result_thread_id,              *)
(* AcpSession::prompt).                                                    *)
(***************************************************************************)
PromptVerified ==
  Wrote("prompt") /\ task.agent # "agy" =>
    /\ task.model # NoValue => host.model = task.model
    /\ sess.effort # NoValue /\ task.effort # NoValue => host.effort = task.effort
    /\ task.agent = "codex" =>
         /\ host.sandbox = Posture(task.mode) /\ host.approval = "never"
         /\ host.cwd = Workspace /\ ~host.ephemeral
         /\ sess.wire[Len(sess.wire)].effort = TurnEffort

(***************************************************************************)
(* A resumed session is the persisted one and says nothing by itself: the  *)
(* queued message is the only trigger of its next turn                     *)
(* (resume_session_with_mcp of each owner).                                *)
(***************************************************************************)
ResumeIsSilent ==
  task.resume =>
    /\ ~Wrote("prompt")
    /\ sess.pc \in {"ready", "running"} => host.session = Persisted /\ sess.session = Persisted

(***************************************************************************)
(* The public code MODEL_REJECTED is kept for a provider that refused the  *)
(* selection, and no prompt left for it but on agy, whose launch carries   *)
(* the selection (remote_set_model_error, start_failure_error).            *)
(***************************************************************************)
RejectedWasRefused ==
  sess.result = "ModelRejected" => host.refused # NoValue /\ (Wrote("prompt") => task.agent = "agy")


(***************************************************************************)
(* A model the adapter has confirmed is not failed by the scheduler, since *)
(* a token may hold any character (parse_colon_token).                     *)
(***************************************************************************)
ConfirmedModelRuns ==
  sess.pc = "failed" /\ sess.model # NoValue /\ sess.model = task.model =>
    sess.result \notin {"MODEL_REQUEST_INVALID", "MODEL_MISMATCH", "MODEL_NOT_OBSERVED"}
=============================================================================
