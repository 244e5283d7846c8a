----------------------------- MODULE DshProfile -----------------------------
(***************************************************************************)
(* The compositions a DSH child may be launched with.  DSH composes its    *)
(* plugin entries from the user's profile and an optional patch;           *)
(* --dump-config prints them, and the preflight of each permission mode    *)
(* accepts or refuses what is printed.  A composition is a sequence of     *)
(* entries; a handful of ids stands for each of the lists in the code.     *)
(***************************************************************************)
EXTENDS Naturals, Sequences, FiniteSets, SequencesExt
CONSTANT Nil    \* an absent id

\* disabled: absent, a boolean, the shipped platform expression, or some other
\* expression; value and root are the managed keys of config, other says that
\* it holds another key, and runner that the entry itself does
Entry(id, value) ==
  [id |-> id, name |-> id, disabled |-> "absent", value |-> value, root |-> "absent",
   other |-> FALSE, runner |-> FALSE]

\* ids whose entries must be the provider's own
Executors == {"sandbox", "bash-sandbox", "pwsh-sandbox"}
Owned == {"sandbox-policy", "approval", "permission", "fs-sandbox", "acp"} \cup Executors
Dangerous == {"tool-bash", "tool-fs", "config-editor", "tool-plugin-manager"}
ManifestDisabled == {"tool-bash", "config-editor", "mcp-resources"}
AllowedEnabled == {"llm", "mcp-resources", "settings", "permission", "fs-sandbox", "acp", "sandbox-policy"} \cup Executors

\* what DSH ships (external)
Shipped == <<
  [Entry("sandbox-policy", "mode of environment") EXCEPT !.root = "cwd"],
  Entry("approval", "ask unless full access"), Entry("permission", "pinned"),
  Entry("sandbox", "empty"), [Entry("bash-sandbox", "timeout") EXCEPT !.disabled = "platform"],
  [Entry("pwsh-sandbox", "empty") EXCEPT !.disabled = "platform"],
  Entry("fs-sandbox", "empty"), Entry("acp", "empty"), Entry("llm", "empty"), Entry("settings", "empty"),
  Entry("tool-fs", "empty"), Entry("tool-bash", "empty"), Entry("config-editor", "empty"),
  Entry("mcp-resources", "empty")>>

\* one entry as a user's profile may change it (external)
OtherValues(id) ==
  CASE id = "sandbox-policy" -> {"read-only", "workspace-write", "danger-full-access"}
    [] id = "approval" -> {"ask", "never"}
    [] id \in Executors \cup {"permission", "settings"} -> {"custom"}
    [] OTHER -> {}
OtherRoots(id) ==
  CASE id = "sandbox-policy" -> {"absent", "workspace", "elsewhere"}
    [] id = "permission" -> {"workspace-write", "danger-full-access"}
    [] OTHER -> {}
Variants(e) ==
       {[e EXCEPT !.disabled = d] : d \in {"absent", "false", "true", "platform", "expression"}}
  \cup {[e EXCEPT !.value = v] : v \in OtherValues(e.id)}
  \cup {[e EXCEPT !.root = r] : r \in OtherRoots(e.id)}
  \cup {[e EXCEPT !.name = "other"], [e EXCEPT !.other = TRUE], [e EXCEPT !.runner = TRUE]}
Added ==
  {Entry("extra", "empty"), Entry("tool-plugin-manager", "empty"), Entry("sandbox-policy", "read-only"),
   Entry("approval", "never"), [Entry("extra", "empty") EXCEPT !.name = "acp"],
   [Entry("guard", "empty") EXCEPT !.id = Nil, !.name = "other"],
   [Entry("guard", "other") EXCEPT !.id = Nil]}

\* one entry changed, and one added or left out
Compositions ==
  LET changed == {Shipped} \cup {ReplaceAt(Shipped, p[1], p[2]) : p \in
                   UNION {{i} \X Variants(Shipped[i]) : i \in 1..Len(Shipped)}}
  IN  changed \cup {Append(c, e) : c \in changed, e \in Added}
              \cup {RemoveAt(c, i) : c \in changed, i \in 1..Len(Shipped)}

----------------------------------------------------------------------------
\* The patches, and how DSH applies one: config is replaced or merged, and a row
\* whose id is missing leaves everything unpatched, with a line on stderr.

StrictPlanPatch == [disabled |-> {"tool-bash", "tool-fs", "config-editor", "mcp-resources"}, mode |-> "read-only", insert |-> << >>]
ManifestBuildPatch(manifest) ==
  [disabled |-> ManifestDisabled, mode |-> "workspace-write",
   insert |-> <<[Entry("guard", manifest) EXCEPT !.id = Nil]>>]
NoPatch == [disabled |-> {}, mode |-> Nil, insert |-> << >>]

Has(c, id) == \E i \in 1..Len(c) : c[i].id = id
PatchFails(c, patch) ==
  \/ \E id \in patch.disabled : ~Has(c, id)
  \/ patch.mode # Nil /\ ~Has(c, "sandbox-policy")
PatchedEntry(e, patch, merge) ==
  CASE e.id \in patch.disabled -> [e EXCEPT !.disabled = "true"]
    [] e.id = "sandbox-policy" /\ patch.mode # Nil ->
         [e EXCEPT !.value = patch.mode, !.root = IF merge THEN @ ELSE "absent", !.other = merge /\ @]
    [] OTHER -> e
Patched(c, patch, merge) ==
  IF PatchFails(c, patch) THEN c
  ELSE [i \in 1..Len(c) |-> PatchedEntry(c[i], patch, merge)] \o patch.insert

----------------------------------------------------------------------------
\* What the preflights accept

Hits(c, id) == {i \in 1..Len(c) : c[i].id = id \/ c[i].name = id}
Named(c, id) == Cardinality(Hits(c, id)) = 1 /\ \A i \in Hits(c, id) : c[i].id = id /\ c[i].name = id
The(c, id) == c[CHOOSE i \in Hits(c, id) : TRUE]

\* the platform expressions, as they read on Unix
Activation(e) ==
  CASE e.disabled \in {"absent", "false"} -> "enabled"
    [] e.disabled = "true" -> "disabled"
    [] e.disabled = "platform" /\ e.id = "bash-sandbox" -> "enabled"
    [] e.disabled = "platform" /\ e.id = "pwsh-sandbox" -> "disabled"
    [] OTHER -> "unknown"
PinnedActivation(c, id) ==
  Named(c, id) /\ Activation(The(c, id)) = IF id = "pwsh-sandbox" THEN "disabled" ELSE "enabled"

ExecutorUnconfigured(e) ==
  ~e.runner /\ ~e.other /\ e.value = IF e.id = "bash-sandbox" THEN "timeout" ELSE "empty"
ApprovalAsks(e) == e.value \in {"ask", "ask unless full access"}
PresetKept(e) == e.value = "pinned" /\ e.root \in {"absent", "workspace-write"} /\ ~e.other

ValidateBuildDump(c) ==
  /\ \A id \in Owned : PinnedActivation(c, id)
  /\ The(c, "sandbox-policy").value \in {"workspace-write", "mode of environment"}
  /\ The(c, "sandbox-policy").root \in {"cwd", "workspace"}
  /\ ApprovalAsks(The(c, "approval"))
  /\ \A id \in Executors : ExecutorUnconfigured(The(c, id))
  /\ PresetKept(The(c, "permission"))

\* the walk over every entry: nothing enabled that is not known
Managed(e, enabledTools) ==
  /\ e.id # Nil /\ e.disabled # "true" =>
       /\ e.id \in Dangerous => e.id \in enabledTools
       /\ e.id \in AllowedEnabled \cup enabledTools \cup {"approval"}
  /\ ~e.runner
  /\ e.id = "settings" /\ e.disabled # "true" => e.value = "empty" /\ ~e.other


PinnedControlConfig(e) == e.disabled \in {"absent", "false"} /\ ~e.other
ValidateDumpPolicy(c) ==
  /\ \A i \in 1..Len(c) : Managed(c[i], {})
  /\ \A i \in 1..Len(c) :
       /\ c[i].id = "sandbox-policy" =>
            PinnedControlConfig(c[i]) /\ c[i].value = "read-only" /\ c[i].root \in {"absent", "cwd"}
       /\ c[i].id = "approval" => PinnedControlConfig(c[i]) /\ ApprovalAsks(c[i])
  /\ \A id \in {"sandbox-policy", "approval"} : Cardinality({i \in 1..Len(c) : c[i].id = id}) = 1

Guards(c) == {i \in 1..Len(c) : c[i].name = "guard"}
ValidateManifestBuildEntries(c) ==
  \A i \in 1..Len(c) : Managed(c[i], {"tool-fs"}) /\ (c[i].id = Nil => c[i].name = "guard")

One(c, id) == Cardinality({i \in 1..Len(c) : c[i].id = id}) = 1
ById(c, id) == c[CHOOSE i \in 1..Len(c) : c[i].id = id]
GuardPinned(c, manifest) ==
  /\ Cardinality(Guards(c)) = 1
  /\ \A i \in Guards(c) : Activation(c[i]) = "enabled" /\ ~c[i].other /\ c[i].value = manifest
ToolsPinned(c) ==
  /\ One(c, "tool-fs") /\ Activation(ById(c, "tool-fs")) = "enabled"
  /\ \A id \in ManifestDisabled : One(c, id) /\ ById(c, id).disabled = "true"
ValidateManifestBuildDump(c, manifest) ==
  /\ GuardPinned(c, manifest) /\ ToolsPinned(c)
  /\ \A id \in {"sandbox-policy", "approval", "permission"} : Named(c, id)
  /\ LET policy == The(c, "sandbox-policy") IN
       /\ policy.disabled # "true" /\ ~policy.other /\ policy.value = "workspace-write"
       /\ policy.root \in {"absent", "cwd", "workspace"}
  /\ The(c, "approval").disabled # "true" /\ ApprovalAsks(The(c, "approval"))
  /\ PresetKept(The(c, "permission"))
  /\ \A id \in Executors \cup {"fs-sandbox", "acp"} : PinnedActivation(c, id)
  /\ \A id \in Executors : ExecutorUnconfigured(The(c, id))
  /\ ValidateManifestBuildEntries(c)

----------------------------------------------------------------------------
\* What a composition does in the child (external): expressions are resolved
\* against the child's environment and directory; one on a control leaves the
\* control enabled.

Enabled(e) == Activation(e) # "disabled"
ModeInForce(e, permission) == IF e.value = "mode of environment" THEN permission ELSE e.value
Asks(e, permission) == e.value = "ask" \/ (e.value = "ask unless full access" /\ permission # "danger-full-access")

\* the sandbox in force is the one asked for, over the workspace, and whatever
\* it forbids is asked about
Confined(c, mode, permission) ==
  /\ Has(c, "sandbox-policy") /\ Has(c, "approval")
  /\ \A i \in 1..Len(c) :
       /\ c[i].id = "sandbox-policy" =>
            Enabled(c[i]) /\ ModeInForce(c[i], permission) = mode /\ c[i].root # "elsewhere"
       /\ c[i].id = "approval" => Enabled(c[i]) /\ Asks(c[i], permission)
=============================================================================
