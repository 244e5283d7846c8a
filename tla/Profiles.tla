------------------------------ MODULE Profiles ------------------------------
(***************************************************************************)
(* Named spawn profiles (rpc/profiles.rs): one JSON file per profile, all  *)
(* of them scanned on every use.  A directory is a function from the files *)
(* with the .json extension to what reading each gives; Null is a missing  *)
(* directory and Unreadable one that cannot be listed.  A content is       *)
(*   kind : "unreadable", "syntax", "shape" (an unknown or mistyped field, *)
(*          or a permission_mode outside the four) or "good";              *)
(*   name : the trimmed top-level name, Null when it is missing, blank,    *)
(*          over 128 bytes or holds a NUL;                                 *)
(*   the five selections, Null when absent or blank.                       *)
(* The wording and the size bound of the rejection text are left out.      *)
(***************************************************************************)
EXTENDS AgentConfig, FiniteSets

Selections == {"subagent", "permission_mode", "model", "effort", "developer_instructions"}

\* loose_top_level_name: read even when another field is wrong.
loose_top_level_name(c) == IF c.kind \in {"unreadable", "syntax"} THEN Null ELSE c.name

\* parse_profile_json_internal
ParsesAsProfile(c) == c.kind = "good" /\ c.name # Null

Listed(dir) == IF dir \in {Null, Unreadable} THEN {} ELSE DOMAIN dir

\* name_owners: every readable file that names n, whatever else is wrong in it.
Owners(dir, n) == {f \in Listed(dir) : loose_top_level_name(dir[f]) = n}

Candidates(dir) == {f \in Listed(dir) : ParsesAsProfile(dir[f])}

Kept(dir) == {f \in Candidates(dir) : Cardinality(Owners(dir, dir[f].name)) <= 1}

\* scan_profiles_dir: the profiles by name, and the diagnostics.
scan_profiles_dir(dir) ==
    LET unlistable == IF dir = Unreadable
                      THEN {[file |-> Unreadable, name |-> Null, dup |-> FALSE]} ELSE {}
        refused == {[file |-> f, name |-> loose_top_level_name(dir[f]), dup |-> FALSE] :
                       f \in Listed(dir) \ Candidates(dir)}
        evicted == {[file |-> f, name |-> dir[f].name, dup |-> TRUE] :
                       f \in Candidates(dir) \ Kept(dir)}
        conflicting == {[file |-> f, name |-> loose_top_level_name(dir[f]), dup |-> TRUE] :
                       f \in {g \in Listed(dir) :
                                /\ loose_top_level_name(dir[g]) # Null
                                /\ Cardinality(Owners(dir, loose_top_level_name(dir[g]))) > 1}}
    IN  [profiles |-> {[file |-> f, name |-> dir[f].name] : f \in Kept(dir)},
         errors   |-> unlistable \cup refused \cup evicted \cup conflicting]

\* available_profile_names
available_profile_names(dir) == {p.name : p \in scan_profiles_dir(dir).profiles}

\* load_profile: the profile, or why there is none.
load_profile(dir, n) ==
    LET scanned == scan_profiles_dir(dir)
        found   == {p \in scanned.profiles : p.name = n}
        told    == {d \in scanned.errors : d.name = n}
    IN  IF found # {}
        THEN [code |-> "ok", profile |-> dir[(CHOOSE p \in found : TRUE).file]]
        ELSE [code |-> "validation",
              about |-> IF told # {} THEN "its_file"
                        ELSE IF \E d \in scanned.errors : d.name = Null
                             THEN "unattributed" ELSE "not_found"]
=============================================================================
