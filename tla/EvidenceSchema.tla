--------------------------- MODULE EvidenceSchema ---------------------------
(***************************************************************************)
(* evidence_schema.py: the checks of an Evidence Artifact v1, and the one  *)
(* that is assembled from a bundle; evidence_bundle.py: the same report as *)
(* a page.                                                                 *)
(*                                                                         *)
(* A value is "absent", "null", "" (an empty string), "text", "other" (of  *)
(* another JSON type), or a word of a vocabulary.  A part of an artifact   *)
(* has a shape and, when that is the right one, fields or items.           *)
(***************************************************************************)
EXTENDS Sequences, SequencesExt, FiniteSets

LAYERS == {"inspect", "verify", "gate", "report"}
STATUSES == {"pass", "fail", "skip"}
SEVERITIES == {"S0", "S1", "S2", "S3", "S4"}
CACHE_PROVENANCE == {"cold", "warm", "stale-rejected"}
DECISIONS == {"approve", "needs_human", "block"}
REDACTION_MODES == {"external", "local"}
MergeGatingLayers == {"gate", "verify"}

-----------------------------------------------------------------------------
(* validate_artifact                                                       *)
NonEmpty == {"text"}
Str == {"", "text"}
OrNull == Str \union {"null"}
Optional == OrNull \union {"absent"}

CheckFields ==
    [id |-> NonEmpty, layer |-> LAYERS, status |-> STATUSES, severity |-> SEVERITIES,
     cache_provenance |-> CACHE_PROVENANCE, summary |-> Str, logs_path |-> Optional]
DecisionFields ==
    [decision |-> DECISIONS, blocking_findings |-> {"strings"}, required_approvals |-> {"strings"}]
SignoffFields == [role |-> Str, at |-> Str, name |-> Optional]
GitFields == [commit_sha |-> OrNull, diff_hash |-> Optional, branch |-> Optional]
InstanceFields == [db_fingerprint |-> Optional, odoo_version |-> Optional, module_graph_hash |-> Optional]
AddonsFields == [addon_hash |-> Optional]
RedactionFields == [mode |-> REDACTION_MODES, scanned |-> {"true", "false"}]

\* An object and the fields of it that are wrong; "shape" if it is no object.
Wrong(part, fields) ==
    IF part.shape # "object" THEN {"shape"}
    ELSE {f \in DOMAIN fields : part[f] \notin fields[f]}

WrongItems(part, fields) ==
    CASE part.shape = "absent" -> {}
      [] part.shape = "list" -> UNION {{i} \X Wrong(part.items[i], fields) : i \in DOMAIN part.items}
      [] OTHER -> {<<0, "shape">>}

WarmGating(artifact) ==
    /\ artifact.checks.shape = "list"
    /\ \E i \in DOMAIN artifact.checks.items :
          LET c == artifact.checks.items[i]
          IN  c.shape = "object" /\ c.cache_provenance = "warm" /\ c.layer \in MergeGatingLayers
Approves(artifact) == artifact.decision.shape = "object" /\ artifact.decision.decision = "approve"

RequiredTop == {"git", "checks", "decision", "human_signoffs", "redaction"}
Objects == [git |-> GitFields, decision |-> DecisionFields, redaction |-> RedactionFields,
            instance |-> InstanceFields, addons |-> AddonsFields]
Lists == [checks |-> CheckFields, human_signoffs |-> SignoffFields]
Skipped(k) == IF k \in RequiredTop THEN {"absent"} ELSE {"absent", "null"}

\* Mutant: nothing more is looked at when a key is missing.
validate_early(artifact) ==
    LET missing == {<<k, 0, "missing">> : k \in {r \in RequiredTop : artifact[r].shape = "absent"}}
    IN  IF missing # {} THEN missing
        ELSE UNION {{<<k, 0, f>> : f \in Wrong(artifact[k], Objects[k])} : k \in {"git", "decision"}}
\* All the errors, each with the part it is about; none is "ok".
validate_artifact(artifact) ==
    {<<k, 0, "missing">> : k \in {r \in RequiredTop : artifact[r].shape = "absent"}}
    \union (IF artifact.schema_version = "1.0" THEN {} ELSE {<<"schema_version", 0, "value">>})
    \union (IF artifact.generated_at \in NonEmpty THEN {} ELSE {<<"generated_at", 0, "value">>})
    \union (UNION {{<<k, 0, f>> : f \in Wrong(artifact[k], Objects[k])} :
                     k \in {o \in DOMAIN Objects : artifact[o].shape \notin Skipped(o)}})
    \union (UNION {{<<k, w[1], w[2]>> : w \in WrongItems(artifact[k], Lists[k])} : k \in DOMAIN Lists})
    \union (IF Approves(artifact) /\ WarmGating(artifact) THEN {<<"checks", 0, "warm">>} ELSE {})

-----------------------------------------------------------------------------
(* build_artifact: of a bundle, the report that deploy_gate makes of it    *)
(* without --strict, the sign-offs, the outcome of redaction, and git.     *)
Layer == [native_check |-> "inspect", env_diff |-> "inspect", diff_targets |-> "inspect",
          trace |-> "verify", runtime_path |-> "verify", changed_coverage |-> "verify",
          scenario_satisfaction |-> "verify", mutation_smoke |-> "verify",
          red_green_replay |-> "verify", evidence |-> "report"]

mk_check(name, status) ==
    [shape |-> "object", id |-> "text", status |-> status, severity |-> "S2",
     layer |-> IF name \in DOMAIN Layer THEN Layer[name] ELSE "gate",
     cache_provenance |-> "cold", summary |-> "text", logs_path |-> "absent", about |-> name]

\* What is left of a report that could not be made, or has no decision.
NoReport == [decision |-> "none", blocking |-> <<>>, approvals |-> {}, present |-> <<>>, missing |-> <<>>,
             missing_evidence |-> {}]

\* Mutant: an entry is copied as it is.
signoffs_raw(file) == file
\* human_signoff.json, an entry or a list of them: str() of role and at, and a
\* name if it is text; what is not an object is skipped.
read_signoffs(file) ==
    LET entries == CASE file.shape = "object" -> <<file>>
                     [] file.shape = "list" -> file.items
                     [] OTHER -> <<>>
        Text(v) == IF v = "absent" THEN "" ELSE IF v \in Str THEN v ELSE "text"
        Normal(e) == [shape |-> "object", role |-> Text(e.role), at |-> Text(e.at),
                      name |-> IF e.name \in Str THEN e.name ELSE "absent"]
        objects == SelectSeq(entries, LAMBDA e : e.shape = "object")
    IN  [shape |-> "list", items |-> [i \in DOMAIN objects |-> Normal(objects[i])]]

\* The first file that is called *redact*.json, whatever is in it.
read_redaction(files) ==
    [shape |-> "object", scanned |-> IF files = <<>> THEN "false" ELSE "true",
     mode |-> IF files # <<>> /\ Head(files) \in REDACTION_MODES THEN Head(files) ELSE "external"]

\* Mutant: without a decision nothing needs a human.
decision_open(value) == IF value \in DECISIONS THEN value ELSE "approve"
\* "fail closed on an unknown/missing decision"
decision_val(value) == IF value \in DECISIONS THEN value ELSE "needs_human"

build_artifact(report, bundle) ==
    LET Rows(names, status) == [i \in DOMAIN names |-> mk_check(names[i], status)]
        git == IF bundle.repository THEN "text" ELSE "null"
    IN  [schema_version |-> "1.0", generated_at |-> "text",
         git |-> [shape |-> "object", commit_sha |-> git, branch |-> git, diff_hash |-> "absent"],
         instance |-> [shape |-> "absent"], addons |-> [shape |-> "absent"],
         checks |-> [shape |-> "list",
                     items |-> Rows(report.present, "pass") \o Rows(report.missing, "skip")
                               \o Rows(report.blocking, "fail")],
         decision |-> [shape |-> "object", decision |-> decision_val(report.decision),
                       blocking_findings |-> "strings", required_approvals |-> "strings"],
         human_signoffs |-> read_signoffs(bundle.signoffs),
         redaction |-> read_redaction(bundle.redacted)]

-----------------------------------------------------------------------------
(* evidence_bundle.py: what the page shows of a report.                    *)
Badges == DECISIONS
ArtifactsOrder == {"native_check", "env_diff", "scenarios", "validate", "security", "trace", "upgrade"}

render_markdown(report) ==
    [badge |-> IF report.decision \in Badges THEN report.decision ELSE "unknown",
     present |-> ToSet(report.present) \intersect ArtifactsOrder,
     absent |-> ArtifactsOrder \ ToSet(report.present),
     findings |-> ToSet(report.blocking), approvals |-> report.approvals,
     missing |-> report.missing_evidence]
=============================================================================
