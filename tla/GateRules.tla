------------------------------ MODULE GateRules ------------------------------
(***************************************************************************)
(* The pure half of deploy_gate.py: how a bundle directory of evidence     *)
(* files becomes one report.  Everything build_report reads is a value     *)
(* here (the view b) or an environment setting of the process (settings);  *)
(* everything it returns is a field of Report.                             *)
(*                                                                         *)
(* A file is abstracted to what the rules look at.  "count" is the number  *)
(* the gate blocks on: summary.blocking, scan_secrets.count,               *)
(* summary.unbound, summary.survived, and 1 for ok=false or a trace error. *)
(* "grade" is the risk tier the artifact contributes by itself.  Equal     *)
(* files have equal bytes, so a sha256 is the file itself.                 *)
(***************************************************************************)
EXTENDS Naturals, FiniteSets

CONSTANTS
    Target,     \* identifiers of changed methods (diff_targets "id")
    Commit,     \* commit shas
    NoCommit,   \* an empty or unset sha
    Digest,     \* observer tool digests
    NoDigest,   \* an unset digest
    Role,       \* sign-off roles
    Slot        \* positions in the order _find_artifacts lists matching files

ASSUME GateAssumption ==
    /\ NoCommit \notin Commit
    /\ NoDigest \notin Digest
    /\ Slot \subseteq Nat /\ IsFiniteSet(Slot)

LegacyNames == {"native_check", "env_diff", "scenarios", "validate",
                "security", "trace", "upgrade", "scan_secrets"}

ProofNames == {"diff_targets", "changed_coverage", "runtime_path",
               "test_quality", "scenario_satisfaction", "mutation_smoke",
               "red_green_replay"}

AllNames == LegacyNames \union ProofNames

CoreRequired == {"native_check", "scenarios", "validate", "scan_secrets"}

CoreRequiredV2 ==
    CoreRequired \union (ProofNames \ {"red_green_replay"}) \union {"provenance"}

Tier == {"normal", "high", "critical"}
Shape == {"absent", "garbled", "misshapen", "valid"}
Seal == {"absent", "tampered", "incomplete", "sealed"}
Severity == 0..4

File == [shape : Shape, count : Nat, grade : Tier, ids : SUBSET Target,
         seal : Seal, digest : Digest \union {NoDigest}, sensitive : BOOLEAN]

\* A *.provenance.json envelope; "good" means verify_envelope accepts it.
Envelope == [good : BOOLEAN, sha : File, name : AllNames,
             head : Commit \union {NoCommit}]

Manifest == [shape : Shape, migration : BOOLEAN, security : BOOLEAN,
             controller : BOOLEAN, bugfix : BOOLEAN, sensitive : BOOLEAN]

Policy == [shape : Shape, sev : SUBSET Severity, roles : SUBSET Role]

Signoff == [shape : Shape, roles : SUBSET Role]

Contents == [AllNames -> [Slot -> File]]

\* What one gate run sees.  The artifacts are read when they are loaded
\* ("files") and once more when they are hashed ("bytes").
View == [files : Contents, bytes : Contents, envs : SUBSET Envelope,
         manifest : Manifest, policy : Policy, signoff : Signoff]

\* The command line and the environment variables of one gate process.
Settings == [strict : BOOLEAN, key : BOOLEAN, head : Commit \union {NoCommit},
             probe : Digest \union {NoDigest}, cli : Policy, var : Policy]

-----------------------------------------------------------------------------
(* Loading: which files match, which are usable, which one is consumed.    *)

Names(strict) == IF strict THEN AllNames ELSE LegacyNames

Found(b, n) == {i \in Slot : b.files[n][i].shape # "absent"}

Usable(b, n) == {i \in Slot : b.files[n][i].shape = "valid"}

Loaded(b, strict) == {n \in Names(strict) : Usable(b, n) # {}}

Counted == {"validate", "upgrade", "scan_secrets"}

First(S) == CHOOSE i \in S : \A j \in S : i <= j

MostCounted(b, n, S) ==
    First({i \in S : \A j \in S : b.files[n][j].count <= b.files[n][i].count})

WorstSlot(b, n) ==
    IF n \in Counted THEN MostCounted(b, n, Usable(b, n)) ELSE First(Usable(b, n))

Consumed(b, n) == b.files[n][WorstSlot(b, n)]

Ambiguous(b, n) == \E i, j \in Usable(b, n) : i # j

\* Mutant: two usable files for one name are merged without a word.
LoadWarningsSilentMerge(b, strict) ==
    {n \in Names(strict) : Found(b, n) # Usable(b, n)}

LoadWarnings(b, strict) ==
    {n \in Names(strict) : Found(b, n) # Usable(b, n) \/ Ambiguous(b, n)}

-----------------------------------------------------------------------------
(* The change manifest and the evidence it makes mandatory.                *)

\* An unparseable manifest (or one that is no object) counts as no manifest.
Flag(b, f) == b.manifest.shape \in {"valid", "misshapen"} /\ b.manifest[f]

Required(b, strict) ==
    (IF strict THEN CoreRequiredV2 ELSE CoreRequired)
    \union (IF Flag(b, "migration") THEN {"upgrade"} ELSE {})
    \union (IF Flag(b, "security") \/ Flag(b, "controller")
            THEN {"security"} ELSE {})
    \union (IF strict /\ Flag(b, "bugfix") THEN {"red_green_replay"} ELSE {})

-----------------------------------------------------------------------------
(* Risk.                                                                   *)

Graded == {"scenarios", "env_diff", "validate", "upgrade", "security"}

GradeIs(b, strict, tier) ==
    \E n \in Graded \intersect Loaded(b, strict) : Consumed(b, n).grade = tier

Bad(b, strict, n) == n \in Loaded(b, strict) /\ Consumed(b, n).count > 0

Risk(b, strict) ==
    IF GradeIs(b, strict, "critical") \/ \E n \in Counted : Bad(b, strict, n)
    THEN "critical"
    ELSE IF \/ GradeIs(b, strict, "high")
            \/ Flag(b, "security") \/ Flag(b, "controller")
         THEN "high" ELSE "normal"

-----------------------------------------------------------------------------
(* Provenance: every required, consumed file must be covered by an         *)
(* envelope that hashes it, names it and carries the right head.           *)

\* The path is hashed again: it is the consumed file only if nobody wrote it.
Hashed(b, n) == b.bytes[n][WorstSlot(b, n)]

\* Mutants: the head check, or the hash check, is dropped.
CoversAnyHead(e, b, n, head) ==
    e.good /\ e.sha = Hashed(b, n) /\ e.name = n

CoversAnyBytes(e, b, n, head) ==
    e.good /\ e.name = n /\ e.head # NoCommit /\ (head = NoCommit \/ e.head = head)

Covers(e, b, n, head) ==
    /\ e.good
    /\ e.sha = Hashed(b, n)
    /\ e.name = n
    /\ e.head # NoCommit
    /\ head = NoCommit \/ e.head = head

Attested(b, n, head) == \E e \in b.envs : Covers(e, b, n, head)

Unverifiable(b, s) == b.envs # {} /\ ~s.key

Uncovered(b, s) ==
    {n \in Required(b, s.strict) \intersect Loaded(b, s.strict) :
        ~Attested(b, n, s.head)}

ProvenanceFails(b, s) ==
    /\ s.strict /\ b.envs # {} /\ s.key
    /\ (\E e \in b.envs : ~e.good) \/ Uncovered(b, s) # {}

ProvenanceHolds(b, s) ==
    s.strict /\ b.envs # {} /\ s.key /\ ~ProvenanceFails(b, s)

-----------------------------------------------------------------------------
(* gate_decision                                                           *)

BlockNames(strict) ==
    {"validate", "upgrade", "trace", "scan_secrets"}
    \union (IF strict THEN ProofNames \ {"diff_targets"} ELSE {})

\* Targets git found that a proof does not list.
Unbound(b, n) ==
    /\ {"diff_targets", n} \subseteq Loaded(b, TRUE)
    /\ ~(Consumed(b, "diff_targets").ids \subseteq Consumed(b, n).ids)

ObserverUntrusted(b, s) ==
    /\ "runtime_path" \in Loaded(b, TRUE)
    /\ \/ Consumed(b, "runtime_path").seal # "sealed"
       \/ s.probe # NoDigest /\ Consumed(b, "runtime_path").digest # s.probe

Blocking(b, s) ==
    {n \in BlockNames(s.strict) : Bad(b, s.strict, n)}
    \union (IF s.strict
            THEN {n \in {"changed_coverage", "runtime_path"} : Unbound(b, n)}
                 \union (IF ObserverUntrusted(b, s) THEN {"runtime_path"} ELSE {})
                 \union (IF ProvenanceFails(b, s) THEN {"provenance"} ELSE {})
            ELSE {})

Missing(b, s) ==
    {n \in Required(b, s.strict) :
        IF n = "provenance" THEN ~ProvenanceHolds(b, s)
                            ELSE n \notin Loaded(b, s.strict)}

Sensitive(b, strict) ==
    \/ Flag(b, "sensitive")
    \/ \E n \in {"scenarios", "security"} \intersect Loaded(b, strict) :
          Consumed(b, n).sensitive

Approvals(b, s) ==
    (IF Risk(b, s.strict) = "critical" THEN {"senior"} ELSE {})
    \union (IF Sensitive(b, s.strict) THEN {"finance"} ELSE {})
    \union (IF Flag(b, "controller") THEN {"controller"} ELSE {})
    \union (IF Flag(b, "security") THEN {"access_control"} ELSE {})

NothingChanged(b, s) ==
    /\ s.strict
    /\ "diff_targets" \in Loaded(b, TRUE)
    /\ Consumed(b, "diff_targets").ids = {}

\* Everything build_report appends to _warnings before it decides.
Warnings(b, s) ==
    LoadWarnings(b, s.strict)
    \union (IF b.manifest.shape \in {"garbled", "misshapen"}
            THEN {"manifest"} ELSE {})
    \union (IF s.strict /\ b.envs # {} /\ s.key /\ s.head = NoCommit
            THEN {"unpinned_head"} ELSE {})
    \union (IF s.strict /\ Unverifiable(b, s) THEN {"unverifiable"} ELSE {})
    \union (IF s.strict /\ "runtime_path" \in Loaded(b, TRUE) /\ s.probe = NoDigest
            THEN {"unpinned_probe"} ELSE {})

Decision(b, s) ==
    IF Blocking(b, s) # {} THEN "block"
    ELSE IF \/ Risk(b, s.strict) # "normal"
            \/ Missing(b, s) # {}
            \/ Warnings(b, s) # {}
            \/ Approvals(b, s) # {}
            \/ NothingChanged(b, s)
         THEN "needs_human" ELSE "approve"

-----------------------------------------------------------------------------
(* Severities and the opt-in fail-closed policy.                           *)

SeverityOf(c) ==
    CASE c \in {"security", "scan_secrets", "provenance"} -> 4
      [] c \in {"controller", "access_control"} -> 4
      [] c \in {"upgrade", "senior", "finance"} -> 3
      [] OTHER -> 2

Findings(b, s) == Blocking(b, s) \union Missing(b, s) \union Approvals(b, s)

NoPolicy == [shape |-> "absent", sev |-> {}, roles |-> {}]

\* --policy, then gate_policy.json, then ODOO_AI_FAIL_CLOSED; an unreadable
\* source is skipped.
FailClosedPolicy(b, s) ==
    IF s.cli.shape = "valid" THEN s.cli
    ELSE IF b.policy.shape = "valid" THEN b.policy
    ELSE IF s.var.shape = "valid" THEN s.var ELSE NoPolicy

SignoffCovers(b, roles) ==
    b.signoff.shape = "valid" /\ roles \subseteq b.signoff.roles

Triggered(b, s) ==
    \E c \in Findings(b, s) : SeverityOf(c) \in FailClosedPolicy(b, s).sev

\* Mutant: a covering sign-off turns whatever was decided into needs_human.
FinalDecisionLifted(b, s) ==
    IF ~Triggered(b, s) THEN Decision(b, s)
    ELSE IF ~SignoffCovers(b, FailClosedPolicy(b, s).roles) THEN "block"
    ELSE "needs_human"

FinalDecision(b, s) ==
    IF ~Triggered(b, s) THEN Decision(b, s)
    ELSE IF ~SignoffCovers(b, FailClosedPolicy(b, s).roles) THEN "block"
    ELSE IF Decision(b, s) = "approve" THEN "needs_human"
    ELSE Decision(b, s)

Report(b, s) ==
    [decision |-> FinalDecision(b, s), head |-> s.head, strict |-> s.strict]
=============================================================================
