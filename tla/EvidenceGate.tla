---------------------------- MODULE EvidenceGate ----------------------------
(***************************************************************************)
(* The life of an evidence bundle: commits are pushed, CI runs the proof   *)
(* tools on a checkout and attests what they wrote, people and agents      *)
(* edit, restore and delete files of the bundle directory at any moment,   *)
(* and the gate is run on whatever is there.  A gate run loads the         *)
(* artifacts and, in a later step, hashes the same paths, reads everything *)
(* else and decides.  Frozen says whether the directory is left alone in   *)
(* between, as in a CI job with a directory of its own.                    *)
(***************************************************************************)
EXTENDS GateRules

CONSTANTS
    CiOutputs,      \* what one CI job's tools can write, all artifacts at once
    HandFiles,      \* what a person may put under each artifact's name
    Manifests, Policies, Signoffs,
    GateSettings,   \* how the gate process is configured (head set apart)
    Frozen,         \* nobody writes the directory while a gate reads it
    MaxJobs,        \* bound: CI jobs started
    MaxEdits        \* bound: edits of the bundle directory by hand

AbsentFile == [shape |-> "absent", count |-> 0, grade |-> "normal", ids |-> {},
               seal |-> "absent", digest |-> NoDigest, sensitive |-> FALSE]

NoManifest == [shape |-> "absent", migration |-> FALSE, security |-> FALSE,
               controller |-> FALSE, bugfix |-> FALSE, sensitive |-> FALSE]

NoSignoff == [shape |-> "absent", roles |-> {}]

Empty == [n \in AllNames |-> AbsentFile]

NoContents == [n \in AllNames |-> [i \in Slot |-> AbsentFile]]

ASSUME EvidenceAssumption ==
    /\ CiOutputs \subseteq [AllNames -> File]
    /\ HandFiles \in [AllNames -> SUBSET File]
    /\ Manifests \subseteq Manifest
    /\ Policies \subseteq Policy
    /\ Signoffs \subseteq Signoff
    /\ GateSettings \subseteq Settings
    /\ Frozen \in BOOLEAN
    /\ MaxJobs \in Nat /\ MaxEdits \in Nat
    /\ AbsentFile \in File
    /\ 1 \in Slot

VARIABLES
    head,       \* tip of the branch under review
    pushed,     \* every commit that was ever the tip
    ci,         \* the CI job: its checkout, its output directory, its step
    produced,   \* history: jobs whose tools ran, with what they wrote
    signed,     \* history: the jobs whose output was attested
    bundle,     \* the directory the gate reads
    gate,       \* the gate process: the artifacts it has loaded, if running
    approved,   \* history: commits a strict gate run approved
    jobs,       \* CI jobs started so far
    edits       \* edits by hand so far

vars == <<head, pushed, ci, produced, signed, bundle, gate, approved,
          jobs, edits>>

Bundle == [files : Contents, envs : SUBSET Envelope, manifest : Manifest,
           policy : Policy, signoff : Signoff]

Gate == [running : BOOLEAN, files : Contents]

Production == [sha : Commit, out : CiOutputs]

CiJob == [step : {"idle", "tools", "sign"}, sha : Commit \union {NoCommit},
          out : CiOutputs \union {Empty}]

TypeOK ==
    /\ head \in Commit /\ pushed \subseteq Commit
    /\ ci \in CiJob
    /\ produced \subseteq Production /\ signed \subseteq Production
    /\ bundle \in Bundle /\ gate \in Gate
    /\ approved \subseteq Commit
    /\ jobs \in 0..MaxJobs /\ edits \in 0..MaxEdits

Init ==
    /\ head \in Commit
    /\ pushed = {head}
    /\ ci = [step |-> "idle", sha |-> NoCommit, out |-> Empty]
    /\ produced = {} /\ signed = {} /\ approved = {}
    /\ bundle = [files |-> NoContents, envs |-> {}, manifest |-> NoManifest,
                 policy |-> NoPolicy, signoff |-> NoSignoff]
    /\ gate = [running |-> FALSE, files |-> NoContents]
    /\ jobs = 0 /\ edits = 0

-----------------------------------------------------------------------------
(* The branch and the CI job.                                              *)

Push(c) ==
    /\ c \notin pushed
    /\ head' = c /\ pushed' = pushed \union {c}
    /\ UNCHANGED <<ci, produced, signed, bundle, gate, approved, jobs, edits>>

\* A job starts (or is cancelled and started again) on the current tip, with
\* an output directory of its own.
CiCheckout ==
    /\ jobs < MaxJobs
    /\ jobs' = jobs + 1
    /\ ci' = [step |-> "tools", sha |-> head, out |-> Empty]
    /\ UNCHANGED <<head, pushed, produced, signed, bundle, gate, approved, edits>>

CiTools(out) ==
    /\ ci.step = "tools"
    /\ ci' = [ci EXCEPT !.step = "sign", !.out = out]
    /\ produced' = produced \union {[sha |-> ci.sha, out |-> out]}
    /\ UNCHANGED <<head, pushed, signed, bundle, gate, approved, jobs, edits>>

\* attest(): the sha is computed from the bytes, the head is the job's.
attest(job, n) ==
    [good |-> TRUE, sha |-> job.out[n], name |-> n, head |-> job.sha]

MayWrite == Frozen => ~gate.running

Written(job) == {n \in AllNames : job.out[n].shape # "absent"}

Job == [sha |-> ci.sha, out |-> ci.out]

\* What "attest" prints without the key is an error object, and the job still
\* redirects it into the envelope's file.
NotAttested(job, n) == [attest(job, n) EXCEPT !.good = FALSE, !.head = NoCommit]

\* The job attests every file it wrote; its output directory is the bundle.
\* The runbook stops here when the observer is not sealed: the model signs all
\* the same, so nothing below leans on it.
CiSign(key) ==
    /\ ci.step = "sign"
    /\ MayWrite
    /\ signed' = signed \union (IF key THEN {Job} ELSE {})
    /\ bundle' = [bundle EXCEPT
          !.files = [n \in AllNames |->
              [i \in Slot |-> IF i = 1 THEN ci.out[n] ELSE AbsentFile]],
          !.envs = {IF key THEN attest(Job, n) ELSE NotAttested(Job, n) :
                       n \in Written(Job)}]
    /\ ci' = [ci EXCEPT !.step = "idle"]
    /\ UNCHANGED <<head, pushed, produced, gate, approved, jobs, edits>>

-----------------------------------------------------------------------------
(* Edits of the bundle directory outside CI.                               *)

Edit(b) ==
    /\ edits < MaxEdits
    /\ MayWrite
    /\ edits' = edits + 1
    /\ bundle' = b
    /\ UNCHANGED <<head, pushed, ci, produced, signed, gate, approved, jobs>>

WriteFile(n, i, f) == Edit([bundle EXCEPT !.files[n][i] = f])

\* A file and its envelope from an earlier job come back.
RestoreSigned(job, n, i) ==
    Edit([bundle EXCEPT !.files[n][i] = job.out[n],
                        !.envs = @ \union {attest(job, n)}])

DropEnvelope(e) == Edit([bundle EXCEPT !.envs = @ \ {e}])

\* Any change to an envelope's bytes makes its HMAC wrong.
AlterEnvelope(e, h) ==
    Edit([bundle EXCEPT !.envs = (@ \ {e}) \union
             {[e EXCEPT !.good = FALSE, !.head = h]}])

WriteManifest(m) == Edit([bundle EXCEPT !.manifest = m])
WritePolicy(p) == Edit([bundle EXCEPT !.policy = p])
WriteSignoff(x) == Edit([bundle EXCEPT !.signoff = x])

-----------------------------------------------------------------------------
(* The gate.  ODOO_AI_EXPECTED_HEAD_SHA is the job's commit, or not set.   *)
(* It prints its report and always exits 0: only an approval of a strict   *)
(* run, which names the commit, is remembered.                             *)

GateLoad ==
    /\ ~gate.running
    /\ gate' = [running |-> TRUE, files |-> bundle.files]
    /\ UNCHANGED <<head, pushed, ci, produced, signed, bundle, approved, jobs, edits>>

Seen == [files |-> gate.files, bytes |-> bundle.files, envs |-> bundle.envs,
         manifest |-> bundle.manifest, policy |-> bundle.policy,
         signoff |-> bundle.signoff]

\* Mutant: every strict run counts, whatever it decided.
GateDecideAnything(s, h) ==
    /\ gate.running
    /\ approved' = IF s.strict THEN approved \union {h} ELSE approved
    /\ gate' = [running |-> FALSE, files |-> NoContents]
    /\ UNCHANGED <<head, pushed, ci, produced, signed, bundle, jobs, edits>>

GateDecide(s, h) ==
    /\ gate.running
    /\ LET report == Report(Seen, [s EXCEPT !.head = h])
       IN  approved' = IF report.strict /\ report.decision = "approve"
                       THEN approved \union {report.head} ELSE approved
    /\ gate' = [running |-> FALSE, files |-> NoContents]
    /\ UNCHANGED <<head, pushed, ci, produced, signed, bundle, jobs, edits>>

Next ==
    \/ \E c \in Commit : Push(c)
    \/ CiCheckout
    \/ \E out \in CiOutputs : CiTools(out)
    \/ \E key \in BOOLEAN : CiSign(key)
    \/ \E n \in AllNames, i \in Slot : \E f \in HandFiles[n] : WriteFile(n, i, f)
    \/ \E job \in signed, i \in Slot : \E n \in Written(job) :
          RestoreSigned(job, n, i)
    \/ \E e \in bundle.envs : DropEnvelope(e)
    \/ \E e \in bundle.envs, h \in Commit : AlterEnvelope(e, h)
    \/ \E m \in Manifests : WriteManifest(m)
    \/ \E p \in Policies : WritePolicy(p)
    \/ \E x \in Signoffs : WriteSignoff(x)
    \/ GateLoad
    \/ \E s \in GateSettings, h \in {ci.sha, NoCommit} : GateDecide(s, h)

Spec == Init /\ [][Next]_vars

-----------------------------------------------------------------------------
(* Properties                                                              *)

Clean(n, f) ==
    /\ f.shape = "valid"
    /\ n \in BlockNames(TRUE) => f.count = 0
    /\ n \in Graded => f.grade = "normal"
    /\ n = "runtime_path" => f.seal = "sealed"

Provable == CoreRequiredV2 \ {"provenance"}

CleanlyProduced(c, n) ==
    \E p \in produced : p.sha = c /\ Clean(n, p.out[n])

Proven == {c \in Commit : \A n \in Provable : CleanlyProduced(c, n)}

\* A strict approval of a commit means that every proof artifact was written
\* by CI's own tools on that commit, and was clean: no edited, restored,
\* renamed or deleted file, and no later or earlier commit's evidence, can
\* stand in for it (_verify_provenance, gate_decision).
ApprovedIsProven == approved \subseteq Proven

\* No matching file is ever hidden from an approval, whatever the mode: when
\* the gate approves, every required artifact has exactly one file, and every
\* file the gate loaded, required or not, is readable and clean (build_report's
\* ambiguity and parse warnings).
ApproveSeesEveryFile ==
    gate.running =>
    \A s \in GateSettings :
        Report(Seen, [s EXCEPT !.head = ci.sha]).decision = "approve" =>
            /\ \A n \in Required(Seen, s.strict) \ {"provenance"} :
                  \E i \in Slot : Found(Seen, n) = {i}
            /\ \A n \in Names(s.strict), i \in Slot :
                  i \in Found(Seen, n) =>
                    /\ gate.files[n][i].shape = "valid"
                    /\ n \in BlockNames(s.strict) => gate.files[n][i].count = 0

\* Sign-offs and policies only ever make the answer stricter: a fail-closed
\* finding without its sign-off blocks, and no sign-off lifts a block or turns
\* needs_human into approve (build_report's fail-closed section).
SignoffNeverLoosens ==
    gate.running =>
    \A s \in GateSettings :
        LET final == FinalDecision(Seen, s)
        IN  /\ Decision(Seen, s) = "block" => final = "block"
            /\ Decision(Seen, s) = "needs_human" => final # "approve"
            /\ Triggered(Seen, s)
                 /\ ~(FailClosedPolicy(Seen, s).roles \subseteq bundle.signoff.roles)
               => final = "block"

Promise == INSTANCE MergePromise WITH proven <- Proven

\* The gate keeps the abstract promise: commits become proven, and an
\* approval is only ever added for a commit already proven.
PromiseKept == Promise!Spec
=============================================================================
