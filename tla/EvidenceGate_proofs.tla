------------------------ MODULE EvidenceGate_proofs ------------------------
(***************************************************************************)
(* For every set of commits, targets and artifact contents: EvidenceGate   *)
(* keeps its types, a commit a strict run approved was proven by CI's own  *)
(* tools, and the machine implements MergePromise.                         *)
(***************************************************************************)
EXTENDS EvidenceGate, TLAPS

-----------------------------------------------------------------------------
(* What one strict approval says about the bundle the gate read.           *)

\* The fail-closed policy never manufactures an approval.
LEMMA ApproveIsDecided ==
    ASSUME NEW b, NEW s, FinalDecision(b, s) = "approve"
    PROVE  Decision(b, s) = "approve"
BY DEF FinalDecision

\* An approval has no blocking finding, nothing missing, no warning and a
\* normal risk.
LEMMA ApproveMeans ==
    ASSUME NEW b, NEW s, Report(b, s).decision = "approve"
    PROVE  /\ Blocking(b, s) = {} /\ Missing(b, s) = {} /\ Warnings(b, s) = {}
           /\ Risk(b, s.strict) = "normal"
<1>1. Decision(b, s) = "approve"
  BY ApproveIsDecided DEF Report
<1> QED
  BY <1>1 DEF Decision

\* A strict approval rests on provenance that was checked and holds.
LEMMA ApproveHasProvenance ==
    ASSUME NEW b, NEW s, s.strict = TRUE, Report(b, s).decision = "approve"
    PROVE  /\ b.envs # {} /\ s.key
           /\ Uncovered(b, s) = {}
           /\ s.head # NoCommit
<1>1. "provenance" \in Required(b, s.strict)
  BY DEF Required, CoreRequiredV2
<1>2. ProvenanceHolds(b, s)
  BY <1>1, ApproveMeans DEF Missing
<1>3. b.envs # {} /\ s.key /\ Uncovered(b, s) = {}
  BY <1>2 DEF ProvenanceHolds, ProvenanceFails
<1>4. "unpinned_head" \notin Warnings(b, s)
  BY ApproveMeans
<1> QED
  BY <1>3, <1>4 DEF Warnings

\* A strict approval names the commit it is about.
LEMMA ApprovedNamesHead ==
    ASSUME NEW b, NEW s, Report(b, s).strict = TRUE,
           Report(b, s).decision = "approve"
    PROVE  s.head # NoCommit
<1>1. s.strict = TRUE
  BY DEF Report
<1> QED
  BY <1>1, ApproveHasProvenance

-----------------------------------------------------------------------------
(* Typing.                                                                 *)

\* The typing invariant with what typing CiTools needs: a running job has a
\* commit, and a job about to sign has run its tools.
TInv ==
    /\ TypeOK
    /\ ci.step # "idle" => ci.sha \in Commit
    /\ ci.step = "sign" => ci.out \in CiOutputs

\* An attestation of a job's file is a well-formed envelope.
LEMMA AttestType ==
    ASSUME NEW job \in Production, NEW n \in AllNames
    PROVE  /\ attest(job, n) \in Envelope /\ job.out[n] \in File
           /\ NotAttested(job, n) \in Envelope
<1>1. job.out[n] \in File
  BY EvidenceAssumption DEF Production
<1> QED
  BY <1>1 DEF Production, attest, NotAttested, Envelope

\* Every single edit of a well-formed bundle directory is a well-formed one.
LEMMA BundleEdits ==
    ASSUME NEW b \in Bundle
    PROVE  /\ \A n \in AllNames, i \in Slot, f \in File :
                [b EXCEPT !.files[n][i] = f] \in Bundle
           /\ \A n \in AllNames, i \in Slot, f \in File, e \in Envelope :
                [b EXCEPT !.files[n][i] = f, !.envs = @ \union {e}] \in Bundle
           /\ \A E \in SUBSET Envelope : [b EXCEPT !.envs = E] \in Bundle
           /\ \A m \in Manifest : [b EXCEPT !.manifest = m] \in Bundle
           /\ \A p \in Policy : [b EXCEPT !.policy = p] \in Bundle
           /\ \A x \in Signoff : [b EXCEPT !.signoff = x] \in Bundle
BY DEF Bundle, Contents

\* An idle gate has read nothing.
LEMMA NothingRead == [running |-> FALSE, files |-> NoContents] \in Gate
BY EvidenceAssumption DEF Gate, NoContents, Contents

LEMMA InitTyped == Init => TInv
<1> SUFFICES ASSUME Init PROVE TInv
  OBVIOUS
<1>1. AbsentFile \in File /\ NoManifest \in Manifest
      /\ NoPolicy \in Policy /\ NoSignoff \in Signoff
  BY DEF AbsentFile, File, NoManifest, Manifest, NoPolicy, Policy,
         NoSignoff, Signoff, Shape, Tier, Seal
<1>2. bundle \in Bundle /\ gate \in Gate
  BY <1>1 DEF Init, Bundle, Gate, Contents, NoContents
<1> QED
  BY <1>2, EvidenceAssumption DEF Init, TInv, TypeOK, CiJob

\* Typing of the steps that write the bundle by hand.
LEMMA EditTyped ==
    ASSUME TInv, NEW b \in Bundle, Edit(b)
    PROVE  TInv'
BY EvidenceAssumption DEF TInv, TypeOK, Edit

\* What a gate run sees is well formed.
LEMMA SeenTyped == TInv => Seen \in View
BY DEF TInv, TypeOK, Seen, View, Bundle, Gate

LEMMA NextTyped == TInv /\ [Next]_vars => TInv'
<1> SUFFICES ASSUME TInv, [Next]_vars PROVE TInv'
  OBVIOUS
<1> USE EvidenceAssumption, GateAssumption
<1>0. bundle \in Bundle /\ bundle.envs \subseteq Envelope
  BY DEF TInv, TypeOK, Bundle
<1>1. ASSUME NEW c \in Commit, Push(c) PROVE TInv'
  BY <1>1 DEF TInv, TypeOK, Push
<1>2. CASE CiCheckout
  BY <1>2 DEF TInv, TypeOK, CiCheckout, CiJob
<1>3. ASSUME NEW out \in CiOutputs, CiTools(out) PROVE TInv'
  <2>1. ci \in CiJob /\ ci.sha \in Commit
    BY <1>3 DEF TInv, TypeOK, CiTools
  <2>2. ci' \in CiJob /\ ci'.sha = ci.sha /\ ci'.out = out
    BY <1>3, <2>1 DEF CiTools, CiJob
  <2>3. produced' \subseteq Production
    BY <1>3, <2>1 DEF TInv, TypeOK, CiTools, Production
  <2> QED
    BY <1>3, <2>1, <2>2, <2>3 DEF TInv, TypeOK, CiTools
<1>4. ASSUME NEW key \in BOOLEAN, CiSign(key) PROVE TInv'
  <2>1. Job \in Production
    BY <1>4 DEF TInv, TypeOK, CiSign, Job, Production
  <2>2. {IF key THEN attest(Job, n) ELSE NotAttested(Job, n) :
            n \in Written(Job)} \subseteq Envelope
    BY <2>1, AttestType DEF Written
  <2>3. AbsentFile \in File /\ ci.out \in [AllNames -> File]
    BY <1>4 DEF TInv, CiSign
  <2>4. bundle' \in Bundle
    BY <1>0, <1>4, <2>2, <2>3 DEF CiSign, Bundle, Contents
  <2> QED
    BY <1>4, <2>1, <2>4 DEF TInv, TypeOK, CiSign, CiJob
<1>5. ASSUME NEW n \in AllNames, NEW i \in Slot, NEW f \in HandFiles[n],
             WriteFile(n, i, f)
      PROVE  TInv'
  <2>1. f \in File
    OBVIOUS
  <2> QED
    BY <1>0, <1>5, <2>1, BundleEdits, EditTyped DEF WriteFile
<1>6. ASSUME NEW job \in signed, NEW i \in Slot, NEW n \in Written(job),
             RestoreSigned(job, n, i)
      PROVE  TInv'
  <2>1. job \in Production /\ n \in AllNames
    BY DEF TInv, TypeOK, Written
  <2> QED
    BY <1>0, <1>6, <2>1, AttestType, BundleEdits, EditTyped DEF RestoreSigned
<1>7. ASSUME NEW e \in bundle.envs, DropEnvelope(e) PROVE TInv'
  <2>1. [bundle EXCEPT !.envs = @ \ {e}]
          = [bundle EXCEPT !.envs = bundle.envs \ {e}]
    BY <1>0 DEF Bundle
  <2> QED
    BY <1>0, <1>7, <2>1, BundleEdits, EditTyped DEF DropEnvelope
<1>8. ASSUME NEW e \in bundle.envs, NEW h \in Commit, AlterEnvelope(e, h)
      PROVE  TInv'
  <2> DEFINE E == (bundle.envs \ {e}) \union
                    {[e EXCEPT !.good = FALSE, !.head = h]}
  <2>1. E \in SUBSET Envelope
    BY <1>0 DEF Envelope
  <2>2. AlterEnvelope(e, h) <=> Edit([bundle EXCEPT !.envs = E])
    BY <1>0 DEF AlterEnvelope, Bundle
  <2> QED
    BY <1>0, <1>8, <2>1, <2>2, BundleEdits, EditTyped
<1>9. ASSUME NEW m \in Manifests, WriteManifest(m) PROVE TInv'
  BY <1>0, <1>9, BundleEdits, EditTyped DEF WriteManifest
<1>10. ASSUME NEW p \in Policies, WritePolicy(p) PROVE TInv'
  BY <1>0, <1>10, BundleEdits, EditTyped DEF WritePolicy
<1>11. ASSUME NEW x \in Signoffs, WriteSignoff(x) PROVE TInv'
  BY <1>0, <1>11, BundleEdits, EditTyped DEF WriteSignoff
<1>12. ASSUME NEW s \in GateSettings, NEW h \in {ci.sha, NoCommit},
              GateDecide(s, h)
       PROVE  TInv'
  <2>1. [s EXCEPT !.head = h].head = h /\ h \in Commit \union {NoCommit}
    BY DEF TInv, TypeOK, CiJob, Settings
  <2>2. approved' \subseteq Commit
    BY <1>12, <2>1, ApprovedNamesHead DEF TInv, TypeOK, GateDecide, Report
  <2>3. gate' \in Gate
    BY <1>12, NothingRead DEF GateDecide
  <2> QED
    BY <1>12, <2>2, <2>3 DEF TInv, TypeOK, GateDecide
<1>13. CASE GateLoad
  <2>1. gate' \in Gate
    BY <1>0, <1>13 DEF GateLoad, Gate, Bundle
  <2> QED
    BY <1>13, <2>1 DEF TInv, TypeOK, GateLoad
<1>14. CASE UNCHANGED vars
  BY <1>14 DEF TInv, TypeOK, vars
<1> QED
  BY <1>1, <1>2, <1>3, <1>4, <1>5, <1>6, <1>7, <1>8, <1>9, <1>10, <1>11,
     <1>12, <1>14, <1>13 DEF Next

\* Every variable keeps its type (evidence directory, CI job and histories of
\* EvidenceGate), for all values of the constants.
THEOREM TypeCorrect == Spec => []TypeOK
<1>1. TInv => TypeOK
  BY DEF TInv
<1> QED
  BY InitTyped, NextTyped, <1>1, PTL DEF Spec

-----------------------------------------------------------------------------
(* Safety.                                                                 *)

\* Why the bundle directory may be edited freely: an envelope that verifies
\* attests exactly one file of one job, whatever was restored or altered.
EnvelopesHonest ==
    \A e \in bundle.envs :
        e.good => \E job \in signed : e = attest(job, e.name)

\* What was attested was produced, by the tools of the same job.
AttestedProduced ==
    /\ signed \subseteq produced
    /\ ci.step = "sign" => Job \in produced

\* The gate hashes the bytes it loaded: only because nobody writes meanwhile.
LoadedIsThere == Frozen /\ gate.running => gate.files = bundle.files

IInv ==
    /\ TInv
    /\ EnvelopesHonest
    /\ AttestedProduced
    /\ LoadedIsThere
    /\ Frozen => ApprovedIsProven

\* A file an approved bundle shows under a name is the only one of that name,
\* and it is the one the rules consumed: unreadable or second files would have
\* left a warning.
LEMMA TheOnlyFile ==
    ASSUME NEW b \in View, NEW s, Report(b, s).decision = "approve",
           NEW n \in Names(s.strict), NEW i \in Found(b, n)
    PROVE  /\ Found(b, n) = {i} /\ b.files[n][i].shape = "valid"
           /\ Consumed(b, n) = b.files[n][i] /\ Consumed(b, n) \in File
<1>1. n \notin LoadWarnings(b, s.strict)
  BY ApproveMeans DEF Warnings
<1>2. Found(b, n) = Usable(b, n) /\ ~Ambiguous(b, n)
  BY <1>1 DEF LoadWarnings
<1>3. i \in Slot /\ b.files[n][i].shape = "valid"
  BY <1>2 DEF Usable
<1>4. Usable(b, n) = {i}
  BY <1>2 DEF Ambiguous
<1>5. n \in AllNames
  BY DEF Names, AllNames
<1>6. b.files[n][i] \in File /\ b.files[n][i].count \in Nat
  BY <1>3, <1>5 DEF View, Contents, File
<1>7. First({i}) = i
  BY <1>3, GateAssumption DEF First
<1>8. {k \in {i} : \A j \in {i} : b.files[n][j].count <= b.files[n][k].count} = {i}
  BY <1>6
<1>9. WorstSlot(b, n) = i
  BY <1>4, <1>7, <1>8 DEF WorstSlot, MostCounted
<1> QED
  BY <1>2, <1>3, <1>4, <1>6, <1>9 DEF Consumed

\* A required file of an approved bundle is there.
LEMMA RequiredIsFound ==
    ASSUME NEW b, NEW s, Report(b, s).decision = "approve",
           NEW n \in Required(b, s.strict) \ {"provenance"}
    PROVE  n \in Names(s.strict) /\ \E i \in Slot : i \in Found(b, n)
<1>1. n \in Loaded(b, s.strict)
  BY ApproveMeans DEF Missing
<1> QED
  BY <1>1 DEF Loaded, Usable, Found

\* And it is the only one.
LEMMA TheRequiredFile ==
    ASSUME NEW b \in View, NEW s, Report(b, s).decision = "approve",
           NEW n \in Required(b, s.strict) \ {"provenance"}
    PROVE  \E i \in Slot : Found(b, n) = {i}
<1>1. n \in Names(s.strict)
  BY RequiredIsFound
<1>2. PICK i \in Slot : i \in Found(b, n)
  BY RequiredIsFound
<1>3. Found(b, n) = {i}
  BY <1>1, <1>2, TheOnlyFile
<1> QED
  BY <1>3

\* A consumed file of an approved strict bundle is a readable one.
LEMMA ConsumedIsUsable ==
    ASSUME NEW b \in View, NEW s,
           s.strict = TRUE, Report(b, s).decision = "approve",
           NEW n \in Loaded(b, TRUE)
    PROVE  Consumed(b, n) \in File /\ Consumed(b, n).shape = "valid"
<1>1. PICK i \in Slot : i \in Found(b, n)
  BY DEF Loaded, Usable, Found
<1>2. n \in Names(s.strict)
  BY DEF Loaded
<1> QED
  BY <1>1, <1>2, TheOnlyFile

\* A file of an approved strict bundle that the rules consumed was clean.
LEMMA ConsumedIsClean ==
    ASSUME NEW b \in View, NEW s,
           s.strict = TRUE, Report(b, s).decision = "approve",
           NEW n \in Loaded(b, TRUE)
    PROVE  Clean(n, Consumed(b, n))
<1>1. Consumed(b, n) \in File /\ Consumed(b, n).shape = "valid"
  BY ConsumedIsUsable
<1>2. Blocking(b, s) = {} /\ Risk(b, TRUE) = "normal"
  BY ApproveMeans
<1>3. ASSUME n \in BlockNames(TRUE) PROVE Consumed(b, n).count = 0
  <2>1. ~Bad(b, TRUE, n)
    BY <1>2, <1>3 DEF Blocking
  <2>2. Consumed(b, n).count \in Nat
    BY <1>1 DEF File
  <2>3. ~(Consumed(b, n).count > 0)
    BY <2>1 DEF Bad
  <2> QED
    BY <2>2, <2>3
<1>4. ASSUME n \in Graded PROVE Consumed(b, n).grade = "normal"
  <2>1. ~GradeIs(b, TRUE, "critical") /\ ~GradeIs(b, TRUE, "high")
    BY <1>2 DEF Risk
  <2>2. Consumed(b, n).grade \in Tier
    BY <1>1 DEF File
  <2> QED
    BY <1>4, <2>1, <2>2 DEF GradeIs, Tier
<1>5. ASSUME n = "runtime_path" PROVE Consumed(b, n).seal = "sealed"
  <2>1. ~ObserverUntrusted(b, s)
    BY <1>2 DEF Blocking
  <2> QED
    BY <1>5, <2>1 DEF ObserverUntrusted
<1> QED
  BY <1>1, <1>3, <1>4, <1>5 DEF Clean

\* The heart of the gate: in a directory whose good envelopes are honest and
\* whose loaded files are still there, a strict approval for head h finds, for
\* every provable name, a clean file that a job of that very head attested.
LEMMA ApprovalIsProof ==
    ASSUME TInv, EnvelopesHonest, gate.files = bundle.files,
           NEW s, s.strict = TRUE, Report(Seen, s).decision = "approve",
           NEW n \in Provable
    PROVE  \E job \in signed : job.sha = s.head /\ Clean(n, job.out[n])
<1>1. n \in Required(Seen, s.strict) /\ n # "provenance"
  BY DEF Provable, Required
<1>2. n \in Loaded(Seen, TRUE)
  BY <1>1, ApproveMeans DEF Missing
<1>3. Attested(Seen, n, s.head) /\ s.head # NoCommit
  BY <1>1, <1>2, ApproveHasProvenance DEF Uncovered
<1>4. PICK e \in bundle.envs : Covers(e, Seen, n, s.head)
  BY <1>3 DEF Attested, Seen
<1>5. PICK job \in signed : e = attest(job, e.name)
  BY <1>4 DEF EnvelopesHonest, Covers
<1>6. Hashed(Seen, n) = Consumed(Seen, n)
  BY DEF Hashed, Consumed, Seen
<1>7. job.sha = s.head /\ job.out[n] = Consumed(Seen, n)
  BY <1>3, <1>4, <1>5, <1>6 DEF Covers, attest
<1> QED
  BY <1>2, <1>7, SeenTyped, ConsumedIsClean

LEMMA InitSafe == Init => IInv
BY InitTyped
   DEF Init, IInv, EnvelopesHonest, AttestedProduced, LoadedIsThere, ApprovedIsProven

\* What CI's tools proved stays proven.
LEMMA ProvenGrows ==
    ASSUME produced \subseteq produced'
    PROVE  Proven \subseteq Proven'
BY DEF Proven, CleanlyProduced

Safe ==
    /\ EnvelopesHonest
    /\ AttestedProduced
    /\ LoadedIsThere
    /\ Frozen => ApprovedIsProven

\* An edit that adds only honest envelopes (or none that verify) is safe.
LEMMA EditSafe ==
    ASSUME IInv, NEW b, Edit(b),
           \A e \in b.envs : e \in bundle.envs \/ ~e.good
                             \/ \E job \in signed : e = attest(job, e.name)
    PROVE  Safe'
<1>1. EnvelopesHonest'
  BY DEF IInv, EnvelopesHonest, Edit, attest
<1>2. AttestedProduced'
  BY DEF IInv, AttestedProduced, Edit, Job
<1>3. LoadedIsThere'
  BY DEF IInv, LoadedIsThere, Edit, MayWrite, TInv, TypeOK, Gate
<1>4. Frozen => ApprovedIsProven'
  BY ProvenGrows DEF IInv, ApprovedIsProven, Edit
<1> QED
  BY <1>1, <1>2, <1>3, <1>4 DEF Safe

\* One gate run approves at most one commit, and only a proven one.
LEMMA ApprovalAddsProven ==
    ASSUME IInv, Frozen,
           NEW s \in GateSettings, NEW h \in {ci.sha, NoCommit}, GateDecide(s, h)
    PROVE  /\ approved' = approved \/ \E c \in Proven : approved' = approved \union {c}
           /\ approved' \subseteq Proven
<1> DEFINE t == [s EXCEPT !.head = h]
           r == Report(Seen, t)
<1>1. t.head = h /\ r.head = h /\ r.strict = t.strict /\ t.strict \in BOOLEAN
  BY EvidenceAssumption DEF Settings, Report
<1>2. ASSUME r.strict, r.decision = "approve" PROVE h \in Proven
  <2>1. t.strict = TRUE
    BY <1>1, <1>2
  <2>2. h # NoCommit
    BY <1>1, <1>2, <2>1, ApproveHasProvenance
  <2>3. h \in Commit
    BY <2>2 DEF IInv, TInv, TypeOK, CiJob
  <2>4. gate.files = bundle.files
    BY DEF IInv, LoadedIsThere, GateDecide
  <2>5. \A n \in Provable : \E job \in signed : job.sha = h /\ Clean(n, job.out[n])
    BY <1>1, <1>2, <2>1, <2>4, ApprovalIsProof DEF IInv
  <2> QED
    BY <2>3, <2>5 DEF IInv, AttestedProduced, Proven, CleanlyProduced
<1>3. approved' = IF r.strict /\ r.decision = "approve"
                  THEN approved \union {h} ELSE approved
  BY <1>1 DEF GateDecide
<1> QED
  BY <1>2, <1>3 DEF IInv, ApprovedIsProven

LEMMA NextSafe == IInv /\ [Next]_vars => IInv'
<1> SUFFICES ASSUME IInv, [Next]_vars PROVE Safe'
  BY NextTyped DEF IInv, Safe
<1>0. bundle \in Bundle /\ gate \in Gate
  BY DEF IInv, TInv, TypeOK
<1>1. ASSUME NEW c \in Commit, Push(c) PROVE Safe'
  BY <1>1, ProvenGrows DEF IInv, Safe, Push, EnvelopesHonest, AttestedProduced,
     LoadedIsThere, ApprovedIsProven, attest, Job
<1>2. CASE CiCheckout
  BY <1>2, ProvenGrows DEF IInv, Safe, CiCheckout, EnvelopesHonest,
     AttestedProduced, LoadedIsThere, ApprovedIsProven, attest
<1>3. ASSUME NEW out \in CiOutputs, CiTools(out) PROVE Safe'
  <2>1. Job' \in produced'
    BY <1>3 DEF IInv, TInv, TypeOK, CiTools, CiJob, Job
  <2>2. EnvelopesHonest' /\ LoadedIsThere'
    BY <1>3 DEF IInv, CiTools, EnvelopesHonest, LoadedIsThere, attest
  <2>3. Frozen => ApprovedIsProven'
    BY <1>3, ProvenGrows DEF IInv, CiTools, ApprovedIsProven
  <2> QED
    BY <1>3, <2>1, <2>2, <2>3 DEF IInv, Safe, CiTools, AttestedProduced
<1>4. ASSUME NEW key \in BOOLEAN, CiSign(key) PROVE Safe'
  <2>1. bundle'.envs = {IF key THEN attest(Job, n) ELSE NotAttested(Job, n) :
                           n \in Written(Job)}
    BY <1>0, <1>4 DEF CiSign, Bundle
  <2>2. \A n \in Written(Job) :
           attest(Job, n).name = n /\ ~NotAttested(Job, n).good
    BY DEF attest, NotAttested
  <2>6. EnvelopesHonest'
    BY <1>4, <2>1, <2>2 DEF CiSign, EnvelopesHonest, attest
  <2>3. AttestedProduced'
    BY <1>4 DEF IInv, CiSign, AttestedProduced
  <2>4. LoadedIsThere'
    BY <1>0, <1>4 DEF CiSign, MayWrite, LoadedIsThere, Gate
  <2>5. Frozen => ApprovedIsProven'
    BY <1>4, ProvenGrows DEF IInv, CiSign, ApprovedIsProven
  <2> QED
    BY <2>3, <2>4, <2>5, <2>6 DEF Safe
<1>5. ASSUME NEW n \in AllNames, NEW i \in Slot, NEW f \in HandFiles[n],
             WriteFile(n, i, f)
      PROVE  Safe'
  BY <1>0, <1>5, EditSafe DEF WriteFile, Bundle
<1>6. ASSUME NEW job \in signed, NEW i \in Slot, NEW n \in Written(job),
             RestoreSigned(job, n, i)
      PROVE  Safe'
  <2> DEFINE b == [bundle EXCEPT !.files[n][i] = job.out[n],
                                 !.envs = @ \union {attest(job, n)}]
  <2>1. b.envs = bundle.envs \union {attest(job, n)} /\ attest(job, n).name = n
    BY <1>0 DEF Bundle, attest
  <2>2. \A e \in b.envs : e \in bundle.envs \/ ~e.good
                         \/ \E j \in signed : e = attest(j, e.name)
    BY <2>1
  <2> QED
    BY <1>6, <2>2, EditSafe DEF RestoreSigned
<1>7. ASSUME NEW e \in bundle.envs, DropEnvelope(e)
      PROVE  Safe'
  BY <1>0, <1>7, EditSafe DEF DropEnvelope, Bundle
<1>8. ASSUME NEW e \in bundle.envs, NEW h \in Commit, AlterEnvelope(e, h)
      PROVE  Safe'
  <2>1. ~[e EXCEPT !.good = FALSE, !.head = h].good
    BY <1>0 DEF Bundle, Envelope
  <2> QED
    BY <1>0, <1>8, <2>1, EditSafe DEF AlterEnvelope, Bundle
<1>9. ASSUME NEW m \in Manifests, WriteManifest(m)
      PROVE  Safe'
  BY <1>0, <1>9, EditSafe DEF WriteManifest, Bundle
<1>10. ASSUME NEW p \in Policies, WritePolicy(p)
       PROVE  Safe'
  BY <1>0, <1>10, EditSafe DEF WritePolicy, Bundle
<1>11. ASSUME NEW x \in Signoffs, WriteSignoff(x)
       PROVE  Safe'
  BY <1>0, <1>11, EditSafe DEF WriteSignoff, Bundle
<1>12. ASSUME NEW s \in GateSettings, NEW h \in {ci.sha, NoCommit}, GateDecide(s, h)
       PROVE  Safe'
  <2>1. Frozen => approved' \subseteq Proven
    BY <1>12, ApprovalAddsProven
  <2>2. Frozen => ApprovedIsProven'
    BY <1>12, <2>1, ProvenGrows DEF GateDecide, ApprovedIsProven
  <2>3. EnvelopesHonest' /\ AttestedProduced' /\ LoadedIsThere'
    BY <1>12 DEF IInv, GateDecide, EnvelopesHonest, AttestedProduced,
       LoadedIsThere, attest, Job
  <2> QED
    BY <2>2, <2>3 DEF Safe
<1>13. CASE GateLoad
  BY <1>13, ProvenGrows DEF IInv, Safe, GateLoad, EnvelopesHonest,
     AttestedProduced, LoadedIsThere, ApprovedIsProven, attest, Job
<1>14. CASE UNCHANGED vars
  BY <1>14, ProvenGrows DEF vars, IInv, Safe, EnvelopesHonest, AttestedProduced,
     LoadedIsThere, ApprovedIsProven, attest, Job
<1> QED
  BY <1>1, <1>2, <1>3, <1>4, <1>5, <1>6, <1>7, <1>8, <1>9, <1>10, <1>11,
     <1>12, <1>14, <1>13 DEF Next

\* A commit approved by a strict gate run, over any directory that edits,
\* restores, renames and re-runs can produce, was proven by CI's own tools on
\* that very commit (_verify_provenance, gate_decision).
THEOREM ApprovalsAreProven == Spec => [](Frozen => ApprovedIsProven)
<1>1. IInv => (Frozen => ApprovedIsProven)
  BY DEF IInv
<1> QED
  BY InitSafe, NextSafe, <1>1, PTL DEF Spec

\* An approval, strict or not, never rests on a directory that hides a file:
\* each required artifact has exactly one file, and each file the gate can see
\* is readable and has nothing to block on (build_report's warnings).
THEOREM ApprovalsSeeEveryFile == Spec => []ApproveSeesEveryFile
<1>1. ASSUME TInv PROVE ApproveSeesEveryFile
  <2> SUFFICES ASSUME NEW s \in GateSettings,
                      Report(Seen, [s EXCEPT !.head = ci.sha]).decision = "approve"
      PROVE  /\ \A n \in Required(Seen, s.strict) \ {"provenance"} :
                  \E i \in Slot : Found(Seen, n) = {i}
             /\ \A n \in Names(s.strict), i \in Slot :
                  i \in Found(Seen, n) =>
                    /\ gate.files[n][i].shape = "valid"
                    /\ n \in BlockNames(s.strict) => gate.files[n][i].count = 0
    BY DEF ApproveSeesEveryFile
  <2> DEFINE t == [s EXCEPT !.head = ci.sha]
  <2>0. t.strict = s.strict /\ Seen.files = gate.files
    BY EvidenceAssumption DEF Settings, Seen
  <2>1. Seen \in View
    BY <1>1, SeenTyped
  <2>2. \A n \in Required(Seen, t.strict) \ {"provenance"} :
            \E i \in Slot : Found(Seen, n) = {i}
    <3> SUFFICES ASSUME NEW n \in Required(Seen, t.strict) \ {"provenance"}
                 PROVE  \E i \in Slot : Found(Seen, n) = {i}
      OBVIOUS
    <3>1. Report(Seen, t).decision = "approve"
      OBVIOUS
    <3> QED
      BY <2>1, <3>1, TheRequiredFile
  <2>3. ASSUME NEW n \in Names(t.strict), NEW i \in Slot, i \in Found(Seen, n)
        PROVE  Seen.files[n][i].shape = "valid" /\ Seen.files[n][i].count \in Nat
               /\ (n \in BlockNames(t.strict) => ~(Seen.files[n][i].count > 0))
    <3>1. Consumed(Seen, n) = Seen.files[n][i] /\ Consumed(Seen, n) \in File
          /\ Seen.files[n][i].shape = "valid"
      BY <2>1, <2>3, TheOnlyFile
    <3>2. n \in Loaded(Seen, t.strict)
      BY <3>1 DEF Loaded, Usable
    <3>3. ASSUME n \in BlockNames(t.strict) PROVE ~Bad(Seen, t.strict, n)
      BY <3>3, ApproveMeans DEF Blocking
    <3>4. Seen.files[n][i].count \in Nat
      BY <3>1 DEF File
    <3>5. ASSUME n \in BlockNames(t.strict)
          PROVE  ~(Seen.files[n][i].count > 0)
      BY <3>1, <3>2, <3>3, <3>5 DEF Bad
    <3> QED
      BY <3>1, <3>4, <3>5
  <2>4. \A c \in Nat : ~(c > 0) => c = 0
    OBVIOUS
  <2> QED
    BY <2>0, <2>2, <2>3, <2>4
<1> QED
  BY InitTyped, NextTyped, <1>1, PTL DEF Spec

-----------------------------------------------------------------------------
(* Implementation of MergePromise.                                         *)

LEMMA PromiseStep ==
    Frozen /\ IInv /\ [Next]_vars => [Promise!Next]_(Promise!vars)
<1> SUFFICES ASSUME Frozen, IInv, [Next]_vars
             PROVE  Promise!Next \/ UNCHANGED <<Proven, approved>>
  BY DEF Promise!vars
<1>1. ASSUME NEW out \in CiOutputs, CiTools(out)
      PROVE  Promise!Prove(ci.sha) \/ UNCHANGED <<Proven, approved>>
  <2>1. ci.sha \in Commit /\ approved' = approved
    BY <1>1 DEF IInv, TInv, CiTools
  <2>2. \A c \in Commit \ {ci.sha} : c \in Proven' <=> c \in Proven
    BY <1>1 DEF CiTools, Proven, CleanlyProduced
  <2>3. Proven \subseteq Proven'
    BY <1>1, ProvenGrows DEF CiTools
  <2>4. Proven \subseteq Commit /\ Proven' \subseteq Commit
    BY DEF Proven
  <2>5. Proven' = Proven \/ Proven' = Proven \union {ci.sha}
    BY <2>1, <2>2, <2>3, <2>4
  <2> QED
    BY <2>1, <2>5 DEF Promise!Prove
<1>2. ASSUME NEW s \in GateSettings, NEW h \in {ci.sha, NoCommit}, GateDecide(s, h)
      PROVE  Promise!Next \/ UNCHANGED <<Proven, approved>>
  <2>1. Proven' = Proven
    BY <1>2 DEF GateDecide, Proven, CleanlyProduced
  <2>2. approved' = approved
        \/ \E c \in Proven : approved' = approved \union {c}
    BY <1>2, ApprovalAddsProven
  <2>3. Proven \subseteq Commit
    BY DEF Proven
  <2> QED
    BY <2>1, <2>2, <2>3 DEF Promise!Next, Promise!Approve
<1>3. ASSUME UNCHANGED <<produced, approved>>
      PROVE  UNCHANGED <<Proven, approved>>
  BY <1>3 DEF Proven, CleanlyProduced
<1>4. ASSUME NEW b, Edit(b) PROVE UNCHANGED <<produced, approved>>
  BY <1>4 DEF Edit
<1> QED
  <2>1. CASE \E out \in CiOutputs : CiTools(out)
    BY <1>1, <2>1 DEF IInv, TInv, CiTools, Promise!Next
  <2>2. CASE \E s \in GateSettings, h \in {ci.sha, NoCommit} : GateDecide(s, h)
    BY <1>2, <2>2
  <2>3. CASE UNCHANGED <<produced, approved>>
    BY <1>3, <2>3
  <2> QED
    BY <1>4, <2>1, <2>2, <2>3
       DEF Next, vars, Push, CiCheckout, CiSign, GateLoad, WriteFile, RestoreSigned,
           DropEnvelope, AlterEnvelope, WriteManifest, WritePolicy, WriteSignoff

\* The evidence gate implements its promise: approvals are only ever added,
\* one at a time, and only for commits already proven (MergePromise).
THEOREM GateKeepsPromise == ASSUME Frozen PROVE Spec => PromiseKept
<1>1. Init => Promise!Init
  BY DEF Init, Promise!Init, Proven, CleanlyProduced, Provable, CoreRequiredV2,
         CoreRequired
<1> QED
  BY InitSafe, NextSafe, PromiseStep, <1>1, PTL
     DEF Spec, PromiseKept, Promise!Spec

-----------------------------------------------------------------------------

\* build_report's fail-closed section: whatever the bundle, the settings and the
\* policy, sign-offs and policies only ever make the answer stricter.
THEOREM SignoffsNeverLoosen == Spec => []SignoffNeverLoosens
<1>1. \A s \in GateSettings :
          /\ Decision(Seen, s) = "block" => FinalDecision(Seen, s) = "block"
          /\ Decision(Seen, s) = "needs_human" => FinalDecision(Seen, s) # "approve"
  BY DEF FinalDecision
<1>2. \A s \in GateSettings :
          Triggered(Seen, s) /\ ~(FailClosedPolicy(Seen, s).roles \subseteq bundle.signoff.roles)
              => FinalDecision(Seen, s) = "block"
  BY DEF FinalDecision, SignoffCovers, Seen
<1>3. SignoffNeverLoosens
  BY <1>1, <1>2 DEF SignoffNeverLoosens
<1> QED
  BY <1>3, PTL
=============================================================================
