----------------------- MODULE PublishDecision_proofs -----------------------
(***************************************************************************)
(* For any bundles, number of jobs and page size: the artifact is valid    *)
(* and says what the gate said; what people wrote stays; and as long as    *)
(* jobs do not overlap, all comments are read and nobody touches it, there *)
(* is one comment.                                                         *)
(***************************************************************************)
EXTENDS PublishDecision, FiniteSetTheorems, WellFoundedInduction, TLAPS

-----------------------------------------------------------------------------
(* The artifact of a bundle.                                               *)

Lists3(report) == {report.present, report.missing, report.blocking}

\* A list of checks that are all right has none that is wrong.
LEMMA RightItems ==
    ASSUME NEW part, NEW fields, part.shape = "list",
           \A i \in DOMAIN part.items : Wrong(part.items[i], fields) = {}
    PROVE  WrongItems(part, fields) = {}
<1>1. WrongItems(part, fields) = UNION {{i} \X Wrong(part.items[i], fields) : i \in DOMAIN part.items}
    BY DEF WrongItems
<1> QED
    BY <1>1

\* mk_check: whatever its name.
LEMMA CheckIsRight ==
    ASSUME NEW name, NEW status \in STATUSES
    PROVE  Wrong(mk_check(name, status), CheckFields) = {}
<1> DEFINE check == mk_check(name, status)
<1>1. (IF name \in DOMAIN Layer THEN Layer[name] ELSE "gate") \in LAYERS
    BY DEF Layer, LAYERS
<1>2. check.layer \in LAYERS
    BY <1>1 DEF mk_check
<1>3. /\ check.shape = "object" /\ check.id = "text" /\ check.status = status
      /\ check.severity = "S2" /\ check.cache_provenance = "cold" /\ check.summary = "text"
      /\ check.logs_path = "absent"
    BY DEF mk_check
<1> HIDE DEF check
<1>4. /\ check["id"] \in NonEmpty /\ check["layer"] \in LAYERS /\ check["status"] \in STATUSES
      /\ check["severity"] \in SEVERITIES /\ check["cache_provenance"] \in CACHE_PROVENANCE
      /\ check["summary"] \in Str /\ check["logs_path"] \in Optional
    BY <1>2, <1>3 DEF NonEmpty, SEVERITIES, CACHE_PROVENANCE, Str, Optional, OrNull
<1>5. \A f \in DOMAIN CheckFields : check[f] \in CheckFields[f]
    BY <1>4 DEF CheckFields
<1> QED
    BY <1>3, <1>5 DEF Wrong, check

\* read_signoffs: entries of any shape become sign-offs that are all right.
LEMMA SignoffsAreRight ==
    ASSUME NEW file
    PROVE  /\ read_signoffs(file).shape = "list"
           /\ WrongItems(read_signoffs(file), SignoffFields) = {}
<1> DEFINE signoffs == read_signoffs(file)
           Text(v) == IF v = "absent" THEN "" ELSE IF v \in Str THEN v ELSE "text"
           Normal(e) == [shape |-> "object", role |-> Text(e.role), at |-> Text(e.at),
                         name |-> IF e.name \in Str THEN e.name ELSE "absent"]
<1>1. signoffs.shape = "list"
    BY DEF read_signoffs
<1>2. PICK objects : signoffs.items = [i \in DOMAIN objects |-> Normal(objects[i])]
    BY DEF read_signoffs
<1>3. ASSUME NEW i \in DOMAIN signoffs.items
      PROVE  Wrong(signoffs.items[i], SignoffFields) = {}
    <2> DEFINE entry == signoffs.items[i]
    <2>1. \A v : Text(v) \in Str
        BY DEF Str
    <2>2. entry = Normal(objects[i])
        BY <1>2, <1>3
    <2> HIDE DEF Text, signoffs
    <2>3. entry.shape = "object" /\ entry.role \in Str /\ entry.at \in Str
        BY <2>1, <2>2
    <2>4. entry.name \in Optional
        BY <2>2 DEF Optional, OrNull
    <2> HIDE DEF entry
    <2>5. entry["role"] \in Str /\ entry["at"] \in Str /\ entry["name"] \in Optional
        BY <2>3, <2>4
    <2>6. \A f \in DOMAIN SignoffFields : entry[f] \in SignoffFields[f]
        BY <2>5 DEF SignoffFields
    <2> QED
        BY <2>3, <2>6 DEF Wrong, entry
<1> QED
    BY <1>1, <1>3, RightItems

\* The parts that are objects.
LEMMA ObjectsAreRight ==
    ASSUME NEW report, NEW bundle
    PROVE  LET a == build_artifact(report, bundle)
           IN  /\ a.git.shape = "object" /\ Wrong(a.git, GitFields) = {}
               /\ a.decision.shape = "object" /\ Wrong(a.decision, DecisionFields) = {}
               /\ a.decision.decision = decision_val(report.decision)
               /\ a.redaction.shape = "object" /\ Wrong(a.redaction, RedactionFields) = {}
               /\ a.instance.shape = "absent" /\ a.addons.shape = "absent"
               /\ a.schema_version = "1.0" /\ a.generated_at = "text"
               /\ a.human_signoffs = read_signoffs(bundle.signoffs)
<1> DEFINE a == build_artifact(report, bundle)
<1>1. a.git.shape = "object" /\ Wrong(a.git, GitFields) = {}
    <2>1. /\ a.git["commit_sha"] \in OrNull /\ a.git["diff_hash"] \in Optional
          /\ a.git["branch"] \in Optional /\ a.git.shape = "object"
        BY DEF build_artifact, Optional, OrNull, Str
    <2> HIDE DEF a
    <2>2. \A f \in DOMAIN GitFields : a.git[f] \in GitFields[f]
        BY <2>1 DEF GitFields
    <2> QED
        BY <2>1, <2>2 DEF Wrong
<1>2. /\ a.decision.shape = "object" /\ Wrong(a.decision, DecisionFields) = {}
      /\ a.decision.decision = decision_val(report.decision)
    <2>1. /\ a.decision["decision"] = decision_val(report.decision)
          /\ a.decision["blocking_findings"] = "strings"
          /\ a.decision["required_approvals"] = "strings" /\ a.decision.shape = "object"
        BY DEF build_artifact
    <2>2. decision_val(report.decision) \in DECISIONS
        BY DEF decision_val, DECISIONS
    <2> HIDE DEF a
    <2>3. \A f \in DOMAIN DecisionFields : a.decision[f] \in DecisionFields[f]
        BY <2>1, <2>2 DEF DecisionFields
    <2> QED
        BY <2>1, <2>3 DEF Wrong
<1>3. a.redaction.shape = "object" /\ Wrong(a.redaction, RedactionFields) = {}
    <2>1. /\ a.redaction["mode"] \in REDACTION_MODES
          /\ a.redaction["scanned"] \in {"true", "false"} /\ a.redaction.shape = "object"
        BY DEF build_artifact, read_redaction, REDACTION_MODES
    <2> HIDE DEF a
    <2>2. \A f \in DOMAIN RedactionFields : a.redaction[f] \in RedactionFields[f]
        BY <2>1 DEF RedactionFields
    <2> QED
        BY <2>1, <2>2 DEF Wrong
<1>4. /\ a.instance.shape = "absent" /\ a.addons.shape = "absent"
      /\ a.schema_version = "1.0" /\ a.generated_at = "text"
      /\ a.human_signoffs = read_signoffs(bundle.signoffs)
    BY DEF build_artifact
<1> QED
    BY <1>1, <1>2, <1>3, <1>4

\* The checks are those of the present, missing and blocking names, in a row.
LEMMA ChecksAreRows ==
    ASSUME NEW report, NEW bundle, Lists3(report) \subseteq Seq(STRING)
    PROVE  LET checks == build_artifact(report, bundle).checks
               p == Len(report.present)
               m == Len(report.missing)
           IN  /\ checks.shape = "list"
               /\ DOMAIN checks.items = 1..(p + m + Len(report.blocking))
               /\ \A i \in DOMAIN checks.items :
                     checks.items[i] =
                        IF i <= p THEN mk_check(report.present[i], "pass")
                        ELSE IF i <= p + m THEN mk_check(report.missing[i - p], "skip")
                        ELSE mk_check(report.blocking[i - p - m], "fail")
<1> DEFINE Rows(names, status) == [i \in DOMAIN names |-> mk_check(names[i], status)]
           Rec == {mk_check(n, s) : n \in STRING, s \in STATUSES}
           checks == build_artifact(report, bundle).checks
<1>1. report.present \in Seq(STRING) /\ report.missing \in Seq(STRING) /\ report.blocking \in Seq(STRING)
    BY DEF Lists3
<1>2. ASSUME NEW names \in Seq(STRING), NEW status \in STATUSES
      PROVE  Rows(names, status) \in Seq(Rec) /\ Len(Rows(names, status)) = Len(names)
    BY <1>2
<1>3. "pass" \in STATUSES /\ "skip" \in STATUSES /\ "fail" \in STATUSES
    BY DEF STATUSES
<1>4. /\ checks.shape = "list"
      /\ checks.items = Rows(report.present, "pass") \o Rows(report.missing, "skip")
                        \o Rows(report.blocking, "fail")
    BY DEF build_artifact
<1>5. \A names, status : \A i \in DOMAIN names : Rows(names, status)[i] = mk_check(names[i], status)
    OBVIOUS
<1>6. \A names \in Seq(STRING) : DOMAIN names = 1..Len(names) /\ Len(names) \in Nat
    OBVIOUS
<1> DEFINE P == Rows(report.present, "pass")
           M == Rows(report.missing, "skip")
           B == Rows(report.blocking, "fail")
<1> HIDE DEF Rec
<1>7. P \in Seq(Rec) /\ M \in Seq(Rec) /\ B \in Seq(Rec)
    BY <1>1, <1>2, <1>3
<1>8. Len(P) = Len(report.present) /\ Len(M) = Len(report.missing) /\ Len(B) = Len(report.blocking)
    BY <1>1, <1>2, <1>3
<1>9. /\ \A i \in 1..Len(P) : P[i] = mk_check(report.present[i], "pass")
      /\ \A i \in 1..Len(M) : M[i] = mk_check(report.missing[i], "skip")
      /\ \A i \in 1..Len(B) : B[i] = mk_check(report.blocking[i], "fail")
    BY <1>1, <1>5, <1>6, <1>8
<1>10. checks.items = (P \o M) \o B
    BY <1>4
<1> HIDE DEF Rows, P, M, B, Rec, checks
<1>11. /\ Len((P \o M) \o B) = Len(P) + Len(M) + Len(B)
       /\ DOMAIN ((P \o M) \o B) = 1..(Len(P) + Len(M) + Len(B))
       /\ \A i \in 1..(Len(P) + Len(M) + Len(B)) :
             ((P \o M) \o B)[i] = IF i <= Len(P) THEN P[i]
                                  ELSE IF i <= Len(P) + Len(M) THEN M[i - Len(P)]
                                  ELSE B[i - Len(P) - Len(M)]
    BY <1>7
<1>12. /\ Len(P) \in Nat /\ Len(M) \in Nat /\ Len(B) \in Nat
    BY <1>7
<1>13. ASSUME NEW i \in DOMAIN checks.items
       PROVE  checks.items[i] =
                IF i <= Len(P) THEN mk_check(report.present[i], "pass")
                ELSE IF i <= Len(P) + Len(M) THEN mk_check(report.missing[i - Len(P)], "skip")
                ELSE mk_check(report.blocking[i - Len(P) - Len(M)], "fail")
    <2>1. i \in 1..(Len(P) + Len(M) + Len(B)) /\ checks.items[i] = ((P \o M) \o B)[i]
        BY <1>10, <1>11, <1>13
    <2>2. CASE i <= Len(P)
        BY <1>9, <1>11, <1>12, <2>1, <2>2
    <2>3. CASE i > Len(P) /\ i <= Len(P) + Len(M)
        <3>1. i - Len(P) \in 1..Len(M)
            BY <1>12, <2>1, <2>3
        <3> QED
            BY <1>9, <1>11, <1>12, <2>1, <2>3, <3>1
    <2>4. CASE i > Len(P) + Len(M)
        <3>1. i - Len(P) - Len(M) \in 1..Len(B)
            BY <1>12, <2>1, <2>4
        <3> QED
            BY <1>9, <1>11, <1>12, <2>1, <2>4, <3>1
    <2> QED
        BY <1>12, <2>1, <2>2, <2>3, <2>4
<1> QED
    BY <1>4, <1>8, <1>10, <1>11, <1>13 DEF checks

LEMMA EachCheckIsRight ==
    ASSUME NEW report, NEW bundle, Lists3(report) \subseteq Seq(STRING)
    PROVE  LET checks == build_artifact(report, bundle).checks
           IN  /\ WrongItems(checks, CheckFields) = {}
               /\ \A i \in DOMAIN checks.items : checks.items[i].cache_provenance = "cold"
<1> DEFINE checks == build_artifact(report, bundle).checks
<1>1. ASSUME NEW i \in DOMAIN checks.items
      PROVE  \E name : \E status \in STATUSES : checks.items[i] = mk_check(name, status)
    <2> DEFINE p == Len(report.present)
               m == Len(report.missing)
    <2> HIDE DEF checks, p, m
    <2>1. checks.items[i] = IF i <= p THEN mk_check(report.present[i], "pass")
                            ELSE IF i <= p + m THEN mk_check(report.missing[i - p], "skip")
                            ELSE mk_check(report.blocking[i - p - m], "fail")
        BY <1>1, ChecksAreRows DEF checks, p, m
    <2>2. {"pass", "skip", "fail"} \subseteq STATUSES
        BY DEF STATUSES
    <2>3. \/ checks.items[i] = mk_check(report.present[i], "pass")
          \/ checks.items[i] = mk_check(report.missing[i - p], "skip")
          \/ checks.items[i] = mk_check(report.blocking[i - p - m], "fail")
        BY <2>1, Zenon
    <2> QED
        BY <2>2, <2>3
<1>2. checks.shape = "list"
    BY ChecksAreRows
<1> HIDE DEF checks
<1>3. ASSUME NEW i \in DOMAIN checks.items
      PROVE  Wrong(checks.items[i], CheckFields) = {}
    <2>1. PICK name, status : status \in STATUSES /\ checks.items[i] = mk_check(name, status)
        BY <1>1, <1>3
    <2>2. Wrong(mk_check(name, status), CheckFields) = {}
        BY <2>1, CheckIsRight
    <2> QED
        BY <2>1, <2>2
<1>4. \A i \in DOMAIN checks.items : checks.items[i].cache_provenance = "cold"
    <2>1. \A n, s : mk_check(n, s).cache_provenance = "cold"
        BY DEF mk_check
    <2> QED
        BY <1>1, <2>1
<1>5. WrongItems(checks, CheckFields) = {}
    BY <1>2, <1>3, RightItems
<1> QED
    BY <1>4, <1>5 DEF checks

\* evidence_bundle.py reports what is in the artifact as failed.
LEMMA FailedAreFindings ==
    ASSUME NEW report, NEW bundle, Lists3(report) \subseteq Seq(STRING)
    PROVE  LET checks == build_artifact(report, bundle).checks
           IN  {c.about : c \in {d \in ToSet(checks.items) : d.status = "fail"}} = ToSet(report.blocking)
<1> DEFINE checks == build_artifact(report, bundle).checks
           p == Len(report.present)
           m == Len(report.missing)
           b == Len(report.blocking)
           Failed == {d \in ToSet(checks.items) : d.status = "fail"}
<1>1. p \in Nat /\ m \in Nat /\ b \in Nat /\ DOMAIN report.blocking = 1..b
    BY DEF Lists3
<1>2. \A n, s : mk_check(n, s).status = s /\ mk_check(n, s).about = n
    BY DEF mk_check
<1>3. /\ DOMAIN checks.items = 1..(p + m + b)
      /\ \A i \in DOMAIN checks.items :
            checks.items[i] =
               IF i <= p THEN mk_check(report.present[i], "pass")
               ELSE IF i <= p + m THEN mk_check(report.missing[i - p], "skip")
               ELSE mk_check(report.blocking[i - p - m], "fail")
    BY ChecksAreRows
<1> HIDE DEF checks, p, m, b
<1>4. ASSUME NEW c \in Failed PROVE c.about \in ToSet(report.blocking)
    <2>1. PICK i \in DOMAIN checks.items : c = checks.items[i] /\ c.status = "fail"
        BY <1>4 DEF ToSet
    <2>2. ~(i <= p) /\ ~(i <= p + m)
        BY <1>2, <1>3, <2>1
    <2>3. i - p - m \in DOMAIN report.blocking /\ c.about = report.blocking[i - p - m]
        BY <1>1, <1>2, <1>3, <2>1, <2>2
    <2> QED
        BY <2>3 DEF ToSet
<1>5. ASSUME NEW k \in DOMAIN report.blocking
      PROVE  \E c \in Failed : c.about = report.blocking[k]
    <2>1. p + m + k \in DOMAIN checks.items
        BY <1>1, <1>3, <1>5
    <2>2. checks.items[p + m + k] = mk_check(report.blocking[k], "fail")
        <3>1. ~(p + m + k <= p) /\ ~(p + m + k <= p + m) /\ (p + m + k) - p - m = k
            BY <1>1, <1>5
        <3> QED
            BY <1>3, <2>1, <3>1
    <2> QED
        BY <1>2, <2>1, <2>2 DEF ToSet
<1>6. {c.about : c \in Failed} = ToSet(report.blocking)
    BY <1>4, <1>5 DEF ToSet
<1> QED
    BY <1>6 DEF checks

\* build_artifact: whatever the files of the bundle hold, validate_artifact
\* finds nothing wrong.
LEMMA BuiltIsRight ==
    ASSUME NEW report, NEW bundle, Lists3(report) \subseteq Seq(STRING)
    PROVE  validate_artifact(build_artifact(report, bundle)) = {}
<1> DEFINE a == build_artifact(report, bundle)
<1>1. /\ a.git.shape = "object" /\ Wrong(a.git, GitFields) = {}
      /\ a.decision.shape = "object" /\ Wrong(a.decision, DecisionFields) = {}
      /\ a.redaction.shape = "object" /\ Wrong(a.redaction, RedactionFields) = {}
      /\ a.instance.shape = "absent" /\ a.addons.shape = "absent"
      /\ a.schema_version = "1.0" /\ a.generated_at = "text"
    BY ObjectsAreRight
<1>2. /\ a.human_signoffs.shape = "list" /\ WrongItems(a.human_signoffs, SignoffFields) = {}
    BY ObjectsAreRight, SignoffsAreRight
<1>3. /\ a.checks.shape = "list" /\ WrongItems(a.checks, CheckFields) = {}
      /\ \A i \in DOMAIN a.checks.items : a.checks.items[i].cache_provenance = "cold"
    BY EachCheckIsRight, ChecksAreRows
<1> HIDE DEF a
<1>4. \A k \in RequiredTop : a[k].shape # "absent"
    <2>1. /\ a["git"].shape = "object" /\ a["checks"].shape = "list" /\ a["decision"].shape = "object"
          /\ a["human_signoffs"].shape = "list" /\ a["redaction"].shape = "object"
        BY <1>1, <1>2, <1>3
    <2> QED
        BY <2>1 DEF RequiredTop
<1>5. \A k \in DOMAIN Objects : a[k].shape \notin Skipped(k) => Wrong(a[k], Objects[k]) = {}
    <2>1. DOMAIN Objects = {"git", "decision", "redaction", "instance", "addons"}
        BY DEF Objects
    <2>2. /\ Objects["git"] = GitFields /\ Objects["decision"] = DecisionFields
          /\ Objects["redaction"] = RedactionFields
        BY DEF Objects
    <2>3. "absent" \in Skipped("instance") /\ "absent" \in Skipped("addons")
        BY DEF Skipped
    <2>4. a["instance"].shape = "absent" /\ a["addons"].shape = "absent"
        BY <1>1
    <2>5. /\ Wrong(a["git"], GitFields) = {} /\ Wrong(a["decision"], DecisionFields) = {}
          /\ Wrong(a["redaction"], RedactionFields) = {}
        BY <1>1
    <2> QED
        BY <2>1, <2>2, <2>3, <2>4, <2>5
<1>6. \A k \in DOMAIN Lists : WrongItems(a[k], Lists[k]) = {}
    <2>1. DOMAIN Lists = {"checks", "human_signoffs"}
        BY DEF Lists
    <2>2. Lists["checks"] = CheckFields /\ Lists["human_signoffs"] = SignoffFields
        BY DEF Lists
    <2>3. WrongItems(a["checks"], CheckFields) = {} /\ WrongItems(a["human_signoffs"], SignoffFields) = {}
        BY <1>2, <1>3
    <2> QED
        BY <2>1, <2>2, <2>3
<1>7. ~WarmGating(a)
    BY <1>3 DEF WarmGating
<1>8. {<<k, 0, "missing">> : k \in {r \in RequiredTop : a[r].shape = "absent"}} = {}
    BY <1>4
<1>9. UNION {{<<k, 0, f>> : f \in Wrong(a[k], Objects[k])} :
                k \in {o \in DOMAIN Objects : a[o].shape \notin Skipped(o)}} = {}
    BY <1>5
<1>10. UNION {{<<k, w[1], w[2]>> : w \in WrongItems(a[k], Lists[k])} : k \in DOMAIN Lists} = {}
    BY <1>6
<1>11. validate_artifact(a) = {}
    BY <1>1, <1>7, <1>8, <1>9, <1>10 DEF validate_artifact, NonEmpty
<1> QED
    BY <1>11 DEF a

-----------------------------------------------------------------------------
(* The invariant.                                                          *)

Reports == {NoReport} \union {b.strict : b \in Bundles} \union {b.loose : b \in Bundles}
JobRec == [step : Steps, bundle : Bundles, report : Reports,
           artifact : {"none", "built", "failed soft"}, existing : Nat,
           said : {"nothing", "error", "created", "updated"}]
CommentRec == [id : Nat, by : {"tool", "person"}, marker : BOOLEAN, shows : Nat]
RequestRec == [job : Nat, id : Nat]
WorkflowRec == [strict : BOOLEAN, comment : BOOLEAN, merges : BOOLEAN]

JobShape == job \in Seq(JobRec) /\ Len(job) <= MaxJobs
CommentShape == comments \in Seq(CommentRec) /\ nextId \in Nat \ {0} /\ sent \in SUBSET RequestRec
Shape == workflow \in WorkflowRec /\ JobShape /\ CommentShape

\* A job says nothing before it is done with GitHub, and its artifact is of the
\* report that its gate made.
InOrder(rec) ==
    /\ rec.existing < nextId
    /\ rec.step \in {"gate", "artifact", "parse", "list", "post"} => rec.said = "nothing"
    /\ rec.said = "updated" => rec.existing # NoComment
    /\ rec.step = "artifact" \/ rec.artifact # "none" =>
          rec.report = IF workflow.strict THEN rec.bundle.strict ELSE rec.bundle.loose
JobsInOrder == \A j \in Jobs : InOrder(job[j])

\* Comments are numbered as they come.
CommentsInOrder ==
    /\ \A i, k \in DOMAIN comments : i < k => comments[i].id < comments[k].id
    /\ \A i \in DOMAIN comments : /\ comments[i].id # NoComment /\ comments[i].id < nextId
                                  /\ comments[i].shows <= Len(job)
SentInOrder == \A r \in sent : r.job \in Jobs /\ r.id < nextId

Ordered == JobsInOrder /\ CommentsInOrder /\ SentInOrder

Waiting == {j \in Jobs : job[j].step = "post"}
\* The comments that are about to be changed.
Pending == {job[j].existing : j \in Waiting} \union {r.id : r \in sent}
Quiet == ~overlapped /\ ~touched /\ ~unheard /\ (paged => workflow.merges)

PagesCounted == Len(comments) > PerPage => paged

\* While nobody touches them, the marked comments, and those about to be
\* changed, are the tool's.
OnlyTools ==
    ~touched =>
        /\ \A i \in DOMAIN comments :
              comments[i].by = "person" => ~comments[i].marker /\ comments[i].shows = 0
        /\ \A id \in Pending : \A i \in DOMAIN comments :
              comments[i].id = id => comments[i].by = "tool"

\* Jobs do not overlap: at most one change is about to be made.
OneAtATime ==
    Quiet => /\ \A j, k \in Waiting : j = k
             /\ \A j \in Waiting : sent = {}
             /\ \A r, q \in sent : r = q

\* What was found is still so.
Right(id) == IF id = NoComment THEN Marked = {} ELSE \E i \in Marked : comments[i].id = id
OneMarked ==
    Quiet => /\ \A i, k \in Marked : i = k
             /\ \A id \in Pending : Right(id)
             /\ \A j \in Jobs : job[j].said \in {"created", "updated"} => Marked # {}

Kept == OnlyTools /\ OneAtATime /\ OneMarked
IInv == Shape /\ Ordered /\ PagesCounted /\ Kept

-----------------------------------------------------------------------------
(* Steps of the lists.                                                     *)

\* One job is changed.
LEMMA JobMoves ==
    ASSUME JobShape, NEW j \in Jobs, NEW rec \in JobRec, job' = [job EXCEPT ![j] = rec]
    PROVE  /\ JobShape' /\ Len(job') = Len(job) /\ Jobs' = Jobs
           /\ \A k \in Jobs : job'[k] = IF k = j THEN rec ELSE job[k]
<1>1. job' \in Seq(JobRec) /\ Len(job') = Len(job)
    BY DEF JobShape, Jobs
<1>2. DOMAIN job' = DOMAIN job
    OBVIOUS
<1> QED
    BY <1>1, <1>2 DEF JobShape, Jobs

\* What a request that is served does to the comments.
LEMMA ServeChanges ==
    ASSUME CommentShape, CommentsInOrder, NEW r \in RequestRec, Serve(r)
    PROVE  /\ comments' \in Seq(CommentRec) /\ nextId' \in Nat \ {0} /\ nextId <= nextId'
           /\ DOMAIN comments \subseteq DOMAIN comments'
           /\ \A i \in DOMAIN comments : comments'[i] =
                 IF comments[i].id = r.id THEN Comment(r.id, comments[i].by, TRUE, r.job)
                 ELSE comments[i]
           /\ r.id # NoComment => DOMAIN comments' = DOMAIN comments /\ nextId' = nextId
                                  /\ Len(comments') = Len(comments)
           /\ r.id = NoComment =>
                 /\ Len(comments') = Len(comments) + 1 /\ nextId' = nextId + 1
                 /\ DOMAIN comments' = (DOMAIN comments) \union {Len(comments) + 1}
                 /\ Len(comments) + 1 \notin DOMAIN comments
                 /\ comments'[Len(comments) + 1] = Comment(nextId, "tool", TRUE, r.job)
           /\ paged => paged' /\ (r.id # NoComment => paged' = paged)
           /\ Len(comments') > PerPage /\ r.id = NoComment => paged'
<1>1. \A i \in DOMAIN comments : comments[i] \in CommentRec /\ comments[i].id # NoComment
    BY DEF CommentShape, CommentsInOrder
<1>2. \A by \in {"tool", "person"}, id, n \in Nat : Comment(id, by, TRUE, n) \in CommentRec
    BY DEF Comment, CommentRec
<1>3. r.id \in Nat /\ r.job \in Nat /\ nextId \in Nat /\ nextId # 0
    BY DEF RequestRec, CommentShape
<1>4. CASE r.id = NoComment
    <2> DEFINE new == Comment(nextId, "tool", TRUE, r.job)
    <2>1. comments' = Append(comments, new) /\ nextId' = nextId + 1
        BY <1>4 DEF Serve
    <2>2. new \in CommentRec
        BY <1>2, <1>3
    <2>3. paged' = (paged \/ Len(comments) >= PerPage)
        BY <1>4 DEF Serve
    <2>4. comments \in Seq(CommentRec) /\ PerPage \in Nat
        BY PublishAssumption DEF CommentShape
    <2> HIDE DEF new
    <2>5. /\ comments' \in Seq(CommentRec) /\ Len(comments') = Len(comments) + 1
          /\ \A i \in DOMAIN comments : comments'[i] = comments[i]
          /\ comments'[Len(comments) + 1] = new
          /\ DOMAIN comments = 1..Len(comments) /\ Len(comments) \in Nat
          /\ DOMAIN comments' = 1..(Len(comments) + 1)
        BY <2>1, <2>2, <2>4
    <2>6. \A i \in DOMAIN comments : comments[i].id # r.id
        BY <1>1, <1>4
    <2>7. DOMAIN comments' = (DOMAIN comments) \union {Len(comments) + 1} /\ Len(comments) + 1 \notin DOMAIN comments
        BY <2>5
    <2>8. Len(comments') > PerPage => Len(comments) >= PerPage
        BY <2>4, <2>5
    <2>9. /\ paged => paged'
          /\ Len(comments') > PerPage => paged'
        BY <2>3, <2>8
    <2>10. nextId' \in Nat \ {0} /\ nextId <= nextId'
        BY <1>3, <2>1
    <2>11. comments'[Len(comments) + 1] = Comment(nextId, "tool", TRUE, r.job)
        BY <2>5 DEF new
    <2> QED
        BY <1>4, <2>1, <2>5, <2>6, <2>7, <2>9, <2>10, <2>11
<1>5. CASE r.id # NoComment
    <2> DEFINE Changed(i) == IF comments[i].id = r.id THEN Comment(r.id, comments[i].by, TRUE, r.job)
                             ELSE comments[i]
    <2>1. comments' = [i \in DOMAIN comments |-> Changed(i)] /\ nextId' = nextId /\ paged' = paged
        BY <1>5 DEF Serve
    <2>2. \A i \in DOMAIN comments : comments[i].by \in {"tool", "person"}
        BY <1>1 DEF CommentRec
    <2>3. \A i \in DOMAIN comments : Changed(i) \in CommentRec
        BY <1>1, <1>2, <1>3, <2>2
    <2>4. comments \in Seq(CommentRec)
        BY DEF CommentShape
    <2>5. \A i \in DOMAIN comments : Changed(i) =
              IF comments[i].id = r.id THEN Comment(r.id, comments[i].by, TRUE, r.job) ELSE comments[i]
        OBVIOUS
    <2> HIDE DEF Changed
    <2>6. comments' \in Seq(CommentRec) /\ Len(comments') = Len(comments) /\ DOMAIN comments' = DOMAIN comments
        BY <2>1, <2>3, <2>4
    <2>7. \A i \in DOMAIN comments : comments'[i] =
              IF comments[i].id = r.id THEN Comment(r.id, comments[i].by, TRUE, r.job) ELSE comments[i]
        BY <2>1, <2>5
    <2>8. nextId' \in Nat \ {0} /\ nextId <= nextId'
        BY <1>3, <2>1
    <2>9. (paged => paged') /\ paged' = paged
        BY <2>1
    <2> HIDE DEF Changed
    <2> QED
        BY <1>5, <2>1, <2>6, <2>7, <2>8, <2>9, Zenon
<1> QED
    BY <1>4, <1>5

\* By field.
LEMMA ServeFields ==
    ASSUME CommentShape, CommentsInOrder, NEW r \in RequestRec, Serve(r), NEW i \in DOMAIN comments
    PROVE  /\ comments'[i].id = comments[i].id /\ comments'[i].by = comments[i].by
           /\ comments[i].id # r.id => comments'[i] = comments[i]
           /\ comments[i].id = r.id => comments'[i].marker = TRUE /\ comments'[i].shows = r.job
<1> DEFINE new == Comment(r.id, comments[i].by, TRUE, r.job)
<1>1. comments'[i] = IF comments[i].id = r.id THEN new ELSE comments[i]
    BY ServeChanges
<1>2. new.id = r.id /\ new.by = comments[i].by /\ new.marker = TRUE /\ new.shows = r.job
    BY DEF Comment
<1> HIDE DEF new
<1> QED
    BY <1>1, <1>2

LEMMA ServedIsNew ==
    ASSUME CommentShape, CommentsInOrder, NEW r \in RequestRec, Serve(r), r.id = NoComment
    PROVE  LET last == Len(comments) + 1
           IN  /\ DOMAIN comments' = (DOMAIN comments) \union {last} /\ last \notin DOMAIN comments
               /\ nextId' = nextId + 1
               /\ comments'[last].id = nextId /\ comments'[last].shows = r.job
               /\ comments'[last].by = "tool" /\ comments'[last].marker = TRUE
               /\ \A i \in DOMAIN comments : comments'[i] = comments[i]
<1> DEFINE new == Comment(nextId, "tool", TRUE, r.job)
<1>1. /\ DOMAIN comments' = (DOMAIN comments) \union {Len(comments) + 1} /\ nextId' = nextId + 1
      /\ Len(comments) + 1 \notin DOMAIN comments /\ comments'[Len(comments) + 1] = new
    BY ServeChanges
<1>2. new.id = nextId /\ new.by = "tool" /\ new.marker = TRUE /\ new.shows = r.job
    BY DEF Comment
<1>3. \A i \in DOMAIN comments : comments[i].id # r.id
    BY DEF CommentsInOrder
<1>4. \A i \in DOMAIN comments : comments'[i] = comments[i]
    BY <1>3, ServeFields
<1> HIDE DEF new
<1> QED
    BY <1>1, <1>2, <1>4

\* Numbers stay, and a new comment has the next one.
LEMMA ServeKeepsOrder ==
    ASSUME CommentShape, CommentsInOrder, PagesCounted, NEW r \in RequestRec, Serve(r),
           r.job <= Len(job), Len(job') = Len(job)
    PROVE  CommentsInOrder' /\ PagesCounted'
<1>1. \A i \in DOMAIN comments : comments'[i].id = comments[i].id /\ comments'[i].shows \in {comments[i].shows, r.job}
    BY ServeFields
<1>2. DOMAIN comments = 1..Len(comments) /\ Len(comments) \in Nat /\ nextId \in Nat /\ nextId # 0
    BY DEF CommentShape
<1>3. \A i \in DOMAIN comments : comments[i].id \in Nat /\ comments[i].shows \in Nat
    <2>1. \A i \in DOMAIN comments : comments[i] \in CommentRec
        BY DEF CommentShape
    <2> QED
        BY <2>1 DEF CommentRec
<1>4. CASE r.id = NoComment
    <2> DEFINE last == Len(comments) + 1
    <2>1. DOMAIN comments' = (DOMAIN comments) \union {last} /\ nextId' = nextId + 1
        BY <1>4, ServedIsNew
    <2>2. comments'[last].id = nextId /\ comments'[last].shows = r.job
        BY <1>4, ServedIsNew
    <2>10. Len(comments') > PerPage => paged'
        BY <1>4, ServeChanges
    <2>3. \A i \in DOMAIN comments : i < last
        BY <1>2
    <2> HIDE DEF last
    <2>4. ASSUME NEW i \in DOMAIN comments', NEW k \in DOMAIN comments', i < k
          PROVE  comments'[i].id < comments'[k].id
        <3>1. i \in DOMAIN comments
            BY <1>2, <2>1, <2>3, <2>4 DEF last
        <3>2. CASE k \in DOMAIN comments
            BY <1>1, <2>4, <3>1, <3>2 DEF CommentsInOrder
        <3>3. CASE k = last
            BY <1>1, <2>2, <3>1, <3>3 DEF CommentsInOrder
        <3> QED
            BY <2>1, <3>2, <3>3
    <2>5. ASSUME NEW i \in DOMAIN comments'
          PROVE  comments'[i].id # NoComment /\ comments'[i].id < nextId' /\ comments'[i].shows <= Len(job')
        <3>1. CASE i \in DOMAIN comments
            BY <1>1, <1>2, <1>3, <2>1, <3>1 DEF CommentsInOrder
        <3>2. CASE i = last
            BY <1>2, <2>1, <2>2, <3>2 DEF NoComment
        <3> QED
            BY <2>1, <3>1, <3>2
    <2> QED
        BY <2>4, <2>5, <2>10 DEF CommentsInOrder, PagesCounted
<1>5. CASE r.id # NoComment
    <2>1. DOMAIN comments' = DOMAIN comments /\ nextId' = nextId /\ Len(comments') = Len(comments) /\ paged' = paged
        BY <1>5, ServeChanges DEF Serve
    <2>2. CommentsInOrder'
        BY <1>1, <2>1 DEF CommentsInOrder
    <2> QED
        BY <2>1, <2>2 DEF PagesCounted
<1> QED
    BY <1>4, <1>5

\* The comment that is added or changed is marked; the others keep their mark.
LEMMA ServeMarks ==
    ASSUME CommentShape, CommentsInOrder, NEW r \in RequestRec, Serve(r), Served(r)
    PROVE  /\ r.id = NoComment => Marked' = Marked \union {Len(comments) + 1}
           /\ r.id # NoComment => Marked' = Marked \union {i \in DOMAIN comments : comments[i].id = r.id}
           /\ Marked' # {}
<1>1. \A i \in DOMAIN comments : comments[i].id # NoComment
    BY DEF CommentsInOrder
<1>2. CASE r.id = NoComment
    <2>1. /\ DOMAIN comments' = (DOMAIN comments) \union {Len(comments) + 1}
          /\ comments'[Len(comments) + 1].marker = TRUE
          /\ \A i \in DOMAIN comments : comments'[i] = comments[i]
        BY <1>2, ServedIsNew
    <2> QED
        BY <1>2, <2>1 DEF Marked
<1>3. CASE r.id # NoComment
    <2>1. DOMAIN comments' = DOMAIN comments
        BY <1>3, ServeChanges
    <2>2. \A i \in DOMAIN comments : /\ comments[i].id = r.id => comments'[i].marker = TRUE
                                    /\ comments[i].id # r.id => comments'[i] = comments[i]
        BY ServeFields
    <2>3. \E i \in DOMAIN comments : comments[i].id = r.id
        BY <1>3 DEF Served
    <2>4. Marked' = Marked \union {i \in DOMAIN comments : comments[i].id = r.id}
        <3>1. Marked' = {i \in DOMAIN comments : comments'[i].marker}
            BY <2>1 DEF Marked
        <3>2. ASSUME NEW i \in DOMAIN comments
              PROVE  comments'[i].marker <=> comments[i].marker \/ comments[i].id = r.id
            <4>1. CASE comments[i].id = r.id
                <5>1. comments'[i].marker = TRUE
                    BY <4>1, ServeFields
                <5>2. comments'[i].marker
                    BY <5>1
                <5> QED
                    BY <4>1, <5>2, Zenon
            <4>2. CASE comments[i].id # r.id
                BY <2>2, <4>2, Zenon
            <4> QED
                BY <4>1, <4>2
        <3> QED
            BY <3>1, <3>2 DEF Marked
    <2> QED
        BY <1>3, <2>3, <2>4
<1> QED
    BY <1>2, <1>3

-----------------------------------------------------------------------------
(* Steps of the invariant's parts.                                         *)

LEMMA MovesKeepOrder ==
    ASSUME Shape, Ordered, NEW j \in Jobs, NEW rec \in JobRec, job' = [job EXCEPT ![j] = rec],
           InOrder(rec), UNCHANGED workflow, nextId' \in Nat, nextId <= nextId'
    PROVE  /\ JobShape' /\ JobsInOrder' /\ Len(job') = Len(job) /\ Jobs' = Jobs
           /\ \A k \in Jobs : job'[k] = IF k = j THEN rec ELSE job[k]
<1>1. /\ JobShape' /\ Len(job') = Len(job) /\ Jobs' = Jobs
      /\ \A k \in Jobs : job'[k] = IF k = j THEN rec ELSE job[k]
    BY JobMoves DEF Shape
<1>2. ASSUME NEW k \in Jobs PROVE (InOrder(job[k]))'
    <2>1. \E r \in JobRec : r = job'[k] /\ InOrder(r)
        BY <1>1, <1>2 DEF Shape, JobShape, Ordered, JobsInOrder, Jobs
    <2>2. PICK r \in JobRec : r = job'[k] /\ InOrder(r)
        BY <2>1
    <2>3. r.existing \in Nat /\ nextId \in Nat
        BY DEF JobRec, Shape, CommentShape
    <2>4. r.existing < nextId'
        BY <2>2, <2>3 DEF InOrder
    <2> QED
        BY <2>2, <2>4 DEF InOrder
<1>3. JobsInOrder'
    BY <1>1, <1>2 DEF JobsInOrder
<1> QED
    BY <1>1, <1>3

\* A step that leaves the comments alone, and asks for nothing new.
LEMMA KeptStays ==
    ASSUME Kept, comments' = comments, Waiting' \subseteq Waiting, Pending' \subseteq Pending,
           sent' \subseteq sent, touched' = touched, overlapped => overlapped', paged' = paged,
           unheard' = unheard, workflow' = workflow,
           \A j \in Jobs' : job'[j].said \in {"created", "updated"} =>
               \E k \in Jobs : job[k].said \in {"created", "updated"}
    PROVE  Kept'
<1>1. Marked' = Marked
    BY DEF Marked
<1>2. Quiet' => Quiet
    BY DEF Quiet
<1>3. OnlyTools'
    BY DEF Kept, OnlyTools
<1>4. OneAtATime'
    BY <1>2 DEF Kept, OneAtATime
<1>5. \A id : Right(id) => (Right(id))'
    BY <1>1 DEF Right
<1>6. OneMarked'
    BY <1>1, <1>2, <1>5 DEF Kept, OneMarked
<1> QED
    BY <1>3, <1>4, <1>6 DEF Kept

\* A step of a job that only moves on.
MovesOn(j, rec) ==
    /\ job' = [job EXCEPT ![j] = rec]
    /\ rec.step # "post"
    /\ rec.said \notin {"created", "updated"} \/ rec.said = job[j].said
    /\ InOrder(rec)
LEMMA MovesOnKeeps ==
    ASSUME IInv, NEW j \in Jobs, NEW rec \in JobRec, MovesOn(j, rec),
           UNCHANGED <<workflow, github, history>>
    PROVE  IInv'
<1>1. /\ JobShape' /\ JobsInOrder' /\ Len(job') = Len(job) /\ Jobs' = Jobs
      /\ \A k \in Jobs : job'[k] = IF k = j THEN rec ELSE job[k]
    <2>1. nextId' \in Nat /\ nextId <= nextId' /\ workflow' = workflow
        BY DEF IInv, github, Shape, CommentShape
    <2>2. Shape /\ Ordered /\ job' = [job EXCEPT ![j] = rec] /\ InOrder(rec)
        BY DEF IInv, MovesOn
    <2> QED
        BY <2>1, <2>2, MovesKeepOrder
<1>2. Waiting' \subseteq Waiting /\ \A k \in Waiting' : job'[k] = job[k]
    BY <1>1 DEF Waiting, MovesOn
<1>3. Pending' \subseteq Pending
    BY <1>2 DEF Pending, github
<1>4. Kept'
    BY <1>1, <1>2, <1>3, KeptStays DEF MovesOn, github, history, IInv
<1>5. Shape'
    BY <1>1 DEF IInv, Shape, CommentShape, github
<1>6. CommentsInOrder' /\ SentInOrder' /\ PagesCounted'
    BY <1>1 DEF IInv, Ordered, CommentsInOrder, SentInOrder, PagesCounted, github, history
<1> QED
    BY <1>1, <1>4, <1>5, <1>6 DEF IInv, Ordered

\* The steps of a job that neither list nor change comments.
LEMMA JobSteps ==
    ASSUME IInv, NEW j \in Jobs,
           Gate(j) \/ Artifact(j) \/ Parse(j) \/ Enforce(j) \/ ListFails(j) \/ PostFails(j)
    PROVE  \E rec \in JobRec : MovesOn(j, rec)
<1> PICK old : old = job[j]
    OBVIOUS
<1>1. old \in JobRec /\ InOrder(old)
    BY DEF IInv, Shape, JobShape, Ordered, JobsInOrder, Jobs
<1>2. /\ old.bundle \in Bundles
      /\ old.bundle.strict \in Reports /\ old.bundle.loose \in Reports
    BY <1>1 DEF JobRec, Reports
<1>3. CASE Gate(j)
    <2>1. old.step = "gate" /\ old.said = "nothing"
        BY <1>1, <1>3 DEF Gate, At, InOrder
    <2>2. CASE Moves(j, "failed", job[j])
        <3> PICK rec : rec = [old EXCEPT !.step = "failed"]
            OBVIOUS
        <3>1. rec \in JobRec
            BY <1>1 DEF JobRec, Steps
        <3>2. MovesOn(j, rec)
            BY <1>1, <2>1, <2>2 DEF Moves, MovesOn, InOrder, JobRec
        <3> QED
            BY <3>1, <3>2
    <2>3. CASE Moves(j, "artifact", [job[j] EXCEPT !.report = IF workflow.strict THEN job[j].bundle.strict
                                                              ELSE job[j].bundle.loose])
        <3> PICK report : report = IF workflow.strict THEN old.bundle.strict ELSE old.bundle.loose
            OBVIOUS
        <3> PICK rec : rec = [[old EXCEPT !.report = report] EXCEPT !.step = "artifact"]
            OBVIOUS
        <3>1. rec \in JobRec
            BY <1>1, <1>2 DEF JobRec, Steps
        <3>2. MovesOn(j, rec)
            BY <1>1, <2>1, <2>3 DEF Moves, MovesOn, InOrder, JobRec
        <3> QED
            BY <3>1, <3>2
    <2> QED
        BY <1>3, <2>2, <2>3 DEF Gate
<1>4. CASE Artifact(j)
    <2>1. old.step = "artifact" /\ old.said = "nothing"
        BY <1>1, <1>4 DEF Artifact, At, InOrder
    <2>2. PICK how \in {"none", "built", "failed soft"} :
              job' = [job EXCEPT ![j] = [[old EXCEPT !.artifact = how] EXCEPT !.step = "parse"]]
        <3>1. CASE Moves(j, "parse", job[j])
            <4>1. old.artifact \in {"none", "built", "failed soft"}
                BY <1>1 DEF JobRec
            <4>2. [[old EXCEPT !.artifact = old.artifact] EXCEPT !.step = "parse"] = [old EXCEPT !.step = "parse"]
                BY <1>1 DEF JobRec
            <4> QED
                BY <3>1, <4>1, <4>2 DEF Moves
        <3> QED
            BY <1>4, <3>1 DEF Artifact, Moves
    <2> PICK rec : rec = [[old EXCEPT !.artifact = how] EXCEPT !.step = "parse"]
        OBVIOUS
    <2>3. rec \in JobRec
        BY <1>1 DEF JobRec, Steps
    <2>4. MovesOn(j, rec)
        BY <1>1, <2>1, <2>2 DEF MovesOn, InOrder, JobRec
    <2> QED
        BY <2>3, <2>4
<1>5. ASSUME NEW step \in {"list", "enforce", "failed", "passed"},
             job' = [job EXCEPT ![j] = [old EXCEPT !.step = step]], old.step \notin {"list", "post"},
             step = "list" => old.step = "parse"
      PROVE  \E rec \in JobRec : MovesOn(j, rec)
    <2> PICK rec : rec = [old EXCEPT !.step = step]
        OBVIOUS
    <2>1. rec \in JobRec
        BY <1>1, <1>5 DEF JobRec, Steps
    <2>2. MovesOn(j, rec)
        BY <1>1, <1>5 DEF MovesOn, InOrder, JobRec
    <2> QED
        BY <2>1, <2>2
<1>6. CASE Parse(j)
    BY <1>5, <1>6 DEF Parse, Moves, At
<1>7. CASE Enforce(j)
    BY <1>5, <1>7 DEF Enforce, Moves, At
<1>8. CASE ListFails(j) \/ PostFails(j)
    <2> PICK rec : rec = [[old EXCEPT !.said = "error"] EXCEPT !.step = "enforce"]
        OBVIOUS
    <2>1. rec \in JobRec
        BY <1>1 DEF JobRec, Steps
    <2>2. job' = [job EXCEPT ![j] = rec] /\ old.step \in {"list", "post"}
        BY <1>8 DEF ListFails, PostFails, Moves, At, Listing
    <2>3. MovesOn(j, rec)
        BY <1>1, <2>2 DEF MovesOn, InOrder, JobRec
    <2> QED
        BY <2>1, <2>3
<1> QED
    BY <1>3, <1>4, <1>6, <1>7, <1>8

\* A job more: nothing of the others changes.
LEMMA PushKeeps == ASSUME IInv, NEW b \in Bundles, Push(b) PROVE IInv'
<1> DEFINE new == NewJob(b)
<1> PICK last : last = Len(job) + 1
    OBVIOUS
<1>1. new \in JobRec
    BY DEF NewJob, JobRec, Steps, Reports, NoComment
<1>2. new.step = "gate" /\ new.said = "nothing" /\ new.existing = 0 /\ new.artifact = "none"
    BY DEF NewJob, NoComment
<1>3. job \in Seq(JobRec) /\ Len(job) < MaxJobs /\ job' = Append(job, new) /\ MaxJobs \in Nat
    BY PublishAssumption DEF Push, IInv, Shape, JobShape
<1> HIDE DEF new
<1>4. /\ job' \in Seq(JobRec) /\ Len(job') = last /\ last <= MaxJobs /\ Jobs' = Jobs \union {last}
      /\ last \notin Jobs /\ job'[last] = new /\ \A k \in Jobs : job'[k] = job[k]
    BY <1>1, <1>3 DEF Jobs
<1>5. UNCHANGED <<workflow, comments, nextId, sent, overlapped, paged, touched, unheard>>
    BY DEF Push, github, history
<1>6. Shape'
    BY <1>4, <1>5 DEF IInv, Shape, JobShape, CommentShape
<1>7. JobsInOrder'
    <2>1. ASSUME NEW k \in Jobs PROVE (InOrder(job[k]))'
        <3> PICK r : r = job[k]
            OBVIOUS
        <3>1. InOrder(r) /\ r = job'[k]
            BY <1>4, <2>1 DEF IInv, Ordered, JobsInOrder
        <3> QED
            BY <1>5, <3>1 DEF InOrder
    <2>2. (InOrder(job[last]))'
        <3> PICK r : r = new
            OBVIOUS
        <3>1. r = job'[last]
            BY <1>4
        <3>2. nextId' \in Nat \ {0}
            BY <1>5 DEF IInv, Shape, CommentShape
        <3>3. r.step = "gate" /\ r.said = "nothing" /\ r.existing = 0 /\ r.artifact = "none"
            BY <1>2
        <3>4. (InOrder(r))'
            BY <3>2, <3>3 DEF InOrder
        <3> QED
            BY <3>1, <3>4 DEF InOrder
    <2> QED
        BY <1>4, <2>1, <2>2 DEF JobsInOrder
<1>8. Len(job) <= Len(job') /\ Len(job) \in Nat
    BY <1>3, <1>4
<1>9. CommentsInOrder' /\ SentInOrder' /\ PagesCounted'
    <2>1. \A i \in DOMAIN comments : comments[i].shows \in Nat
        <3>1. \A i \in DOMAIN comments : comments[i] \in CommentRec
            BY DEF IInv, Shape, CommentShape
        <3> QED
            BY <3>1 DEF CommentRec
    <2>2. \A i \in DOMAIN comments : comments[i].shows <= Len(job')
        BY <1>4, <1>8, <2>1 DEF IInv, Ordered, CommentsInOrder
    <2> QED
        BY <1>4, <1>5, <2>2 DEF IInv, Ordered, CommentsInOrder, SentInOrder, PagesCounted
<1>10. Waiting' = Waiting /\ Pending' = Pending
    <2>1. Waiting' = Waiting
        BY <1>2, <1>4 DEF Waiting
    <2>2. \A j \in Waiting : job'[j] = job[j]
        BY <1>4 DEF Waiting
    <2> QED
        BY <1>5, <2>1, <2>2 DEF Pending
<1>11. Kept'
    BY <1>2, <1>4, <1>5, <1>10, KeptStays DEF IInv
<1> QED
    BY <1>6, <1>7, <1>9, <1>11 DEF IInv, Ordered

\* The marked comment that is found first is one that is marked.
LEMMA FirstIsIn == ASSUME NEW S \in SUBSET Nat, S # {} PROVE First(S) \in S
<1>1. \E i \in S : \A k \in S : i <= k
    <2>1. PICK n \in S : TRUE
        OBVIOUS
    <2> DEFINE R == {ss \in Nat \X Nat : ss[1] < ss[2]}
    <2>2. IsWellFoundedOn(R, Nat)
        BY NatLessThanWellFounded, Zenon DEF OpToRel
    <2> HIDE DEF R
    <2>3. PICK i \in S : \A k \in S : ~(<<k, i>> \in R)
        BY <2>1, <2>2, WFMin
    <2>4. \A k \in S : ~(k < i)
        BY <2>3 DEF R
    <2> QED
        BY <2>4
<1> QED
    BY <1>1 DEF First

\* What is listed is found, if all pages are read.
LEMMA FoundIsThere ==
    ASSUME CommentShape, CommentsInOrder
    PROVE  /\ Found \in Nat /\ Found < nextId
           /\ Found # NoComment => \E i \in Marked : comments[i].id = Found
           /\ Len(comments) <= PerPage \/ workflow.merges => Right(Found)
<1>1. CASE Marked = {} \/ (Len(comments) > PerPage /\ ~workflow.merges)
    <2>1. Found = NoComment
        BY <1>1 DEF Found
    <2>2. Len(comments) \in Nat /\ PerPage \in Nat /\ nextId \in Nat /\ nextId # 0
        BY PublishAssumption DEF CommentShape
    <2>3. Len(comments) <= PerPage \/ workflow.merges => Marked = {}
        BY <1>1, <2>2
    <2> QED
        BY <2>1, <2>2, <2>3 DEF NoComment, Right
<1>2. CASE ~(Marked = {} \/ (Len(comments) > PerPage /\ ~workflow.merges))
    <2>1. Found = comments[First(Marked)].id
        BY <1>2 DEF Found
    <2>2. Marked \in SUBSET Nat /\ Marked # {}
        BY <1>2 DEF Marked, CommentShape
    <2>3. First(Marked) \in Marked
        BY <2>2, FirstIsIn
    <2> PICK i : i = First(Marked)
        OBVIOUS
    <2>4. i \in DOMAIN comments
        BY <2>3 DEF Marked
    <2>5. comments[i] \in CommentRec
        BY <2>4 DEF CommentShape
    <2>6. comments[i].id \in Nat
        BY <2>5 DEF CommentRec
    <2>7. comments[i].id < nextId /\ comments[i].id # NoComment
        BY <2>4 DEF CommentsInOrder
    <2> QED
        BY <2>1, <2>3, <2>6, <2>7 DEF Right
<1> QED
    BY <1>1, <1>2

\* No two comments have one number.
LEMMA SameId ==
    ASSUME CommentShape, CommentsInOrder, NEW i \in DOMAIN comments, NEW k \in DOMAIN comments,
           comments[i].id = comments[k].id
    PROVE  i = k
<1>1. comments[i] \in CommentRec /\ i \in Nat /\ k \in Nat
    BY DEF CommentShape
<1>2. comments[i].id \in Nat
    BY <1>1 DEF CommentRec
<1>3. ~(k < i) /\ ~(i < k)
    BY <1>2 DEF CommentsInOrder
<1> QED
    BY <1>1, <1>3

\* A job that listed: as long as nobody else is about to change the comments, it
\* is the only one, and what it found stays so.
LEMMA ListedKeeps ==
    ASSUME IInv, NEW j \in Jobs, At(j, "list"), NEW found \in Nat, found < nextId,
           found # NoComment => \E i \in Marked : comments[i].id = found,
           Moves(j, "post", [job[j] EXCEPT !.existing = found]),
           UNCHANGED <<workflow, github, paged, touched>>,
           Quiet' => Quiet /\ Waiting = {} /\ sent = {} /\ Right(found)
    PROVE  IInv'
<1> PICK old : old = job[j]
    OBVIOUS
<1> PICK rec : rec = [[old EXCEPT !.existing = found] EXCEPT !.step = "post"]
    OBVIOUS
<1>1. /\ job' = [job EXCEPT ![j] = rec] /\ old.step = "list"
      /\ UNCHANGED <<workflow, comments, nextId, sent, paged, touched>>
    BY DEF Moves, At, github
<1>2. old \in JobRec /\ InOrder(old)
    BY DEF IInv, Shape, JobShape, Ordered, JobsInOrder, Jobs
<1>3. /\ found \in Nat /\ found < nextId
      /\ found # NoComment => \E i \in Marked : comments[i].id = found
    OBVIOUS
<1>4. rec \in JobRec /\ rec.step = "post" /\ rec.said = "nothing" /\ rec.existing = found
    BY <1>1, <1>2, <1>3 DEF JobRec, Steps, InOrder
<1>5. InOrder(rec)
    BY <1>1, <1>2, <1>3, <1>4 DEF InOrder, JobRec
<1>6. nextId \in Nat /\ nextId <= nextId' /\ nextId' \in Nat
    BY <1>1 DEF IInv, Shape, CommentShape
<1>7. /\ JobShape' /\ JobsInOrder' /\ Len(job') = Len(job) /\ Jobs' = Jobs
      /\ \A k \in Jobs : job'[k] = IF k = j THEN rec ELSE job[k]
    BY <1>1, <1>4, <1>5, <1>6, MovesKeepOrder DEF IInv
<1>8. Shape' /\ CommentsInOrder' /\ SentInOrder' /\ PagesCounted'
    BY <1>1, <1>7 DEF IInv, Shape, CommentShape, Ordered, CommentsInOrder, SentInOrder, PagesCounted
<1>9. Waiting' = Waiting \union {j} /\ \A k \in Waiting \ {j} : job'[k] = job[k]
    BY <1>4, <1>7 DEF Waiting
<1>10. Pending' \subseteq Pending \union {found}
    <2>1. ASSUME NEW k \in Waiting' PROVE job'[k].existing \in Pending \union {found}
        <3>1. CASE k = j
            BY <1>4, <1>7, <3>1
        <3>2. CASE k # j
            BY <1>9, <2>1, <3>2 DEF Pending
        <3> QED
            BY <3>1, <3>2
    <2>2. {q.id : q \in sent'} \subseteq Pending
        BY <1>1 DEF Pending
    <2> QED
        BY <2>1, <2>2 DEF Pending
<1>11. Marked' = Marked
    BY <1>1 DEF Marked
<1>12. OnlyTools'
    <2> SUFFICES ASSUME ~touched' PROVE (OnlyTools!2)'
        BY DEF OnlyTools
    <2>1. OnlyTools!2
        BY <1>1 DEF IInv, Kept, OnlyTools
    <2>2. ASSUME NEW i \in DOMAIN comments, comments[i].id = found PROVE comments[i].by = "tool"
        <3>1. found # NoComment
            BY <2>2 DEF IInv, Ordered, CommentsInOrder
        <3>2. PICK k \in Marked : comments[k].id = found
            BY <1>3, <3>1
        <3>3. k = i
            BY <2>2, <3>2, SameId DEF Marked, IInv, Shape, Ordered
        <3>4. comments[i].by # "person"
            BY <2>1, <3>2, <3>3 DEF Marked
        <3>5. comments[i] \in CommentRec
            BY <2>2 DEF IInv, Shape, CommentShape
        <3> QED
            BY <3>4, <3>5 DEF CommentRec
    <2> QED
        BY <1>1, <1>10, <2>1, <2>2
<1>13. ASSUME Quiet' PROVE Quiet /\ Waiting = {} /\ sent = {} /\ Right(found)
    BY <1>13
<1>14. OneAtATime'
    BY <1>1, <1>9, <1>13 DEF OneAtATime
<1>15. OneMarked'
    <2>1. ASSUME NEW id, Right(id) PROVE (Right(id))'
        BY <1>1, <1>11, <2>1 DEF Right
    <2>2. ASSUME Quiet' PROVE Pending = {}
        BY <1>13, <2>2 DEF Pending
    <2>3. \A k \in Jobs' : job'[k].said \in {"created", "updated"} => job[k].said \in {"created", "updated"}
        BY <1>4, <1>7
    <2> QED
        BY <1>7, <1>10, <1>11, <1>13, <2>1, <2>2, <2>3 DEF OneMarked, IInv, Kept
<1> QED
    BY <1>7, <1>8, <1>12, <1>14, <1>15 DEF IInv, Ordered, Kept

LEMMA ListKeeps == ASSUME IInv, NEW j \in Jobs, List(j) PROVE IInv'
<1> PICK found : found = Found
    OBVIOUS
<1>1. /\ At(j, "list") /\ Moves(j, "post", [job[j] EXCEPT !.existing = found])
      /\ overlapped' = (overlapped \/ sent # {} \/ \E k \in Jobs : At(k, "post"))
      /\ UNCHANGED <<workflow, github, paged, touched, unheard>>
    BY DEF List, Listing
<1>2. /\ found \in Nat /\ found < nextId
      /\ found # NoComment => \E i \in Marked : comments[i].id = found
      /\ Len(comments) <= PerPage \/ workflow.merges => Right(found)
    BY FoundIsThere DEF IInv, Shape, Ordered
<1>3. ASSUME Quiet' PROVE Quiet /\ Waiting = {} /\ sent = {} /\ Right(found)
    <2>1. Quiet /\ Waiting = {} /\ sent = {}
        BY <1>1, <1>3 DEF Quiet, Waiting, At
    <2>2. Len(comments) <= PerPage \/ workflow.merges
        <3>1. Len(comments) \in Nat /\ PerPage \in Nat
            BY PublishAssumption DEF IInv, Shape, CommentShape
        <3> QED
            BY <2>1, <3>1 DEF IInv, PagesCounted, Quiet
    <2> QED
        BY <1>2, <2>1, <2>2
<1> QED
    BY <1>1, <1>2, <1>3, ListedKeeps

\* After a listing that failed without a word nothing is promised.
LEMMA UnheardKeeps == ASSUME IInv, NEW j \in Jobs, ListFailsUnheard(j) PROVE IInv'
<1> PICK found : found = NoComment
    OBVIOUS
<1>1. /\ At(j, "list") /\ Moves(j, "post", [job[j] EXCEPT !.existing = found])
      /\ unheard' = TRUE /\ UNCHANGED <<workflow, github, paged, touched>>
    BY DEF ListFailsUnheard, Listing
<1>2. found \in Nat /\ found < nextId /\ found = NoComment
    BY DEF IInv, Shape, CommentShape, NoComment
<1>3. ~Quiet'
    BY <1>1 DEF Quiet
<1> QED
    BY <1>1, <1>2, <1>3, ListedKeeps

\* A request that is given up is the only one out.
LEMMA GivenUpKeeps == ASSUME IInv, NEW j \in Jobs, PostGivenUp(j) PROVE IInv'
<1> PICK old : old = job[j]
    OBVIOUS
<1> PICK rec : rec = [[old EXCEPT !.said = "error"] EXCEPT !.step = "enforce"]
    OBVIOUS
<1> PICK r : r = Request(j)
    OBVIOUS
<1>1. /\ job' = [job EXCEPT ![j] = rec] /\ old.step = "post" /\ sent' = sent \union {r}
      /\ UNCHANGED <<workflow, comments, nextId, overlapped, paged, touched, unheard>>
    BY DEF PostGivenUp, Moves, At, history
<1>2. old \in JobRec /\ InOrder(old)
    BY DEF IInv, Shape, JobShape, Ordered, JobsInOrder, Jobs
<1>3. rec \in JobRec /\ rec.step = "enforce" /\ rec.said = "error" /\ rec.existing = old.existing
    BY <1>2 DEF JobRec, Steps
<1>4. InOrder(rec)
    BY <1>1, <1>2, <1>3 DEF InOrder, JobRec
<1>5. nextId \in Nat /\ nextId <= nextId' /\ nextId' \in Nat
    BY <1>1 DEF IInv, Shape, CommentShape
<1>6. /\ JobShape' /\ JobsInOrder' /\ Len(job') = Len(job) /\ Jobs' = Jobs
      /\ \A k \in Jobs : job'[k] = IF k = j THEN rec ELSE job[k]
    BY <1>1, <1>3, <1>4, <1>5, MovesKeepOrder DEF IInv
<1>7. r \in RequestRec /\ r.job = j /\ r.id = old.existing
    <2>1. r.job = j /\ r.id = old.existing /\ r = [job |-> j, id |-> old.existing]
        BY DEF Request
    <2>2. old.existing \in Nat /\ j \in Nat
        <3>1. j \in Nat
            BY DEF IInv, Shape, JobShape, Jobs
        <3> QED
            BY <1>2, <3>1 DEF JobRec
    <2> QED
        BY <2>1, <2>2 DEF RequestRec
<1>8. Shape' /\ CommentsInOrder' /\ PagesCounted'
    BY <1>1, <1>6, <1>7 DEF IInv, Shape, CommentShape, Ordered, CommentsInOrder, PagesCounted
<1>9. SentInOrder'
    BY <1>1, <1>2, <1>6, <1>7 DEF IInv, Ordered, SentInOrder, InOrder
<1>10. /\ j \in Waiting /\ Waiting' = Waiting \ {j} /\ \A k \in Waiting' : job'[k] = job[k]
       /\ Pending' = Pending
    <2>1. j \in Waiting /\ Waiting' = Waiting \ {j} /\ \A k \in Waiting' : job'[k] = job[k]
        <3>1. j \in Waiting
            BY <1>1 DEF Waiting
        <3>2. Waiting' = Waiting \ {j}
            BY <1>3, <1>6 DEF Waiting
        <3> QED
            BY <1>6, <3>1, <3>2 DEF Waiting
    <2>2. {q.id : q \in sent'} = {q.id : q \in sent} \union {job[j].existing}
        BY <1>1, <1>7
    <2>3. {job'[k].existing : k \in Waiting'} \union {job[j].existing} = {job[k].existing : k \in Waiting}
        BY <2>1
    <2> QED
        BY <2>1, <2>2, <2>3 DEF Pending
<1>11. Marked' = Marked /\ (Quiet' => Quiet)
    BY <1>1 DEF Marked, Quiet
<1>12. OnlyTools'
    BY <1>1, <1>10 DEF IInv, Kept, OnlyTools
<1>13. OneAtATime'
    BY <1>1, <1>10, <1>11 DEF IInv, Kept, OneAtATime
<1>14. OneMarked'
    <2>1. ASSUME NEW id, Right(id) PROVE (Right(id))'
        BY <1>1, <1>11, <2>1 DEF Right
    <2>2. \A k \in Jobs' : job'[k].said \in {"created", "updated"} => job[k].said \in {"created", "updated"}
        BY <1>3, <1>6
    <2> QED
        BY <1>6, <1>10, <1>11, <2>1, <2>2 DEF OneMarked, IInv, Kept
<1> QED
    BY <1>6, <1>8, <1>9, <1>12, <1>13, <1>14 DEF IInv, Ordered, Kept

\* A request changes a comment of the tool, or adds one.
LEMMA ServeKeepsTools ==
    ASSUME CommentShape, CommentsInOrder, OnlyTools, NEW r \in RequestRec, Serve(r), r.id \in Pending,
           Pending' \subseteq Pending, touched' = touched
    PROVE  OnlyTools'
<1> SUFFICES ASSUME ~touched PROVE (OnlyTools!2)'
    BY DEF OnlyTools
<1>1. OnlyTools!2
    BY DEF OnlyTools
<1>2. ASSUME NEW i \in DOMAIN comments
      PROVE  /\ comments'[i].by = "person" => comments'[i] = comments[i]
             /\ comments'[i].id = comments[i].id /\ comments'[i].by = comments[i].by
    <2>1. /\ comments'[i].id = comments[i].id /\ comments'[i].by = comments[i].by
          /\ comments[i].id # r.id => comments'[i] = comments[i]
        BY <1>2, ServeFields
    <2>2. comments[i].id = r.id => comments[i].by = "tool"
        BY <1>1, <1>2
    <2> QED
        BY <2>1, <2>2
<1>3. ASSUME NEW i \in DOMAIN comments', i \notin DOMAIN comments PROVE comments'[i].by = "tool"
    <2>1. r.id = NoComment
        BY <1>3, ServeChanges
    <2> QED
        BY <1>3, <2>1, ServedIsNew
<1>4. ASSUME NEW i \in DOMAIN comments', comments'[i].by = "person"
      PROVE  ~comments'[i].marker /\ comments'[i].shows = 0
    <2>1. i \in DOMAIN comments
        BY <1>3, <1>4
    <2>2. comments'[i] = comments[i] /\ comments[i].by = "person"
        BY <1>2, <1>4, <2>1
    <2> QED
        BY <1>1, <2>1, <2>2
<1>5. ASSUME NEW id \in Pending', NEW i \in DOMAIN comments', comments'[i].id = id
      PROVE  comments'[i].by = "tool"
    BY <1>1, <1>2, <1>3, <1>5
<1> QED
    BY <1>4, <1>5

\* What was found is still so: it is the one comment, or there is none.
LEMMA ServeKeepsOne ==
    ASSUME CommentShape, CommentsInOrder, NEW r \in RequestRec, Serve(r), Served(r), Right(r.id),
           \A i, k \in Marked : i = k
    PROVE  \A i, k \in Marked' : i = k
<1>1. CASE r.id = NoComment
    BY <1>1, ServeMarks DEF Right
<1>2. CASE r.id # NoComment
    <2>1. PICK n \in Marked : comments[n].id = r.id
        BY <1>2 DEF Right
    <2>2. \A i \in DOMAIN comments : comments[i].id = r.id => i = n
        BY <2>1, SameId DEF Marked
    <2> QED
        BY <1>2, <2>1, <2>2, ServeMarks
<1> QED
    BY <1>1, <1>2

LEMMA PostKeeps == ASSUME IInv, NEW j \in Jobs, Post(j) PROVE IInv'
<1> PICK old : old = job[j]
    OBVIOUS
<1> PICK said : said = IF old.existing = NoComment THEN "created" ELSE "updated"
    OBVIOUS
<1> PICK rec : rec = [[old EXCEPT !.said = said] EXCEPT !.step = "enforce"]
    OBVIOUS
<1> PICK r : r = Request(j)
    OBVIOUS
<1>1. /\ job' = [job EXCEPT ![j] = rec] /\ old.step = "post" /\ Served(r) /\ Serve(r)
      /\ UNCHANGED <<workflow, sent, overlapped, touched, unheard>>
    BY DEF Post, Moves, At
<1>2. old \in JobRec /\ InOrder(old)
    BY DEF IInv, Shape, JobShape, Ordered, JobsInOrder, Jobs
<1>3. rec \in JobRec /\ rec.step = "enforce" /\ rec.said = said /\ rec.existing = old.existing
    BY <1>2 DEF JobRec, Steps
<1>4. InOrder(rec)
    BY <1>1, <1>2, <1>3 DEF InOrder, JobRec
<1>5. r \in RequestRec /\ r.job = j /\ r.id = old.existing
    <2>1. r.job = j /\ r.id = old.existing /\ r = [job |-> j, id |-> old.existing]
        BY DEF Request
    <2>2. j \in Nat
        BY DEF IInv, Shape, JobShape, Jobs
    <2>3. old.existing \in Nat
        BY <1>2 DEF JobRec
    <2> QED
        BY <2>1, <2>2, <2>3 DEF RequestRec
<1>6. CommentShape /\ CommentsInOrder /\ PagesCounted /\ r.job <= Len(job)
    BY <1>5 DEF IInv, Shape, Ordered, JobShape, Jobs
<1>7. comments' \in Seq(CommentRec) /\ nextId' \in Nat \ {0} /\ nextId <= nextId' /\ (paged => paged')
    BY <1>1, <1>5, <1>6, ServeChanges
<1>8. /\ JobShape' /\ JobsInOrder' /\ Len(job') = Len(job) /\ Jobs' = Jobs
      /\ \A k \in Jobs : job'[k] = IF k = j THEN rec ELSE job[k]
    BY <1>1, <1>3, <1>4, <1>7, MovesKeepOrder DEF IInv
<1>9. CommentsInOrder' /\ PagesCounted'
    BY <1>1, <1>5, <1>6, <1>8, ServeKeepsOrder
<1>10. Shape'
    BY <1>1, <1>7, <1>8 DEF IInv, Shape, CommentShape
<1>11. SentInOrder'
    <2>1. \A q \in sent : q.id \in Nat
        BY DEF IInv, Shape, CommentShape, RequestRec
    <2>2. nextId \in Nat
        BY <1>6 DEF CommentShape
    <2> QED
        BY <1>1, <1>7, <1>8, <2>1, <2>2 DEF IInv, Ordered, SentInOrder
<1>12. /\ j \in Waiting /\ Waiting' = Waiting \ {j} /\ \A k \in Waiting' : job'[k] = job[k]
       /\ Pending' \subseteq Pending /\ r.id \in Pending
    <2>1. j \in Waiting
        BY <1>1 DEF Waiting
    <2>2. Waiting' = Waiting \ {j}
        BY <1>3, <1>8 DEF Waiting
    <2>3. \A k \in Waiting' : job'[k] = job[k]
        BY <1>8, <2>2 DEF Waiting
    <2>4. \A k \in Waiting' : job'[k].existing \in Pending
        BY <2>2, <2>3 DEF Pending
    <2>5. {q.id : q \in sent'} \subseteq Pending
        BY <1>1 DEF Pending
    <2> QED
        BY <1>5, <2>1, <2>2, <2>3, <2>4, <2>5 DEF Pending
<1>13. OnlyTools'
    BY <1>1, <1>5, <1>6, <1>12, ServeKeepsTools DEF IInv, Kept
<1>14. Quiet' => Quiet
    BY <1>1, <1>7 DEF Quiet
<1>15. OneAtATime'
    BY <1>1, <1>12, <1>14 DEF IInv, Kept, OneAtATime
<1>16. ASSUME Quiet' PROVE Waiting' = {} /\ sent' = {} /\ Right(r.id) /\ \A i, k \in Marked : i = k
    <2>1. Quiet /\ OneAtATime /\ OneMarked
        BY <1>14, <1>16 DEF IInv, Kept
    <2>2. Waiting' = {} /\ sent' = {}
        BY <1>1, <1>12, <2>1 DEF OneAtATime
    <2> QED
        BY <1>12, <2>1, <2>2 DEF OneMarked
<1>17. OneMarked'
    <2>1. ASSUME Quiet' PROVE Pending' = {}
        BY <1>16, <2>1 DEF Pending
    <2>2. ASSUME Quiet' PROVE \A i, k \in Marked' : i = k
        BY <1>1, <1>5, <1>6, <1>16, <2>2, ServeKeepsOne
    <2>3. Marked' # {}
        BY <1>1, <1>5, <1>6, ServeMarks
    <2> QED
        BY <2>1, <2>2, <2>3 DEF OneMarked
<1> QED
    BY <1>8, <1>9, <1>10, <1>11, <1>13, <1>15, <1>17 DEF IInv, Ordered, Kept

\* A request that was given up is served or is not, while no job is about to
\* change the comments.
LEMMA LandKeeps == ASSUME IInv, NEW r \in sent, Land(r) PROVE IInv'
<1>1. /\ sent' = sent \ {r} /\ overlapped' = (overlapped \/ \E j \in Jobs : At(j, "post"))
      /\ UNCHANGED <<workflow, job, touched, unheard>>
    BY DEF Land
<1>2. r \in RequestRec /\ CommentShape /\ CommentsInOrder /\ PagesCounted /\ r.job \in Jobs
    BY DEF IInv, Shape, CommentShape, Ordered, SentInOrder
<1>3. r.job <= Len(job) /\ Jobs' = Jobs
    BY <1>1, <1>2 DEF IInv, Shape, JobShape, Jobs
<1>4. /\ Waiting' = Waiting /\ Pending' \subseteq Pending /\ r.id \in Pending
    <2>1. Waiting' = Waiting /\ r.id \in Pending
        BY <1>1, <1>3 DEF Waiting, Pending
    <2> QED
        BY <1>1, <2>1 DEF Pending
<1>5. CASE ~Served(r)
    <2>1. UNCHANGED <<comments, nextId, paged>>
        BY <1>5 DEF Land
    <2>2. Kept'
        BY <1>1, <1>3, <1>4, <2>1, KeptStays DEF IInv
    <2>3. Shape' /\ Ordered' /\ PagesCounted'
        <3>1. Shape'
            BY <1>1, <2>1 DEF IInv, Shape, JobShape, CommentShape
        <3>2. JobsInOrder'
            BY <1>1, <1>3, <2>1 DEF IInv, Ordered, JobsInOrder, InOrder
        <3> QED
            BY <1>1, <1>3, <2>1, <3>1, <3>2 DEF IInv, Ordered, CommentsInOrder, SentInOrder, PagesCounted
    <2> QED
        BY <2>2, <2>3 DEF IInv
<1>6. CASE Served(r)
    <2>1. Serve(r)
        BY <1>6 DEF Land
    <2>2. comments' \in Seq(CommentRec) /\ nextId' \in Nat \ {0} /\ nextId <= nextId' /\ (paged => paged')
        BY <1>2, <2>1, ServeChanges
    <2>3. CommentsInOrder' /\ PagesCounted'
        BY <1>1, <1>2, <1>3, <2>1, ServeKeepsOrder
    <2>4. Shape'
        BY <1>1, <2>2 DEF IInv, Shape, JobShape, CommentShape
    <2>5. nextId \in Nat /\ nextId' \in Nat
        BY <1>2, <2>2 DEF CommentShape
    <2>6. SentInOrder'
        <3>1. \A q \in sent : q.id \in Nat
            BY <1>2 DEF CommentShape, RequestRec
        <3> QED
            BY <1>1, <1>3, <2>2, <2>5, <3>1 DEF IInv, Ordered, SentInOrder
    <2>7. JobsInOrder'
        <3>1. ASSUME NEW k \in Jobs PROVE (InOrder(job[k]))'
            <4> PICK old : old = job[k]
                OBVIOUS
            <4>1. old \in JobRec
                BY <3>1 DEF IInv, Shape, JobShape, Jobs
            <4>2. old.existing \in Nat
                BY <4>1 DEF JobRec
            <4>3. InOrder(old)
                BY <3>1 DEF IInv, Ordered, JobsInOrder
            <4>4. old = job'[k]
                BY <1>1
            <4> QED
                BY <1>1, <2>2, <2>5, <4>2, <4>3, <4>4 DEF InOrder
        <3> QED
            BY <1>3, <3>1 DEF JobsInOrder
    <2>8. OnlyTools'
        BY <1>1, <1>2, <1>4, <2>1, ServeKeepsTools DEF IInv, Kept
    <2>9. ASSUME Quiet'
          PROVE  Quiet /\ OneMarked /\ sent = {r} /\ Waiting' = {} /\ sent' = {}
        <3>1. Quiet /\ Waiting = {}
            BY <1>1, <2>2, <2>9 DEF Quiet, Waiting, At
        <3>2. sent = {r}
            BY <3>1 DEF IInv, Kept, OneAtATime
        <3> QED
            BY <1>1, <1>4, <3>1, <3>2 DEF IInv, Kept
    <2>10. OneAtATime'
        BY <2>9 DEF OneAtATime
    <2>11. OneMarked'
        <3>1. ASSUME Quiet' PROVE Pending' = {}
            BY <2>9, <3>1 DEF Pending
        <3>2. ASSUME Quiet' PROVE \A i, k \in Marked' : i = k
            <4>1. Right(r.id) /\ \A i, k \in Marked : i = k
                BY <1>4, <2>9, <3>2 DEF OneMarked
            <4> QED
                BY <1>2, <1>6, <2>1, <4>1, ServeKeepsOne
        <3>3. Marked' # {}
            BY <1>2, <1>6, <2>1, ServeMarks
        <3> QED
            BY <3>1, <3>2, <3>3 DEF OneMarked
    <2> QED
        BY <2>3, <2>4, <2>6, <2>7, <2>8, <2>10, <2>11 DEF IInv, Ordered, Kept
<1> QED
    BY <1>5, <1>6

\* People add comments without the marker, or touch it.
LEMMA SaysKeeps == ASSUME IInv, NEW copies \in BOOLEAN, Says(copies) PROVE IInv'
<1> PICK last : last = Len(comments) + 1
    OBVIOUS
<1> PICK new : new = Comment(nextId, "person", copies, 0)
    OBVIOUS
<1>1. /\ comments' = Append(comments, new) /\ nextId' = nextId + 1
      /\ paged' = (paged \/ Len(comments) >= PerPage) /\ touched' = (touched \/ copies)
      /\ UNCHANGED <<workflow, job, sent, overlapped, unheard>>
    BY DEF Says
<1>2. nextId \in Nat \ {0} /\ comments \in Seq(CommentRec) /\ PerPage \in Nat
    BY PublishAssumption DEF IInv, Shape, CommentShape
<1>3. /\ new.id = nextId /\ new.by = "person" /\ new.marker = copies /\ new.shows = 0
      /\ new \in CommentRec
    BY <1>2 DEF Comment, CommentRec
<1>4. /\ comments' \in Seq(CommentRec) /\ Len(comments') = last /\ DOMAIN comments' = (DOMAIN comments) \union {last}
      /\ last \notin DOMAIN comments /\ comments'[last] = new
      /\ \A i \in DOMAIN comments : comments'[i] = comments[i] /\ i < last /\ i \in Nat
      /\ Len(comments) \in Nat
    BY <1>1, <1>2, <1>3
<1>5. nextId' \in Nat \ {0} /\ nextId < nextId'
    BY <1>1, <1>2
<1>6. Shape'
    BY <1>1, <1>4, <1>5 DEF IInv, Shape, JobShape, CommentShape
<1>7. JobsInOrder' /\ SentInOrder'
    <2>1. ASSUME NEW k \in Jobs PROVE (InOrder(job[k]))'
        <3> PICK old : old = job[k]
            OBVIOUS
        <3>1. old \in JobRec
            BY <2>1 DEF IInv, Shape, JobShape, Jobs
        <3>2. old.existing \in Nat
            BY <3>1 DEF JobRec
        <3>3. InOrder(old)
            BY <2>1 DEF IInv, Ordered, JobsInOrder
        <3>4. old = job'[k]
            BY <1>1
        <3> QED
            BY <1>1, <1>2, <1>5, <3>2, <3>3, <3>4 DEF InOrder
    <2>2. \A q \in sent : q.id \in Nat
        BY DEF IInv, Shape, CommentShape, RequestRec
    <2>3. Jobs' = Jobs
        BY <1>1 DEF Jobs
    <2> QED
        BY <1>1, <1>2, <1>5, <2>1, <2>2, <2>3 DEF IInv, Ordered, JobsInOrder, SentInOrder
<1>8. \A i \in DOMAIN comments : comments[i].id \in Nat /\ comments[i].id < nextId /\ comments[i].id # NoComment
                                 /\ comments[i].shows <= Len(job)
    <2>1. \A i \in DOMAIN comments : comments[i] \in CommentRec
        BY <1>2
    <2> QED
        BY <2>1 DEF CommentRec, IInv, Ordered, CommentsInOrder
<1>9. CommentsInOrder'
    <2>1. ASSUME NEW i \in DOMAIN comments', NEW k \in DOMAIN comments', i < k
          PROVE  comments'[i].id < comments'[k].id
        <3>1. i \in DOMAIN comments
            <4>1. last \in Nat /\ \A n \in DOMAIN comments : n < last /\ n \in Nat
                BY <1>4
            <4> QED
                BY <1>4, <2>1, <4>1
        <3>2. CASE k \in DOMAIN comments
            BY <1>4, <2>1, <3>1, <3>2 DEF IInv, Ordered, CommentsInOrder
        <3>3. CASE k = last
            BY <1>3, <1>4, <1>8, <3>1, <3>3
        <3> QED
            BY <1>4, <3>2, <3>3
    <2>2. Len(job) \in Nat /\ job' = job
        BY <1>1 DEF IInv, Shape, JobShape
    <2>3. ASSUME NEW i \in DOMAIN comments'
          PROVE  comments'[i].id # NoComment /\ comments'[i].id < nextId' /\ comments'[i].shows <= Len(job')
        <3>1. CASE i \in DOMAIN comments
            BY <1>2, <1>4, <1>5, <1>8, <2>2, <3>1
        <3>2. CASE i = last
            BY <1>2, <1>3, <1>4, <1>5, <2>2, <3>2 DEF NoComment
        <3> QED
            BY <1>4, <3>1, <3>2
    <2> QED
        BY <2>1, <2>3 DEF CommentsInOrder
<1>10. PagesCounted'
    <2>1. Len(comments') > PerPage => Len(comments) >= PerPage
        BY <1>2, <1>4
    <2> QED
        BY <1>1, <2>1 DEF PagesCounted
<1>11. Waiting' = Waiting /\ Pending' = Pending
    BY <1>1 DEF Waiting, Pending, Jobs
<1>12. OnlyTools'
    <2> SUFFICES ASSUME ~touched' PROVE (OnlyTools!2)'
        BY DEF OnlyTools
    <2>1. OnlyTools!2 /\ ~copies
        BY <1>1 DEF IInv, Kept, OnlyTools
    <2>2. ~comments'[last].marker /\ comments'[last].shows = 0
        BY <1>3, <1>4, <2>1, Zenon
    <2>3. \A id \in Pending : comments'[last].id # id
        <3>1. \A q \in sent : q.id \in Nat /\ q.id < nextId
            BY DEF IInv, Shape, CommentShape, RequestRec, Ordered, SentInOrder
        <3>2. \A k \in Waiting : job[k].existing < nextId
            BY DEF IInv, Ordered, JobsInOrder, InOrder, Waiting
        <3>3. \A k \in Waiting : job[k].existing \in Nat
            <4>1. \A k \in Waiting : job[k] \in JobRec
                BY DEF IInv, Shape, JobShape, Waiting, Jobs
            <4> QED
                BY <4>1 DEF JobRec
        <3> QED
            BY <1>2, <1>3, <1>4, <3>1, <3>2, <3>3 DEF Pending
    <2> QED
        BY <1>4, <1>11, <2>1, <2>2, <2>3
<1>13. ASSUME Quiet' PROVE Quiet /\ ~copies
    BY <1>1, <1>13 DEF Quiet
<1>14. OneAtATime'
    BY <1>1, <1>11, <1>13 DEF IInv, Kept, OneAtATime
<1>15. OneMarked'
    <2>1. ASSUME Quiet' PROVE Marked' = Marked
        <3>1. ~comments'[last].marker
            BY <1>3, <1>4, <1>13, <2>1, Zenon
        <3> QED
            BY <1>4, <3>1 DEF Marked
    <2>2. ASSUME Quiet', NEW id, Right(id) PROVE (Right(id))'
        BY <1>4, <2>1, <2>2 DEF Right, Marked
    <2>3. Jobs' = Jobs /\ job' = job
        BY <1>1 DEF Jobs
    <2> QED
        BY <1>11, <1>13, <2>1, <2>2, <2>3 DEF IInv, Kept, OneMarked
<1> QED
    BY <1>6, <1>7, <1>9, <1>10, <1>12, <1>14, <1>15 DEF IInv, Ordered, Kept

LEMMA RemoveAtMoves ==
    ASSUME NEW S, NEW list \in Seq(S), NEW i \in DOMAIN list
    PROVE  /\ RemoveAt(list, i) \in Seq(S) /\ Len(RemoveAt(list, i)) = Len(list) - 1
           /\ \A k \in DOMAIN RemoveAt(list, i) :
                 RemoveAt(list, i)[k] = IF k < i THEN list[k] ELSE list[k + 1]
<1> DEFINE A == SubSeq(list, 1, i - 1)
           B == SubSeq(list, i + 1, Len(list))
<1>1. i \in 1..Len(list) /\ Len(list) \in Nat
    OBVIOUS
<1>2. /\ A \in Seq(S) /\ Len(A) = i - 1 /\ \A k \in 1..(i - 1) : A[k] = list[k]
    BY <1>1
<1>3. /\ B \in Seq(S) /\ Len(B) = Len(list) - i
      /\ \A k \in 1..(Len(list) - i) : B[k] = list[k + i]
    BY <1>1
<1>4. RemoveAt(list, i) = A \o B
    BY DEF RemoveAt
<1> HIDE DEF A, B
<1>5. A \in Seq(S) /\ B \in Seq(S)
    BY <1>2, <1>3
<1>6. /\ A \o B \in Seq(S) /\ Len(A \o B) = Len(A) + Len(B) /\ DOMAIN (A \o B) = 1..(Len(A) + Len(B))
      /\ \A k \in 1..(Len(A) + Len(B)) : (A \o B)[k] = IF k <= Len(A) THEN A[k] ELSE B[k - Len(A)]
    BY <1>5
<1>7. Len(A) = i - 1 /\ Len(B) = Len(list) - i /\ i \in Nat
    BY <1>1, <1>2, <1>3
<1>8. ASSUME NEW k \in DOMAIN (A \o B) PROVE (A \o B)[k] = IF k < i THEN list[k] ELSE list[k + 1]
    <2> PICK n \in Nat : n = Len(list)
        BY <1>1
    <2>1. k \in 1..(n - 1) /\ i \in 1..n
        BY <1>1, <1>8, <1>6, <1>7
    <2>2. (A \o B)[k] = IF k <= i - 1 THEN A[k] ELSE B[k - (i - 1)]
        BY <1>8, <1>6, <1>7
    <2>3. CASE k < i
        <3>1. k \in 1..(i - 1)
            BY <2>1, <2>3
        <3> QED
            BY <1>2, <2>2, <2>3, <3>1
    <2>4. CASE ~(k < i)
        <3>1. k - (i - 1) \in 1..(n - i) /\ (k - (i - 1)) + i = k + 1 /\ ~(k <= i - 1)
            BY <2>1, <2>4
        <3> QED
            BY <1>3, <2>2, <2>4, <3>1
    <2> QED
        BY <2>3, <2>4
<1>9. Len(A \o B) = Len(list) - 1
    BY <1>1, <1>6, <1>7
<1> QED
    BY <1>4, <1>8, <1>9, <1>6

\* A comment less: the others keep their order.
LEMMA DeletesKeeps == ASSUME IInv, NEW i \in DOMAIN comments, Deletes(i) PROVE IInv'
<1> DEFINE Old(k) == IF k < i THEN k ELSE k + 1
<1>1. /\ comments' = RemoveAt(comments, i) /\ touched' = (touched \/ comments[i].by = "tool")
      /\ UNCHANGED <<workflow, job, nextId, sent, overlapped, paged, unheard>>
    BY DEF Deletes
<1>2. comments \in Seq(CommentRec)
    BY DEF IInv, Shape, CommentShape
<1>3. /\ comments' \in Seq(CommentRec) /\ Len(comments') = Len(comments) - 1
      /\ \A k \in DOMAIN comments' : comments'[k] = IF k < i THEN comments[k] ELSE comments[k + 1]
    BY <1>1, <1>2, RemoveAtMoves
<1>4. /\ DOMAIN comments = 1..Len(comments) /\ Len(comments) \in Nat /\ DOMAIN comments' = 1..(Len(comments) - 1)
    BY <1>2, <1>3
<1>5. \A k \in DOMAIN comments' : comments'[k] = comments[Old(k)] /\ Old(k) \in (DOMAIN comments) \ {i}
    BY <1>3, <1>4
<1>6. \A k, n \in DOMAIN comments' : k < n => Old(k) < Old(n)
    BY <1>4
<1>7. ASSUME NEW k \in (DOMAIN comments) \ {i} PROVE \E n \in DOMAIN comments' : Old(n) = k
    <2>1. CASE k < i
        BY <1>4, <1>7, <2>1
    <2>2. CASE k > i
        <3>1. k - 1 \in DOMAIN comments' /\ Old(k - 1) = k
            BY <1>4, <1>7, <2>2
        <3> QED
            BY <3>1
    <2> QED
        BY <1>4, <1>7, <2>1, <2>2
<1> HIDE DEF Old
<1>8. Shape'
    BY <1>1, <1>3 DEF IInv, Shape, JobShape, CommentShape
<1>9. JobsInOrder' /\ SentInOrder'
    BY <1>1 DEF IInv, Ordered, JobsInOrder, InOrder, SentInOrder, Jobs
<1>10. CommentsInOrder' /\ PagesCounted'
    <2>1. CommentsInOrder'
        BY <1>1, <1>5, <1>6 DEF IInv, Ordered, CommentsInOrder
    <2>2. PerPage \in Nat
        BY PublishAssumption
    <2> QED
        BY <1>1, <1>3, <1>4, <2>1, <2>2 DEF IInv, PagesCounted
<1>11. Waiting' = Waiting /\ Pending' = Pending
    BY <1>1 DEF Waiting, Pending, Jobs
<1>12. OnlyTools'
    <2> SUFFICES ASSUME ~touched' PROVE (OnlyTools!2)'
        BY DEF OnlyTools
    <2>1. OnlyTools!2
        BY <1>1 DEF IInv, Kept, OnlyTools
    <2>2. ASSUME NEW k \in DOMAIN comments', comments'[k].by = "person"
          PROVE  ~comments'[k].marker /\ comments'[k].shows = 0
        <3>1. PICK n \in DOMAIN comments : comments'[k] = comments[n]
            BY <1>5, <2>2
        <3>2. ~comments[n].marker /\ comments[n].shows = 0
            BY <2>1, <2>2, <3>1
        <3> QED
            BY <3>1, <3>2, Zenon
    <2>3. \A k \in DOMAIN comments' : \E n \in DOMAIN comments : comments'[k] = comments[n]
        BY <1>5
    <2>4. \A id \in Pending' : \A k \in DOMAIN comments' : comments'[k].id = id => comments'[k].by = "tool"
        BY <1>11, <2>1, <2>3
    <2> QED
        BY <2>2, <2>4
<1>13. ASSUME Quiet' PROVE Quiet /\ ~comments[i].marker
    <2>1. Quiet /\ comments[i].by # "tool" /\ ~touched
        BY <1>1, <1>13 DEF Quiet
    <2>2. comments[i] \in CommentRec
        BY <1>2
    <2>3. comments[i].by = "person"
        BY <2>1, <2>2 DEF CommentRec
    <2> QED
        BY <2>1, <2>3 DEF IInv, Kept, OnlyTools
<1>14. OneAtATime'
    BY <1>1, <1>11, <1>13 DEF IInv, Kept, OneAtATime
<1>15. \A k \in Marked' : Old(k) \in Marked /\ comments'[k] = comments[Old(k)]
    <2>1. ASSUME NEW k \in Marked' PROVE Old(k) \in Marked
        <3>1. k \in DOMAIN comments' /\ comments'[k].marker
            BY DEF Marked
        <3>2. Old(k) \in DOMAIN comments /\ comments[Old(k)].marker
            BY <1>5, <3>1, Zenon
        <3> QED
            BY <3>2 DEF Marked
    <2>2. Marked' \subseteq DOMAIN comments'
        BY DEF Marked
    <2> QED
        BY <1>5, <2>1, <2>2
<1>16. ASSUME Quiet', NEW k \in Marked PROVE \E n \in Marked' : Old(n) = k
    <2>1. k \in (DOMAIN comments) \ {i}
        BY <1>13, <1>16 DEF Marked
    <2>2. PICK n \in DOMAIN comments' : Old(n) = k
        BY <1>7, <2>1
    <2>3. comments'[n] = comments[k]
        BY <1>5, <2>2
    <2>4. comments[k].marker
        BY DEF Marked
    <2>5. comments'[n].marker
        BY <2>3, <2>4, Zenon
    <2> QED
        BY <2>2, <2>5 DEF Marked
<1>17. OneMarked'
    <2> SUFFICES ASSUME Quiet' PROVE (OneMarked!2)'
        BY DEF OneMarked
    <2>1. OneMarked!2
        BY <1>13 DEF IInv, Kept, OneMarked
    <2>2. ASSUME NEW k \in Marked', NEW n \in Marked' PROVE k = n
        <3>1. Old(k) = Old(n)
            BY <1>15, <2>1, <2>2
        <3>2. k \in DOMAIN comments' /\ n \in DOMAIN comments'
            BY DEF Marked
        <3>3. k \in Nat /\ n \in Nat /\ Old(k) \in Nat /\ Old(n) \in Nat
            BY <1>4, <1>5, <3>2
        <3>4. ~(k < n) /\ ~(n < k)
            BY <1>6, <3>1, <3>2, <3>3
        <3> QED
            BY <3>3, <3>4
    <2>3. ASSUME NEW id, Right(id) PROVE (Right(id))'
        <3>1. CASE id = NoComment
            BY <1>15, <2>3, <3>1 DEF Right
        <3>2. CASE id # NoComment
            <4>1. PICK k \in Marked : comments[k].id = id
                BY <2>3, <3>2 DEF Right
            <4>2. PICK n \in Marked' : Old(n) = k
                BY <1>16
            <4> QED
                BY <1>15, <3>2, <4>1, <4>2 DEF Right
        <3> QED
            BY <3>1, <3>2
    <2>4. Marked # {} => Marked' # {}
        BY <1>16
    <2>5. Jobs' = Jobs /\ job' = job
        BY <1>1 DEF Jobs
    <2> QED
        BY <1>11, <2>1, <2>2, <2>3, <2>4, <2>5
<1> QED
    BY <1>8, <1>9, <1>10, <1>12, <1>14, <1>17 DEF IInv, Ordered, Kept

LEMMA InitKeeps == Init => IInv
<1> SUFFICES ASSUME Init PROVE IInv
    OBVIOUS
<1>1. /\ workflow \in WorkflowRec /\ job = <<>> /\ comments = <<>> /\ nextId = 1 /\ sent = {}
      /\ PerPage \in Nat /\ MaxJobs \in Nat
    BY PublishAssumption DEF Init, WorkflowRec
<1>2. /\ job \in Seq(JobRec) /\ Len(job) = 0 /\ Jobs = {}
      /\ comments \in Seq(CommentRec) /\ Len(comments) = 0 /\ DOMAIN comments = {}
    BY <1>1 DEF Jobs
<1>3. Shape /\ Ordered /\ PagesCounted
    BY <1>1, <1>2 DEF Shape, JobShape, CommentShape, Ordered, JobsInOrder, CommentsInOrder,
                      SentInOrder, PagesCounted
<1>4. Waiting = {} /\ Pending = {} /\ Marked = {}
    BY <1>1, <1>2 DEF Waiting, Pending, Marked
<1>5. Kept
    BY <1>1, <1>2, <1>4 DEF Kept, OnlyTools, OneAtATime, OneMarked
<1> QED
    BY <1>3, <1>5 DEF IInv

LEMMA NextKeeps == IInv /\ [Next]_vars => IInv'
<1> SUFFICES ASSUME IInv, [Next]_vars PROVE IInv'
    OBVIOUS
<1>1. ASSUME NEW b \in Bundles, Push(b) PROVE IInv'
    BY <1>1, PushKeeps
<1>2. ASSUME NEW j \in Jobs,
             Gate(j) \/ Artifact(j) \/ Parse(j) \/ Enforce(j) \/ ListFails(j) \/ PostFails(j)
      PROVE  IInv'
    <2>1. PICK rec \in JobRec : MovesOn(j, rec)
        BY <1>2, JobSteps
    <2>2. UNCHANGED <<workflow, github, history>>
        BY <1>2 DEF Gate, Artifact, Parse, Enforce, ListFails, PostFails
    <2> QED
        BY <2>1, <2>2, MovesOnKeeps
<1>3. ASSUME NEW j \in Jobs, List(j) \/ ListFailsUnheard(j) PROVE IInv'
    BY <1>3, ListKeeps, UnheardKeeps
<1>4. ASSUME NEW j \in Jobs, Post(j) PROVE IInv'
    BY <1>4, PostKeeps
<1>5. ASSUME NEW j \in Jobs, PostGivenUp(j) PROVE IInv'
    BY <1>5, GivenUpKeeps
<1>6. ASSUME NEW r \in sent, Land(r) PROVE IInv'
    BY <1>6, LandKeeps
<1>7. ASSUME NEW copies \in BOOLEAN, Says(copies) PROVE IInv'
    BY <1>7, SaysKeeps
<1>8. ASSUME NEW i \in DOMAIN comments, Deletes(i) PROVE IInv'
    BY <1>8, DeletesKeeps
<1>9. CASE UNCHANGED vars
    <2>1. UNCHANGED <<workflow, job, comments, nextId, sent, overlapped, paged, touched, unheard>>
        BY <1>9 DEF vars, github, history
    <2>2. /\ Jobs' = Jobs /\ Waiting' = Waiting /\ Pending' = Pending /\ Marked' = Marked /\ Quiet' = Quiet
        BY <2>1 DEF Jobs, Waiting, Pending, Marked, Quiet
    <2>3. Kept'
        BY <2>1, <2>2, KeptStays DEF IInv
    <2>4. Shape' /\ Ordered' /\ PagesCounted'
        BY <2>1, <2>2 DEF IInv, Shape, JobShape, CommentShape, Ordered, JobsInOrder, InOrder,
                          CommentsInOrder, SentInOrder, PagesCounted
    <2> QED
        BY <2>3, <2>4 DEF IInv
<1> QED
    BY <1>1, <1>2, <1>3, <1>4, <1>5, <1>6, <1>7, <1>8, <1>9 DEF Next

LEMMA Invariance == Spec => []IInv
<1> QED
    BY InitKeeps, NextKeeps, PTL DEF Spec

-----------------------------------------------------------------------------
(* The theorems.                                                           *)

\* Jobs, comments and requests are what they are said to be.
THEOREM TypeCorrect == Spec => []TypeOK
<1>1. IInv => TypeOK
    <2> SUFFICES ASSUME IInv PROVE TypeOK
        OBVIOUS
    <2>1. workflow \in [strict : BOOLEAN, comment : BOOLEAN, merges : BOOLEAN] /\ Len(job) <= MaxJobs
        BY DEF IInv, Shape, WorkflowRec, JobShape
    <2>2. nextId \in Nat /\ Len(job) \in Nat
        BY DEF IInv, Shape, CommentShape, JobShape
    <2>3. ASSUME NEW j \in Jobs
          PROVE  /\ job[j].step \in Steps /\ job[j].bundle \in Bundles
                 /\ job[j].artifact \in {"none", "built", "failed soft"} /\ job[j].existing \in 0..nextId
                 /\ job[j].said \in {"nothing", "error", "created", "updated"}
                 /\ (job[j].said = "updated" => job[j].existing # NoComment)
        <3> PICK old : old = job[j]
            OBVIOUS
        <3>1. old \in JobRec /\ InOrder(old)
            BY DEF IInv, Shape, JobShape, Ordered, JobsInOrder, Jobs
        <3>2. /\ old.step \in Steps /\ old.bundle \in Bundles
              /\ old.artifact \in {"none", "built", "failed soft"} /\ old.existing \in Nat
              /\ old.said \in {"nothing", "error", "created", "updated"}
            BY <3>1 DEF JobRec
        <3>3. old.existing \in 0..nextId
            <4>1. old.existing < nextId
                BY <3>1 DEF InOrder
            <4>2. old.existing \in Nat /\ nextId \in Nat
                BY <2>2, <3>2
            <4> PICK n \in Nat : n = old.existing
                BY <4>2
            <4>3. n < nextId
                BY <4>1
            <4>4. n \in 0..nextId
                BY <4>2, <4>3
            <4> QED
                BY <4>4
        <3>4. old.said = "updated" => old.existing # NoComment
            BY <3>1 DEF InOrder
        <3> QED
            BY <3>2, <3>3, <3>4
    <2>4. \A i \in DOMAIN comments : comments[i].id < nextId /\ comments[i].shows \in 0..Len(job)
        <3>1. \A i \in DOMAIN comments : comments[i] \in CommentRec
            BY DEF IInv, Shape, CommentShape
        <3>2. \A i \in DOMAIN comments : comments[i].shows \in Nat
            BY <3>1 DEF CommentRec
        <3> QED
            BY <2>2, <3>2 DEF IInv, Ordered, CommentsInOrder
    <2>5. \A i, k \in DOMAIN comments : i < k => comments[i].id < comments[k].id
        BY DEF IInv, Ordered, CommentsInOrder
    <2>6. \A r \in sent : r.job \in Jobs /\ r.id < nextId
        BY DEF IInv, Ordered, SentInOrder
    <2> QED
        BY <2>1, <2>3, <2>4, <2>5, <2>6 DEF TypeOK
<1> QED
    BY <1>1, Invariance, PTL

\* pr_comment.py: as long as no job lists the comments while another is about to
\* change them, all pages are read, and nobody touches it, the pull request has
\* one comment of the tool, requests that were given up included; and what
\* people wrote is never changed.
THEOREM OneCommentIsKept == Spec => []CommentsAreKept
<1>1. IInv => CommentsAreKept
    <2> SUFFICES ASSUME IInv PROVE CommentsAreKept
        OBVIOUS
    <2>1. ASSUME Quiet
          PROVE  /\ Cardinality(Marked) <= 1
                 /\ (\E j \in Jobs : job[j].said \in {"created", "updated"}) => Marked # {}
        <3>1. OneMarked!2
            BY <2>1 DEF IInv, Kept, OneMarked
        <3>2. \A i, k \in Marked : i = k
            BY <3>1
        <3>3. Marked = {} \/ \E i : Marked = {i}
            <4>1. ASSUME NEW i \in Marked PROVE Marked = {i}
                BY <3>2, <4>1
            <4> QED
                BY <4>1
        <3>4. ASSUME NEW i, Marked = {i} PROVE Cardinality(Marked) = 1
            BY <3>4, FS_Singleton
        <3>5. Marked = {} => Cardinality(Marked) = 0
            BY FS_EmptySet
        <3>6. Cardinality(Marked) <= 1
            BY <3>3, <3>4, <3>5
        <3> QED
            BY <3>1, <3>6
    <2>2. OneComment
        BY <2>1 DEF OneComment, Quiet
    <2>3. PeoplesCommentsStay
        BY DEF PeoplesCommentsStay, IInv, Kept, OnlyTools
    <2> QED
        BY <2>2, <2>3 DEF CommentsAreKept
<1> QED
    BY <1>1, Invariance, PTL

\* The report an artifact is built from.
Made(j) == IF job[j].artifact = "built" THEN job[j].bundle.loose ELSE NoReport

\* evidence_schema.py: whatever the bundle, the artifact that CI uploads is
\* valid, lists the findings, and says what the gate decided or that people must.
THEOREM ArtifactsAreTrue == Spec => []ArtifactIsTrue
<1>1. ASSUME IInv, NEW j \in Jobs, job[j].artifact # "none"
      PROVE  LET a == artifact(j)
             IN  /\ validate_artifact(a) = {}
                 /\ {c.about : c \in {d \in ToSet(a.checks.items) : d.status = "fail"}}
                       = IF job[j].artifact = "built"
                         THEN render_markdown(job[j].bundle.loose).findings ELSE {}
                 /\ a.decision.decision = "approve" => job[j].bundle.loose.decision = "approve"
                 /\ ~workflow.strict => a.decision.decision \in {build_comment(j).verdict, "needs_human"}
    <2> PICK old : old = job[j]
        OBVIOUS
    <2>1. old \in JobRec /\ InOrder(old)
        BY <1>1 DEF IInv, Shape, JobShape, Ordered, JobsInOrder, Jobs
    <2>2. old.bundle \in Bundles /\ (~workflow.strict => old.report = old.bundle.loose)
        BY <1>1, <2>1 DEF JobRec, InOrder
    <2> PICK report : report = Made(j)
        OBVIOUS
    <2>3. report = IF old.artifact = "built" THEN old.bundle.loose ELSE NoReport
        BY DEF Made
    <2>4. /\ NoReport.present = <<>> /\ NoReport.missing = <<>> /\ NoReport.blocking = <<>>
          /\ NoReport.decision = "none"
        BY DEF NoReport
    <2>5. Lists3(report) \subseteq Seq(STRING)
        <3>1. Lists3(old.bundle.loose) \subseteq Seq(STRING)
            BY <2>2, BundleAssumption DEF Lists3
        <3>2. Lists3(NoReport) \subseteq Seq(STRING)
            BY <2>4 DEF Lists3
        <3> QED
            BY <2>3, <3>1, <3>2
    <2> PICK a : a = artifact(j)
        OBVIOUS
    <2>6. a = build_artifact(report, old.bundle)
        BY <2>3 DEF artifact
    <2>7. validate_artifact(a) = {}
        BY <2>5, <2>6, BuiltIsRight
    <2>8. {c.about : c \in {d \in ToSet(a.checks.items) : d.status = "fail"}} = ToSet(report.blocking)
        BY <2>5, <2>6, FailedAreFindings
    <2>9. ToSet(report.blocking) = IF old.artifact = "built" THEN render_markdown(old.bundle.loose).findings ELSE {}
        <3>1. render_markdown(old.bundle.loose).findings = ToSet(old.bundle.loose.blocking)
            BY DEF render_markdown
        <3>2. ToSet(<<>>) = {}
            BY DEF ToSet
        <3> QED
            BY <2>3, <2>4, <3>1, <3>2
    <2>10. a.decision.decision = decision_val(report.decision)
        BY <2>6, ObjectsAreRight
    <2>11. report.decision = IF old.artifact = "built" THEN old.bundle.loose.decision ELSE "none"
        BY <2>3, <2>4
    <2>12. a.decision.decision = "approve" => old.bundle.loose.decision = "approve"
        BY <2>10, <2>11 DEF decision_val, DECISIONS
    <2>13. build_comment(j).verdict = IF old.report.decision = "none" THEN "unknown" ELSE old.report.decision
        BY DEF build_comment, Parsed, resolve_decision
    <2>14. ~workflow.strict => a.decision.decision \in {build_comment(j).verdict, "needs_human"}
        BY <2>2, <2>10, <2>11, <2>13 DEF decision_val, DECISIONS
    <2> QED
        BY <2>7, <2>8, <2>9, <2>12, <2>14
<1>2. IInv => ArtifactIsTrue
    BY <1>1 DEF ArtifactIsTrue, BuiltIsValid, SameVerdict
<1> QED
    BY <1>2, Invariance, PTL
=============================================================================
