-------------------------- MODULE PublishDecision --------------------------
(***************************************************************************)
(* The action odoo-gate and pr_comment.py: each push to a pull request     *)
(* starts a job that runs deploy_gate.py on the bundle of its commit,      *)
(* builds the evidence artifact, puts the verdict in a comment with a      *)
(* hidden marker, and fails on "block".  Jobs may overlap; gh is given up  *)
(* after a while, and what it asked for may still happen; people write and *)
(* delete comments.                                                        *)
(***************************************************************************)
EXTENDS EvidenceSchema, Naturals

CONSTANTS
    Bundles,    \* [strict, loose : what deploy_gate reports of it with and
                \* without --strict, repository, signoffs, redacted]
    PerPage,    \* comments on a page of GitHub's answer
    MaxJobs, MaxComments    \* bounds

ASSUME PublishAssumption ==
    PerPage \in Nat \ {0} /\ MaxJobs \in Nat /\ MaxComments \in Nat

\* deploy_gate's report lists names of artifacts and texts.
ASSUME BundleAssumption ==
    \A b \in Bundles : \A report \in {b.strict, b.loose} :
        {report.present, report.missing, report.blocking} \subseteq Seq(STRING)

VARIABLES
    workflow,   \* inputs strict and comment; whether gh merges pages
    job,        \* the jobs so far
    comments,   \* of the pull request, oldest first
    nextId,
    sent,       \* requests that were given up and may yet be served
    overlapped, paged, touched, unheard
    \* history: a job listed the comments while another was about to change
    \* them; there was more than a page of comments; a person deleted a comment
    \* of the tool or copied its marker; gh failed to list and wrote no reason

github == <<comments, nextId, sent>>
history == <<overlapped, paged, touched, unheard>>
vars == <<workflow, job, github, history>>

Jobs == DOMAIN job
NoComment == 0
Steps == {"gate", "artifact", "parse", "list", "post", "enforce", "passed", "failed"}
NewJob(b) == [step |-> "gate", bundle |-> b, report |-> NoReport, artifact |-> "none",
              existing |-> NoComment, said |-> "nothing"]

TypeOK ==
    /\ workflow \in [strict : BOOLEAN, comment : BOOLEAN, merges : BOOLEAN]
    /\ Len(job) <= MaxJobs
    /\ \A j \in Jobs : /\ job[j].step \in Steps /\ job[j].bundle \in Bundles
                       /\ job[j].artifact \in {"none", "built", "failed soft"} /\ job[j].existing \in 0..nextId
                       /\ job[j].said \in {"nothing", "error", "created", "updated"}
                       /\ (job[j].said = "updated" => job[j].existing # NoComment)
    /\ \A i, k \in DOMAIN comments : i < k => comments[i].id < comments[k].id
    /\ \A i \in DOMAIN comments : comments[i].id < nextId /\ comments[i].shows \in 0..Len(job)
    /\ \A r \in sent : r.job \in Jobs /\ r.id < nextId

Init ==
    /\ workflow \in [strict : BOOLEAN, comment : BOOLEAN, merges : BOOLEAN]
    /\ job = <<>> /\ comments = <<>> /\ nextId = 1 /\ sent = {}
    /\ overlapped = FALSE /\ paged = FALSE /\ touched = FALSE /\ unheard = FALSE

Push(b) ==
    /\ Len(job) < MaxJobs
    /\ job' = Append(job, NewJob(b))
    /\ UNCHANGED <<workflow, github, history>>

-----------------------------------------------------------------------------
(* The steps of the action                                                 *)
Moves(j, step, changes) == job' = [job EXCEPT ![j] = [changes EXCEPT !.step = step]]
At(j, step) == job[j].step = step

\* set -e: the job ends if deploy_gate does.
Gate(j) ==
    /\ At(j, "gate")
    /\ \/ Moves(j, "failed", job[j])
       \/ Moves(j, "artifact",
                [job[j] EXCEPT !.report = IF workflow.strict THEN job[j].bundle.strict
                                          ELSE job[j].bundle.loose])
    /\ UNCHANGED <<workflow, github, history>>

\* "|| true"; a report that cannot be made is an empty one.
Artifact(j) ==
    /\ At(j, "artifact")
    /\ \/ Moves(j, "parse", job[j])
       \/ \E how \in {"built", "failed soft"} : Moves(j, "parse", [job[j] EXCEPT !.artifact = how])
    /\ UNCHANGED <<workflow, github, history>>

artifact(j) ==
    build_artifact(IF job[j].artifact = "built" THEN job[j].bundle.loose ELSE NoReport, job[j].bundle)

\* The decision of the report, nested or flat.
resolve_decision(report) == report.decision
Parsed(report) == IF resolve_decision(report) = "none" THEN "unknown" ELSE resolve_decision(report)

Parse(j) ==
    /\ At(j, "parse")
    /\ Moves(j, IF workflow.comment THEN "list" ELSE "enforce", job[j])
    /\ UNCHANGED <<workflow, github, history>>

\* Severities are looked for in findings that are objects; deploy_gate's are texts.
FailClosedHits(report) == {}
Enforce(j) ==
    /\ At(j, "enforce")
    /\ Moves(j, IF \/ Parsed(job[j].report) = "block"
                   \/ Parsed(job[j].report) # "approve" /\ FailClosedHits(job[j].report) # {}
                THEN "failed" ELSE "passed", job[j])
    /\ UNCHANGED <<workflow, github, history>>

-----------------------------------------------------------------------------
(* pr_comment.py post                                                      *)
build_comment(j) == [verdict |-> Parsed(job[j].report), findings |-> ToSet(job[j].report.blocking),
                     missing |-> job[j].report.missing_evidence, approvals |-> job[j].report.approvals]

Marked == {i \in DOMAIN comments : comments[i].marker}
First(S) == CHOOSE i \in S : \A k \in S : i <= k

\* Pages that gh has not merged are "[..][..]"; they become a list in a list,
\* in which no comment is found.
\* Mutant: any comment will do.
FoundFirst == IF comments = <<>> THEN NoComment ELSE comments[1].id
Found ==
    IF Marked = {} \/ (Len(comments) > PerPage /\ ~workflow.merges) THEN NoComment
    ELSE comments[First(Marked)].id

Listing(j) == At(j, "list")
List(j) ==
    /\ Listing(j)
    /\ Moves(j, "post", [job[j] EXCEPT !.existing = Found])
    /\ overlapped' = (overlapped \/ sent # {} \/ \E k \in Jobs : At(k, "post"))
    /\ UNCHANGED <<workflow, github, paged, touched, unheard>>

\* Mutant: the error is not looked at.
ListFailsPosts(j) ==
    /\ Listing(j)
    /\ Moves(j, "post", [job[j] EXCEPT !.existing = NoComment])
    /\ UNCHANGED <<workflow, github, history>>
ListFails(j) ==
    /\ Listing(j)
    /\ Moves(j, "enforce", [job[j] EXCEPT !.said = "error"])
    /\ UNCHANGED <<workflow, github, history>>

\* What counts is the text of the error: when gh wrote none, its failure is
\* taken for an answer without a marked comment.
ListFailsUnheard(j) ==
    /\ Listing(j)
    /\ Moves(j, "post", [job[j] EXCEPT !.existing = NoComment])
    /\ unheard' = TRUE
    /\ UNCHANGED <<workflow, github, overlapped, paged, touched>>

Request(j) == [job |-> j, id |-> job[j].existing]
Comment(id, by, marker, j) == [id |-> id, by |-> by, marker |-> marker, shows |-> j]
Served(r) == r.id = NoComment \/ \E i \in DOMAIN comments : comments[i].id = r.id

\* PATCH of the comment that was found, or POST.
Serve(r) ==
    IF r.id = NoComment
    THEN /\ comments' = Append(comments, Comment(nextId, "tool", TRUE, r.job))
         /\ nextId' = nextId + 1
         /\ paged' = (paged \/ Len(comments) >= PerPage)
    ELSE /\ comments' = [i \in DOMAIN comments |->
                IF comments[i].id = r.id THEN Comment(r.id, comments[i].by, TRUE, r.job)
                ELSE comments[i]]
         /\ UNCHANGED <<nextId, paged>>

\* Mutant: each comment is said to be an update.
PostSaysUpdated(j) ==
    /\ At(j, "post") /\ Served(Request(j))
    /\ Serve(Request(j))
    /\ Moves(j, "enforce", [job[j] EXCEPT !.said = "updated"])
    /\ UNCHANGED <<workflow, sent, overlapped, touched, unheard>>
Post(j) ==
    /\ At(j, "post") /\ Served(Request(j))
    /\ Serve(Request(j))
    /\ Moves(j, "enforce",
             [job[j] EXCEPT !.said = IF job[j].existing = NoComment THEN "created" ELSE "updated"])
    /\ UNCHANGED <<workflow, sent, overlapped, touched, unheard>>

PostFails(j) ==
    /\ At(j, "post")
    /\ Moves(j, "enforce", [job[j] EXCEPT !.said = "error"])
    /\ UNCHANGED <<workflow, github, history>>

\* subprocess.TimeoutExpired: an error, although the request is out.
PostGivenUp(j) ==
    /\ At(j, "post")
    /\ Moves(j, "enforce", [job[j] EXCEPT !.said = "error"])
    /\ sent' = sent \union {Request(j)}
    /\ UNCHANGED <<workflow, comments, nextId, history>>

Land(r) ==
    /\ sent' = sent \ {r}
    /\ IF Served(r) THEN Serve(r) ELSE UNCHANGED <<comments, nextId, paged>>
    /\ overlapped' = (overlapped \/ \E j \in Jobs : At(j, "post"))
    /\ UNCHANGED <<workflow, job, touched, unheard>>

-----------------------------------------------------------------------------
(* People                                                                  *)
Says(copies) ==
    /\ nextId <= MaxComments
    /\ copies => Marked # {}
    /\ comments' = Append(comments, Comment(nextId, "person", copies, 0))
    /\ nextId' = nextId + 1
    /\ paged' = (paged \/ Len(comments) >= PerPage)
    /\ touched' = (touched \/ copies)
    /\ UNCHANGED <<workflow, job, sent, overlapped, unheard>>

Deletes(i) ==
    /\ comments' = RemoveAt(comments, i)
    /\ touched' = (touched \/ comments[i].by = "tool")
    /\ UNCHANGED <<workflow, job, nextId, sent, overlapped, paged, unheard>>

Next ==
    \/ \E b \in Bundles : Push(b)
    \/ \E j \in Jobs : \/ Gate(j) \/ Artifact(j) \/ Parse(j) \/ Enforce(j)
                       \/ List(j) \/ ListFails(j) \/ ListFailsUnheard(j) \/ Post(j) \/ PostFails(j) \/ PostGivenUp(j)
    \/ \E r \in sent : Land(r)
    \/ \E copies \in BOOLEAN : Says(copies)
    \/ \E i \in DOMAIN comments : Deletes(i)

Spec == Init /\ [][Next]_vars

-----------------------------------------------------------------------------
(* Properties                                                              *)

\* What build_artifact makes of any bundle, its broken files included, is an
\* artifact that validate_artifact accepts; its failed checks are the findings
\* that the page of evidence_bundle lists, if a report could be made.
BuiltIsValid ==
    \A j \in {k \in Jobs : job[k].artifact # "none"} :
        LET a == artifact(j)
        IN  /\ validate_artifact(a) = {}
            /\ {c.about : c \in {d \in ToSet(a.checks.items) : d.status = "fail"}}
                  = IF job[j].artifact = "built"
                    THEN render_markdown(job[j].bundle.loose).findings ELSE {}

\* "a hidden marker line lets CI post-or-update exactly one comment per PR":
\* as long as jobs do not overlap, all comments fit in what is read, nobody
\* touches it, and gh never fails to list them without a word, there
\* is at most one, and there is one when a job said so, even after a request
\* that was given up and served all the same.
OneComment ==
    ~overlapped /\ ~touched /\ ~unheard /\ (paged => workflow.merges) =>
        /\ Cardinality(Marked) <= 1
        /\ (\E j \in Jobs : job[j].said \in {"created", "updated"}) => Marked # {}

\* What a person wrote stays as it is, unless it has the marker: a comment is
\* changed only by a request for a comment that had the marker when it was found.
PeoplesCommentsStay ==
    \A i \in DOMAIN comments : comments[i].by = "person" /\ ~touched => comments[i].shows = 0

\* The artifact approves only what deploy_gate approved.  When the gate was not
\* run with --strict, it says what the comment of the same job says, or less.
SameVerdict ==
    \A j \in {k \in Jobs : job[k].artifact # "none"} :
        LET said == artifact(j).decision.decision
        IN  /\ said = "approve" => job[j].bundle.loose.decision = "approve"
            /\ ~workflow.strict => said \in {build_comment(j).verdict, "needs_human"}

\* The one comment is the workflow's, and all others are left alone.
CommentsAreKept == OneComment /\ PeoplesCommentsStay

\* What is published as evidence is valid and says what the gate said.
ArtifactIsTrue == BuiltIsValid /\ SameVerdict
=============================================================================
