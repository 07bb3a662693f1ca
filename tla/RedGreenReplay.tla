-------------------------- MODULE RedGreenReplay --------------------------
(***************************************************************************)
(* red_green_replay.py: check out BASE, lay HEAD's test files over it, run *)
(* the tests, check out HEAD, run them again, go back to where the         *)
(* repository was, and judge from the two texts whether the tests were     *)
(* really red before the change and green after it.                        *)
(*                                                                         *)
(* A working tree is the commit its code and the commit its test files     *)
(* come from.  A failing git command may leave either as it was.  A test   *)
(* report is what its parser tells apart: the failing tests, each with the *)
(* phrases its text contains, the number of tests run and the summary.     *)
(***************************************************************************)
EXTENDS Naturals, FiniteSets

CONSTANTS
    Commit,         \* commits of the repository
    Branch,         \* the branch checked out before the replay
    Tip,            \* the commit of that branch
    BaseSha, HeadSha,     \* the commits before and after the change
    BaseArg, HeadArg,   \* what --base and --head say: a commit or "HEAD"
    Test,           \* identities of tests
    Text,           \* sets of phrases a failure's text may contain
    Counts,         \* how many tests a run may report
    MaxReplays,     \* bound: replays started in this repository
    Additive,       \* --additive was given
    Captured,       \* stands for the tree of an output captured elsewhere
    NoReport        \* stands for no report yet

Phrase == {"todo", "import", "collection", "setup", "0 tests", "assertion",
           "missing symbol"}

ASSUME ReplayAssumption ==
    /\ Test # {} /\ Counts # {} /\ {Tip, BaseSha, HeadSha} \subseteq Commit /\ Branch \notin Commit
    /\ "HEAD" \notin Commit /\ Branch # "HEAD"
    /\ BaseArg \in {BaseSha, "HEAD"} /\ HeadArg \in {HeadSha, "HEAD"}
    /\ Text \subseteq SUBSET Phrase
    /\ Additive \in BOOLEAN

ASSUME BoundsAssumption == Counts \subseteq Nat /\ MaxReplays \in Nat

Ref == Commit \union {Branch}

Tree == [code : Commit, tests : Commit]

ASSUME CapturedAssumption == Captured \notin Tree

Files(c) == [code |-> c, tests |-> c]

\* What a run of the tests printed.  The last failure's text runs on to the
\* end of the report, so it also contains the line that counts the tests.
Failing == [test : Test, text : Text]

Output == [failing : SUBSET Failing, last : Test, ran : Counts,
           summary : {"OK", "FAILED", "none"}]

\* A run that ended prints a summary; one cut short, or that never began,
\* prints what it had come to.
Printable(o) ==
    /\ \A f, g \in o.failing : f.test = g.test => f = g
    /\ o.failing # {} => \E f \in o.failing : f.test = o.last
    /\ o.summary = "OK" => o.failing = {}
    /\ o.summary = "FAILED" => o.failing # {}
    /\ Cardinality(o.failing) <= o.ran

NoOutput == [failing |-> {}, last |-> CHOOSE t \in Test : TRUE,
             ran |-> CHOOSE n \in Counts : TRUE, summary |-> "none"]

VARIABLES
    at,         \* the ref HEAD names
    tree,       \* the files in the working tree
    phase,      \* where run_replay is
    original_ref,   \* what the finally clause goes back to
    base,       \* [tree, output] of the run on the base tree
    head,       \* [tree, output] of the run on the head tree
    report,     \* what is printed
    replays     \* bound counter

replay_vars == <<at, tree, phase, original_ref, base, head, report, replays>>

-----------------------------------------------------------------------------
(* Judging the two outputs.                                                *)

\* Mutant: the summary alone decides.
parse_summary(o) ==
    [failed |-> o.summary = "FAILED", passed |-> o.summary # "FAILED",
     test_ids |-> {f.test : f \in o.failing},
     failure_texts |-> {f.text : f \in o.failing}]

\* "Ran 10 tests" contains "0 tests".
CountLine(o) == IF o.summary # "none" /\ o.ran % 10 = 0 THEN {"0 tests"} ELSE {}

parse_odoo_test_result(o) ==
    [failed |-> o.failing # {} \/ o.summary = "FAILED",
     passed |-> o.failing = {} /\ o.summary = "OK" /\ o.ran # 0,
     test_ids |-> {f.test : f \in o.failing},
     failure_texts |-> {f.text \union (IF f.test = o.last THEN CountLine(o) ELSE {})
                           : f \in o.failing}]

is_legit_red_failure(text) ==
    /\ text \intersect {"todo", "import", "collection", "setup", "0 tests"} = {}
    /\ "assertion" \in text

classify_replay(b, h) ==
    LET base_failed == b.failed
        head_passed == h.passed /\ ~h.failed
        same_identity == b.test_ids # {} /\ b.test_ids \subseteq h.test_ids
        red_is_legit ==
            \E t \in b.failure_texts :
                is_legit_red_failure(t) \/ (Additive /\ "missing symbol" \in t)
    IN  [ok |-> base_failed /\ head_passed /\ same_identity /\ red_is_legit,
         base_failed |-> base_failed, head_passed |-> head_passed,
         same_identity |-> same_identity, red_is_legit |-> red_is_legit]

ReplayReport == [ok : BOOLEAN, base_failed : BOOLEAN, head_passed : BOOLEAN,
                 same_identity : BOOLEAN, red_is_legit : BOOLEAN]

ASSUME NoReportAssumption == NoReport \notin ReplayReport

\* Every way out before both runs are done prints this.
NotOk == [ok |-> FALSE, base_failed |-> FALSE, head_passed |-> FALSE,
          same_identity |-> FALSE, red_is_legit |-> FALSE]

Judged(b, h) == classify_replay(parse_odoo_test_result(b.output),
                                parse_odoo_test_result(h.output))

-----------------------------------------------------------------------------

NoRun == [tree |-> Captured, output |-> NoOutput]

Step == {"start", "base", "overlay", "test base", "head", "test head",
         "restore", "done", "stuck", "no ref", "assembled"}

ReplayTypeOK ==
    /\ at \in Ref
    /\ tree \in Tree
    /\ phase \in Step
    /\ original_ref \in Ref
    /\ base \in [tree : Tree \union {Captured}, output : Output]
    /\ head \in [tree : Tree \union {Captured}, output : Output]
    /\ report \in ReplayReport \union {NoReport}
    /\ replays \in 0..MaxReplays

ReplayInit ==
    /\ at = Branch /\ tree = Files(Tip)
    /\ phase = "start" /\ original_ref = Branch
    /\ base = NoRun /\ head = NoRun
    /\ report = NoReport
    /\ replays = 0

CommitOf(ref) == IF ref = Branch THEN Tip ELSE ref

\* --base and --head are resolved by each git command, where the repository
\* then is.
Resolve(arg) == IF arg = "HEAD" THEN CommitOf(at) ELSE arg

\* git checkout --force: all files, or it fails and leaves some.
Partly(t) == [code : {tree.code, t.code}, tests : {tree.tests, t.tests}]

Checkout(ref, then) ==
    /\ at' = ref /\ tree' = Files(CommitOf(ref))
    /\ phase' = then

CheckoutFails(t, then) ==
    /\ tree' \in Partly(t)
    /\ phase' = then
    /\ UNCHANGED at

\* Mutant: a detached HEAD is recorded by the name "HEAD".
StartAbbreviated ==
    /\ phase = "start" /\ replays < MaxReplays
    /\ original_ref' = IF at = Branch THEN Branch ELSE "HEAD"
    /\ base' = NoRun /\ head' = NoRun
    /\ replays' = replays + 1
    /\ phase' = "base" /\ report' = NoReport
    /\ UNCHANGED <<at, tree>>

StartReplay ==
    /\ phase = "start" /\ replays < MaxReplays
    /\ original_ref' = at
    /\ base' = NoRun /\ head' = NoRun
    /\ replays' = replays + 1
    /\ \/ phase' = "base" /\ report' = NoReport
       \/ phase' = "no ref" /\ report' = NotOk   \* git rev-parse fails
    /\ UNCHANGED <<at, tree>>

\* Mutant: a failed checkout returns outside the try.
CheckoutBaseReturns ==
    /\ phase = "base"
    /\ \/ Checkout(Resolve(BaseArg), "overlay") /\ UNCHANGED report
       \/ CheckoutFails(Files(Resolve(BaseArg)), "done") /\ report' = NotOk
    /\ UNCHANGED <<original_ref, base, head, replays>>

CheckoutBase ==
    /\ phase = "base"
    /\ \/ Checkout(Resolve(BaseArg), "overlay") /\ UNCHANGED report
       \/ CheckoutFails(Files(Resolve(BaseArg)), "restore") /\ report' = NotOk
    /\ UNCHANGED <<original_ref, base, head, replays>>

\* Mutant: a failed overlay is not noticed.
OverlayUnchecked ==
    /\ phase = "overlay"
    /\ tree' \in [code : {tree.code}, tests : {tree.tests, Resolve(HeadArg)}]
    /\ phase' = "test base"
    /\ UNCHANGED <<at, original_ref, base, head, report, replays>>

\* git checkout HEAD -- <test paths>
Overlay ==
    /\ phase = "overlay"
    /\ \/ /\ tree' = [tree EXCEPT !.tests = Resolve(HeadArg)]
          /\ phase' = "test base" /\ UNCHANGED report
       \/ /\ tree' \in [code : {tree.code}, tests : {tree.tests, Resolve(HeadArg)}]
          /\ phase' = "restore" /\ report' = NotOk
    /\ UNCHANGED <<at, original_ref, base, head, replays>>

TestBase ==
    /\ phase = "test base"
    /\ \/ /\ \E o \in {p \in Output : Printable(p)} :
                 base' = [tree |-> tree, output |-> o]
          /\ phase' = "head" /\ UNCHANGED report
       \/ phase' = "restore" /\ report' = NotOk /\ UNCHANGED base
    /\ UNCHANGED <<at, tree, original_ref, head, replays>>

CheckoutHead ==
    /\ phase = "head"
    /\ \/ Checkout(Resolve(HeadArg), "test head") /\ UNCHANGED report
       \/ CheckoutFails(Files(Resolve(HeadArg)), "restore") /\ report' = NotOk
    /\ UNCHANGED <<original_ref, base, head, replays>>

TestHead ==
    /\ phase = "test head"
    /\ \/ \E o \in {p \in Output : Printable(p)} :
              /\ head' = [tree |-> tree, output |-> o]
              /\ report' = Judged(base, head')
       \/ report' = NotOk /\ UNCHANGED head
    /\ phase' = "restore"
    /\ UNCHANGED <<at, tree, original_ref, base, replays>>

\* The finally clause; a failure here is swallowed.
RestoreRef ==
    /\ phase = "restore"
    /\ \/ Checkout(original_ref, "done")
       \/ CheckoutFails(Files(CommitOf(original_ref)), "stuck")
    /\ UNCHANGED <<original_ref, base, head, report, replays>>

\* The job is killed, or this replay is over and the next may begin.
ReplayKilled ==
    /\ phase # "start"
    /\ phase' = "start"
    /\ base' = NoRun /\ head' = NoRun /\ report' = NoReport
    /\ UNCHANGED <<at, tree, original_ref, replays>>

\* Assembly mode: two captured outputs, one of which may be unreadable.
AssembleReplay ==
    /\ phase = "start" /\ replays < MaxReplays
    /\ original_ref' = at
    /\ replays' = replays + 1
    /\ \E b, h \in {p \in Output : Printable(p)} :
          /\ base' = [tree |-> Captured, output |-> b]
          /\ head' = [tree |-> Captured, output |-> h]
          /\ report' \in {NotOk, Judged(base', head')}
    /\ phase' = "assembled"
    /\ UNCHANGED <<at, tree>>

ReplayNext ==
    \/ StartReplay \/ CheckoutBase \/ Overlay \/ TestBase
    \/ CheckoutHead \/ TestHead \/ RestoreRef \/ ReplayKilled \/ AssembleReplay

ReplaySpec == ReplayInit /\ [][ReplayNext]_replay_vars

-----------------------------------------------------------------------------
(* Properties                                                              *)

Printed == report # NoReport

Red(r) == r.output.failing # {} \/ r.output.summary = "FAILED"
Green(r) == r.output.failing = {} /\ r.output.summary = "OK" /\ r.output.ran > 0

\* What is reported as red failed on the code before the change with the
\* tests of the change; what is reported as green passed, with at least one
\* test run, on exactly the changed commit, whichever git commands failed.
ReportsWhatRan ==
    Printed =>
        /\ report.base_failed =>
              Red(base) /\ base.tree \in {Captured, [code |-> BaseSha, tests |-> HeadSha]}
        /\ report.head_passed =>
              Green(head) /\ head.tree \in {Captured, Files(HeadSha)}

\* run_replay: "the repo must never be left detached/on base, even if a step
\* above raised or returned early", as far as the last checkout succeeds.
GoesBack ==
    phase = "done" => at = original_ref /\ tree = Files(CommitOf(original_ref))

=============================================================================
