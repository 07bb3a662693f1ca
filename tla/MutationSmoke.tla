---------------------------- MODULE MutationSmoke ----------------------------
(***************************************************************************)
(* mutation_smoke.py: for each changed method, flip one operator or drop   *)
(* one raise on its changed lines, IN PLACE in the source file, run the    *)
(* tests that cover it, put the file back, and report which of the mutants *)
(* the tests did not notice.                                               *)
(*                                                                         *)
(* Meanwhile somebody may save another edit of the file, and the run may   *)
(* be killed between any two steps.  A file's text is the number of the    *)
(* last saved edit and the set of places where it is mutated.              *)
(***************************************************************************)
EXTENDS Naturals, Sequences, FiniteSets

CONSTANTS
    File,           \* source files
    Site,           \* places on changed lines that a mutation operator fits
    Removal,        \* those where the operator removes a raise
    Unsafe,         \* those on a line with super( or sudo(: never mutated
    Targets,        \* the change targets, in the order of diff_targets
    FileOf,         \* the file of each target
    SitesOf,        \* the sites of each target, in the order of ast.walk
    Gone,           \* targets whose file does not exist
    Unparseable,    \* edits after which a file has a syntax error
    MaxMutants,     \* MAX_MUTANTS_PER_TARGET
    MaxEdits, MaxKills, MaxRuns     \* bounds

Target == {Targets[i] : i \in 1..Len(Targets)}

ASSUME TargetsAssumption ==
    /\ Targets \in Seq(Target) /\ Site # {}
    /\ \A i, j \in DOMAIN Targets : Targets[i] = Targets[j] => i = j
    /\ FileOf \in [Target -> File] /\ SitesOf \in [Target -> Seq(Site)]
    /\ Removal \subseteq Site /\ Unsafe \subseteq Site /\ Gone \subseteq Target

ASSUME MutationBounds ==
    /\ MaxMutants \in Nat /\ MaxEdits \in Nat /\ MaxKills \in Nat /\ MaxRuns \in Nat
    /\ Unparseable \subseteq Nat

Content == [edit : 0..MaxEdits, flips : SUBSET Site]

Status == {"killed", "survived", "skipped", "none"}

VARIABLES
    disk,       \* the files
    step,       \* where run is
    todo,       \* the targets still to do
    source,     \* what read_text returned for this target
    original,   \* original_bytes
    queue,      \* the sites of this target's mutants still to do
    site,       \* the one of the mutant now being tried
    outcome,    \* of the last test run
    results,    \* the status of every mutant, "none" where there is none
    decision,   \* of the printed report, "none" before there is one
    tested,     \* history: <<target, site, content on disk, outcome>>
    edits, kills, runs      \* bound counters

run_vars == <<step, todo, source, original, queue, site, outcome, results, decision,
              tested>>
vars == <<disk, run_vars, edits, kills, runs>>

-----------------------------------------------------------------------------
(* The mutants of a text.                                                  *)

\* Flipping twice gives the text back; a raise can be removed only once.
mutated(text, s) ==
    [text EXCEPT !.flips = IF s \in text.flips THEN @ \ {s} ELSE @ \union {s}]

generate_mutants(text, t) ==
    {i \in DOMAIN SitesOf[t] :
        LET s == SitesOf[t][i]
        IN  /\ text.edit \notin Unparseable /\ s \notin Unsafe
            /\ ~(s \in Removal /\ s \in text.flips)}

cap_mutants(mutants) == {i \in mutants : Cardinality({j \in mutants : j < i}) < MaxMutants}

Mutants(text, t) ==
    {SitesOf[t][i] : i \in cap_mutants(generate_mutants(text, t))}

build_report(res) ==
    IF \E t \in Target, s \in Site : res[t][s] = "survived" THEN "block" ELSE "pass"

NoResults == [t \in Target |-> [s \in Site |-> "none"]]

-----------------------------------------------------------------------------

Now == Head(todo)
Outcome == {"none", "passed", "failed, ids", "failed, no ids", "no runner", "raised"}

TypeOK ==
    /\ disk \in [File -> Content]
    /\ step \in {"idle", "next", "read", "write", "test", "restore", "reported", "aborted"}
    /\ todo \in Seq(Target)
    /\ source \in Content /\ original \in Content
    /\ queue \subseteq Site /\ site \in Site
    /\ outcome \in Outcome
    /\ results \in [Target -> [Site -> Status]]
    /\ decision \in {"none", "pass", "block"}
    /\ step \in {"read", "write", "test", "restore"} => todo # <<>>
    /\ edits \in 0..MaxEdits /\ kills \in 0..MaxKills /\ runs \in 0..MaxRuns

Clean == [edit |-> 0, flips |-> {}]
AnySite == CHOOSE s \in Site : TRUE

Init ==
    /\ disk = [f \in File |-> Clean]
    /\ step = "idle" /\ todo = <<>>
    /\ source = Clean /\ original = Clean /\ queue = {} /\ site = AnySite /\ outcome = "none"
    /\ results = NoResults /\ decision = "none" /\ tested = {}
    /\ edits = 0 /\ kills = 0 /\ runs = 0

\* The locals of a run are gone when it is over.
Forget ==
    /\ todo' = <<>> /\ queue' = {} /\ site' = AnySite /\ outcome' = "none"
    /\ source' = Clean /\ original' = Clean

\* An exception, or a kill, leaves no results either.
Abort ==
    /\ step' = "aborted" /\ results' = NoResults /\ tested' = {}
    /\ Forget

Idle == step \in {"idle", "reported", "aborted"} /\ runs < MaxRuns

Start ==
    /\ Idle
    /\ step' = "next" /\ todo' = Targets
    /\ results' = NoResults /\ decision' = "none" /\ tested' = {}
    /\ runs' = runs + 1
    /\ UNCHANGED <<disk, source, original, queue, site, outcome, edits, kills>>

\* path.exists() and path.read_text()
ReadText ==
    /\ step = "next" /\ todo # <<>>
    /\ IF Now \in Gone
         THEN todo' = Tail(todo) /\ UNCHANGED <<step, source>>
         ELSE step' = "read" /\ source' = disk[FileOf[Now]] /\ UNCHANGED todo
    /\ UNCHANGED <<disk, original, queue, site, outcome, results, decision, tested,
                   edits, kills, runs>>

\* Mutant: the files are backed up once, when the run begins.
ReadBytesOnce ==
    /\ step = "read"
    /\ original' = IF tested = {} THEN disk[FileOf[Now]] ELSE original
    /\ queue' = Mutants(source, Now)
    /\ step' = "write"
    /\ UNCHANGED <<disk, todo, source, site, outcome, results, decision, tested,
                   edits, kills, runs>>

\* path.read_bytes(), and the mutants of what was read before.
ReadBytes ==
    /\ step = "read"
    /\ original' = disk[FileOf[Now]]
    /\ queue' = Mutants(source, Now)
    /\ step' = "write"
    /\ UNCHANGED <<disk, todo, source, site, outcome, results, decision, tested,
                   edits, kills, runs>>

\* write_text of the next mutant; it may raise before it changed the file.
Write ==
    /\ step = "write" /\ queue # {}
    /\ site' \in queue /\ queue' = queue \ {site'}
    /\ \/ step' = "test" /\ UNCHANGED outcome
          /\ disk' = [disk EXCEPT ![FileOf[Now]] = mutated(source, site')]
       \/ step' = "restore" /\ outcome' = "raised" /\ UNCHANGED disk
    /\ UNCHANGED <<todo, source, original, results, decision, tested, edits, kills, runs>>

NextTarget ==
    /\ step = "write" /\ queue = {}
    /\ step' = "next" /\ todo' = Tail(todo)
    /\ UNCHANGED <<disk, source, original, queue, site, outcome, results, decision,
                   tested, edits, kills, runs>>

\* run_tests_fn: make_odoo_test_runner's, which returns False when odoo-bin
\* cannot be started, or another, which may raise.
RunTests ==
    /\ step = "test"
    /\ outcome' \in Outcome \ {"none"}
    /\ tested' = tested \union {<<Now, site, disk[FileOf[Now]], outcome'>>}
    /\ step' = "restore"
    /\ UNCHANGED <<disk, todo, source, original, queue, site, results, decision,
                   edits, kills, runs>>

\* Mutant: killed is told by the failing ids.
verdict_by_ids(o) == IF o = "passed" \/ o = "failed, no ids" THEN "survived" ELSE "killed"

\* Mutant: a run that could not start has a status of its own.
verdict_of_error(o) ==
    IF o = "no runner" THEN "error" ELSE IF o = "passed" THEN "survived" ELSE "killed"

verdict(o) == IF o = "passed" THEN "survived" ELSE "killed"

\* Mutant: the file is put back after the loop over the mutants, not in it.
RestoreAfterLoop ==
    /\ step = "restore"
    /\ disk' = IF queue # {} /\ outcome # "raised" THEN disk
               ELSE [disk EXCEPT ![FileOf[Now]] = original]
    /\ IF outcome = "raised" THEN Abort
       ELSE /\ results' = [results EXCEPT ![Now][site] = verdict(outcome)]
            /\ step' = "write"
            /\ UNCHANGED <<todo, queue, site, source, original, outcome, tested>>
    /\ UNCHANGED <<decision, edits, kills, runs>>

\* The finally clause, then the classification; an exception goes on up.
Restore ==
    /\ step = "restore"
    /\ disk' = [disk EXCEPT ![FileOf[Now]] = original]
    /\ IF outcome = "raised" THEN Abort
       ELSE /\ results' = [results EXCEPT ![Now][site] = verdict(outcome)]
            /\ step' = "write"
            /\ UNCHANGED <<todo, queue, site, source, original, outcome, tested>>
    /\ UNCHANGED <<decision, edits, kills, runs>>

Report ==
    /\ step = "next" /\ todo = <<>>
    /\ step' = "reported" /\ decision' = build_report(results)
    /\ Forget
    /\ UNCHANGED <<disk, results, tested, edits, kills, runs>>

\* --generate and --results: nothing is executed; a result is laid over the
\* mutant of the same id, and whatever has none is skipped.
Assemble ==
    /\ Idle
    /\ \E given \in [Site -> {"killed", "survived", "none"}] :
          results' = [t \in Target |-> [s \in Site |->
                        IF t \in Gone \/ s \notin Mutants(disk[FileOf[t]], t) THEN "none"
                        ELSE IF given[s] = "none" THEN "skipped" ELSE given[s]]]
    /\ decision' = build_report(results')
    /\ step' = "reported" /\ tested' = {} /\ runs' = runs + 1
    /\ UNCHANGED <<disk, todo, source, original, queue, site, outcome, edits, kills>>

saved(text, n) == [text EXCEPT !.edit = n]

\* Somebody saves the file, whatever is in it.
Edit ==
    /\ edits < MaxEdits /\ edits' = edits + 1
    /\ \E f \in File : disk' = [disk EXCEPT ![f] = saved(disk[f], edits')]
    /\ UNCHANGED <<run_vars, kills, runs>>

\* The run is killed, or the finally clause cannot write the file.
Kill ==
    /\ kills < MaxKills /\ step \in {"next", "read", "write", "test", "restore"}
    /\ Abort /\ kills' = kills + 1
    /\ UNCHANGED <<disk, decision, edits, runs>>

Next ==
    \/ Start \/ ReadText \/ ReadBytes \/ Write \/ NextTarget \/ RunTests \/ Restore \/ Report
    \/ Assemble \/ Edit \/ Kill

Spec == Init /\ [][Next]_vars

-----------------------------------------------------------------------------
(* Properties                                                              *)

Running == step \in {"next", "read", "write", "test", "restore"}
Mutated == step \in {"test", "restore"}

\* run: "a mutated file is never left on disk, even if run_tests_fn raises".
\* A file is mutated in one place more than kills have left it, and that only
\* while the tests of its mutant run.
AtMostOneMutant ==
    \A f \in File : Cardinality(disk[f].flips) <=
        kills + (IF Mutated /\ f = FileOf[Now] THEN 1 ELSE 0)

\* What was saved before a target's turn came is never undone by the run:
\* original_bytes is read again for each target.
OldEditsSurvive ==
    [][\A f \in File : disk'[f].edit < disk[f].edit =>
          Running /\ f = FileOf[Now] /\ step # "next" /\ disk[f].edit > source.edit]_vars

\* A mutant is reported as survived if and only if the tests were run on it
\* and passed, and a finished run blocks if and only if there was one.
SurvivorsAreFound ==
    LET alive == {<<x[1], x[2]>> : x \in {y \in tested : y[4] = "passed"}}
    IN  step = "reported" /\ tested # {} =>
           /\ \A t \in Target, s \in Site :
                 results[t][s] = "survived" <=> <<t, s>> \in alive
           /\ decision = "block" <=> alive # {}

=============================================================================
