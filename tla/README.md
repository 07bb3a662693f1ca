# Formal models of odoo-ai-skills

odoo-ai-skills is a set of Python command-line tools, skills and a CI workflow that
let a coding agent work on an Odoo code base and that decide, from evidence files,
whether a change may be deployed. The tools are small and mostly sequential; what is
hard about them is what happens *between* them and around them: files read twice,
evidence of another commit, processes that share a directory, a working tree that is
changed in place, other code in the same Python process, and kills. Those are what the
modules here are about.

1. Inventory · 2. Modules and their code · 3. Runs · 4. Proofs · 5. Disagreements ·
6. Not modelled · 7. Plan

Paths are relative to `skills/odoo-introspect/scripts/` unless they start with a
directory of the repository.

## 1. Inventory

| component | state | operations | hard behaviour | correct when |
|---|---|---|---|---|
| `deploy_gate.py` | a bundle directory of `*.json`, read twice; environment | load, merge the worst, require, verify, decide, fail-closed policy | several files per name, torn files, stale evidence, policies from three sources | a strict approval means proven evidence of that commit; nothing is hidden; sign-offs only tighten |
| `provenance.py`, `references/ci-trusted-observer.md` | envelopes beside the artifacts; the key | attest, verify; CI checkout, tools, attest | restored or altered envelopes, cancelled jobs, pushes meanwhile, no key | an envelope speaks for one commit's bytes under one name |
| `snapshot_cache.py`, `mcp_server.py` | `<key>.json`, `.<key>.tmp`; a fingerprint per process | lookup, store, stamp, clear; one request at a time | shared temporary names, stat then read, kills, a tree that changes, faults | right request, never merge-eligible unless fresh, never older than the server, always an answer |
| `red_green_replay.py` | HEAD and the working tree | checkout, overlay, test, checkout, test, restore; parse and classify | any git command failing half way, kills, symbolic refs | red and green speak of the trees they name; the repository goes back |
| `mutation_smoke.py` | source files, in place | read, mutate, test, restore, report | edits saved meanwhile, kills, failing runners | at most one mutant on disk; no old edit undone; survivors are exactly the mutants whose tests passed |
| `diff_targets.py` | none | hunks to changed methods and lines | zero-length hunks, decorators, computed fields | the targets are what there is to prove |
| `runtime_path_probe.py` | events, frame identities, caps | call, exception, return, build_report | reused `id(frame)`, caps, namesakes, overrides | bound means entered, and entered means bound |
| `changed_coverage_gate.py` | none | contexts, name match, thresholds | contexts recognised by words, reports without contexts, suffix matches | covered means run, in a context that is none of setUp or import if any are shown, and what tests ran is covered |
| `runtime_observer.py` | trace function, audit counter, counts, a file | install, trace, finalize, evaluate | other code that calls `sys.settrace`, a second install, an audit hook that cannot be added, a file that cannot be written | sealed means watched from the start, if the hook is there |
| `trace_flow.py`, `state_capture.py`, `esg_sample.py`, `fixture_factory.py` | a savepoint of the shell's transaction, the stacks and counts of a trace function | run a method, a series of methods or a recipe, roll back or commit, report | errors under `COMMIT=1`, a method that ends the transaction by itself, an aborted transaction, exceptions caught half way up or caught by nobody, limits of depth and calls | the report says what became of the writes; a recipe that is not interrupted is kept whole; SQL shares add up; edges are calls |
| `skills/odoo-upgrade/scripts/migrate_all.py`, `upgrade_verify.py` | a staging directory with its marker, `verify.json` per module | order, portable set, verify, stage, batch | verdicts of earlier runs, half-written files, kills while staging, cycles, logs cut off | ok means an upgrade that ended well; the order can be built; what is staged is what is portable; a user's directory stays |
| `skills/odoo-upgrade/scripts/db_upgrade.py` | a database, the containers at work on it | seed, restore (up, createdb, load), upgrade, check, full | timeouts that leave a container at work or about to begin, a database that exists already, kills | a pass means this dump, all of it, was upgraded; alone, unless a container had yet to begin |
| `skills/odoo-upgrade/scripts/gen_manifest.py`, `upgrade_brief.py` | none | merge classes, match removed models, brief, grade | several classes per model, greedy matching twice | the brief tells of what is gone; the suggestions are consistent |
| `evidence_schema.py`, `evidence_bundle.py` | the bundle's sign-off and redaction files | build, validate, render a page | files of any shape | what is built is valid and approves only what the gate approved |
| `pr_comment.py`, `.github/actions/odoo-gate` | the comments of a pull request; the job's outputs | gate, artifact, comment, enforce | overlapping jobs, requests given up and served later, a listing that fails without a word, pages, people | one comment, others stay; all say the gate's verdict |
| `native_check.py`, `fit_gap.py`, `claim_verify.py` | the file of learned phrases | load, learn, probe, recall, classify | probes that cannot be evaluated, half-read files, a cut of the candidates | a capability is called there only if the instance shows it |
| `scenario_gen.py`, `scenario_satisfaction.py` | none | required scenarios of a change; satisfied by observations | a file that is missing or of another shape | satisfied means seen |
| `upgrade_check.py` | none | match renames, list risks | a renaming that hides a removal | each loss is blocking, none taken twice |
| `env_diff.py` | none | fingerprint, compare | scans that raise, files without keys | "none" means the same |
| `redaction.py` | none | walk a document, mask, scan | nested models, kept keys, two lists of patterns | a reader outside sees no secret |
| `gate_edit.py`, `hooks/pre_edit_gate.py` | evidence files by name | decide whether an edit may go on | a gate that cannot run, stems shared by models | what goes on is grounded; doing what a block asks lifts it where the command can |
| `odoo-ai`, test quality, introspection, static checkers, other upgrade analysers, renderers, user guide, bench | none | text to text | none beyond their input | — |

How they interact: `diff_targets` writes the list that the probe, the observer, the
coverage gate, the mutation smoke and the gate read; CI runs the proof tools on a
checkout and attests each file; the deployment gate reads the directory; the action
runs it, has `evidence_schema` make an artifact of its report and `pr_comment` publish it. `migrate_all`
and `db_upgrade` read the verdict of `upgrade_verify`, `migrate_all` the grade of `upgrade_brief`. All interaction is through files, except that the
probe and the observer live inside the test process and that MCP servers share the
cache directory. No component waits for another.

PROJECT.json lists every component with its status, and every hazard at its line.

## 2. Modules and their code

Names follow the code: an operator or action that models a function has its name
(`evaluate_integrity`, `finalize`, `classify_replay`), the others are named for the
step of the function they are. `map` in PROJECT.json gives the lines of each. A
definition whose comment starts with "Mutant:" is a plausible bug of the definition
that follows it; no specification uses it.

**GateRules** (pure) is `build_report`: a view of the bundle directory and the settings
of the process in, a report out. A file is reduced to what the rules look at: its
shape (absent, not JSON, JSON of the wrong shape, valid), the count the gate blocks on,
the grade it adds to the risk, the target ids, the observer's seal and digest.
`_find_artifacts` is `Found`, `Usable`, `WorstSlot`; `gate_decision` is `Blocking`,
`Missing`, `Warnings`, `Decision`; the fail-closed section is `FinalDecision`. Equal files stand for
equal bytes, so a sha256 is the file itself and HMAC is ideal: an altered envelope never
verifies.

**EvidenceGate** is the life of a bundle: `Push`, `CiCheckout`, `CiTools`, `CiSign` (with
and without the key), seven kinds of edits by hand, and a gate run in two steps, since
the code loads the artifacts and later reads the same paths again to hash them. The
constant `Frozen` says that nobody writes the directory in between, as in a CI job with
a directory of its own. **MergePromise** is the abstract promise: commits become
proven, and only proven ones are approved. EvidenceGate implements it with
`proven <- Proven`.

**SnapshotCache** has one step per system call of `lookup` (stat, read) and `store`
(open, write, rename), because the processes interleave there; the open file of a
process follows a rename by another. `Serve(s)` is what a server does by itself;
requests, kills, touches, expiry and `clear` come from outside.

**RedGreenReplay** has one step per git command or test run of `run_replay`. A tree is
the commit of its code and the commit of its tests; a failing command leaves either.
`Kill` stops the job anywhere, and the next replay starts in what it left.

**MutationSmoke** has one step per file operation of `run`: two reads of the file (the text the
mutants come from, the bytes that are put back), the write, the test run, the restore.
A file's text is the number of its last saved edit and the set of its mutations.

**ChangeTargets** (pure) is `diff_targets.py` from the hunks on. **ChangedPath** puts
the recorder of `runtime_path_probe.py` and `changed_coverage_gate.py` behind it: calls,
exceptions and returns on a stack whose frame identities are used again, and the two
reports at the end. A line that ran is a triple of file, line and coverage context;
`RealTests` are the contexts that are the execution of a test, `NamedOtherwise` those whose
name has "setup" or "import" in it, and a report may have been made without contexts
(`ShowContexts`), in which case all that ran counts. **RuntimeObserver** uses the same targets: the observer's trace
function among other users of `sys.settrace` and `sys.setprofile`, `finalize` and its
write, and CI's evaluation. `hook` says whether the audit hook is in place, since
`install` goes on without it, and then nothing is counted; `steady` and `stood` record, for the properties,
whether the tracer stood.

**MethodTrace** (pure) has the two trace functions of `trace_flow.py` and
`esg_sample.py`: what a call and a return do to the list of calls, the depth and the
stack, and `compute_self_sql`, defined by the parent relation that its stack computes. **SavepointRun** puts
them around running code: a stack of calls that write, raise, catch, open savepoints of their
own or end the transaction, under one of the four tools. `db`, `tx`, `mark` and
`aborted` are the connection: what is committed, what is not, the tool's savepoint, and
whether a failed statement left the transaction unusable. `Persist`, `Unwind` and `FinallyFails` are
the finally clause. `Interrupt` is what `except Exception` does not catch, at any time of a method or between two steps of a recipe: `fatal` is
set and `error` is not. The variables `nested`, `own`, `wrote` and `blind` record what happened, for the
properties; `wrote` also numbers the writes and `own` lets `EndsTransaction` happen once.

**VerifyVerdict** (pure) is what `upgrade_verify.py` makes of Odoo's output: the lines it keeps, at most
`MAX_TB` tracebacks and `MAX_LOG_ERRORS` errors, which modules were loaded, and the verdict.
**FleetOrder** (pure) is discovery, `topo_order` with a queue that is sorted after each
module, and `portable_set`, whose loop is a set that grows until it does not change.

**FleetMigration** is `migrate_all.py` called again and again on the same directories: a step
for the order, one per module verified, one per file operation of the staging (the check of
the marker, `rmtree`, the new marker, each copy, the list), the batch, and a kill between any
two. `verify[m]` is the file `verify.json` of module m, with the run that wrote it; `odoo[m]`
is what really happened in each upgrade, which only the properties read.

**DbRehearsal** is `db_upgrade.py` over one database: its `content` is the set of calls whose
dump or seed went in. When time runs out the docker client is gone and the container goes on:
`left` is the set of steps still at work, each with the call it is of and whether it has
written anything by now, since pip, the start of the container or of Odoo may come first;
`LeftWrites` and `LeftEnds` are what they do. `early` records that a call began while one of them had written nothing yet.
**UpgradeTools** is both, one of which is at work (`tool`); the other keeps one of its initial
states. `Db == INSTANCE DbRehearsal WITH step <- phase`, since both programs have a step.

**EvidenceSchema** (pure) is `evidence_schema.py` and `evidence_bundle.py`: JSON values are
records with a `shape`; `validate_artifact` gives the set of errors, `build_artifact` makes an
artifact of a report and of sign-off and redaction files in any state. **PublishDecision** is
the action and `pr_comment.py` around it: jobs that go through the action's five steps next to
each other, the comments of the pull request, and requests that `gh` gave up on and that may
be served later. `ListFails` stops a job, `ListFailsUnheard` (gh fails and writes no reason) does not. People write, quote the marker and delete.

**Answers** is the commands that read something, decide and print, without state of
their own. A behaviour is one question put to one command, and its answer; `Questions` has, for each
command, what it may be asked. Its assumptions say what a question can be: `IsTree`, `IsCard`, `IsSound` and
the like are the shapes that JSON and the parsers give. JSON values and probes nest; `nesting` and `nested` say how deep each is, and
`Values` and `Probes` hold with each what it is made of, so that the code that walks them is a recursive function. The modules it instantiates are pure, one per command or
family: **CapabilityClaims** (probes with three outcomes, nested in any and all; the corpus
and what is learned; recall, cut at `TOP_K`, where a card speaks of a requirement if they have a word in common or the
text of an intent is part of its text, which the constant `TextWithin` says; the rungs and the verdicts), **BreakingChanges**
(two source trees, their manifest, the findings for a module, the effort), **Scenarios**,
**UpgradeRisks** (fields matched one to one, every risk, the script), **EnvDrift**,
**Redaction** (a text is one of the kinds that the masks and the scanner tell apart),
**EditGate** (the hook, the gate, and what `odoo-ai all`, the command that a block asks for, writes where the gate reads), and EvidenceSchema again. The similarity of two names, the sensitive models
and the sensitive keys are constants.

The MC modules give the constants of small instances. Several properties of one component
are checked as one conjunction of named parts (`StagingIsBuildable`,
`CapabilitiesAreGrounded`, ...); each part has its comment and its mutant.

## 3. Runs

| run | instance | shows |
|---|---|---|
| `evidence_replay` | 2 commits, 2 CI jobs, clean or deviating output, 1 edit (restore, drop, alter), key or not | a strict approval is of a commit that CI's tools proved; MergePromise is implemented |
| `evidence_edits` | 1 commit, 1 job, 2 edits of any kind, both modes, pinned or not | no approval hides a file; sign-offs and policies never loosen |
| `cache_sharing` | 3 servers, 2 requests | answers match their requests however stores overlap |
| `cache_tree` | 2 servers, 1 request, 1 touch, with fairness | merge-eligible is fresh, warm is not older than the server, every request ends |
| `replay_trees` | 3 commits, 2 tests, 2 replays, any failure, kills | reports speak of the trees they name; the repository goes back |
| `mutation_in_place` | 4 targets, 2 files, 2 edits, 1 kill, 2 runs | at most one mutant, survivors are found, old edits survive |
| `path_and_coverage` | two examples, each with diffs of its own: 3 methods in 2 files of one name, 2 diffs, 3 calls, 2 frame identities, cap 1; and a method of 10 lines and a critical one, 2 diffs with a deletion each, 2 calls in 4 contexts (test, setUp, tearDown, none), reports with and without contexts | bound means entered, and the converse; exceptions are of their calls; the new lines are asked for; covered means run in a context that counts; tested is covered |
| `observer_seal` | 2 targets, 4 functions, 2 installs with or without the hook, 2 uses of settrace/setprofile | sealed means called, and watched all along if the hook is there |
| `savepoint_runs` | 4 tools, `COMMIT=1` or not, 2 models, 3 calls, 2 writes, recipes of 2 steps, 2 seeds, interrupts, depth limits 1 and 2, call limits 3 | what is reported is what is in the database; recipes not interrupted are whole; SQL shares add up; edges are calls |
| `upgrade` | every dependency graph of 3 modules with an outside one, 2 calls of `migrate_all` with staging, verification and batch, killed anywhere; 3 calls of `db_upgrade`, plain or custom dump, any step | the order can be built, staging holds what is portable, ok is earned; a full rehearsal upgraded this dump, and was alone unless it was early |
| `publish_decision` | 2 jobs, 2 bundles, 2 comments on a page, lost and late requests, people | the artifact is valid and says the gate's verdict; comments do not stack, others stay |
| `answers` | 10 commands, some 223 000 questions | what each answer promises is so of what the question holds |

Why the bounds are enough for the case to happen. *Two* commits and jobs let evidence of one
stand in for the other; two file positions per name give every ambiguity, since
`WorstSlot` compares pairs and any third file only makes the same warning. Three servers let one
process hold a file that a second has renamed while a third reads it. Two replays let
the second start in what a kill of the first left. Two runs and one kill let a mutant left behind
meet the next run, and a target whose file is that of another follows it in the list.
In `upgrade` three modules give every cycle with something built on it and something apart;
two calls let the second meet what a kill of the first left and read a verdict that is not its
own; `MAX_LOG_ERRORS` of 1 lets an error that was cut off be the one that decides; three
rehearsals let the third meet the container of the first. In `path_and_coverage` `Suite`
names the calls that each diff is considered with, and ten lines are the
fewest of which nine are enough, and two calls let a test run what a setUp did not. In `publish_decision` two jobs
overlap in every order, and three comments do not fit a page of two. In `answers` probes are
nested twice, with every outcome in every place, and lists have entries before and after the
one that is broken.
Three calls with two frame identities and a cap of one give a reused identity whose
first owner was recorded and whose second was not. In `savepoint_runs` three calls and a depth limit of one give a refused call below a counted one and siblings after it; two recipe steps let the second fail; two seeds let the second run in what the first left. One settrace away and one back are the two toggles the
observer must see. Every run finishes; `CHECK_DEADLOCK FALSE` is in the cfgs because
the bounds on jobs, edits, calls and runs end every behaviour, and because a tool that has answered stops.

Symmetry is used where the constants are interchangeable (commits in `evidence_replay`, servers
and requests in `cache_sharing`, models in `savepoint_runs`) and never with a temporal property that needs fairness.

**Fairness.** Only `cache_tree` assumes any: weak fairness of `Serve(s)` for each server. `serve()`
reads a line, handles it to the end and then reads the next; the handlers run odoo-bin under
a timeout; so a server at work that is not killed keeps taking steps. Nothing is
assumed of requests, kills, touches or other processes, and `Responds` counts a kill as an end.
It would fail if a step of the cache waited for another process.

Each property, and each part of a conjunction, has a mutant of the code's definition that
violates it.

## 4. Proofs

All are proved for every value of the constants under the modules' named assumptions,
from an inductive invariant that TLC checked first.

*EvidenceGate_proofs.* `TypeCorrect`; `ApprovalsAreProven`, `ApprovalsSeeEveryFile`,
`GateKeepsPromise` (the refinement), `SignoffsNeverLoosen`. The invariant: every envelope that verifies is the attestation of a
job that CI signed (`EnvelopesHonest`), signed jobs ran their tools (`AttestedProduced`), and under `Frozen`
the loaded artifacts are what the directory holds (`LoadedIsThere`). An approval then has, for each
required name, exactly one file (no warnings), clean (no blocking), covered by an envelope of the approved
head; that envelope is a job's, so the job produced those bytes on that commit. Without `Frozen`
the theorem does not hold: see section 5.

*Observations_proofs.* What is said of code that was looked at some time before: the path report, the observer, and the shared cache.
Its three specifications are in one module, so the cache's names begin with `Cache` where the others have the same (`CacheSpec`, `CacheTypeOK`, ...).

Of the cache, `CacheTypeCorrect`, `AnswersMatch`, `EligibleAnswersAreFresh`,
`AnswersNeverOlder`, for any number of servers. The invariant: whatever a path holds, finished or half written, fits
its key (`FilesFit`), so a file renamed under the hands of another process still answers the same request; a process that stores
holds the result of its own request.

Of the path report, `TypeCorrect`, `PathReportsAreTrue`, `CoverageIsCounted`; of the observer, `SealIsEarned` and
`ObserverTypeCorrect`. `PathInv` says what the tracer's lists have to do with the calls that were made: each event is of a call
(`EventsAreCalls`), a call that was traced is kept unless the cap was reached (`CallsAreKept`, `EventsAreFew`), the frame an
identity leads to is the one that has it now (`FramesPointBack`), so an exception is noted at its own call
(`ExceptionsAreTheirOwn`), and a line that was hit is a line of a function that was entered (`LinesRun`). From these the report
is correct when it is made (`ReportStands`). The proof found two faults of the model that no run had met: `Resolvable` left out
that the key of a method may be taken by another definition on its line, and `map_lines_to_targets` without parentheses was
read in two ways. `CoverageIsCounted` rests on no assumption about contexts: those that count are those the code's words leave, or all if none are shown
(section 5 has what the comments say instead). For the observer: if the audit hook is in place and no report was made, an audit count of zero means the
tracer stood since its installation, and finalize's own `settrace(None)` raises the count for good (`ObserverInv`). `SealIsEarned` says
nothing of how the tracer stood without the hook.

*WorkingTree_proofs.* The two tools that change the working tree, each theorem about the specification of one. Of the replay:
`ReplayTypeCorrect` and `ReportsAreHonest` with commits as `--base` and `--head`
(`Shas`; a symbolic ref is section 5's), from `TreeIs`: the step says what is in the tree.
`RepositoryGoesBack` needs no such assumption. Of mutation smoke: `TypeCorrect`, `FilesArePutBack`, `EarlierEditsSurvive`, `SurvivorsAreReported`.
The invariant bounds the mutations
in the two copies that `run` holds by the kills so far, and orders the edits of disk, copy and backup. For the report: no mutant is tried twice
(`AheadIsUntried`), so every result but that of the mutant whose file is about to be put back is the outcome of its tests.

*SavepointRun_proofs.* `ReportsAreTrue`: a method that ended the transaction took the
tool's savepoint with it, so the finally clause raises before anything is reported (`OwnEndIsFatal`); without such a method
only `Persist` commits (`KeptByPersist`). Of a recipe that is interrupted it says nothing, but that the tool ends without a report. `TypeCorrect` and `TracesAreTrue` rest on `TraceInv`. For the SQL counts (`FlowInv`): of the calls
in the trace one is open at each depth; a call that is over has spent what those below it did or more; and an open one has
spent by now, or by the call below it that is open, at least what those below it that are over have. So no difference
is negative, and the shares of all calls telescope to the outermost (`FlowAddsUp`, over `SharesAddUp`). The frames
that are open have their entries in order (`InOrder`), so a return closes the innermost one. For the
edges (`StackOK`, `EdgesOK`): while no limit was passed, the tool's stack is the subsequence of open frames that are addon code, so its last
entry is the caller. A sum is the community module's fold; the lemmas unfold it as a loop over some order of the set and show that the order
does not matter (`SumIsTotal`), by set induction.

*PublishDecision_proofs.* `TypeCorrect`, `OneCommentIsKept`, `ArtifactsAreTrue`, for any number of jobs and comments. The invariant (`IInv`) is
that ids grow in the order of creation and an artifact is of the report of its job's gate (`Ordered`), that more than one page of comments is noticed (`PagesCounted`),
and, while jobs do not overlap, nobody touches the tool's comments and gh never fails to list without a word, that at most one change is on its way and what it was decided on is still so:
the comment that was found is the one that is marked, or none is (`Kept`). It assumes of bundles that a report lists
texts (`BundleAssumption`).

*UpgradeTools_proofs.* For any fleet, outputs and kills: `OksAreEarned`. `OkIsSound` is about one output: what
starts with ok has no traceback at all and no CRITICAL line among the first `MAX_LOG_ERRORS`. The invariant carries
it through the files: what `verify.json` says was so of the run that wrote it (`FilesAreEarned`), what `fleet.json` says was so
of that run or an earlier one (`FleetIsEarned`). It assumes that outputs are sequences of lines (`OutputAssumption`), and that
a directory holds finitely many modules (`ModuleAssumption`). `UsersAreSafe`: a directory that
is the user's is refused before anything is removed. `StagingsAreBuildable`: for every dependency graph, the order that `topo_order` returns has each module once,
after those it depends on, those on a cycle or above one last; no portable module is built on an excluded one, however far down; and what is staged is
what is portable. `topo_order`, the exclusion of dependents and, for reference, Warshall's paths are recursive functions over rounds or sets of modules; they are unfolded as
loops, and induction over the set of rounds for which the loop's invariant holds (from the well-founded order of Nat) proves the
result. `RehearsalsAreReal`, for any calls of `db_upgrade`: what a container left behind has written is in the database
(`LeftHasWritten`), and before the load of a call that did not begin early all have written (`BeforeLoad`); a custom-format load passes only on an empty database, so nobody else was
at work on it (`AfterLoad`). That the dump is whole and went through the upgrade holds of early calls too. `ToolsTypeCorrect` joins the types of both.

*Answers_proofs.* A command answers once, so every answer is the function of its question (`Given`); the rest is about these
functions, for every question under the assumptions of Answers (finitely many fields with numbers for names, records with their
keys, a list of classes, one common field at least for a match). `BriefsTellOfLosses`: a model's entry has the fields and
methods of all its classes, in whatever order they were merged (`EntriesCollect`), so a loss that the brief does not warn of, or that
the grade does not count, is none; of the pairs that compete, whatever was passed over has a model in a pair that was ahead of it
(`Claimed`), which is the invariant of the loop over the sorted pairs. `LossesAreTold`: the rows that `detect_renames` has made after each set of
fields are of these fields, of like to like, and no two share an end (`Sound`); from this the risks and the script have each column once.
`ErrorsAreFound`, of any artifact whatever: for every part the validator's errors are none exactly if the part is sound, which is defined
from the fields alone (`IsSound`), so nothing that it finds in one part keeps it from finding another.
`OksAreSeen` goes through each required scenario, `DriftIsTold` shows the difference symmetric and empty only for equal fingerprints, and
`GatesAreGrounded` that what a block asks for is what it lacks: after the commands, the evidence has what they wrote (`WrittenIs`), which is
enough exactly if the gate reads there and each missing stem is that of some model in the registry (`BlockedCanGoOn`). The loops are the community modules' folds over sets: `LoopExists` gives
the function that such a fold chooses, `HasFirst` that the greatest, the best or the hindmost of finitely many exists, and `SubsetInduction` carries the
loop's invariant to the whole set.

*NestedAnswers_proofs.* The answers that walk nested data. A recursive function over a set of values is what its equation says only if
there is such a function, which for a depth that is not bounded needs an induction. It is built in stages: by the set of depths for which a function
on the values of at most that depth exists and any two agree where both are defined; then `redact`, `eval_probe` and `meaning` satisfy their equations.
The assumptions are what JSON is: a part nests less deep than the whole (`RedactAssumption`, `ClaimAssumption`), lists are
sequences, sets of words are finite. `RedactionsAreClean`: what a reader sees of an answer is the answer of the worker for something in the question, with
`force` on wherever a record around it was of a sensitive model; so a text that is seen was masked, or
was kept for being no text to mask. `CapabilitiesAreShown`: of any probe, `eval_probe` passes exactly if one of its ways is there as a whole (a choice of one way from each part for
`all`), and its evidence is what its leaves say. A list that the code sorts or filters is the increasing enumeration of
a finite set of places (`InOrder`, `Kept`), which exists, has each place once and keeps the order. `LearningKeeps` is by induction over the
entries: at each, every card of the corpus keeps its place, its id and a prefix of its intents, and what was learned up to there is at the last card of the id.
For `RungsAreGrounded`, with no more cards that speak than `TOP_K` the recall has all of them: a score is above 0 exactly if the card speaks. A claim that is
contradicted is of something that is not there; that it is always contradicted then is said of probes without malformed parts.

The attempt to prove these two changed the properties and the model where they were wrong. The corpus may hold one card
twice: `ConfirmedIsThere` now says that places of the answer go to different places of the corpus, and `RungsAreGrounded` counts places, not cards.
`merge_learned` indexes cards by id, so of two cards of one id the last gets what is learned (`Learn`). `RedactedIsClean` says more than it did: of the record of a sensitive
model no text is seen, however deep, and of sensitive keys only placeholders.

Only model-checked: the liveness property `Responds` (the prover has no liveness under fairness). Every other property of a run is a theorem.
Where a fact is about all runs of a loop, the induction theorems of the library cannot be used as they
take an operator; the proofs here use a set instead, and the least counterexample to its being all of Nat.

## 5. Disagreements between the code and what is said of it

Where a sentence of the repository does not hold of its code, the property says what does hold and its comment
names the exception.

*Promises that do not hold as they are written.*

- A line that only a tearDown ran counts as covered by a test: `_NON_TEST_MARKERS` has "setup" and "import" (`changed_coverage_gate.py:43`),
  the comment above it says setup/teardown fixtures.
- Without contexts in coverage.py's report every executed line counts (`changed_coverage_gate.py:88-89`, which `tests/test_changed_coverage_gate.py:115-121`
  asserts), those of a setUp or of the import too, which the module's first page (`:13-15`) says do not.
- A `sys.addaudithook` that raises is swallowed (`runtime_observer.py:237-243`): the counter stays 0, and a tracer that was taken away and
  put back is not noticed. "Never silently sealed" is what `:22-25` says; the properties ask for the hook.
- A KeyboardInterrupt or SystemExit in a recipe under `COMMIT=1` is not caught (`fixture_factory.py:558`), `error` stays None, and the
  finally clause commits a part of the recipe, against the comment at `:561-562`.
- `upgrade_verify.py` exits with 0 or 1 by its verdict (`:267`), not "with the Odoo process return code" (`:15-16`). `migrate_all` relies on
  the former: `BatchOkMeansLoaded`.
- That gh failed to list the comments is told by the text it wrote to stderr (`pr_comment.py:187, 193-195, 222`): without one, a second comment is
  posted. `OneComment` asks that this never happens.
- A part of a probe that is no object has no status (`native_check.py:197-198`), and the claim is called contradicted, which
  `claim_verify.py:117-118` and `:175-176` deny.
- What a block of the edit gate asks for may not lift it: `odoo-ai all` writes to `/tmp/odoo-ai` (`odoo-ai:695`) while the gate reads `ODOO_AI_OUT`
  (`hooks/pre_edit_gate.py:70-71`), and for a model that is not in the registry all three steps raise and nothing is written (`odoo-ai:218-221`).
  `BlockedEditsCanGoOn` says exactly when it does.

*Replay, mutation smoke, observer.*

- `same_identity` (`red_green_replay.py:175`) can never hold: `:150-151` says that the failing ids must be a subset
  of "the ids head actually ran", but ids are collected from FAIL and ERROR lines only (`:108-110`), and a passing run has none. The unit test passes a result made by hand.
- A test runner that cannot start "kills" every mutant (`mutation_smoke.py:393`), though `:314` says "tests failed".
- `--evaluate` looks for its keys one level above where `finalize` writes them (`runtime_observer.py:501`), so CI
  cannot verify what `references/ci-trusted-observer.md:44` tells it to.

*Gate, traces, cache, coverage.*

- `_worst_artifact` (`deploy_gate.py:749`) compares three artifact names only; with two files of any other name the first is
  judged, though `:627-628` says that a clean file cannot hide a blocking one. The warning about the two files still prevents an approval
  (`ApproveSeesEveryFile`), but the decision is needs_human where the comment promises block.
- `_trace_skeleton` "never raises out" (`esg_sample.py:256`), but when the method ended the transaction the rollback to the savepoint
  raises in its finally clause (`:316`), and no graph is printed.
- Past a limit, `_trace_skeleton` puts a frame on its stack and does not ask for its return (`:293`): calls that
  follow get it as their caller. `EdgesAreCalls` holds up to that point.
- A search that fails in `_first_record` (`esg_sample.py:239`) leaves the transaction aborted, so all later seeds are skipped for "no record to trace".
- With `COMMIT=1`, `trace_flow`, `state_capture` and `esg_sample` keep what a failed method had written
  (`trace_flow.py:247`); `fixture_factory` alone does not (`:563`), but its `_warnings` (`:534-536`) then say that the records were PERSISTED. `exception_origin` may be of an exception that was caught (`trace_flow.py:209`).
- `trace_flow.py:251` says that frames unwound by an exception get no return event; they do.
- The artifacts are read at `deploy_gate.py:1038` and again at `:830` to be hashed; a writer in between
  has one text judged and another verified. This is why the proofs assume `Frozen`.
- The cache fingerprint dates from the server's start (`mcp_server.py:432`); `docs/mcp-context-server.md:132-133` says a code change
  invalidates. `NeverOlderThanServer` is what does hold.
- `"0 tests"` (`red_green_replay.py:86`) is found in "Ran 10 tests" too; `--head HEAD` is resolved again
  after the checkout of the base (`:351`).
- A kill between write and restore leaves a mutant that the next run takes for the original (`mutation_smoke.py:345`).
- A decorated method is never bound: its code object starts at the decorator, before the span of the target (`runtime_path_probe.py:95`). An
  override in a file of the same name hides the method it overrides (`:324`).
- A hunk that only deletes gives no target (`diff_targets.py:81`); a computed field's own line is not run by its compute method (`:194`), only
  at import, so it is covered in reports without contexts alone.
- A test whose context contains "import" or "setup" covers nothing (`changed_coverage_gate.py:42`).
- `finalize` asks whether it can write its file (`runtime_observer.py:377`), calls the run tampered if so, and then
  writes (`:405`): a sealed report is one it could not write.
- The warning that `gate_policy.json` cannot be parsed is appended after the decision was made (`deploy_gate.py:1138`): every
  other warning turns an approval into needs_human, this one does not.

*Upgrades.*

- A verdict in `fleet.json` may be an earlier run's: when `upgrade_verify.py` stops before it writes, `migrate_all.py:220-222`
  reads what is there. `VerdictsWereEarned` says that some run up to this one earned it.
- After `MAX_LOG_ERRORS` errors a CRITICAL line is not kept, and the verdict is "ok_with_log_errors". After a timeout the
  output is dropped, and the verdict is of modules that were not loaded.
- `main` of `migrate_all` returns 0 without `--verify-batch`, whatever the verdicts are.
- A kill in the middle of `rmtree` may leave the tool's own directory without its marker; the next run takes it for a user's and refuses.
- A step that is given up may not have come to the database yet (`db_upgrade.py:99-104, 136-139`): a seed that is still starting
  writes into the database of a full rehearsal that begins later. `FullMeansRehearsed` and `FullRunsAlone` except such calls (`early`).
- `createdb` may fail "because it may already exist — loader will tell" (`db_upgrade.py:192`): `psql` with a plain
  dump does not, so `FullMeansRehearsed` is about custom dumps.
- `gen_manifest.py` calls a model removed when only extensions of it are gone. A merged candidate can be given to one removed model only.
- A keyword `comodel_name=` is not seen by the brief.

*Publishing.*

- Pages that `gh api --paginate` writes one after the other are merged into a list within a list
  (`pr_comment.py:202`), in which no comment is found: with more than one page each job makes a comment of its own (`OneComment` says when).
- The fail-closed severities of the action and of the comment never apply: `blocking_findings` are texts, and `findings_detail` is not read.
- `build_artifact` and `evidence_bundle.py` build a report without `--strict`, so the artifact may say less than the job.
  It calls every check "cold". A decision that is none of the known ones passes the action's last step.

*Answers.*

- `fit_gap.py` treats a probe that could not be evaluated as one that is absent; the comment of `dispatch_leaf`
  (`native_check.py:247-249`) says callers must not. `method_exists` is `hasattr`: a field passes. A probe of an empty `all`
  confirms with no evidence. Candidates are cut at `TOP_K` before they are probed.
- A learned entry that is no object ends `merge_learned` half way.
- `account.move.line` is high but gets no locked-period scenario; uid 0 counts as a user who is not the superuser;
  a record-rule scenario is satisfied without an access error.
- The lists of `redaction.py` for masking and for scanning are said to be in lock-step; a path with a slash is
  masked and not scanned, a padded lower-case word scanned and not masked. Keys that start with `_` are kept in sensitive records.
- `upgrade_check.py` says nothing of a stored field that is no longer stored, nor of a field there was that becomes required;
  "high" is also said of the last candidate left after others were taken.
- Two fingerprints whose module scan failed are read as equal.
- The edit gate asks for no evidence of a model that the edit itself introduces, in a file that is not there yet; evidence of any age
  counts, and models whose names differ in dots only share it.

## 6. Not modelled

The components of section 1 without a module are in PROJECT.json with the reason. In short:
test quality, the static checkers and the renderers are patterns over text, whose detail is
all there is; introspection reads Odoo's registry, which is not in this repository; the
command line runs one script per command, and its learned-mappings file is modelled from its
reader (two commands that learn at once may lose a phrase: no model has both writers); JSON-RPC
parsing, argument validation and logging keep no state. Of the modelled components, PROJECT.json
says what is left out. A text is of one kind in Redaction: two texts that run together without a
separator, as a card number directly before an access key, are no kind of it, and what is masked of them is not claimed.
`Pairs` of BreakingChanges compares the score that is reported, rounded to a thousandth, where
`gen_manifest.py:210` compares it unrounded; the two differ for models of some 400 fields. Timeouts that the code lacks (the test runs of the replay and of the
mutation smoke) are a hang that no property could forbid. Threads other than the one that
installs the tracer are not traced by the code and not in the model.

## 7. Plan

Every safety property of the runs is proved. What could follow:

1. The components of section 6 that keep state when there is more of it: two commands that learn at once.
2. A finer abstraction of the texts that `redaction.py` treats alike, for values that are secrets by their surroundings.
3. Whole files in place of the hunks that `diff_targets.py` starts from.
