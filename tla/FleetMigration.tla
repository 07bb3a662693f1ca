-------------------------- MODULE FleetMigration --------------------------
(***************************************************************************)
(* migrate_all.py over a fleet of custom modules: the order and the briefs, *)
(* one upgrade_verify.py per module, the portable set, the staging         *)
(* directory, one upgrade_verify.py over all.  It is run again and again   *)
(* on the same output and staging directories, and may be killed anywhere; *)
(* so may the upgrade_verify.py it started.                                *)
(***************************************************************************)
EXTENDS FleetOrder, VerifyVerdict

CONSTANTS
    Jobs,       \* what it may be called with: roots, installed, exclude and
                \* which of --verify, --stage-dir and --verify-batch (parts)
    SaysOf(_),  \* what Odoo may say when asked for a set of modules
    MaxRuns     \* bound

ASSUME FleetAssumption ==
    /\ MaxRuns \in Nat
    /\ \A j \in Jobs : j.parts \subseteq {"verify", "stage", "batch"}

\* A module is a number (FleetOrder), and a directory holds finitely many.
ASSUME ModuleAssumption ==
    \A j \in Jobs : LET found == DOMAIN discover_modules(j.roots)
                    IN  found \subseteq Nat /\ IsFiniteSet(found)

Modules == UNION {DOMAIN discover_modules(j.roots) : j \in Jobs}

ASSUME OutputAssumption ==
    \A S \in (SUBSET Modules) \ {{}} : \A output \in SaysOf(S) :
        output.lines \in Seq({"Traceback", "ERROR", "CRITICAL"})

Foreign == -1               \* something in the staging directory that is no module
Marker == -2                \* .odoo_ai_stage
List == -3                  \* staged_modules.txt
NoFile == [kind |-> "absent"]
Torn == [kind |-> "torn"]   \* verify.json, killed while it was written
Nowhere == [there |-> FALSE, entries |-> {}]

VARIABLES
    runs, job,  \* how many times it ran, the present call
    step,       \* where main is
    order, ported,  \* topo_order; portable_set, as in install_set.txt
    next,       \* place in the order, or modules still to copy
    verify,     \* verify.json by module
    fleet,      \* the verdicts of this run, as in fleet.json
    rc,         \* exit code
    stage,      \* the staging directory
    own,        \* history: a directory that a user filled before any staging
    odoo        \* history: by module, what Odoo said for each verify.json written

args == <<runs, job>>
files == <<verify, stage>>
vars == <<args, step, order, ported, next, files, fleet, rc, own, odoo>>

depends == discover_modules(job.roots)
Written(r, v) == [kind |-> "result", run |-> r, verdict |-> v]

TypeOK ==
    /\ runs \in 0..MaxRuns /\ job \in Jobs
    /\ step \in {"idle", "order", "verify", "write", "portable", "clean", "rmtree", "mark",
                 "copy", "list", "batch", "over", "died"}
    /\ order \in Seq(Modules) /\ ported \subseteq Modules
    /\ next.at \in Nat /\ next.copy \subseteq ported
    /\ DOMAIN verify = Modules /\ DOMAIN fleet \subseteq Modules
    /\ rc \in -1..2
    /\ stage.there \in BOOLEAN
    /\ stage.entries \subseteq Modules \union {Foreign, Marker, List}
    /\ stage.entries # {} => stage.there

Init ==
    /\ runs = 0 /\ job \in Jobs /\ step = "idle"
    /\ order = <<>> /\ ported = {} /\ next = [at |-> 1, copy |-> {}]
    /\ verify = [m \in Modules |-> NoFile] /\ fleet = <<>> /\ rc = 0
    /\ stage \in {Nowhere, [there |-> TRUE, entries |-> {}],
                  [there |-> TRUE, entries |-> {Foreign}]}
    /\ own = (Foreign \in stage.entries)
    /\ odoo = [m \in Modules |-> <<>>]

\* A call on the same directories, of the same sources.
Start ==
    /\ step \in {"idle", "over", "died"} /\ runs < MaxRuns
    /\ runs' = runs + 1 /\ step' = "order"
    /\ job' \in {j \in Jobs : j.roots = job.roots}
    /\ next' = [at |-> 1, copy |-> {}] /\ fleet' = <<>> /\ ported' = {} /\ rc' = 0
    /\ UNCHANGED <<order, files, own, odoo>>

\* run_fleet up to the briefs; the directories of the modules are there now.
Order ==
    /\ step = "order"
    /\ order' = topo_order(depends)
    /\ step' = IF "verify" \in job.parts THEN "verify" ELSE "write"
    /\ UNCHANGED <<args, ported, next, files, fleet, rc, own, odoo>>

-----------------------------------------------------------------------------
(* upgrade_verify.py for one module, and what migrate_all reads after it.  *)
Verdict(m) ==
    LET file == verify'[m]
    IN  IF file = NoFile THEN "no file" ELSE file.verdict

\* json.loads of a torn file ends migrate_all.
Reads(m) ==
    IF verify'[m] = Torn
    THEN step' = "died" /\ fleet' = fleet /\ next' = next
    ELSE /\ fleet' = [x \in DOMAIN fleet \union {m} |->
                        IF x = m THEN Verdict(m) ELSE fleet[x]]
         /\ next' = [next EXCEPT !.at = @ + 1]
         /\ step' = IF next.at = Len(order) THEN "write" ELSE "verify"

Verifying(m) == step = "verify" /\ next.at <= Len(order) /\ m = order[next.at]

\* Odoo ran, or was given up: the file is written.
VerifyWrites(m) ==
    /\ Verifying(m)
    /\ \E output \in SaysOf({m}) \union {TimedOut} :
         /\ verify' = [verify EXCEPT ![m] = Written(runs, verdict_of(output, {m}))]
         /\ odoo' = [odoo EXCEPT ![m] = Append(@, [run |-> runs, sound |-> Sound(output, {m})])]
    /\ Reads(m)
    /\ UNCHANGED <<args, order, ported, stage, rc, own>>

\* No docker, a database that does not come up, no odoo-bin: nothing is
\* written.  Killed while it writes: half is.
VerifyDies(m) ==
    /\ Verifying(m)
    /\ \E file \in {verify[m], Torn} : verify' = [verify EXCEPT ![m] = file]
    /\ Reads(m)
    /\ UNCHANGED <<args, order, ported, stage, rc, own, odoo>>

\* fleet.json, written at once with all verdicts.
WriteFleet ==
    /\ \/ step = "write"
       \/ step = "verify" /\ order = <<>>
    /\ step' = "portable"
    /\ UNCHANGED <<args, order, ported, next, files, fleet, rc, own, odoo>>

-----------------------------------------------------------------------------
(* The portable set and its directory.                                     *)
After(part) ==
    IF part = "portable" /\ "stage" \in job.parts THEN "clean"
    ELSE IF "batch" \in job.parts THEN "batch" ELSE "over"

Portable ==
    /\ step = "portable"
    /\ ported' = portable_set(depends, job.installed, job.exclude)
    /\ step' = After("portable")
    /\ UNCHANGED <<args, order, next, files, fleet, rc, own, odoo>>

\* Mutant: a directory is cleaned whatever is in it.
CleanAny ==
    /\ step = "clean"
    /\ step' = IF stage.entries # {} THEN "rmtree" ELSE "mark"
    /\ UNCHANGED <<args, order, ported, next, files, fleet, rc, own, odoo>>
\* Mutant: an earlier staging is kept.
CleanNot ==
    /\ step = "clean"
    /\ step' = IF stage.entries = {} \/ Marker \in stage.entries THEN "mark" ELSE "died"
    /\ UNCHANGED <<args, order, ported, next, files, fleet, rc, own, odoo>>
StageClean ==
    /\ step = "clean"
    /\ step' = IF Marker \in stage.entries THEN "rmtree"
               ELSE IF stage.entries # {} THEN "died" ELSE "mark"
    /\ UNCHANGED <<args, order, ported, next, files, fleet, rc, own, odoo>>

\* shutil.rmtree: one entry after the other, in any order, then the directory.
Rmtree ==
    /\ step = "rmtree"
    /\ IF stage.entries = {}
       THEN stage' = Nowhere /\ step' = "mark"
       ELSE /\ \E e \in stage.entries : stage' = [stage EXCEPT !.entries = @ \ {e}]
            /\ step' = step
    /\ UNCHANGED <<args, order, ported, next, verify, fleet, rc, own, odoo>>

StageMark ==
    /\ step = "mark"
    /\ stage' = [there |-> TRUE, entries |-> stage.entries \union {Marker}]
    /\ next' = [next EXCEPT !.copy = ported]
    /\ step' = "copy"
    /\ UNCHANGED <<args, order, ported, verify, fleet, rc, own, odoo>>

StageCopy ==
    /\ step = "copy"
    /\ IF next.copy = {}
       THEN stage' = [stage EXCEPT !.entries = @ \union {List}] /\ next' = next
            /\ step' = After("stage")
       ELSE LET m == Min(next.copy)
            IN  /\ stage' = [stage EXCEPT !.entries = @ \union {m}]
                /\ next' = [next EXCEPT !.copy = @ \ {m}]
                /\ step' = step
    /\ UNCHANGED <<args, order, ported, verify, fleet, rc, own, odoo>>

\* Mutant: the exit code of Odoo is passed on.
BatchRcOfOdoo(output) == output.rc
BatchRc(output) == IF StartsWithOk(verdict_of(output, ported)) THEN 0 ELSE 1

\* upgrade_verify.py --modules-file install_set.txt; its exit code is main's.
\* An empty file is an error, and so is whatever keeps Odoo from running.
Batch ==
    /\ step = "batch"
    /\ \/ /\ ported # {}
          /\ \E output \in SaysOf(ported) \union {TimedOut} :
               /\ rc' = BatchRc(output)
               /\ odoo' = [m \in Modules |->
                    IF m \in ported
                    THEN Append(odoo[m], [run |-> runs, sound |-> Sound(output, ported)])
                    ELSE odoo[m]]
       \/ rc' \in {-1, 1, 2} /\ odoo' = odoo
    /\ step' = "over"
    /\ UNCHANGED <<args, order, ported, next, files, fleet, own>>

-----------------------------------------------------------------------------
Running == step \notin {"idle", "over", "died"}

Kill ==
    /\ Running
    /\ step' = "died"
    /\ UNCHANGED <<args, order, ported, next, files, fleet, rc, own, odoo>>

\* A user puts something of his into the directory while nothing runs.
UserFile ==
    /\ ~Running /\ Foreign \notin stage.entries
    /\ stage' = [there |-> TRUE, entries |-> stage.entries \union {Foreign}]
    /\ own' = (own \/ Marker \notin stage.entries)
    /\ UNCHANGED <<args, step, order, ported, next, verify, fleet, rc, odoo>>

Next ==
    \/ Start \/ Order \/ WriteFleet \/ Portable \/ StageClean \/ Rmtree \/ StageMark
    \/ StageCopy \/ Batch \/ Kill \/ UserFile
    \/ \E m \in Modules : VerifyWrites(m) \/ VerifyDies(m)

Spec == Init /\ [][Next]_vars

-----------------------------------------------------------------------------
(* Properties.                                                             *)
At(m) == Min({i \in DOMAIN order : order[i] = m})

\* The order has every module once, and foundations before what is built on
\* them, but for modules on a cycle or built on one, which come last.
OrderRespectsDepends ==
    step \notin {"idle", "order", "died"} =>
        /\ Range(order) = DOMAIN depends /\ Len(order) = Cardinality(DOMAIN depends)
        /\ \A m \in DOMAIN depends \ Stuck(depends) :
              \A d \in Custom(depends, m) : At(d) < At(m)
        /\ \A m \in Stuck(depends), o \in DOMAIN depends \ Stuck(depends) : At(o) < At(m)

\* Nothing that is worth porting is built, however far down, on an excluded
\* module; and when production has the dependencies of all it has, the modules
\* that a portable one is built on are portable too.
PortableIsClosed ==
    step \in {"clean", "batch", "over"} /\ runs > 0 =>
        /\ \A m \in ported : depends[m] \intersect job.exclude = {}
        /\ \A m \in ported, d \in DOMAIN depends :
              DependsOn(depends)[<<m, d>>] => d \notin job.exclude
        /\ (\A m \in DOMAIN depends \intersect job.installed : Custom(depends, m) \subseteq job.installed)
              => \A m \in ported : Custom(depends, m) \subseteq ported

EarnedBy(m, r) == \E i \in DOMAIN odoo[m] : odoo[m][i].run = r /\ odoo[m][i].sound

\* A module is ok in fleet.json only if Odoo loaded it and ended well in a run,
\* this one or an earlier one; a verify.json that says ok is of a run that did,
\* whatever stopped or was killed since.
VerdictsWereEarned ==
    /\ \A m \in DOMAIN fleet :
          StartsWithOk(fleet[m]) => \E r \in 1..runs : EarnedBy(m, r)
    /\ \A m \in Modules :
          verify[m].kind = "result" /\ StartsWithOk(verify[m].verdict)
              => verify[m].run \in 1..runs /\ EarnedBy(m, verify[m].run)

\* A finished staging holds the portable modules and nothing else, whatever was
\* killed before.
StagedIsPortable ==
    step \in {"batch", "over"} /\ runs > 0 /\ "stage" \in job.parts =>
        stage.entries \ {Foreign} = ported \union {Marker, List}

\* What a user put into a directory that is not a staging directory stays.
UserFilesStay == own => Foreign \in stage.entries

\* Exit code 0 of a run with --verify-batch: in this run, Odoo loaded every
\* portable module, and without a traceback.  (By upgrade_verify.py:15-16
\* it is Odoo's own return code, which it is not.)
BatchOkMeansLoaded ==
    step = "over" /\ "batch" \in job.parts /\ rc = 0 =>
        ported # {} /\ \A m \in ported : EarnedBy(m, runs)

\* The fleet is ported in an order that can be built, without what it excludes,
\* from a staging directory that holds just that and took no user's place.
StagingIsBuildable == OrderRespectsDepends /\ PortableIsClosed /\ StagedIsPortable /\ UserFilesStay

\* No verdict, of a module or of the batch, without an upgrade that earned it.
OkIsEarned == VerdictsWereEarned /\ BatchOkMeansLoaded
=============================================================================
