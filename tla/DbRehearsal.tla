---------------------------- MODULE DbRehearsal ----------------------------
(***************************************************************************)
(* db_upgrade.py: seed, restore, upgrade and check one database through    *)
(* docker compose, or restore, upgrade and check in one call ("full").     *)
(* It is called again and again for the same database.  When a step is     *)
(* given up after its timeout, the docker client is killed and what runs   *)
(* in the container goes on, also if it has yet to start on the database.  *)
(*                                                                         *)
(* The contents of the database are the numbers of the calls whose dump,   *)
(* seed or unfinished work is in it.                                       *)
(***************************************************************************)
EXTENDS VerifyVerdict

CONSTANTS
    Calls,      \* [step, dump : {"sql", "custom"}, expected : modules]
    Says,    \* what Odoo may say
    MaxCalls    \* bound

VARIABLES
    calls, call,    \* how many so far, and the present one
    step,           \* the step of main that is next, or "idle", "over", "died"
    exists, content, whole, upgraded,   \* the database; all of the dump is in it
    left,           \* steps given up that are still at work in a container
    loaded,         \* history: what Odoo loaded in this call's check
    disturbed,      \* history: a container left behind wrote during this call
    early           \* history: when this call began, a container was at work
                    \* that had written nothing yet

database == <<exists, content, whole, upgraded>>
vars == <<calls, call, step, database, left, loaded, disturbed, early>>

Containers == {"seed", "load", "upgrade", "check"}
Steps == Containers \union {"up", "createdb"}

TypeOK ==
    /\ calls \in 0..MaxCalls /\ call \in Calls
    /\ step \in Steps \union {"idle", "over", "died"}
    /\ exists \in BOOLEAN /\ whole \in BOOLEAN /\ upgraded \in BOOLEAN
    /\ content \subseteq 0..calls /\ (content # {} => exists)
    /\ left \subseteq [step : Containers, call : 0..calls, wrote : BOOLEAN]
    /\ \A x \in left : x.wrote => x.call \in content
    /\ disturbed \in BOOLEAN /\ early \in BOOLEAN

Init ==
    /\ calls = 0 /\ call \in Calls /\ step = "idle"
    /\ exists \in BOOLEAN /\ whole = FALSE /\ upgraded = FALSE
    /\ content \in (IF exists THEN {{}, {0}} ELSE {{}})
    /\ left = {} /\ loaded = {} /\ disturbed = FALSE /\ early = FALSE

\* order of main
First(c) == IF c.step \in {"restore", "full"} THEN "up" ELSE c.step

Start ==
    /\ step \in {"idle", "over", "died"} /\ calls < MaxCalls
    /\ call' \in Calls /\ calls' = calls + 1
    /\ step' = First(call')
    /\ loaded' = {} /\ disturbed' = FALSE
    /\ early' = \E x \in left : ~x.wrote
    /\ UNCHANGED <<database, left>>

\* What follows a step: main stops at the first that is not ok.
After(s, verdict) ==
    IF ~StartsWithOk(verdict) THEN "died"
    ELSE IF call.step # "full" \/ s = "check" THEN "over"
    ELSE IF s = "load" THEN "upgrade" ELSE "check"

\* A step whose client ends goes on in its container: pip, Odoo and the loader
\* may not have come to the database yet.
Abandoned ==
    /\ step \in Containers
    /\ \E wrote \in BOOLEAN :
         /\ left' = left \union {[step |-> step, call |-> calls, wrote |-> wrote]}
         /\ IF wrote
            THEN /\ exists \/ step = "seed"
                 /\ exists' = TRUE /\ content' = content \union {calls}
                 /\ whole' = FALSE /\ upgraded' = FALSE
            ELSE UNCHANGED database

\* The client's end of the output is all that run_step has after its timeout.
GivenUp ==
    /\ Abandoned
    /\ step' = After(step, verdict_of(TimedOut, {}))
    /\ UNCHANGED <<calls, call, loaded, disturbed, early>>

-----------------------------------------------------------------------------
(* restore                                                                 *)
\* check=True: a container that does not come up ends the script.
Up ==
    /\ step = "up" /\ step' \in {"createdb", "died"}
    /\ UNCHANGED <<calls, call, database, left, loaded, disturbed, early>>

\* The result of createdb is not looked at: it fails if the database exists, or
\* if the server refuses.
CreateDb ==
    /\ step = "createdb" /\ step' = "load"
    /\ exists' \in {exists, TRUE}
    /\ UNCHANGED <<calls, call, content, whole, upgraded, left, loaded, disturbed, early>>

\* psql goes on after an error and exits with 0; pg_restore goes on and exits
\* with 1.  A table that is there already is an error.
LoaderRc(clean) == IF clean \/ call.dump = "sql" THEN 0 ELSE 1

\* Mutant: the loader creates the database.
LoadsAnyway == TRUE
Loads == exists

Load ==
    /\ step = "load"
    /\ IF Loads
       THEN \E clean \in (IF content = {} THEN BOOLEAN ELSE {FALSE}) :
              /\ content' = content \union {calls} /\ whole' = clean
              /\ step' = After("load", verdict_of([TimedOut EXCEPT !.rc = LoaderRc(clean)], {}))
       ELSE /\ step' = After("load", verdict_of([TimedOut EXCEPT !.rc = 2], {}))
            /\ content' = content /\ whole' = whole
    /\ upgraded' = FALSE
    /\ UNCHANGED <<calls, call, exists, left, loaded, disturbed, early>>

-----------------------------------------------------------------------------
(* seed, upgrade and check: a run of Odoo each.                            *)
\* odoo18 -i creates the database if it is not there.
Seed ==
    /\ step = "seed"
    /\ \E output \in Says : step' = After("seed", verdict_of(output, {}))
    /\ exists' = TRUE /\ content' = content \union {calls}
    /\ whole' = FALSE /\ upgraded' = FALSE
    /\ UNCHANGED <<calls, call, left, loaded, disturbed, early>>

\* odoo19 -u all; no module is expected in particular.
Upgrade ==
    /\ step = "upgrade"
    /\ \E output \in {o \in Says : o.rc = 0 => exists} :
         /\ step' = After("upgrade", verdict_of(output, {}))
         /\ upgraded' = (output.rc = 0)
    /\ UNCHANGED <<calls, call, exists, content, whole, left, loaded, disturbed, early>>

\* odoo19 -u; with --modules all and no file, expected is empty.
Check ==
    /\ step = "check"
    /\ \E output \in {o \in Says : o.rc = 0 => exists} :
         /\ step' = After("check", verdict_of(output, call.expected))
         /\ loaded' = output.loaded
    /\ UNCHANGED <<calls, call, database, left, disturbed, early>>

-----------------------------------------------------------------------------
(* Around it.                                                              *)
LeftWrites(x) ==
    /\ exists \/ x.step = "seed"
    /\ exists' = TRUE /\ content' = content \union {x.call}
    /\ left' = (left \ {x}) \union {[x EXCEPT !.wrote = TRUE]}
    /\ disturbed' = (disturbed \/ step \in Steps)
    /\ UNCHANGED <<calls, call, step, whole, upgraded, loaded, early>>

LeftEnds(x) ==
    /\ left' = left \ {x}
    /\ UNCHANGED <<calls, call, step, database, loaded, disturbed, early>>

\* PostgreSQL refuses to drop a database that someone is connected to.
DropDb ==
    /\ step \notin Steps /\ exists /\ \A x \in left : ~x.wrote
    /\ exists' = FALSE /\ content' = {} /\ whole' = FALSE /\ upgraded' = FALSE
    /\ step' = "idle"
    /\ UNCHANGED <<calls, call, left, loaded, disturbed, early>>

\* The script is killed; what it had started may go on.
Kill ==
    /\ step \in Steps /\ step' = "died"
    /\ Abandoned \/ UNCHANGED <<database, left>>
    /\ UNCHANGED <<calls, call, loaded, disturbed, early>>

Next ==
    \/ Start \/ Up \/ CreateDb \/ Load \/ Seed \/ Upgrade \/ Check
    \/ GivenUp \/ DropDb \/ Kill
    \/ \E x \in left : LeftWrites(x) \/ LeftEnds(x)

Spec == Init /\ [][Next]_vars

-----------------------------------------------------------------------------
(* Properties.                                                             *)
Passed == step = "over" /\ call.step = "full"

\* A full rehearsal that passes with a custom-format dump: all of this dump is in
\* the database, it went through the upgrade, and the modules expected were
\* loaded.  Nothing else is in it, and nothing left behind wrote meanwhile, unless
\* the call began while a container left behind had written nothing yet.
FullMeansRehearsed ==
    Passed /\ call.dump = "custom" =>
        /\ calls \in content /\ whole /\ upgraded
        /\ call.expected \subseteq loaded
        /\ ~early => content = {calls} /\ ~disturbed

\* In a full rehearsal from a custom-format dump, no upgrade or check works on
\* a database that a container left behind still works on, if it had written
\* something when the call began.
FullRunsAlone ==
    call.step = "full" /\ call.dump = "custom" /\ step \in {"upgrade", "check"} =>
        left = {} \/ early
=============================================================================
