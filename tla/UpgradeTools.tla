---------------------------- MODULE UpgradeTools ----------------------------
(***************************************************************************)
(* The two tools an upgrade is driven with, one of which is at work:       *)
(* migrate_all.py over the fleet of custom modules, and db_upgrade.py over *)
(* one database.  They share no state, only upgrade_verify.py's verdict;   *)
(* the tool that is not used keeps one initial state.                      *)
(***************************************************************************)
EXTENDS FleetMigration

CONSTANTS
    Calls, Says, MaxCalls   \* what db_upgrade.py is called with, what Odoo
                            \* may say to it, bound

\* The choices of argparse.
ASSUME CallsAssumption ==
    /\ MaxCalls \in Nat
    /\ \A c \in Calls : c.step \in {"seed", "restore", "upgrade", "check", "full"}

VARIABLES
    tool,
    calls, call, phase, exists, content, whole, upgraded, left, loaded,
    disturbed, early        \* of db_upgrade.py; phase is its step

rehearsal == <<calls, call, phase, exists, content, whole, upgraded, left, loaded,
               disturbed, early>>

Db == INSTANCE DbRehearsal WITH step <- phase

ToolsInit ==
    /\ \/ tool = "migrate_all" /\ exists = FALSE /\ call = CHOOSE c \in Calls : TRUE
       \/ tool = "db_upgrade" /\ stage = Nowhere /\ job = CHOOSE j \in Jobs : TRUE
    /\ Init /\ Db!Init

ToolsNext ==
    \/ tool = "migrate_all" /\ Next /\ UNCHANGED <<tool, rehearsal>>
    \/ tool = "db_upgrade" /\ Db!Next /\ UNCHANGED <<tool, vars>>

ToolsSpec == ToolsInit /\ [][ToolsNext]_<<tool, vars, rehearsal>>

-----------------------------------------------------------------------------
(* Properties of both, from those of the two modules.                      *)

\* Variables have their types.
ToolsTypeOK == TypeOK /\ Db!TypeOK

\* A full rehearsal that passes with a custom-format dump upgraded this dump,
\* all of it and nothing else, and no container left behind by a timeout wrote
\* to that database or is still at work on it, unless a kill had left one that
\* had written nothing before.
FullIsRehearsed == Db!FullMeansRehearsed /\ Db!FullRunsAlone
=============================================================================
