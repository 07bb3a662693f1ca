---------------------------- MODULE SavepointRun ----------------------------
(***************************************************************************)
(* trace_flow.py, state_capture.py, esg_sample.py and fixture_factory.py:  *)
(* each runs Odoo methods for real, inside a savepoint of the connection   *)
(* of `odoo-bin shell`, rolls back to it unless COMMIT=1, and prints what  *)
(* it saw.  A method calls others, writes, fails, catches, opens savepoints *)
(* of its own, and may end the transaction itself, which the tools neither *)
(* prevent nor ask for.                                                    *)
(*                                                                         *)
(* A failed statement leaves the transaction aborted until a rollback.     *)
(* A savepoint is {} or {the writes before it}.                            *)
(***************************************************************************)
EXTENDS MethodTrace

CONSTANTS
    Model,
    Tools,          \* of these four, those considered
    Recipe,         \* steps of the recipe of fixture_factory
    ESG_SEEDS,      \* methods esg_sample may run
    MaxFrames, MaxEnters, MaxWrites     \* bounds

ASSUME RunAssumption ==
    /\ Tools \subseteq {"trace_flow", "state_capture", "esg_sample", "fixture_factory"}
    /\ Recipe \in Nat \ {0} /\ ESG_SEEDS \in Nat \ {0}
    /\ MaxFrames \in Nat /\ MaxEnters \in Nat /\ MaxWrites \in Nat

VARIABLES
    tool, commit,   \* which tool, and COMMIT=1
    step,           \* where run is
    seeds,          \* methods still to run, one savepoint each
    left,           \* calls still to make in this savepoint
    report,         \* what is printed: none, "committed" or "rolled back"
    db,             \* the writes that are committed
    tx, mark, aborted,      \* the transaction, the tool's savepoint
    live,           \* frames of the running method
    raising, error, \* an exception is on its way up; one reached the tool
    fatal,          \* it is a KeyboardInterrupt or a SystemExit, no Exception
    sql,            \* statements of this method so far
    flow, skeleton, graph,  \* of the trace functions; merged edges
    wrote, own, nested, blind, entered
    \* history: writes made; the method ended the transaction itself; the
    \* calls between models; a limit of the trace function was passed

run == <<tool, commit, step, seeds, report>>
conn == <<db, tx, mark, aborted, wrote, own>>
code == <<live, raising, error, fatal, left, entered>>
traces == <<sql, flow, skeleton, graph, nested, blind>>
vars == <<run, conn, code, traces>>

Writes == 1..MaxWrites
Frame == [model : Model, addon : BOOLEAN, save : SUBSET SUBSET Writes,
          idx : 0..MAX_CALLS, followed : BOOLEAN]

TypeOK ==
    /\ tool \in Tools /\ commit \in BOOLEAN
    /\ step \in {"start", "method", "finally", "reported", "died", "over"}
    /\ seeds \in 0..ESG_SEEDS /\ left \in 0..Recipe
    /\ report \in {"none", "committed", "rolled back"}
    /\ db \subseteq Writes /\ tx \subseteq Writes /\ mark \subseteq SUBSET Writes
    /\ Cardinality(mark) <= 1
    /\ aborted \in BOOLEAN /\ raising \in BOOLEAN /\ error \in BOOLEAN /\ fatal \in BOOLEAN
    /\ live \in Seq(Frame) /\ Len(live) <= MaxFrames
    /\ flow.depth \in 0..MAX_DEPTH + 1 /\ Len(flow.calls) <= MAX_CALLS
    /\ wrote \in 0..MaxWrites /\ own \in BOOLEAN /\ blind \in BOOLEAN

Init ==
    /\ tool \in Tools /\ commit \in BOOLEAN
    /\ step = "start" /\ report = "none"
    /\ seeds = (IF tool = "esg_sample" THEN ESG_SEEDS ELSE 1) /\ left = 0
    /\ db = {} /\ tx = {} /\ mark = {} /\ aborted = FALSE
    /\ live = <<>> /\ raising = FALSE /\ error = FALSE /\ fatal = FALSE
    /\ sql = 0 /\ flow = NoFlow /\ skeleton = NoSkeleton /\ graph = {}
    /\ wrote = 0 /\ own = FALSE /\ nested = {} /\ blind = FALSE /\ entered = 0

-----------------------------------------------------------------------------
(* Before the savepoint.                                                   *)
\* No such record or recipe, or a module is missing: nothing is run.
Refuse ==
    /\ step = "start" /\ tool # "esg_sample"
    /\ step' = "died"
    /\ UNCHANGED <<tool, commit, seeds, report, conn, code, traces>>

\* _first_record: none, or the search fails and the failure is caught.
NoRecord ==
    /\ step = "start" /\ tool = "esg_sample" /\ seeds > 0
    /\ seeds' = seeds - 1
    /\ aborted' \in {aborted, TRUE}
    /\ UNCHANGED <<tool, commit, step, report, db, tx, mark, wrote, own, code, traces>>

Savepoint ==
    /\ step = "start" /\ seeds > 0 /\ ~aborted
    /\ mark' = {tx} /\ step' = "method"
    /\ left' = IF tool = "fixture_factory" THEN Recipe ELSE 1
    /\ error' = FALSE /\ sql' = 0
    /\ flow' = NoFlow /\ skeleton' = NoSkeleton
    /\ UNCHANGED <<tool, commit, seeds, report, db, tx, aborted, wrote, own, live, raising,
                   fatal, entered, graph, nested, blind>>

EsgReport ==
    /\ step = "start" /\ tool = "esg_sample"
    /\ step' = "reported" /\ report' = IF commit THEN "committed" ELSE "rolled back"
    /\ UNCHANGED <<tool, commit, seeds, conn, code, traces>>

-----------------------------------------------------------------------------
(* The methods.                                                            *)
Working == step = "method" /\ ~raising
Top == live[Len(live)]

\* The innermost open call of addon code.
Caller ==
    {live[i].model : i \in {j \in DOMAIN live : live[j].addon
        /\ \A k \in DOMAIN live : live[k].addon => k <= j}}

Enter(model, addon, save) ==
    /\ Working
    /\ Len(live) < MaxFrames /\ entered < MaxEnters /\ entered' = entered + 1
    /\ IF live = <<>> THEN left > 0 /\ left' = left - 1 ELSE UNCHANGED left
    /\ save => ~aborted
    /\ LET flows == tool = "trace_flow" /\ addon
           samples == tool = "esg_sample" /\ addon
       IN  /\ live' = Append(live, [model |-> model, addon |-> addon,
                                    save |-> IF save THEN {tx} ELSE {},
                                    idx |-> IF flows THEN flow_idx(flow) ELSE 0,
                                    followed |-> samples /\ skeleton_follows(skeleton)])
           /\ flow' = IF flows THEN flow_call(flow, sql) ELSE flow
           /\ IF samples
                THEN /\ skeleton' = skeleton_call(skeleton, model)
                     /\ blind' = (blind \/ ~skeleton_follows(skeleton))
                     /\ nested' = nested \union UNION {Edge(c, model) : c \in Caller}
                ELSE UNCHANGED <<skeleton, blind, nested>>
    /\ UNCHANGED <<run, conn, raising, error, fatal, sql, graph>>

\* A return, by itself or by the exception that passes; the latter rolls the
\* savepoint of the method back.
Leave ==
    /\ step = "method" /\ live # <<>>
    /\ live' = SubSeq(live, 1, Len(live) - 1)
    /\ flow' = flow_return(flow, Top.idx, sql)
    /\ skeleton' = IF Top.followed THEN skeleton_return(skeleton) ELSE skeleton
    /\ IF raising /\ Top.save # {}
         THEN tx' \in Top.save /\ aborted' = FALSE
         ELSE UNCHANGED <<tx, aborted>>
    /\ UNCHANGED <<run, db, mark, wrote, own, raising, error, fatal, left, entered, sql,
                   graph, nested, blind>>

Write ==
    /\ Working /\ live # <<>> /\ ~aborted /\ wrote < MaxWrites
    /\ wrote' = wrote + 1 /\ tx' = tx \union {wrote'} /\ sql' = sql + 1
    /\ UNCHANGED <<run, db, mark, aborted, own, code, flow, skeleton, graph, nested, blind>>

\* An exception, from Python or from a statement that the database refuses.
Raise ==
    /\ Working /\ live # <<>>
    /\ raising' = TRUE
    /\ \/ UNCHANGED <<aborted, sql>>
       \/ aborted' = TRUE /\ sql' = sql + 1 /\ sql <= MaxWrites
    /\ UNCHANGED <<run, db, tx, mark, wrote, own, live, error, fatal, left, entered, flow,
                   skeleton, graph, nested, blind>>

\* What no "except Exception" catches comes at any time, between two steps of a
\* recipe and on the way up of another exception too.
Interrupt ==
    /\ step = "method" /\ ~fatal
    /\ raising' = TRUE /\ fatal' = TRUE
    /\ UNCHANGED <<run, conn, live, error, left, entered, traces>>

\* A bare "except" catches both.
Catch ==
    /\ step = "method" /\ raising /\ live # <<>>
    /\ raising' = FALSE /\ fatal' = FALSE
    /\ UNCHANGED <<run, conn, live, error, left, entered, traces>>

\* With the transaction its savepoints are gone, the tool's one too.
EndsTransaction ==
    /\ Working /\ live # <<>> /\ ~own /\ own' = TRUE
    /\ \/ db' = db \union tx /\ ~aborted
       \/ UNCHANGED db
    /\ tx' = {} /\ mark' = {} /\ aborted' = FALSE
    /\ live' = [i \in DOMAIN live |-> [live[i] EXCEPT !.save = {}]]
    /\ UNCHANGED <<run, wrote, raising, error, fatal, left, entered, traces>>

\* "except Exception": of the others the tool notes no error.
Done ==
    /\ step = "method" /\ live = <<>> /\ (left = 0 \/ raising)
    /\ step' = "finally" /\ error' = (raising /\ ~fatal) /\ raising' = FALSE
    /\ UNCHANGED <<tool, commit, seeds, report, conn, live, fatal, left, entered, traces>>

-----------------------------------------------------------------------------
(* The finally clause.                                                     *)
\* Mutant: a recipe that failed is persisted, like a failed method.
PersistsAnyway == commit
Persists == commit /\ (tool = "fixture_factory" => ~error)

\* After the finally clause, what was not caught ends the tool.
Over(persisted) ==
    IF fatal THEN step' = "died" /\ UNCHANGED <<seeds, report, graph>>
    ELSE /\ IF tool = "esg_sample"
              THEN step' = "start" /\ seeds' = seeds - 1 /\ UNCHANGED report
              ELSE /\ step' = "reported" /\ UNCHANGED seeds
                   /\ report' = IF persisted THEN "committed" ELSE "rolled back"
         /\ graph' = graph \union skeleton.edges

\* RELEASE SAVEPOINT, which an aborted transaction refuses, and the commit,
\* which may fail.
Persist ==
    /\ step = "finally" /\ Persists
    /\ mark # {} /\ ~aborted
    /\ db' = db \union tx /\ tx' = {} /\ mark' = {}
    /\ Over(TRUE)
    /\ UNCHANGED <<tool, commit, aborted, wrote, own, code, sql, flow, skeleton, nested, blind>>

\* Mutant: that there is no savepoint any more is not noticed.
UnwindQuietly ==
    /\ step = "finally" /\ ~Persists
    /\ tx' \in (IF mark = {} THEN {tx} ELSE mark) /\ mark' = {} /\ aborted' = FALSE
    /\ Over(FALSE)
    /\ UNCHANGED <<tool, commit, db, wrote, own, code, sql, flow, skeleton, nested, blind>>
Unwind ==
    /\ step = "finally" /\ ~Persists
    /\ mark # {}
    /\ tx' \in mark /\ mark' = {} /\ aborted' = FALSE
    /\ Over(FALSE)
    /\ UNCHANGED <<tool, commit, db, wrote, own, code, sql, flow, skeleton, nested, blind>>

\* The statement of the finally clause raises or is interrupted, and so is the
\* tool.
FinallyFails ==
    /\ step = "finally"
    /\ step' = "died"
    /\ UNCHANGED <<tool, commit, seeds, report, conn, code, traces>>

\* The shell is left: what is not committed is lost.
ShellEnds ==
    /\ step \in {"reported", "died"}
    /\ step' = "over" /\ tx' = {} /\ mark' = {} /\ aborted' = FALSE
    /\ UNCHANGED <<tool, commit, seeds, report, db, wrote, own, code, traces>>

Next ==
    \/ Refuse \/ NoRecord \/ Savepoint \/ EsgReport
    \/ \E model \in Model, addon, save \in BOOLEAN : Enter(model, addon, save)
    \/ Leave \/ Write \/ Raise \/ Interrupt \/ Catch \/ EndsTransaction \/ Done
    \/ Persist \/ Unwind \/ FinallyFails \/ ShellEnds

Spec == Init /\ [][Next]_vars

-----------------------------------------------------------------------------
(* Properties                                                              *)

\* What the report says of the database is so.  "committed": false means that
\* nothing was kept, and a method that ended the transaction by itself, whose
\* writes are kept whatever COMMIT says, is never reported on at all.
ReportIsTrue ==
    /\ report # "none" => ~own
    /\ report = "rolled back" => db = {}

\* fixture_factory: all the writes of all steps of a recipe are kept, or none,
\* unless the recipe was interrupted by what "except Exception" does not catch:
\* then no error is noted, and COMMIT=1 commits what it had made so far, against
\* the comment at fixture_factory.py:561-562.
RecipeIsWhole ==
    tool = "fixture_factory" /\ ~own /\ ~fatal /\ db # {} => commit /\ left = 0 /\ ~error

\* compute_self_sql: "cumulative - sum(direct children cumulative)": when the
\* method is over, no frame has a negative share, and the shares of all frames
\* add up to the statements counted for the outermost ones.
SelfSqlAddsUp ==
    step \in {"finally", "reported"} /\ tool = "trace_flow" =>
        LET self == compute_self_sql(flow.calls)
            Outermost == {i \in DOMAIN flow.calls : flow.calls[i].depth = 0}
        IN  /\ \A i \in DOMAIN self : self[i] >= 0
            /\ Total(self, DOMAIN self) = Total(SqlOf(flow.calls), Outermost)
            /\ Total(self, DOMAIN self) <= sql

\* _trace_skeleton: an edge of the graph is a call of one model's method by
\* another's, and each of those is there, whatever raised or was caught in
\* between; until a limit is passed, after which calls stay on its stack.
EdgesAreCalls ==
    step = "reported" /\ tool = "esg_sample" /\ ~blind => graph = nested

\* What a run says of its writes is so, and a recipe is kept whole or not at all.
WritesAreReported == ReportIsTrue /\ RecipeIsWhole

\* What a trace says of the calls is so: their shares of the SQL add up, and an
\* edge is a call, though calls raise and limits cut the trace off.
TraceIsTrue == SelfSqlAddsUp /\ EdgesAreCalls
=============================================================================
