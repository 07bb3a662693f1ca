-------------------------- MODULE MCUpgradeTools --------------------------
(* Fleet: three modules with every graph of dependencies, one of them also on a   *)
(* module outside (0); verification over two modules and over one that two *)
(* roots hold, staging and batch over all three.                           *)
EXTENDS UpgradeTools, TLC

Job(roots, parts, installed, exclude) ==
    [roots |-> roots, parts |-> parts, installed |-> installed, exclude |-> exclude]

Graphs == [1..3 -> SUBSET (1..3)]
Outside(g) == [g EXCEPT ![2] = @ \union {0}]

OrderJobs == {Job(<<Outside(g)>>, {}, installed, exclude) :
                g \in {h \in Graphs : 1 \notin h[1]}, installed \in {0..3, {0, 1, 3}},
                exclude \in {{}, {0}, {3}}}

Chain == (1 :> {2}) @@ (2 :> {}) @@ (3 :> {1})
StageJobs == {Job(<<Chain>>, {"stage", "batch"}, 1..3, exclude) : exclude \in {{}, {1}}}
VerifyJobs == {Job(<<(1 :> {}), (1 :> {2}) @@ (2 :> {1})>>, {"verify"}, {1, 2}, {}),
               Job(<<<<>>>>, {"verify", "batch"}, {}, {})}

AllJobs == OrderJobs \union StageJobs \union VerifyJobs

SomeOutputs(modules) ==
    [rc : {0, 1}, loaded : {{}, {Min(modules)}, modules},
     lines : {<<>>, <<"ERROR">>, <<"CRITICAL">>, <<"ERROR", "CRITICAL">>, <<"Traceback">>}]

-----------------------------------------------------------------------------
\* Rehearsal: calls of every step, with two modules expected or --modules all.
AllCalls == [step : {"seed", "restore", "upgrade", "check", "full"}, dump : {"sql", "custom"},
             expected : {{}, {"sale_x", "stock_x"}}]

DbOutputs ==
    [rc : {0, 1}, loaded : {{}, {"sale_x"}, {"sale_x", "stock_x"}},
     lines : {<<>>, <<"ERROR">>, <<"CRITICAL">>, <<"Traceback">>}]
=============================================================================
