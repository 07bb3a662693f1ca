---------------------------- MODULE MCChangedPath ----------------------------
(* Two examples in one instance, each with diffs of its own.               *)
(*                                                                         *)
(* For the probe, sale_order.py in two addons: in the first confirm, with  *)
(* a docstring over its one line, and compute_total, decorated; in the     *)
(* second confirm again, earlier in the MRO.                               *)
(*                                                                         *)
(* For the coverage gate, order.py: tally, of ten lines and no special     *)
(* risk, in a file that coverage may also know by a longer name, and post, *)
(* critical, in that one.                                                  *)
EXTENDS ChangedPath

Method(n, f, first, def, last, runs) ==
    [name |-> n, model |-> "sale.order", file |-> f, first |-> first, def |-> def,
     last |-> last, runs |-> runs]

confirm == Method("confirm", "sale/sale_order.py", 3, 3, 6, {6})
compute_total == Method("compute_total", "sale/sale_order.py", 8, 9, 10, {10})
override == Method("confirm", "stock/sale_order.py", 5, 5, 7, {7})

tally == [Method("tally", "sale/order.py", 3, 3, 13, 4..13) EXCEPT !.model = "res.partner"]
post == [Method("post", "addons/sale/order.py", 3, 3, 5, {4, 5}) EXCEPT !.model = "account.move"]

SaleFiles == {"sale/sale_order.py", "stock/sale_order.py"}
OrderFiles == {"sale/order.py", "addons/sale/order.py"}
Files == SaleFiles \union OrderFiles
BaseNames == [f \in Files |-> IF f \in SaleFiles THEN "sale_order.py" ELSE "order.py"]
Alike == {<<f, f>> : f \in Files} \union (OrderFiles \X OrderFiles)

ProbeMethods == {confirm, compute_total, override}
GateMethods == {tally, post}
Methods == ProbeMethods \union GateMethods
Resolution == [f \in Methods |-> IF f.name = "confirm" THEN <<override, confirm>> ELSE <<f>>]
Ranks == [f \in Methods |->
            CASE f = confirm -> 1 [] f = compute_total -> 2 [] f = override -> 3
              [] f = tally -> 4 [] f = post -> 5]

Hunk1(f, start, count, removed) ==
    {[file |-> f, start |-> start, count |-> count, removed |-> removed]}

\* The docstring and the line of confirm, and that of compute_total; both confirms.
ProbeDiffs == {Hunk1("sale/sale_order.py", 4, 1, 0) \union Hunk1("sale/sale_order.py", 6, 1, 0)
                  \union Hunk1("sale/sale_order.py", 10, 1, 0),
               Hunk1("sale/sale_order.py", 4, 1, 1) \union Hunk1("stock/sale_order.py", 7, 1, 0)}

\* All of tally and a line of post, after one taken away; the def line of post.
GateDiffs == {Hunk1("sale/order.py", 4, 10, 0) \union Hunk1("addons/sale/order.py", 4, 0, 1)
                  \union Hunk1("addons/sale/order.py", 5, 1, 0),
              Hunk1("addons/sale/order.py", 3, 3, 0) \union Hunk1("sale/order.py", 4, 0, 2)}
AllDiffs == ProbeDiffs \union GateDiffs

\* The probe's methods are called three times, nested or not, on either self,
\* under no context; the gate's twice, one call after the other, in every context.
Calls == [d \in AllDiffs |->
            IF d \in ProbeDiffs
            THEN [i \in 1..3 |-> ProbeMethods \X FrameId \X Self \X {NoContext}]
            ELSE [i \in 1..2 |-> GateMethods \X {1} \X {"recordset"} \X Context]]
=============================================================================
