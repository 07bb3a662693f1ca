-------------------------- MODULE MCRuntimeObserver --------------------------
(* Two targets, a function of another file at the place of the first, and  *)
(* one that is not watched.                                                *)
EXTENDS RuntimeObserver

Method(n, f, first, def, last) ==
    [name |-> n, model |-> "sale.order", file |-> f, first |-> first, def |-> def,
     last |-> last, runs |-> {last}]

confirm == Method("confirm", "sale/order.py", 3, 3, 6)
cancel == Method("cancel", "sale/order.py", 8, 8, 9)
namesake == Method("merge", "stock/order.py", 3, 3, 5)
other == Method("unlink", "stock/order.py", 8, 9, 10)

Files == {"sale/order.py", "stock/order.py"}
Base == [f \in Files |-> "order.py"]
Functions == {confirm, cancel, namesake, other}
ConfirmAndCancel == {confirm, cancel}
=============================================================================
