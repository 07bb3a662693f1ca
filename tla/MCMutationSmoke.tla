--------------------------- MODULE MCMutationSmoke ---------------------------
(* Two changed methods of one file, one of them with a raise to remove and *)
(* a mutant too many, one of another file, and one whose file is gone.     *)
EXTENDS MutationSmoke

CONSTANTS f1, f2, compare, raise, boolop, sudo

TwoFiles == {f1, f2}
Sites == {compare, raise, boolop, sudo}
FourTargets == <<"confirm", "gone", "cancel", "post">>
Names == {"confirm", "gone", "cancel", "post"}
Files == [t \in Names |-> IF t = "post" THEN f2 ELSE f1]
Places == [t \in Names |->
             CASE t = "confirm" -> <<sudo, compare, raise, boolop>>
               [] t = "cancel"  -> <<boolop>>
               [] OTHER         -> <<compare>>]
=============================================================================
