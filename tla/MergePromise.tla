---------------------------- MODULE MergePromise ----------------------------
(***************************************************************************)
(* What the strict deployment gate promises, whatever happens to the       *)
(* bundle it reads: a commit is approved only after CI's own tools proved  *)
(* that very commit, and an approval is never taken back.                  *)
(***************************************************************************)
CONSTANT Commit

VARIABLES
    proven,     \* commits whose complete, clean evidence CI produced
    approved    \* commits the strict gate approved

vars == <<proven, approved>>

Init == proven = {} /\ approved = {}

Prove(c) == proven' = proven \union {c} /\ UNCHANGED approved

Approve(c) ==
    /\ c \in proven
    /\ approved' = approved \union {c}
    /\ UNCHANGED proven

Next == \E c \in Commit : Prove(c) \/ Approve(c)

Spec == Init /\ [][Next]_vars
=============================================================================
