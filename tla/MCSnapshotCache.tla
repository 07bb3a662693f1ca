-------------------------- MODULE MCSnapshotCache --------------------------
(***************************************************************************)
(* Interchangeable servers and requests, for the run without a touch.      *)
(***************************************************************************)
EXTENDS SnapshotCache, TLC

Symmetry == Permutations(Server) \union Permutations(Request)
=============================================================================
