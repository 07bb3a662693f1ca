--------------------------- MODULE MCEvidenceGate ---------------------------
(***************************************************************************)
(* A small instance of EvidenceGate: two commits, one changed method, two  *)
(* file positions per artifact name.  CI's tools write a complete clean    *)
(* set or one that deviates in one artifact; the values a person may write *)
(* are those that decide between two rules of the gate.                    *)
(***************************************************************************)
EXTENDS EvidenceGate, TLC

MCTarget == {"t1"}
MCSlot == {1, 2}

Good(n) == [AbsentFile EXCEPT
    !.shape = "valid",
    !.ids = IF n \in {"diff_targets", "changed_coverage", "runtime_path"}
            THEN MCTarget ELSE {},
    !.seal = IF n = "runtime_path" THEN "sealed" ELSE "absent",
    !.digest = IF n = "runtime_path" THEN "observer" ELSE NoDigest]

Dirty(n) == [Good(n) EXCEPT !.count = 1]
Torn(n) == [Good(n) EXCEPT !.shape = "garbled"]

CleanSet == [n \in AllNames |->
    IF n \in Provable THEN Good(n) ELSE AbsentFile]

\* For the run about replays: what differs between two jobs' output.
ReplayOutputs ==
    {CleanSet,
     [CleanSet EXCEPT !["mutation_smoke"] = AbsentFile],
     [CleanSet EXCEPT !["validate"] = Dirty("validate")]}

\* For the run about edits: a clean job and two that are not.
EditOutputs ==
    {CleanSet,
     [CleanSet EXCEPT !["runtime_path"].seal = "incomplete"],
     [CleanSet EXCEPT !["runtime_path"].ids = {}]}

Symmetry == Permutations(Commit)

MCHandFiles == [n \in AllNames |->
    CASE n = "validate" -> {AbsentFile, Good(n), Dirty(n)}
      [] n = "mutation_smoke" -> {Good(n), Torn(n)}
      [] n = "trace" -> {Good(n), Dirty(n)}
      [] n = "diff_targets" -> {[Good(n) EXCEPT !.ids = {}]}
      [] OTHER -> {}]

NoHandFiles == [n \in AllNames |-> {}]

MCManifests ==
    {[NoManifest EXCEPT !.shape = "valid", !.bugfix = TRUE],
     [NoManifest EXCEPT !.shape = "garbled"]}

MCPolicies == {[shape |-> "valid", sev |-> {2, 4}, roles |-> {"senior"}],
               [shape |-> "garbled", sev |-> {}, roles |-> {}]}

MCSignoffs == {[shape |-> "valid", roles |-> {"senior"}],
               [shape |-> "garbled", roles |-> {"senior"}]}

Setting(strict, key) ==
    [strict |-> strict, key |-> key, head |-> NoCommit, probe |-> "observer",
     cli |-> NoPolicy, var |-> NoPolicy]

ReplaySettings == {Setting(TRUE, TRUE), Setting(TRUE, FALSE)}

MCGateSettings ==
    {Setting(TRUE, TRUE), Setting(TRUE, FALSE), Setting(FALSE, TRUE),
     [Setting(TRUE, TRUE) EXCEPT !.probe = NoDigest]}
=============================================================================
