---------------------------- MODULE UpgradeRisks ----------------------------
(***************************************************************************)
(* upgrade_check.py: the risks of an upgrade, from the fields a model had  *)
(* and the fields it has.  Fields are functions from names to              *)
(* [type, required, has_default, store]; a name is a number, so that       *)
(* sorting is by <, and similar[<<a, b>>] is _name_sim in thousandths.     *)
(***************************************************************************)
EXTENDS Integers, Sequences, SequencesExt, FiniteSets, FiniteSetsExt, Folds

CONSTANT HIGH_SIM   \* _HIGH_SIM, in thousandths

Gone(old, new) == {f \in DOMAIN old : f \notin DOMAIN new}

-----------------------------------------------------------------------------
(* detect_renames                                                          *)
\* The most similar; of equals the one that the new fields list first.
Best(f, candidates, similar) ==
    CHOOSE c \in candidates :
        \A d \in candidates : \/ similar[<<f, c>>] > similar[<<f, d>>]
                              \/ similar[<<f, c>>] = similar[<<f, d>>] /\ c <= d

Candidates(f, old, new, renames) ==
    {g \in Gone(new, old) :
        new[g].store /\ new[g].type = old[f].type /\ \A r \in ToSet(renames) : r.new # g}

\* Field by field in the order of their names, the greatest last.
detect_renames(old, new, similar) ==
    LET Rename(f, renames) ==
            LET candidates == Candidates(f, old, new, renames)
                best == Best(f, candidates, similar)
                sure == Cardinality(candidates) = 1 /\ similar[<<f, best>>] >= HIGH_SIM
            IN  IF candidates = {} THEN renames
                ELSE Append(renames, [old |-> f, new |-> best, confidence |-> IF sure THEN "high" ELSE "low",
                                      similarity |-> similar[<<f, best>>]])
    IN  MapThenFoldSet(Rename, <<>>, LAMBDA f : f, Max, {f \in Gone(old, new) : old[f].store})

-----------------------------------------------------------------------------
(* classify_upgrade_risks                                                  *)
Risk(kind, field, severity) == [kind |-> kind, field |-> field, severity |-> severity]

\* Mutant: what is perhaps renamed is not reported as removed.
high_any(renames) == ToSet(renames)
high(renames) == {r \in ToSet(renames) : r.confidence = "high"}

Removed(old, new, renames) ==
    {Risk("field_removed", f, IF old[f].store THEN "blocking" ELSE "warning") :
        f \in Gone(old, new) \ {r.old : r \in high(renames)}}
Renamed(renames) == {Risk("field_renamed", r.old, "blocking") : r \in {s \in ToSet(renames) : s.confidence = "high"}}
NewRequired(old, new, renames) ==
    {Risk("new_required_no_default", f, "blocking") :
        f \in {g \in Gone(new, old) \ {r.new : r \in high(renames)} :
                  new[g].store /\ new[g].required /\ ~new[g].has_default}}
TypeChanged(old, new) ==
    {Risk("type_changed", f, "warning") :
        f \in {g \in (DOMAIN old) \intersect (DOMAIN new) :
                  old[g].type # new[g].type /\ old[g].store /\ new[g].store}}

classify_upgrade_risks(old, new, similar, noupdate_xmlids) ==
    LET renames == detect_renames(old, new, similar)
    IN  Removed(old, new, renames) \union Renamed(renames) \union NewRequired(old, new, renames)
        \union TypeChanged(old, new)
        \union {Risk("noupdate_protected", x, "warning") : x \in noupdate_xmlids}

\* The steps of the script, all of them comments to be filled in.
render_migration_script(renames, removals) ==
    [renames |-> {<<r.old, r.new>> : r \in renames}, removals |-> removals,
     todo |-> renames = {} /\ removals = {}]

\* run, or main without the xml ids, which only the shell can look up.
upgrade_check(old, new, similar, noupdate_xmlids) ==
    LET renames == detect_renames(old, new, similar)
        risks == classify_upgrade_risks(old, new, similar, noupdate_xmlids)
        Count(severity) == Cardinality({r \in risks : r.severity = severity})
    IN  [renames |-> renames, risks |-> risks, blocking |-> Count("blocking"), warning |-> Count("warning"),
         script |-> render_migration_script({r \in ToSet(renames) : r.confidence = "high"},
                                            {r.field : r \in {s \in risks : s.kind = "field_removed"}})]
=============================================================================
