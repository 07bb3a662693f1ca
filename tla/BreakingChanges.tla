-------------------------- MODULE BreakingChanges --------------------------
(***************************************************************************)
(* gen_manifest.py compares two source trees and writes a manifest of what *)
(* is gone; upgrade_brief.py compares a custom module with the manifest;   *)
(* migrate_all.py grades the effort.                                       *)
(*                                                                         *)
(* A tree is the sequence of its classes in the order they are scanned,    *)
(* each with its _name (or NoName), _inherit, fields with their types, and *)
(* methods; and its modules and xml ids.  Model names are numbers, so that *)
(* sorting by name is by >.  A custom module is its usage: the models, xml *)
(* ids and modules that it names, and its words, each with the models that *)
(* stand in the same line.                                                 *)
(***************************************************************************)
EXTENDS Integers, Sequences, SequencesExt, FiniteSets, FiniteSetsExt, Functions, Folds

CONSTANTS
    NoName,
    Generic,    \* GENERIC_TOKENS
    MIN_FIELDS_FOR_MATCH, MODEL_MATCH_THRESHOLD     \* the latter in thousandths

-----------------------------------------------------------------------------
(* collect_tree                                                            *)
\* A class with a _name is that model; one without is merged into each model
\* it inherits.
Targets(class) == IF class.name # NoName THEN {class.name} ELSE class.inherits

\* e["fields"].update(fields): of two types the one scanned later.
Merge(entry, class) ==
    [fields |-> [f \in DOMAIN entry.fields \union DOMAIN class.fields |->
                    IF f \in DOMAIN class.fields THEN class.fields[f] ELSE entry.fields[f]],
     methods |-> entry.methods \union class.methods,
     defined |-> entry.defined \/ class.name # NoName]

collect_tree(tree) ==
    [m \in UNION {Targets(tree.classes[i]) : i \in DOMAIN tree.classes} |->
        FoldLeft(LAMBDA entry, c : IF m \in Targets(c) THEN Merge(entry, c) ELSE entry,
                 [fields |-> <<>>, methods |-> {}, defined |-> FALSE], tree.classes)]

-----------------------------------------------------------------------------
(* _best_matches: removed models and those of a pool, by common fields.    *)
Common(a, b) == Cardinality(DOMAIN a.fields \intersect DOMAIN b.fields)
Smaller(a, b) == Min({Cardinality(DOMAIN a.fields), Cardinality(DOMAIN b.fields)})

\* round(|A & B| / min(|A|, |B|), 3)
Score(a, b) == (2000 * Common(a, b) + Smaller(a, b)) \div (2 * Smaller(a, b))

Pairs(removed, pool) ==
    {<<Score(removed[q[1]], pool[q[2]]), q[1], q[2]>> : q \in
        {p \in (DOMAIN removed) \X (DOMAIN pool) :
            /\ Common(removed[p[1]], pool[p[2]]) >= MIN_FIELDS_FOR_MATCH
            /\ Score(removed[p[1]], pool[p[2]]) >= MODEL_MATCH_THRESHOLD}}

\* pairs.sort(reverse=True)
Ahead(p, q) ==
    \/ p[1] > q[1]
    \/ p[1] = q[1] /\ p[2] > q[2]
    \/ p[1] = q[1] /\ p[2] = q[2] /\ p[3] > q[3]

\* Mutant: a model may be the replacement of two.
Takes_old(p, used) ==
    IF \E u \in used : u[2] = p[2] THEN used ELSE used \union {p}
Take(p, used) ==
    IF \E u \in used : u[2] = p[2] \/ u[3] = p[3] THEN used ELSE used \union {p}

Hindmost(pairs) == CHOOSE p \in pairs : \A q \in pairs : q = p \/ Ahead(q, p)

\* Pair by pair as they are sorted, the last one last.
best_matches(removed, pool) ==
    MapThenFoldSet(Take, {}, LAMBDA p : p, Hindmost, Pairs(removed, pool))

-----------------------------------------------------------------------------
(* build_manifest                                                          *)
\* _diff_model, the parts that the brief reads; all FALSE and empty is None.
DiffModel(old, new) ==
    [fields_removed |-> DOMAIN old.fields \ DOMAIN new.fields,
     methods_removed |-> old.methods \ new.methods,
     other |-> \/ DOMAIN new.fields \ DOMAIN old.fields # {}
               \/ \E f \in DOMAIN old.fields \intersect DOMAIN new.fields :
                     old.fields[f] # new.fields[f]]
Unchanged == [fields_removed |-> {}, methods_removed |-> {}, other |-> FALSE]

build_manifest(old, new) ==
    LET om == collect_tree(old)
        nm == collect_tree(new)
        removed == Restrict(om, DOMAIN om \ DOMAIN nm)
        added == Restrict(nm, DOMAIN nm \ DOMAIN om)
        both == DOMAIN om \intersect DOMAIN nm
        renamed == best_matches(removed, added)
        leftover == Restrict(removed, DOMAIN removed \ {r[2] : r \in renamed})
    IN  [removed |-> DOMAIN removed, renamed |-> renamed,
         merged |-> best_matches(leftover, Restrict(nm, both)),
         changed |-> [m \in {b \in both : DiffModel(om[b], nm[b]) # Unchanged} |->
                        DiffModel(om[m], nm[m])],
         modules |-> old.modules \ new.modules, xmlids |-> old.xmlids \ new.xmlids]

-----------------------------------------------------------------------------
(* build_brief                                                             *)
Finding(severity, kind, subject) == [severity |-> severity, kind |-> kind, subject |-> subject]

\* _grep_word, with the model required in the line of a generic token.
Appears(usage, word, model) ==
    \E w \in usage.words : w.word = word /\ (word \in Generic => model \in w.models)

\* Mutant: the fields of changed models are not looked for.
ChangedFindingsInfo(usage, model, change) == {Finding("INFO", "changed_model", model)}
\* The words of removed fields are searched for in all lines.
ChangedFindings(usage, model, change) ==
    {Finding("INFO", "changed_model", model)}
    \union {Finding("WARNING", "removed_field_usage", <<model, f>>) :
              f \in {g \in change.fields_removed : \E w \in usage.words : w.word = g}}
    \union {Finding("WARNING", "removed_method_usage", <<model, f>>) :
              f \in {g \in change.methods_removed : Appears(usage, g, model)}}

build_brief(usage, manifest) ==
    {Finding("ERROR", "removed_module_dependency", d) : d \in usage.depends \intersect manifest.modules}
    \union {Finding("ERROR", "removed_model", m) : m \in usage.models \intersect manifest.removed}
    \union (UNION {ChangedFindings(usage, m, manifest.changed[m]) :
                     m \in usage.models \intersect DOMAIN manifest.changed})
    \union {Finding("ERROR", "removed_xmlid", x) : x \in usage.xmlids \intersect manifest.xmlids}

\* Mutant: a removed model counts as one error.
GradeByCount(brief) ==
    LET errors == {f \in brief : f.severity = "ERROR"}
    IN  IF errors = {} THEN "S" ELSE IF Cardinality(errors) >= 5 THEN "L" ELSE "M"
effort_grade(brief) ==
    LET errors == {f \in brief : f.severity = "ERROR"}
    IN  IF errors = {} THEN "S"
        ELSE IF Cardinality(errors) >= 5
                \/ \E f \in errors : f.kind \in {"removed_model", "removed_module_dependency"}
        THEN "L" ELSE "M"

-----------------------------------------------------------------------------
\* gen_manifest.py, then upgrade_brief.py and the grade.
gen_and_brief(trees, usage) ==
    LET manifest == build_manifest(trees.old, trees.new)
        brief == build_brief(usage, manifest)
    IN  [manifest |-> manifest, brief |-> brief, effort |-> effort_grade(brief)]

-----------------------------------------------------------------------------
(* What the classes of a tree say, without merging them.                   *)
ClassesOf(tree, m) == {tree.classes[i] : i \in {j \in DOMAIN tree.classes :
                                                    m \in Targets(tree.classes[j])}}
HasField(tree, m, f) == \E c \in ClassesOf(tree, m) : f \in DOMAIN c.fields
HasMethod(tree, m, f) == \E c \in ClassesOf(tree, m) : f \in c.methods

\* Nobody has a better claim: no model is in two pairs, and a pair that was
\* passed over has a model in a pair at least as similar.
Stable(pairs, removed, pool) ==
    /\ \A p, q \in pairs : p[2] = q[2] \/ p[3] = q[3] => p = q
    /\ \A p \in (DOMAIN removed) \X (DOMAIN pool) :
          LET score == Score(removed[p[1]], pool[p[2]])
          IN  Common(removed[p[1]], pool[p[2]]) >= MIN_FIELDS_FOR_MATCH /\ score >= MODEL_MATCH_THRESHOLD
                => \E q \in pairs : q[1] >= score /\ (q[2] = p[1] \/ q[3] = p[2])
=============================================================================
