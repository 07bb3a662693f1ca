---------------------------- MODULE ChangeTargets ----------------------------
(***************************************************************************)
(* diff_targets.py: which methods a diff changed, and on which lines.  The *)
(* path probe, the observer, the coverage gate and the mutation smoke take *)
(* the list as what there is to prove.                                     *)
(*                                                                         *)
(* A function is a record of where it stands: `first` is the line of its   *)
(* first decorator, `def` that of the def statement, `last` its last.      *)
(* `runs` are the lines that run when it is called.                        *)
(***************************************************************************)
EXTENDS Naturals, FiniteSets

CONSTANTS
    File,       \* Python files of the checkout
    BaseName,   \* the last part of each file's path
    TestFile,   \* those under tests/ or named test_*
    Function,   \* the functions in them, on the new side of the diff
    Field       \* computed fields: [file, line, compute : Function]

ASSUME SourceAssumption ==
    /\ TestFile \subseteq File
    /\ Function \subseteq [name : STRING, model : STRING, file : File, first : Nat,
                           def : Nat, last : Nat, runs : SUBSET Nat]
    /\ \A f \in Function : f.first <= f.def /\ f.def <= f.last
                           /\ f.runs \subseteq (f.def + 1)..f.last
    /\ \A x \in Field : x.line \in Nat /\ x.compute \in Function /\ x.file = x.compute.file

\* git diff --unified=0: after line `start` - 1 of the new side, or from it
\* on, `count` lines are new and `removed` lines of the old side are not there.
Hunk == [file : File, start : Nat, count : Nat, removed : Nat]

\* Mutant: a hunk of no new line is taken for one.
changed_lines_at_least_one(diff) ==
    [f \in File |-> UNION {h.start..(IF h.count = 0 THEN h.start ELSE h.start + h.count - 1) :
                              h \in {g \in diff : g.file = f /\ f \notin TestFile}}]

parse_diff_changed_lines(diff) ==
    [f \in File |-> UNION {h.start..(h.start + h.count - 1) :
                              h \in {g \in diff : g.file = f /\ f \notin TestFile /\ g.count > 0}}]

Span(f) == f.def..f.last

\* [of, lines] stands for a target: of is its model, method, file and span.
function_target(f, changed) ==
    LET hit == Span(f) \intersect changed[f.file]
    IN  {[of |-> f, lines |-> l] : l \in {hit} \ {{}}}

computed_field_target(x, changed) ==
    {[of |-> x.compute, lines |-> {l}] : l \in {x.line} \intersect changed[x.file]}

map_lines_to_targets(changed) ==
    (UNION {function_target(f, changed) : f \in Function})
        \union (UNION {computed_field_target(x, changed) : x \in Field})

diff_targets(diff) == map_lines_to_targets(parse_diff_changed_lines(diff))

\* What a function's code object says, and the location that is compared.
co_firstlineno(f) == f.first

loc_matches(base, line, t) ==
    base = BaseName[t.of.file] /\ t.of.def <= line /\ line <= t.of.last
=============================================================================
