---------------------------- MODULE FleetOrder ----------------------------
(***************************************************************************)
(* migrate_all.py: which modules of the addons directories are found, in   *)
(* which order they are ported, and which are worth porting.  A module is  *)
(* a number, so that sorting by name is by <.  A root is a function from   *)
(* the modules it holds to their `depends`, which may name others.         *)
(***************************************************************************)
EXTENDS Integers, Sequences, SequencesExt, FiniteSets, FiniteSetsExt, Functions

Sorted(S) ==
    CHOOSE s \in [1..Cardinality(S) -> S] : \A i, k \in 1..Cardinality(S) : i < k => s[i] < s[k]

\* The first root that has a module wins.
discover_modules(roots) ==
    [m \in UNION {DOMAIN roots[i] : i \in DOMAIN roots} |->
        roots[Min({i \in DOMAIN roots : m \in DOMAIN roots[i]})][m]]

\* The dependencies that count: those on other scanned modules.
Custom(depends, m) == (depends[m] \intersect DOMAIN depends) \ {m}

\* Mutant: a module is queued as soon as one of its dependencies is ported.
QueueEarly(depends, done) ==
    {m \in DOMAIN depends \ done :
        Custom(depends, m) = {} \/ Custom(depends, m) \intersect done # {}}
\* indeg is zero and the module is not in the order yet.
Queue(depends, done) == {m \in DOMAIN depends \ done : Custom(depends, m) \subseteq done}

\* The queue is sorted at every turn, so its least module is taken.
Kahn(depends) ==
    LET order[k \in 0..Cardinality(DOMAIN depends)] ==
            IF k = 0 THEN <<>>
            ELSE LET queue == Queue(depends, Range(order[k - 1]))
                 IN  IF queue = {} THEN order[k - 1]
                     ELSE Append(order[k - 1], Min(queue))
    IN  order[Cardinality(DOMAIN depends)]

Cyclic(depends) == Sorted(DOMAIN depends \ Range(Kahn(depends)))

topo_order(depends) == Kahn(depends) \o Cyclic(depends)

\* `while changed`: each turn adds the modules that depend on an excluded one.
\* Mutant: one turn only.
ExcludedOnce(depends, exclude) ==
    exclude \union {m \in DOMAIN depends : depends[m] \intersect exclude # {}}
Excluded(depends, exclude) ==
    LET excl[k \in 0..Cardinality(DOMAIN depends)] ==
            IF k = 0 THEN exclude
            ELSE excl[k - 1] \union {m \in DOMAIN depends :
                                        depends[m] \intersect excl[k - 1] # {}}
    IN  excl[Cardinality(DOMAIN depends)]

\* Mutant: modules that are installed but were not scanned.
portable_any(depends, installed, exclude) == installed \ Excluded(depends, exclude)
portable_set(depends, installed, exclude) ==
    (DOMAIN depends \ Excluded(depends, exclude)) \intersect installed

-----------------------------------------------------------------------------
(* Reference definitions.                                                  *)
\* Paths of at least one dependency, by Warshall's algorithm.
DependsOn(depends) ==
    LET names == DOMAIN depends
        path[via \in SUBSET names] ==
            IF via = {} THEN [p \in names \X names |-> p[2] \in Custom(depends, p[1])]
            ELSE LET v == CHOOSE v \in via : TRUE
                     less == path[via \ {v}]
                 IN  [p \in names \X names |->
                        less[p] \/ (less[<<p[1], v>>] /\ less[<<v, p[2]>>])]
    IN  path[names]

\* On a cycle, or built on a module that is.
Stuck(depends) ==
    LET on == DependsOn(depends)
    IN  {m \in DOMAIN depends :
            on[<<m, m>>] \/ \E c \in DOMAIN depends : on[<<m, c>>] /\ on[<<c, c>>]}
=============================================================================
