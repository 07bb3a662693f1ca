----------------------------- MODULE ChangedPath -----------------------------
(***************************************************************************)
(* Were the changed lines really run by a test?  diff_targets.py lists the *)
(* changed methods; the recorder of runtime_path_probe.py, kept alive over *)
(* the tests, notes the calls of each and the exceptions they raise; its   *)
(* build_report says which targets were bound; changed_coverage_gate.py    *)
(* compares the changed lines with coverage.py's report.                   *)
(*                                                                         *)
(* The tests make calls and return from them; the identity id(frame) of a  *)
(* frame may be used again once the call is over.                          *)
(***************************************************************************)
EXTENDS ChangeTargets, Sequences

CONSTANTS
    Diffs,          \* the diffs considered, each a set of hunks
    Rank,           \* the place of each function in the list of targets
    Mro,            \* the definitions of each method, in the order of the MRO
    Critical,       \* models of the critical and high risk tiers
    EndsWith,       \* <<k, f>>: coverage's name k for a file ends with f
    FrameId,        \* values of id(frame)
    Context,        \* coverage contexts, and none
    RealTests,      \* those that are the execution of a test
    NamedOtherwise, \* contexts whose name has "setup" or "import" in it
    ShowContexts,   \* whether coverage's report may have contexts, or none
    MaxEventsPerTarget,
    MaxCalls,       \* bound
    Suite           \* the calls considered, for each diff: the first, the second...,
                    \* of a function, in a frame of that identity, on that self, in
                    \* that context

Self == {"recordset", "mock"}

\* What coverage calls no context.
NoContext == ""

ASSUME PathAssumption ==
    /\ \A d \in Diffs : d \subseteq Hunk
    /\ Rank \in [Function -> Nat]
    /\ Mro \in [Function -> Seq(Function)]
    /\ \A f \in File : <<f, f>> \in EndsWith
    /\ NoContext \in Context /\ RealTests \subseteq Context \ {NoContext}
    /\ ShowContexts \subseteq BOOLEAN
    /\ MaxEventsPerTarget \in Nat \ {0} /\ MaxCalls \in Nat
    /\ Suite \in [Diffs -> Seq(SUBSET (Function \X FrameId \X Self \X Context))]

VARIABLES
    diff,
    stack,              \* live calls: [fn, id, self, n]
    events,             \* of the recorder: [of, fn, self, exception, n]
    frame_event_idx,    \* [FrameId -> index of an event, or 0]
    executed,           \* <<file, line, context>> as coverage measured it
    calls,              \* number of calls so far
    history,            \* <<fn, self>> of every call
    raised,             \* the calls in which an exception was raised
    report              \* [path, coverage, shown: had it contexts, made: is there one]

vars == <<diff, stack, events, frame_event_idx, executed, calls, history, raised, report>>

Targets == diff_targets(diff)
TargetIds == {t.of : t \in Targets}

-----------------------------------------------------------------------------
(* The recorder.                                                           *)

\* The first definition along the MRO in a file of the target's name.
Definitions(f) == {i \in DOMAIN Mro[f] : BaseName[Mro[f][i].file] = BaseName[f.file]}
registry_fact(f) ==
    IF Definitions(f) = {} THEN {}
    ELSE {Mro[f][CHOOSE i \in Definitions(f) : \A j \in Definitions(f) : i <= j]}

Key(f) == <<BaseName[f.file], co_firstlineno(f)>>

watched_key(f) ==
    IF registry_fact(f) # {} THEN {Key(g) : g \in registry_fact(f)}
    ELSE {<<BaseName[f.file], f.def>>}

\* Mutant: the target listed first is kept.
watched_first(key) ==
    {f \in TargetIds : key \in watched_key(f)
        /\ \A g \in TargetIds \ {f} : key \in watched_key(g) => Rank[g] > Rank[f]}

\* A dictionary by location: of two targets with one location, one is kept,
\* the one listed last.
watched(key) ==
    {f \in TargetIds : key \in watched_key(f)
        /\ \A g \in TargetIds \ {f} : key \in watched_key(g) => Rank[g] < Rank[f]}

Recorded(f) == Cardinality({i \in DOMAIN events : events[i].of = f})

-----------------------------------------------------------------------------
(* Judging what was recorded.                                              *)

\* Mutant: a call of the method is enough, whatever it was called on.
evaluate_any_self(t, evs) ==
    LET covers(e) == loc_matches(BaseName[e.fn.file], co_firstlineno(e.fn), t)
        known(g) == loc_matches(BaseName[g.file], co_firstlineno(g), t)
    IN  /\ registry_fact(t.of) # {}
        /\ evs # {}
        /\ \/ \E e \in evs : covers(e)
           \/ \E g \in registry_fact(t.of) : known(g)

evaluate_target(t, evs) ==
    LET covers(e) == loc_matches(BaseName[e.fn.file], co_firstlineno(e.fn), t)
        known(g) == loc_matches(BaseName[g.file], co_firstlineno(g), t)
    IN  /\ registry_fact(t.of) # {}
        /\ \E e \in evs : e.self = "recordset"
        /\ \/ \E e \in evs : covers(e)
           \/ \E g \in registry_fact(t.of) : known(g)

EventsOf(f) == {events[i] : i \in {j \in DOMAIN events : events[j].of = f}}

\* Mutant: any context will do.
is_any_context(c) == c # NoContext

is_test_context(c) == c # NoContext /\ c \notin NamedOtherwise

\* Without contexts in the report, every executed line counts.
covered_lines_for_file(k, shown) ==
    {x[2] : x \in {y \in executed : y[1] = k /\ (shown => is_test_context(y[3]))}}

\* covered of the changed lines are enough: all for the critical and high tiers,
\* nine tenths for the others.
MoreThanEnough(t, covered) ==
    t.of.model \notin Critical /\ 10 * Cardinality(covered) > 9 * Cardinality(t.lines)
Enough(t, covered) ==
    IF t.of.model \in Critical THEN covered = t.lines
    ELSE 10 * Cardinality(covered) >= 9 * Cardinality(t.lines)

evaluate_coverage(t, k, shown) == Enough(t, t.lines \intersect covered_lines_for_file(k, shown))

\* An exact name first, then the first in coverage's order that ends alike.
match_file(f) ==
    IF \E x \in executed : x[1] = f THEN {f}
    ELSE {k \in File : <<k, f>> \in EndsWith /\ \E x \in executed : x[1] = k}

Covered(t, shown) == {k \in match_file(t.of.file) : evaluate_coverage(t, k, shown)}

-----------------------------------------------------------------------------

NoReport == [path |-> {}, coverage |-> {}, shown |-> FALSE, made |-> FALSE]

TypeOK ==
    /\ diff \in Diffs
    /\ stack \in Seq([fn : Function, id : FrameId, self : Self, n : 1..MaxCalls])
    /\ \A i, j \in DOMAIN stack : i # j => stack[i].id # stack[j].id
    /\ events \in Seq([of : Function, fn : Function, self : Self,
                       exception : BOOLEAN, n : 1..MaxCalls])
    /\ \A f \in Function : Recorded(f) <= MaxEventsPerTarget
    /\ frame_event_idx \in [FrameId -> 0..Len(events)]
    /\ executed \subseteq File \X Nat \X Context
    /\ calls \in 0..MaxCalls /\ raised \subseteq 1..calls
    /\ history \subseteq Function \X Self
    /\ report.made \in BOOLEAN /\ report.shown \in BOOLEAN
    /\ report.path \union report.coverage \subseteq Targets

\* What runs when the modules are loaded: decorators, def lines and fields.
Imported ==
    {<<x.file, x.line, NoContext>> : x \in Field}
        \union UNION {{<<f.file, l, NoContext>> : l \in f.first..f.def} : f \in Function}

\* Coverage is started before the modules are loaded, or after.
Init ==
    /\ diff \in Diffs
    /\ stack = <<>> /\ events = <<>>
    /\ frame_event_idx = [i \in FrameId |-> 0]
    /\ executed \in {{}, Imported} /\ calls = 0 /\ history = {} /\ raised = {}
    /\ report = NoReport

\* Mutant: an entry for a frame is made once and kept.
kept(idx, id, n) == [idx EXCEPT ![id] = IF @ = 0 THEN n ELSE @]

\* Mutant: the index is taken after the event was appended, from zero on.
noted_after(idx, id, n) == [idx EXCEPT ![id] = n + 1]

noted(idx, id, n) == [idx EXCEPT ![id] = n]

\* All of them, one, or all but one.
Some(lines) == {lines} \union {{l} : l \in lines} \union {lines \ {l} : l \in lines}

\* A call, the lines it runs, and the context coverage was told.  Beyond
\* MAX_EVENTS_PER_TARGET the recorder returns before it notes the frame.
Call ==
    /\ calls < MaxCalls /\ ~report.made
    /\ calls' = calls + 1 /\ calls' \in DOMAIN Suite[diff]
    /\ \E fn \in Function, id \in FrameId, self \in Self, c \in Context :
          /\ <<fn, id, self, c>> \in Suite[diff][calls']
          /\ \A i \in DOMAIN stack : stack[i].id # id
          /\ history' = history \union {<<fn, self>>}
          /\ stack' = Append(stack, [fn |-> fn, id |-> id, self |-> self, n |-> calls'])
          /\ \E lines \in Some(fn.runs) :
                executed' = executed \union {<<fn.file, l, c>> : l \in lines}
          /\ IF \E f \in watched(Key(fn)) : Recorded(f) < MaxEventsPerTarget
               THEN /\ \E f \in watched(Key(fn)) :
                          events' = Append(events, [of |-> f, fn |-> fn, self |-> self,
                                                    exception |-> FALSE, n |-> calls'])
                    /\ frame_event_idx' = noted(frame_event_idx, id, Len(events'))
               ELSE UNCHANGED <<events, frame_event_idx>>
    /\ UNCHANGED <<diff, raised, report>>

\* An exception passes through the innermost call.
Raise ==
    /\ stack # <<>> /\ ~report.made
    /\ LET call == stack[Len(stack)]
           idx == frame_event_idx[call.id]
       IN  /\ call.n \notin raised
           /\ raised' = raised \union {call.n}
           /\ events' = IF watched(Key(call.fn)) # {} /\ idx # 0
                        THEN [events EXCEPT ![idx].exception = TRUE] ELSE events
    /\ UNCHANGED <<diff, stack, frame_event_idx, executed, calls, history, report>>

\* Nothing is forgotten of the frame when the call is over.
Return ==
    /\ stack # <<>> /\ ~report.made
    /\ stack' = SubSeq(stack, 1, Len(stack) - 1)
    /\ UNCHANGED <<diff, events, frame_event_idx, executed, calls, history, raised, report>>

BuildReports ==
    /\ stack = <<>> /\ calls > 0 /\ ~report.made
    /\ \E shown \in ShowContexts :
          report' = [path |-> {t \in Targets : evaluate_target(t, EventsOf(t.of))},
                     coverage |-> {t \in Targets : Covered(t, shown) # {}},
                     shown |-> shown, made |-> TRUE]
    /\ UNCHANGED <<diff, stack, events, frame_event_idx, executed, calls, history, raised>>

Next == Call \/ Raise \/ Return \/ BuildReports

Spec == Init /\ [][Next]_vars

-----------------------------------------------------------------------------
(* Properties                                                              *)

\* evaluate_target: bound means a call, through a recordset, that resolved to
\* the changed source: to a function of a file of that name, at a line of it.
BoundMeansEntered ==
    \A t \in report.path : \E c \in history :
        c[2] = "recordset" /\ loc_matches(BaseName[c[1].file], co_firstlineno(c[1]), t)

\* The exceptions in an event are those of its call, or of a later one that
\* was not recorded because its target had MAX_EVENTS_PER_TARGET events.
ExceptionsAreTheirOwn ==
    \A i \in DOMAIN events : events[i].exception =>
        \/ events[i].n \in raised
        \/ \E n \in raised : n > events[i].n /\ \A j \in DOMAIN events : events[j].n # n

\* The lines of a target that ran in a context of C, by what coverage names the file.
Ran(t, C) == {l \in t.lines : \E c \in C, k \in File :
                                 <<k, t.of.file>> \in EndsWith /\ <<k, l, c>> \in executed}

\* No setup, import or absent context, if there are any to see.
MayCount ==
    IF report.shown THEN RealTests \union (Context \ ({NoContext} \union NamedOtherwise)) ELSE Context

\* What a covered target is covered with ran, and not just in a context that its
\* name shows to be none of a test.  (changed_coverage_gate.py:13-15 and :40-42
\* have no setUp, tearDown or import count at all; a tearDown does, and without
\* contexts all of them do.)
CoveredMeansRun == \A t \in report.coverage : Enough(t, Ran(t, MayCount))

\* The other way round: a method is bound once the tests called it, and only
\* through recordsets, if it has no decorator, is the one its MRO resolves to,
\* and shares its key neither with another function nor with the def line of one,
\* which is the key of a target that the registry does not have, nor its MRO with
\* a later target.
Resolvable(f) ==
    /\ f.first = f.def /\ registry_fact(f) = {f}
    /\ \A g \in Function \ {f} : Key(f) \notin {Key(g), <<BaseName[g.file], g.def>>}
    /\ \A g \in TargetIds \ {f} : registry_fact(g) = {f} => Rank[g] < Rank[f]

ExercisedIsBound ==
    report.made => \A t \in Targets :
        (/\ Resolvable(t.of)
         /\ <<t.of, "recordset">> \in history /\ <<t.of, "mock">> \notin history)
            => t \in report.path

\* And a target is covered once enough of its changed lines were run by tests, in
\* contexts that are named like tests.
TestedIsCovered ==
    report.made => \A t \in Targets :
        LET tested == {l \in t.lines : \E c \in RealTests \ NamedOtherwise :
                                         <<t.of.file, l, c>> \in executed}
        IN  tested # {} /\ Enough(t, tested) => t \in report.coverage

\* The lines asked for are the new lines of the diff, and all of them: lines taken
\* away give no target, and no line beside them is asked for.
IsNew(f, l) ==
    f \notin TestFile /\ \E h \in diff : h.file = f /\ h.start <= l /\ l < h.start + h.count

NewLinesAreAsked ==
    report.made =>
        /\ \A t \in Targets : \A l \in t.lines : IsNew(t.of.file, l)
        /\ \A f \in Function :
              LET new == {l \in Span(f) : IsNew(f.file, l)}
              IN  new # {} => [of |-> f, lines |-> new] \in Targets

\* What the probe reports happened: what is bound was entered and the other way
\* round, and what was raised was raised there.
PathReportIsTrue == BoundMeansEntered /\ ExercisedIsBound /\ ExceptionsAreTheirOwn

\* The coverage gate asks for the new lines, counts what ran, and passes what tests ran.
CoverageIsTrue == NewLinesAreAsked /\ CoveredMeansRun /\ TestedIsCovered
=============================================================================
