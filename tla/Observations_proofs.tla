------------------------- MODULE Observations_proofs -------------------------
(***************************************************************************)
(* What is said of code that was looked at some time before.  For any      *)
(* sources, diff and registry: what the tests are said to have run, they   *)
(* ran, by the recorder, the path report and the changed lines that count  *)
(* as covered.  For any targets: the seal of the observer that stood       *)
(* beside the tests.  For any servers, requests and touches of the tree:   *)
(* what the shared cache directory may hold under a key, and what a server *)
(* may answer from it, however the processes overlap.                      *)
(***************************************************************************)
EXTENDS ChangedPath, RuntimeObserver, SnapshotCache, FiniteSetTheorems, WellFoundedInduction, TLAPS

-----------------------------------------------------------------------------
(* Targets and their places.                                               *)

LEMMA Bounds == MaxCalls \in Nat /\ MaxEventsPerTarget \in Nat /\ MaxEventsPerTarget >= 1
<1>1. MaxCalls \in Nat /\ MaxEventsPerTarget \in Nat \ {0}
    BY PathAssumption
<1> QED
    BY <1>1

\* A target is a function, with some of the lines that changed.
LEMMA TargetIs ==
    ASSUME NEW t \in Targets
    PROVE  t.of \in Function /\ t.lines \in SUBSET Nat /\ IsFiniteSet(t.lines) /\ t.lines # {}
<1>1. PICK changed : changed = parse_diff_changed_lines(diff)
    OBVIOUS
<1>2. \/ \E f \in Function : t \in function_target(f, changed)
      \/ \E x \in Field : t \in computed_field_target(x, changed)
    <2>1. t \in map_lines_to_targets(changed)
        BY <1>1 DEF Targets, diff_targets
    <2> DEFINE ofFunctions == UNION {function_target(f, changed) : f \in Function}
               ofFields == UNION {computed_field_target(x, changed) : x \in Field}
    <2>2. map_lines_to_targets(changed) = ofFunctions \union ofFields
        BY DEF map_lines_to_targets
    <2>3. t \in ofFunctions => \E f \in Function : t \in function_target(f, changed)
        BY Zenon
    <2>4. t \in ofFields => \E x \in Field : t \in computed_field_target(x, changed)
        BY Zenon
    <2> HIDE DEF ofFunctions, ofFields
    <2> QED
        BY <2>1, <2>2, <2>3, <2>4
<1>3. CASE \E f \in Function : t \in function_target(f, changed)
    <2>1. PICK f \in Function : t \in function_target(f, changed)
        BY <1>3
    <2>2. f.def \in Nat /\ f.last \in Nat
        BY SourceAssumption
    <2>3. t = [of |-> f, lines |-> Span(f) \intersect changed[f.file]]
          /\ Span(f) \intersect changed[f.file] # {}
        BY <2>1 DEF function_target
    <2>4. IsFiniteSet(Span(f)) /\ Span(f) \subseteq Nat
        <3>1. f.def \in Int /\ f.last \in Int
            BY <2>2
        <3>2. IsFiniteSet(f.def..f.last)
            BY <3>1, FS_Interval
        <3> QED
            BY <2>2, <3>2 DEF Span
    <2>5. IsFiniteSet(Span(f) \intersect changed[f.file])
        BY <2>4, FS_Subset
    <2> QED
        BY <2>3, <2>4, <2>5
<1>4. CASE \E x \in Field : t \in computed_field_target(x, changed)
    <2>1. PICK x \in Field : t \in computed_field_target(x, changed)
        BY <1>4
    <2>2. PICK l \in {x.line} : t = [of |-> x.compute, lines |-> {l}]
        BY <2>1 DEF computed_field_target
    <2>3. x.compute \in Function /\ x.line \in Nat /\ IsFiniteSet({l})
        BY SourceAssumption, FS_Singleton
    <2> QED
        BY <2>2, <2>3
<1> QED
    BY <1>2, <1>3, <1>4

LEMMA TargetIdsAreFunctions == TargetIds \subseteq Function
BY TargetIs DEF TargetIds

\* Of two targets of one place, one is kept.
LEMMA WatchedIsOne ==
    ASSUME NEW at, NEW f \in watched(at), NEW g \in watched(at) PROVE f = g
<1> SUFFICES ASSUME f # g PROVE FALSE
    OBVIOUS
<1>1. Rank[g] < Rank[f] /\ Rank[f] < Rank[g]
    BY DEF watched
<1>2. Rank[f] \in Nat /\ Rank[g] \in Nat
    BY PathAssumption, TargetIdsAreFunctions DEF watched
<1> QED
    BY <1>1, <1>2

LEMMA WatchedAreTargets ==
    ASSUME NEW at, NEW f \in watched(at) PROVE f \in TargetIds /\ f \in Function /\ at \in watched_key(f)
BY TargetIdsAreFunctions DEF watched

\* The place that is noted for a target is that of one function, or its own.
LEMMA PlaceIsOne ==
    ASSUME NEW f, NEW g \in registry_fact(f), NEW h \in registry_fact(f) PROVE g = h
BY DEF registry_fact

\* A set of numbers has a least one.
LEMMA LeastPlace ==
    ASSUME NEW S \in SUBSET Nat, S # {}
    PROVE  \E n \in S : \A m \in S : n <= m
<1> DEFINE R == {ss \in Nat \X Nat : ss[1] < ss[2]}
<1>1. IsWellFoundedOn(R, Nat)
    BY NatLessThanWellFounded, Zenon DEF OpToRel
<1> HIDE DEF R
<1>2. PICK n \in S : \A m \in S : ~(<<m, n>> \in R)
    BY <1>1, WFMin
<1>3. \A m \in S : ~(m < n)
    BY <1>2 DEF R
<1> QED
    BY <1>3

LEMMA RegistryIsOfFunctions ==
    ASSUME NEW f \in Function PROVE registry_fact(f) \subseteq Function
<1>1. Mro[f] \in Seq(Function)
    BY PathAssumption
<1>2. Definitions(f) \in SUBSET Nat /\ Definitions(f) \subseteq DOMAIN Mro[f]
    BY <1>1 DEF Definitions
<1>3. CASE Definitions(f) = {}
    BY <1>3 DEF registry_fact
<1>4. CASE Definitions(f) # {}
    <2>1. PICK n \in Definitions(f) : \A m \in Definitions(f) : n <= m
        BY <1>2, <1>4, LeastPlace
    <2> DEFINE i == CHOOSE i \in Definitions(f) : \A j \in Definitions(f) : i <= j
    <2>2. i \in Definitions(f)
        BY <2>1
    <2>3. registry_fact(f) = {Mro[f][i]}
        BY <1>4 DEF registry_fact
    <2> HIDE DEF i
    <2>4. Mro[f][i] \in Function
        BY <1>1, <1>2, <2>2
    <2> QED
        BY <2>3, <2>4
<1> QED
    BY <1>3, <1>4

-----------------------------------------------------------------------------
(* The invariant of the recorder and the report.                           *)

CallsShape ==
    /\ diff \in Diffs /\ calls \in 0..MaxCalls /\ raised \subseteq 1..calls
    /\ history \subseteq Function \X Self
StackShape ==
    /\ stack \in Seq([fn : Function, id : FrameId, self : Self, n : 1..calls])
    /\ \A i, j \in DOMAIN stack : i # j => stack[i].id # stack[j].id
EventsShape ==
    /\ events \in Seq([of : Function, fn : Function, self : Self,
                       exception : BOOLEAN, n : 1..calls])
    /\ frame_event_idx \in [FrameId -> 0..Len(events)]

\* An event is that of a call, and of the one target that its place is watched for.
EventsAreCalls ==
    \A i \in DOMAIN events :
        <<events[i].fn, events[i].self>> \in history /\ events[i].of \in watched(Key(events[i].fn))
\* No more are kept of a target than allowed, and of what was called, one at least.
EventsAreFew == \A f \in Function : Recorded(f) <= MaxEventsPerTarget
CallsAreKept ==
    \A c \in history, f \in TargetIds :
        f \in watched(Key(c[1])) => \E i \in DOMAIN events : events[i].of = f
\* What a frame's entry points to is its own call, or an older one and then its
\* own has no event.
FramesPointBack ==
    \A k \in DOMAIN stack :
        LET idx == frame_event_idx[stack[k].id]
        IN  idx # 0 => \/ events[idx].n = stack[k].n
                       \/ /\ events[idx].n < stack[k].n
                          /\ \A j \in DOMAIN events : events[j].n # stack[k].n
\* Coverage measured lines of the files.
LinesRun == executed \subseteq File \X Nat \X Context
\* The report is of what is there now.
ReportStands ==
    \/ report = NoReport
    \/ \E shown \in BOOLEAN :
          report = [path |-> {t \in Targets : evaluate_target(t, EventsOf(t.of))},
                    coverage |-> {t \in Targets : Covered(t, shown) # {}},
                    shown |-> shown, made |-> TRUE]

PathInv ==
    /\ CallsShape /\ StackShape /\ EventsShape /\ EventsAreCalls /\ EventsAreFew /\ CallsAreKept
    /\ FramesPointBack /\ ExceptionsAreTheirOwn /\ LinesRun /\ ReportStands

LEMMA ImportedLines == Imported \subseteq File \X Nat \X Context
<1> DEFINE ofFields == {<<x.file, x.line, NoContext>> : x \in Field}
           ofFunctions == UNION {{<<f.file, l, NoContext>> : l \in f.first..f.def} : f \in Function}
<1>1. NoContext \in Context
    BY PathAssumption
<1>2. \A x \in Field : x.file \in File /\ x.line \in Nat
    BY SourceAssumption
<1>3. \A f \in Function : f.file \in File /\ f.first..f.def \subseteq Nat
    BY SourceAssumption
<1>4. ofFields \subseteq File \X Nat \X Context
    BY <1>1, <1>2
<1>5. ofFunctions \subseteq File \X Nat \X Context
    BY <1>1, <1>3
<1> QED
    BY <1>4, <1>5 DEF Imported

LEMMA InitRecords == Init => PathInv
<1> SUFFICES ASSUME Init PROVE PathInv
    OBVIOUS
<1>1. /\ history = {} /\ events = <<>> /\ stack = <<>> /\ executed \in {{}, Imported}
      /\ report = NoReport
    BY DEF Init
<1>0. CallsShape
    <2>1. MaxCalls \in Nat
        BY Bounds
    <2>2. 0 \in 0..MaxCalls
        BY <2>1
    <2> QED
        BY <2>2 DEF Init, CallsShape
<1>2. StackShape
    BY <1>1 DEF StackShape
<1>3. EventsShape
    <2>1. frame_event_idx \in [FrameId -> 0..Len(events)]
        BY <1>1 DEF Init
    <2> QED
        BY <1>1, <2>1 DEF EventsShape
<1>4. EventsAreCalls /\ CallsAreKept /\ FramesPointBack /\ ExceptionsAreTheirOwn
    BY <1>1 DEF EventsAreCalls, CallsAreKept, FramesPointBack, ExceptionsAreTheirOwn
<1>5. EventsAreFew
    <2>1. \A f \in Function : {i \in DOMAIN events : events[i].of = f} = {}
        BY <1>1
    <2>2. \A f \in Function : Recorded(f) = 0
        BY <2>1, FS_EmptySet, Zenon DEF Recorded
    <2>3. MaxEventsPerTarget \in Nat
        BY Bounds
    <2> QED
        BY <2>2, <2>3 DEF EventsAreFew
<1>6. LinesRun /\ ReportStands
    BY <1>1, ImportedLines DEF LinesRun, ReportStands
<1> QED
    BY <1>0, <1>2, <1>3, <1>4, <1>5, <1>6 DEF PathInv

\* With one more call of fn, whatever it noted.
LEMMA CallStarts ==
    ASSUME PathInv, calls < MaxCalls, ~report.made, calls' = calls + 1,
           NEW fn \in Function, NEW id \in FrameId, NEW self \in Self, NEW c \in Context,
           \A i \in DOMAIN stack : stack[i].id # id,
           history' = history \union {<<fn, self>>},
           stack' = Append(stack, [fn |-> fn, id |-> id, self |-> self, n |-> calls']),
           NEW lines \in Some(fn.runs),
           executed' = executed \union {<<fn.file, l, c>> : l \in lines},
           UNCHANGED <<diff, raised, report>>
    PROVE  CallsShape' /\ StackShape' /\ LinesRun' /\ ReportStands' /\ calls \in Nat
<1>1. calls \in Nat /\ calls' \in 0..MaxCalls
    <2>1. calls \in Nat /\ MaxCalls \in Nat
        BY Bounds DEF PathInv, CallsShape
    <2> QED
        BY <2>1
<1>2. CallsShape'
    <2>1. raised' \subseteq 1..calls'
        BY <1>1 DEF PathInv, CallsShape
    <2>2. history' \subseteq Function \X Self
        BY DEF PathInv, CallsShape
    <2> QED
        BY <1>1, <2>1, <2>2 DEF PathInv, CallsShape
<1>3. StackShape'
    <2> DEFINE Live(n) == [fn : Function, id : FrameId, self : Self, n : 1..n]
               new == [fn |-> fn, id |-> id, self |-> self, n |-> calls']
    <2>1. new \in Live(calls') /\ new.id = id
        BY <1>1
    <2>2. stack \in Seq(Live(calls))
        BY DEF PathInv, StackShape
    <2>3. Live(calls) \subseteq Live(calls')
        BY <1>1
    <2> HIDE DEF Live, new
    <2>4. \A i \in DOMAIN stack : stack[i] \in Live(calls')
        BY <2>2, <2>3
    <2>5. stack \in Seq(Live(calls'))
        <3>1. DOMAIN stack = 1..Len(stack) /\ Len(stack) \in Nat /\ stack = [i \in 1..Len(stack) |-> stack[i]]
            BY <2>2
        <3>2. stack \in [1..Len(stack) -> Live(calls')]
            BY <2>4, <3>1
        <3> QED
            BY <3>1, <3>2
    <2>6. stack' = Append(stack, new)
        BY DEF new
    <2>7. stack' \in Seq(Live(calls'))
        BY <2>1, <2>5, <2>6
    <2>8. \A i \in DOMAIN stack' :
             \/ i \in DOMAIN stack /\ stack'[i] = stack[i]
             \/ i = Len(stack) + 1 /\ stack'[i] = new
        BY <2>1, <2>5, <2>6
    <2>9. \A i, j \in DOMAIN stack : i # j => stack[i].id # stack[j].id
        BY DEF PathInv, StackShape
    <2>10. \A i, j \in DOMAIN stack' : i # j => stack'[i].id # stack'[j].id
        BY <2>1, <2>8, <2>9
    <2> QED
        BY <2>7, <2>10 DEF StackShape, Live
<1>4. LinesRun'
    <2>1. lines \subseteq Nat /\ fn.file \in File
        BY SourceAssumption DEF Some
    <2>2. {<<fn.file, l, c>> : l \in lines} \subseteq File \X Nat \X Context
        BY <2>1
    <2> QED
        BY <2>2 DEF PathInv, LinesRun
<1>5. ReportStands'
    BY DEF PathInv, ReportStands, NoReport
<1> QED
    BY <1>1, <1>2, <1>3, <1>4, <1>5

LEMMA WatchedStands ==
    ASSUME diff' = diff PROVE TargetIds' = TargetIds /\ \A at : (watched(at))' = watched(at)
<1>1. Targets' = Targets
    BY DEF Targets
<1>2. TargetIds' = TargetIds
    BY <1>1 DEF TargetIds
<1> QED
    BY <1>2 DEF watched

\* The events that are there stay, with their numbers, when one is appended.
LEMMA Appended ==
    ASSUME NEW S, NEW s \in Seq(S), NEW e \in S
    PROVE  /\ Append(s, e) \in Seq(S) /\ Len(Append(s, e)) = Len(s) + 1 /\ Len(s) \in Nat
           /\ DOMAIN Append(s, e) = DOMAIN s \union {Len(s) + 1} /\ Len(s) + 1 \notin DOMAIN s
           /\ DOMAIN s = 1..Len(s)
           /\ \A i \in DOMAIN s : Append(s, e)[i] = s[i]
           /\ Append(s, e)[Len(s) + 1] = e
OBVIOUS

LEMMA LargerRecords ==
    ASSUME NEW S, NEW T, S \subseteq T, NEW s \in Seq(S) PROVE s \in Seq(T)
<1>1. DOMAIN s = 1..Len(s) /\ Len(s) \in Nat /\ s = [i \in 1..Len(s) |-> s[i]]
    OBVIOUS
<1>2. s \in [1..Len(s) -> T]
    BY <1>1
<1> QED
    BY <1>1, <1>2

Note(n) == [of : Function, fn : Function, self : Self, exception : BOOLEAN, n : 1..n]

LEMMA EventsAreNotes ==
    ASSUME EventsShape
    PROVE  /\ events \in Seq(Note(calls)) /\ Len(events) \in Nat /\ DOMAIN events = 1..Len(events)
           /\ \A i \in DOMAIN events : events[i] \in Note(calls)
<1>1. events \in Seq(Note(calls))
    BY DEF EventsShape, Note
<1> QED
    BY <1>1

LEMMA NoteHas ==
    ASSUME NEW k, NEW e \in Note(k)
    PROVE  e.of \in Function /\ e.fn \in Function /\ e.self \in Self /\ e.exception \in BOOLEAN /\ e.n \in 1..k
BY DEF Note

LEMMA RecordedIsNat ==
    ASSUME EventsShape, NEW f
    PROVE  IsFiniteSet({i \in DOMAIN events : events[i].of = f}) /\ Recorded(f) \in Nat
<1>1. IsFiniteSet(DOMAIN events)
    <2>1. Len(events) \in Nat /\ DOMAIN events = 1..Len(events)
        BY EventsAreNotes
    <2>2. 1 \in Int /\ Len(events) \in Int
        BY <2>1
    <2> QED
        BY <2>1, <2>2, FS_Interval
<1>2. IsFiniteSet({i \in DOMAIN events : events[i].of = f})
    BY <1>1, FS_Subset
<1> QED
    BY <1>2, FS_CardinalityType DEF Recorded

Live(n) == [fn : Function, id : FrameId, self : Self, n : 1..n]

LEMMA LiveHas ==
    ASSUME StackShape
    PROVE  /\ stack \in Seq(Live(calls)) /\ Len(stack) \in Nat /\ DOMAIN stack = 1..Len(stack)
           /\ \A i \in DOMAIN stack : /\ stack[i].n \in 1..calls /\ stack[i].id \in FrameId
                                     /\ stack[i].fn \in Function /\ stack[i].self \in Self
<1>1. stack \in Seq(Live(calls))
    BY DEF StackShape, Live
<1>2. \A i \in DOMAIN stack : stack[i] \in Live(calls)
    BY <1>1
<1>3. \A x \in Live(calls) : x.n \in 1..calls /\ x.id \in FrameId /\ x.fn \in Function /\ x.self \in Self
    BY DEF Live
<1> QED
    BY <1>1, <1>2, <1>3

\* A call that is recorded.
LEMMA CallNotes ==
    ASSUME PathInv, calls \in Nat, calls' = calls + 1, diff' = diff, raised' = raised,
           NEW fn \in Function, NEW id \in FrameId, NEW self \in Self,
           \A i \in DOMAIN stack : stack[i].id # id,
           history' = history \union {<<fn, self>>},
           stack' = Append(stack, [fn |-> fn, id |-> id, self |-> self, n |-> calls']),
           NEW f \in watched(Key(fn)), Recorded(f) < MaxEventsPerTarget,
           events' = Append(events, [of |-> f, fn |-> fn, self |-> self,
                                     exception |-> FALSE, n |-> calls']),
           frame_event_idx' = noted(frame_event_idx, id, Len(events'))
    PROVE  /\ EventsShape' /\ EventsAreCalls' /\ EventsAreFew' /\ CallsAreKept'
           /\ FramesPointBack' /\ ExceptionsAreTheirOwn'
<1> DEFINE new == [of |-> f, fn |-> fn, self |-> self, exception |-> FALSE, n |-> calls']
           last == Len(events) + 1
           live == [fn |-> fn, id |-> id, self |-> self, n |-> calls']
<1>1. f \in TargetIds /\ f \in Function
    BY WatchedAreTargets
<1>2. new \in Note(calls') /\ new.of = f /\ new.fn = fn /\ new.self = self /\ new.n = calls' /\ new.exception = FALSE
    BY <1>1 DEF Note
<1>3. EventsShape /\ events \in Seq(Note(calls)) /\ Len(events) \in Nat /\ DOMAIN events = 1..Len(events)
      /\ \A i \in DOMAIN events : events[i] \in Note(calls)
    BY EventsAreNotes DEF PathInv
<1>4. events \in Seq(Note(calls'))
    <2>1. Note(calls) \subseteq Note(calls')
        BY DEF Note
    <2> QED
        BY <1>3, <2>1, LargerRecords
<1>5. events' = Append(events, new)
    OBVIOUS
<1>6. stack' = Append(stack, live) /\ live.n = calls' /\ live.id = id
    OBVIOUS
<1> HIDE DEF new, live
<1>7. /\ events' \in Seq(Note(calls')) /\ Len(events') = last
      /\ DOMAIN events' = DOMAIN events \union {last} /\ last \notin DOMAIN events
      /\ \A i \in DOMAIN events : events'[i] = events[i]
      /\ events'[last] = new
    BY <1>2, <1>4, <1>5, Appended
<1>8. \A i \in DOMAIN events : events[i].n \in 1..calls
    BY <1>3, NoteHas
<1>9. stack \in Seq([fn : Function, id : FrameId, self : Self, n : 1..calls])
    BY DEF PathInv, StackShape
<1>10. \A i \in DOMAIN stack : stack[i].n \in 1..calls /\ stack[i].id \in FrameId
    BY LiveHas DEF PathInv
<1>11. \A k \in DOMAIN stack' :
          \/ k \in DOMAIN stack /\ stack'[k] = stack[k]
          \/ stack'[k] = live
    BY <1>6, <1>9
<1>12. frame_event_idx \in [FrameId -> 0..Len(events)]
    BY <1>3 DEF EventsShape
<1>13. frame_event_idx' = [frame_event_idx EXCEPT ![id] = last]
    BY <1>7 DEF noted
<1>14. EventsShape'
    <2>1. frame_event_idx' \in [FrameId -> 0..Len(events')]
        BY <1>3, <1>7, <1>12, <1>13
    <2> QED
        BY <1>7, <2>1 DEF EventsShape, Note
<1>15. EventsAreCalls'
    <2>1. \A i \in DOMAIN events :
              <<events[i].fn, events[i].self>> \in history /\ events[i].of \in watched(Key(events[i].fn))
        BY DEF PathInv, EventsAreCalls
    <2>2. \A i \in DOMAIN events' :
              <<events'[i].fn, events'[i].self>> \in history' /\ events'[i].of \in watched(Key(events'[i].fn))
        BY <1>2, <1>7, <2>1
    <2> QED
        BY <2>2, WatchedStands DEF EventsAreCalls
<1>16. EventsAreFew'
    <2> SUFFICES ASSUME NEW g \in Function PROVE (Recorded(g) <= MaxEventsPerTarget)'
        BY DEF EventsAreFew
    <2> DEFINE old == {i \in DOMAIN events : events[i].of = g}
               now == {i \in DOMAIN events' : events'[i].of = g}
    <2>1. IsFiniteSet(old) /\ Recorded(g) \in Nat
        BY <1>3, RecordedIsNat
    <2>2. Recorded(g) = Cardinality(old) /\ (Recorded(g))' = Cardinality(now)
        BY DEF Recorded
    <2>3. Recorded(g) <= MaxEventsPerTarget /\ MaxEventsPerTarget \in Nat
        BY Bounds DEF PathInv, EventsAreFew
    <2>4. CASE g = f
        <3>1. now = old \union {last} /\ last \notin old
            BY <1>2, <1>7, <2>4
        <3> HIDE DEF old, now
        <3>2. Cardinality(now) = Cardinality(old) + 1
            BY <2>1, <3>1, FS_AddElement
        <3> QED
            BY <2>1, <2>2, <2>3, <2>4, <3>2
    <2>5. CASE g # f
        <3>1. now = old
            BY <1>2, <1>7, <2>5
        <3> QED
            BY <2>2, <2>3, <3>1
    <2> QED
        BY <2>4, <2>5
<1>17. CallsAreKept'
    <2> SUFFICES ASSUME NEW d \in history', NEW g \in TargetIds, g \in watched(Key(d[1]))
                 PROVE  \E i \in DOMAIN events' : events'[i].of = g
        BY WatchedStands DEF CallsAreKept
    <2>1. CASE d \in history
        <3>1. PICK i \in DOMAIN events : events[i].of = g
            BY <2>1 DEF PathInv, CallsAreKept
        <3> QED
            BY <1>7, <3>1
    <2>2. CASE d = <<fn, self>>
        <3>1. g = f
            BY <2>2, WatchedIsOne
        <3> QED
            BY <1>2, <1>7, <3>1
    <2> QED
        BY <2>1, <2>2
<1>18. FramesPointBack'
    <2> SUFFICES ASSUME NEW k \in DOMAIN stack', frame_event_idx'[stack'[k].id] # 0
                 PROVE  LET idx == frame_event_idx'[stack'[k].id]
                        IN  \/ events'[idx].n = stack'[k].n
                            \/ /\ events'[idx].n < stack'[k].n
                               /\ \A j \in DOMAIN events' : events'[j].n # stack'[k].n
        BY DEF FramesPointBack
    <2>1. CASE stack'[k] = live
        <3>1. frame_event_idx'[stack'[k].id] = last
            BY <1>6, <1>12, <1>13, <2>1
        <3> QED
            BY <1>2, <1>6, <1>7, <2>1, <3>1
    <2>2. CASE k \in DOMAIN stack /\ stack'[k] = stack[k]
        <3> DEFINE idx == frame_event_idx[stack[k].id]
        <3>1. frame_event_idx'[stack'[k].id] = idx /\ idx \in 0..Len(events)
            BY <1>10, <1>12, <1>13, <2>2
        <3>2. \/ events[idx].n = stack[k].n
              \/ /\ events[idx].n < stack[k].n
                 /\ \A j \in DOMAIN events : events[j].n # stack[k].n
            BY <2>2, <3>1 DEF PathInv, FramesPointBack
        <3>3. idx \in DOMAIN events
            <4>1. idx # 0
                BY <3>1
            <4> HIDE DEF idx
            <4> QED
                BY <1>3, <3>1, <4>1
        <3> HIDE DEF idx
        <3>4. events'[idx] = events[idx]
            BY <1>7, <3>3
        <3>5. new.n # stack[k].n
            BY <1>2, <1>10, <2>2
        <3>6. (\A j \in DOMAIN events : events[j].n # stack[k].n)
                 => \A j \in DOMAIN events' : events'[j].n # stack[k].n
            BY <1>7, <3>5
        <3> QED
            BY <2>2, <3>1, <3>2, <3>4, <3>6
    <2> QED
        BY <1>11, <2>1, <2>2
<1>19. ExceptionsAreTheirOwn'
    <2> SUFFICES ASSUME NEW i \in DOMAIN events', events'[i].exception
                 PROVE  \/ events'[i].n \in raised
                        \/ \E n \in raised : n > events'[i].n /\ \A j \in DOMAIN events' : events'[j].n # n
        BY DEF ExceptionsAreTheirOwn
    <2>1. i \in DOMAIN events /\ events'[i] = events[i]
        BY <1>2, <1>7
    <2>2. CASE events[i].n \in raised
        BY <2>1, <2>2
    <2>3. CASE \E n \in raised : n > events[i].n /\ \A j \in DOMAIN events : events[j].n # n
        <3>1. PICK n \in raised : n > events[i].n /\ \A j \in DOMAIN events : events[j].n # n
            BY <2>3
        <3>2. n \in 1..calls
            BY DEF PathInv, CallsShape
        <3>3. n # new.n
            BY <1>2, <3>2
        <3> QED
            BY <1>7, <2>1, <3>1, <3>3
    <2> QED
        BY <2>1, <2>2, <2>3 DEF PathInv, ExceptionsAreTheirOwn
<1> QED
    BY <1>14, <1>15, <1>16, <1>17, <1>18, <1>19

\* And one that is not: its target has its events, or it is none.
LEMMA CallPasses ==
    ASSUME PathInv, calls \in Nat, calls' = calls + 1, diff' = diff, raised' = raised,
           NEW fn \in Function, NEW id \in FrameId, NEW self \in Self,
           \A i \in DOMAIN stack : stack[i].id # id,
           history' = history \union {<<fn, self>>},
           stack' = Append(stack, [fn |-> fn, id |-> id, self |-> self, n |-> calls']),
           ~\E f \in watched(Key(fn)) : Recorded(f) < MaxEventsPerTarget,
           events' = events, frame_event_idx' = frame_event_idx
    PROVE  /\ EventsShape' /\ EventsAreCalls' /\ EventsAreFew' /\ CallsAreKept'
           /\ FramesPointBack' /\ ExceptionsAreTheirOwn'
<1> DEFINE live == [fn |-> fn, id |-> id, self |-> self, n |-> calls']
<1>3. EventsShape /\ events \in Seq(Note(calls)) /\ Len(events) \in Nat /\ DOMAIN events = 1..Len(events)
      /\ \A i \in DOMAIN events : events[i] \in Note(calls)
    BY EventsAreNotes DEF PathInv
<1>4. events \in Seq(Note(calls'))
    <2>1. Note(calls) \subseteq Note(calls')
        BY DEF Note
    <2> QED
        BY <1>3, <2>1, LargerRecords
<1>6. stack' = Append(stack, live) /\ live.n = calls' /\ live.id = id
    OBVIOUS
<1> HIDE DEF live
<1>8. \A i \in DOMAIN events : events[i].n \in 1..calls
    BY <1>3, NoteHas
<1>9. stack \in Seq([fn : Function, id : FrameId, self : Self, n : 1..calls])
    BY DEF PathInv, StackShape
<1>10. \A i \in DOMAIN stack : stack[i].n \in 1..calls /\ stack[i].id \in FrameId
    BY LiveHas DEF PathInv
<1>11. \A k \in DOMAIN stack' :
          \/ k \in DOMAIN stack /\ stack'[k] = stack[k]
          \/ stack'[k] = live
    BY <1>6, <1>9
<1>12. frame_event_idx \in [FrameId -> 0..Len(events)]
    BY <1>3 DEF EventsShape
<1>14. EventsShape'
    BY <1>4, <1>12 DEF EventsShape, Note
<1>15. EventsAreCalls'
    <2>1. \A i \in DOMAIN events :
              <<events[i].fn, events[i].self>> \in history /\ events[i].of \in watched(Key(events[i].fn))
        BY DEF PathInv, EventsAreCalls
    <2> QED
        BY <2>1, WatchedStands DEF EventsAreCalls
<1>16. EventsAreFew'
    BY DEF PathInv, EventsAreFew, Recorded
<1>17. CallsAreKept'
    <2> SUFFICES ASSUME NEW d \in history', NEW g \in TargetIds, g \in watched(Key(d[1]))
                 PROVE  \E i \in DOMAIN events : events[i].of = g
        BY WatchedStands DEF CallsAreKept
    <2>1. CASE d \in history
        BY <2>1 DEF PathInv, CallsAreKept
    <2>2. CASE d = <<fn, self>>
        <3>1. ~(Recorded(g) < MaxEventsPerTarget)
            BY <2>2
        <3>2. Recorded(g) \in Nat /\ MaxEventsPerTarget \in Nat /\ MaxEventsPerTarget >= 1
            BY <1>3, RecordedIsNat, Bounds
        <3>3. Recorded(g) # 0
            BY <3>1, <3>2
        <3>4. {i \in DOMAIN events : events[i].of = g} # {}
            BY <3>3, FS_EmptySet, Zenon DEF Recorded
        <3> QED
            BY <3>4
    <2> QED
        BY <2>1, <2>2
<1>18. FramesPointBack'
    <2> SUFFICES ASSUME NEW k \in DOMAIN stack', frame_event_idx[stack'[k].id] # 0
                 PROVE  LET idx == frame_event_idx[stack'[k].id]
                        IN  \/ events[idx].n = stack'[k].n
                            \/ /\ events[idx].n < stack'[k].n
                               /\ \A j \in DOMAIN events : events[j].n # stack'[k].n
        BY DEF FramesPointBack
    <2>1. CASE stack'[k] = live
        <3> DEFINE idx == frame_event_idx[id]
        <3>1. idx \in 0..Len(events) /\ frame_event_idx[stack'[k].id] = idx /\ idx # 0
            BY <1>6, <1>12, <2>1
        <3> HIDE DEF idx
        <3>2. idx \in DOMAIN events
            BY <1>3, <3>1
        <3>3. events[idx].n < calls' /\ \A j \in DOMAIN events : events[j].n # calls'
            BY <1>8, <3>2
        <3> QED
            BY <1>6, <2>1, <3>1, <3>3
    <2>2. CASE k \in DOMAIN stack /\ stack'[k] = stack[k]
        BY <2>2 DEF PathInv, FramesPointBack
    <2> QED
        BY <1>11, <2>1, <2>2
<1>19. ExceptionsAreTheirOwn'
    BY DEF PathInv, ExceptionsAreTheirOwn
<1> QED
    BY <1>14, <1>15, <1>16, <1>17, <1>18, <1>19

LEMMA CallKeeps == ASSUME PathInv, Call PROVE PathInv'
<1>1. calls < MaxCalls /\ ~report.made /\ calls' = calls + 1 /\ UNCHANGED <<diff, raised, report>>
    BY DEF Call
<1>2. PICK fn \in Function, id \in FrameId, self \in Self, c \in Context :
          /\ \A i \in DOMAIN stack : stack[i].id # id
          /\ history' = history \union {<<fn, self>>}
          /\ stack' = Append(stack, [fn |-> fn, id |-> id, self |-> self, n |-> calls'])
          /\ \E lines \in Some(fn.runs) :
                executed' = executed \union {<<fn.file, l, c>> : l \in lines}
          /\ IF \E f \in watched(Key(fn)) : Recorded(f) < MaxEventsPerTarget
               THEN /\ \E f \in watched(Key(fn)) :
                          events' = Append(events, [of |-> f, fn |-> fn, self |-> self,
                                                    exception |-> FALSE, n |-> calls'])
                    /\ frame_event_idx' = noted(frame_event_idx, id, Len(events'))
               ELSE UNCHANGED <<events, frame_event_idx>>
    BY DEF Call
<1>3. PICK lines \in Some(fn.runs) :
          executed' = executed \union {<<fn.file, l, c>> : l \in lines}
    BY <1>2
<1>4. CallsShape' /\ StackShape' /\ LinesRun' /\ ReportStands' /\ calls \in Nat
    BY <1>1, <1>2, <1>3, CallStarts
<1>5. /\ EventsShape' /\ EventsAreCalls' /\ EventsAreFew' /\ CallsAreKept'
      /\ FramesPointBack' /\ ExceptionsAreTheirOwn'
    <2>1. CASE \E f \in watched(Key(fn)) : Recorded(f) < MaxEventsPerTarget
        <3>1. PICK f \in watched(Key(fn)) :
                  events' = Append(events, [of |-> f, fn |-> fn, self |-> self,
                                            exception |-> FALSE, n |-> calls'])
            BY <1>2, <2>1
        <3>2. frame_event_idx' = noted(frame_event_idx, id, Len(events'))
            BY <1>2, <2>1
        <3>3. Recorded(f) < MaxEventsPerTarget
            BY <2>1, WatchedIsOne
        <3> QED
            BY <1>1, <1>2, <1>4, <3>1, <3>2, <3>3, CallNotes
    <2>2. CASE ~\E f \in watched(Key(fn)) : Recorded(f) < MaxEventsPerTarget
        <3>1. events' = events /\ frame_event_idx' = frame_event_idx
            BY <1>2, <2>2
        <3> QED
            BY <1>1, <1>2, <1>4, <2>2, <3>1, CallPasses
    <2> QED
        BY <2>1, <2>2
<1> QED
    BY <1>4, <1>5 DEF PathInv

\* Marking one event leaves what else they say.
LEMMA Marked ==
    ASSUME NEW k, NEW s \in Seq(Note(k)), NEW i \in DOMAIN s
    PROVE  LET m == [s EXCEPT ![i].exception = TRUE]
           IN  /\ m \in Seq(Note(k)) /\ DOMAIN m = DOMAIN s /\ Len(m) = Len(s)
               /\ \A j \in DOMAIN s : /\ m[j].of = s[j].of /\ m[j].fn = s[j].fn
                                      /\ m[j].self = s[j].self /\ m[j].n = s[j].n
                                      /\ j # i => m[j] = s[j]
<1> DEFINE m == [s EXCEPT ![i].exception = TRUE]
           e == [s[i] EXCEPT !.exception = TRUE]
<1>1. s[i] \in Note(k)
    OBVIOUS
<1>2. e \in Note(k) /\ e.of = s[i].of /\ e.fn = s[i].fn /\ e.self = s[i].self /\ e.n = s[i].n
    BY <1>1 DEF Note
<1>3. m = [s EXCEPT ![i] = e]
    OBVIOUS
<1> HIDE DEF m, e
<1>4. m \in Seq(Note(k)) /\ DOMAIN m = DOMAIN s /\ Len(m) = Len(s)
    BY <1>2, <1>3
<1>5. m[i] = e /\ \A j \in DOMAIN s : j # i => m[j] = s[j]
    BY <1>3
<1>6. \A j \in DOMAIN s : /\ m[j].of = s[j].of /\ m[j].fn = s[j].fn
                          /\ m[j].self = s[j].self /\ m[j].n = s[j].n
                          /\ j # i => m[j] = s[j]
    BY <1>2, <1>5
<1> QED
    BY <1>4, <1>6 DEF m

LEMMA ReportStays ==
    ASSUME ReportStands, ~report.made, report' = report PROVE ReportStands'
BY DEF ReportStands, NoReport

LEMMA RaiseKeeps == ASSUME PathInv, Raise PROVE PathInv'
<1> DEFINE call == stack[Len(stack)]
           idx == frame_event_idx[call.id]
<1>1. /\ stack # <<>> /\ ~report.made /\ raised' = raised \union {call.n}
      /\ events' = IF watched(Key(call.fn)) # {} /\ idx # 0
                   THEN [events EXCEPT ![idx].exception = TRUE] ELSE events
      /\ UNCHANGED <<diff, stack, frame_event_idx, executed, calls, history, report>>
    BY DEF Raise
<1>2. /\ stack \in Seq(Live(calls)) /\ Len(stack) \in Nat /\ DOMAIN stack = 1..Len(stack)
      /\ \A i \in DOMAIN stack : stack[i].n \in 1..calls /\ stack[i].id \in FrameId
    BY LiveHas DEF PathInv
<1>3. Len(stack) \in DOMAIN stack
    BY <1>1, <1>2
<1>4. call.n \in 1..calls /\ call.id \in FrameId
    BY <1>2, <1>3
<1>5. /\ EventsShape /\ events \in Seq(Note(calls)) /\ Len(events) \in Nat /\ DOMAIN events = 1..Len(events)
      /\ frame_event_idx \in [FrameId -> 0..Len(events)]
    BY EventsAreNotes DEF PathInv, EventsShape
<1>6. idx \in 0..Len(events)
    BY <1>4, <1>5
<1>7. idx # 0 => \/ events[idx].n = call.n
                 \/ /\ events[idx].n < call.n
                    /\ \A j \in DOMAIN events : events[j].n # call.n
    BY <1>3 DEF PathInv, FramesPointBack
<1> HIDE DEF call, idx
<1>8. /\ events' \in Seq(Note(calls)) /\ DOMAIN events' = DOMAIN events /\ Len(events') = Len(events)
      /\ \A j \in DOMAIN events : /\ events'[j].of = events[j].of /\ events'[j].fn = events[j].fn
                                  /\ events'[j].self = events[j].self /\ events'[j].n = events[j].n
                                  /\ events'[j] = events[j] \/ (j = idx /\ idx # 0)
    <2>1. CASE watched(Key(call.fn)) # {} /\ idx # 0
        <3>1. idx \in DOMAIN events
            BY <1>5, <1>6, <2>1
        <3>2. events' = [events EXCEPT ![idx].exception = TRUE]
            BY <1>1, <2>1
        <3> QED
            BY <1>5, <2>1, <3>1, <3>2, Marked
    <2>2. CASE ~(watched(Key(call.fn)) # {} /\ idx # 0)
        <3>1. events' = events
            BY <1>1, <2>2, Zenon
        <3> QED
            BY <1>5, <3>1
    <2> QED
        BY <2>1, <2>2
<1>9. CallsShape'
    BY <1>1, <1>4 DEF PathInv, CallsShape
<1>10. StackShape' /\ LinesRun' /\ ReportStands'
    <2>1. StackShape' /\ LinesRun'
        BY <1>1 DEF PathInv, StackShape, LinesRun
    <2> QED
        BY <1>1, <2>1, ReportStays DEF PathInv
<1>11. EventsShape'
    BY <1>1, <1>5, <1>8 DEF EventsShape, Note
<1>12. EventsAreCalls'
    <2>1. \A i \in DOMAIN events :
              <<events[i].fn, events[i].self>> \in history /\ events[i].of \in watched(Key(events[i].fn))
        BY DEF PathInv, EventsAreCalls
    <2>2. \A i \in DOMAIN events' :
              <<events'[i].fn, events'[i].self>> \in history' /\ events'[i].of \in watched(Key(events'[i].fn))
        BY <1>1, <1>8, <2>1
    <2> QED
        BY <1>1, <2>2, WatchedStands DEF EventsAreCalls
<1>13. EventsAreFew'
    <2> SUFFICES ASSUME NEW g \in Function PROVE (Recorded(g) <= MaxEventsPerTarget)'
        BY DEF EventsAreFew
    <2>1. {i \in DOMAIN events' : events'[i].of = g} = {i \in DOMAIN events : events[i].of = g}
        BY <1>8
    <2>2. (Recorded(g))' = Recorded(g)
        BY <2>1, Zenon DEF Recorded
    <2>3. Recorded(g) <= MaxEventsPerTarget
        BY DEF PathInv, EventsAreFew
    <2> QED
        BY <2>2, <2>3
<1>14. CallsAreKept'
    <2> SUFFICES ASSUME NEW d \in history, NEW g \in TargetIds, g \in watched(Key(d[1]))
                 PROVE  \E i \in DOMAIN events' : events'[i].of = g
        BY <1>1, WatchedStands DEF CallsAreKept
    <2>1. PICK i \in DOMAIN events : events[i].of = g
        BY DEF PathInv, CallsAreKept
    <2> QED
        BY <1>8, <2>1
<1>15. FramesPointBack'
    <2> SUFFICES ASSUME NEW k \in DOMAIN stack, frame_event_idx[stack[k].id] # 0
                 PROVE  LET at == frame_event_idx[stack[k].id]
                        IN  \/ events'[at].n = stack[k].n
                            \/ /\ events'[at].n < stack[k].n
                               /\ \A j \in DOMAIN events' : events'[j].n # stack[k].n
        BY <1>1 DEF FramesPointBack
    <2> DEFINE at == frame_event_idx[stack[k].id]
    <2>1. at \in 0..Len(events) /\ at # 0
        BY <1>2, <1>5
    <2>2. \/ events[at].n = stack[k].n
          \/ /\ events[at].n < stack[k].n
             /\ \A j \in DOMAIN events : events[j].n # stack[k].n
        BY <2>1 DEF PathInv, FramesPointBack
    <2> HIDE DEF at
    <2>3. at \in DOMAIN events
        BY <1>5, <2>1
    <2>4. \/ events'[at].n = stack[k].n
          \/ /\ events'[at].n < stack[k].n
             /\ \A j \in DOMAIN events' : events'[j].n # stack[k].n
        BY <1>8, <2>2, <2>3
    <2> QED
        BY <2>4 DEF at
<1>16. ExceptionsAreTheirOwn'
    <2> SUFFICES ASSUME NEW i \in DOMAIN events, events'[i].exception
                 PROVE  \/ events[i].n \in raised'
                        \/ \E n \in raised' : n > events[i].n /\ \A j \in DOMAIN events : events[j].n # n
        <3>1. \A i \in DOMAIN events' : events'[i].exception =>
                  \/ events'[i].n \in raised'
                  \/ \E n \in raised' : n > events'[i].n /\ \A j \in DOMAIN events' : events'[j].n # n
            BY <1>8
        <3> QED
            BY <3>1 DEF ExceptionsAreTheirOwn
    <2>1. CASE events'[i] = events[i]
        <3>1. \/ events[i].n \in raised
              \/ \E n \in raised : n > events[i].n /\ \A j \in DOMAIN events : events[j].n # n
            BY <2>1 DEF PathInv, ExceptionsAreTheirOwn
        <3> QED
            BY <1>1, <3>1
    <2>2. CASE i = idx /\ idx # 0
        <3>1. call.n \in raised'
            BY <1>1
        <3>2. call.n \in Nat /\ events[idx].n \in Nat
            <4>1. events[idx] \in Note(calls)
                BY <1>5, <2>2
            <4>2. events[idx].n \in 1..calls
                BY <4>1, NoteHas
            <4>3. calls \in Nat
                BY Bounds DEF PathInv, CallsShape
            <4> QED
                BY <1>4, <4>2, <4>3
        <3> QED
            BY <1>7, <2>2, <3>1, <3>2
    <2> QED
        BY <1>8, <2>1, <2>2
<1> QED
    BY <1>9, <1>10, <1>11, <1>12, <1>13, <1>14, <1>15, <1>16 DEF PathInv

LEMMA ReturnKeeps == ASSUME PathInv, Return PROVE PathInv'
<1>1. /\ stack # <<>> /\ ~report.made /\ stack' = SubSeq(stack, 1, Len(stack) - 1)
      /\ UNCHANGED <<diff, events, frame_event_idx, executed, calls, history, raised, report>>
    BY DEF Return
<1>2. stack \in Seq(Live(calls)) /\ Len(stack) \in Nat /\ DOMAIN stack = 1..Len(stack)
    BY LiveHas DEF PathInv
<1>3. /\ stack' \in Seq(Live(calls)) /\ DOMAIN stack' \subseteq DOMAIN stack
      /\ \A k \in DOMAIN stack' : stack'[k] = stack[k]
    <2>1. Len(stack) - 1 \in Nat
        BY <1>1, <1>2
    <2>2. stack' \in Seq(Live(calls)) /\ Len(stack') = Len(stack) - 1 /\ DOMAIN stack' = 1..(Len(stack) - 1)
        BY <1>1, <1>2, <2>1
    <2>3. \A k \in 1..(Len(stack) - 1) : stack'[k] = stack[k]
        BY <1>1, <1>2, <2>1
    <2> QED
        BY <1>2, <2>1, <2>2, <2>3
<1>4. StackShape'
    <2>1. \A i, j \in DOMAIN stack : i # j => stack[i].id # stack[j].id
        BY DEF PathInv, StackShape
    <2> QED
        BY <1>1, <1>3, <2>1 DEF StackShape, Live
<1>5. FramesPointBack'
    <2>1. \A k \in DOMAIN stack :
              LET idx == frame_event_idx[stack[k].id]
              IN  idx # 0 => \/ events[idx].n = stack[k].n
                             \/ /\ events[idx].n < stack[k].n
                                /\ \A j \in DOMAIN events : events[j].n # stack[k].n
        BY DEF PathInv, FramesPointBack
    <2> QED
        BY <1>1, <1>3, <2>1 DEF FramesPointBack
<1>6. ReportStands'
    BY <1>1, ReportStays DEF PathInv
<1>7. CallsShape' /\ EventsShape' /\ LinesRun' /\ ExceptionsAreTheirOwn' /\ EventsAreFew'
    <2>1. CallsShape' /\ LinesRun'
        BY <1>1 DEF PathInv, CallsShape, LinesRun
    <2>2. EventsShape'
        BY <1>1 DEF PathInv, EventsShape
    <2>3. ExceptionsAreTheirOwn' /\ EventsAreFew'
        BY <1>1 DEF PathInv, ExceptionsAreTheirOwn, EventsAreFew, Recorded
    <2> QED
        BY <2>1, <2>2, <2>3
<1>8. EventsAreCalls' /\ CallsAreKept'
    BY <1>1, WatchedStands DEF PathInv, EventsAreCalls, CallsAreKept
<1> QED
    BY <1>4, <1>5, <1>6, <1>7, <1>8 DEF PathInv

\* Nothing moves but, at most, the report is made.
LEMMA ReportKeeps == ASSUME PathInv, BuildReports \/ UNCHANGED vars PROVE PathInv'
<1>1. UNCHANGED <<diff, stack, events, frame_event_idx, executed, calls, history, raised>>
    BY DEF BuildReports, vars
<1>2. CallsShape' /\ EventsShape' /\ LinesRun' /\ ExceptionsAreTheirOwn' /\ EventsAreFew'
    BY <1>1 DEF PathInv, CallsShape, EventsShape, LinesRun, ExceptionsAreTheirOwn, EventsAreFew, Recorded
<1>3. EventsAreCalls' /\ CallsAreKept'
    BY <1>1, WatchedStands DEF PathInv, EventsAreCalls, CallsAreKept
<1>4. StackShape' /\ FramesPointBack'
    BY <1>1 DEF PathInv, StackShape, FramesPointBack
<1>5. ReportStands'
    <2> DEFINE of(shown) == [path |-> {t \in Targets : evaluate_target(t, EventsOf(t.of))},
                             coverage |-> {t \in Targets : Covered(t, shown) # {}},
                             shown |-> shown, made |-> TRUE]
    <2>1. Targets' = Targets /\ \A t, shown : (Covered(t, shown))' = Covered(t, shown)
        BY <1>1 DEF Targets, Covered, match_file, evaluate_coverage, covered_lines_for_file
    <2>2. \A f : (EventsOf(f))' = EventsOf(f)
        BY <1>1 DEF EventsOf
    <2>3. \A shown : (of(shown))' = of(shown)
        BY <2>1, <2>2
    <2>4. report = NoReport \/ \E shown \in BOOLEAN : report = of(shown)
        BY DEF PathInv, ReportStands
    <2>5. report' = report \/ \E shown \in BOOLEAN : report' = of(shown)
        BY PathAssumption DEF BuildReports, vars
    <2>6. report' = NoReport \/ \E shown \in BOOLEAN : report' = (of(shown))'
        BY <2>3, <2>4, <2>5
    <2> QED
        BY <2>6 DEF ReportStands, NoReport
<1> QED
    BY <1>2, <1>3, <1>4, <1>5 DEF PathInv

LEMMA PathInvStep == PathInv /\ [Next]_vars => PathInv'
<1> SUFFICES ASSUME PathInv, [Next]_vars PROVE PathInv'
    OBVIOUS
<1>1. CASE Call
    BY <1>1, CallKeeps
<1>2. CASE Raise
    BY <1>2, RaiseKeeps
<1>3. CASE Return
    BY <1>3, ReturnKeeps
<1>4. CASE BuildReports \/ UNCHANGED vars
    BY <1>4, ReportKeeps
<1> QED
    BY <1>1, <1>2, <1>3, <1>4 DEF Next

LEMMA PathInvHolds == Spec => []PathInv
<1> QED
    BY InitRecords, PathInvStep, PTL DEF Spec

-----------------------------------------------------------------------------
(* What the invariant says of the report.                                  *)

LEMMA TypeFollows == PathInv => TypeOK
<1> SUFFICES ASSUME PathInv PROVE TypeOK
    OBVIOUS
<1>1. MaxCalls \in Nat /\ calls \in 0..MaxCalls /\ 1..calls \subseteq 1..MaxCalls
    <2>1. MaxCalls \in Nat /\ calls \in 0..MaxCalls
        BY Bounds DEF PathInv, CallsShape
    <2> QED
        BY <2>1
<1>2. stack \in Seq([fn : Function, id : FrameId, self : Self, n : 1..MaxCalls])
    <2>1. stack \in Seq(Live(calls))
        BY LiveHas DEF PathInv
    <2>2. Live(calls) \subseteq Live(MaxCalls)
        BY <1>1 DEF Live
    <2>3. stack \in Seq(Live(MaxCalls))
        BY <2>1, <2>2, LargerRecords
    <2> QED
        BY <2>3 DEF Live
<1>3. events \in Seq([of : Function, fn : Function, self : Self,
                      exception : BOOLEAN, n : 1..MaxCalls])
    <2>1. events \in Seq(Note(calls))
        BY EventsAreNotes DEF PathInv
    <2>2. Note(calls) \subseteq Note(MaxCalls)
        BY <1>1 DEF Note
    <2>3. events \in Seq(Note(MaxCalls))
        BY <2>1, <2>2, LargerRecords
    <2> QED
        BY <2>3 DEF Note
<1>4. executed \subseteq File \X Nat \X Context
    BY DEF PathInv, LinesRun
<1>5. /\ report.made \in BOOLEAN /\ report.shown \in BOOLEAN
      /\ report.path \union report.coverage \subseteq Targets
    <2>1. CASE report = NoReport
        BY <2>1 DEF NoReport
    <2>2. CASE report # NoReport
        <3>1. /\ report.path = {t \in Targets : evaluate_target(t, EventsOf(t.of))}
              /\ report.coverage = {t \in Targets : Covered(t, report.shown) # {}}
              /\ report.made = TRUE /\ report.shown \in BOOLEAN
            BY <2>2 DEF PathInv, ReportStands
        <3> QED
            BY <3>1
    <2> QED
        BY <2>1, <2>2
<1>6. \A f \in Function : Recorded(f) <= MaxEventsPerTarget
    BY DEF PathInv, EventsAreFew
<1>7. \A i, j \in DOMAIN stack : i # j => stack[i].id # stack[j].id
    BY DEF PathInv, StackShape
<1>8. frame_event_idx \in [FrameId -> 0..Len(events)]
    BY DEF PathInv, EventsShape
<1>9. diff \in Diffs /\ raised \subseteq 1..calls /\ history \subseteq Function \X Self
    BY DEF PathInv, CallsShape
<1> QED
    BY <1>1, <1>2, <1>3, <1>4, <1>5, <1>6, <1>7, <1>8, <1>9 DEF TypeOK

\* An event that counts for a target is one of those recorded for it.
LEMMA EventsOfIs ==
    ASSUME NEW f, NEW e \in EventsOf(f)
    PROVE  \E i \in DOMAIN events : e = events[i] /\ events[i].of = f
BY DEF EventsOf

LEMMA BoundFollows == PathInv => BoundMeansEntered
<1> SUFFICES ASSUME PathInv, NEW t \in report.path
             PROVE  \E c \in history :
                        c[2] = "recordset" /\ loc_matches(BaseName[c[1].file], co_firstlineno(c[1]), t)
    BY DEF BoundMeansEntered
<1> DEFINE evs == EventsOf(t.of)
           At(at) == loc_matches(at[1], at[2], t)
<1>1. t \in Targets /\ evaluate_target(t, evs)
    BY DEF PathInv, ReportStands, NoReport
<1>2. /\ registry_fact(t.of) # {}
      /\ \E e \in evs : e.self = "recordset"
      /\ \/ \E e \in evs : At(Key(e.fn))
         \/ \E g \in registry_fact(t.of) : At(Key(g))
    <2>1. \A fn : At(Key(fn)) <=> loc_matches(BaseName[fn.file], co_firstlineno(fn), t)
        BY DEF Key
    <2> HIDE DEF At, evs
    <2> QED
        BY <1>1, <2>1, Zenon DEF evaluate_target
<1>3. PICK g \in registry_fact(t.of) : \A h \in registry_fact(t.of) : h = g
    BY <1>2, PlaceIsOne
<1>4. watched_key(t.of) = {Key(g)}
    BY <1>2, <1>3 DEF watched_key
<1>5. \A e \in evs : <<e.fn, e.self>> \in history /\ Key(e.fn) = Key(g)
    <2> SUFFICES ASSUME NEW e \in evs PROVE <<e.fn, e.self>> \in history /\ Key(e.fn) = Key(g)
        OBVIOUS
    <2>1. PICK i \in DOMAIN events : e = events[i] /\ events[i].of = t.of
        BY EventsOfIs
    <2>2. <<e.fn, e.self>> \in history /\ t.of \in watched(Key(e.fn))
        BY <2>1 DEF PathInv, EventsAreCalls
    <2>3. Key(e.fn) \in watched_key(t.of)
        BY <2>2 DEF watched
    <2> QED
        BY <1>4, <2>2, <2>3
<1> HIDE DEF evs, At
<1>6. PICK e \in evs : e.self = "recordset"
    BY <1>2
<1>7. At(Key(g))
    BY <1>2, <1>3, <1>5
<1>8. <<e.fn, e.self>> \in history /\ At(Key(e.fn))
    BY <1>5, <1>6, <1>7
<1> QED
    BY <1>6, <1>8 DEF At, Key

LEMMA ExercisedFollows == PathInv => ExercisedIsBound
<1> SUFFICES ASSUME PathInv, report.made, NEW t \in Targets, Resolvable(t.of),
                    <<t.of, "recordset">> \in history, <<t.of, "mock">> \notin history
             PROVE  t \in report.path
    BY DEF ExercisedIsBound
<1> DEFINE f == t.of
           evs == EventsOf(f)
<1>1. f \in Function /\ f \in TargetIds
    BY TargetIs DEF TargetIds
<1> HIDE DEF f
<1>2. /\ f.first = f.def /\ registry_fact(f) = {f} /\ watched_key(f) = {Key(f)}
      /\ \A g \in Function \ {f} : Key(f) \notin {Key(g), <<BaseName[g.file], g.def>>}
      /\ \A g \in TargetIds \ {f} : registry_fact(g) = {f} => Rank[g] < Rank[f]
    BY DEF f, Resolvable, watched_key
<1>3. f \in watched(Key(f))
    <2> SUFFICES ASSUME NEW g \in TargetIds \ {f}, Key(f) \in watched_key(g)
                 PROVE  registry_fact(g) = {f}
        BY <1>1, <1>2 DEF watched
    <2>1. g \in Function
        BY TargetIdsAreFunctions
    <2>2. Key(f) # <<BaseName[g.file], g.def>>
        BY <1>2, <2>1
    <2>3. PICK h \in registry_fact(g) : Key(f) = Key(h)
        BY <2>2 DEF watched_key
    <2>4. h \in Function
        BY <2>1, <2>3, RegistryIsOfFunctions
    <2>5. h = f
        BY <1>2, <2>3, <2>4
    <2> QED
        BY <2>3, <2>5, PlaceIsOne
<1>4. PICK i \in DOMAIN events : events[i].of = f
    BY <1>1, <1>3 DEF PathInv, CallsAreKept, f
<1>5. <<events[i].fn, events[i].self>> \in history /\ Key(events[i].fn) \in watched_key(f)
    BY <1>4 DEF PathInv, EventsAreCalls, watched
<1>6. events[i].fn \in Function /\ events[i].self \in Self
    BY <1>4, EventsAreNotes, NoteHas DEF PathInv
<1>7. events[i].fn = f
    BY <1>2, <1>5, <1>6
<1>8. events[i].self = "recordset"
    BY <1>5, <1>6, <1>7 DEF Self, f
<1>9. events[i] \in evs
    BY <1>4 DEF EventsOf
<1>10. loc_matches(BaseName[f.file], co_firstlineno(f), t)
    <2>1. f.def <= f.last /\ f.def \in Nat
        BY <1>1, SourceAssumption
    <2> QED
        BY <1>2, <2>1 DEF loc_matches, co_firstlineno, f
<1>11. evaluate_target(t, evs)
    BY <1>2, <1>8, <1>9, <1>10 DEF evaluate_target, f
<1>12. report.path = {x \in Targets : evaluate_target(x, EventsOf(x.of))}
    BY DEF PathInv, ReportStands, NoReport
<1> QED
    BY <1>11, <1>12 DEF f

\* The lines that ran in some contexts are some of the target's.
LEMMA RanIsFinite ==
    ASSUME NEW t \in Targets, NEW C
    PROVE  Ran(t, C) \subseteq t.lines /\ IsFiniteSet(t.lines)
BY TargetIs DEF Ran

\* What is enough stays enough with more lines.
LEMMA MoreIsEnough ==
    ASSUME NEW t \in Targets, NEW few, NEW more, few \subseteq more, more \subseteq t.lines,
           Enough(t, few)
    PROVE  Enough(t, more)
<1>1. IsFiniteSet(t.lines) /\ IsFiniteSet(more) /\ IsFiniteSet(few)
    BY TargetIs, FS_Subset
<1>2. /\ Cardinality(few) <= Cardinality(more)
      /\ Cardinality(few) \in Nat /\ Cardinality(more) \in Nat /\ Cardinality(t.lines) \in Nat
    BY <1>1, FS_Subset, FS_CardinalityType
<1>3. IF t.of.model \in Critical THEN few = t.lines
      ELSE 10 * Cardinality(few) >= 9 * Cardinality(t.lines)
    BY Zenon DEF Enough
<1>4. IF t.of.model \in Critical THEN more = t.lines
      ELSE 10 * Cardinality(more) >= 9 * Cardinality(t.lines)
    <2>1. CASE t.of.model \in Critical
        <3>1. few = t.lines
            BY <1>3, <2>1, Zenon
        <3>2. more = t.lines
            BY <3>1
        <3> QED
            BY <2>1, <3>2, Zenon
    <2>2. CASE t.of.model \notin Critical
        <3>1. 10 * Cardinality(few) >= 9 * Cardinality(t.lines)
            BY <1>3, <2>2
        <3>2. 10 * Cardinality(more) >= 9 * Cardinality(t.lines)
            BY <1>2, <3>1
        <3> QED
            BY <2>2, <3>2
    <2> QED
        BY <2>1, <2>2
<1> QED
    BY <1>4, Zenon DEF Enough

LEMMA CountedRan ==
    ASSUME PathInv, NEW t \in Targets, NEW k \in match_file(t.of.file)
    PROVE  t.lines \intersect covered_lines_for_file(k, report.shown) \subseteq Ran(t, MayCount)
<1> SUFFICES ASSUME NEW l \in t.lines, l \in covered_lines_for_file(k, report.shown)
             PROVE  l \in Ran(t, MayCount)
    OBVIOUS
<1>1. t.of.file \in File
    BY TargetIs, SourceAssumption
<1>2. k \in File /\ <<k, t.of.file>> \in EndsWith
    <2>1. CASE \E x \in executed : x[1] = t.of.file
        BY <1>1, <2>1, PathAssumption DEF match_file
    <2>2. CASE ~\E x \in executed : x[1] = t.of.file
        BY <2>2 DEF match_file
    <2> QED
        BY <2>1, <2>2
<1>3. PICK x \in executed : x[1] = k /\ (report.shown => is_test_context(x[3])) /\ x[2] = l
    BY DEF covered_lines_for_file
<1>4. x = <<k, l, x[3]>> /\ x[3] \in Context
    BY <1>3 DEF PathInv, LinesRun
<1>5. x[3] \in MayCount
    BY <1>3, <1>4 DEF MayCount, is_test_context
<1> QED
    BY <1>2, <1>3, <1>4, <1>5 DEF Ran

LEMMA CoverageFollows == PathInv => CoveredMeansRun
<1> SUFFICES ASSUME PathInv, NEW t \in report.coverage
             PROVE  Enough(t, Ran(t, MayCount))
    BY DEF CoveredMeansRun
<1>1. t \in Targets /\ Covered(t, report.shown) # {}
    BY DEF PathInv, ReportStands, NoReport
<1>2. PICK k \in match_file(t.of.file) : evaluate_coverage(t, k, report.shown)
    BY <1>1 DEF Covered
<1> DEFINE covered == t.lines \intersect covered_lines_for_file(k, report.shown)
<1>3. Enough(t, covered)
    BY <1>2 DEF evaluate_coverage
<1>4. covered \subseteq Ran(t, MayCount) /\ Ran(t, MayCount) \subseteq t.lines
    BY <1>1, <1>2, CountedRan, RanIsFinite
<1> HIDE DEF covered
<1> QED
    BY <1>1, <1>3, <1>4, MoreIsEnough

LEMMA TestedFollows == PathInv => TestedIsCovered
<1> DEFINE tested(t) == {l \in t.lines : \E c \in RealTests \ NamedOtherwise :
                                            <<t.of.file, l, c>> \in executed}
<1> SUFFICES ASSUME PathInv, report.made, NEW t \in Targets, tested(t) # {}, Enough(t, tested(t))
             PROVE  t \in report.coverage
    BY DEF TestedIsCovered
<1> DEFINE k == t.of.file
           covered == t.lines \intersect covered_lines_for_file(k, report.shown)
<1>1. k \in File
    BY TargetIs, SourceAssumption
<1>2. \A c \in RealTests \ NamedOtherwise : is_test_context(c)
    BY PathAssumption DEF is_test_context
<1>3. k \in match_file(k)
    <2>1. PICK l \in t.lines, c \in RealTests : <<k, l, c>> \in executed
        OBVIOUS
    <2>2. \E x \in executed : x[1] = k
        BY <2>1
    <2> QED
        BY <2>2 DEF match_file
<1>4. tested(t) \subseteq covered
    <2> SUFFICES ASSUME NEW l \in t.lines, NEW c \in RealTests \ NamedOtherwise,
                        <<k, l, c>> \in executed
                 PROVE  l \in covered_lines_for_file(k, report.shown)
        OBVIOUS
    <2> DEFINE x == <<k, l, c>>
    <2>1. x \in executed /\ x[1] = k /\ is_test_context(x[3]) /\ x[2] = l
        BY <1>2
    <2> HIDE DEF x
    <2> QED
        BY <2>1 DEF covered_lines_for_file
<1>5. Enough(t, covered)
    <2>1. covered \subseteq t.lines
        OBVIOUS
    <2> HIDE DEF covered, tested
    <2> QED
        BY <1>4, <2>1, MoreIsEnough
<1>6. k \in Covered(t, report.shown)
    BY <1>3, <1>5 DEF Covered, evaluate_coverage
<1>7. report.coverage = {x \in Targets : Covered(x, report.shown) # {}}
    BY DEF PathInv, ReportStands, NoReport
<1> QED
    BY <1>6, <1>7

\* A line changed if a hunk has it among its new ones.
LEMMA ChangedIsNew ==
    ASSUME diff \in Diffs, NEW f \in File, NEW l \in Nat
    PROVE  l \in parse_diff_changed_lines(diff)[f] <=> IsNew(f, l)
<1> DEFINE hunks == {g \in diff : g.file = f /\ f \notin TestFile /\ g.count > 0}
<1>1. parse_diff_changed_lines(diff)[f] = UNION {h.start..(h.start + h.count - 1) : h \in hunks}
    BY DEF parse_diff_changed_lines
<1>2. \A h \in diff : h.start \in Nat /\ h.count \in Nat
    BY PathAssumption DEF Hunk
<1>3. l \in parse_diff_changed_lines(diff)[f]
          <=> \E h \in hunks : l \in h.start..(h.start + h.count - 1)
    BY <1>1
<1>4. \A h \in diff : (h.count > 0 /\ l \in h.start..(h.start + h.count - 1))
                         <=> (h.start <= l /\ l < h.start + h.count)
    BY <1>2
<1> QED
    BY <1>3, <1>4 DEF IsNew

LEMMA NewFollows == PathInv => NewLinesAreAsked
<1> SUFFICES ASSUME PathInv
             PROVE  /\ \A t \in Targets : \A l \in t.lines : IsNew(t.of.file, l)
                    /\ \A f \in Function :
                          LET new == {l \in Span(f) : IsNew(f.file, l)}
                          IN  new # {} => [of |-> f, lines |-> new] \in Targets
    BY DEF NewLinesAreAsked
<1> DEFINE changed == parse_diff_changed_lines(diff)
<1>1. diff \in Diffs
    BY DEF PathInv, CallsShape
<1>2. \A f \in Function : f.file \in File /\ Span(f) \subseteq Nat
    BY SourceAssumption DEF Span
<1>3. \A x \in Field : x.line \in Nat /\ x.compute \in Function /\ x.file = x.compute.file
    BY SourceAssumption
<1>4. \A f \in File, l \in Nat : l \in changed[f] <=> IsNew(f, l)
    BY <1>1, ChangedIsNew
<1> HIDE DEF changed
<1>5. Targets = (UNION {function_target(f, changed) : f \in Function})
                    \union (UNION {computed_field_target(x, changed) : x \in Field})
    BY DEF Targets, diff_targets, map_lines_to_targets, changed
<1>6. ASSUME NEW t \in Targets, NEW l \in t.lines PROVE IsNew(t.of.file, l)
    <2>1. CASE \E f \in Function : t \in function_target(f, changed)
        <3>1. PICK f \in Function : t \in function_target(f, changed)
            BY <2>1
        <3>2. t.of = f /\ t.lines = Span(f) \intersect changed[f.file]
            BY <3>1 DEF function_target
        <3> QED
            BY <1>2, <1>4, <1>6, <3>2
    <2>2. CASE \E x \in Field : t \in computed_field_target(x, changed)
        <3>1. PICK x \in Field : t \in computed_field_target(x, changed)
            BY <2>2
        <3>2. t.of = x.compute /\ l = x.line /\ l \in changed[x.file]
            BY <1>6, <3>1 DEF computed_field_target
        <3> QED
            BY <1>2, <1>3, <1>4, <3>2
    <2> QED
        BY <1>5, <2>1, <2>2
<1>7. ASSUME NEW f \in Function, {l \in Span(f) : IsNew(f.file, l)} # {}
      PROVE  [of |-> f, lines |-> {l \in Span(f) : IsNew(f.file, l)}] \in Targets
    <2>1. {l \in Span(f) : IsNew(f.file, l)} = Span(f) \intersect changed[f.file]
        BY <1>2, <1>4
    <2>2. [of |-> f, lines |-> {l \in Span(f) : IsNew(f.file, l)}] \in function_target(f, changed)
        BY <1>7, <2>1 DEF function_target
    <2> QED
        BY <1>5, <2>2
<1> QED
    BY <1>6, <1>7

\* No target has more than MAX_EVENTS_PER_TARGET events, no two live frames one
\* identity, and what the gate reports is of targets of the diff.
THEOREM TypeCorrect == Spec => []TypeOK
<1> QED
    BY PathInvHolds, TypeFollows, PTL

\* build_report of runtime_path_probe.py: for any sources, diff and list of
\* targets, whatever the tests call, raise and return, what is bound was entered
\* through a recordset, and what tests entered, and the registry resolves, is
\* bound; an exception is of the call it is noted for, or of one not recorded.
THEOREM PathReportsAreTrue == Spec => []PathReportIsTrue
<1>1. PathInv => PathReportIsTrue
    BY BoundFollows, ExercisedFollows DEF PathReportIsTrue, PathInv
<1> QED
    BY <1>1, PathInvHolds, PTL

\* changed_coverage_gate.py: for any diff, coverage data, contexts and names of files,
\* a target's lines are the new ones; it counts as covered only with lines that ran,
\* in no context named otherwise if there are contexts, and counts once tests ran enough.
THEOREM CoverageIsCounted == Spec => []CoverageIsTrue
<1>1. PathInv => CoverageIsTrue
    BY CoverageFollows, TestedFollows, NewFollows DEF CoverageIsTrue
<1> QED
    BY <1>1, PathInvHolds, PTL

-----------------------------------------------------------------------------
(* The observer: however often the trace function is installed, set and    *)
(* taken away, sealed means watched.                                       *)

\* With its hook in place the audit counter misses nothing, and an event is that
\* of a call.
CountsAreCalls == \A t \in Expected : counts[t] > 0 => \E fn \in called : t \in Watched(fn)
TogglesAreSeen == installed /\ hook /\ toggles = 0 => steady

ObserverInv == ObserverTypeOK /\ CountsAreCalls /\ TogglesAreSeen /\ SealedMeansWatched

LEMMA IntegrityType == ASSUME NEW s PROVE evaluate_integrity(s) \in Integrity
BY DEF evaluate_integrity, Integrity

LEMMA OneMoreType ==
    ASSUME NEW n \in 0..MaxEvents PROVE one_more(n) \in 0..MaxEvents
BY ObserverAssumption DEF one_more

LEMMA AuditedType ==
    ASSUME ObserverTypeOK, Audited
    PROVE  toggles' \in 0..MaxToggles + 1 /\ (hook => toggles' > 0)
<1>1. toggles \in Nat /\ toggles \in 0..MaxToggles + 1 /\ MaxToggles \in Nat
  BY ObserverAssumption DEF ObserverTypeOK
<1>2. CASE hook
  BY <1>1, <1>2 DEF Audited
<1>3. CASE ~hook
  BY <1>1, <1>3 DEF Audited
<1> QED
  BY <1>2, <1>3

LEMMA FinalizeType ==
    ASSUME ObserverTypeOK, finalize
    PROVE  toggles' \in 0..MaxToggles + 1 /\ (hook => toggles' > 0)
<1>1. toggles \in Nat /\ toggles \in 0..MaxToggles + 1 /\ MaxToggles \in Nat
  BY ObserverAssumption DEF ObserverTypeOK
<1>2. toggles' = IF hook /\ toggles <= MaxToggles THEN toggles + 1 ELSE toggles
  BY DEF finalize
<1>3. CASE hook /\ toggles <= MaxToggles
  BY <1>1, <1>2, <1>3
<1>4. CASE ~(hook /\ toggles <= MaxToggles)
  BY <1>1, <1>2, <1>4
<1> QED
  BY <1>3, <1>4

LEMMA TypeInit == ObserverInit => ObserverTypeOK
<1> SUFFICES ASSUME ObserverInit PROVE ObserverTypeOK
  OBVIOUS
<1>1. 0 \in 0..MaxEvents /\ 0 \in 0..MaxBeats /\ 0 \in 0..MaxToggles + 1
      /\ 0 \in 0..MaxInstalls
  BY ObserverAssumption
<1>2. counts \in [Expected -> 0..MaxEvents]
  BY <1>1 DEF ObserverInit
<1>3. heartbeats = 0 /\ toggles = 0 /\ installs = 0
  BY DEF ObserverInit
<1>4. tracer \in {"none", "ours", "other"} /\ access \in Access
  BY DEF ObserverInit
<1>5. installed = FALSE /\ hook = FALSE /\ steady = FALSE /\ stood = FALSE /\ called = {}
  BY DEF ObserverInit
<1>6. written = "none" /\ self_report = "none" /\ ci = "waiting"
  BY DEF ObserverInit
<1> QED
  BY <1>1, <1>2, <1>3, <1>4, <1>5, <1>6 DEF ObserverTypeOK

LEMMA TypeNext == ObserverTypeOK /\ [ObserverNext]_observer => ObserverTypeOK'
<1> SUFFICES ASSUME ObserverTypeOK, [ObserverNext]_observer PROVE ObserverTypeOK'
  OBVIOUS
<1> USE DEF ObserverTypeOK
<1>0. 0 \in 0..MaxEvents /\ 0 \in 0..MaxBeats /\ 0 \in 0..MaxToggles + 1
  BY ObserverAssumption
<1>1. CASE install
  <2>1. installs' \in 0..MaxInstalls
    BY <1>1, ObserverAssumption DEF install
  <2>2. counts' \in [Expected -> 0..MaxEvents]
    BY <1>0, <1>1 DEF install
  <2> QED
    BY <1>0, <1>1, <2>1, <2>2 DEF install
<1>2. ASSUME NEW fn \in Function, TracedCall(fn) PROVE ObserverTypeOK'
  <2>1. heartbeats' \in 0..MaxBeats
    BY <1>2, ObserverAssumption DEF TracedCall
  <2>2. counts' \in [Expected -> 0..MaxEvents]
    BY <1>2, OneMoreType DEF TracedCall
  <2> QED
    BY <1>2, <2>1, <2>2 DEF TracedCall
<1>3. CASE SetTrace
  <2>1. toggles' \in 0..MaxToggles + 1
    BY <1>3, AuditedType DEF SetTrace
  <2> QED
    BY <1>3, <2>1 DEF SetTrace
<1>4. CASE SetProfile
  <2>1. toggles' \in 0..MaxToggles + 1
    BY <1>4, AuditedType DEF SetProfile
  <2> QED
    BY <1>4, <2>1 DEF SetProfile
<1>5. CASE finalize
  <2>1. toggles' \in 0..MaxToggles + 1
    BY <1>5, FinalizeType
  <2>2. self_report' \in Integrity
    BY <1>5, IntegrityType DEF finalize
  <2>3. written' \in Integrity \union {"none"} /\ access' \in Access
    BY <1>5, <2>2 DEF finalize, Access
  <2>4. UNCHANGED <<installed, counts, heartbeats, hook, ci, installs, called>>
        /\ tracer' = "none" /\ stood' = steady /\ steady' = FALSE
    BY <1>5 DEF finalize
  <2> QED
    BY <2>1, <2>2, <2>3, <2>4
<1>6. CASE Evaluate
  BY <1>6 DEF Evaluate
<1>7. CASE UNCHANGED observer
  BY <1>7 DEF observer
<1> QED
  BY <1>1, <1>2, <1>3, <1>4, <1>5, <1>6, <1>7 DEF ObserverNext

LEMMA ObserverInvInit == ObserverInit => ObserverInv
<1> SUFFICES ASSUME ObserverInit PROVE ObserverInv
  OBVIOUS
<1>1. ObserverTypeOK
  BY TypeInit
<1>2. CountsAreCalls /\ TogglesAreSeen /\ SealedMeansWatched
  BY DEF ObserverInit, CountsAreCalls, TogglesAreSeen, SealedMeansWatched
<1> QED
  BY <1>1, <1>2 DEF ObserverInv

\* If as many targets were hit as there are, each was.
LEMMA AllHit ==
    ASSUME ObserverTypeOK, ~(Cardinality(Expected) > 0 /\ Cardinality(Hit) < Cardinality(Expected))
    PROVE  \A t \in Expected : counts[t] > 0
<1>1. IsFiniteSet(Expected) /\ Hit \subseteq Expected
  BY ObserverAssumption DEF Hit
<1>2. IsFiniteSet(Hit) /\ Cardinality(Hit) <= Cardinality(Expected)
  BY <1>1, FS_Subset
<1>3. Cardinality(Hit) \in Nat /\ Cardinality(Expected) \in Nat
  BY <1>1, <1>2, FS_CardinalityType
<1>4. Cardinality(Hit) = Cardinality(Expected)
  BY <1>2, <1>3
<1>5. Hit = Expected
  BY <1>1, <1>4, FS_Subset
<1> QED
  BY <1>5 DEF Hit

LEMMA SealedNow ==
    ASSUME ObserverInv, evaluate_integrity(observed) = "sealed"
    PROVE  /\ hook => steady
           /\ \A t \in Expected : \E fn \in called : t \in Watched(fn)
<1>1. /\ installed /\ ~(installed /\ toggles > 0)
      /\ ~Incomplete(observed)
  BY DEF evaluate_integrity, observed
<1>2. toggles = 0
  BY <1>1, ObserverAssumption DEF ObserverInv, ObserverTypeOK
<1>3. ~(Cardinality(Expected) > 0 /\ Cardinality(Hit) < Cardinality(Expected))
  BY <1>1 DEF Incomplete, observed
<1>4. \A t \in Expected : counts[t] > 0
  BY <1>3, AllHit DEF ObserverInv
<1> QED
  BY <1>1, <1>2, <1>4 DEF ObserverInv, TogglesAreSeen, CountsAreCalls

LEMMA ObserverInvNext == ObserverInv /\ [ObserverNext]_observer => ObserverInv'
<1> SUFFICES ASSUME ObserverInv, [ObserverNext]_observer PROVE ObserverInv'
  OBVIOUS
<1>0. ObserverTypeOK /\ ObserverTypeOK'
  BY TypeNext DEF ObserverInv
<1>1. CASE install
  <2>1. CountsAreCalls'
    BY <1>1 DEF install, CountsAreCalls
  <2>2. TogglesAreSeen' /\ SealedMeansWatched'
    BY <1>1 DEF install, TogglesAreSeen, SealedMeansWatched
  <2> QED
    BY <1>0, <2>1, <2>2 DEF ObserverInv
<1>2. ASSUME NEW fn \in Function, TracedCall(fn) PROVE ObserverInv'
  <2>1. called' = called \union {fn}
        /\ UNCHANGED <<installed, self_report, hook, toggles, steady, stood>>
    BY <1>2 DEF TracedCall
  <2>2. CountsAreCalls'
    <3> SUFFICES ASSUME NEW t \in Expected, counts'[t] > 0
                 PROVE  \E g \in called' : t \in Watched(g)
      BY DEF CountsAreCalls
    <3>1. counts'[t] = counts[t] \/ t \in Noted[fn]
      BY <1>0, <1>2 DEF TracedCall, ObserverTypeOK
    <3>2. CASE counts'[t] = counts[t]
      BY <2>1, <3>2 DEF ObserverInv, CountsAreCalls
    <3>3. CASE t \in Noted[fn]
      BY <2>1, <3>3 DEF Noted
    <3> QED
      BY <3>1, <3>2, <3>3
  <2>3. TogglesAreSeen' /\ SealedMeansWatched'
    BY <2>1 DEF ObserverInv, TogglesAreSeen, SealedMeansWatched
  <2> QED
    BY <1>0, <2>2, <2>3 DEF ObserverInv
<1>3. CASE SetTrace
  <2>1. CountsAreCalls'
    BY <1>3 DEF SetTrace, ObserverInv, CountsAreCalls
  <2>2. (hook => toggles' > 0) /\ hook' = hook
    BY <1>0, <1>3, AuditedType DEF SetTrace
  <2>3. TogglesAreSeen'
    BY <2>2 DEF TogglesAreSeen
  <2>4. SealedMeansWatched'
    BY <1>3 DEF SetTrace, ObserverInv, SealedMeansWatched
  <2> QED
    BY <1>0, <2>1, <2>3, <2>4 DEF ObserverInv
<1>4. CASE SetProfile
  <2>1. (hook => toggles' > 0) /\ hook' = hook
    BY <1>0, <1>4, AuditedType DEF SetProfile
  <2> QED
    BY <1>0, <1>4, <2>1
       DEF SetProfile, ObserverInv, CountsAreCalls, TogglesAreSeen, SealedMeansWatched
<1>5. CASE finalize
  <2>1. /\ UNCHANGED <<installed, counts, hook, called>> /\ stood' = steady
        /\ self_report' = evaluate_integrity(observed)
    BY <1>5 DEF finalize
  <2>3. hook => toggles' > 0
    BY <1>0, <1>5, FinalizeType
  <2>4. TogglesAreSeen'
    BY <2>1, <2>3 DEF TogglesAreSeen
  <2>5. SealedMeansWatched'
    BY <2>1, SealedNow DEF SealedMeansWatched
  <2> QED
    BY <1>0, <2>1, <2>4, <2>5 DEF ObserverInv, CountsAreCalls
<1>6. CASE Evaluate
  BY <1>0, <1>6 DEF Evaluate, ObserverInv, CountsAreCalls, TogglesAreSeen, SealedMeansWatched
<1>7. CASE UNCHANGED observer
  BY <1>0, <1>7 DEF observer, ObserverInv, CountsAreCalls, TogglesAreSeen, SealedMeansWatched
<1> QED
  BY <1>1, <1>2, <1>3, <1>4, <1>5, <1>6, <1>7 DEF ObserverNext

\* In a sealed run something was called at the place of every target, and, if the
\* audit hook could be put in place, it was watched from the install on.
THEOREM SealIsEarned == ObserverSpec => []SealedMeansWatched
<1>1. ObserverInit => ObserverInv
  BY ObserverInvInit
<1>2. ObserverInv /\ [ObserverNext]_observer => ObserverInv'
  BY ObserverInvNext
<1>3. ObserverInv => SealedMeansWatched
  BY DEF ObserverInv
<1> QED
  BY <1>1, <1>2, <1>3, PTL DEF ObserverSpec

\* The observer's state keeps its type.
THEOREM ObserverTypeCorrect == ObserverSpec => []ObserverTypeOK
BY TypeInit, TypeNext, PTL DEF ObserverSpec

-----------------------------------------------------------------------------
(* The cache: the invariant of its files and processes.                    *)

\* A payload that may be kept under key k, computed when the tree was not
\* newer than t.
Fits(p, k, t) ==
    /\ p \in Payload
    /\ p.request = k.request
    /\ p.tree <= t
    /\ AddonsPath => p.tree >= k.fingerprint

\* Every record, finished or still being written, is one its key may name.
FilesFit ==
    \A k \in CacheKey : \A c \in {file[k], temp[k]} :
        c.kind = "record" => Fits(c.payload, k, tree)

\* A process that is storing holds the result of its own request.
Storing == {"open", "write", "rename"}

HoldsResult(s) ==
    server[s].step \in Storing =>
        /\ server[s].payload.kind = "result"
        /\ server[s].payload.payload.tree >= server[s].since
        /\ Fits(server[s].payload.payload, key(s), tree)

GoodAnswer(s) ==
    Answered(s) =>
        /\ server[s].step # "down"
        /\ server[s].answer.payload.request = server[s].request
        /\ server[s].answer.payload.merge_eligible =>
              server[s].answer.payload.tree >= server[s].since
        /\ AddonsPath => server[s].answer.payload.tree >= server[s].fingerprint

\* What a process remembers of the tree is not from the future.
Past(s) == server[s].since <= tree /\ server[s].fingerprint <= tree

IInv ==
    /\ CacheTypeOK
    /\ FilesFit
    /\ \A s \in Server : HoldsResult(s) /\ GoodAnswer(s) /\ Past(s)

-----------------------------------------------------------------------------

LEMMA DownType == Down \in Process
<1>1. (CHOOSE r \in Request : TRUE) \in Request
  BY CacheAssumption
<1> QED
  BY <1>1, CacheAssumption DEF Down, Process, Step, Tree, Answers

LEMMA TreeOrder == CacheTypeOK => tree <= tree
BY CacheAssumption DEF CacheTypeOK, Tree

\* A rename moves open files of other processes and nothing else of theirs.
LEMMA RenamedType ==
    ASSUME CacheTypeOK, NEW k PROVE Renamed(k) \in [Server -> Process]
<1>1. \A t \in Server : server[t] \in Process
  BY DEF CacheTypeOK
<1>2. \A t \in Server : [server[t] EXCEPT !.fd = IF @ = "temp" THEN "file" ELSE "gone"]
                           \in Process
  BY <1>1 DEF Process
<1> QED
  BY <1>1, <1>2 DEF Renamed

LEMMA RenamedSame ==
    ASSUME CacheTypeOK, NEW k, NEW t \in Server
    PROVE  \A f \in {"step", "request", "fingerprint", "since", "payload", "answer"} :
              Renamed(k)[t][f] = server[t][f]
BY DEF CacheTypeOK, Process, Renamed

\* Keys are well formed and name their request and fingerprint.
LEMMA KeyType ==
    ASSUME CacheTypeOK, NEW s \in Server
    PROVE  /\ key(s) \in CacheKey
           /\ key(s).request = server[s].request
           /\ key(s).fingerprint = server[s].fingerprint
BY DEF CacheTypeOK, Process, key, cache_key, CacheKey

\* Stamping changes neither request nor tree, and only a cold stamp is eligible.
LEMMA StampType ==
    ASSUME NEW p, p.request \in Request, p.tree \in Tree, NEW v \in Provenance
    PROVE  /\ mark_provenance(p, v) \in Payload
           /\ mark_provenance(p, v).request = p.request
           /\ mark_provenance(p, v).tree = p.tree
           /\ mark_provenance(p, v).merge_eligible <=> v = "cold"
BY DEF mark_provenance, Payload, Provenance

LEMMA InitSafe == CacheInit => IInv
<1> SUFFICES ASSUME CacheInit PROVE IInv
  OBVIOUS
<1>2. Down \in Process
  BY DownType
<1>3. CacheTypeOK
  BY <1>2, CacheAssumption DEF CacheInit, CacheTypeOK, Tree, Content
<1> QED
  BY <1>3 DEF CacheInit, IInv, FilesFit, Nothing, HoldsResult, GoodAnswer, Answered,
     Down, Storing, NoAnswer, Past

\* A step of one process that leaves the files and the tree alone keeps the
\* invariant if that process itself ends well.
LEMMA OneServer ==
    ASSUME IInv, NEW s \in Server, NEW p \in Process,
           server' = [server EXCEPT ![s] = p],
           UNCHANGED <<tree, file, temp>>,
           HoldsResult(s)', GoodAnswer(s)', Past(s)'
    PROVE  IInv'
<1>1. server' \in [Server -> Process] /\ \A t \in Server \ {s} : server'[t] = server[t]
  BY DEF IInv, CacheTypeOK
<1>2. CacheTypeOK' /\ FilesFit'
  BY <1>1 DEF IInv, CacheTypeOK, FilesFit, Fits
<1>3. \A t \in Server \ {s} : HoldsResult(t)' /\ GoodAnswer(t)' /\ Past(t)'
  BY <1>1 DEF IInv, HoldsResult, GoodAnswer, Past, Answered, Fits, key
<1> QED
  BY <1>2, <1>3 DEF IInv

\* A reply is the end of a request: the process holds nothing more.
LEMMA ReplySafe ==
    ASSUME IInv, NEW s \in Server, NEW a \in Answers,
           server' = Reply(s, a), UNCHANGED <<tree, file, temp>>,
           a.kind = "result" =>
               /\ a.payload.request = server[s].request
               /\ a.payload.merge_eligible => a.payload.tree >= server[s].since
               /\ AddonsPath => a.payload.tree >= server[s].fingerprint
    PROVE  IInv'
<1> DEFINE p == [server[s] EXCEPT !.step = "idle", !.answer = a,
                                  !.payload = NoAnswer, !.fd = "none"]
<1>1. server[s] \in Process
  BY DEF IInv, CacheTypeOK
<1>2. p \in Process /\ server' = [server EXCEPT ![s] = p]
  BY <1>1 DEF Process, Step, Answers, Reply
<1>3. server'[s] = p
  BY <1>2 DEF IInv, CacheTypeOK
<1>4. HoldsResult(s)' /\ GoodAnswer(s)' /\ Past(s)'
  BY <1>1, <1>3 DEF IInv, Past, HoldsResult, GoodAnswer, Answered, Storing, Process
<1> QED
  BY <1>2, <1>4, OneServer

\* The step leaves process t what it was, but for its open file and its place.
SameHolder(t) ==
    /\ server'[t].request = server[t].request
    /\ server'[t].fingerprint = server[t].fingerprint
    /\ server'[t].since = server[t].since
    /\ server'[t].payload = server[t].payload
    /\ server'[t].answer = server[t].answer
    /\ server'[t].step \in Storing => server[t].step \in Storing
    /\ server'[t].step = "down" => server[t].step = "down"

\* Such a process still holds and answers what it may.
LEMMA HolderSafe ==
    ASSUME IInv, CacheTypeOK', tree <= tree', NEW t \in Server, SameHolder(t)
    PROVE  HoldsResult(t)' /\ GoodAnswer(t)' /\ Past(t)'
<1>1. server[t] \in Process /\ tree \in Nat /\ tree' \in Nat
  BY CacheAssumption DEF IInv, CacheTypeOK, Tree
<1>2. server[t].since \in Nat /\ server[t].fingerprint \in Nat
  BY <1>1, CacheAssumption DEF Process, Tree
<1>3. key(t)' = key(t)
  BY DEF SameHolder, key, cache_key
<1>4. HoldsResult(t)'
  <2>1. CASE server'[t].step \notin Storing
    BY <2>1 DEF HoldsResult
  <2>2. CASE server'[t].step \in Storing
    <3>1. /\ server[t].payload.kind = "result"
          /\ server[t].payload.payload.tree >= server[t].since
          /\ Fits(server[t].payload.payload, key(t), tree)
      BY <2>2 DEF SameHolder, IInv, HoldsResult
    <3>2. server[t].payload.payload.tree \in Nat
      BY <3>1, CacheAssumption DEF Fits, Payload, Tree
    <3>3. Fits(server[t].payload.payload, key(t), tree')
      BY <1>1, <3>1, <3>2 DEF Fits
    <3> QED
      BY <1>3, <3>1, <3>3 DEF HoldsResult, SameHolder, Fits
  <2> QED
    BY <2>1, <2>2
<1>5. GoodAnswer(t)'
  BY DEF IInv, GoodAnswer, Answered, SameHolder
<1>6. Past(t)'
  BY <1>1, <1>2 DEF IInv, Past, SameHolder
<1> QED
  BY <1>4, <1>5, <1>6

LEMMA ServeSafe ==
    ASSUME IInv, NEW s \in Server, Serve(s)
    PROVE  IInv'
<1> USE CacheAssumption
<1>0. server[s] \in Process /\ key(s) \in CacheKey
      /\ key(s).request = server[s].request
      /\ key(s).fingerprint = server[s].fingerprint
  BY KeyType DEF IInv, CacheTypeOK
<1>1. CASE LookupStat(s)
  <2>1. PICK q \in {"read", "handler"} : server' = [server EXCEPT ![s].step = q]
    BY <1>1 DEF LookupStat
  <2> DEFINE p == [server[s] EXCEPT !.step = q]
  <2>2. p \in Process /\ server' = [server EXCEPT ![s] = p] /\ server'[s] = p
    BY <1>0, <2>1 DEF Process, Step, IInv, CacheTypeOK
  <2>3. HoldsResult(s)' /\ GoodAnswer(s)' /\ Past(s)'
    BY <1>0, <1>1, <2>2 DEF LookupStat, Past, HoldsResult, GoodAnswer, Answered, Storing, Process, IInv
  <2> QED
    BY <1>1, <2>2, <2>3, OneServer DEF LookupStat
<1>2. CASE LookupRead(s)
  <2>1. CASE file[key(s)].kind = "record"
    <3> DEFINE q == mark_provenance(file[key(s)].payload, "warm")
    <3>1. Fits(file[key(s)].payload, key(s), tree)
      BY <1>0, <2>1 DEF IInv, FilesFit
    <3>2. q \in Payload /\ q.request = server[s].request /\ ~q.merge_eligible
          /\ (AddonsPath => q.tree >= server[s].fingerprint)
      BY <1>0, <3>1, StampType DEF Fits, Payload, Provenance
    <3>3. Answer(q) \in Answers /\ Answer(q).payload = q
      BY <3>2 DEF Answer, Answers
    <3>4. server' = Reply(s, Answer(q)) /\ UNCHANGED <<tree, file, temp>>
      BY <1>2, <2>1 DEF LookupRead
    <3> QED
      BY <3>2, <3>3, <3>4, ReplySafe
  <2>2. CASE file[key(s)].kind # "record"
    <3> DEFINE p == [server[s] EXCEPT !.step = "handler"]
    <3>1. p \in Process /\ server' = [server EXCEPT ![s] = p] /\ server'[s] = p
      BY <1>0, <1>2, <2>2 DEF LookupRead, Process, Step, IInv, CacheTypeOK
    <3>2. HoldsResult(s)' /\ GoodAnswer(s)' /\ Past(s)'
      <4>1. p.step = "handler" /\ p.answer = server[s].answer
            /\ p.request = server[s].request /\ p.since = server[s].since
            /\ p.fingerprint = server[s].fingerprint /\ tree' = tree
        BY <1>0, <1>2 DEF LookupRead, Process
      <4>2. GoodAnswer(s) /\ Past(s)
        BY DEF IInv
      <4> QED
        BY <3>1, <4>1, <4>2 DEF Past, HoldsResult, GoodAnswer, Answered, Storing
    <3> QED
      BY <1>2, <3>1, <3>2, OneServer DEF LookupRead
  <2> QED
    BY <2>1, <2>2
<1>3. CASE HandlerFault(s)
  BY <1>3, ReplySafe DEF HandlerFault, Failure, Answers
<1>4. CASE Cold(s)
  <2> DEFINE q == mark_provenance([request |-> server[s].request, tree |-> tree], "cold")
             p == [server[s] EXCEPT !.step = "open", !.payload = Answer(q)]
  <2>1. q \in Payload /\ q.request = server[s].request /\ q.tree = tree
    BY <1>0, StampType DEF IInv, CacheTypeOK, Process, Provenance
  <2>2. p \in Process /\ server' = [server EXCEPT ![s] = p] /\ server'[s] = p
    BY <1>0, <1>4, <2>1 DEF Cold, Process, Step, Answer, Answers, IInv, CacheTypeOK
  <2>3. server[s].since <= tree /\ server[s].fingerprint <= tree
    BY DEF IInv, Past
  <2>4. key(s)' = key(s)
    BY <1>0, <2>2 DEF key, cache_key, Process
  <2>5. HoldsResult(s)'
    BY <1>0, <1>4, <2>1, <2>2, <2>3, <2>4
       DEF HoldsResult, Answer, Fits, Cold, Process, Tree, IInv, CacheTypeOK
  <2>6. GoodAnswer(s)' /\ Past(s)'
    <3>1. p.answer = server[s].answer /\ p.request = server[s].request
          /\ p.since = server[s].since /\ p.fingerprint = server[s].fingerprint
          /\ p.step = "open" /\ tree' = tree
      BY <1>0, <1>4 DEF Process, Cold
    <3>2. GoodAnswer(s) /\ Past(s)
      BY DEF IInv
    <3> QED
      BY <2>2, <3>1, <3>2 DEF GoodAnswer, Past, Answered
  <2> QED
    BY <1>4, <2>2, <2>5, <2>6, OneServer DEF Cold
<1>5. CASE StoreOpen(s)
  <2> DEFINE p == [server[s] EXCEPT !.step = "write", !.fd = "temp"]
  <2>1. p \in Process /\ server' = [server EXCEPT ![s] = p]
        /\ server' \in [Server -> Process]
    BY <1>0, <1>5 DEF StoreOpen, Process, Step, IInv, CacheTypeOK
  <2>2. temp' \in [CacheKey -> Content] /\ \A k \in CacheKey : temp'[k] = temp[k]
                                                    \/ temp'[k].kind = "torn"
    BY <1>0, <1>5 DEF StoreOpen, Torn, Content, IInv, CacheTypeOK
  <2>3. CacheTypeOK' /\ FilesFit'
    BY <1>5, <2>1, <2>2 DEF StoreOpen, IInv, CacheTypeOK, FilesFit, Fits
  <2>4. \A t \in Server : SameHolder(t)
    BY <1>0, <1>5 DEF StoreOpen, SameHolder, Storing, IInv, CacheTypeOK, Process
  <2> QED
    BY <1>5, <2>3, <2>4, HolderSafe, TreeOrder DEF StoreOpen, IInv
<1>6. CASE StoreWrite(s)
  <2> DEFINE r == server[s].payload.payload
  <2>1. Fits(r, key(s), tree)
    BY <1>6 DEF StoreWrite, IInv, HoldsResult, Storing
  <2>2. \A k \in CacheKey :
          /\ \/ file'[k] = file[k]
             \/ k = key(s) /\ file'[k] \in {Record(r, FALSE), Torn}
          /\ \/ temp'[k] = temp[k]
             \/ k = key(s) /\ temp'[k] \in {Record(r, FALSE), Torn}
    BY <1>0, <1>6 DEF StoreWrite, Written, IInv, CacheTypeOK
  <2>3. Record(r, FALSE) \in Content /\ Torn \in Content
        /\ Record(r, FALSE).payload = r /\ Torn.kind # "record"
    BY <2>1 DEF Record, Torn, Content, Fits
  <2>4. file' \in [CacheKey -> Content] /\ temp' \in [CacheKey -> Content]
    <3>1. \A c \in Written(s, temp[key(s)]) \union Written(s, file[key(s)]) :
             c \in Content
      BY <2>3 DEF Written
    <3> QED
      BY <1>0, <1>6, <3>1 DEF StoreWrite, IInv, CacheTypeOK
  <2>5. FilesFit'
    <3>1. tree' = tree
      BY <1>6 DEF StoreWrite
    <3>2. ASSUME NEW k \in CacheKey, NEW c \in {file'[k], temp'[k]}, c.kind = "record"
          PROVE  Fits(c.payload, k, tree)
      <4>1. c \in {file[k], temp[k]} \/ (k = key(s) /\ c = Record(r, FALSE))
        <5>1. Torn.kind # "record"
          BY <2>3
        <5>2. CASE c = file'[k]
          <6>1. file'[k] = file[k] \/ (k = key(s) /\ file'[k] \in {Record(r, FALSE), Torn})
            BY <2>2
          <6> QED
            BY <3>2, <5>1, <5>2, <6>1
        <5>3. CASE c = temp'[k]
          <6>1. temp'[k] = temp[k] \/ (k = key(s) /\ temp'[k] \in {Record(r, FALSE), Torn})
            BY <2>2
          <6> QED
            BY <3>2, <5>1, <5>3, <6>1
        <5> QED
          BY <5>2, <5>3
      <4>2. CASE c \in {file[k], temp[k]}
        BY <3>2, <4>2 DEF IInv, FilesFit
      <4>3. CASE k = key(s) /\ c = Record(r, FALSE)
        BY <2>1, <2>3, <4>3
      <4> QED
        BY <4>1, <4>2, <4>3
    <3> QED
      BY <3>1, <3>2 DEF FilesFit, Fits
  <2>6. server' = [server EXCEPT ![s] = [server[s] EXCEPT !.step = "rename", !.fd = "none"]]
        /\ [server[s] EXCEPT !.step = "rename", !.fd = "none"] \in Process
    BY <1>0, <1>6 DEF StoreWrite, IInv, CacheTypeOK, Process, Step
  <2>7. CacheTypeOK'
    BY <1>6, <2>4, <2>6 DEF StoreWrite, IInv, CacheTypeOK
  <2>8. \A t \in Server : SameHolder(t)
    BY <1>0, <1>6 DEF StoreWrite, SameHolder, Storing, IInv, CacheTypeOK, Process
  <2> QED
    BY <1>6, <2>5, <2>7, <2>8, HolderSafe, TreeOrder DEF StoreWrite, IInv
<1>7. CASE StoreRename(s)
  <2> DEFINE a == server[s].payload
             p == [server[s] EXCEPT !.step = "idle", !.answer = a,
                                    !.payload = NoAnswer, !.fd = "none"]
  <2>1. /\ a.kind = "result" /\ a.payload.tree >= server[s].since
        /\ Fits(a.payload, key(s), tree)
    BY <1>7 DEF StoreRename, IInv, HoldsResult, Storing
  <2>2. p \in Process /\ Reply(s, a)[s] = p
    BY <1>0 DEF Reply, Process, Step, Answers, IInv, CacheTypeOK
  <2>3. Renamed(key(s)) \in [Server -> Process]
    BY RenamedType DEF IInv
  <2>4. server' = [Renamed(key(s)) EXCEPT ![s] = p] /\ server'[s] = p
        /\ server' \in [Server -> Process]
    BY <1>7, <2>2, <2>3 DEF StoreRename
  <2>5. file' \in [CacheKey -> Content] /\ temp' \in [CacheKey -> Content]
    BY <1>0, <1>7 DEF StoreRename, IInv, CacheTypeOK, Content
  <2>6. CacheTypeOK'
    BY <1>7, <2>4, <2>5 DEF StoreRename, IInv, CacheTypeOK
  <2>7. \A k \in CacheKey : file'[k] \in {file[k], temp[k]} /\ temp'[k] \in {temp[k], Nothing}
    BY <1>0, <1>7 DEF StoreRename, IInv, CacheTypeOK
  <2>8. FilesFit'
    BY <1>7, <2>7 DEF StoreRename, IInv, FilesFit, Fits, Nothing
  <2>9. ASSUME NEW t \in Server \ {s} PROVE SameHolder(t)
    <3>1. server'[t] = Renamed(key(s))[t]
      BY <2>3, <2>4
    <3> QED
      BY <3>1, RenamedSame DEF SameHolder, IInv
  <2>10. HoldsResult(s)' /\ GoodAnswer(s)' /\ Past(s)'
    <3> HIDE DEF a
    <3>1. /\ server'[s].step = "idle" /\ server'[s].answer = a
          /\ server'[s].request = server[s].request
          /\ server'[s].since = server[s].since
          /\ server'[s].fingerprint = server[s].fingerprint
      BY <1>0, <2>4 DEF Process
    <3>2. a.payload.request = server[s].request
          /\ (AddonsPath => a.payload.tree >= server[s].fingerprint)
      BY <1>0, <2>1 DEF Fits
    <3>3. GoodAnswer(s)'
      BY <2>1, <3>1, <3>2 DEF GoodAnswer
    <3>4. tree' = tree /\ Past(s)
      BY <1>7 DEF StoreRename, IInv
    <3> QED
      BY <3>1, <3>3, <3>4 DEF HoldsResult, Storing, Past
  <2> QED
    BY <1>7, <2>6, <2>8, <2>9, <2>10, HolderSafe, TreeOrder DEF StoreRename, IInv
<1>8. CASE StoreFault(s)
  BY <1>8, ReplySafe DEF StoreFault, Failure, Answers
<1> QED
  BY <1>1, <1>2, <1>3, <1>4, <1>5, <1>6, <1>7, <1>8 DEF Serve

LEMMA NextSafe == IInv /\ [CacheNext]_cacheVars => IInv'
<1> SUFFICES ASSUME IInv, [CacheNext]_cacheVars PROVE IInv'
  OBVIOUS
<1> USE CacheAssumption
<1>1. ASSUME NEW s \in Server, Start(s) PROVE IInv'
  <2> DEFINE p == [server[s] EXCEPT !.step = "idle",
                                    !.fingerprint = addons_fingerprint(tree)]
  <2>1. addons_fingerprint(tree) \in Tree /\ addons_fingerprint(tree) <= tree
    BY DEF addons_fingerprint, IInv, CacheTypeOK, Tree
  <2>2. p \in Process /\ server' = [server EXCEPT ![s] = p] /\ server'[s] = p
    BY <1>1, <2>1 DEF Start, Process, Step, IInv, CacheTypeOK
  <2>3. ~Answered(s)
    BY <1>1 DEF Start, IInv, GoodAnswer
  <2>4. server[s] \in Process /\ server[s].since <= tree
    BY DEF IInv, CacheTypeOK, Past
  <2>5. HoldsResult(s)' /\ GoodAnswer(s)' /\ Past(s)'
    BY <1>1, <2>1, <2>2, <2>3, <2>4
       DEF Start, HoldsResult, Storing, GoodAnswer, Answered, Past, Process
  <2> QED
    BY <1>1, <2>2, <2>5, OneServer DEF Start
<1>2. ASSUME NEW s \in Server, Kill(s) PROVE IInv'
  <2>1. Down \in Process
    BY DownType
  <2>2. server' = [server EXCEPT ![s] = Down] /\ server'[s] = Down
    BY <1>2 DEF Kill, IInv, CacheTypeOK
  <2>3. HoldsResult(s)' /\ GoodAnswer(s)' /\ Past(s)'
    BY <1>2, <2>2 DEF Kill, Down, HoldsResult, Storing, GoodAnswer, Answered,
       NoAnswer, Past, IInv, CacheTypeOK, Tree
  <2> QED
    BY <1>2, <2>1, <2>2, <2>3, OneServer DEF Kill
<1>3. ASSUME NEW s \in Server, Serve(s) PROVE IInv'
  BY <1>3, ServeSafe
<1>4. ASSUME NEW s \in Server, NEW r \in Request, Receive(s, r) PROVE IInv'
  <2> DEFINE p == [server[s] EXCEPT !.step = "stat", !.request = r,
                                    !.since = tree, !.answer = NoAnswer]
  <2>1. server[s] \in Process /\ server[s].fingerprint <= tree /\ tree \in Tree
    BY DEF IInv, CacheTypeOK, Past
  <2>2. p \in Process /\ server' = [server EXCEPT ![s] = p] /\ server'[s] = p
    BY <1>4, <2>1 DEF Receive, Process, Step, Answers, IInv, CacheTypeOK
  <2>3. HoldsResult(s)' /\ GoodAnswer(s)' /\ Past(s)'
    <3>1. /\ server'[s].step = "stat" /\ server'[s].answer = NoAnswer
          /\ server'[s].since = tree
          /\ server'[s].fingerprint = server[s].fingerprint
      BY <2>1, <2>2 DEF IInv, CacheTypeOK, Process
    <3>2. tree' = tree /\ tree <= tree
      BY <1>4, TreeOrder DEF Receive, IInv
    <3> QED
      BY <2>1, <3>1, <3>2 DEF HoldsResult, Storing, GoodAnswer, Answered, NoAnswer, Past
  <2> QED
    BY <1>4, <2>2, <2>3, OneServer DEF Receive
<1>5. CASE Touch
  <2>1. CacheTypeOK' /\ tree <= tree' /\ tree \in Nat /\ tree' \in Nat
    BY <1>5 DEF Touch, IInv, CacheTypeOK, Tree
  <2>2. FilesFit'
    <3> SUFFICES ASSUME NEW k \in CacheKey, NEW c \in {file[k], temp[k]},
                        c.kind = "record"
                 PROVE  Fits(c.payload, k, tree')
      BY <1>5 DEF Touch, FilesFit, Fits
    <3>1. Fits(c.payload, k, tree)
      BY DEF IInv, FilesFit
    <3>2. c.payload.tree \in Nat
      BY <3>1 DEF Fits, Payload, Tree
    <3> QED
      BY <2>1, <3>1, <3>2 DEF Fits
  <2>3. \A t \in Server : SameHolder(t)
    BY <1>5 DEF Touch, SameHolder
  <2> QED
    BY <2>1, <2>2, <2>3, HolderSafe DEF IInv
<1>6. ASSUME NEW k \in CacheKey, Expire(k) PROVE IInv'
  <2>1. file' \in [CacheKey -> Content]
    <3>1. file \in [CacheKey -> Content] /\ file[k] \in Content /\ file[k] # Nothing
      BY <1>6 DEF IInv, CacheTypeOK, Expire
    <3>2. [file[k] EXCEPT !.old = TRUE] \in Content
      BY <3>1 DEF Content
    <3> QED
      BY <1>6, <3>1, <3>2 DEF Expire
  <2>2. CacheTypeOK'
    BY <1>6, <2>1 DEF Expire, IInv, CacheTypeOK
  <2>3. \A j \in CacheKey : file'[j].kind = "record" =>
            file[j].kind = "record" /\ file'[j].payload = file[j].payload
    <3>1. file \in [CacheKey -> Content]
      BY DEF IInv, CacheTypeOK
    <3>2. file'[k] = [file[k] EXCEPT !.old = TRUE]
      BY <1>6, <3>1 DEF Expire
    <3>5. \A j \in CacheKey \ {k} : file'[j] = file[j]
      BY <1>6, <3>1 DEF Expire
    <3>3. \A c \in Content : [c EXCEPT !.old = TRUE].kind = c.kind
                            /\ (c.kind = "record" => [c EXCEPT !.old = TRUE].payload = c.payload)
      <4> SUFFICES ASSUME NEW c \in Content
          PROVE  [c EXCEPT !.old = TRUE].kind = c.kind
                 /\ (c.kind = "record" => [c EXCEPT !.old = TRUE].payload = c.payload)
        OBVIOUS
      <4>1. CASE c = Nothing
        BY <4>1 DEF Nothing
      <4>2. CASE c \in [kind : {"torn"}, old : BOOLEAN]
        BY <4>2
      <4>3. CASE c \in [kind : {"record"}, payload : Payload, old : BOOLEAN]
        BY <4>3
      <4> QED
        BY <4>1, <4>2, <4>3 DEF Content
    <3>4. file[k] \in Content
      BY <3>1
    <3>6. file'[k].kind = file[k].kind
          /\ (file[k].kind = "record" => file'[k].payload = file[k].payload)
      BY <3>2, <3>3, <3>4
    <3> QED
      BY <3>5, <3>6
  <2>4. FilesFit'
    <3>1. temp' = temp /\ tree' = tree
      BY <1>6 DEF Expire
    <3>2. ASSUME NEW j \in CacheKey, file'[j].kind = "record"
          PROVE  Fits(file'[j].payload, j, tree)
      BY <2>3, <3>2 DEF IInv, FilesFit
    <3>3. ASSUME NEW j \in CacheKey, temp'[j].kind = "record"
          PROVE  Fits(temp'[j].payload, j, tree)
      BY <3>1, <3>3 DEF IInv, FilesFit
    <3> QED
      BY <3>1, <3>2, <3>3 DEF FilesFit, Fits
  <2>5. \A t \in Server : SameHolder(t)
    BY <1>6 DEF Expire, SameHolder
  <2> QED
    BY <1>6, <2>2, <2>4, <2>5, HolderSafe, TreeOrder DEF Expire, IInv
<1>7. ASSUME NEW k \in CacheKey, Clear(k) PROVE IInv'
  <2>1. \A t \in Server : server[t] \in Process
    BY DEF IInv, CacheTypeOK
  <2>2. server' \in [Server -> Process] /\ \A t \in Server : SameHolder(t)
    BY <1>7, <2>1 DEF Clear, SameHolder, Process
  <2>3. file' \in [CacheKey -> Content] /\ \A j \in CacheKey : file'[j] \in {file[j], Nothing}
    BY <1>7 DEF Clear, IInv, CacheTypeOK, Content
  <2>4. CacheTypeOK' /\ FilesFit'
    BY <1>7, <2>2, <2>3 DEF Clear, IInv, CacheTypeOK, FilesFit, Fits, Nothing
  <2> QED
    BY <1>7, <2>2, <2>4, HolderSafe, TreeOrder DEF Clear, IInv
<1>8. CASE UNCHANGED cacheVars
  BY <1>8 DEF cacheVars, IInv, CacheTypeOK, FilesFit, Fits, HoldsResult, GoodAnswer,
     Answered, Past, key
<1> QED
  BY <1>1, <1>2, <1>3, <1>4, <1>5, <1>6, <1>7, <1>8 DEF CacheNext

\* Every variable of the cache and its servers keeps its type.
THEOREM CacheTypeCorrect == CacheSpec => []CacheTypeOK
<1>1. IInv => CacheTypeOK
  BY DEF IInv
<1> QED
  BY InitSafe, NextSafe, <1>1, PTL DEF CacheSpec

\* However many processes share the directory and however their stores,
\* lookups, renames and clears overlap, an answer is for the request asked.
THEOREM AnswersMatch == CacheSpec => []AnswersTheRequest
<1>1. IInv => AnswersTheRequest
  BY DEF IInv, GoodAnswer, AnswersTheRequest
<1> QED
  BY InitSafe, NextSafe, <1>1, PTL DEF CacheSpec

\* Whatever an answer marked merge_eligible says was computed after its
\* request came in (mark_provenance, _run).
THEOREM EligibleAnswersAreFresh == CacheSpec => []EligibleIsFresh
<1>1. IInv => EligibleIsFresh
  BY DEF IInv, GoodAnswer, EligibleIsFresh
<1> QED
  BY InitSafe, NextSafe, <1>1, PTL DEF CacheSpec

\* With --addons-path, a server never serves what was computed from a tree
\* older than the one it started on (cache_key, _build_cache).
THEOREM AnswersNeverOlder == CacheSpec => []NeverOlderThanServer
<1>1. IInv => NeverOlderThanServer
  BY DEF IInv, GoodAnswer, NeverOlderThanServer
<1> QED
  BY InitSafe, NextSafe, <1>1, PTL DEF CacheSpec
=============================================================================
