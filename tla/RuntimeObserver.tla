--------------------------- MODULE RuntimeObserver ---------------------------
(***************************************************************************)
(* runtime_observer.py: a trace function installed before the tests, which *)
(* notes the calls of the changed methods, and a verdict, at the end, on   *)
(* whether it stood all along.  Other code of the process may call         *)
(* sys.settrace and sys.setprofile too, as coverage tools and debuggers    *)
(* do; an audit hook counts these calls.  CI evaluates the file that       *)
(* finalize wrote, and signs or refuses.                                   *)
(***************************************************************************)
EXTENDS ChangeTargets

CONSTANTS
    Expected,        \* the functions diff_targets.py listed
    MaxEvents,
    MaxBeats, MaxToggles, MaxInstalls   \* bounds

ASSUME ObserverAssumption ==
    /\ Expected \subseteq Function /\ IsFiniteSet(Expected)
    /\ MaxEvents \in Nat \ {0} /\ MaxBeats \in Nat \ {0}
    /\ MaxToggles \in Nat /\ MaxInstalls \in Nat

VARIABLES
    tracer,     \* whose function sys.gettrace() returns
    installed,  \* trace_installed of _tracer_state
    counts,     \* of the events of each target
    heartbeats,
    hook,       \* the audit hook is in place; if not, nothing is audited
    toggles,    \* settrace and setprofile calls audited since the baseline
    access,     \* to out_path, of the process that runs the tests
    written,    \* the producer block in out_path, or none
    self_report, \* what finalize returned last, or none
    ci,         \* what CI did after step 4 of its sequence
    installs,   \* bound counter
    steady,     \* history: the tracer is ours, and was since its installation
    stood,      \* history: it was, until the last report
    called      \* history: the functions called since, in the traced thread

observer == <<tracer, installed, counts, heartbeats, hook, toggles, access, written, self_report,
              ci, installs, steady, stood, called>>

Integrity == {"sealed", "tampered", "incomplete", "absent"}

-----------------------------------------------------------------------------
(* The verdict.                                                            *)

Incomplete(s) ==
    \/ s.heartbeats < 1 \/ s.events_recorded = 0
    \/ s.targets_expected > 0 /\ s.targets_hit < s.targets_expected

\* Mutant: only the trace function found at the end is looked at.
evaluate_at_end(s) ==
    IF ~s.trace_installed THEN "absent"
    ELSE IF ~s.trace_still_installed \/ s.output_test_writable = "yes" THEN "tampered"
    ELSE IF Incomplete(s) \/ s.output_test_writable # "no" THEN "incomplete" ELSE "sealed"

evaluate_integrity(s) ==
    IF ~s.trace_installed THEN "absent"
    ELSE IF \/ ~s.trace_still_installed \/ s.trace_changed_externally
            \/ s.output_test_writable = "yes" THEN "tampered"
    ELSE IF Incomplete(s) \/ s.output_test_writable # "no" THEN "incomplete" ELSE "sealed"

\* A key that is not in the state is read as the worst case.
MissingKeys == [trace_installed |-> FALSE, trace_still_installed |-> FALSE,
                trace_changed_externally |-> FALSE, heartbeats |-> 0, events_recorded |-> 0,
                targets_expected |-> 0, targets_hit |-> 0, output_test_writable |-> "unknown"]

\* The file has "events", "producer" and "targets_expected" at its top.
raw_state == [MissingKeys EXCEPT !.targets_expected = Cardinality(Expected)]

-----------------------------------------------------------------------------

\* The output file is there, or is not and may be made, or may not.
Access == {"writable", "readonly", "creatable", "missing"}

ObserverTypeOK ==
    /\ tracer \in {"none", "ours", "other"} /\ installed \in BOOLEAN
    /\ counts \in [Expected -> 0..MaxEvents]
    /\ heartbeats \in 0..MaxBeats /\ hook \in BOOLEAN /\ toggles \in 0..MaxToggles + 1
    /\ access \in Access
    /\ written \in Integrity \union {"none"} /\ self_report \in Integrity \union {"none"}
    /\ ci \in {"waiting", "signs", "refuses"}
    /\ installs \in 0..MaxInstalls
    /\ steady \in BOOLEAN /\ stood \in BOOLEAN /\ called \subseteq Function

ObserverInit ==
    /\ tracer \in {"none", "other"} /\ installed = FALSE
    /\ counts = [t \in Expected |-> 0] /\ heartbeats = 0 /\ hook = FALSE /\ toggles = 0
    /\ access \in Access
    /\ written = "none" /\ self_report = "none" /\ ci = "waiting"
    /\ installs = 0 /\ steady = FALSE /\ stood = FALSE /\ called = {}

\* install, maybe again: a new state and a new tracer take the old ones' place.
\* An exception of sys.addaudithook is swallowed, and so is, by sys itself, a
\* refusal of another hook; a hook that is in place stays there.
install ==
    /\ hook' \in {hook, TRUE}
    /\ installs < MaxInstalls /\ installs' = installs + 1 /\ ci = "waiting"
    /\ tracer' = "ours" /\ installed' = TRUE
    /\ counts' = [t \in Expected |-> 0] /\ heartbeats' = 0 /\ toggles' = 0
    /\ self_report' = "none" /\ steady' = TRUE /\ stood' = FALSE /\ called' = {}
    /\ UNCHANGED <<access, written, ci>>

\* The watch set has the line of the def statement; a call has the line of
\* the first decorator.  Of two targets at one place, one is noted.
Watched(fn) ==
    {t \in Expected : BaseName[t.file] = BaseName[fn.file] /\ t.def = co_firstlineno(fn)}

Noted == [fn \in Function |->
    IF Watched(fn) = {} THEN {} ELSE {CHOOSE t \in Watched(fn) : TRUE}]

\* Mutant: off by one.
one_too_many(n) == IF n <= MaxEvents THEN n + 1 ELSE n

one_more(n) == IF n < MaxEvents THEN n + 1 ELSE n

\* A call in the thread that installed the tracer.
TracedCall(fn) ==
    /\ ci = "waiting" /\ called' = called \union {fn}
    /\ IF tracer = "ours"
         THEN /\ heartbeats' = IF heartbeats < MaxBeats THEN heartbeats + 1 ELSE heartbeats
              /\ counts' = [t \in Expected |->
                    IF t \in Noted[fn] THEN one_more(counts[t]) ELSE counts[t]]
         ELSE UNCHANGED <<heartbeats, counts>>
    /\ UNCHANGED <<tracer, installed, hook, toggles, access, written, self_report, ci, installs,
                   steady, stood>>

\* Without the hook nobody counts.
Audited ==
    IF hook THEN toggles < MaxToggles /\ toggles' = toggles + 1 ELSE UNCHANGED toggles

\* Other code sets a trace function, takes one away, or puts ours back.
SetTrace ==
    /\ ci = "waiting" /\ Audited
    /\ tracer' \in {"none", "other"} \union (IF installed THEN {"ours"} ELSE {})
    /\ steady' = FALSE
    /\ UNCHANGED <<installed, counts, heartbeats, hook, access, written, self_report, ci, installs,
                   stood, called>>

SetProfile ==
    /\ ci = "waiting" /\ Audited
    /\ UNCHANGED <<tracer, installed, counts, heartbeats, hook, access, written, self_report, ci,
                   installs, steady, stood, called>>

Hit == {t \in Expected : counts[t] > 0}

observed ==
    [trace_installed |-> installed,
     trace_still_installed |-> installed /\ tracer = "ours",
     trace_changed_externally |-> installed /\ toggles > 0,
     heartbeats |-> heartbeats,
     events_recorded |-> IF Hit = {} THEN 0 ELSE 1,
     targets_expected |-> Cardinality(Expected),
     targets_hit |-> Cardinality(Hit),
     output_test_writable |-> CASE access = "writable" -> "yes"
                                [] access = "readonly" -> "no"
                                [] OTHER               -> "unknown"]

\* finalize writes with the access it has just asked for; an exception is
\* swallowed.  Its own settrace(None) is audited like any other.
finalize ==
    /\ ci = "waiting"
    /\ self_report' = evaluate_integrity(observed)
    /\ IF access \in {"writable", "creatable"}
         THEN written' = self_report' /\ access' = "writable"
         ELSE UNCHANGED <<written, access>>
    /\ tracer' = "none"
    /\ toggles' = IF hook /\ toggles <= MaxToggles THEN toggles + 1 ELSE toggles
    /\ stood' = steady /\ steady' = FALSE
    /\ UNCHANGED <<installed, counts, heartbeats, hook, ci, installs, called>>

\* CI, after the process: runtime_observer.py --evaluate on the file.
Evaluate ==
    /\ ci = "waiting" /\ self_report # "none"
    /\ ci' = IF written # "none" /\ evaluate_integrity(raw_state) = "sealed"
             THEN "signs" ELSE "refuses"
    /\ UNCHANGED <<tracer, installed, counts, heartbeats, hook, toggles, access, written,
                   self_report, installs, steady, stood, called>>

ObserverNext ==
    \/ install \/ (\E fn \in Function : TracedCall(fn)) \/ SetTrace \/ SetProfile
    \/ finalize \/ Evaluate

ObserverSpec == ObserverInit /\ [][ObserverNext]_observer

-----------------------------------------------------------------------------
(* Properties                                                              *)

\* When finalize says sealed, a function at the place of each target was called
\* since the install; and if the audit hook is in place, no other code set a trace
\* function in between, not even one it took away again.  Without the hook there is
\* no such check, though :22-25 says of checks that fail: never silently "sealed".
SealedMeansWatched ==
    self_report = "sealed" =>
        /\ hook => stood
        /\ \A t \in Expected : \E fn \in called : t \in Watched(fn)
=============================================================================
