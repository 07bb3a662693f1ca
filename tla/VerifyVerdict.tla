--------------------------- MODULE VerifyVerdict ---------------------------
(***************************************************************************)
(* What upgrade_verify.py and db_upgrade.py make of one run of odoo-bin.   *)
(*                                                                         *)
(* An output is its exit code, the modules it says it loads, and those of  *)
(* its lines that matter, in order: "Traceback" (with the frames and the   *)
(* exception below it), "ERROR" and "CRITICAL".                            *)
(***************************************************************************)
EXTENDS Integers, Sequences, FiniteSets

CONSTANTS MAX_TB, MAX_LOG_ERRORS

ASSUME VerdictAssumption == MAX_TB \in Nat \ {0} /\ MAX_LOG_ERRORS \in Nat

\* Mutant: the time that ran out is not told from success.
TimedOutWell == [rc |-> 0, loaded |-> {}, lines |-> <<>>]
\* After a timeout the output read so far comes as bytes, not as text, and is dropped.
TimedOut == [rc |-> -1, loaded |-> {}, lines |-> <<>>]

Tracebacks(lines) == {i \in DOMAIN lines : lines[i] = "Traceback"}
LogLines(lines) == DOMAIN lines \ Tracebacks(lines)
Before(i, places) == Cardinality({k \in places : k < i})

\* How many tracebacks, and the places of the log lines, are kept: reading ends
\* with traceback number MAX_TB, and of the log lines until then the first
\* MAX_LOG_ERRORS are kept.
parse_output(lines) ==
    [tracebacks |-> IF Cardinality(Tracebacks(lines)) < MAX_TB
                    THEN Cardinality(Tracebacks(lines)) ELSE MAX_TB,
     log_errors |-> {i \in LogLines(lines) :
                        /\ Before(i, Tracebacks(lines)) < MAX_TB
                        /\ Before(i, LogLines(lines)) < MAX_LOG_ERRORS}]

\* Mutant: one of the modules is enough.
LoadedOne(output, expected) ==
    IF output.loaded \intersect expected = {} THEN expected ELSE {}
module_load_status(output, expected) == expected \ output.loaded

\* Mutant: an exit code of zero is enough.
verdict_by_rc(output, expected) == IF output.rc = 0 THEN "ok" ELSE "failed"
\* "ok" is written by upgrade_verify only after positive proof of loading.
verdict_of(output, expected) ==
    LET parsed == parse_output(output.lines)
    IN  CASE module_load_status(output, expected) # {} -> "module_not_loaded"
          [] module_load_status(output, expected) = {} ->
                IF \/ output.rc # 0 \/ parsed.tracebacks > 0
                   \/ \E i \in parsed.log_errors : output.lines[i] = "CRITICAL"
                THEN "failed"
                ELSE IF parsed.log_errors = {} THEN "ok" ELSE "ok_with_log_errors"

StartsWithOk(verdict) == verdict \in {"ok", "ok_with_log_errors"}

\* What a reader takes "ok" for.  A critical line past the errors kept is missed.
Sound(output, expected) ==
    /\ output.rc = 0 /\ expected \subseteq output.loaded
    /\ \A i \in DOMAIN output.lines : output.lines[i] # "Traceback"
    /\ \A i \in DOMAIN output.lines :
          output.lines[i] = "CRITICAL" => i > MAX_LOG_ERRORS
=============================================================================
