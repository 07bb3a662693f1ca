------------------------ MODULE UpgradeTools_proofs ------------------------
(***************************************************************************)
(* The tools of an upgrade.  For any fleet, outputs and number of calls of *)
(* migrate_all.py: nothing is called ok without an upgrade that ended well,*)
(* and what a user put into a directory of his own is not removed.  For    *)
(* any calls of db_upgrade.py, whatever Odoo says, whichever steps run out *)
(* of time and wherever the script is killed: a full rehearsal that passes *)
(* upgraded its own dump, alone.                                           *)
(***************************************************************************)
EXTENDS UpgradeTools, FiniteSetTheorems, WellFoundedInduction, TLAPS

-----------------------------------------------------------------------------
(* The verdict of one output.                                              *)

Line == {"Traceback", "ERROR", "CRITICAL"}

\* Before a place of a list there are fewer places than its number.
LEMMA FewBefore ==
    ASSUME NEW lines \in Seq(Line), NEW places \in SUBSET DOMAIN lines, NEW i \in DOMAIN lines
    PROVE  Before(i, places) \in Nat /\ Before(i, places) < i
<1> DEFINE earlier == {k \in places : k < i}
<1>1. i \in Nat /\ i >= 1 /\ DOMAIN lines \subseteq Nat /\ \A k \in DOMAIN lines : k >= 1
    OBVIOUS
<1>2. earlier \subseteq 1..(i - 1)
    BY <1>1
<1>3. IsFiniteSet(1..(i - 1)) /\ Cardinality(1..(i - 1)) = i - 1
    <2>1. 1 \in Int /\ i - 1 \in Int
        BY <1>1
    <2>2. Cardinality(1..(i - 1)) = IF 1 > i - 1 THEN 0 ELSE (i - 1) - 1 + 1
        BY <2>1, FS_Interval
    <2> QED
        BY <1>1, <2>1, <2>2, FS_Interval
<1>4. Cardinality(earlier) \in Nat /\ Cardinality(earlier) <= i - 1
    BY <1>2, <1>3, FS_Subset, FS_CardinalityType
<1>5. Before(i, places) = Cardinality(earlier)
    BY DEF Before
<1> HIDE DEF earlier
<1> QED
    BY <1>1, <1>4, <1>5

\* verdict_of: "ok" comes only after an exit code of zero, all modules loaded, no
\* traceback at all, and no critical line among the first MAX_LOG_ERRORS.
LEMMA OkIsSound ==
    ASSUME NEW output, NEW expected, output.lines \in Seq(Line),
           StartsWithOk(verdict_of(output, expected))
    PROVE  Sound(output, expected)
<1> DEFINE lines == output.lines
           parsed == parse_output(lines)
<1>1. module_load_status(output, expected) = {}
    BY DEF StartsWithOk, verdict_of
<1>2. /\ output.rc = 0 /\ ~(parsed.tracebacks > 0)
      /\ ~\E i \in parsed.log_errors : lines[i] = "CRITICAL"
    BY <1>1 DEF StartsWithOk, verdict_of
<1>3. IsFiniteSet(DOMAIN lines)
    <2>1. Len(lines) \in Nat /\ DOMAIN lines = 1..Len(lines)
        OBVIOUS
    <2> QED
        BY <2>1, FS_Interval
<1>4. IsFiniteSet(Tracebacks(lines)) /\ Cardinality(Tracebacks(lines)) \in Nat
    BY <1>3, FS_Subset, FS_CardinalityType DEF Tracebacks
<1>5. Tracebacks(lines) = {}
    <2>1. parsed.tracebacks = IF Cardinality(Tracebacks(lines)) < MAX_TB
                              THEN Cardinality(Tracebacks(lines)) ELSE MAX_TB
        BY DEF parse_output
    <2>2. Cardinality(Tracebacks(lines)) = 0
        BY <1>2, <1>4, <2>1, VerdictAssumption
    <2> QED
        BY <1>4, <2>2, FS_EmptySet
<1>6. LogLines(lines) = DOMAIN lines
    BY <1>5 DEF LogLines
<1>7. ASSUME NEW i \in DOMAIN lines, lines[i] = "CRITICAL"
      PROVE  i > MAX_LOG_ERRORS
    <2>1. Before(i, Tracebacks(lines)) = 0
        BY <1>5, FS_EmptySet DEF Before
    <2>2. i \notin parsed.log_errors
        BY <1>2, <1>7
    <2>3. ~(Before(i, LogLines(lines)) < MAX_LOG_ERRORS)
        BY <1>6, <2>1, <2>2, VerdictAssumption DEF parse_output
    <2>4. Before(i, LogLines(lines)) \in Nat /\ Before(i, LogLines(lines)) < i /\ i \in Nat
        BY <1>6, FewBefore
    <2> QED
        BY <2>3, <2>4, VerdictAssumption
<1> QED
    BY <1>1, <1>2, <1>5, <1>7 DEF Sound, module_load_status, Tracebacks

LEMMA SomeVerdict ==
    ASSUME NEW output, NEW expected
    PROVE  verdict_of(output, expected)
             \in {"ok", "ok_with_log_errors", "failed", "module_not_loaded"}
BY DEF verdict_of

\* A run that was given up says nothing either.
LEMMA OutputsHaveLines ==
    ASSUME NEW S \in SUBSET Modules, S # {}, NEW output \in SaysOf(S) \union {TimedOut}
    PROVE  output.lines \in Seq(Line)
<1>1. CASE output \in SaysOf(S)
    BY <1>1, OutputAssumption DEF Line
<1>2. CASE output = TimedOut
    <2>1. <<>> \in Seq(Line)
        OBVIOUS
    <2> QED
        BY <1>2, <2>1 DEF TimedOut
<1> QED
    BY <1>1, <1>2

-----------------------------------------------------------------------------
(* The invariant.                                                          *)

Verdicts == {"ok", "ok_with_log_errors", "failed", "module_not_loaded"}
Said == [run : Nat, sound : BOOLEAN]
Files == {NoFile, Torn} \union {Written(r, v) : r \in Nat, v \in Verdicts}

Called ==
    /\ runs \in Nat /\ (step # "idle" => runs >= 1)
    /\ job \in Jobs /\ ported \subseteq Modules
FilesShape == verify \in [Modules -> Files]
SaidShape == odoo \in [Modules -> Seq(Said)]
FleetShape == fleet \in [DOMAIN fleet -> Verdicts \union {"no file"}]
Shape == Called /\ FilesShape /\ SaidShape /\ FleetShape

FilesAreEarned ==
    \A m \in Modules :
        verify[m].kind = "result" /\ StartsWithOk(verify[m].verdict)
            => verify[m].run \in 1..runs /\ EarnedBy(m, verify[m].run)

FleetIsEarned ==
    \A m \in DOMAIN fleet :
        m \in Modules /\ (StartsWithOk(fleet[m]) => \E r \in 1..runs : EarnedBy(m, r))

IInv == Shape /\ FilesAreEarned /\ FleetIsEarned /\ BatchOkMeansLoaded

\* The modules of a call are modules.
LEMMA CalledModules ==
    ASSUME Shape PROVE DOMAIN depends \subseteq Modules
BY DEF Shape, Called, FilesShape, SaidShape, FleetShape, depends, Modules

\* What Odoo said is only added to.
LEMMA EarnedStays ==
    ASSUME Shape, NEW m \in Modules, NEW r, EarnedBy(m, r),
           \/ odoo'[m] = odoo[m]
           \/ \E e \in Said : odoo'[m] = Append(odoo[m], e)
    PROVE  EarnedBy(m, r)'
<1>1. odoo[m] \in Seq(Said)
    BY DEF Shape, Called, FilesShape, SaidShape, FleetShape
<1>2. PICK i \in DOMAIN odoo[m] : odoo[m][i].run = r /\ odoo[m][i].sound
    BY DEF EarnedBy
<1>3. i \in DOMAIN odoo'[m] /\ odoo'[m][i] = odoo[m][i]
    BY <1>1, <1>2
<1> QED
    BY <1>2, <1>3 DEF EarnedBy

\* The last answer is among them.
LEMMA EarnedNow ==
    ASSUME Shape, NEW m \in Modules, NEW e \in Said, odoo'[m] = Append(odoo[m], e), e.sound
    PROVE  \E i \in DOMAIN odoo'[m] : odoo'[m][i].run = e.run /\ odoo'[m][i].sound
<1>1. odoo[m] \in Seq(Said)
    BY DEF Shape, Called, FilesShape, SaidShape, FleetShape
<1>2. Len(odoo[m]) + 1 \in DOMAIN odoo'[m] /\ odoo'[m][Len(odoo[m]) + 1] = e
    BY <1>1
<1> QED
    BY <1>2

LEMMA SoundIsSaid ==
    ASSUME NEW r \in Nat, NEW output, NEW expected
    PROVE  [run |-> r, sound |-> Sound(output, expected)] \in Said
<1>1. Sound(output, expected) \in BOOLEAN
    BY DEF Sound
<1> QED
    BY <1>1 DEF Said

\* One file is written, and one answer added, or one to each of some modules.
LEMMA OneFile ==
    ASSUME FilesShape, NEW m \in Modules, NEW file \in Files,
           verify' = [verify EXCEPT ![m] = file]
    PROVE  /\ FilesShape'
           /\ \A x \in Modules : verify'[x] = IF x = m THEN file ELSE verify[x]
BY DEF FilesShape

LEMMA MoreSaid ==
    ASSUME SaidShape, NEW S \in SUBSET Modules, NEW e \in Said,
           odoo' = [x \in Modules |-> IF x \in S THEN Append(odoo[x], e) ELSE odoo[x]]
    PROVE  /\ SaidShape'
           /\ \A x \in S : odoo'[x] = Append(odoo[x], e)
           /\ \A x \in Modules : odoo'[x] = odoo[x] \/ \E d \in Said : odoo'[x] = Append(odoo[x], d)
<1>1. \A x \in Modules : odoo[x] \in Seq(Said) /\ Append(odoo[x], e) \in Seq(Said)
    BY DEF SaidShape
<1> QED
    BY <1>1 DEF SaidShape

-----------------------------------------------------------------------------
(* It holds, action by action.                                             *)

LEMMA InitEarned == Init => IInv
<1> SUFFICES ASSUME Init PROVE IInv
    OBVIOUS
<1>1. Shape
    <2>1. verify \in [Modules -> Files] /\ odoo \in [Modules -> Seq(Said)]
        BY DEF Init, Files
    <2>2. fleet \in [DOMAIN fleet -> Verdicts \union {"no file"}]
        BY DEF Init
    <2> QED
        BY <2>1, <2>2 DEF Init, Shape, Called, FilesShape, SaidShape, FleetShape
<1>2. FilesAreEarned
    BY DEF Init, FilesAreEarned, NoFile
<1>3. FleetIsEarned
    BY DEF Init, FleetIsEarned
<1>4. BatchOkMeansLoaded
    BY DEF Init, BatchOkMeansLoaded
<1> QED
    BY <1>1, <1>2, <1>3, <1>4 DEF IInv

\* Steps that write no verdict: all but the two of a verification and the batch.
LEMMA QuietSteps ==
    ASSUME IInv, UNCHANGED <<runs, job, verify, fleet, odoo>>,
           ported' \subseteq Modules, step # "idle" \/ step' = "idle",
           \/ step' = "over" /\ "batch" \notin job.parts
           \/ step' # "over"
           \/ UNCHANGED <<step, rc, ported>>
    PROVE  IInv'
<1>1. Shape'
    BY DEF IInv, Shape, Called, FilesShape, SaidShape, FleetShape
<1>2. FilesAreEarned'
    BY DEF IInv, FilesAreEarned, EarnedBy
<1>3. FleetIsEarned'
    BY DEF IInv, FleetIsEarned, EarnedBy
<1>4. BatchOkMeansLoaded'
    BY DEF IInv, BatchOkMeansLoaded, EarnedBy
<1> QED
    BY <1>1, <1>2, <1>3, <1>4 DEF IInv

LEMMA StartEarns ==
    ASSUME IInv, Start PROVE IInv'
<1>1. runs \in Nat /\ runs' = runs + 1 /\ verify' = verify /\ odoo' = odoo
    BY DEF Start, IInv, Shape, Called, FilesShape, SaidShape, FleetShape, files
<1>2. Shape'
    <2>1. job' \in Jobs /\ ported' = {} /\ fleet' = <<>>
        BY DEF Start
    <2>2. fleet' \in [DOMAIN fleet' -> Verdicts \union {"no file"}]
        BY <2>1
    <2>3. Called'
        BY <1>1, <2>1 DEF Called
    <2>4. FilesShape' /\ SaidShape' /\ FleetShape'
        BY <1>1, <2>2 DEF IInv, Shape, Called, FilesShape, SaidShape, FleetShape
    <2> QED
        BY <2>3, <2>4 DEF Shape
<1>3. FilesAreEarned'
    <2> SUFFICES ASSUME NEW m \in Modules, verify[m].kind = "result",
                        StartsWithOk(verify[m].verdict)
                 PROVE  verify[m].run \in 1..runs' /\ EarnedBy(m, verify[m].run)'
        BY <1>1 DEF FilesAreEarned
    <2>1. verify[m].run \in 1..runs /\ EarnedBy(m, verify[m].run)
        BY DEF IInv, FilesAreEarned
    <2> QED
        BY <1>1, <2>1 DEF EarnedBy
<1>4. FleetIsEarned'
    BY DEF Start, FleetIsEarned
<1>5. BatchOkMeansLoaded'
    BY DEF Start, BatchOkMeansLoaded
<1> QED
    BY <1>2, <1>3, <1>4, <1>5 DEF IInv

\* What a verification leaves in fleet.json is what is in its file.
LEMMA ReadsEarned ==
    ASSUME IInv, NEW m \in Modules, Reads(m), runs' = runs, Shape', FilesAreEarned',
           \A x \in Modules, r \in 1..runs : EarnedBy(x, r) => EarnedBy(x, r)'
    PROVE  FleetIsEarned'
<1>1. CASE verify'[m] = Torn
    BY <1>1 DEF Reads, IInv, FleetIsEarned
<1>2. CASE verify'[m] # Torn
    <2>1. fleet' = [x \in DOMAIN fleet \union {m} |-> IF x = m THEN Verdict(m) ELSE fleet[x]]
        BY <1>2 DEF Reads
    <2> SUFFICES ASSUME NEW x \in DOMAIN fleet \union {m}
                 PROVE  /\ x \in Modules
                        /\ StartsWithOk(fleet'[x]) => \E r \in 1..runs : EarnedBy(x, r)'
        BY <2>1 DEF FleetIsEarned
    <2>2. CASE x # m
        BY <2>1, <2>2 DEF IInv, FleetIsEarned
    <2>3. CASE x = m
        <3>1. fleet'[x] = Verdict(m)
            BY <2>1, <2>3
        <3>2. verify'[m] \in Files
            BY DEF Shape, Called, FilesShape, SaidShape, FleetShape
        <3>3. CASE verify'[m] = NoFile
            BY <2>3, <3>1, <3>3 DEF Verdict, StartsWithOk
        <3>4. CASE verify'[m] # NoFile
            <4>1. Verdict(m) = verify'[m].verdict /\ verify'[m].kind = "result"
                BY <1>2, <3>2, <3>4 DEF Verdict, Files, Written
            <4> QED
                BY <2>3, <3>1, <4>1 DEF FilesAreEarned
        <3> QED
            BY <3>3, <3>4
    <2> QED
        BY <2>2, <2>3
<1> QED
    BY <1>1, <1>2

\* What is read for fleet.json is a verdict.
LEMMA ReadsShape ==
    ASSUME Shape, NEW m \in Modules, Reads(m), verify'[m] \in Files
    PROVE  fleet' \in [DOMAIN fleet' -> Verdicts \union {"no file"}]
<1>1. CASE verify'[m] = Torn
    BY <1>1 DEF Reads, Shape, Called, FilesShape, SaidShape, FleetShape
<1>2. CASE verify'[m] # Torn
    <2>1. Verdict(m) \in Verdicts \union {"no file"}
        <3>1. CASE verify'[m] = NoFile
            BY <3>1 DEF Verdict
        <3>2. CASE verify'[m] # NoFile
            <4>1. PICK r \in Nat, v \in Verdicts : verify'[m] = Written(r, v)
                BY <1>2, <3>2 DEF Files
            <4>2. Verdict(m) = verify'[m].verdict
                BY <3>2 DEF Verdict
            <4>3. verify'[m].verdict = v
                BY <4>1 DEF Written
            <4> QED
                BY <4>2, <4>3
        <3> QED
            BY <3>1, <3>2
    <2> QED
        BY <1>2, <2>1 DEF Reads, Shape, Called, FilesShape, SaidShape, FleetShape
<1> QED
    BY <1>1, <1>2

LEMMA WritesEarn ==
    ASSUME IInv, NEW m \in Modules, VerifyWrites(m) PROVE IInv'
<1>1. PICK output \in SaysOf({m}) \union {TimedOut} :
        /\ verify' = [verify EXCEPT ![m] = Written(runs, verdict_of(output, {m}))]
        /\ odoo' = [odoo EXCEPT ![m] = Append(@, [run |-> runs, sound |-> Sound(output, {m})])]
    BY DEF VerifyWrites
<1> DEFINE said == [run |-> runs, sound |-> Sound(output, {m})]
           file == Written(runs, verdict_of(output, {m}))
<1>2. Shape /\ Called /\ FilesShape /\ SaidShape /\ FleetShape
    BY DEF IInv, Shape
<1>3. Reads(m) /\ step = "verify"
    BY DEF VerifyWrites, Verifying
<1>4. UNCHANGED <<runs, job, ported, rc>> /\ step' \in {"died", "write", "verify"}
    BY <1>3 DEF VerifyWrites, Reads, args
<1>5. runs \in Nat /\ runs \in 1..runs
    BY <1>2, <1>3 DEF Called
<1>6. said \in Said /\ verdict_of(output, {m}) \in Verdicts
    BY <1>5, SoundIsSaid, SomeVerdict DEF Verdicts
<1>7. file \in Files
    BY <1>5, <1>6 DEF Files
<1>8. FilesShape' /\ \A x \in Modules : verify'[x] = IF x = m THEN file ELSE verify[x]
    <2> HIDE DEF file
    <2> QED
        BY <1>1, <1>2, <1>7, OneFile DEF file
<1>9. /\ SaidShape' /\ odoo'[m] = Append(odoo[m], said)
      /\ \A x \in Modules : odoo'[x] = odoo[x] \/ \E d \in Said : odoo'[x] = Append(odoo[x], d)
    <2>1. odoo' = [odoo EXCEPT ![m] = Append(@, said)]
        BY <1>1
    <2> HIDE DEF said
    <2>2. odoo' = [x \in Modules |-> IF x \in {m} THEN Append(odoo[x], said) ELSE odoo[x]]
        BY <1>2, <2>1 DEF SaidShape
    <2>3. {m} \in SUBSET Modules
        OBVIOUS
    <2> QED
        BY <1>2, <1>6, <2>2, <2>3, MoreSaid
<1>10. \A x \in Modules : \A r : EarnedBy(x, r) => EarnedBy(x, r)'
    BY <1>2, <1>9, EarnedStays
<1>11. Shape'
    <2>1. Called'
        BY <1>2, <1>3, <1>4 DEF Called
    <2>2. verify'[m] \in Files
        BY <1>7, <1>8
    <2> QED
        BY <1>2, <1>3, <1>8, <1>9, <2>1, <2>2, ReadsShape DEF Shape, FleetShape
<1>12. FilesAreEarned'
    <2> SUFFICES ASSUME NEW x \in Modules,
                        (verify[x].kind = "result" /\ StartsWithOk(verify[x].verdict))'
                 PROVE  (verify[x].run \in 1..runs /\ EarnedBy(x, verify[x].run))'
        BY DEF FilesAreEarned
    <2>1. CASE x # m
        <3>1. verify'[x] = verify[x] /\ runs' = runs
            BY <1>4, <1>8, <2>1
        <3>2. verify[x].run \in 1..runs /\ EarnedBy(x, verify[x].run)
            BY <3>1 DEF IInv, FilesAreEarned, StartsWithOk
        <3> QED
            BY <1>9, <3>1, <3>2, <1>10 DEF EarnedBy
    <2>2. CASE x = m
        <3>1. verify'[x] = file
            BY <1>8, <2>2
        <3>2. verify'[x].run = runs /\ verify'[x].verdict = verdict_of(output, {m})
            BY <3>1 DEF Written
        <3>3. {m} \in SUBSET Modules /\ {m} # {}
            OBVIOUS
        <3>4. StartsWithOk(verdict_of(output, {m}))
            BY <3>2 DEF StartsWithOk
        <3>5. said.sound /\ said.run = runs
            BY <1>1, <3>3, <3>4, OutputsHaveLines, OkIsSound
        <3> HIDE DEF said
        <3>6. \E i \in DOMAIN odoo'[m] : odoo'[m][i].run = said.run /\ odoo'[m][i].sound
            BY <1>2, <1>6, <1>9, <3>5, EarnedNow
        <3> QED
            BY <1>4, <1>5, <2>2, <3>2, <3>5, <3>6 DEF EarnedBy
    <2> QED
        BY <2>1, <2>2
<1>13. FleetIsEarned'
    BY <1>3, <1>4, <1>10, <1>11, <1>12, ReadsEarned
<1>14. BatchOkMeansLoaded'
    BY <1>4 DEF BatchOkMeansLoaded
<1> QED
    BY <1>11, <1>12, <1>13, <1>14 DEF IInv

LEMMA DeathsEarn ==
    ASSUME IInv, NEW m \in Modules, VerifyDies(m) PROVE IInv'
<1>1. PICK file \in {verify[m], Torn} : verify' = [verify EXCEPT ![m] = file]
    BY DEF VerifyDies
<1>2. Shape /\ Called /\ FilesShape /\ SaidShape /\ FleetShape
    BY DEF IInv, Shape
<1>3. Reads(m) /\ step = "verify"
    BY DEF VerifyDies, Verifying
<1>4. UNCHANGED <<runs, job, ported, odoo>> /\ step' \in {"died", "write", "verify"}
    BY <1>3 DEF VerifyDies, Reads, args
<1>5. file \in Files
    BY <1>2 DEF FilesShape, Files
<1>6. FilesShape' /\ \A x \in Modules : verify'[x] = IF x = m THEN file ELSE verify[x]
    BY <1>1, <1>2, <1>5, OneFile
<1>7. Shape'
    <2>1. Called' /\ SaidShape'
        BY <1>2, <1>3, <1>4 DEF Called, SaidShape
    <2>2. verify'[m] \in Files
        BY <1>5, <1>6
    <2> QED
        BY <1>2, <1>3, <1>6, <2>1, <2>2, ReadsShape DEF Shape, FleetShape
<1>8. \A x \in Modules : \A r : EarnedBy(x, r) => EarnedBy(x, r)'
    BY <1>4 DEF EarnedBy
<1>9. FilesAreEarned'
    <2> SUFFICES ASSUME NEW x \in Modules,
                        (verify[x].kind = "result" /\ StartsWithOk(verify[x].verdict))'
                 PROVE  (verify[x].run \in 1..runs /\ EarnedBy(x, verify[x].run))'
        BY DEF FilesAreEarned
    <2>1. verify'[x] = verify[x] \/ verify'[x] = Torn
        BY <1>6
    <2>2. verify'[x] # Torn
        BY DEF Torn
    <2> QED
        BY <1>4, <2>1, <2>2 DEF IInv, FilesAreEarned, EarnedBy
<1>10. FleetIsEarned'
    BY <1>3, <1>4, <1>7, <1>8, <1>9, ReadsEarned
<1>11. BatchOkMeansLoaded'
    BY <1>4 DEF BatchOkMeansLoaded
<1> QED
    BY <1>7, <1>9, <1>10, <1>11 DEF IInv

LEMMA BatchEarns ==
    ASSUME IInv, Batch PROVE IInv'
<1>1. Shape /\ Called /\ FilesShape /\ SaidShape /\ FleetShape
    BY DEF IInv, Shape
<1>2. /\ UNCHANGED <<runs, job, ported, verify, fleet>>
      /\ step = "batch" /\ step' = "over"
    BY DEF Batch, args, files
<1>3. runs \in Nat /\ runs \in 1..runs /\ ported \subseteq Modules
    BY <1>1, <1>2 DEF Called
<1>4. Called' /\ FilesShape' /\ FleetShape'
    BY <1>1, <1>2 DEF Called, FilesShape, FleetShape
<1>5. CASE odoo' = odoo /\ rc' \in {-1, 1, 2}
    <2>1. BatchOkMeansLoaded'
        BY <1>5 DEF BatchOkMeansLoaded
    <2>2. FilesAreEarned' /\ FleetIsEarned'
        BY <1>2, <1>5 DEF IInv, FilesAreEarned, FleetIsEarned, EarnedBy
    <2> QED
        BY <1>1, <1>4, <1>5, <2>1, <2>2 DEF IInv, Shape, SaidShape
<1>6. ASSUME NEW output \in SaysOf(ported) \union {TimedOut}, ported # {}, rc' = BatchRc(output),
             odoo' = [m \in Modules |->
                        IF m \in ported
                        THEN Append(odoo[m], [run |-> runs, sound |-> Sound(output, ported)])
                        ELSE odoo[m]]
      PROVE  IInv'
    <2> DEFINE said == [run |-> runs, sound |-> Sound(output, ported)]
    <2>1. said \in Said
        BY <1>3, SoundIsSaid
    <2>2. odoo' = [m \in Modules |-> IF m \in ported THEN Append(odoo[m], said) ELSE odoo[m]]
        BY <1>6
    <2>3. /\ SaidShape' /\ \A m \in ported : odoo'[m] = Append(odoo[m], said)
          /\ \A x \in Modules : odoo'[x] = odoo[x] \/ \E d \in Said : odoo'[x] = Append(odoo[x], d)
        <3> HIDE DEF said
        <3> QED
            BY <1>1, <1>3, <2>1, <2>2, MoreSaid
    <2>4. \A x \in Modules : \A r : EarnedBy(x, r) => EarnedBy(x, r)'
        BY <1>1, <2>3, EarnedStays
    <2>5. FilesAreEarned'
        <3> SUFFICES ASSUME NEW x \in Modules,
                            (verify[x].kind = "result" /\ StartsWithOk(verify[x].verdict))'
                     PROVE  (verify[x].run \in 1..runs /\ EarnedBy(x, verify[x].run))'
            BY DEF FilesAreEarned
        <3>1. verify[x].run \in 1..runs /\ EarnedBy(x, verify[x].run)
            BY <1>2 DEF IInv, FilesAreEarned, StartsWithOk
        <3> QED
            BY <1>2, <2>4, <3>1 DEF EarnedBy
    <2>6. FleetIsEarned'
        BY <1>2, <2>4 DEF IInv, FleetIsEarned
    <2>7. BatchOkMeansLoaded'
        <3> SUFFICES ASSUME rc' = 0, NEW m \in ported
                     PROVE  EarnedBy(m, runs)'
            BY <1>2, <1>6 DEF BatchOkMeansLoaded
        <3>1. StartsWithOk(verdict_of(output, ported))
            BY <1>6 DEF BatchRc
        <3>2. ported \in SUBSET Modules /\ m \in Modules
            BY <1>3
        <3>3. said.sound /\ said.run = runs
            BY <1>6, <3>1, <3>2, OutputsHaveLines, OkIsSound
        <3> HIDE DEF said
        <3>4. \E i \in DOMAIN odoo'[m] : odoo'[m][i].run = said.run /\ odoo'[m][i].sound
            BY <1>1, <2>1, <2>3, <3>2, <3>3, EarnedNow
        <3> QED
            BY <1>2, <3>3, <3>4 DEF EarnedBy
    <2> QED
        BY <1>4, <2>3, <2>5, <2>6, <2>7 DEF IInv, Shape
<1> QED
    BY <1>5, <1>6 DEF Batch

\* After the last part comes the batch, unless there is none.
LEMMA AfterIsLast ==
    ASSUME NEW part
    PROVE  After(part) \in {"clean", "batch", "over"} /\ (After(part) = "over" => "batch" \notin job.parts)
BY DEF After

LEMMA PortableModules ==
    ASSUME Shape, Portable PROVE ported' \subseteq Modules
BY CalledModules DEF Portable, portable_set

LEMMA NextEarns ==
    ASSUME IInv, [Next]_vars PROVE IInv'
<1>1. ported \subseteq Modules
    BY DEF IInv, Shape, Called
<1>2. CASE Start
    BY <1>2, StartEarns
<1>3. CASE Order
    BY <1>1, <1>3, QuietSteps DEF Order, args, files
<1>4. CASE WriteFleet
    BY <1>1, <1>4, QuietSteps DEF WriteFleet, args, files
<1>5. CASE Portable
    <2>1. ported' \subseteq Modules
        BY <1>5, PortableModules DEF IInv
    <2> QED
        BY <1>5, <2>1, QuietSteps, AfterIsLast DEF Portable, args, files
<1>6. CASE StageClean
    BY <1>1, <1>6, QuietSteps DEF StageClean, args, files
<1>7. CASE Rmtree
    BY <1>1, <1>7, QuietSteps DEF Rmtree, args
<1>8. CASE StageMark
    BY <1>1, <1>8, QuietSteps DEF StageMark, args
<1>9. CASE StageCopy
    BY <1>1, <1>9, QuietSteps, AfterIsLast DEF StageCopy, args
<1>10. CASE Batch
    BY <1>10, BatchEarns
<1>11. CASE Kill
    BY <1>1, <1>11, QuietSteps DEF Kill, Running, args, files
<1>12. CASE UserFile
    BY <1>1, <1>12, QuietSteps DEF UserFile, args
<1>13. ASSUME NEW m \in Modules, VerifyWrites(m) PROVE IInv'
    BY <1>13, WritesEarn
<1>14. ASSUME NEW m \in Modules, VerifyDies(m) PROVE IInv'
    BY <1>14, DeathsEarn
<1>15. CASE UNCHANGED vars
    BY <1>1, <1>15, QuietSteps DEF vars, args, files
<1> QED
    BY <1>2, <1>3, <1>4, <1>5, <1>6, <1>7, <1>8, <1>9, <1>10, <1>11, <1>12, <1>13,
       <1>14, <1>15 DEF Next

\* Nothing is called ok, in a verify.json, in fleet.json or by the exit code of
\* a batch, but after an upgrade that loaded the modules and ended well,
\* however many calls were made and wherever they were killed.
THEOREM OksAreEarned == Spec => []OkIsEarned
<1>1. IInv => OkIsEarned
    <2>1. FilesAreEarned /\ FleetIsEarned => VerdictsWereEarned
        BY DEF FilesAreEarned, FleetIsEarned, VerdictsWereEarned
    <2> QED
        BY <2>1 DEF IInv, OkIsEarned
<1> QED
    BY <1>1, InitEarned, NextEarns, PTL DEF Spec

-----------------------------------------------------------------------------
(* The user's directory.                                                   *)

\* It is never taken for a staging directory: it has no marker, and no step of
\* the staging past the check is under way.
OwnIsApart ==
    own => /\ Foreign \in stage.entries /\ Marker \notin stage.entries
           /\ step \notin {"rmtree", "mark", "copy"}

\* stage_modules: what a user put into a directory that is not a staging
\* directory stays there for ever.
THEOREM UsersAreSafe == Spec => []UserFilesStay
<1>1. Init => OwnIsApart
    <2> SUFFICES ASSUME Init PROVE OwnIsApart
        OBVIOUS
    <2>1. stage.entries = {} \/ stage.entries = {Foreign}
        BY DEF Init, Nowhere
    <2>2. Foreign # Marker
        BY DEF Foreign, Marker
    <2>3. step = "idle" /\ (own => Foreign \in stage.entries)
        BY DEF Init
    <2> QED
        BY <2>1, <2>2, <2>3 DEF OwnIsApart
<1>2. OwnIsApart /\ [Next]_vars => OwnIsApart'
    <2> SUFFICES ASSUME OwnIsApart, [Next]_vars PROVE OwnIsApart'
        OBVIOUS
    <2>1. CASE StageClean
        BY <2>1 DEF StageClean, OwnIsApart, files
    <2>2. CASE Rmtree \/ StageMark \/ StageCopy
        BY <2>2 DEF Rmtree, StageMark, StageCopy, OwnIsApart
    <2>3. CASE UserFile
        <3>1. Foreign # Marker
            BY DEF Foreign, Marker
        <3>2. step \notin {"rmtree", "mark", "copy"} /\ step' = step
            BY <2>3 DEF UserFile, Running
        <3>3. stage'.entries = stage.entries \union {Foreign}
            BY <2>3 DEF UserFile
        <3> QED
            BY <2>3, <3>1, <3>2, <3>3 DEF UserFile, OwnIsApart
    <2>4. CASE Start \/ Order \/ WriteFleet \/ Kill
        BY <2>4 DEF Start, Order, WriteFleet, Kill, OwnIsApart, files
    <2>5. CASE Portable
        BY <2>5, AfterIsLast DEF Portable, OwnIsApart, files
    <2>6. CASE Batch
        <3>1. step' = "over" /\ own' = own /\ stage' = stage
            BY <2>6 DEF Batch, files
        <3> QED
            BY <3>1 DEF OwnIsApart
    <2>7. ASSUME NEW m \in Modules, VerifyWrites(m) \/ VerifyDies(m) PROVE OwnIsApart'
        <3>1. Reads(m) /\ own' = own /\ stage' = stage
            BY <2>7 DEF VerifyWrites, VerifyDies
        <3>2. step' \in {"died", "write", "verify"}
            BY <3>1 DEF Reads
        <3> QED
            BY <3>1, <3>2 DEF OwnIsApart
    <2>8. CASE UNCHANGED vars
        BY <2>8 DEF vars, files, OwnIsApart
    <2> QED
        BY <2>1, <2>2, <2>3, <2>4, <2>5, <2>6, <2>7, <2>8 DEF Next
<1>3. OwnIsApart => UserFilesStay
    BY DEF OwnIsApart, UserFilesStay
<1> QED
    BY <1>1, <1>2, <1>3, PTL DEF Spec

-----------------------------------------------------------------------------
(* The order of the fleet and what it excludes, for every graph.           *)

\* Induction over the numbers, as a set.
LEMMA NatSetInduction ==
    ASSUME NEW S, 0 \in S, \A n \in Nat : n \in S => n + 1 \in S
    PROVE  Nat \subseteq S
<1> DEFINE R == {ss \in Nat \X Nat : ss[1] < ss[2]}
           T == Nat \ S
<1>1. IsWellFoundedOn(R, Nat)
    BY NatLessThanWellFounded, Zenon DEF OpToRel
<1> SUFFICES ASSUME T # {} PROVE FALSE
    OBVIOUS
<1>2. \E n \in T : \A m \in T : ~(<<m, n>> \in R)
    <2>1. T \subseteq Nat /\ T # {}
        OBVIOUS
    <2> HIDE DEF R, T
    <2> QED
        BY <1>1, <2>1, WFMin
<1>3. PICK n \in T : \A m \in T : ~(m < n)
    BY <1>2
<1>4. n # 0 /\ n - 1 \in Nat
    BY <1>3
<1>5. n - 1 \in S
    BY <1>3, <1>4
<1> QED
    BY <1>4, <1>5

\* A set of numbers has a least one.
LEMMA HasLeast ==
    ASSUME NEW S \in SUBSET Nat, S # {}
    PROVE  \E n \in S : \A m \in S : n <= m
<1> DEFINE R == {ss \in Nat \X Nat : ss[1] < ss[2]}
<1>1. IsWellFoundedOn(R, Nat)
    BY NatLessThanWellFounded, Zenon DEF OpToRel
<1> HIDE DEF R
<1>2. PICK n \in S : \A m \in S : ~(<<m, n>> \in R)
    BY <1>1, WFMin
<1>3. \A m \in S : ~(m < n)
    BY <1>2 DEF R
<1> QED
    BY <1>3

LEMMA MinIsLeast ==
    ASSUME NEW S \in SUBSET Nat, S # {}
    PROVE  Min(S) \in S /\ \A m \in S : Min(S) <= m
BY HasLeast DEF Min

\* Modules sorted by name.
LEMMA SortedIsOrdered ==
    ASSUME NEW S \in SUBSET Nat, IsFiniteSet(S)
    PROVE  /\ Sorted(S) \in [1..Cardinality(S) -> S]
           /\ \A i, k \in 1..Cardinality(S) : i < k => Sorted(S)[i] < Sorted(S)[k]
<1> DEFINE Ordered(s, U) == /\ s \in [1..Cardinality(U) -> U]
                            /\ \A i, k \in 1..Cardinality(U) : i < k => s[i] < s[k]
           P(n) == \A U \in SUBSET Nat : IsFiniteSet(U) /\ Cardinality(U) = n => \E s : Ordered(s, U)
<1>1. P(0)
    <2> SUFFICES ASSUME NEW U \in SUBSET Nat, IsFiniteSet(U), Cardinality(U) = 0
                 PROVE  \E s : Ordered(s, U)
        OBVIOUS
    <2>1. 1..Cardinality(U) = {}
        OBVIOUS
    <2> DEFINE s == [i \in 1..Cardinality(U) |-> 0]
    <2>2. s \in [1..Cardinality(U) -> U]
        BY <2>1
    <2> HIDE DEF s
    <2>3. \A i \in 1..Cardinality(U) : FALSE
        BY <2>1
    <2>4. Ordered(s, U)
        BY <2>2, <2>3, Zenon
    <2> QED
        BY <2>4
<1>2. ASSUME NEW n \in Nat, P(n) PROVE P(n + 1)
    <2> SUFFICES ASSUME NEW U \in SUBSET Nat, IsFiniteSet(U), Cardinality(U) = n + 1
                 PROVE  \E s : Ordered(s, U)
        OBVIOUS
    <2>1. U # {}
        BY FS_EmptySet
    <2>2. PICK x \in U : \A m \in U : x <= m
        BY <2>1, HasLeast
    <2> DEFINE V == U \ {x}
    <2>3. IsFiniteSet(V) /\ Cardinality(V) = n
        <3>1. IsFiniteSet(U \ {x}) /\ Cardinality(U \ {x}) = Cardinality(U) - 1
            BY FS_RemoveElement
        <3> QED
            BY <3>1
    <2>4. PICK t : Ordered(t, V)
        BY <1>2, <2>3
    <2>5. t \in [1..n -> V] /\ \A i, k \in 1..n : i < k => t[i] < t[k]
        BY <2>3, <2>4
    <2> DEFINE s == [i \in 1..(n + 1) |-> IF i = 1 THEN x ELSE t[i - 1]]
    <2>6. \A i \in 1..(n + 1) : i # 1 => i - 1 \in 1..n /\ s[i] = t[i - 1] /\ s[i] \in V
        BY <2>5
    <2>7. s[1] = x
        OBVIOUS
    <2>8. \A v \in V : x < v
        BY <2>2
    <2>9. s \in [1..(n + 1) -> U]
        BY <2>5, <2>6
    <2> HIDE DEF s
    <2>10. ASSUME NEW i \in 1..(n + 1), NEW k \in 1..(n + 1), i < k PROVE s[i] < s[k]
        <3>1. CASE i = 1
            <4>1. k # 1
                BY <2>10, <3>1
            <4> QED
                BY <2>6, <2>7, <2>8, <3>1, <4>1
        <3>2. CASE i # 1
            <4>1. i - 1 \in 1..n /\ k - 1 \in 1..n /\ i - 1 < k - 1 /\ k # 1
                BY <2>10, <3>2
            <4> QED
                BY <2>5, <2>6, <3>2, <4>1
        <3> QED
            BY <3>1, <3>2
    <2> QED
        BY <2>9, <2>10
<1>3. P(Cardinality(S))
    <2> DEFINE T == {n \in Nat : P(n)}
    <2> HIDE DEF P
    <2>1. 0 \in T /\ \A n \in Nat : n \in T => n + 1 \in T
        BY <1>1, <1>2
    <2>2. Cardinality(S) \in Nat
        BY FS_CardinalityType
    <2> HIDE DEF T
    <2>3. Cardinality(S) \in T
        BY <2>1, <2>2, NatSetInduction
    <2> QED
        BY <2>3 DEF T
<1>4. \E s \in [1..Cardinality(S) -> S] : \A i, k \in 1..Cardinality(S) : i < k => s[i] < s[k]
    BY <1>3
<1> QED
    BY <1>4 DEF Sorted

\* The loop of portable_set, turn by turn.
LEMMA ExcludedIsLoop ==
    ASSUME NEW needs, NEW exclude, Cardinality(DOMAIN needs) \in Nat
    PROVE  \E e : /\ Excluded(needs, exclude) = e[Cardinality(DOMAIN needs)]
                  /\ e[0] = exclude
                  /\ \A n \in Nat : n + 1 <= Cardinality(DOMAIN needs) =>
                        e[n + 1] = e[n] \union {m \in DOMAIN needs : needs[m] \intersect e[n] # {}}
<1> DEFINE N == Cardinality(DOMAIN needs)
           Turn(s) == s \union {m \in DOMAIN needs : needs[m] \intersect s # {}}
           P(n) == \E f : f = [k \in 0..n |-> IF k = 0 THEN exclude ELSE Turn(f[k - 1])]
<1>1. P(0)
    <2> DEFINE f == [k \in 0..0 |-> exclude]
    <2>1. ASSUME NEW k \in 0..0 PROVE exclude = IF k = 0 THEN exclude ELSE Turn(f[k - 1])
        OBVIOUS
    <2>2. f = [k \in 0..0 |-> IF k = 0 THEN exclude ELSE Turn(f[k - 1])]
        BY <2>1
    <2> QED
        BY <2>2
<1>2. ASSUME NEW n \in Nat, P(n) PROVE P(n + 1)
    <2>1. PICK f : f = [k \in 0..n |-> IF k = 0 THEN exclude ELSE Turn(f[k - 1])]
        BY <1>2
    <2> HIDE DEF Turn
    <2> DEFINE g == [k \in 0..(n + 1) |-> IF k = n + 1 THEN Turn(f[n]) ELSE f[k]]
    <2>2. \A k \in 0..n : f[k] = IF k = 0 THEN exclude ELSE Turn(f[k - 1])
        BY <2>1
    <2>3. ASSUME NEW k \in 0..(n + 1) PROVE g[k] = IF k = 0 THEN exclude ELSE Turn(g[k - 1])
        BY <2>2
    <2>4. g = [k \in 0..(n + 1) |-> IF k = 0 THEN exclude ELSE Turn(g[k - 1])]
        BY <2>3
    <2> QED
        BY <2>4
<1>3. P(N)
    <2> HIDE DEF P
    <2> DEFINE S == {n \in Nat : P(n)}
    <2>1. 0 \in S /\ \A n \in Nat : n \in S => n + 1 \in S
        BY <1>1, <1>2
    <2> HIDE DEF S
    <2>2. N \in S
        BY <2>1, NatSetInduction
    <2> QED
        BY <2>2 DEF S
<1>4. PICK f : f = [k \in 0..N |-> IF k = 0 THEN exclude ELSE Turn(f[k - 1])]
    BY <1>3
<1> DEFINE e == CHOOSE g : g = [k \in 0..N |-> IF k = 0 THEN exclude ELSE Turn(g[k - 1])]
<1>5. e = [k \in 0..N |-> IF k = 0 THEN exclude ELSE Turn(e[k - 1])]
    <2> HIDE DEF Turn
    <2> QED
        BY <1>4, Zenon
<1>6. Excluded(needs, exclude) = e[N]
    BY DEF Excluded
<1> HIDE DEF e
<1>7. e[0] = exclude /\ \A n \in Nat : n + 1 <= N => e[n + 1] = Turn(e[n])
    <2> HIDE DEF Turn
    <2> QED
        BY <1>5
<1> QED
    BY <1>6, <1>7

\* The loop ends: each turn adds a module, or nothing ever will.
LEMMA ExcludedIsClosed ==
    ASSUME NEW needs, NEW exclude, IsFiniteSet(DOMAIN needs)
    PROVE  LET out == Excluded(needs, exclude)
           IN  /\ exclude \subseteq out
               /\ \A m \in DOMAIN needs : needs[m] \intersect out # {} => m \in out
<1> DEFINE D == DOMAIN needs
           N == Cardinality(D)
           Turn(s) == s \union {m \in D : needs[m] \intersect s # {}}
<1>1. N \in Nat
    BY FS_CardinalityType
<1>2. PICK e : /\ Excluded(needs, exclude) = e[N] /\ e[0] = exclude
               /\ \A n \in Nat : n + 1 <= N => e[n + 1] = Turn(e[n])
    BY <1>1, ExcludedIsLoop
<1> DEFINE Closed(s) == \A m \in D : needs[m] \intersect s # {} => m \in s
           Q(n) == exclude \subseteq e[n] /\ (Closed(e[n]) \/ Cardinality(e[n] \intersect D) >= n)
<1>3. Q(0)
    <2>1. IsFiniteSet(e[0] \intersect D)
        BY FS_Subset
    <2>2. Cardinality(e[0] \intersect D) \in Nat
        BY <2>1, FS_CardinalityType
    <2> QED
        BY <1>2, <2>2
<1>4. ASSUME NEW n \in Nat, n + 1 <= N, Q(n) PROVE Q(n + 1)
    <2>1. e[n + 1] = Turn(e[n])
        BY <1>2, <1>4
    <2>2. exclude \subseteq e[n + 1]
        BY <1>4, <2>1
    <2>3. CASE Closed(e[n])
        <3>1. e[n + 1] = e[n]
            BY <2>1, <2>3
        <3> QED
            BY <2>2, <2>3, <3>1
    <2>4. CASE ~Closed(e[n])
        <3> DEFINE A == e[n] \intersect D
                   B == e[n + 1] \intersect D
        <3>1. PICK m \in D : needs[m] \intersect e[n] # {} /\ m \notin e[n]
            BY <2>4
        <3>2. A \subseteq B /\ m \in B /\ m \notin A /\ B \in SUBSET D
            BY <2>1, <3>1
        <3> HIDE DEF A, B
        <3>3. IsFiniteSet(B) /\ IsFiniteSet(A)
            BY <3>2, FS_Subset
        <3>4. Cardinality(A) <= Cardinality(B) /\ (Cardinality(B) = Cardinality(A) => B = A)
            BY <3>2, <3>3, FS_Subset
        <3>5. Cardinality(A) \in Nat /\ Cardinality(B) \in Nat /\ Cardinality(A) # Cardinality(B)
            BY <3>2, <3>3, <3>4, FS_CardinalityType
        <3>6. Cardinality(A) >= n
            BY <1>4, <2>4 DEF A
        <3>7. Cardinality(B) >= n + 1
            BY <3>4, <3>5, <3>6
        <3> QED
            BY <2>2, <3>7 DEF B
    <2> QED
        BY <2>3, <2>4
<1> HIDE DEF Q
<1>5. Q(N)
    <2> DEFINE S == {n \in Nat : n <= N => Q(n)}
    <2>1. 0 \in S
        BY <1>3
    <2>2. \A n \in Nat : n \in S => n + 1 \in S
        BY <1>1, <1>4
    <2> HIDE DEF S
    <2>3. N \in S
        BY <1>1, <2>1, <2>2, NatSetInduction
    <2> QED
        BY <1>1, <2>3 DEF S
<1>6. Closed(e[N])
    <2>1. CASE Cardinality(e[N] \intersect D) >= N
        <3> DEFINE A == e[N] \intersect D
        <3>1. A \in SUBSET D /\ IsFiniteSet(D)
            OBVIOUS
        <3> HIDE DEF A
        <3>2. IsFiniteSet(A) /\ Cardinality(A) <= N /\ (N = Cardinality(A) => D = A)
            BY <3>1, FS_Subset
        <3>3. Cardinality(A) \in Nat
            BY <3>2, FS_CardinalityType
        <3>4. D = A
            BY <1>1, <2>1, <3>2, <3>3 DEF A
        <3> QED
            BY <3>4 DEF A
    <2> QED
        BY <1>5, <2>1 DEF Q
<1> QED
    BY <1>2, <1>5, <1>6 DEF Q

\* Warshall's algorithm, one module at a time.
Direct(needs) ==
    [p \in (DOMAIN needs) \X (DOMAIN needs) |-> p[2] \in Custom(needs, p[1])]
Through(needs, less, v) ==
    [p \in (DOMAIN needs) \X (DOMAIN needs) |->
        less[p] \/ (less[<<p[1], v>>] /\ less[<<v, p[2]>>])]
IsWarshall(needs, path) ==
    /\ DependsOn(needs) = path[DOMAIN needs]
    /\ path[{}] = Direct(needs)
    /\ \A via \in (SUBSET DOMAIN needs) \ {{}} :
          \E v \in via : path[via] = Through(needs, path[via \ {v}], v)

LEMMA DirectIs ==
    ASSUME NEW needs, NEW a \in DOMAIN needs, NEW b \in DOMAIN needs
    PROVE  Direct(needs)[<<a, b>>] <=> b \in Custom(needs, a)
<1> DEFINE names == DOMAIN needs
           p == <<a, b>>
<1>1. p \in names \X names /\ p[1] = a /\ p[2] = b
    OBVIOUS
<1> HIDE DEF p
<1>2. Direct(needs)[p] = (p[2] \in Custom(needs, p[1]))
    BY <1>1 DEF Direct
<1>3. Direct(needs)[p] <=> p[2] \in Custom(needs, p[1])
    BY <1>2, Zenon
<1> QED
    BY <1>1, <1>3 DEF p

LEMMA ThroughIs ==
    ASSUME NEW needs, NEW less, NEW v, NEW a \in DOMAIN needs, NEW b \in DOMAIN needs
    PROVE  Through(needs, less, v)[<<a, b>>] <=> less[<<a, b>>] \/ (less[<<a, v>>] /\ less[<<v, b>>])
<1> DEFINE names == DOMAIN needs
           p == <<a, b>>
<1>1. p \in names \X names /\ p[1] = a /\ p[2] = b
    OBVIOUS
<1> HIDE DEF p
<1>2. Through(needs, less, v)[p] = (less[p] \/ (less[<<p[1], v>>] /\ less[<<v, p[2]>>]))
    BY <1>1 DEF Through
<1>3. Through(needs, less, v)[p] <=> less[p] \/ (less[<<a, v>>] /\ less[<<v, b>>])
    BY <1>1, <1>2, Zenon
<1> QED
    BY <1>3 DEF p

LEMMA DependsIsLoop ==
    ASSUME NEW needs, IsFiniteSet(DOMAIN needs)
    PROVE  \E path : IsWarshall(needs, path)
<1> DEFINE names == DOMAIN needs
           N == Cardinality(names)
           Some(via) == CHOOSE v \in via : TRUE
           Body(f, via) == IF via = {} THEN Direct(needs) ELSE Through(needs, f[via \ {Some(via)}], Some(via))
           Small(n) == {via \in SUBSET names : Cardinality(via) <= n}
           P(n) == \E f : f = [via \in Small(n) |-> Body(f, via)]
<1>1. \A via \in SUBSET names : IsFiniteSet(via) /\ Cardinality(via) \in Nat /\ Cardinality(via) <= N
    BY FS_Subset, FS_CardinalityType
<1>2. \A via \in (SUBSET names) \ {{}} :
         /\ Some(via) \in via /\ via \ {Some(via)} \in SUBSET names
         /\ Cardinality(via \ {Some(via)}) = Cardinality(via) - 1
    <2> TAKE via \in (SUBSET names) \ {{}}
    <2>1. Some(via) \in via
        OBVIOUS
    <2> HIDE DEF Some
    <2>2. Cardinality(via \ {Some(via)}) = Cardinality(via) - 1
        BY <1>1, <2>1, FS_RemoveElement
    <2> QED
        BY <2>1, <2>2
<1>3. P(0)
    <2>1. \A via \in Small(0) : via = {}
        BY <1>1, FS_EmptySet
    <2> DEFINE f == [via \in Small(0) |-> Direct(needs)]
    <2>2. f = [via \in Small(0) |-> Body(f, via)]
        BY <2>1
    <2> QED
        BY <2>2
<1>4. ASSUME NEW n \in Nat, P(n) PROVE P(n + 1)
    <2> HIDE DEF Some
    <2>1. PICK f : f = [via \in Small(n) |-> Body(f, via)]
        BY <1>4
    <2> DEFINE g == [via \in Small(n + 1) |-> IF via \in Small(n) THEN f[via] ELSE Body(f, via)]
    <2>2. \A via \in Small(n + 1) : via # {} => via \ {Some(via)} \in Small(n)
        BY <1>1, <1>2
    <2>3. \A via \in Small(n) : f[via] = Body(f, via) /\ via \in Small(n + 1)
        <3>1. \A via \in Small(n) : f[via] = Body(f, via)
            BY <2>1
        <3>2. \A via \in Small(n) : via \in Small(n + 1)
            BY <1>1
        <3> QED
            BY <3>1, <3>2
    <2> HIDE DEF Small
    <2>4. \A via \in Small(n + 1) : g[via] = Body(f, via)
        BY <2>3
    <2>5. \A via \in Small(n) : g[via] = f[via]
        BY <2>3
    <2>6. \A via \in Small(n + 1) : Body(f, via) = Body(g, via)
        BY <2>2, <2>5
    <2>7. g = [via \in Small(n + 1) |-> Body(g, via)]
        <3>1. g = [via \in Small(n + 1) |-> Body(f, via)]
            BY <2>4
        <3> HIDE DEF g, Body
        <3> QED
            BY <2>6, <3>1
    <2> QED
        BY <2>7
<1>5. P(N)
    <2> HIDE DEF P
    <2> DEFINE S == {n \in Nat : P(n)}
    <2>1. 0 \in S /\ \A n \in Nat : n \in S => n + 1 \in S
        BY <1>3, <1>4
    <2>2. N \in Nat
        BY FS_CardinalityType
    <2> HIDE DEF S
    <2>3. N \in S
        BY <2>1, <2>2, NatSetInduction
    <2> QED
        BY <2>3 DEF S
<1>6. Small(N) = SUBSET names
    BY <1>1
<1> DEFINE e == CHOOSE f : f = [via \in SUBSET names |-> Body(f, via)]
<1>7. e = [via \in SUBSET names |-> Body(e, via)]
    <2> HIDE DEF Body, Small
    <2>1. \E f : f = [via \in SUBSET names |-> Body(f, via)]
        BY <1>5, <1>6
    <2> QED
        BY <2>1, Zenon
<1>8. DependsOn(needs) = e[names]
    BY DEF DependsOn, Direct, Through
<1> HIDE DEF e
<1>9. e[{}] = Direct(needs)
    <2> HIDE DEF Some
    <2> QED
        BY <1>7
<1>10. \A via \in (SUBSET names) \ {{}} : e[via] = Through(needs, e[via \ {Some(via)}], Some(via))
    <2> HIDE DEF Some
    <2> QED
        BY <1>7
<1>11. \A via \in (SUBSET names) \ {{}} : \E v \in via : e[via] = Through(needs, e[via \ {v}], v)
    <2> HIDE DEF Some
    <2> QED
        BY <1>2, <1>10
<1> QED
    BY <1>8, <1>9, <1>11 DEF IsWarshall

\* On every set of modules that can be passed through.
LEMMA DependsIsClosure ==
    ASSUME NEW needs, IsFiniteSet(DOMAIN needs)
    PROVE  LET names == DOMAIN needs
               on == DependsOn(needs)
           IN  /\ \A m \in names : \A d \in Custom(needs, m) : on[<<m, d>>]
               /\ \A a, v, b \in names : on[<<a, v>>] /\ on[<<v, b>>] => on[<<a, b>>]
               /\ \A R \in SUBSET (names \X names) :
                     /\ \A m \in names : \A d \in Custom(needs, m) : <<m, d>> \in R
                     /\ \A a, v, b \in names : <<a, v>> \in R /\ <<v, b>> \in R => <<a, b>> \in R
                     => \A a, b \in names : on[<<a, b>>] => <<a, b>> \in R
<1> DEFINE names == DOMAIN needs
           N == Cardinality(names)
<1>1. PICK path : IsWarshall(needs, path)
    BY DependsIsLoop
<1> DEFINE Linked(on) == \A m \in names : \A d \in Custom(needs, m) : on[<<m, d>>]
           Composes(on, via) == \A v \in via : \A a, b \in names : on[<<a, v>>] /\ on[<<v, b>>] => on[<<a, b>>]
           Closed(R) == /\ \A m \in names : \A d \in Custom(needs, m) : <<m, d>> \in R
                        /\ \A a, v, b \in names : <<a, v>> \in R /\ <<v, b>> \in R => <<a, b>> \in R
           Within(on) == \A R \in SUBSET (names \X names) :
                            Closed(R) => \A a, b \in names : on[<<a, b>>] => <<a, b>> \in R
           Good(via) == Linked(path[via]) /\ Composes(path[via], via) /\ Within(path[via])
           P(n) == \A via \in SUBSET names : Cardinality(via) = n => Good(via)
<1>2. \A via \in SUBSET names : IsFiniteSet(via) /\ Cardinality(via) \in Nat
    BY FS_Subset, FS_CardinalityType
<1>3. \A m \in names : Custom(needs, m) \subseteq names
    BY DEF Custom
<1>4. P(0)
    <2>1. \A via \in SUBSET names : Cardinality(via) = 0 => via = {}
        BY <1>2, FS_EmptySet
    <2>2. \A a, b \in names : path[{}][<<a, b>>] <=> b \in Custom(needs, a)
        <3>1. path[{}] = Direct(needs)
            BY <1>1 DEF IsWarshall
        <3> QED
            BY <3>1, DirectIs
    <2>3. Linked(path[{}])
        BY <1>3, <2>2
    <2>4. Within(path[{}])
        BY <2>2
    <2> QED
        BY <2>1, <2>3, <2>4
<1>5. ASSUME NEW n \in Nat, P(n) PROVE P(n + 1)
    <2> SUFFICES ASSUME NEW via \in SUBSET names, Cardinality(via) = n + 1 PROVE Good(via)
        OBVIOUS
    <2>1. via # {}
        BY FS_EmptySet
    <2>2. PICK v \in via : path[via] = Through(needs, path[via \ {v}], v)
        BY <1>1, <2>1 DEF IsWarshall
    <2> DEFINE less == path[via \ {v}]
               more == path[via]
    <2>3. Good(via \ {v})
        <3>1. IsFiniteSet(via)
            BY <1>2
        <3>2. Cardinality(via \ {v}) = Cardinality(via) - 1
            BY <3>1, FS_RemoveElement
        <3>3. Cardinality(via \ {v}) = n /\ via \ {v} \in SUBSET names
            BY <3>2
        <3> HIDE DEF Good
        <3> QED
            BY <1>5, <3>3
    <2>4. Linked(less) /\ Composes(less, via \ {v}) /\ Within(less)
        BY <2>3
    <2>5. v \in names
        OBVIOUS
    <2>6. \A a, b \in names : more[<<a, b>>] <=> less[<<a, b>>] \/ (less[<<a, v>>] /\ less[<<v, b>>])
        <3> HIDE DEF less
        <3>1. more = Through(needs, less, v)
            BY <2>2 DEF less
        <3> QED
            BY <2>5, <3>1, ThroughIs
    <2> HIDE DEF less, more
    <2>7. Linked(more)
        BY <1>3, <2>4, <2>6
    <2>8. Within(more)
        <3> SUFFICES ASSUME NEW R \in SUBSET (names \X names), Closed(R), NEW a \in names, NEW b \in names,
                            more[<<a, b>>]
                     PROVE  <<a, b>> \in R
            OBVIOUS
        <3>1. \A c, d \in names : less[<<c, d>>] => <<c, d>> \in R
            BY <2>4
        <3> QED
            BY <2>5, <2>6, <3>1
    <2>9. Composes(more, via)
        <3> SUFFICES ASSUME NEW w \in via, NEW a \in names, NEW b \in names, more[<<a, w>>], more[<<w, b>>]
                     PROVE  more[<<a, b>>]
            OBVIOUS
        <3>1. w \in names
            OBVIOUS
        <3>2. less[<<a, w>>] \/ (less[<<a, v>>] /\ less[<<v, w>>])
            BY <2>6, <3>1
        <3>3. less[<<w, b>>] \/ (less[<<w, v>>] /\ less[<<v, b>>])
            BY <2>6, <3>1
        <3>4. CASE w = v
            BY <2>6, <3>2, <3>3, <3>4
        <3>5. CASE w # v
            <4>1. \A c, d \in names : less[<<c, w>>] /\ less[<<w, d>>] => less[<<c, d>>]
                BY <2>4, <3>5
            <4> QED
                BY <2>5, <2>6, <3>2, <3>3, <4>1
        <3> QED
            BY <3>4, <3>5
    <2> QED
        BY <2>7, <2>8, <2>9 DEF more
<1>6. P(N)
    <2> HIDE DEF P
    <2> DEFINE S == {n \in Nat : P(n)}
    <2>1. 0 \in S /\ \A n \in Nat : n \in S => n + 1 \in S
        BY <1>4, <1>5
    <2>2. N \in Nat
        BY FS_CardinalityType
    <2> HIDE DEF S
    <2>3. N \in S
        BY <2>1, <2>2, NatSetInduction
    <2> QED
        BY <2>3 DEF S
<1>7. Good(names)
    <2> HIDE DEF Good
    <2> QED
        BY <1>6
<1> DEFINE on == DependsOn(needs)
<1>8. Linked(on) /\ Composes(on, names) /\ Within(on)
    BY <1>1, <1>7 DEF IsWarshall
<1> HIDE DEF on
<1> QED
    BY <1>8 DEF on

\* The loop of topo_order, turn by turn.
LEMMA KahnIsLoop ==
    ASSUME NEW needs, Cardinality(DOMAIN needs) \in Nat
    PROVE  \E o : /\ Kahn(needs) = o[Cardinality(DOMAIN needs)]
                  /\ o[0] = <<>>
                  /\ \A n \in Nat : n + 1 <= Cardinality(DOMAIN needs) =>
                        o[n + 1] = IF Queue(needs, Range(o[n])) = {} THEN o[n]
                                   ELSE Append(o[n], Min(Queue(needs, Range(o[n]))))
<1> DEFINE N == Cardinality(DOMAIN needs)
           Turn(s) == IF Queue(needs, Range(s)) = {} THEN s
                      ELSE Append(s, Min(Queue(needs, Range(s))))
           P(n) == \E f : f = [k \in 0..n |-> IF k = 0 THEN <<>> ELSE Turn(f[k - 1])]
<1>1. P(0)
    <2> DEFINE f == [k \in 0..0 |-> <<>>]
    <2> HIDE DEF Turn
    <2>1. ASSUME NEW k \in 0..0 PROVE <<>> = IF k = 0 THEN <<>> ELSE Turn(f[k - 1])
        OBVIOUS
    <2>2. f = [k \in 0..0 |-> IF k = 0 THEN <<>> ELSE Turn(f[k - 1])]
        BY <2>1
    <2> QED
        BY <2>2
<1>2. ASSUME NEW n \in Nat, P(n) PROVE P(n + 1)
    <2>1. PICK f : f = [k \in 0..n |-> IF k = 0 THEN <<>> ELSE Turn(f[k - 1])]
        BY <1>2
    <2> HIDE DEF Turn
    <2> DEFINE g == [k \in 0..(n + 1) |-> IF k = n + 1 THEN Turn(f[n]) ELSE f[k]]
    <2>2. \A k \in 0..n : f[k] = IF k = 0 THEN <<>> ELSE Turn(f[k - 1])
        BY <2>1
    <2>3. ASSUME NEW k \in 0..(n + 1) PROVE g[k] = IF k = 0 THEN <<>> ELSE Turn(g[k - 1])
        BY <2>2
    <2>4. g = [k \in 0..(n + 1) |-> IF k = 0 THEN <<>> ELSE Turn(g[k - 1])]
        BY <2>3
    <2> QED
        BY <2>4
<1>3. P(N)
    <2> HIDE DEF P
    <2> DEFINE S == {n \in Nat : P(n)}
    <2>1. 0 \in S /\ \A n \in Nat : n \in S => n + 1 \in S
        BY <1>1, <1>2
    <2> HIDE DEF S
    <2>2. N \in S
        BY <2>1, NatSetInduction
    <2> QED
        BY <2>2 DEF S
<1>4. PICK f : f = [k \in 0..N |-> IF k = 0 THEN <<>> ELSE Turn(f[k - 1])]
    BY <1>3
<1> DEFINE o == CHOOSE g : g = [k \in 0..N |-> IF k = 0 THEN <<>> ELSE Turn(g[k - 1])]
<1>5. o = [k \in 0..N |-> IF k = 0 THEN <<>> ELSE Turn(o[k - 1])]
    <2> HIDE DEF Turn
    <2> QED
        BY <1>4, Zenon
<1>6. Kahn(needs) = o[N]
    BY Zenon DEF Kahn
<1> HIDE DEF o
<1>7. o[0] = <<>> /\ \A n \in Nat : n + 1 <= N => o[n + 1] = Turn(o[n])
    <2> HIDE DEF Turn
    <2> QED
        BY <1>5
<1> QED
    BY <1>6, <1>7

\* Every module of s comes once, and after those that it needs on.
Buildable(needs, s) ==
    /\ s \in Seq(DOMAIN needs)
    /\ \A i, k \in 1..Len(s) : s[i] = s[k] => i = k
    /\ \A i \in 1..Len(s) : \A d \in Custom(needs, s[i]) : \E k \in 1..Len(s) : k < i /\ s[k] = d

LEMMA InRange ==
    ASSUME NEW X, NEW s \in Seq(X), NEW x
    PROVE  x \in Range(s) <=> \E i \in 1..Len(s) : s[i] = x
BY DEF Range

LEMMA TurnIsBuildable ==
    ASSUME NEW needs, DOMAIN needs \subseteq Nat, NEW s, Buildable(needs, s),
           Queue(needs, Range(s)) # {}
    PROVE  LET t == Append(s, Min(Queue(needs, Range(s))))
           IN  Buildable(needs, t) /\ Len(t) = Len(s) + 1
<1> DEFINE D == DOMAIN needs
           m == Min(Queue(needs, Range(s)))
           t == Append(s, m)
<1>1. s \in Seq(D)
    BY DEF Buildable
<1>2. m \in D /\ m \notin Range(s) /\ Custom(needs, m) \subseteq Range(s)
    <2>1. Queue(needs, Range(s)) \in SUBSET Nat
        BY DEF Queue
    <2>2. m \in Queue(needs, Range(s))
        BY <2>1, MinIsLeast
    <2> HIDE DEF m
    <2> QED
        BY <2>2 DEF Queue
<1> HIDE DEF m
<1>3. t \in Seq(D) /\ Len(t) = Len(s) + 1 /\ t[Len(s) + 1] = m /\ \A i \in 1..Len(s) : t[i] = s[i]
    BY <1>1, <1>2
<1> HIDE DEF t
<1>4. Len(s) \in Nat
    BY <1>1
<1>5. \A i \in 1..Len(s) : s[i] # m
    BY <1>1, <1>2, InRange
<1>6. ASSUME NEW i \in 1..Len(t), NEW k \in 1..Len(t), t[i] = t[k] PROVE i = k
    <2>1. (i \in 1..Len(s) \/ i = Len(s) + 1) /\ (k \in 1..Len(s) \/ k = Len(s) + 1)
        BY <1>3, <1>4
    <2>2. \A a, b \in 1..Len(s) : s[a] = s[b] => a = b
        BY DEF Buildable
    <2> QED
        BY <1>3, <1>5, <1>6, <2>1, <2>2
<1>7. ASSUME NEW i \in 1..Len(t), NEW d \in Custom(needs, t[i])
      PROVE  \E k \in 1..Len(t) : k < i /\ t[k] = d
    <2>1. CASE i \in 1..Len(s)
        <3>1. PICK k \in 1..Len(s) : k < i /\ s[k] = d
            BY <1>3, <1>7, <2>1 DEF Buildable
        <3> QED
            BY <1>3, <1>4, <3>1
    <2>2. CASE i = Len(s) + 1
        <3>1. d \in Range(s)
            BY <1>2, <1>3, <1>7, <2>2
        <3>2. PICK k \in 1..Len(s) : s[k] = d
            BY <1>1, <3>1, InRange
        <3> QED
            BY <1>3, <1>4, <2>2, <3>2
    <2> QED
        BY <1>3, <1>4, <2>1, <2>2
<1>8. Buildable(needs, t)
    BY <1>3, <1>6, <1>7 DEF Buildable
<1> QED
    BY <1>3, <1>8 DEF t, m

LEMMA OnceIsFinite ==
    ASSUME NEW D, IsFiniteSet(D), NEW s \in Seq(D), \A i, k \in 1..Len(s) : s[i] = s[k] => i = k
    PROVE  /\ Len(s) = Cardinality(Range(s)) /\ IsFiniteSet(Range(s))
           /\ Len(s) = Cardinality(D) => Range(s) = D
<1>1. Range(s) \subseteq D
    BY DEF Range
<1>2. s \in Bijection(1..Len(s), Range(s))
    BY DEF Range, Bijection, Injection, Surjection, IsInjective
<1>3. IsFiniteSet(1..Len(s)) /\ Cardinality(1..Len(s)) = Len(s)
    <2>1. Len(s) \in Nat
        OBVIOUS
    <2>2. Len(s) \in Int /\ 1 \in Int
        BY <2>1
    <2>3. Cardinality(1..Len(s)) = IF 1 > Len(s) THEN 0 ELSE Len(s) - 1 + 1
        BY <2>2, FS_Interval
    <2> QED
        BY <2>1, <2>2, <2>3, FS_Interval
<1>4. IsFiniteSet(Range(s)) /\ Cardinality(Range(s)) = Len(s)
    BY <1>2, <1>3, FS_Bijection DEF ExistsBijection
<1>5. Len(s) = Cardinality(D) => Range(s) = D
    BY <1>1, <1>4, FS_Subset
<1> QED
    BY <1>4, <1>5

\* The order that is found cannot be made longer.
LEMMA KahnIsOrder ==
    ASSUME NEW needs, DOMAIN needs \subseteq Nat, IsFiniteSet(DOMAIN needs)
    PROVE  /\ Buildable(needs, Kahn(needs))
           /\ Queue(needs, Range(Kahn(needs))) = {}
<1> DEFINE D == DOMAIN needs
           N == Cardinality(D)
<1>1. N \in Nat
    BY FS_CardinalityType
<1>2. PICK o : /\ Kahn(needs) = o[N] /\ o[0] = <<>>
               /\ \A n \in Nat : n + 1 <= N =>
                    o[n + 1] = IF Queue(needs, Range(o[n])) = {} THEN o[n]
                               ELSE Append(o[n], Min(Queue(needs, Range(o[n]))))
    BY <1>1, KahnIsLoop
<1> DEFINE Q(n) == /\ Buildable(needs, o[n])
                   /\ Queue(needs, Range(o[n])) = {} \/ Len(o[n]) = n
<1>3. Q(0)
    BY <1>2 DEF Buildable
<1>4. ASSUME NEW n \in Nat, n + 1 <= N, Q(n) PROVE Q(n + 1)
    <2>1. CASE Queue(needs, Range(o[n])) = {}
        <3>1. o[n + 1] = o[n]
            BY <1>2, <1>4, <2>1
        <3> QED
            BY <1>4, <2>1, <3>1
    <2>2. CASE Queue(needs, Range(o[n])) # {}
        <3>1. o[n + 1] = Append(o[n], Min(Queue(needs, Range(o[n]))))
            BY <1>2, <1>4, <2>2
        <3>2. Buildable(needs, o[n + 1]) /\ Len(o[n + 1]) = Len(o[n]) + 1
            BY <1>4, <2>2, <3>1, TurnIsBuildable
        <3> QED
            BY <1>4, <2>2, <3>2
    <2> QED
        BY <2>1, <2>2
<1> HIDE DEF Q
<1>5. Q(N)
    <2> DEFINE S == {n \in Nat : n <= N => Q(n)}
    <2>1. 0 \in S
        BY <1>3
    <2>2. \A n \in Nat : n \in S => n + 1 \in S
        BY <1>1, <1>4
    <2> HIDE DEF S
    <2>3. N \in S
        BY <1>1, <2>1, <2>2, NatSetInduction
    <2> QED
        BY <1>1, <2>3 DEF S
<1>6. Buildable(needs, o[N])
    BY <1>5 DEF Q
<1>7. CASE Len(o[N]) = N
    <2>1. Range(o[N]) = D
        BY <1>6, <1>7, OnceIsFinite DEF Buildable
    <2> QED
        BY <1>2, <1>6, <2>1 DEF Queue
<1>8. CASE Queue(needs, Range(o[N])) = {}
    BY <1>2, <1>6, <1>8
<1> QED
    BY <1>5, <1>7, <1>8 DEF Q

\* No module of the order is stuck: what it is built on, however far down, comes
\* before it.
LEMMA OrderedIsFree ==
    ASSUME NEW needs, IsFiniteSet(DOMAIN needs), NEW s, Buildable(needs, s)
    PROVE  \A m \in Stuck(needs) : m \notin Range(s)
<1> DEFINE D == DOMAIN needs
           on == DependsOn(needs)
           Sooner(a, b) == \A i \in 1..Len(s) : s[i] = a => \E k \in 1..Len(s) : k < i /\ s[k] = b
           R == {p \in D \X D : Sooner(p[1], p[2])}
<1>1. \A a, b \in D : <<a, b>> \in R <=> Sooner(a, b)
    OBVIOUS
<1>2. Len(s) \in Nat
    BY DEF Buildable
<1>3. \A m \in D : \A d \in Custom(needs, m) : d \in D /\ Sooner(m, d)
    BY DEF Buildable, Custom
<1>4. ASSUME NEW a \in D, NEW v \in D, NEW b \in D, Sooner(a, v), Sooner(v, b) PROVE Sooner(a, b)
    <2> SUFFICES ASSUME NEW i \in 1..Len(s), s[i] = a PROVE \E k \in 1..Len(s) : k < i /\ s[k] = b
        OBVIOUS
    <2>1. PICK j \in 1..Len(s) : j < i /\ s[j] = v
        BY <1>4
    <2>2. PICK k \in 1..Len(s) : k < j /\ s[k] = b
        BY <1>4, <2>1
    <2> QED
        BY <1>2, <2>1, <2>2
<1>5. R \in SUBSET (D \X D)
    OBVIOUS
<1> HIDE DEF R, Sooner
<1>6. \A a, b \in D : on[<<a, b>>] => <<a, b>> \in R
    <2>1. /\ \A m \in D : \A d \in Custom(needs, m) : <<m, d>> \in R
          /\ \A a, v, b \in D : <<a, v>> \in R /\ <<v, b>> \in R => <<a, b>> \in R
        BY <1>1, <1>3, <1>4
    <2> QED
        BY <1>5, <2>1, DependsIsClosure
<1>7. \A a, b \in D : on[<<a, b>>] => Sooner(a, b)
    BY <1>1, <1>6
<1>8. \A i \in 1..Len(s) : s[i] \in D
    BY DEF Buildable
<1>9. ASSUME NEW c \in D, on[<<c, c>>], NEW i \in 1..Len(s), s[i] = c PROVE FALSE
    <2>1. Sooner(c, c)
        BY <1>7, <1>9
    <2>2. PICK k \in 1..Len(s) : k < i /\ s[k] = c
        BY <1>9, <2>1 DEF Sooner
    <2>3. k = i
        BY <1>9, <2>2 DEF Buildable
    <2> QED
        BY <1>2, <2>2, <2>3
<1> SUFFICES ASSUME NEW m \in Stuck(needs), m \in Range(s) PROVE FALSE
    OBVIOUS
<1>10. PICK i \in 1..Len(s) : s[i] = m
    BY InRange DEF Buildable
<1>11. m \in D
    BY <1>8, <1>10
<1>12. on[<<m, m>>] \/ \E c \in D : on[<<m, c>>] /\ on[<<c, c>>]
    BY DEF Stuck
<1>13. CASE on[<<m, m>>]
    BY <1>9, <1>10, <1>11, <1>13
<1>14. CASE \E c \in D : on[<<m, c>>] /\ on[<<c, c>>]
    <2>1. PICK c \in D : on[<<m, c>>] /\ on[<<c, c>>]
        BY <1>14
    <2>2. Sooner(m, c)
        BY <1>7, <1>11, <2>1
    <2>3. PICK k \in 1..Len(s) : s[k] = c
        BY <1>10, <2>2 DEF Sooner
    <2> QED
        BY <1>9, <2>1, <2>3
<1> QED
    BY <1>12, <1>13, <1>14

\* A module that is rest over is stuck: going down from it through modules that
\* are rest over, one comes back.
LEMMA LeftIsStuck ==
    ASSUME NEW needs, IsFiniteSet(DOMAIN needs), NEW done, Queue(needs, done) = {}
    PROVE  \A m \in (DOMAIN needs) \ done : m \in Stuck(needs)
<1> DEFINE D == DOMAIN needs
           on == DependsOn(needs)
           Down(x) == {d \in D \ done : on[<<x, d>>]}
<1>1. \A x \in D \ done : \E d \in D \ done : on[<<x, d>>]
    <2> SUFFICES ASSUME NEW x \in D \ done PROVE \E d \in D \ done : on[<<x, d>>]
        OBVIOUS
    <2>1. ~(Custom(needs, x) \subseteq done)
        BY DEF Queue
    <2>2. PICK d \in Custom(needs, x) : d \notin done
        BY <2>1
    <2>3. d \in D /\ on[<<x, d>>]
        BY DependsIsClosure DEF Custom
    <2> QED
        BY <2>2, <2>3
<1>2. \A a, v, b \in D : on[<<a, v>>] /\ on[<<v, b>>] => on[<<a, b>>]
    BY DependsIsClosure
<1> HIDE DEF on
<1>3. \A x : Down(x) \in SUBSET D /\ IsFiniteSet(Down(x)) /\ Cardinality(Down(x)) \in Nat
    <2>1. \A x : Down(x) \in SUBSET D
        OBVIOUS
    <2> HIDE DEF Down
    <2> QED
        BY <2>1, FS_Subset, FS_CardinalityType
<1> SUFFICES ASSUME NEW m \in D \ done PROVE m \in Stuck(needs)
    OBVIOUS
<1> DEFINE Size == {Cardinality(Down(c)) : c \in Down(m)}
<1>4. PICK c \in Down(m) : \A x \in Down(m) : Cardinality(Down(c)) <= Cardinality(Down(x))
    <2>1. Size \in SUBSET Nat /\ Size # {}
        BY <1>1, <1>3
    <2>2. \E n \in Size : \A k \in Size : n <= k
        <3> HIDE DEF Size
        <3> QED
            BY <2>1, HasLeast
    <2> HIDE DEF Down
    <2> QED
        BY <2>2
<1>5. c \in D \ done /\ on[<<m, c>>]
    OBVIOUS
<1>6. PICK d \in D \ done : on[<<c, d>>]
    BY <1>1, <1>5
<1>7. d \in Down(m) /\ d \in Down(c)
    BY <1>2, <1>5, <1>6
<1>8. Down(d) \subseteq Down(c)
    BY <1>2, <1>5, <1>6
<1> HIDE DEF Down
<1>9. Cardinality(Down(c)) <= Cardinality(Down(d))
    BY <1>4, <1>7
<1>10. Down(d) = Down(c)
    <2>1. Cardinality(Down(d)) <= Cardinality(Down(c)) /\ (Cardinality(Down(c)) = Cardinality(Down(d)) => Down(c) = Down(d))
        BY <1>3, <1>8, FS_Subset
    <2>2. Cardinality(Down(c)) \in Nat /\ Cardinality(Down(d)) \in Nat
        BY <1>3
    <2> QED
        BY <1>9, <2>1, <2>2
<1>11. on[<<d, d>>] /\ on[<<m, d>>]
    BY <1>7, <1>10 DEF Down
<1> QED
    BY <1>6, <1>11 DEF Stuck, on

LEMMA StuckIsTheRest ==
    ASSUME NEW needs, DOMAIN needs \subseteq Nat, IsFiniteSet(DOMAIN needs)
    PROVE  Stuck(needs) = (DOMAIN needs) \ Range(Kahn(needs))
<1>1. Buildable(needs, Kahn(needs)) /\ Queue(needs, Range(Kahn(needs))) = {}
    BY KahnIsOrder
<1>2. Stuck(needs) \subseteq DOMAIN needs
    BY DEF Stuck
<1>3. \A m \in Stuck(needs) : m \notin Range(Kahn(needs))
    BY <1>1, OrderedIsFree
<1>4. \A m \in (DOMAIN needs) \ Range(Kahn(needs)) : m \in Stuck(needs)
    BY <1>1, LeftIsStuck
<1> QED
    BY <1>2, <1>3, <1>4

\* A set of modules as a sequence.
LEMMA SortedIsSequence ==
    ASSUME NEW S \in SUBSET Nat, IsFiniteSet(S)
    PROVE  /\ Sorted(S) \in Seq(S) /\ Len(Sorted(S)) = Cardinality(S) /\ Range(Sorted(S)) = S
           /\ \A i, k \in 1..Len(Sorted(S)) : Sorted(S)[i] = Sorted(S)[k] => i = k
<1> DEFINE s == Sorted(S)
           n == Cardinality(S)
<1>1. s \in [1..n -> S] /\ \A i, k \in 1..n : i < k => s[i] < s[k]
    BY SortedIsOrdered
<1>2. n \in Nat
    BY FS_CardinalityType
<1> HIDE DEF s
<1>3. s \in Seq(S) /\ Len(s) = n
    <2> HIDE DEF n
    <2> QED
        BY <1>1, <1>2
<1>4. \A i \in 1..n : s[i] \in Nat
    BY <1>1
<1>5. \A i, k \in 1..Len(s) : s[i] = s[k] => i = k
    <2> SUFFICES ASSUME NEW i \in 1..n, NEW k \in 1..n, s[i] = s[k] PROVE i = k
        BY <1>3
    <2>1. ~(i < k) /\ ~(k < i)
        BY <1>1, <1>4
    <2> HIDE DEF n
    <2> QED
        BY <1>2, <2>1
<1>6. Range(s) = S
    BY <1>3, <1>5, OnceIsFinite
<1> QED
    BY <1>3, <1>5, <1>6 DEF s

\* Where a module is in the order.
Place(s, m) == Min({i \in DOMAIN s : s[i] = m})

LEMMA PlaceIs ==
    ASSUME NEW X, NEW s \in Seq(X), \A i, k \in 1..Len(s) : s[i] = s[k] => i = k,
           NEW i \in 1..Len(s)
    PROVE  Place(s, s[i]) = i
<1> DEFINE U == {k \in DOMAIN s : s[k] = s[i]}
<1>1. U \in SUBSET Nat /\ i \in U
    OBVIOUS
<1>2. \A k \in U : k = i
    OBVIOUS
<1> HIDE DEF U
<1>3. Min(U) \in U
    BY <1>1, MinIsLeast
<1>4. Min(U) = i
    BY <1>2, <1>3
<1> QED
    BY <1>4 DEF U, Place

\* What the order of the fleet promises.
LEMMA TopoIsBuildable ==
    ASSUME NEW needs, DOMAIN needs \subseteq Nat, IsFiniteSet(DOMAIN needs)
    PROVE  LET t == topo_order(needs)
           IN  /\ t \in Seq(DOMAIN needs) /\ Len(t) = Cardinality(DOMAIN needs)
               /\ Range(t) = DOMAIN needs
               /\ \A m \in (DOMAIN needs) \ Stuck(needs) :
                     \A d \in Custom(needs, m) : Place(t, d) < Place(t, m)
               /\ \A m \in Stuck(needs), o \in (DOMAIN needs) \ Stuck(needs) : Place(t, o) < Place(t, m)
<1> DEFINE D == DOMAIN needs
           s == Kahn(needs)
           rest == D \ Range(s)
           c == Sorted(rest)
           t == s \o c
<1>1. s \in Seq(D) /\ \A i, k \in 1..Len(s) : s[i] = s[k] => i = k
    BY KahnIsOrder DEF Buildable
<1>2. Buildable(needs, s)
    BY KahnIsOrder
<1>3. Stuck(needs) = rest
    BY StuckIsTheRest
<1>4. rest \in SUBSET Nat /\ IsFiniteSet(rest) /\ rest \subseteq D
    BY FS_Subset
<1>5. topo_order(needs) = t
    BY DEF topo_order, Cyclic
<1> HIDE DEF s, rest
<1>6. c \in Seq(rest) /\ Range(c) = rest /\ \A i, k \in 1..Len(c) : c[i] = c[k] => i = k
    BY <1>4, SortedIsSequence
<1> HIDE DEF c
<1>7. s \in Seq(D) /\ c \in Seq(D)
    <2>1. \A i \in 1..Len(c) : c[i] \in D
        <3> HIDE DEF D
        <3>1. \A i \in 1..Len(c) : c[i] \in rest
            BY <1>6
        <3> QED
            BY <1>4, <3>1
    <2>2. c \in Seq(D)
        <3> HIDE DEF D
        <3>1. DOMAIN c = 1..Len(c) /\ Len(c) \in Nat /\ c = [i \in 1..Len(c) |-> c[i]]
            BY <1>6
        <3>2. c \in [1..Len(c) -> D]
            BY <2>1, <3>1
        <3> QED
            BY <3>1, <3>2
    <2> QED
        BY <1>1, <2>2
<1>8. t \in Seq(D) /\ Len(t) = Len(s) + Len(c) /\ DOMAIN t = 1..(Len(s) + Len(c))
    BY <1>7
<1>9. Len(s) \in Nat /\ Len(c) \in Nat
    BY <1>7
<1>10. /\ \A i \in 1..Len(s) : t[i] = s[i]
       /\ \A i \in (Len(s) + 1)..(Len(s) + Len(c)) : t[i] = c[i - Len(s)]
    BY <1>7
<1> HIDE DEF t
<1>11. \A x \in D : x \in Range(s) <=> x \notin rest
    BY DEF rest
<1>12. \A i \in 1..Len(s) : s[i] \in Range(s) /\ s[i] \in D
    BY <1>1, InRange
<1>13. \A i \in 1..Len(c) : c[i] \in rest
    BY <1>6
<1>14. ASSUME NEW i \in 1..Len(t), NEW k \in 1..Len(t), t[i] = t[k] PROVE i = k
    <2>1. i \in 1..Len(s) \/ (i \in (Len(s) + 1)..(Len(s) + Len(c)) /\ i - Len(s) \in 1..Len(c))
        BY <1>8, <1>9
    <2>2. k \in 1..Len(s) \/ (k \in (Len(s) + 1)..(Len(s) + Len(c)) /\ k - Len(s) \in 1..Len(c))
        BY <1>8, <1>9
    <2>3. CASE i \in 1..Len(s) /\ k \in 1..Len(s)
        BY <1>1, <1>10, <1>14, <2>3
    <2>4. CASE i \in 1..Len(s) /\ k \notin 1..Len(s)
        BY <1>10, <1>11, <1>12, <1>13, <1>14, <2>2, <2>4
    <2>5. CASE i \notin 1..Len(s) /\ k \in 1..Len(s)
        BY <1>10, <1>11, <1>12, <1>13, <1>14, <2>1, <2>5
    <2>6. CASE i \notin 1..Len(s) /\ k \notin 1..Len(s)
        <3>1. c[i - Len(s)] = c[k - Len(s)] /\ i - Len(s) \in 1..Len(c) /\ k - Len(s) \in 1..Len(c)
            BY <1>10, <1>14, <2>1, <2>2, <2>6
        <3>2. i - Len(s) = k - Len(s)
            BY <1>6, <3>1
        <3> QED
            BY <1>8, <1>9, <3>2
    <2> QED
        BY <2>3, <2>4, <2>5, <2>6
<1>15. \A i \in 1..Len(t) : Place(t, t[i]) = i
    BY <1>8, <1>14, PlaceIs
<1>16. ASSUME NEW x \in D
       PROVE  IF x \in rest THEN \E i \in 1..Len(c) : c[i] = x /\ t[Len(s) + i] = x /\ Len(s) + i \in 1..Len(t)
              ELSE \E i \in 1..Len(s) : s[i] = x /\ t[i] = x /\ i \in 1..Len(t)
    <2>1. CASE x \in rest
        <3>1. PICK i \in 1..Len(c) : c[i] = x
            BY <1>6, <2>1, InRange
        <3>2. Len(s) + i \in (Len(s) + 1)..(Len(s) + Len(c)) /\ (Len(s) + i) - Len(s) = i /\ Len(s) + i \in 1..Len(t)
            BY <1>8, <1>9
        <3>3. t[Len(s) + i] = x
            BY <1>10, <3>1, <3>2
        <3> QED
            BY <2>1, <3>1, <3>2, <3>3
    <2>2. CASE x \notin rest
        <3>1. PICK i \in 1..Len(s) : s[i] = x
            BY <1>1, <1>11, <2>2, InRange
        <3>2. i \in 1..Len(t)
            BY <1>8, <1>9
        <3> QED
            BY <1>10, <2>2, <3>1, <3>2
    <2> QED
        BY <2>1, <2>2
<1>17. Range(t) = D
    <2>1. \A x \in D : \E i \in 1..Len(t) : t[i] = x
        BY <1>9, <1>16
    <2>2. \A x \in D : x \in Range(t)
        BY <1>8, <2>1, InRange
    <2>3. Range(t) \subseteq D
        BY <1>8 DEF Range
    <2> QED
        BY <2>2, <2>3
<1>18. Len(t) = Cardinality(D)
    BY <1>8, <1>14, <1>17, OnceIsFinite
<1>19. ASSUME NEW m \in D \ rest, NEW d \in Custom(needs, m) PROVE Place(t, d) < Place(t, m)
    <2>1. PICK i \in 1..Len(s) : s[i] = m /\ t[i] = m /\ i \in 1..Len(t)
        BY <1>16, <1>19
    <2>2. PICK k \in 1..Len(s) : k < i /\ s[k] = d
        BY <1>2, <2>1 DEF Buildable
    <2>3. k \in 1..Len(t) /\ t[k] = d
        BY <1>8, <1>9, <1>10, <2>2
    <2>4. Place(t, d) = k /\ Place(t, m) = i
        BY <1>15, <2>1, <2>3
    <2> QED
        BY <2>2, <2>4
<1>20. ASSUME NEW m \in rest, NEW x \in D \ rest PROVE Place(t, x) < Place(t, m)
    <2>1. PICK i \in 1..Len(c) : t[Len(s) + i] = m /\ Len(s) + i \in 1..Len(t)
        BY <1>4, <1>16, <1>20
    <2>2. PICK k \in 1..Len(s) : t[k] = x /\ k \in 1..Len(t)
        BY <1>16
    <2>3. Place(t, x) = k /\ Place(t, m) = Len(s) + i
        BY <1>15, <2>1, <2>2
    <2> QED
        BY <1>9, <2>3
<1> QED
    BY <1>3, <1>5, <1>8, <1>17, <1>18, <1>19, <1>20

\* What the portable set promises.
LEMMA PortableIsSound ==
    ASSUME NEW needs, IsFiniteSet(DOMAIN needs), NEW installed, NEW exclude
    PROVE  LET kept == portable_set(needs, installed, exclude)
           IN  /\ \A m \in kept : needs[m] \intersect exclude = {}
               /\ \A m \in kept, d \in DOMAIN needs :
                     DependsOn(needs)[<<m, d>>] => d \notin exclude
               /\ (\A m \in DOMAIN needs \intersect installed : Custom(needs, m) \subseteq installed)
                     => \A m \in kept : Custom(needs, m) \subseteq kept
<1> DEFINE D == DOMAIN needs
           out == Excluded(needs, exclude)
           on == DependsOn(needs)
           P == portable_set(needs, installed, exclude)
<1>1. exclude \subseteq out /\ \A m \in D : needs[m] \intersect out # {} => m \in out
    BY ExcludedIsClosed
<1>2. \A m : m \in P <=> m \in D /\ m \notin out /\ m \in installed
    BY DEF portable_set
<1> HIDE DEF out, P
<1>3. \A m \in D : \A d \in Custom(needs, m) : d \in D /\ d \in needs[m]
    BY DEF Custom
<1> DEFINE R == {p \in D \X D : p[2] \in out => p[1] \in out}
<1>4. \A a, b \in D : <<a, b>> \in R <=> (b \in out => a \in out)
    OBVIOUS
<1>5. R \in SUBSET (D \X D)
    OBVIOUS
<1> HIDE DEF R
<1>6. /\ \A m \in D : \A d \in Custom(needs, m) : <<m, d>> \in R
      /\ \A a, v, b \in D : <<a, v>> \in R /\ <<v, b>> \in R => <<a, b>> \in R
    BY <1>1, <1>3, <1>4
<1>7. \A a, b \in D : on[<<a, b>>] => <<a, b>> \in R
    BY <1>5, <1>6, DependsIsClosure
<1> HIDE DEF on
<1>8. \A m \in P : needs[m] \intersect exclude = {}
    BY <1>1, <1>2
<1>9. \A m \in P, d \in D : on[<<m, d>>] => d \notin exclude
    BY <1>1, <1>2, <1>4, <1>7
<1>10. (\A m \in D \intersect installed : Custom(needs, m) \subseteq installed)
          => \A m \in P : Custom(needs, m) \subseteq P
    BY <1>1, <1>2, <1>3
<1> QED
    BY <1>8, <1>9, <1>10 DEF P, on

-----------------------------------------------------------------------------
(* The staging.                                                            *)

\* TypeOK, and what waits to be copied: nothing, until the marker is written.
StepShape ==
    step \in {"idle", "order", "verify", "write", "portable", "clean", "rmtree", "mark",
              "copy", "list", "batch", "over", "died"}
CallShape == runs \in 0..MaxRuns /\ job \in Jobs /\ rc \in -1..2 /\ ported \subseteq Modules
ResultShape == order \in Seq(Modules) /\ DOMAIN verify = Modules /\ DOMAIN fleet \subseteq Modules
NextShape ==
    /\ next \in [at : Nat, copy : SUBSET ported]
    /\ step \notin {"copy", "batch", "over", "died"} => next.copy = {}
StageShape ==
    /\ stage \in [there : BOOLEAN, entries : SUBSET (Modules \union {Foreign, Marker, List})]
    /\ stage.entries # {} => stage.there
Shaped == StepShape /\ CallShape /\ ResultShape /\ NextShape /\ StageShape

\* What a call computed stays until the next call.
OrderStands == step \notin {"idle", "order", "died"} => order = topo_order(depends)
PortedStands ==
    step \in {"clean", "rmtree", "mark", "copy", "batch", "over"} =>
        ported = portable_set(depends, job.installed, job.exclude)
Stands == OrderStands /\ PortedStands

\* A staging starts from nothing, and has the marker and what is copied already.
StagingGrows ==
    /\ step = "mark" => stage.entries = {}
    /\ step = "copy" => stage.entries = {Marker} \union (ported \ next.copy)
    /\ step \in {"batch", "over"} /\ "stage" \in job.parts =>
          stage.entries \ {Foreign} = ported \union {Marker, List}

StageInv == Shaped /\ Stands /\ StagingGrows

\* What is scanned are modules, finitely many, and modules are numbers.
LEMMA ScannedModules ==
    ASSUME job \in Jobs
    PROVE  DOMAIN depends \subseteq Nat /\ IsFiniteSet(DOMAIN depends) /\ DOMAIN depends \subseteq Modules
<1>1. \A j \in Jobs : LET found == DOMAIN discover_modules(j.roots)
                      IN  found \subseteq Nat /\ IsFiniteSet(found)
    BY ModuleAssumption
<1>2. PICK found : found = DOMAIN discover_modules(job.roots)
    OBVIOUS
<1>3. found \subseteq Nat /\ IsFiniteSet(found)
    BY <1>1, <1>2
<1>4. found \subseteq Modules
    BY <1>2 DEF Modules
<1> QED
    BY <1>2, <1>3, <1>4 DEF depends

LEMMA ModulesAreNumbers ==
    Modules \subseteq Nat /\ Foreign \notin Modules /\ Marker \notin Modules /\ List \notin Modules
<1>1. Modules \subseteq Nat
    BY ModuleAssumption DEF Modules
<1> QED
    BY <1>1 DEF Foreign, Marker, List

LEMMA OrderIsOfModules ==
    ASSUME job \in Jobs PROVE topo_order(depends) \in Seq(Modules)
<1>1. DOMAIN depends \subseteq Nat /\ IsFiniteSet(DOMAIN depends) /\ DOMAIN depends \subseteq Modules
    BY ScannedModules
<1>2. PICK g : g = depends
    OBVIOUS
<1>3. topo_order(g) \in Seq(DOMAIN g)
    BY <1>1, <1>2, TopoIsBuildable
<1>4. PICK t : t = topo_order(g)
    OBVIOUS
<1>5. DOMAIN t = 1..Len(t) /\ Len(t) \in Nat /\ t = [i \in 1..Len(t) |-> t[i]]
      /\ \A i \in 1..Len(t) : t[i] \in DOMAIN g
    BY <1>3, <1>4
<1>6. t \in [1..Len(t) -> Modules]
    BY <1>1, <1>2, <1>5
<1>7. t \in Seq(Modules)
    BY <1>5, <1>6
<1> QED
    BY <1>2, <1>4, <1>7

\* Steps that leave the call, the order, the set and the directory alone.
LEMMA StandsStill ==
    ASSUME Stands, UNCHANGED <<job, order, ported>>,
           \/ step' \in {"order", "died"} \/ step' = step
           \/ /\ step \notin {"idle", "order", "died"}
              /\ step' \in {"clean", "rmtree", "mark", "copy", "batch", "over"} =>
                    step \in {"clean", "rmtree", "mark", "copy", "batch", "over"}
    PROVE  Stands'
<1>1. depends' = depends
    BY DEF depends
<1>2. OrderStands'
    BY <1>1 DEF Stands, OrderStands
<1>3. PortedStands'
    BY <1>1 DEF Stands, PortedStands
<1> QED
    BY <1>2, <1>3 DEF Stands

LEMMA InitStages == Init => StageInv
<1> SUFFICES ASSUME Init PROVE StageInv
    OBVIOUS
<1>1. StepShape /\ CallShape /\ ResultShape
    BY FleetAssumption DEF Init, StepShape, CallShape, ResultShape
<1>2. NextShape
    BY DEF Init, NextShape
<1>3. StageShape
    <2>1. stage \in {[there |-> FALSE, entries |-> {}], [there |-> TRUE, entries |-> {}],
                     [there |-> TRUE, entries |-> {Foreign}]}
        BY DEF Init, Nowhere
    <2> DEFINE Entries == SUBSET (Modules \union {Foreign, Marker, List})
    <2>2. {} \in Entries /\ {Foreign} \in Entries
        OBVIOUS
    <2> HIDE DEF Entries
    <2>3. stage \in [there : BOOLEAN, entries : Entries]
        <3>1. \A b \in BOOLEAN, e \in Entries :
                 [there |-> b, entries |-> e] \in [there : BOOLEAN, entries : Entries]
            OBVIOUS
        <3>2. TRUE \in BOOLEAN /\ FALSE \in BOOLEAN
            OBVIOUS
        <3> QED
            BY <2>1, <2>2, <3>1, <3>2, Zenon
    <2>4. stage.entries # {} => stage.there
        BY <2>1
    <2> QED
        BY <2>3, <2>4 DEF StageShape, Entries
<1>4. Stands /\ StagingGrows
    BY DEF Init, Stands, OrderStands, PortedStands, StagingGrows
<1> QED
    BY <1>1, <1>2, <1>3, <1>4 DEF StageInv, Shaped

LEMMA StartStages ==
    ASSUME StageInv, Start PROVE StageInv'
<1>1. CallShape'
    <2>1. runs \in Nat /\ runs < MaxRuns /\ runs' = runs + 1 /\ MaxRuns \in Nat
        BY FleetAssumption DEF Start, StageInv, Shaped, CallShape
    <2>2. job' \in Jobs /\ rc' = 0 /\ ported' = {}
        BY DEF Start
    <2> QED
        BY <2>1, <2>2 DEF CallShape
<1>2. StepShape' /\ ResultShape'
    BY DEF Start, files, StageInv, Shaped, StepShape, ResultShape
<1>3. NextShape'
    BY DEF Start, NextShape
<1>4. StageShape'
    BY DEF Start, files, StageInv, Shaped, StageShape
<1>5. Stands' /\ StagingGrows'
    BY DEF Start, Stands, OrderStands, PortedStands, StagingGrows
<1> QED
    BY <1>1, <1>2, <1>3, <1>4, <1>5 DEF StageInv, Shaped

LEMMA OrderStages ==
    ASSUME StageInv, Order PROVE StageInv'
<1>1. step = "order" /\ step' \in {"verify", "write"} /\ order' = topo_order(depends)
    BY DEF Order
<1>2. UNCHANGED <<runs, job, ported, next, verify, stage, fleet, rc>>
    BY DEF Order, args, files
<1>3. job \in Jobs
    BY DEF StageInv, Shaped, CallShape
<1>4. depends' = depends
    BY <1>2 DEF depends
<1>5. order' \in Seq(Modules)
    BY <1>1, <1>3, OrderIsOfModules
<1>6. Shaped'
    <2>1. StepShape' /\ NextShape'
        BY <1>1, <1>2 DEF StageInv, Shaped, StepShape, NextShape
    <2>2. CallShape' /\ ResultShape' /\ StageShape'
        BY <1>2, <1>5 DEF StageInv, Shaped, CallShape, ResultShape, StageShape
    <2> QED
        BY <2>1, <2>2 DEF Shaped
<1>7. OrderStands' /\ PortedStands' /\ StagingGrows'
    BY <1>1, <1>4 DEF OrderStands, PortedStands, StagingGrows
<1> QED
    BY <1>6, <1>7 DEF StageInv, Stands

\* upgrade_verify.py is run for one module, and its file is read or not.
LEMMA VerifyStages ==
    ASSUME StageInv, NEW m \in Modules, step = "verify", Reads(m), DOMAIN verify' = Modules,
           UNCHANGED <<runs, job, order, ported, stage, rc>>
    PROVE  StageInv'
<1>1. step' \in {"died", "write", "verify"}
    BY DEF Reads
<1>2. DOMAIN fleet' \subseteq Modules
    <2>1. CASE verify'[m] = Torn
        BY <2>1 DEF Reads, StageInv, Shaped, ResultShape
    <2>2. CASE verify'[m] # Torn
        <3>1. DOMAIN fleet' = DOMAIN fleet \union {m}
            BY <2>2 DEF Reads
        <3> QED
            BY <3>1 DEF StageInv, Shaped, ResultShape
    <2> QED
        BY <2>1, <2>2
<1>3. next \in [at : Nat, copy : SUBSET ported] /\ next.copy = {}
    BY DEF StageInv, Shaped, NextShape
<1>4. next' \in [at : Nat, copy : SUBSET ported] /\ next'.copy = {}
    <2>1. CASE verify'[m] = Torn
        BY <1>3, <2>1 DEF Reads
    <2>2. CASE verify'[m] # Torn
        <3>1. next' = [next EXCEPT !.at = @ + 1]
            BY <2>2 DEF Reads
        <3> QED
            BY <1>3, <3>1
    <2> QED
        BY <2>1, <2>2
<1>5. Shaped'
    <2>1. StepShape' /\ NextShape'
        BY <1>1, <1>4 DEF StepShape, NextShape
    <2>2. CallShape' /\ ResultShape' /\ StageShape'
        BY <1>2 DEF StageInv, Shaped, CallShape, ResultShape, StageShape
    <2> QED
        BY <2>1, <2>2 DEF Shaped
<1>6. Stands'
    BY <1>1, StandsStill DEF StageInv
<1>7. StagingGrows'
    BY <1>1 DEF StagingGrows
<1> QED
    BY <1>5, <1>6, <1>7 DEF StageInv

\* The set is computed when nothing waits to be copied.
LEMMA PortableStages ==
    ASSUME StageInv, Portable PROVE StageInv'
<1>1. /\ step = "portable" /\ step' = After("portable")
      /\ ported' = portable_set(depends, job.installed, job.exclude)
    BY DEF Portable
<1>2. UNCHANGED <<runs, job, order, next, verify, stage, fleet, rc>>
    BY DEF Portable, args, files
<1>3. step' \in {"clean", "batch", "over"} /\ (step' # "clean" => "stage" \notin job.parts)
    BY <1>1 DEF After
<1>4. depends' = depends
    BY <1>2 DEF depends
<1>5. ported' \subseteq Modules
    BY <1>1, ScannedModules DEF portable_set, StageInv, Shaped, CallShape
<1>6. Shaped'
    <2>1. StepShape' /\ CallShape' /\ ResultShape' /\ StageShape'
        BY <1>2, <1>3, <1>5 DEF StageInv, Shaped, StepShape, CallShape, ResultShape, StageShape
    <2>2. next \in [at : Nat, copy : SUBSET ported] /\ next.copy = {}
        BY <1>1 DEF StageInv, Shaped, NextShape
    <2>3. NextShape'
        BY <1>2, <2>2 DEF NextShape
    <2> QED
        BY <2>1, <2>3 DEF Shaped
<1>7. OrderStands'
    BY <1>1, <1>2, <1>4 DEF OrderStands, StageInv, Stands
<1>8. PortedStands'
    BY <1>1, <1>2, <1>4 DEF PortedStands
<1>9. StagingGrows'
    BY <1>2, <1>3 DEF StagingGrows
<1> QED
    BY <1>6, <1>7, <1>8, <1>9 DEF StageInv, Stands

\* The directory is cleaned, marked and filled.
LEMMA CleanStages ==
    ASSUME StageInv, StageClean \/ Rmtree PROVE StageInv'
<1>1. step \in {"clean", "rmtree"} /\ step' \in {"rmtree", "died", "mark"}
      /\ UNCHANGED <<runs, job, order, ported, next, verify, fleet, rc>>
    BY DEF StageClean, Rmtree, args, files
<1>2. stage' \in [there : BOOLEAN, entries : SUBSET (Modules \union {Foreign, Marker, List})]
      /\ (stage'.entries # {} => stage'.there) /\ (step' = "mark" => stage'.entries = {})
    <2>1. stage \in [there : BOOLEAN, entries : SUBSET (Modules \union {Foreign, Marker, List})]
          /\ (stage.entries # {} => stage.there)
        BY DEF StageInv, Shaped, StageShape
    <2>2. CASE StageClean
        BY <2>1, <2>2 DEF StageClean, files
    <2>3. CASE Rmtree /\ stage.entries = {}
        <3>1. stage' = [there |-> FALSE, entries |-> {}]
            BY <2>3 DEF Rmtree, Nowhere
        <3> QED
            BY <3>1
    <2>4. CASE Rmtree /\ stage.entries # {}
        <3>1. PICK e \in stage.entries : stage' = [stage EXCEPT !.entries = @ \ {e}]
            BY <2>4 DEF Rmtree
        <3>2. step' # "mark"
            BY <2>4 DEF Rmtree
        <3> QED
            BY <2>1, <2>4, <3>1, <3>2
    <2> QED
        BY <2>2, <2>3, <2>4
<1>3. Shaped'
    <2>1. StepShape' /\ NextShape'
        BY <1>1 DEF StageInv, Shaped, StepShape, NextShape
    <2>2. CallShape' /\ ResultShape'
        BY <1>1 DEF StageInv, Shaped, CallShape, ResultShape
    <2>3. StageShape'
        BY <1>2 DEF StageShape
    <2> QED
        BY <2>1, <2>2, <2>3 DEF Shaped
<1>4. Stands'
    BY <1>1, StandsStill DEF StageInv
<1>5. StagingGrows'
    BY <1>1, <1>2 DEF StagingGrows
<1> QED
    BY <1>3, <1>4, <1>5 DEF StageInv

LEMMA MarkStages ==
    ASSUME StageInv, StageMark PROVE StageInv'
<1>1. step = "mark" /\ step' = "copy" /\ UNCHANGED <<runs, job, order, ported, verify, fleet, rc>>
    BY DEF StageMark, args
<1>2. stage' = [there |-> TRUE, entries |-> {Marker}]
    BY <1>1 DEF StageMark, StageInv, StagingGrows
<1>3. next' \in [at : Nat, copy : SUBSET ported] /\ next'.copy = ported
    <2>1. next \in [at : Nat, copy : SUBSET ported] /\ next' = [next EXCEPT !.copy = ported]
        BY DEF StageMark, StageInv, Shaped, NextShape
    <2> QED
        BY <2>1
<1>4. Shaped'
    <2>1. StepShape' /\ NextShape' /\ StageShape'
        BY <1>1, <1>2, <1>3 DEF StepShape, NextShape, StageShape
    <2>2. CallShape' /\ ResultShape'
        BY <1>1 DEF StageInv, Shaped, CallShape, ResultShape
    <2> QED
        BY <2>1, <2>2 DEF Shaped
<1>5. Stands'
    BY <1>1, StandsStill DEF StageInv
<1>6. StagingGrows'
    BY <1>1, <1>2, <1>3 DEF StagingGrows
<1> QED
    BY <1>4, <1>5, <1>6 DEF StageInv

\* The least module that waits is copied; after the last one, the list.
LEMMA CopyStages ==
    ASSUME StageInv, StageCopy PROVE StageInv'
<1>1. step = "copy" /\ UNCHANGED <<runs, job, order, ported, verify, fleet, rc>>
    BY DEF StageCopy, args
<1>2. next \in [at : Nat, copy : SUBSET ported]
      /\ stage.entries = {Marker} \union (ported \ next.copy)
      /\ stage \in [there : BOOLEAN, entries : SUBSET (Modules \union {Foreign, Marker, List})]
      /\ ported \subseteq Modules /\ stage.there
    BY <1>1 DEF StageInv, Shaped, CallShape, NextShape, StageShape, StagingGrows
<1>3. /\ step' \in {"copy", "batch", "over"}
      /\ next' \in [at : Nat, copy : SUBSET ported]
      /\ stage' \in [there : BOOLEAN, entries : SUBSET (Modules \union {Foreign, Marker, List})]
      /\ stage'.there
      /\ step' = "copy" => stage'.entries = {Marker} \union (ported \ next'.copy)
      /\ step' # "copy" => stage'.entries = ported \union {Marker, List}
    <2>1. CASE next.copy = {}
        <3>1. stage' = [stage EXCEPT !.entries = @ \union {List}] /\ next' = next
              /\ step' = After("stage")
            BY <2>1 DEF StageCopy
        <3>2. step' \in {"batch", "over"}
            BY <3>1 DEF After
        <3> QED
            BY <1>2, <2>1, <3>1, <3>2
    <2>2. CASE next.copy # {}
        <3>1. PICK m : m = Min(next.copy)
            OBVIOUS
        <3>2. m \in next.copy
            <4>1. PICK S : S = next.copy
                OBVIOUS
            <4>2. S \in SUBSET Nat /\ S # {}
                BY <1>2, <2>2, <4>1, ModulesAreNumbers
            <4> QED
                BY <3>1, <4>1, <4>2, MinIsLeast
        <3>3. stage' = [stage EXCEPT !.entries = @ \union {m}] /\ next' = [next EXCEPT !.copy = @ \ {m}]
              /\ step' = "copy"
            BY <1>1, <2>2, <3>1 DEF StageCopy
        <3> QED
            BY <1>2, <3>2, <3>3
    <2> QED
        BY <2>1, <2>2
<1>4. Shaped'
    <2>1. StepShape' /\ NextShape' /\ StageShape'
        BY <1>1, <1>3 DEF StepShape, NextShape, StageShape
    <2>2. CallShape' /\ ResultShape'
        BY <1>1 DEF StageInv, Shaped, CallShape, ResultShape
    <2> QED
        BY <2>1, <2>2 DEF Shaped
<1>5. Stands'
    BY <1>1, <1>3, StandsStill DEF StageInv
<1>6. StagingGrows'
    <2>1. ported \ {Foreign} = ported /\ {Marker, List} \ {Foreign} = {Marker, List}
        BY <1>2, ModulesAreNumbers DEF Marker, List, Foreign
    <2> QED
        BY <1>1, <1>3, <2>1 DEF StagingGrows
<1> QED
    BY <1>4, <1>5, <1>6 DEF StageInv

LEMMA BatchStages ==
    ASSUME StageInv, Batch PROVE StageInv'
<1>1. step = "batch" /\ step' = "over" /\ UNCHANGED <<runs, job, order, ported, next, verify, stage, fleet>>
    BY DEF Batch, args, files
<1>2. rc' \in -1..2
    <2>1. CASE \E output \in SaysOf(ported) \union {TimedOut} : rc' = BatchRc(output)
        <3>1. rc' = 0 \/ rc' = 1
            BY <2>1 DEF BatchRc
        <3> QED
            BY <3>1
    <2>2. CASE rc' \in {-1, 1, 2}
        BY <2>2
    <2> QED
        BY <2>1, <2>2 DEF Batch
<1>3. Shaped'
    <2>1. StepShape' /\ NextShape'
        BY <1>1 DEF StageInv, Shaped, StepShape, NextShape
    <2>2. CallShape' /\ ResultShape' /\ StageShape'
        BY <1>1, <1>2 DEF StageInv, Shaped, CallShape, ResultShape, StageShape
    <2> QED
        BY <2>1, <2>2 DEF Shaped
<1>4. Stands'
    BY <1>1, StandsStill DEF StageInv
<1>5. StagingGrows'
    BY <1>1 DEF StageInv, StagingGrows
<1> QED
    BY <1>3, <1>4, <1>5 DEF StageInv

\* A file of a user's is not counted, and is put there between the calls only.
LEMMA UserFileStages ==
    ASSUME StageInv, UserFile PROVE StageInv'
<1>1. step \in {"idle", "over", "died"} /\ stage' = [there |-> TRUE, entries |-> stage.entries \union {Foreign}]
      /\ UNCHANGED <<runs, job, step, order, ported, next, verify, fleet, rc>>
    BY DEF UserFile, Running, args
<1>2. Shaped'
    <2>1. StepShape' /\ NextShape' /\ CallShape' /\ ResultShape'
        BY <1>1 DEF StageInv, Shaped, StepShape, NextShape, CallShape, ResultShape
    <2>2. StageShape'
        BY <1>1 DEF StageInv, Shaped, StageShape
    <2> QED
        BY <2>1, <2>2 DEF Shaped
<1>3. Stands'
    BY <1>1, StandsStill DEF StageInv
<1>4. StagingGrows'
    BY <1>1 DEF StageInv, StagingGrows
<1> QED
    BY <1>2, <1>3, <1>4 DEF StageInv

\* Steps that change nothing but where main is, and a killed call.
LEMMA QuietStages ==
    ASSUME StageInv, UNCHANGED <<runs, job, order, ported, next, verify, stage, fleet, rc>>,
           \/ step \in {"write", "verify"} /\ step' = "portable"
           \/ step' = "died"
           \/ step' = step
    PROVE  StageInv'
<1>1. Shaped'
    <2>1. StepShape' /\ NextShape'
        BY DEF StageInv, Shaped, StepShape, NextShape
    <2>2. CallShape' /\ ResultShape' /\ StageShape'
        BY DEF StageInv, Shaped, CallShape, ResultShape, StageShape
    <2> QED
        BY <2>1, <2>2 DEF Shaped
<1>2. Stands'
    BY StandsStill DEF StageInv
<1>3. StagingGrows'
    BY DEF StageInv, StagingGrows
<1> QED
    BY <1>1, <1>2, <1>3 DEF StageInv

LEMMA NextStages ==
    ASSUME StageInv, [Next]_vars PROVE StageInv'
<1>1. CASE Start
    BY <1>1, StartStages
<1>2. CASE Order
    BY <1>2, OrderStages
<1>3. CASE WriteFleet
    BY <1>3, QuietStages DEF WriteFleet, args, files
<1>4. CASE Portable
    BY <1>4, PortableStages
<1>5. CASE StageClean \/ Rmtree
    BY <1>5, CleanStages
<1>6. CASE StageMark
    BY <1>6, MarkStages
<1>7. CASE StageCopy
    BY <1>7, CopyStages
<1>8. CASE Batch
    BY <1>8, BatchStages
<1>9. CASE Kill
    BY <1>9, QuietStages DEF Kill, args, files
<1>10. CASE UserFile
    BY <1>10, UserFileStages
<1>11. ASSUME NEW m \in Modules, VerifyWrites(m) \/ VerifyDies(m) PROVE StageInv'
    <2>1. DOMAIN verify' = Modules
        BY <1>11 DEF VerifyWrites, VerifyDies, StageInv, Shaped, ResultShape
    <2>2. step = "verify" /\ Reads(m) /\ UNCHANGED <<runs, job, order, ported, stage, rc>>
        BY <1>11 DEF VerifyWrites, VerifyDies, Verifying, args
    <2> QED
        BY <2>1, <2>2, VerifyStages
<1>12. CASE UNCHANGED vars
    BY <1>12, QuietStages DEF vars, args, files
<1> QED
    BY <1>1, <1>2, <1>3, <1>4, <1>5, <1>6, <1>7, <1>8, <1>9, <1>10, <1>11, <1>12 DEF Next

\* The order of a call, the set and the directory, from what they are and what
\* the algorithms promise.
LEMMA StandingIsSound ==
    ASSUME StageInv PROVE OrderRespectsDepends /\ PortableIsClosed /\ StagedIsPortable
<1>1. job \in Jobs
    BY DEF StageInv, Shaped, CallShape
<1>2. PICK g : g = depends
    OBVIOUS
<1>3. DOMAIN g \subseteq Nat /\ IsFiniteSet(DOMAIN g)
    BY <1>1, <1>2, ScannedModules
<1>4. OrderRespectsDepends
    <2> SUFFICES ASSUME step \notin {"idle", "order", "died"} PROVE OrderRespectsDepends!2
        BY DEF OrderRespectsDepends
    <2>1. PICK t : t = topo_order(g)
        OBVIOUS
    <2>2. order = t
        BY <1>2, <2>1 DEF StageInv, Stands, OrderStands
    <2>3. \A m : At(m) = Place(t, m)
        BY <2>2 DEF At, Place
    <2>4. /\ Len(t) = Cardinality(DOMAIN g) /\ Range(t) = DOMAIN g
          /\ \A m \in (DOMAIN g) \ Stuck(g) : \A d \in Custom(g, m) : Place(t, d) < Place(t, m)
          /\ \A m \in Stuck(g), o \in (DOMAIN g) \ Stuck(g) : Place(t, o) < Place(t, m)
        BY <1>3, <2>1, TopoIsBuildable
    <2> QED
        BY <1>2, <2>2, <2>3, <2>4
<1>5. PortableIsClosed
    <2> SUFFICES ASSUME step \in {"clean", "batch", "over"} PROVE PortableIsClosed!2
        BY DEF PortableIsClosed
    <2>1. PICK a, b : a = job.installed /\ b = job.exclude
        OBVIOUS
    <2>2. PICK P : P = portable_set(g, a, b)
        OBVIOUS
    <2>3. ported = P
        BY <1>2, <2>1, <2>2 DEF StageInv, Stands, PortedStands
    <2>4. /\ \A m \in P : g[m] \intersect b = {}
          /\ \A m \in P, d \in DOMAIN g : DependsOn(g)[<<m, d>>] => d \notin b
          /\ (\A m \in DOMAIN g \intersect a : Custom(g, m) \subseteq a)
                => \A m \in P : Custom(g, m) \subseteq P
        BY <1>3, <2>2, PortableIsSound
    <2> QED
        BY <1>2, <2>1, <2>3, <2>4
<1>6. StagedIsPortable
    BY DEF StageInv, StagingGrows, StagedIsPortable
<1> QED
    BY <1>4, <1>5, <1>6

\* migrate_all.py, for every graph of dependencies, every excluded and installed
\* set, and wherever it was killed before: the order can be built, but for what
\* is on a cycle or built on one; nothing portable is built on what is excluded;
\* and a finished staging directory holds the portable modules and nothing else,
\* without a user's directory in its place.
THEOREM StagingsAreBuildable == Spec => []StagingIsBuildable
<1>1. Spec => []StageInv
    BY InitStages, NextStages, PTL DEF Spec
<1>2. StageInv /\ UserFilesStay => StagingIsBuildable
    BY StandingIsSound DEF StagingIsBuildable
<1> QED
    BY <1>1, <1>2, UsersAreSafe, PTL

-----------------------------------------------------------------------------
(* Types of db_upgrade.py.                                                 *)

LEMMA InitIsTyped == Db!Init => Db!TypeOK
<1> SUFFICES ASSUME Db!Init PROVE Db!TypeOK
  OBVIOUS
<1>1. calls = 0 /\ call \in Calls /\ phase = "idle" /\ left = {}
  BY DEF Db!Init
<1>2. exists \in BOOLEAN /\ whole \in BOOLEAN /\ upgraded \in BOOLEAN
      /\ disturbed \in BOOLEAN /\ early \in BOOLEAN
  BY DEF Db!Init
<1>3. content \subseteq {0} /\ (content # {} => exists)
  BY DEF Db!Init
<1>4. calls \in 0..MaxCalls /\ content \subseteq 0..calls
  BY <1>1, <1>3, CallsAssumption
<1> QED
  BY <1>1, <1>2, <1>3, <1>4 DEF Db!TypeOK

\* What follows a step is a step.
LEMMA AfterIsStep ==
    ASSUME NEW s, NEW verdict PROVE Db!After(s, verdict) \in {"upgrade", "check", "over", "died"}
BY DEF Db!After

\* What a container left behind is known by.
Work == [step : Db!Containers, call : 0..calls, wrote : BOOLEAN]

\* A call that writes into the database, or leaves it alone.
LEMMA WritesAreTyped ==
    ASSUME Db!TypeOK, UNCHANGED <<calls, call>>, phase' \in Db!Steps \union {"idle", "over", "died"},
           exists' \in BOOLEAN, whole' \in BOOLEAN, upgraded' \in BOOLEAN,
           disturbed' \in BOOLEAN, early' \in BOOLEAN,
           content' \subseteq content \union {calls}, content' # {} => exists',
           left' \subseteq Work, \A x \in left' : x.wrote => x.call \in content'
    PROVE  Db!TypeOK'
<1>1. calls \in Nat /\ calls \in 0..MaxCalls /\ content \subseteq 0..calls
  BY CallsAssumption DEF Db!TypeOK
<1>2. content' \subseteq 0..calls'
  BY <1>1
<1> QED
  BY <1>1, <1>2 DEF Db!TypeOK, Work

\* What a step leaves behind is known by its call.
LEMMA AbandonedIsTyped ==
    ASSUME Db!TypeOK, Db!Abandoned, UNCHANGED <<calls, call, disturbed, early>>,
           phase' \in Db!Steps \union {"idle", "over", "died"}
    PROVE  Db!TypeOK'
<1>1. calls \in Nat
  BY CallsAssumption DEF Db!TypeOK
<1>2. PICK wrote \in BOOLEAN :
        /\ left' = left \union {[step |-> phase, call |-> calls, wrote |-> wrote]}
        /\ wrote => exists' = TRUE /\ content' = content \union {calls}
                    /\ whole' = FALSE /\ upgraded' = FALSE
        /\ ~wrote => UNCHANGED <<exists, content, whole, upgraded>>
  BY DEF Db!Abandoned, Db!database
<1>3. left' \subseteq Work /\ \A x \in left' : x.wrote => x.call \in content'
  BY <1>1, <1>2 DEF Db!Abandoned, Db!TypeOK, Work
<1>4. /\ exists' \in BOOLEAN /\ whole' \in BOOLEAN /\ upgraded' \in BOOLEAN
      /\ content' \subseteq content \union {calls} /\ (content' # {} => exists')
  <2>1. exists \in BOOLEAN /\ whole \in BOOLEAN /\ upgraded \in BOOLEAN /\ (content # {} => exists)
    BY DEF Db!TypeOK
  <2>2. CASE wrote
    BY <1>2, <2>2
  <2>3. CASE ~wrote
    BY <1>2, <2>1, <2>3
  <2> QED
    BY <2>2, <2>3
<1>5. disturbed' \in BOOLEAN /\ early' \in BOOLEAN
  BY DEF Db!TypeOK
<1> QED
  BY <1>3, <1>4, <1>5, WritesAreTyped

LEMMA NextIsTyped ==
    ASSUME Db!TypeOK, [Db!Next]_rehearsal PROVE Db!TypeOK'
<1> USE DEF Db!database
<1>1. /\ calls \in Nat /\ call \in Calls /\ phase \in Db!Steps \union {"idle", "over", "died"}
      /\ exists \in BOOLEAN /\ whole \in BOOLEAN /\ upgraded \in BOOLEAN
      /\ disturbed \in BOOLEAN /\ early \in BOOLEAN
      /\ content # {} => exists
      /\ left \subseteq Work /\ \A x \in left : x.wrote => x.call \in content
  BY CallsAssumption DEF Db!TypeOK, Work
<1>2. CASE Db!Start
  <2>1. calls' = calls + 1 /\ calls' \in 0..MaxCalls /\ content' \subseteq 0..calls'
    <3>1. calls < MaxCalls /\ calls' = calls + 1 /\ content' = content
      BY <1>2 DEF Db!Start
    <3>2. content \subseteq 0..calls
      BY DEF Db!TypeOK
    <3> QED
      BY <1>1, <3>1, <3>2, CallsAssumption
  <2>2. call' \in Calls /\ phase' \in Db!Steps \union {"idle", "over", "died"}
    <3>1. call' \in Calls /\ phase' = Db!First(call')
      BY <1>2 DEF Db!Start
    <3> QED
      BY <3>1, CallsAssumption DEF Db!First, Db!Steps, Db!Containers
  <2>3. disturbed' \in BOOLEAN /\ early' \in BOOLEAN
    BY <1>2 DEF Db!Start
  <2>4. UNCHANGED <<exists, content, whole, upgraded, left>>
    BY <1>2 DEF Db!Start
  <2>5. left' \subseteq Work'
    BY <1>1, <2>1, <2>4 DEF Work
  <2> QED
    BY <1>1, <2>1, <2>2, <2>3, <2>4, <2>5 DEF Db!TypeOK, Work
<1>3. CASE Db!Up \/ Db!CreateDb
  BY <1>1, <1>3, WritesAreTyped DEF Db!Up, Db!CreateDb, Db!Steps, Db!Containers
<1>4. CASE Db!Load
  <2>1. phase' \in Db!Steps \union {"idle", "over", "died"} /\ whole' \in BOOLEAN
        /\ content' \subseteq content \union {calls} /\ (content' # {} => exists)
        /\ content \subseteq content'
    BY <1>1, <1>4, AfterIsStep DEF Db!Load, Db!Loads, Db!Steps, Db!Containers
  <2>2. UNCHANGED <<calls, call, exists, left, loaded, disturbed, early>> /\ upgraded' = FALSE
    BY <1>4 DEF Db!Load
  <2> QED
    BY <1>1, <2>1, <2>2, WritesAreTyped
<1>5. CASE Db!GivenUp
  <2>1. phase' \in Db!Steps \union {"idle", "over", "died"}
    BY <1>5, AfterIsStep DEF Db!GivenUp, Db!Steps, Db!Containers
  <2> QED
    BY <1>5, <2>1, AbandonedIsTyped DEF Db!GivenUp
<1>6. CASE Db!Seed
  <2>1. phase' \in Db!Steps \union {"idle", "over", "died"}
    BY <1>6, AfterIsStep DEF Db!Seed, Db!Steps, Db!Containers
  <2>2. /\ exists' = TRUE /\ content' = content \union {calls} /\ whole' = FALSE /\ upgraded' = FALSE
        /\ UNCHANGED <<calls, call, left, loaded, disturbed, early>>
    BY <1>6 DEF Db!Seed
  <2> QED
    BY <1>1, <2>1, <2>2, WritesAreTyped
<1>7. CASE Db!Upgrade
  <2>1. phase' \in Db!Steps \union {"idle", "over", "died"} /\ upgraded' \in BOOLEAN
    BY <1>7, AfterIsStep DEF Db!Upgrade, Db!Steps, Db!Containers
  <2>2. UNCHANGED <<calls, call, exists, content, whole, left, loaded, disturbed, early>>
    BY <1>7 DEF Db!Upgrade
  <2> QED
    BY <1>1, <2>1, <2>2, WritesAreTyped
<1>8. CASE Db!Check
  <2>1. phase' \in Db!Steps \union {"idle", "over", "died"}
    BY <1>8, AfterIsStep DEF Db!Check, Db!Steps, Db!Containers
  <2>2. UNCHANGED <<calls, call, exists, content, whole, upgraded, left, disturbed, early>>
    BY <1>8 DEF Db!Check
  <2> QED
    BY <1>1, <2>1, <2>2, WritesAreTyped
<1>9. ASSUME NEW x \in left, Db!LeftWrites(x) PROVE Db!TypeOK'
  <2> PICK y : y = [x EXCEPT !.wrote = TRUE]
    OBVIOUS
  <2>1. /\ content' = content \union {x.call} /\ left' = (left \ {x}) \union {y} /\ exists'
        /\ exists' \in BOOLEAN /\ disturbed' \in BOOLEAN
        /\ UNCHANGED <<calls, call, phase, whole, upgraded, loaded, early>>
    BY <1>1, <1>9 DEF Db!LeftWrites
  <2>2. y \in Work /\ y.call = x.call /\ x.call \in 0..calls
    BY <1>1 DEF Work
  <2>3. content' \subseteq 0..calls
    BY <1>1, <2>1, <2>2 DEF Db!TypeOK
  <2>4. left' \subseteq Work /\ \A z \in left' : z.wrote => z.call \in content'
    BY <1>1, <2>1, <2>2
  <2> QED
    BY <1>1, <2>1, <2>3, <2>4 DEF Db!TypeOK, Work
<1>10. ASSUME NEW x \in left, Db!LeftEnds(x) PROVE Db!TypeOK'
  <2>1. /\ left' \subseteq left /\ UNCHANGED <<calls, call, phase, exists, content, whole, upgraded, loaded, disturbed, early>>
    BY <1>10 DEF Db!LeftEnds
  <2> QED
    BY <1>1, <2>1, WritesAreTyped
<1>11. CASE Db!DropDb
  BY <1>1, <1>11, WritesAreTyped DEF Db!DropDb
<1>12. CASE Db!Kill
  <2>1. CASE Db!Abandoned
    BY <1>12, <2>1, AbandonedIsTyped DEF Db!Kill
  <2>2. CASE UNCHANGED <<Db!database, left>>
    BY <1>1, <1>12, <2>2, WritesAreTyped DEF Db!Kill
  <2> QED
    BY <1>12, <2>1, <2>2 DEF Db!Kill
<1>13. CASE UNCHANGED rehearsal
  <2>1. UNCHANGED <<calls, call, phase, exists, content, whole, upgraded, left, loaded, disturbed, early>>
    BY <1>13 DEF rehearsal
  <2> QED
    BY <1>1, <2>1, WritesAreTyped
<1> QED
  BY <1>2, <1>3, <1>4, <1>5, <1>6, <1>7, <1>8, <1>9, <1>10, <1>11, <1>12, <1>13 DEF Db!Next

-----------------------------------------------------------------------------
(* db_upgrade.py.                                                          *)

\* What a container left behind has written is in the database.
LeftHasWritten == \A x \in left : x.wrote => x.call \in content

Rehearsing == call.step = "full" /\ call.dump = "custom"

\* Until the dump is loaded, what was disturbed is not empty, and the load will
\* not be clean; who has written nothing was at work before the call.
BeforeLoad ==
    Rehearsing =>
        /\ phase # "seed"
        /\ phase \in {"up", "createdb", "load"} =>
              /\ disturbed => content # {}
              /\ \A x \in left : x.wrote \/ early

\* A load that passes found the database empty, so nobody who had written was at
\* work on it.
AfterLoad ==
    Rehearsing /\ phase \in {"upgrade", "check", "over"} =>
        /\ calls \in content /\ whole
        /\ ~early => content = {calls} /\ left = {} /\ ~disturbed

\* The later steps passed one by one.
StepsPassed ==
    Rehearsing =>
        /\ phase \in {"check", "over"} => upgraded
        /\ phase = "over" => call.expected \subseteq loaded

DbInv == LeftHasWritten /\ BeforeLoad /\ AfterLoad /\ StepsPassed

-----------------------------------------------------------------------------

\* Nothing is called ok that did not exit with 0 and load what was expected.
LEMMA OkHasExited ==
    ASSUME NEW output, NEW expected, Db!StartsWithOk(Db!verdict_of(output, expected))
    PROVE  output.rc = 0 /\ expected \subseteq output.loaded
BY DEF Db!StartsWithOk, Db!verdict_of, Db!module_load_status

LEMMA TimeOutIsNotOk == ~Db!StartsWithOk(Db!verdict_of(Db!TimedOut, {}))
<1>1. Db!TimedOut.rc = -1 /\ -1 # 0
  BY DEF Db!TimedOut
<1> QED
  BY <1>1, OkHasExited

\* What follows a step of a full rehearsal.
LEMMA AfterStep ==
    ASSUME Rehearsing, NEW s, NEW output, NEW expected,
           phase' = Db!After(s, Db!verdict_of(output, expected)), phase' # "died"
    PROVE  /\ output.rc = 0 /\ expected \subseteq output.loaded
           /\ phase' = IF s = "check" THEN "over" ELSE IF s = "load" THEN "upgrade" ELSE "check"
<1>1. Db!StartsWithOk(Db!verdict_of(output, expected))
  BY DEF Db!After
<1> QED
  BY <1>1, OkHasExited DEF Db!After, Rehearsing

LEMMA InitRehearses == Db!Init => DbInv
BY DEF Db!Init, DbInv, LeftHasWritten, BeforeLoad, AfterLoad, StepsPassed

\* A call that is over without success says nothing.
LEMMA NoSuccess ==
    ASSUME phase' \in {"idle", "died"}, LeftHasWritten' PROVE DbInv'
BY DEF DbInv, BeforeLoad, AfterLoad, StepsPassed

\* pg_restore exits with 0 only when nothing went wrong.
LEMMA CleanLoad ==
    ASSUME Rehearsing, NEW clean \in BOOLEAN, Db!LoaderRc(clean) = 0 PROVE clean
BY DEF Rehearsing, Db!LoaderRc

LEMMA LoadRehearses == ASSUME DbInv, Db!Load PROVE DbInv'
<1>1. phase = "load" /\ UNCHANGED <<calls, call, left, disturbed, early>>
  BY DEF Db!Load
<1>2. CASE ~exists
  <2>1. UNCHANGED content /\ phase' = Db!After("load", Db!verdict_of([Db!TimedOut EXCEPT !.rc = 2], {}))
    BY <1>2 DEF Db!Load, Db!Loads
  <2>2. [Db!TimedOut EXCEPT !.rc = 2].rc # 0
    BY DEF Db!TimedOut
  <2>3. phase' = "died"
    BY <2>1, <2>2, OkHasExited DEF Db!After
  <2> QED
    BY <1>1, <2>1, <2>3, NoSuccess DEF DbInv, LeftHasWritten
<1>3. CASE exists
  <2>1. PICK clean \in (IF content = {} THEN BOOLEAN ELSE {FALSE}) :
            /\ content' = content \union {calls} /\ whole' = clean
            /\ phase' = Db!After("load",
                  Db!verdict_of([Db!TimedOut EXCEPT !.rc = Db!LoaderRc(clean)], {}))
    BY <1>3 DEF Db!Load, Db!Loads
  <2>2. LeftHasWritten'
    BY <1>1, <2>1 DEF DbInv, LeftHasWritten
  <2>3. CASE ~Rehearsing
    BY <1>1, <2>2, <2>3 DEF DbInv, BeforeLoad, AfterLoad, StepsPassed, Rehearsing
  <2>4. CASE phase' = "died"
    BY <2>2, <2>4, NoSuccess
  <2>5. CASE Rehearsing /\ phase' # "died"
    <3> DEFINE output == [Db!TimedOut EXCEPT !.rc = Db!LoaderRc(clean)]
    <3>1. output.rc = Db!LoaderRc(clean)
      BY DEF Db!TimedOut
    <3>2. phase' = Db!After("load", Db!verdict_of(output, {}))
      BY <2>1
    <3> HIDE DEF output
    <3>3. output.rc = 0 /\ phase' = "upgrade"
      BY <2>5, <3>2, AfterStep
    <3>4. clean
      BY <2>5, <3>1, <3>3, CleanLoad
    <3>5. content = {}
      BY <2>1, <3>4
    <3>6. content' = {calls'} /\ whole' /\ (left' # {} \/ disturbed' => early')
      <4>1. ~disturbed /\ \A x \in left : ~x.wrote /\ early
        BY <1>1, <2>5, <3>5 DEF DbInv, LeftHasWritten, BeforeLoad
      <4> QED
        BY <1>1, <2>1, <3>4, <3>5, <4>1
    <3> QED
      BY <2>2, <3>3, <3>6 DEF DbInv, BeforeLoad, AfterLoad, StepsPassed
  <2> QED
    BY <2>3, <2>4, <2>5
<1> QED
  BY <1>2, <1>3

LEMMA UpgradeRehearses == ASSUME DbInv, Db!Upgrade PROVE DbInv'
<1>1. phase = "upgrade" /\ UNCHANGED <<calls, call, content, whole, left, disturbed, early>>
  BY DEF Db!Upgrade
<1>2. PICK output \in Says : /\ phase' = Db!After("upgrade", Db!verdict_of(output, {}))
                             /\ output.rc = 0 => upgraded'
  BY Zenon DEF Db!Upgrade
<1>3. LeftHasWritten'
  BY <1>1 DEF DbInv, LeftHasWritten
<1>4. CASE ~Rehearsing
  BY <1>1, <1>3, <1>4 DEF DbInv, BeforeLoad, AfterLoad, StepsPassed, Rehearsing
<1>5. CASE phase' = "died"
  BY <1>3, <1>5, NoSuccess
<1>6. CASE Rehearsing /\ phase' # "died"
  <2>1. phase' = "check" /\ upgraded'
    BY <1>2, <1>6, AfterStep
  <2> QED
    BY <1>1, <1>3, <1>6, <2>1 DEF DbInv, BeforeLoad, AfterLoad, StepsPassed
<1> QED
  BY <1>4, <1>5, <1>6

LEMMA CheckRehearses == ASSUME DbInv, Db!Check PROVE DbInv'
<1>1. phase = "check"
      /\ UNCHANGED <<calls, call, content, whole, upgraded, left, disturbed, early>>
  BY DEF Db!Check, Db!database
<1>2. PICK output \in Says :
          /\ phase' = Db!After("check", Db!verdict_of(output, call.expected))
          /\ loaded' = output.loaded
  BY DEF Db!Check
<1>3. LeftHasWritten'
  BY <1>1 DEF DbInv, LeftHasWritten
<1>4. CASE ~Rehearsing
  BY <1>1, <1>3, <1>4 DEF DbInv, BeforeLoad, AfterLoad, StepsPassed, Rehearsing
<1>5. CASE phase' = "died"
  BY <1>3, <1>5, NoSuccess
<1>6. CASE Rehearsing /\ phase' # "died"
  <2>1. phase' = "over" /\ call.expected \subseteq loaded'
    BY <1>2, <1>6, AfterStep
  <2> QED
    BY <1>1, <1>3, <1>6, <2>1 DEF DbInv, BeforeLoad, AfterLoad, StepsPassed
<1> QED
  BY <1>4, <1>5, <1>6

\* A step that is given up leaves a container that has written, or not.
LEMMA AbandonedHasWritten ==
    ASSUME LeftHasWritten, Db!Abandoned, UNCHANGED calls PROVE LeftHasWritten'
<1>1. PICK wrote \in BOOLEAN :
        /\ left' = left \union {[step |-> phase, call |-> calls, wrote |-> wrote]}
        /\ wrote => content' = content \union {calls}
        /\ ~wrote => content' = content
  BY DEF Db!Abandoned, Db!database
<1>2. content \subseteq content'
  BY <1>1
<1>3. ASSUME NEW x \in left', x.wrote PROVE x.call \in content'
  <2>1. CASE x \in left
    BY <1>2, <1>3, <2>1 DEF LeftHasWritten
  <2>2. CASE x = [step |-> phase, call |-> calls, wrote |-> wrote]
    <3>1. wrote
      BY <1>3, <2>2
    <3> QED
      BY <1>1, <2>2, <3>1
  <2> QED
    BY <1>1, <2>1, <2>2
<1> QED
  BY <1>3 DEF LeftHasWritten

\* A step that ran out of time ends the call.
LEMMA GivenUpRehearses == ASSUME DbInv, Db!GivenUp PROVE DbInv'
<1>1. phase' = "died"
  BY TimeOutIsNotOk DEF Db!GivenUp, Db!After
<1>2. LeftHasWritten'
  BY AbandonedHasWritten DEF Db!GivenUp, DbInv
<1> QED
  BY <1>1, <1>2, NoSuccess

\* A container left behind writes: the database has its work in it.
LEMMA LeftWritesRehearses ==
    ASSUME DbInv, Db!TypeOK, NEW x \in left, Db!LeftWrites(x) PROVE DbInv'
<1> PICK y : y = [x EXCEPT !.wrote = TRUE]
  OBVIOUS
<1>1. /\ content' = content \union {x.call} /\ left' = (left \ {x}) \union {y}
      /\ disturbed' => disturbed \/ phase \in Db!Steps
      /\ UNCHANGED <<calls, call, phase, whole, upgraded, loaded, early>>
  BY DEF Db!LeftWrites
<1>2. y.wrote /\ y.call = x.call
  BY DEF Db!TypeOK
<1>3. LeftHasWritten'
  BY <1>1, <1>2 DEF DbInv, LeftHasWritten
<1>4. BeforeLoad'
  BY <1>1, <1>2 DEF DbInv, BeforeLoad, Rehearsing
<1>5. AfterLoad' /\ StepsPassed'
  BY <1>1 DEF DbInv, AfterLoad, StepsPassed, Rehearsing
<1> QED
  BY <1>3, <1>4, <1>5 DEF DbInv

LEMMA NextRehearses == DbInv /\ Db!TypeOK /\ [Db!Next]_rehearsal => DbInv'
<1> SUFFICES ASSUME DbInv, Db!TypeOK, [Db!Next]_rehearsal PROVE DbInv'
  OBVIOUS
<1>1. CASE Db!Start
  <2>1. /\ phase' = Db!First(call') /\ disturbed' = FALSE /\ UNCHANGED <<content, left>>
        /\ early' = \E x \in left : ~x.wrote
    BY <1>1 DEF Db!Start, Db!database
  <2>2. LeftHasWritten'
    BY <2>1 DEF DbInv, LeftHasWritten
  <2>3. call'.step = "full" => phase' = "up"
    BY <2>1 DEF Db!First
  <2> QED
    BY <2>1, <2>2, <2>3 DEF DbInv, BeforeLoad, AfterLoad, StepsPassed, Rehearsing
<1>2. CASE Db!Up
  BY <1>2 DEF Db!Up, Db!database, DbInv, LeftHasWritten, BeforeLoad, AfterLoad, StepsPassed,
              Rehearsing
<1>3. CASE Db!CreateDb
  BY <1>3 DEF Db!CreateDb, DbInv, LeftHasWritten, BeforeLoad, AfterLoad, StepsPassed,
              Rehearsing
<1>4. CASE Db!Load
  BY <1>4, LoadRehearses
<1>5. CASE Db!GivenUp
  BY <1>5, GivenUpRehearses
<1>6. CASE Db!Seed
  <2>1. phase = "seed" /\ UNCHANGED <<call, left, early>> /\ content' = content \union {calls}
    BY <1>6 DEF Db!Seed
  <2> QED
    BY <2>1 DEF DbInv, LeftHasWritten, BeforeLoad, AfterLoad, StepsPassed, Rehearsing
<1>7. CASE Db!Upgrade
  BY <1>7, UpgradeRehearses
<1>8. CASE Db!Check
  BY <1>8, CheckRehearses
<1>9. ASSUME NEW x \in left, Db!LeftWrites(x) PROVE DbInv'
  BY <1>9, LeftWritesRehearses
<1>10. ASSUME NEW x \in left, Db!LeftEnds(x) PROVE DbInv'
  <2>1. left' \subseteq left
        /\ UNCHANGED <<calls, call, phase, content, whole, upgraded, loaded, disturbed, early>>
    BY <1>10 DEF Db!LeftEnds, Db!database
  <2> QED
    BY <2>1 DEF DbInv, LeftHasWritten, BeforeLoad, AfterLoad, StepsPassed, Rehearsing
<1>11. CASE Db!DropDb
  BY <1>11, NoSuccess DEF Db!DropDb, LeftHasWritten
<1>12. CASE Db!Kill
  <2>1. LeftHasWritten'
    <3>1. CASE Db!Abandoned
      BY <1>12, <3>1, AbandonedHasWritten DEF Db!Kill, DbInv
    <3>2. CASE UNCHANGED <<Db!database, left>>
      BY <3>2 DEF Db!database, DbInv, LeftHasWritten
    <3> QED
      BY <1>12, <3>1, <3>2 DEF Db!Kill
  <2> QED
    BY <1>12, <2>1, NoSuccess DEF Db!Kill
<1>13. CASE UNCHANGED rehearsal
  BY <1>13 DEF rehearsal, DbInv, LeftHasWritten, BeforeLoad, AfterLoad, StepsPassed,
               Rehearsing
<1> QED
  BY <1>1, <1>2, <1>3, <1>4, <1>5, <1>6, <1>7, <1>8, <1>9, <1>10, <1>11, <1>12, <1>13
     DEF Db!Next

\* db_upgrade.py: a full rehearsal from a custom-format dump that passes holds
\* this dump, whole and upgraded, with the modules expected, and nothing that an
\* earlier step had left at work wrote to it, unless the call began while such a
\* container had written nothing yet.
THEOREM RehearsalsAreReal == ToolsSpec => []FullIsRehearsed
<1>1. ToolsInit => DbInv /\ Db!TypeOK
  BY InitRehearses, InitIsTyped DEF ToolsInit
<1>2. [ToolsNext]_<<tool, vars, rehearsal>> => [Db!Next]_rehearsal
  BY DEF ToolsNext
<1>3. DbInv => FullIsRehearsed
  BY DEF DbInv, BeforeLoad, AfterLoad, StepsPassed, Rehearsing, FullIsRehearsed,
         Db!FullMeansRehearsed, Db!FullRunsAlone, Db!Passed
<1> QED
  BY <1>1, <1>2, <1>3, NextRehearses, NextIsTyped, PTL DEF ToolsSpec
\* Whichever tool is used, the variables of both have their types.
THEOREM ToolsTypeCorrect == ToolsSpec => []ToolsTypeOK
<1>1. ToolsInit => StageInv /\ Db!TypeOK
  BY InitStages, InitIsTyped DEF ToolsInit
<1>2. StageInv /\ Db!TypeOK /\ [ToolsNext]_<<tool, vars, rehearsal>> => StageInv' /\ Db!TypeOK'
  <2>1. [ToolsNext]_<<tool, vars, rehearsal>> => [Next]_vars /\ [Db!Next]_rehearsal
    BY DEF ToolsNext
  <2> QED
    BY <2>1, NextStages, NextIsTyped
<1>3. StageInv /\ Db!TypeOK => ToolsTypeOK
  BY DEF StageInv, Shaped, StepShape, CallShape, ResultShape, NextShape, StageShape, ToolsTypeOK, TypeOK
<1> QED
  BY <1>1, <1>2, <1>3, PTL DEF ToolsSpec
=============================================================================
