------------------------- MODULE WorkingTree_proofs -------------------------
(***************************************************************************)
(* The two probes that change the working tree and put it back.            *)
(*                                                                         *)
(* red_green_replay.py, for any commits, tests, texts and number of        *)
(* replays: with commits given to --base and --head, what a report says of *)
(* the two runs is what was run, and a replay whose last checkout works    *)
(* leaves the repository where it found it.                                *)
(*                                                                         *)
(* mutation_smoke.py, for any files, targets, edits and number of kills: a *)
(* mutation stands in a file only while its tests run, or where a kill left*)
(* it; no edit is undone but one saved while its file was being mutated.   *)
(***************************************************************************)
EXTENDS RedGreenReplay, MutationSmoke, FiniteSetTheorems, TLAPS

-----------------------------------------------------------------------------
(* red_green_replay.py                                                     *)

Shas == BaseArg = BaseSha /\ HeadArg = HeadSha

Mixed == [code |-> BaseSha, tests |-> HeadSha]

\* Where a replay is says what is in the working tree.
TreeIs ==
    /\ phase = "overlay" => tree = Files(BaseSha)
    /\ phase = "test base" => tree = Mixed
    /\ phase = "test head" => tree = Files(HeadSha)
    /\ base.tree \in {Captured, Mixed}
    /\ head.tree \in {Captured, Files(HeadSha)}

ReplayRunning == {"base", "overlay", "test base", "head", "test head"}

ReplayInv ==
    /\ ReplayTypeOK
    /\ TreeIs
    /\ phase \in ReplayRunning => report = NoReport
    /\ ReportsWhatRan

LEMMA ResolveType ==
    ASSUME ReplayTypeOK, NEW arg \in Commit \union {"HEAD"} PROVE Resolve(arg) \in Commit
BY ReplayAssumption, BoundsAssumption DEF ReplayTypeOK, Resolve, CommitOf, Ref

LEMMA TreesType == ASSUME NEW c \in Commit PROVE Files(c) \in Tree
BY DEF Files, Tree

LEMMA PartlyType ==
    ASSUME ReplayTypeOK, NEW t \in Tree PROVE Partly(t) \subseteq Tree
BY DEF ReplayTypeOK, Partly, Tree

\* The report of a replay that did not come to its end claims nothing.
LEMMA NotOkType ==
    NotOk \in ReplayReport /\ NotOk # NoReport /\ ~NotOk.base_failed /\ ~NotOk.head_passed
<1>1. NotOk \in ReplayReport
  BY DEF NotOk, ReplayReport
<1>2. NotOk # NoReport
  BY <1>1, NoReportAssumption
<1>3. ~NotOk.base_failed /\ ~NotOk.head_passed
  BY Zenon DEF NotOk
<1> QED
  BY <1>1, <1>2, <1>3

LEMMA NoOutputType == NoOutput \in Output
<1>1. (CHOOSE t \in Test : TRUE) \in Test /\ (CHOOSE n \in Counts : TRUE) \in Counts
  BY ReplayAssumption, BoundsAssumption
<1> QED
  BY <1>1 DEF NoOutput, Output

LEMMA NoRunType == NoRun \in [tree : Tree \union {Captured}, output : Output]
BY NoOutputType DEF NoRun

\* The judgement is a report; it calls red only what failed and green only
\* what passed.
LEMMA JudgedSound ==
    ASSUME NEW b, NEW h, b.output \in Output, h.output \in Output
    PROVE  /\ Judged(b, h) \in ReplayReport
           /\ Judged(b, h).base_failed => Red(b)
           /\ Judged(b, h).head_passed => Green(h)
<1> DEFINE p == parse_odoo_test_result(b.output)
           q == parse_odoo_test_result(h.output)
<1>1. /\ p.failed \in BOOLEAN /\ (p.failed => Red(b))
      /\ q.failed \in BOOLEAN /\ q.passed \in BOOLEAN /\ (q.passed => Green(h))
  <2>1. ASSUME NEW r, r.output \in Output
        PROVE  LET o == parse_odoo_test_result(r.output)
               IN  /\ o.failed \in BOOLEAN /\ (o.failed => Red(r))
                   /\ o.passed \in BOOLEAN /\ (o.passed => Green(r))
    <3>1. r.output.ran # 0 => r.output.ran > 0
      <4>1. r.output.ran \in Nat
        BY <2>1, BoundsAssumption DEF Output
      <4> QED
        BY <4>1
    <3>2. (parse_odoo_test_result(r.output).failed
              = (r.output.failing # {} \/ r.output.summary = "FAILED"))
      BY Zenon DEF parse_odoo_test_result
    <3>3. (parse_odoo_test_result(r.output).passed
              = (r.output.failing = {} /\ r.output.summary = "OK" /\ r.output.ran # 0))
      BY Zenon DEF parse_odoo_test_result
    <3> QED
      BY <3>1, <3>2, <3>3, Zenon DEF Red, Green
  <2> QED
    BY <2>1
<1> HIDE DEF p, q
<1>2. /\ classify_replay(p, q) \in ReplayReport
      /\ classify_replay(p, q).base_failed => p.failed
      /\ classify_replay(p, q).head_passed => q.passed
  BY <1>1 DEF classify_replay, ReplayReport
<1> QED
  BY <1>1, <1>2 DEF Judged, p, q

LEMMA InitSafe == ReplayInit => ReplayInv
<1> SUFFICES ASSUME ReplayInit PROVE ReplayInv
  OBVIOUS
<1>1. ReplayTypeOK
  BY ReplayAssumption, BoundsAssumption, NoRunType, TreesType DEF ReplayInit, ReplayTypeOK, Ref, Step
<1> QED
  BY <1>1 DEF ReplayInit, ReplayInv, TreeIs, ReplayRunning, NoRun, ReportsWhatRan, Printed

LEMMA NextSafe == ASSUME Shas, ReplayInv, [ReplayNext]_replay_vars PROVE ReplayInv'
<1> USE ReplayAssumption, BoundsAssumption, NotOkType
<1>0. Resolve(BaseArg) = BaseSha /\ Resolve(HeadArg) = HeadSha
      /\ Files(BaseSha) \in Tree /\ Files(HeadSha) \in Tree
  BY TreesType DEF Shas, Resolve
<1>1. CASE StartReplay
  <2>1. ReplayTypeOK'
    <3>1. replays' \in 0..MaxReplays
      <4>1. replays \in 0..MaxReplays
        BY DEF ReplayInv, ReplayTypeOK
      <4>2. replays < MaxReplays /\ replays' = replays + 1
        BY <1>1 DEF StartReplay
      <4> QED
        BY <4>1, <4>2, BoundsAssumption
    <3> QED
      BY <1>1, <3>1, NoRunType DEF ReplayInv, StartReplay, ReplayTypeOK, Step
  <2> QED
    BY <1>1, <2>1 DEF ReplayInv, StartReplay, TreeIs, NoRun, ReplayRunning, ReportsWhatRan, Printed
<1>2. CASE CheckoutBase
  <2>1. ReplayTypeOK'
    <3>1. CASE Checkout(BaseSha, "overlay") /\ UNCHANGED report
      BY <1>0, <1>2, <3>1 DEF ReplayInv, CheckoutBase, Checkout, ReplayTypeOK, Step, Ref, CommitOf
    <3>2. CASE CheckoutFails(Files(BaseSha), "restore") /\ report' = NotOk
      BY <1>0, <1>2, <3>2, PartlyType
         DEF ReplayInv, CheckoutBase, CheckoutFails, ReplayTypeOK, Step
    <3> QED
      BY <1>0, <1>2, <3>1, <3>2 DEF CheckoutBase
  <2>2. TreeIs'
    BY <1>0, <1>2 DEF ReplayInv, CheckoutBase, Checkout, CheckoutFails, TreeIs, CommitOf
  <2> QED
    BY <1>2, <2>1, <2>2
       DEF ReplayInv, CheckoutBase, Checkout, CheckoutFails, ReplayRunning, ReportsWhatRan,
           Printed
<1>3. CASE Overlay
  <2>1. tree' \in Tree
    BY <1>0, <1>3 DEF ReplayInv, Overlay, ReplayTypeOK, Tree
  <2>2. ReplayTypeOK'
    <3>1. report' \in ReplayReport \union {NoReport} /\ phase' \in Step
      BY <1>3 DEF ReplayInv, Overlay, ReplayTypeOK, Step
    <3> QED
      BY <1>3, <2>1, <3>1 DEF ReplayInv, Overlay, ReplayTypeOK
  <2>3. TreeIs'
    <3>1. phase = "overlay" /\ tree = Files(BaseSha)
      BY <1>3 DEF ReplayInv, Overlay, TreeIs
    <3>2. phase' = "test base" => tree' = Mixed
      BY <1>0, <1>3, <3>1 DEF Overlay, Files, Mixed
    <3> QED
      BY <1>3, <3>1, <3>2 DEF ReplayInv, Overlay, TreeIs
  <2> QED
    BY <1>3, <2>2, <2>3 DEF ReplayInv, Overlay, ReplayRunning, ReportsWhatRan, Printed
<1>4. CASE TestBase
  <2>1. base' \in [tree : Tree \union {Captured}, output : Output]
        /\ base'.tree \in {Captured, Mixed}
    <3>1. CASE UNCHANGED base
      BY <3>1 DEF ReplayInv, ReplayTypeOK, TreeIs
    <3>2. CASE \E o \in Output : base' = [tree |-> tree, output |-> o]
      <4>1. PICK o \in Output : base' = [tree |-> tree, output |-> o]
        BY <3>2
      <4>2. tree \in Tree /\ tree = Mixed
        BY <1>4 DEF ReplayInv, TestBase, ReplayTypeOK, TreeIs
      <4> QED
        BY <1>4, <4>1, <4>2
    <3> QED
      BY <1>4, <3>1, <3>2 DEF TestBase
  <2>2. ReplayTypeOK'
    BY <1>4, <2>1 DEF ReplayInv, TestBase, ReplayTypeOK, Step
  <2> QED
    BY <1>4, <2>1, <2>2
       DEF ReplayInv, TestBase, TreeIs, ReplayRunning, ReportsWhatRan, Printed
<1>5. CASE CheckoutHead
  <2>1. ReplayTypeOK'
    <3>1. CASE Checkout(HeadSha, "test head") /\ UNCHANGED report
      BY <1>0, <1>5, <3>1 DEF ReplayInv, CheckoutHead, Checkout, ReplayTypeOK, Step, Ref, CommitOf
    <3>2. CASE CheckoutFails(Files(HeadSha), "restore") /\ report' = NotOk
      BY <1>0, <1>5, <3>2, PartlyType
         DEF ReplayInv, CheckoutHead, CheckoutFails, ReplayTypeOK, Step
    <3> QED
      BY <1>0, <1>5, <3>1, <3>2 DEF CheckoutHead
  <2>2. TreeIs'
    BY <1>0, <1>5 DEF ReplayInv, CheckoutHead, Checkout, CheckoutFails, TreeIs, CommitOf
  <2> QED
    BY <1>5, <2>1, <2>2
       DEF ReplayInv, CheckoutHead, Checkout, CheckoutFails, ReplayRunning, ReportsWhatRan,
           Printed
<1>6. CASE TestHead
  <2>1. /\ head' \in [tree : Tree \union {Captured}, output : Output]
        /\ head'.tree \in {Captured, Files(HeadSha)}
        /\ base' = base
    <3>1. CASE UNCHANGED head
      BY <1>6, <3>1 DEF ReplayInv, TestHead, ReplayTypeOK, TreeIs
    <3>2. CASE \E o \in Output : head' = [tree |-> tree, output |-> o]
      <4>1. PICK o \in Output : head' = [tree |-> tree, output |-> o]
        BY <3>2
      <4>2. tree \in Tree /\ tree = Files(HeadSha)
        BY <1>6 DEF ReplayInv, TestHead, ReplayTypeOK, TreeIs
      <4> QED
        BY <1>6, <4>1, <4>2 DEF TestHead
    <3> QED
      BY <1>6, <3>1, <3>2 DEF TestHead
  <2>2. report' \in {NotOk, Judged(base, head')}
    BY <1>6 DEF TestHead
  <2>3. /\ report' \in ReplayReport
        /\ report'.base_failed => Red(base)
        /\ report'.head_passed => Green(head')
    BY <2>1, <2>2, JudgedSound DEF ReplayInv, ReplayTypeOK
  <2>4. ReplayTypeOK'
    BY <1>6, <2>1, <2>3 DEF ReplayInv, TestHead, ReplayTypeOK, Step
  <2>5. TreeIs'
    BY <1>6, <2>1 DEF ReplayInv, TestHead, TreeIs
  <2>6. ReportsWhatRan'
    BY <2>1, <2>3, <2>5 DEF ReportsWhatRan, TreeIs, Mixed, Red, Green
  <2> QED
    BY <1>6, <2>4, <2>5, <2>6 DEF ReplayInv, TestHead, ReplayRunning
<1>7. CASE RestoreRef
  <2>1. CommitOf(original_ref) \in Commit
    BY DEF ReplayInv, ReplayTypeOK, CommitOf, Ref
  <2>2. tree' \in Tree
    BY <1>7, <2>1, TreesType, PartlyType
       DEF ReplayInv, RestoreRef, Checkout, CheckoutFails
  <2>3. ReplayTypeOK'
    BY <1>7, <2>2 DEF ReplayInv, RestoreRef, Checkout, CheckoutFails, ReplayTypeOK, Step
  <2> QED
    BY <1>7, <2>3
       DEF ReplayInv, RestoreRef, Checkout, CheckoutFails, TreeIs, ReplayRunning,
           ReportsWhatRan, Printed, Red, Green
<1>8. CASE ReplayKilled
  <2>1. ReplayTypeOK'
    BY <1>8, NoRunType DEF ReplayInv, ReplayKilled, ReplayTypeOK, Step
  <2> QED
    BY <1>8, <2>1 DEF ReplayInv, ReplayKilled, TreeIs, NoRun, ReplayRunning, ReportsWhatRan, Printed
<1>9. CASE AssembleReplay
  <2>1. PICK b \in Output, h \in Output :
          /\ base' = [tree |-> Captured, output |-> b]
          /\ head' = [tree |-> Captured, output |-> h]
          /\ report' \in {NotOk, Judged(base', head')}
    BY <1>9 DEF AssembleReplay
  <2>2. /\ report' \in ReplayReport
        /\ report'.base_failed => Red(base')
        /\ report'.head_passed => Green(head')
    BY <2>1, JudgedSound
  <2>3. ReplayTypeOK'
    BY <1>9, <2>1, <2>2 DEF ReplayInv, AssembleReplay, ReplayTypeOK, Step
  <2>4. TreeIs'
    BY <1>9, <2>1 DEF AssembleReplay, TreeIs
  <2>5. ReportsWhatRan'
    BY <2>1, <2>2 DEF ReportsWhatRan, Red, Green
  <2> QED
    BY <1>9, <2>3, <2>4, <2>5 DEF ReplayInv, AssembleReplay, ReplayRunning
<1>10. CASE UNCHANGED replay_vars
  BY <1>10 DEF ReplayInv, replay_vars, ReplayTypeOK, TreeIs, ReportsWhatRan, Printed, Red, Green
<1> QED
  BY <1>1, <1>2, <1>3, <1>4, <1>5, <1>6, <1>7, <1>8, <1>9, <1>10 DEF ReplayNext

\* With commits as arguments, every variable of the replay keeps its type.
THEOREM ReplayTypeCorrect == ASSUME Shas PROVE ReplaySpec => []ReplayTypeOK
<1>1. Shas
  OBVIOUS
<1>2. ReplayInv /\ [ReplayNext]_replay_vars => ReplayInv'
  BY <1>1, NextSafe
<1>3. ReplayInv => ReplayTypeOK
  BY DEF ReplayInv
<1> QED
  BY InitSafe, <1>2, <1>3, PTL DEF ReplaySpec

\* With commits as arguments, red is what failed on the base code with the
\* tests of the change, and green what passed on the changed commit
\* (run_replay, parse_odoo_test_result, classify_replay).
THEOREM ReportsAreHonest == ASSUME Shas PROVE ReplaySpec => []ReportsWhatRan
<1>1. Shas
  OBVIOUS
<1>2. ReplayInv /\ [ReplayNext]_replay_vars => ReplayInv'
  BY <1>1, NextSafe
<1>3. ReplayInv => ReportsWhatRan
  BY DEF ReplayInv
<1> QED
  BY InitSafe, <1>2, <1>3, PTL DEF ReplaySpec

\* Every way out of run_replay passes its finally clause: when the last
\* checkout works, HEAD and the files are what they were called with.
THEOREM RepositoryGoesBack == ReplaySpec => []GoesBack
<1>1. ReplayInit => GoesBack
  BY DEF ReplayInit, GoesBack
<1>2. GoesBack /\ [ReplayNext]_replay_vars => GoesBack'
  <2> SUFFICES ASSUME GoesBack, [ReplayNext]_replay_vars, phase' = "done"
               PROVE  at' = original_ref' /\ tree' = Files(CommitOf(original_ref'))
    BY DEF GoesBack, CommitOf
  <2>1. CASE RestoreRef
    BY <2>1 DEF RestoreRef, Checkout, CheckoutFails
  <2>2. CASE UNCHANGED replay_vars
    BY <2>2 DEF replay_vars, GoesBack
  <2> QED
    BY <2>1, <2>2 DEF ReplayNext, StartReplay, CheckoutBase, Overlay, TestBase, CheckoutHead,
       TestHead, ReplayKilled, AssembleReplay, Checkout, CheckoutFails
<1> QED
  BY <1>1, <1>2, PTL DEF ReplaySpec

-----------------------------------------------------------------------------
(* mutation_smoke.py                                                       *)

Backed == {"write", "test", "restore"}

\* A text mutated in at most n places.
AtMost(text, n) == IsFiniteSet(text.flips) /\ Cardinality(text.flips) <= n

\* What run has read of the current file is what kills and edits left in it.
CopiesAreSaved ==
    /\ step \in {"read"} \union Backed => AtMost(source, kills)
    /\ step \in Backed => AtMost(original, kills)

CopiesAreRecent ==
    /\ \A f \in File : disk[f].edit <= edits
    /\ step = "read" => source.edit <= disk[FileOf[Now]].edit
    /\ step \in Backed => source.edit <= original.edit /\ original.edit <= edits

FilesAreSaved ==
    \A f \in File : AtMost(disk[f], kills + (IF Mutated /\ f = FileOf[Now] THEN 1 ELSE 0))

IInv == TypeOK /\ CopiesAreSaved /\ CopiesAreRecent /\ FilesAreSaved

LEMMA CleanType == Clean \in Content
BY MutationBounds DEF Clean, Content

LEMMA AnySiteType == AnySite \in Site
BY TargetsAssumption DEF AnySite

LEMMA NowType == ASSUME TypeOK, todo # <<>> PROVE Now \in Target /\ FileOf[Now] \in File
BY TargetsAssumption DEF TypeOK, Now

LEMMA MutantsAreSites ==
    ASSUME NEW text, NEW t \in Target PROVE Mutants(text, t) \subseteq Site
<1>1. SitesOf[t] \in Seq(Site)
  BY TargetsAssumption
<1>2. cap_mutants(generate_mutants(text, t)) \subseteq DOMAIN SitesOf[t]
  BY DEF cap_mutants, generate_mutants
<1> QED
  BY <1>1, <1>2 DEF Mutants

LEMMA MutatedType ==
    ASSUME NEW text \in Content, NEW s \in Site
    PROVE  mutated(text, s) \in Content /\ mutated(text, s).edit = text.edit
BY DEF mutated, Content

\* Flipping one place mutates a text in at most one place more.
LEMMA OneMore ==
    ASSUME NEW text \in Content, NEW s \in Site, NEW n \in Nat, AtMost(text, n)
    PROVE  AtMost(mutated(text, s), n + 1)
<1>1. CASE s \in text.flips
  <2>1. mutated(text, s).flips = text.flips \ {s}
    BY <1>1 DEF mutated, Content
  <2>2. IsFiniteSet(text.flips \ {s}) /\ Cardinality(text.flips \ {s}) = Cardinality(text.flips) - 1
    BY <1>1, FS_RemoveElement DEF AtMost
  <2>3. Cardinality(text.flips) \in Nat
    BY FS_CardinalityType DEF AtMost
  <2> QED
    BY <2>1, <2>2, <2>3 DEF AtMost
<1>2. CASE s \notin text.flips
  <2>1. mutated(text, s).flips = text.flips \union {s}
    BY <1>2 DEF mutated, Content
  <2>2. IsFiniteSet(text.flips \union {s}) /\ Cardinality(text.flips \union {s}) = Cardinality(text.flips) + 1
    BY <1>2, FS_AddElement DEF AtMost
  <2>3. Cardinality(text.flips) \in Nat
    BY FS_CardinalityType DEF AtMost
  <2> QED
    BY <2>1, <2>2, <2>3 DEF AtMost
<1> QED
  BY <1>1, <1>2

\* A bound on the places may be raised.
LEMMA MoreAllowed ==
    ASSUME NEW text, NEW m \in Nat, NEW n \in Nat, m <= n, AtMost(text, m)
    PROVE  AtMost(text, n)
<1>1. Cardinality(text.flips) \in Nat
  BY FS_CardinalityType DEF AtMost
<1> QED
  BY <1>1 DEF AtMost

LEMMA SavedType ==
    ASSUME NEW text \in Content, NEW n \in 0..MaxEdits
    PROVE  saved(text, n) \in Content /\ saved(text, n).edit = n
           /\ saved(text, n).flips = text.flips
BY DEF saved, Content

LEMMA NoResultsType == NoResults \in [Target -> [Site -> Status]]
BY DEF NoResults, Status

LEMMA TypeInit == Init => TypeOK
<1> SUFFICES ASSUME Init PROVE TypeOK
  OBVIOUS
<1>1. source \in Content /\ original \in Content /\ disk \in [File -> Content]
  BY CleanType DEF Init
<1>2. todo \in Seq(Target) /\ queue \subseteq Site /\ site \in Site
  BY AnySiteType DEF Init
<1>3. results \in [Target -> [Site -> Status]]
  BY NoResultsType DEF Init
<1>4. step = "idle" /\ outcome = "none" /\ decision = "none"
  BY DEF Init
<1>5. edits \in 0..MaxEdits /\ kills \in 0..MaxKills /\ runs \in 0..MaxRuns
  BY MutationBounds DEF Init
<1> QED
  BY <1>1, <1>2, <1>3, <1>4, <1>5 DEF TypeOK, Outcome

LEMMA IInvInit == Init => IInv
<1> SUFFICES ASSUME Init PROVE IInv
  OBVIOUS
<1>1. TypeOK
  BY TypeInit
<1>2. step = "idle" /\ kills = 0 /\ edits = 0 /\ \A f \in File : disk[f] = Clean
  BY DEF Init
<1>3. AtMost(Clean, 0) /\ Clean.edit = 0
  BY FS_EmptySet DEF Clean, AtMost
<1>4. CopiesAreSaved /\ CopiesAreRecent
  BY <1>2, <1>3 DEF CopiesAreSaved, CopiesAreRecent, Backed
<1>5. FilesAreSaved
  BY <1>2, <1>3 DEF FilesAreSaved, Mutated
<1> QED
  BY <1>1, <1>4, <1>5 DEF IInv

-----------------------------------------------------------------------------

LEMMA ForgetType ==
    ASSUME Forget
    PROVE  /\ todo' \in Seq(Target) /\ queue' \subseteq Site /\ site' \in Site
           /\ source' \in Content /\ original' \in Content /\ outcome' \in Outcome
BY CleanType, AnySiteType DEF Forget, Outcome

LEMMA VerdictType == ASSUME NEW o PROVE verdict(o) \in Status
BY DEF verdict, Status

LEMMA TypeNext == TypeOK /\ [Next]_vars => TypeOK'
<1> SUFFICES ASSUME TypeOK, [Next]_vars PROVE TypeOK'
  OBVIOUS
<1> USE DEF TypeOK
<1>1. CASE Start
  <2>1. Targets \in Seq(Target) /\ results' \in [Target -> [Site -> Status]]
    BY <1>1, TargetsAssumption, NoResultsType DEF Start
  <2>2. runs' \in 0..MaxRuns
    BY <1>1, MutationBounds DEF Start, Idle
  <2> QED
    BY <1>1, <2>1, <2>2 DEF Start
<1>2. CASE ReadText
  <2>1. Now \in Target /\ FileOf[Now] \in File /\ Tail(todo) \in Seq(Target)
    BY <1>2, NowType DEF ReadText
  <2>2. disk[FileOf[Now]] \in Content
    BY <2>1
  <2>3. CASE Now \in Gone
    BY <1>2, <2>1, <2>3 DEF ReadText
  <2>4. CASE Now \notin Gone
    BY <1>2, <2>2, <2>4 DEF ReadText
  <2> QED
    BY <2>3, <2>4
<1>3. CASE ReadBytes
  <2>1. todo # <<>> /\ Now \in Target /\ disk[FileOf[Now]] \in Content
    BY <1>3, NowType DEF ReadBytes
  <2>2. queue' \subseteq Site
    BY <1>3, <2>1, MutantsAreSites DEF ReadBytes
  <2> QED
    BY <1>3, <2>1, <2>2 DEF ReadBytes
<1>4. CASE Write
  <2>1. todo # <<>> /\ FileOf[Now] \in File /\ site' \in Site /\ queue' \subseteq Site
    BY <1>4, NowType DEF Write
  <2>2. CASE step' = "test" /\ UNCHANGED outcome
             /\ disk' = [disk EXCEPT ![FileOf[Now]] = mutated(source, site')]
    <3>1. mutated(source, site') \in Content
      BY <2>1, MutatedType
    <3>2. disk' \in [File -> Content]
      BY <2>2, <3>1
    <3> QED
      BY <1>4, <2>1, <2>2, <3>2 DEF Write
  <2>3. CASE step' = "restore" /\ outcome' = "raised" /\ UNCHANGED disk
    BY <1>4, <2>1, <2>3 DEF Write, Outcome
  <2> QED
    BY <1>4, <2>2, <2>3 DEF Write
<1>5. CASE NextTarget
  <2>1. todo # <<>> /\ Tail(todo) \in Seq(Target)
    BY <1>5 DEF NextTarget
  <2> QED
    BY <1>5, <2>1 DEF NextTarget
<1>6. CASE RunTests
  BY <1>6 DEF RunTests
<1>7. CASE Restore
  <2>1. todo # <<>> /\ Now \in Target /\ FileOf[Now] \in File
    BY <1>7, NowType DEF Restore
  <2>2. disk' \in [File -> Content]
    BY <1>7, <2>1 DEF Restore
  <2>3. CASE outcome = "raised"
    BY <1>7, <2>2, <2>3, ForgetType, NoResultsType DEF Restore, Abort
  <2>4. CASE outcome # "raised"
    <3> DEFINE row == [results[Now] EXCEPT ![site] = verdict(outcome)]
    <3>0. row \in [Site -> Status]
      BY <2>1, VerdictType
    <3>1. results' \in [Target -> [Site -> Status]]
      BY <1>7, <2>1, <2>4, <3>0 DEF Restore
    <3> QED
      BY <1>7, <2>1, <2>2, <2>4, <3>1 DEF Restore
  <2> QED
    BY <2>3, <2>4
<1>8. CASE Report
  BY <1>8, ForgetType DEF Report, build_report
<1>9. CASE Assemble
  <2>1. results' \in [Target -> [Site -> Status]]
    BY <1>9 DEF Assemble, Status
  <2>2. runs' \in 0..MaxRuns
    BY <1>9, MutationBounds DEF Assemble, Idle
  <2> QED
    BY <1>9, <2>1, <2>2 DEF Assemble, build_report
<1>10. CASE Edit
  <2>1. edits' \in 0..MaxEdits
    BY <1>10, MutationBounds DEF Edit
  <2>2. disk' \in [File -> Content]
    <3>1. PICK f \in File : disk' = [disk EXCEPT ![f] = saved(disk[f], edits')]
      BY <1>10 DEF Edit
    <3> QED
      BY <2>1, <3>1, SavedType
  <2> QED
    BY <1>10, <2>1, <2>2 DEF Edit, run_vars
<1>11. CASE Kill
  <2>1. kills' \in 0..MaxKills
    BY <1>11, MutationBounds DEF Kill
  <2> QED
    BY <1>11, <2>1, ForgetType, NoResultsType DEF Kill, Abort
<1>12. CASE UNCHANGED vars
  BY <1>12 DEF vars, run_vars
<1> QED
  BY <1>1, <1>2, <1>3, <1>4, <1>5, <1>6, <1>7, <1>8, <1>9, <1>10, <1>11, <1>12 DEF Next

\* mutation_smoke's state keeps its type.
THEOREM TypeCorrect == Spec => []TypeOK
<1>1. Init => TypeOK
  BY TypeInit
<1>2. TypeOK /\ [Next]_vars => TypeOK'
  BY TypeNext
<1> QED
  BY <1>1, <1>2, PTL DEF Spec

-----------------------------------------------------------------------------

\* Out of the steps that mutate, every file is what kills and edits left.
LEMMA AtRest ==
    ASSUME IInv, ~Mutated, NEW f \in File PROVE AtMost(disk[f], kills)
<1>1. AtMost(disk[f], kills + 0)
  BY Zenon DEF IInv, FilesAreSaved
<1>2. kills + 0 = kills
  BY DEF IInv, TypeOK
<1> QED
  BY <1>1, <1>2

LEMMA FilesType == ASSUME TypeOK, NEW f \in File PROVE disk[f] \in Content
BY DEF TypeOK

LEMMA OneUp ==
    ASSUME NEW n \in Nat PROVE n <= n + 1 /\ n + 1 \in Nat /\ n + 0 = n
OBVIOUS

\* At a step that leaves no file mutated, it is enough to bound each file.
LEMMA StaysAtRest ==
    ASSUME TypeOK', \A f \in File : AtMost(disk'[f], kills') PROVE FilesAreSaved'
<1> SUFFICES ASSUME NEW f \in File
             PROVE  AtMost(disk'[f], kills' + (IF Mutated' /\ f = FileOf[Now'] THEN 1 ELSE 0))
  BY DEF FilesAreSaved
<1>1. kills' \in Nat
  BY MutationBounds DEF TypeOK
<1>0. kills' <= kills' + 1 /\ kills' + 1 \in Nat /\ kills' + 0 = kills'
  BY <1>1, OneUp
<1>2. CASE Mutated' /\ f = FileOf[Now']
  <2>1. AtMost(disk'[f], kills' + 1)
    BY <1>0, <1>1, MoreAllowed
  <2> QED
    BY <1>2, <2>1
<1>3. CASE ~(Mutated' /\ f = FileOf[Now'])
  BY <1>0, <1>3
<1> QED
  BY <1>2, <1>3

LEMMA SavedNext == IInv /\ [Next]_vars => CopiesAreSaved' /\ FilesAreSaved'
<1> SUFFICES ASSUME IInv, [Next]_vars PROVE CopiesAreSaved' /\ FilesAreSaved'
  OBVIOUS
<1>0. TypeOK /\ TypeOK' /\ kills \in Nat
  BY TypeNext, MutationBounds DEF IInv, TypeOK
<1>a. ASSUME step' \notin {"read"} \union Backed PROVE CopiesAreSaved'
  BY <1>a DEF CopiesAreSaved, Backed
<1>1. CASE Start
  BY <1>0, <1>1, <1>a, AtRest, StaysAtRest DEF Start, Idle, Mutated, Backed
<1>2. CASE ReadText
  <2>1. FilesAreSaved'
    BY <1>0, <1>2, AtRest, StaysAtRest DEF ReadText, Mutated
  <2>2. CASE Now \in Gone
    BY <1>2, <1>a, <2>1, <2>2 DEF ReadText, Backed
  <2>3. CASE Now \notin Gone
    <3>1. step' = "read" /\ source' = disk[FileOf[Now]] /\ FileOf[Now] \in File
      BY <1>0, <1>2, <2>3, NowType DEF ReadText
    <3>2. AtMost(source', kills')
      BY <1>2, <3>1, AtRest DEF ReadText, Mutated
    <3> QED
      BY <2>1, <3>1, <3>2 DEF CopiesAreSaved, Backed
  <2> QED
    BY <2>2, <2>3
<1>3. CASE ReadBytes
  <2>1. FilesAreSaved'
    BY <1>0, <1>3, AtRest, StaysAtRest DEF ReadBytes, Mutated
  <2>2. FileOf[Now] \in File /\ original' = disk[FileOf[Now]]
    BY <1>0, <1>3, NowType DEF ReadBytes, TypeOK
  <2>3. AtMost(original', kills')
    BY <1>3, <2>2, AtRest DEF ReadBytes, Mutated
  <2>4. AtMost(source', kills')
    BY <1>3 DEF ReadBytes, IInv, CopiesAreSaved
  <2> QED
    BY <2>1, <2>3, <2>4 DEF CopiesAreSaved
<1>4. CASE Write
  <2>1. FileOf[Now] \in File /\ site' \in Site /\ Now' = Now /\ kills' = kills
    BY <1>0, <1>4, NowType DEF Write, TypeOK, Now
  <2>2. CopiesAreSaved'
    BY <1>4 DEF Write, IInv, CopiesAreSaved, Backed
  <2>3. CASE disk' = [disk EXCEPT ![FileOf[Now]] = mutated(source, site')] /\ step' = "test"
    <3>1. AtMost(mutated(source, site'), kills + 1)
      BY <1>0, <1>4, <2>1, OneMore DEF Write, IInv, CopiesAreSaved, Backed, TypeOK
    <3>2. \A f \in File : disk'[f] = IF f = FileOf[Now] THEN mutated(source, site') ELSE disk[f]
      BY <1>0, <2>3 DEF TypeOK
    <3>3. \A f \in File \ {FileOf[Now]} : AtMost(disk[f], kills)
      BY <1>4, AtRest DEF Write, Mutated
    <3> SUFFICES ASSUME NEW f \in File
                 PROVE  AtMost(disk'[f], kills' + (IF Mutated' /\ f = FileOf[Now'] THEN 1 ELSE 0))
      BY <2>2 DEF FilesAreSaved
    <3>4. CASE f = FileOf[Now]
      BY <2>1, <2>3, <3>1, <3>2, <3>4 DEF Mutated
    <3>5. CASE f # FileOf[Now]
      BY <1>0, <2>1, <3>2, <3>3, <3>5, kills + 0 = kills
    <3> QED
      BY <3>4, <3>5
  <2>4. CASE UNCHANGED disk
    BY <1>0, <1>4, <2>2, <2>4, AtRest, StaysAtRest DEF Write, Mutated
  <2> QED
    BY <1>4, <2>3, <2>4 DEF Write
<1>5. CASE NextTarget
  BY <1>0, <1>5, <1>a, AtRest, StaysAtRest DEF NextTarget, Mutated, Backed
<1>6. CASE RunTests
  <2>1. Mutated /\ Mutated' /\ Now' = Now /\ UNCHANGED <<disk, kills>>
    BY <1>6 DEF RunTests, Mutated, Now
  <2>2. FilesAreSaved'
    BY <2>1 DEF IInv, FilesAreSaved
  <2>3. CopiesAreSaved'
    BY <1>6 DEF RunTests, IInv, CopiesAreSaved, Backed
  <2> QED
    BY <2>2, <2>3
<1>7. CASE Restore
  <2>1. FileOf[Now] \in File /\ kills' = kills /\ AtMost(original, kills)
    BY <1>0, <1>7, NowType DEF Restore, TypeOK, IInv, CopiesAreSaved, Backed
  <2>2. \A f \in File : disk'[f] = IF f = FileOf[Now] THEN original ELSE disk[f]
    BY <1>0, <1>7 DEF Restore, TypeOK
  <2>3. ASSUME NEW f \in File, f # FileOf[Now] PROVE AtMost(disk[f], kills)
    BY <1>0, <2>3, kills + 0 = kills DEF IInv, FilesAreSaved
  <2>4. FilesAreSaved'
    BY <1>0, <2>1, <2>2, <2>3, StaysAtRest
  <2>5. CopiesAreSaved'
    BY <1>7, <1>a DEF Restore, Abort, IInv, CopiesAreSaved, Backed
  <2> QED
    BY <2>4, <2>5
<1>8. CASE Report
  BY <1>0, <1>8, <1>a, AtRest, StaysAtRest DEF Report, Mutated, Backed
<1>9. CASE Assemble
  BY <1>0, <1>9, <1>a, AtRest, StaysAtRest DEF Assemble, Idle, Mutated, Backed
<1>10. CASE Edit
  <2>1. UNCHANGED run_vars /\ kills' = kills /\ edits' \in 0..MaxEdits
    BY <1>0, <1>10 DEF Edit, TypeOK
  <2>2. PICK g \in File : disk' = [disk EXCEPT ![g] = saved(disk[g], edits')]
    BY <1>10 DEF Edit
  <2>3. ASSUME NEW f \in File PROVE disk'[f].flips = disk[f].flips
    BY <1>0, <2>1, <2>2, SavedType, FilesType DEF TypeOK
  <2>4. FilesAreSaved'
    BY <2>1, <2>3 DEF IInv, FilesAreSaved, AtMost, Mutated, Now, run_vars
  <2>5. CopiesAreSaved'
    BY <2>1 DEF IInv, CopiesAreSaved, run_vars
  <2> QED
    BY <2>4, <2>5
<1>11. CASE Kill
  <2>1. kills' = kills + 1 /\ disk' = disk
    BY <1>11 DEF Kill
  <2>2. ASSUME NEW f \in File PROVE AtMost(disk'[f], kills')
    <3> DEFINE more == IF Mutated /\ f = FileOf[Now] THEN 1 ELSE 0
    <3>1. AtMost(disk[f], kills + more)
      BY DEF IInv, FilesAreSaved
    <3>2. kills + more \in Nat /\ kills + 1 \in Nat /\ kills + more <= kills + 1
      BY <1>0
    <3> HIDE DEF more
    <3> QED
      BY <2>1, <3>1, <3>2, MoreAllowed
  <2> QED
    BY <1>0, <1>11, <1>a, <2>2, StaysAtRest DEF Kill, Abort, Backed
<1>12. CASE UNCHANGED vars
  BY <1>12 DEF vars, run_vars, IInv, CopiesAreSaved, FilesAreSaved, Mutated, Now
<1> QED
  BY <1>1, <1>2, <1>3, <1>4, <1>5, <1>6, <1>7, <1>8, <1>9, <1>10, <1>11, <1>12 DEF Next

LEMMA RecentNext == IInv /\ [Next]_vars => CopiesAreRecent'
<1> SUFFICES ASSUME IInv, [Next]_vars PROVE CopiesAreRecent'
  OBVIOUS
<1> USE DEF IInv
<1>0. TypeOK /\ TypeOK' /\ edits \in Nat
  BY TypeNext, MutationBounds DEF TypeOK
<1>a. \A text \in Content : text.edit \in Nat
  BY DEF Content
<1>b. ASSUME UNCHANGED <<disk, edits>>, step' \notin {"read"} \union Backed
      PROVE  CopiesAreRecent'
  BY <1>b DEF CopiesAreRecent, Backed
<1>1. CASE Start
  BY <1>1, <1>b DEF Start, Backed
<1>2. CASE ReadText
  <2>1. CASE Now \in Gone
    BY <1>2, <1>b, <2>1 DEF ReadText, Backed
  <2>2. CASE Now \notin Gone
    <3>1. step' = "read" /\ source' = disk[FileOf[Now]] /\ Now' = Now /\ disk' = disk
      BY <1>2, <2>2 DEF ReadText, Now
    <3>2. source'.edit \in Nat
      BY <1>0, <1>a DEF TypeOK
    <3>3. source'.edit <= disk'[FileOf[Now']].edit
      BY <3>1, <3>2
    <3> QED
      BY <1>2, <3>1, <3>3 DEF ReadText, CopiesAreRecent, Backed
  <2> QED
    BY <2>1, <2>2
<1>3. CASE ReadBytes
  <2>1. FileOf[Now] \in File /\ original' = disk[FileOf[Now]]
    BY <1>0, <1>3, NowType DEF ReadBytes, TypeOK
  <2>2. source.edit <= original'.edit /\ original'.edit <= edits
    BY <1>3, <2>1 DEF ReadBytes, CopiesAreRecent
  <2> QED
    BY <1>3, <2>2 DEF ReadBytes, CopiesAreRecent, Backed
<1>4. CASE Write
  <2>1. FileOf[Now] \in File /\ site' \in Site /\ source \in Content /\ original \in Content
    BY <1>0, <1>4, NowType DEF Write, TypeOK
  <2>2. source.edit <= original.edit /\ original' = original /\ source' = source
    BY <1>4 DEF Write, CopiesAreRecent, Backed
  <2>3. CASE disk' = [disk EXCEPT ![FileOf[Now]] = mutated(source, site')] /\ step' = "test"
    <3>1. mutated(source, site').edit = source.edit
      BY <2>1, MutatedType
    <3>2. source.edit <= edits
      BY <1>0, <1>4, <1>a, <2>1, <2>2 DEF Write, CopiesAreRecent, Backed
    <3>3. \A f \in File : disk'[f].edit <= edits
      BY <1>0, <2>1, <2>3, <3>1, <3>2 DEF TypeOK, CopiesAreRecent
    <3> QED
      BY <1>4, <2>2, <2>3, <3>3 DEF Write, CopiesAreRecent, Backed
  <2>4. CASE UNCHANGED disk /\ step' = "restore"
    BY <1>4, <2>2, <2>4 DEF Write, CopiesAreRecent, Backed
  <2> QED
    BY <1>4, <2>3, <2>4 DEF Write
<1>5. CASE NextTarget
  BY <1>5, <1>b DEF NextTarget, Backed
<1>6. CASE RunTests
  BY <1>6 DEF RunTests, CopiesAreRecent, Backed
<1>7. CASE Restore
  <2>1. FileOf[Now] \in File /\ original.edit <= edits
    BY <1>0, <1>7, NowType DEF Restore, TypeOK, CopiesAreRecent, Backed
  <2>2. edits' = edits /\ \A f \in File : disk'[f].edit <= edits'
    BY <1>0, <1>7, <2>1 DEF Restore, TypeOK, CopiesAreRecent
  <2>3. step' = "write" => source' = source /\ original' = original
    BY <1>7 DEF Restore, Abort
  <2>4. step' \in {"write", "aborted"} /\ source.edit <= original.edit
    BY <1>7 DEF Restore, Abort, CopiesAreRecent, Backed
  <2> QED
    BY <2>1, <2>2, <2>3, <2>4 DEF CopiesAreRecent, Backed
<1>8. CASE Report
  BY <1>8, <1>b DEF Report, Backed
<1>9. CASE Assemble
  BY <1>9, <1>b DEF Assemble, Backed
<1>10. CASE Edit
  <2>1. UNCHANGED run_vars /\ edits' = edits + 1 /\ edits' \in 0..MaxEdits
    BY <1>0, <1>10 DEF Edit, TypeOK
  <2>2. PICK g \in File : disk' = [disk EXCEPT ![g] = saved(disk[g], edits')]
    BY <1>10 DEF Edit
  <2>3. ASSUME NEW f \in File
        PROVE  disk'[f].edit = (IF f = g THEN edits' ELSE disk[f].edit)
    BY <1>0, <2>1, <2>2, SavedType, FilesType DEF TypeOK
  <2>4. ASSUME NEW f \in File PROVE disk[f].edit \in Nat /\ disk[f].edit <= edits
    BY <1>0, <1>a, FilesType DEF CopiesAreRecent
  <2>5. ASSUME NEW f \in File PROVE disk[f].edit <= disk'[f].edit /\ disk'[f].edit <= edits'
    BY <1>0, <2>1, <2>3, <2>4
  <2>6. step = "read" => source'.edit <= disk'[FileOf[Now']].edit
    <3>1. SUFFICES ASSUME step = "read" PROVE source'.edit <= disk'[FileOf[Now']].edit
      OBVIOUS
    <3>2. FileOf[Now] \in File /\ Now' = Now /\ source' = source
      BY <1>0, <2>1, <3>1, NowType DEF TypeOK, Now, run_vars
    <3>3. source.edit \in Nat /\ source.edit <= disk[FileOf[Now]].edit
      BY <1>0, <1>a, <3>1 DEF TypeOK, CopiesAreRecent
    <3>4. disk'[FileOf[Now]].edit \in Nat
      BY <1>0, <1>a, <3>2 DEF TypeOK
    <3> QED
      BY <2>4, <2>5, <3>2, <3>3, <3>4
  <2>7. original.edit <= edits => original.edit <= edits'
    BY <1>0, <1>a, <2>1 DEF TypeOK
  <2> QED
    BY <2>1, <2>5, <2>6, <2>7 DEF CopiesAreRecent, run_vars, Backed
<1>11. CASE Kill
  BY <1>11, <1>b DEF Kill, Abort, Backed
<1>12. CASE UNCHANGED vars
  BY <1>12 DEF vars, run_vars, CopiesAreRecent, Now
<1> QED
  BY <1>1, <1>2, <1>3, <1>4, <1>5, <1>6, <1>7, <1>8, <1>9, <1>10, <1>11, <1>12 DEF Next

LEMMA IInvNext == IInv /\ [Next]_vars => IInv'
BY TypeNext, SavedNext, RecentNext DEF IInv

\* run: "a mutated file is never left on disk, even if run_tests_fn raises":
\* a file is mutated in more places than kills left only while tests run.
THEOREM FilesArePutBack == Spec => []AtMostOneMutant
<1>1. Init => IInv
  BY IInvInit
<1>2. IInv /\ [Next]_vars => IInv'
  BY IInvNext
<1>3. IInv => AtMostOneMutant
  BY DEF IInv, FilesAreSaved, AtMost, AtMostOneMutant
<1> QED
  BY <1>1, <1>2, <1>3, PTL DEF Spec

\* The only step that takes a file back to an older edit is one of a run that
\* read it before the edit it loses was saved.
LEMMA LostEdits ==
    ASSUME IInv, [Next]_vars, NEW f \in File, disk'[f].edit < disk[f].edit
    PROVE  Running /\ f = FileOf[Now] /\ step # "next" /\ disk[f].edit > source.edit
<1>0. TypeOK /\ TypeOK'
  BY TypeNext DEF IInv
<1>1. disk[f].edit \in Nat /\ disk'[f].edit \in Nat /\ disk' # disk
      /\ source.edit \in Nat /\ original.edit \in Nat
  BY <1>0 DEF TypeOK, Content
<1>2. CASE Write
  <2>1. disk' = [disk EXCEPT ![FileOf[Now]] = mutated(source, site')] /\ step = "write"
    BY <1>1, <1>2 DEF Write
  <2>2. mutated(source, site').edit = source.edit
    BY <1>0, <1>2, MutatedType DEF Write, TypeOK
  <2>3. f = FileOf[Now]
    BY <1>0, <1>1, <2>1 DEF TypeOK
  <2>4. disk'[f].edit = source.edit
    BY <1>0, <2>1, <2>2, <2>3 DEF TypeOK
  <2> QED
    BY <1>1, <2>1, <2>3, <2>4 DEF Running
<1>3. CASE Restore
  <2>1. disk' = [disk EXCEPT ![FileOf[Now]] = original] /\ step = "restore"
    BY <1>3 DEF Restore
  <2>2. f = FileOf[Now]
    BY <1>0, <1>1, <2>1 DEF TypeOK
  <2>3. disk'[f].edit = original.edit
    BY <1>0, <2>1, <2>2 DEF TypeOK
  <2>4. source.edit <= original.edit
    BY <2>1 DEF IInv, CopiesAreRecent, Backed
  <2> QED
    BY <1>1, <2>1, <2>2, <2>3, <2>4 DEF Running
<1>4. CASE Edit
  <2>1. edits' = edits + 1 /\ edits' \in 0..MaxEdits /\ edits \in Nat
    BY <1>0, <1>4, MutationBounds DEF Edit, TypeOK
  <2>2. PICK g \in File : disk' = [disk EXCEPT ![g] = saved(disk[g], edits')]
    BY <1>4 DEF Edit
  <2>3. disk'[f].edit = (IF f = g THEN edits' ELSE disk[f].edit)
    BY <1>0, <2>1, <2>2, SavedType, FilesType DEF TypeOK
  <2>4. disk[f].edit <= edits
    BY DEF IInv, CopiesAreRecent
  <2> QED
    BY <1>1, <2>1, <2>3, <2>4
<1> QED
  BY <1>1, <1>2, <1>3, <1>4
     DEF Next, vars, Start, ReadText, ReadBytes, NextTarget, RunTests, Report, Assemble, Kill

\* An edit saved before a target's turn came is not undone by the run.
THEOREM EarlierEditsSurvive == Spec => OldEditsSurvive
<1>1. Init => IInv
  BY IInvInit
<1>2. IInv /\ [Next]_vars => IInv'
  BY IInvNext
<1>3. IInv /\ [Next]_vars =>
        [\A f \in File : disk'[f].edit < disk[f].edit =>
            Running /\ f = FileOf[Now] /\ step # "next" /\ disk[f].edit > source.edit]_vars
  BY LostEdits
<1> QED
  BY <1>1, <1>2, <1>3, PTL DEF Spec, OldEditsSurvive

-----------------------------------------------------------------------------
(* What is reported.                                                       *)

Tried(t, s) == \E x \in tested : x[1] = t /\ x[2] = s
Passed(t, s) == \E x \in tested : x[1] = t /\ x[2] = s /\ x[4] = "passed"

TestedType == \A x \in tested : x[1] \in Target /\ x[2] \in Site

TodoOnce == \A i, j \in DOMAIN todo : todo[i] = todo[j] => i = j

\* No mutant is tried twice.
AheadIsUntried ==
    /\ Running => \A i \in 2..Len(todo), s \in Site : ~Tried(todo[i], s)
    /\ step \in {"next", "read"} /\ todo # <<>> => \A s \in Site : ~Tried(Now, s)
    /\ step \in Backed => \A s \in queue : ~Tried(Now, s)
    /\ step = "test" => ~Tried(Now, site)
    /\ Mutated => site \notin queue

\* A mutant's result is the outcome of its tests, but for the one whose tests
\* are over and whose file is about to be put back.
ResultsAreOutcomes ==
    /\ Running \/ (step = "reported" /\ tested # {}) =>
          \A t \in Target, s \in Site :
              \/ step = "restore" /\ t = Now /\ s = site
              \/ results[t][s] = "survived" <=> Passed(t, s)
    /\ step = "restore" /\ outcome # "raised" => (outcome = "passed" <=> Passed(Now, site))

DecisionIsReport == step = "reported" => decision = build_report(results)

FInv == TestedType /\ TodoOnce /\ AheadIsUntried /\ ResultsAreOutcomes /\ DecisionIsReport

LEMMA TriedNext ==
    ASSUME NEW t0, NEW s0, NEW c, NEW o, tested' = tested \union {<<t0, s0, c, o>>}
    PROVE  /\ \A t, s : Tried(t, s)' <=> Tried(t, s) \/ (t = t0 /\ s = s0)
           /\ \A t, s : Passed(t, s)' <=> Passed(t, s) \/ (t = t0 /\ s = s0 /\ o = "passed")
<1> DEFINE new == <<t0, s0, c, o>>
<1>1. new[1] = t0 /\ new[2] = s0 /\ new[4] = o
  OBVIOUS
<1>2. \A x : x \in tested' <=> x \in tested \/ x = new
  OBVIOUS
<1> HIDE DEF new
<1>3. \A t, s : Tried(t, s)' <=> Tried(t, s) \/ (t = t0 /\ s = s0)
  BY <1>1, <1>2, Zenon DEF Tried
<1>4. \A t, s : Passed(t, s)' <=> Passed(t, s) \/ (t = t0 /\ s = s0 /\ o = "passed")
  BY <1>1, <1>2, Zenon DEF Passed
<1> QED
  BY <1>3, <1>4

LEMMA PassedIsTried == \A t, s : Passed(t, s) => Tried(t, s)
BY DEF Tried, Passed

LEMMA NothingTried ==
    ASSUME tested = {} PROVE \A t, s : ~Tried(t, s) /\ ~Passed(t, s)
BY DEF Tried, Passed

\* A suffix of a list without repetition has none.
LEMMA TailOnce ==
    ASSUME TypeOK, TodoOnce, todo # <<>>
    PROVE  /\ Len(todo) \in Nat \ {0} /\ Len(Tail(todo)) = Len(todo) - 1
           /\ \A i \in 1..Len(Tail(todo)) : Tail(todo)[i] = todo[i + 1]
           /\ \A i, j \in DOMAIN Tail(todo) : Tail(todo)[i] = Tail(todo)[j] => i = j
           /\ \A i \in 2..Len(todo) : todo[i] # Now
<1>1. todo \in Seq(Target) /\ DOMAIN todo = 1..Len(todo) /\ Len(todo) \in Nat \ {0}
  BY DEF TypeOK
<1>2. Len(Tail(todo)) = Len(todo) - 1 /\ DOMAIN Tail(todo) = 1..(Len(todo) - 1)
      /\ \A i \in 1..(Len(todo) - 1) : Tail(todo)[i] = todo[i + 1]
  BY <1>1
<1>3. \A i, j \in DOMAIN Tail(todo) : Tail(todo)[i] = Tail(todo)[j] => i = j
  BY <1>1, <1>2 DEF TodoOnce
<1>4. \A i \in 2..Len(todo) : todo[i] # Now
  BY <1>1 DEF TodoOnce, Now
<1> QED
  BY <1>1, <1>2, <1>3, <1>4

\* The next target's turn comes, and none of those ahead was tried.
LEMMA TurnPasses ==
    ASSUME TypeOK, FInv, Running, todo # <<>>, todo' = Tail(todo), step' = "next",
           UNCHANGED <<results, decision, tested>>, step # "restore"
    PROVE  FInv'
<1>1. \A t, s : (Tried(t, s)' <=> Tried(t, s)) /\ (Passed(t, s)' <=> Passed(t, s))
  BY DEF Tried, Passed
<1>2. Len(todo') = Len(todo) - 1 /\ Len(todo) \in Nat \ {0}
      /\ \A i \in 1..Len(todo') : todo'[i] = todo[i + 1]
  BY TailOnce DEF FInv
<1>3. TestedType' /\ TodoOnce' /\ DecisionIsReport'
  BY TailOnce DEF FInv, TestedType, TodoOnce, DecisionIsReport
<1>4. \A i \in 1..Len(todo'), s \in Site : ~Tried(todo'[i], s)
  BY <1>2 DEF FInv, AheadIsUntried
<1>5. AheadIsUntried'
  <2>1. (\A i \in 2..Len(todo), s \in Site : ~Tried(todo[i], s))'
    BY <1>1, <1>2, <1>4 DEF Tried
  <2>2. (todo # <<>> => \A s \in Site : ~Tried(Now, s))'
    <3>1. SUFFICES ASSUME todo' # <<>> PROVE (\A s \in Site : ~Tried(Now, s))'
      OBVIOUS
    <3>2. todo' \in Seq(Target)
      <4>1. todo \in Seq(Target)
        BY DEF TypeOK
      <4> QED
        BY <4>1
    <3>3. 1 \in 1..Len(todo') /\ Head(todo') = todo'[1]
      BY <3>1, <3>2
    <3>4. \A s \in Site : ~Tried(Head(todo'), s)
      BY <1>4, <3>3
    <3> QED
      BY <1>1, <3>4 DEF Now
  <2>3. (step = "next")'
    OBVIOUS
  <2> QED
    BY <2>1, <2>2, <2>3 DEF AheadIsUntried, Backed, Mutated
<1>6. ResultsAreOutcomes'
  BY <1>1 DEF FInv, ResultsAreOutcomes, Running
<1> QED
  BY <1>3, <1>5, <1>6 DEF FInv

\* A run that ended without a report has none of this to keep.
LEMMA GoneIsSafe ==
    ASSUME Abort PROVE FInv'
BY DEF Abort, Forget, FInv, TestedType, TodoOnce, AheadIsUntried, ResultsAreOutcomes,
       DecisionIsReport, Running, Mutated, Backed

\* Tests were run on a mutant of its own.
LEMMA TestsTell ==
    ASSUME TypeOK, FInv, RunTests PROVE FInv'
<1>0. todo # <<>> /\ Now \in Target /\ site \in Site /\ Now' = Now
  BY NowType DEF RunTests, TypeOK, Now
<1>1. /\ \A t, s : Tried(t, s)' <=> Tried(t, s) \/ (t = Now /\ s = site)
      /\ \A t, s : Passed(t, s)' <=> Passed(t, s) \/ (t = Now /\ s = site /\ outcome' = "passed")
  BY TriedNext DEF RunTests
<1>2. TestedType'
  <2>1. tested' = tested \union {<<Now, site, disk[FileOf[Now]], outcome'>>}
    BY DEF RunTests
  <2> QED
    BY <1>0, <2>1 DEF FInv, TestedType
<1>3. TodoOnce' /\ DecisionIsReport'
  BY DEF RunTests, FInv, TodoOnce, DecisionIsReport
<1>4. ~Passed(Now, site)
  BY PassedIsTried DEF RunTests, FInv, AheadIsUntried
<1>5. AheadIsUntried'
  <2>1. (\A i \in 2..Len(todo), s \in Site : ~Tried(todo[i], s))'
    BY <1>0, <1>1, TailOnce DEF RunTests, FInv, AheadIsUntried, Running
  <2>2. (\A s \in queue : ~Tried(Now, s))'
    BY <1>0, <1>1 DEF RunTests, FInv, AheadIsUntried, Backed, Mutated
  <2>3. (step = "restore" /\ site \notin queue)'
    BY DEF RunTests, FInv, AheadIsUntried, Mutated
  <2> QED
    BY <2>1, <2>2, <2>3 DEF AheadIsUntried
<1>6. ResultsAreOutcomes'
  <2>1. (step = "restore" /\ (outcome = "passed" <=> Passed(Now, site)))'
    BY <1>0, <1>1, <1>4 DEF RunTests
  <2>2. (\A t \in Target, s \in Site :
            (t = Now /\ s = site) \/ (results[t][s] = "survived" <=> Passed(t, s)))'
    BY <1>0, <1>1 DEF RunTests, FInv, ResultsAreOutcomes, Running
  <2> QED
    BY <2>1, <2>2 DEF ResultsAreOutcomes
<1> QED
  BY <1>2, <1>3, <1>5, <1>6 DEF FInv

\* Its result is what they told.
LEMMA RestoreTells ==
    ASSUME TypeOK, FInv, Restore PROVE FInv'
<1>1. CASE outcome = "raised"
  BY <1>1, GoneIsSafe DEF Restore
<1>2. CASE outcome # "raised"
  <2>0. todo # <<>> /\ Now \in Target /\ site \in Site /\ Now' = Now /\ step' = "write"
        /\ UNCHANGED <<tested, queue, site, todo, decision>>
    BY <1>2, NowType DEF Restore, TypeOK, Now
  <2>1. \A t, s : (Tried(t, s)' <=> Tried(t, s)) /\ (Passed(t, s)' <=> Passed(t, s))
    BY <2>0 DEF Tried, Passed
  <2>2. TestedType' /\ TodoOnce' /\ DecisionIsReport'
    BY <2>0 DEF FInv, TestedType, TodoOnce, DecisionIsReport
  <2>3. AheadIsUntried'
    BY <2>0, <2>1 DEF Restore, FInv, AheadIsUntried, Running, Mutated, Backed
  <2>4. \A t \in Target, s \in Site :
            results'[t][s] = IF t = Now /\ s = site THEN verdict(outcome) ELSE results[t][s]
    BY <1>2, <2>0 DEF Restore, TypeOK
  <2>5. verdict(outcome) = "survived" <=> Passed(Now, site)
    BY <1>2 DEF verdict, Restore, FInv, ResultsAreOutcomes
  <2>6. \A t \in Target, s \in Site :
            (t = Now /\ s = site) \/ (results[t][s] = "survived" <=> Passed(t, s))
    BY DEF Restore, FInv, ResultsAreOutcomes, Running
  <2>7. ResultsAreOutcomes'
    BY <2>0, <2>1, <2>4, <2>5, <2>6 DEF ResultsAreOutcomes
  <2> QED
    BY <2>2, <2>3, <2>7 DEF FInv
<1> QED
  BY <1>1, <1>2

LEMMA NextTells == TypeOK /\ FInv /\ [Next]_vars => FInv'
<1> SUFFICES ASSUME TypeOK, FInv, [Next]_vars PROVE FInv'
  OBVIOUS
<1>0. ASSUME UNCHANGED tested
      PROVE  \A t, s : (Tried(t, s)' <=> Tried(t, s)) /\ (Passed(t, s)' <=> Passed(t, s))
  BY <1>0 DEF Tried, Passed
<1>1. CASE Start
  <2>1. tested' = {} /\ todo' = Targets /\ step' = "next" /\ results' = NoResults
    BY <1>1 DEF Start
  <2>2. \A t, s : ~Tried(t, s)' /\ ~Passed(t, s)'
    BY <2>1 DEF Tried, Passed
  <2>3. TestedType' /\ TodoOnce' /\ DecisionIsReport'
    BY <2>1, TargetsAssumption DEF TestedType, TodoOnce, DecisionIsReport
  <2>4. AheadIsUntried'
    BY <2>1 DEF AheadIsUntried, Backed, Mutated, Tried
  <2>5. ResultsAreOutcomes'
    BY <2>1, <2>2 DEF ResultsAreOutcomes, NoResults
  <2> QED
    BY <2>3, <2>4, <2>5 DEF FInv
<1>2. CASE ReadText
  <2>1. CASE Now \in Gone
    BY <1>2, <2>1, TurnPasses DEF ReadText, Running
  <2>2. CASE Now \notin Gone
    <3>1. step = "next" /\ step' = "read" /\ todo # <<>>
          /\ UNCHANGED <<todo, tested, results, decision, queue, site, outcome>>
      BY <1>2, <2>2 DEF ReadText
    <3> QED
      BY <1>0, <3>1
         DEF FInv, TestedType, TodoOnce, AheadIsUntried, ResultsAreOutcomes,
             DecisionIsReport, Running, Mutated, Backed, Now
  <2> QED
    BY <2>1, <2>2
<1>3. CASE ReadBytes
  <2>1. step = "read" /\ step' = "write" /\ todo # <<>> /\ Now \in Target
        /\ UNCHANGED <<todo, tested, results, decision, site, outcome>>
    BY <1>3, NowType DEF ReadBytes, TypeOK
  <2>2. queue' \subseteq Site
    BY <1>3, <2>1, MutantsAreSites DEF ReadBytes
  <2>3. \A s \in queue' : ~Tried(Now, s)
    BY <2>1, <2>2 DEF FInv, AheadIsUntried
  <2>4. AheadIsUntried'
    BY <1>0, <2>1, <2>3 DEF FInv, AheadIsUntried, Running, Mutated, Backed, Now
  <2> QED
    BY <1>0, <2>1, <2>4
       DEF FInv, TestedType, TodoOnce, ResultsAreOutcomes, DecisionIsReport, Running, Now
<1>4. CASE Write
  <2>1. step = "write" /\ site' \in queue /\ queue' = queue \ {site'}
        /\ UNCHANGED <<todo, tested, results, decision>>
    BY <1>4 DEF Write
  <2>2. step' = "test" \/ (step' = "restore" /\ outcome' = "raised")
    BY <1>4 DEF Write
  <2>3. /\ \A i \in 2..Len(todo), s \in Site : ~Tried(todo[i], s)
        /\ \A s \in queue : ~Tried(Now, s)
    BY <2>1 DEF FInv, AheadIsUntried, Running, Backed
  <2>4. Now' = Now /\ site' \notin queue' /\ queue' \subseteq queue
    BY <2>1 DEF Now
  <2>5. AheadIsUntried'
    BY <1>0, <2>1, <2>2, <2>3, <2>4 DEF AheadIsUntried
  <2>6. ResultsAreOutcomes'
    BY <1>0, <2>1, <2>2 DEF FInv, ResultsAreOutcomes, Running
  <2>7. TestedType' /\ TodoOnce' /\ DecisionIsReport'
    BY <2>1, <2>2 DEF FInv, TestedType, TodoOnce, DecisionIsReport
  <2> QED
    BY <2>5, <2>6, <2>7 DEF FInv
<1>5. CASE NextTarget
  BY <1>5, TurnPasses DEF NextTarget, Running, TypeOK
<1>6. CASE RunTests
  BY <1>6, TestsTell
<1>7. CASE Restore
  BY <1>7, RestoreTells
<1>8. CASE Report
  <2>1. step = "next" /\ step' = "reported" /\ todo' = <<>> /\ decision' = build_report(results)
        /\ UNCHANGED <<tested, results>>
    BY <1>8 DEF Report, Forget
  <2> QED
    BY <1>0, <2>1
       DEF FInv, TestedType, TodoOnce, AheadIsUntried, ResultsAreOutcomes,
           DecisionIsReport, Running, Mutated, Backed
<1>9. CASE Assemble
  <2>1. step' = "reported" /\ tested' = {} /\ todo' = todo /\ decision' = build_report(results')
    BY <1>9 DEF Assemble
  <2> QED
    BY <2>1
       DEF FInv, TestedType, TodoOnce, AheadIsUntried, ResultsAreOutcomes,
           DecisionIsReport, Running, Mutated, Backed
<1>10. CASE Edit
  BY <1>0, <1>10
     DEF Edit, run_vars, FInv, TestedType, TodoOnce, AheadIsUntried, ResultsAreOutcomes,
         DecisionIsReport, Running, Mutated, Backed, Now
<1>11. CASE Kill
  BY <1>11, GoneIsSafe DEF Kill
<1>12. CASE UNCHANGED vars
  BY <1>0, <1>12
     DEF vars, run_vars, FInv, TestedType, TodoOnce, AheadIsUntried, ResultsAreOutcomes,
         DecisionIsReport, Running, Mutated, Backed, Now
<1> QED
  BY <1>1, <1>2, <1>3, <1>4, <1>5, <1>6, <1>7, <1>8, <1>9, <1>10, <1>11, <1>12 DEF Next

LEMMA ReportIsFound == TypeOK /\ FInv => SurvivorsAreFound
<1> SUFFICES ASSUME TypeOK, FInv, step = "reported", tested # {}
             PROVE  LET alive == {<<x[1], x[2]>> : x \in {y \in tested : y[4] = "passed"}}
                    IN  /\ \A t \in Target, s \in Site :
                              results[t][s] = "survived" <=> <<t, s>> \in alive
                        /\ decision = "block" <=> alive # {}
  BY DEF SurvivorsAreFound
<1> DEFINE alive == {<<x[1], x[2]>> : x \in {y \in tested : y[4] = "passed"}}
<1>1. \A t, s : <<t, s>> \in alive <=> Passed(t, s)
  BY DEF Passed
<1>2. \A t \in Target, s \in Site : results[t][s] = "survived" <=> Passed(t, s)
  BY DEF FInv, ResultsAreOutcomes
<1>3. \A p \in alive : \E t \in Target, s \in Site : Passed(t, s)
  BY DEF FInv, TestedType, Passed
<1>4. decision = "block" <=> \E t \in Target, s \in Site : Passed(t, s)
  BY <1>2 DEF FInv, DecisionIsReport, build_report
<1> HIDE DEF alive
<1>5. alive # {} <=> \E t \in Target, s \in Site : Passed(t, s)
  BY <1>1, <1>3
<1> QED
  BY <1>1, <1>2, <1>4, <1>5 DEF alive

\* A mutant is reported as survived if and only if its tests were run and
\* passed, and a finished run blocks if and only if there was one.
THEOREM SurvivorsAreReported == Spec => []SurvivorsAreFound
<1>1. Init => TypeOK /\ FInv
  <2>1. Init => FInv
    BY DEF Init, FInv, TestedType, TodoOnce, AheadIsUntried, ResultsAreOutcomes,
           DecisionIsReport, Running, Mutated, Backed
  <2> QED
    BY <2>1, TypeInit
<1>2. (TypeOK /\ FInv) /\ [Next]_vars => (TypeOK /\ FInv)'
  BY TypeNext, NextTells
<1>3. TypeOK /\ FInv => SurvivorsAreFound
  BY ReportIsFound
<1> QED
  BY <1>1, <1>2, <1>3, PTL DEF Spec

=============================================================================
