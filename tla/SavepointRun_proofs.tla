------------------------ MODULE SavepointRun_proofs ------------------------
(***************************************************************************)
(* For any methods, recipes, seeds and limits: what a run reports of its   *)
(* writes is what became of them, and what a trace says of the calls is    *)
(* what was called.                                                        *)
(***************************************************************************)
EXTENDS SavepointRun, FiniteSetTheorems, WellFoundedInduction, TLAPS

-----------------------------------------------------------------------------
(* The report.                                                             *)

\* Before the report there is none.
NothingSaidYet == step \in {"start", "method", "finally", "died"} => report = "none"

\* A method that ended the transaction took the tool's savepoint with it, so
\* the finally clause raises and nothing is reported.
OwnEndIsFatal ==
    own => /\ report = "none" /\ step # "start"
           /\ step \in {"method", "finally"} => mark = {}

\* A recipe that did not raise was made to its last step.
DoneIsDone == step = "finally" => left = 0 \/ error \/ fatal

\* What is committed without such a method is what Persist committed.
KeptByPersist ==
    ~own /\ db # {} =>
        /\ commit /\ report # "rolled back"
        /\ tool = "fixture_factory" =>
              /\ step \in {"reported", "died", "over"}
              /\ ~fatal => left = 0 /\ ~error

IInv == NothingSaidYet /\ OwnEndIsFatal /\ DoneIsDone /\ KeptByPersist

LEMMA InitReports == Init => IInv
BY DEF Init, IInv, NothingSaidYet, OwnEndIsFatal, DoneIsDone, KeptByPersist

\* Steps of the running method that leave the connection's savepoint, what is
\* committed and the report alone.
LEMMA InsideSteps ==
    ASSUME IInv, step = "method", step' = step,
           UNCHANGED <<tool, commit, report, db, mark, own>>
    PROVE  IInv'
BY DEF IInv, NothingSaidYet, OwnEndIsFatal, DoneIsDone, KeptByPersist

\* The report and what is committed are written together.
LEMMA OverReports ==
    ASSUME NEW persisted \in BOOLEAN, Over(persisted)
    PROVE  \/ fatal /\ step' = "died" /\ report' = report
           \/ tool = "esg_sample" /\ step' = "start" /\ report' = report
           \/ tool # "esg_sample" /\ step' = "reported"
              /\ report' = IF persisted THEN "committed" ELSE "rolled back"
BY DEF Over

LEMMA NextReports ==
    ASSUME IInv, [Next]_vars PROVE IInv'
<1> USE DEF IInv, NothingSaidYet, OwnEndIsFatal, DoneIsDone, KeptByPersist
<1>1. CASE Refuse
    BY <1>1 DEF Refuse, conn, code
<1>2. CASE NoRecord
    BY <1>2 DEF NoRecord, code
<1>3. CASE Savepoint
    BY <1>3 DEF Savepoint
<1>4. CASE EsgReport
    BY <1>4 DEF EsgReport, conn, code
<1>5. ASSUME NEW model \in Model, NEW addon \in BOOLEAN, NEW save \in BOOLEAN,
             Enter(model, addon, save)
      PROVE  IInv'
    <2>1. step = "method" /\ UNCHANGED <<run, conn>>
        BY <1>5 DEF Enter, Working
    <2> QED
        BY <2>1, InsideSteps DEF run, conn
<1>6. CASE Leave
    BY <1>6, InsideSteps DEF Leave, run
<1>7. CASE Write
    BY <1>7, InsideSteps DEF Write, Working, run
<1>8. CASE Raise
    BY <1>8, InsideSteps DEF Raise, Working, run
<1>9. CASE Catch \/ Interrupt
    BY <1>9, InsideSteps DEF Catch, Interrupt, run, conn
<1>10. CASE EndsTransaction
    BY <1>10 DEF EndsTransaction, Working, run
<1>11. CASE Done
    BY <1>11 DEF Done, conn
<1>12. CASE Persist
    <2>1. /\ step = "finally" /\ Persists /\ mark # {} /\ Over(TRUE)
          /\ UNCHANGED <<tool, commit, own, left, error, fatal>>
        BY <1>12 DEF Persist, code
    <2>2. ~own /\ report = "none" /\ commit
          /\ (tool = "fixture_factory" /\ ~fatal => ~error /\ left = 0)
        BY <2>1 DEF Persists
    <2> QED
        BY <2>1, <2>2, OverReports
<1>13. CASE Unwind
    <2>1. /\ step = "finally" /\ ~Persists /\ mark # {} /\ Over(FALSE)
          /\ UNCHANGED <<tool, commit, db, own, left, error, fatal>>
        BY <1>13 DEF Unwind, code
    <2>2. ~own /\ report = "none" /\ db = {}
        BY <2>1 DEF Persists
    <2> QED
        BY <2>1, <2>2, OverReports
<1>14. CASE FinallyFails
    BY <1>14 DEF FinallyFails, conn, code
<1>15. CASE ShellEnds
    BY <1>15 DEF ShellEnds, code
<1>16. CASE UNCHANGED vars
    BY <1>16 DEF vars, run, conn, code
<1> QED
    BY <1>1, <1>2, <1>3, <1>4, <1>5, <1>6, <1>7, <1>8, <1>9, <1>10, <1>11, <1>12, <1>13,
       <1>14, <1>15, <1>16 DEF Next

\* "committed": false is printed only if nothing was kept; a method that ended
\* the transaction by itself is never reported on; and a recipe is kept with
\* all its steps, on request and if none failed, or not at all, unless it was
\* interrupted by what "except Exception" does not catch.
THEOREM ReportsAreTrue == Spec => []WritesAreReported
<1>1. IInv => WritesAreReported
    BY DEF IInv, OwnEndIsFatal, KeptByPersist, WritesAreReported, ReportIsTrue, RecipeIsWhole
<1> QED
    BY <1>1, InitReports, NextReports, PTL DEF Spec


-----------------------------------------------------------------------------
(* Sums over finite sets, whatever the order of the terms.                 *)

\* Induction over the numbers, as a set.
LEMMA NatSetInduction ==
    ASSUME NEW S, 0 \in S, \A n \in Nat : n \in S => n + 1 \in S
    PROVE  Nat \subseteq S
<1> DEFINE R == {ss \in Nat \X Nat : ss[1] < ss[2]}
           T == Nat \ S
<1>1. IsWellFoundedOn(R, Nat)
    BY NatLessThanWellFounded, Zenon DEF OpToRel
<1> SUFFICES ASSUME T # {} PROVE FALSE
    OBVIOUS
<1>2. \E n \in T : \A m \in T : ~(<<m, n>> \in R)
    <2>1. T \subseteq Nat /\ T # {}
        OBVIOUS
    <2> HIDE DEF R, T
    <2> QED
        BY <1>1, <2>1, WFMin
<1>3. PICK n \in T : \A m \in T : ~(m < n)
    BY <1>2
<1>4. n # 0 /\ n - 1 \in Nat
    BY <1>3
<1>5. n - 1 \in S
    BY <1>3, <1>4
<1> QED
    BY <1>4, <1>5

\* The subsets of a finite set.
LEMMA Subsets ==
    ASSUME NEW S, IsFiniteSet(S), NEW s \in SUBSET S
    PROVE  /\ IsFiniteSet(s) /\ Cardinality(s) \in Nat /\ Cardinality(s) <= Cardinality(S)
           /\ \A x \in s : s \ {x} \in SUBSET S /\ Cardinality(s \ {x}) = Cardinality(s) - 1
<1>1. IsFiniteSet(s) /\ Cardinality(s) \in Nat /\ Cardinality(s) <= Cardinality(S)
    BY FS_Subset, FS_CardinalityType
<1>2. \A x \in s : Cardinality(s \ {x}) = Cardinality(s) - 1
    BY <1>1, FS_RemoveElement
<1> QED
    BY <1>1, <1>2

\* Induction over the subsets of a finite set, as a set.
LEMMA SubsetInduction ==
    ASSUME NEW S, IsFiniteSet(S), NEW Q,
           \A s \in SUBSET S : (\A x \in s : s \ {x} \in Q) => s \in Q
    PROVE  SUBSET S \subseteq Q
<1> DEFINE N == {n \in Nat : \A s \in SUBSET S : Cardinality(s) <= n => s \in Q}
<1>1. \A s \in SUBSET S : Cardinality(s) \in Nat /\ Cardinality(s) <= Cardinality(S)
    BY Subsets
<1>2. 0 \in N
    <2> SUFFICES ASSUME NEW s \in SUBSET S, Cardinality(s) <= 0 PROVE s \in Q
        OBVIOUS
    <2>1. Cardinality(s) = 0 /\ IsFiniteSet(s)
        BY <1>1, Subsets
    <2>2. s = {}
        BY <2>1, FS_EmptySet
    <2> QED
        BY <2>2
<1>3. ASSUME NEW n \in Nat, n \in N PROVE n + 1 \in N
    <2> SUFFICES ASSUME NEW s \in SUBSET S, Cardinality(s) <= n + 1 PROVE s \in Q
        OBVIOUS
    <2> SUFFICES ASSUME NEW x \in s PROVE s \ {x} \in Q
        OBVIOUS
    <2>1. s \ {x} \in SUBSET S /\ Cardinality(s \ {x}) = Cardinality(s) - 1
        BY Subsets
    <2>2. Cardinality(s \ {x}) <= n
        BY <1>1, <2>1
    <2> QED
        BY <1>3, <2>1, <2>2
<1>4. Nat \subseteq N
    <2> HIDE DEF N
    <2> QED
        BY <1>2, <1>3, NatSetInduction
<1>5. Cardinality(S) \in N
    BY <1>4, FS_CardinalityType
<1> QED
    BY <1>1, <1>5

\* What a loop over the elements of a set computes, one way or another.
IsSum(f, S, sum) ==
    /\ sum[{}] = 0
    /\ \A s \in (SUBSET S) \ {{}} : \E x \in s : sum[s] = f[x] + sum[s \ {x}]

Numbers(f, S) == \A x \in S : f[x] \in Int

LEMMA TotalIsLoop ==
    ASSUME NEW f, NEW S, IsFiniteSet(S)
    PROVE  \E sum : Total(f, S) = sum[S] /\ IsSum(f, S, sum)
<1> DEFINE N == Cardinality(S)
           Some(s) == CHOOSE x \in s : TRUE
           Body(g, s) == IF s = {} THEN 0 ELSE f[Some(s)] + g[s \ {Some(s)}]
           Small(n) == {s \in SUBSET S : Cardinality(s) <= n}
           P(n) == \E g : g = [s \in Small(n) |-> Body(g, s)]
<1>1. \A s \in SUBSET S : IsFiniteSet(s) /\ Cardinality(s) \in Nat /\ Cardinality(s) <= N
    BY Subsets
<1>2. \A s \in (SUBSET S) \ {{}} :
         /\ Some(s) \in s /\ s \ {Some(s)} \in SUBSET S
         /\ Cardinality(s \ {Some(s)}) = Cardinality(s) - 1
    <2> TAKE s \in (SUBSET S) \ {{}}
    <2>1. Some(s) \in s
        OBVIOUS
    <2> HIDE DEF Some
    <2> QED
        BY <2>1, Subsets
<1>3. P(0)
    <2>1. \A s \in Small(0) : s = {}
        BY <1>1, FS_EmptySet
    <2> DEFINE g == [s \in Small(0) |-> 0]
    <2>2. g = [s \in Small(0) |-> Body(g, s)]
        BY <2>1
    <2> QED
        BY <2>2
<1>4. ASSUME NEW n \in Nat, P(n) PROVE P(n + 1)
    <2> HIDE DEF Some
    <2>1. PICK h : h = [s \in Small(n) |-> Body(h, s)]
        BY <1>4
    <2> DEFINE g == [s \in Small(n + 1) |-> IF s \in Small(n) THEN h[s] ELSE Body(h, s)]
    <2>2. \A s \in Small(n + 1) : s # {} => s \ {Some(s)} \in Small(n)
        BY <1>1, <1>2
    <2>3. \A s \in Small(n) : h[s] = Body(h, s) /\ s \in Small(n + 1)
        <3>1. \A s \in Small(n) : h[s] = Body(h, s)
            BY <2>1
        <3>2. \A s \in Small(n) : s \in Small(n + 1)
            BY <1>1
        <3> QED
            BY <3>1, <3>2
    <2> HIDE DEF Small
    <2>4. \A s \in Small(n + 1) : g[s] = Body(h, s)
        BY <2>3
    <2>5. \A s \in Small(n) : g[s] = h[s]
        BY <2>3
    <2>6. \A s \in Small(n + 1) : Body(h, s) = Body(g, s)
        BY <2>2, <2>5
    <2>7. g = [s \in Small(n + 1) |-> Body(g, s)]
        <3>1. g = [s \in Small(n + 1) |-> Body(h, s)]
            BY <2>4
        <3> HIDE DEF g, Body
        <3> QED
            BY <2>6, <3>1
    <2> QED
        BY <2>7
<1>5. P(N)
    <2> HIDE DEF P
    <2> DEFINE T == {n \in Nat : P(n)}
    <2>1. 0 \in T /\ \A n \in Nat : n \in T => n + 1 \in T
        BY <1>3, <1>4
    <2>2. N \in Nat
        BY FS_CardinalityType
    <2> HIDE DEF T
    <2>3. N \in T
        BY <2>1, <2>2, NatSetInduction
    <2> QED
        BY <2>3 DEF T
<1>6. Small(N) = SUBSET S
    BY <1>1
<1> DEFINE e == CHOOSE g : g = [s \in SUBSET S |-> Body(g, s)]
<1>7. e = [s \in SUBSET S |-> Body(e, s)]
    <2> HIDE DEF Body, Small
    <2>1. \E g : g = [s \in SUBSET S |-> Body(g, s)]
        BY <1>5, <1>6
    <2> QED
        BY <2>1, Zenon
<1>8. Total(f, S) = e[S]
    BY DEF Total, MapThenSumSet, MapThenFoldSet
<1> HIDE DEF e
<1>9. e[{}] = 0
    <2> HIDE DEF Some
    <2> QED
        BY <1>7
<1>10. \A s \in (SUBSET S) \ {{}} : e[s] = f[Some(s)] + e[s \ {Some(s)}]
    <2> HIDE DEF Some
    <2> QED
        BY <1>7
<1>11. \A s \in (SUBSET S) \ {{}} : \E x \in s : e[s] = f[x] + e[s \ {x}]
    <2> HIDE DEF Some
    <2> QED
        BY <1>2, <1>10
<1> QED
    BY <1>8, <1>9, <1>11 DEF IsSum

\* Any element may come first.
LEMMA AnyFirst ==
    ASSUME NEW f, NEW S, IsFiniteSet(S), Numbers(f, S), NEW sum, IsSum(f, S, sum)
    PROVE  \A s \in SUBSET S : sum[s] \in Int /\ \A x \in s : sum[s] = f[x] + sum[s \ {x}]
<1> DEFINE Q == {s \in SUBSET S :
                   sum[s] \in Int /\ \A x \in s : sum[s \ {x}] \in Int /\ sum[s] = f[x] + sum[s \ {x}]}
<1>0. \A x \in S : f[x] \in Int
    BY DEF Numbers
<1>1. ASSUME NEW s \in SUBSET S, \A x \in s : s \ {x} \in Q PROVE s \in Q
    <2>1. CASE s = {}
        BY <2>1 DEF IsSum
    <2>2. CASE s # {}
        <3>1. PICK c \in s : sum[s] = f[c] + sum[s \ {c}]
            BY <2>2 DEF IsSum
        <3>2. \A x \in s : sum[s \ {x}] \in Int /\ f[x] \in Int
                           /\ \A y \in s \ {x} : /\ sum[(s \ {x}) \ {y}] \in Int
                                                 /\ sum[s \ {x}] = f[y] + sum[(s \ {x}) \ {y}]
            BY <1>0, <1>1
        <3>3. sum[s \ {c}] \in Int /\ f[c] \in Int /\ sum[s] \in Int
            <4>1. sum[s \ {c}] \in Int /\ f[c] \in Int
                BY <3>2
            <4> QED
                BY <3>1, <4>1
        <3>4. ASSUME NEW x \in s PROVE sum[s] = f[x] + sum[s \ {x}]
            <4>1. CASE x = c
                BY <3>1, <4>1
            <4>2. CASE x # c
                <5>1. sum[s \ {c}] = f[x] + sum[(s \ {c}) \ {x}]
                    BY <3>2, <4>2
                <5>2. sum[s \ {x}] = f[c] + sum[(s \ {x}) \ {c}]
                    BY <3>2, <4>2
                <5>3. (s \ {c}) \ {x} = (s \ {x}) \ {c}
                    OBVIOUS
                <5>4. sum[(s \ {c}) \ {x}] \in Int
                    BY <3>2, <4>2
                <5>5. f[x] \in Int
                    BY <3>2
                <5> DEFINE rest == sum[(s \ {c}) \ {x}]
                <5>6. rest \in Int /\ sum[s] = f[c] + (f[x] + rest) /\ sum[s \ {x}] = f[c] + rest
                    BY <3>1, <5>1, <5>2, <5>3, <5>4
                <5> HIDE DEF rest
                <5> QED
                    BY <3>3, <5>5, <5>6
            <4> QED
                BY <4>1, <4>2
        <3> QED
            BY <3>2, <3>3, <3>4
    <2> QED
        BY <2>1, <2>2
<1>2. SUBSET S \subseteq Q
    <2> HIDE DEF Q
    <2> QED
        BY <1>1, SubsetInduction
<1> QED
    BY <1>2

LEMMA SumIsTotal ==
    ASSUME NEW f, NEW S, IsFiniteSet(S), Numbers(f, S), NEW sum, IsSum(f, S, sum)
    PROVE  Total(f, S) = sum[S] /\ Total(f, S) \in Int
<1>1. PICK loop : Total(f, S) = loop[S] /\ IsSum(f, S, loop)
    BY TotalIsLoop
<1>2. \A s \in SUBSET S : sum[s] \in Int /\ \A x \in s : sum[s] = f[x] + sum[s \ {x}]
    BY AnyFirst
<1>3. \A s \in SUBSET S : loop[s] \in Int /\ \A x \in s : loop[s] = f[x] + loop[s \ {x}]
    <2>1. IsSum(f, S, loop)
        BY <1>1
    <2> QED
        BY <2>1, AnyFirst
<1> DEFINE Q == {s \in SUBSET S : sum[s] = loop[s]}
<1>4. ASSUME NEW s \in SUBSET S, \A x \in s : s \ {x} \in Q PROVE s \in Q
    <2>1. CASE s = {}
        BY <1>1, <2>1 DEF IsSum
    <2>2. CASE s # {}
        <3>1. PICK x \in s : TRUE
            BY <2>2
        <3>2. sum[s \ {x}] = loop[s \ {x}]
            BY <1>4
        <3> QED
            BY <1>2, <1>3, <3>1, <3>2
    <2> QED
        BY <2>1, <2>2
<1>5. SUBSET S \subseteq Q
    <2> HIDE DEF Q
    <2> QED
        BY <1>4, SubsetInduction
<1> QED
    BY <1>1, <1>2, <1>5

\* One term more.
LEMMA TotalAdds ==
    ASSUME NEW f, NEW S, IsFiniteSet(S), Numbers(f, S)
    PROVE  /\ Total(f, {}) = 0 /\ Total(f, S) \in Int
           /\ \A x \in S : Total(f, S) = f[x] + Total(f, S \ {x}) /\ Total(f, S \ {x}) \in Int
<1>1. PICK sum : Total(f, S) = sum[S] /\ IsSum(f, S, sum)
    BY TotalIsLoop
<1>2. \A s \in SUBSET S : sum[s] \in Int /\ \A x \in s : sum[s] = f[x] + sum[s \ {x}]
    <2>1. IsSum(f, S, sum)
        BY <1>1
    <2> QED
        BY <2>1, AnyFirst
<1>3. ASSUME NEW T \in SUBSET S PROVE Total(f, T) = sum[T]
    <2>1. IsSum(f, T, sum)
        BY <1>1 DEF IsSum
    <2>2. IsFiniteSet(T) /\ Numbers(f, T)
        BY FS_Subset DEF Numbers
    <2> QED
        BY <2>1, <2>2, SumIsTotal
<1>4. {} \in SUBSET S /\ \A x \in S : S \ {x} \in SUBSET S
    OBVIOUS
<1>5. Total(f, {}) = 0
    BY <1>1, <1>3, <1>4 DEF IsSum
<1>6. \A x \in S : Total(f, S \ {x}) = sum[S \ {x}]
    BY <1>3, <1>4
<1> QED
    BY <1>1, <1>2, <1>4, <1>5, <1>6

LEMMA TotalSame ==
    ASSUME NEW f, NEW g, NEW S, IsFiniteSet(S), Numbers(f, S), \A x \in S : g[x] = f[x]
    PROVE  Total(g, S) = Total(f, S)
<1>1. PICK sum : Total(f, S) = sum[S] /\ IsSum(f, S, sum)
    BY TotalIsLoop
<1>2. IsSum(g, S, sum) /\ Numbers(g, S)
    BY <1>1 DEF IsSum, Numbers
<1> QED
    BY <1>1, <1>2, SumIsTotal

LEMMA TotalOfBoth ==
    ASSUME NEW f, NEW A, NEW B, IsFiniteSet(A), IsFiniteSet(B), A \intersect B = {},
           Numbers(f, A \union B)
    PROVE  Total(f, A \union B) = Total(f, A) + Total(f, B)
<1>1. IsFiniteSet(A \union B)
    BY FS_Union
<1> DEFINE Q == {s \in SUBSET B : Total(f, A \union s) = Total(f, A) + Total(f, s)}
<1>2. ASSUME NEW s \in SUBSET B PROVE /\ IsFiniteSet(s) /\ IsFiniteSet(A \union s)
                                      /\ Numbers(f, s) /\ Numbers(f, A \union s)
    <2>1. IsFiniteSet(s)
        BY FS_Subset
    <2>2. IsFiniteSet(A \union s)
        BY <2>1, FS_Union
    <2> QED
        BY <2>1, <2>2 DEF Numbers
<1>3. Total(f, A) \in Int
    <2>1. Numbers(f, A)
        BY DEF Numbers
    <2> QED
        BY <2>1, TotalAdds
<1>4. ASSUME NEW s \in SUBSET B, \A x \in s : s \ {x} \in Q PROVE s \in Q
    <2>1. CASE s = {}
        <3>1. A \union s = A /\ Total(f, s) = 0
            <4>1. Total(f, {}) = 0
                BY <1>2, <2>1, TotalAdds
            <4> QED
                BY <2>1, <4>1
        <3>2. Total(f, A \union s) = Total(f, A)
            BY <3>1, Zenon
        <3> QED
            BY <1>3, <3>1, <3>2
    <2>2. CASE s # {}
        <3>1. PICK x \in s : TRUE
            BY <2>2
        <3>2. Total(f, s) = f[x] + Total(f, s \ {x}) /\ Total(f, s \ {x}) \in Int
            BY <1>2, TotalAdds
        <3>3. Total(f, A \union s) = f[x] + Total(f, (A \union s) \ {x})
            <4>1. IsFiniteSet(A \union s) /\ x \in A \union s /\ Numbers(f, A \union s)
                BY <1>2
            <4> QED
                BY <4>1, TotalAdds
        <3>4. (A \union s) \ {x} = A \union (s \ {x})
            OBVIOUS
        <3>5. Total(f, A \union (s \ {x})) = Total(f, A) + Total(f, s \ {x})
            BY <1>4
        <3>6. f[x] \in Int
            BY DEF Numbers
        <3> DEFINE a == Total(f, A)
                   r == Total(f, s \ {x})
        <3>7. a \in Int /\ r \in Int /\ Total(f, s) = f[x] + r /\ Total(f, A \union s) = f[x] + (a + r)
            BY <1>3, <3>2, <3>3, <3>4, <3>5
        <3> HIDE DEF a, r
        <3>8. Total(f, A \union s) = a + Total(f, s)
            BY <3>6, <3>7
        <3> QED
            BY <3>8 DEF a
    <2> QED
        BY <2>1, <2>2
<1>5. SUBSET B \subseteq Q
    <2> HIDE DEF Q
    <2> QED
        BY <1>4, SubsetInduction
<1> QED
    BY <1>5

LEMMA TotalIsNat ==
    ASSUME NEW f, NEW S, IsFiniteSet(S), \A x \in S : f[x] \in Nat PROVE Total(f, S) \in Nat
<1> DEFINE Q == {s \in SUBSET S : Total(f, s) \in Nat}
<1>1. ASSUME NEW s \in SUBSET S, \A x \in s : s \ {x} \in Q PROVE s \in Q
    <2>0. IsFiniteSet(s) /\ Numbers(f, s)
        BY FS_Subset DEF Numbers
    <2>1. CASE s = {}
        BY <2>0, <2>1, TotalAdds
    <2>2. CASE s # {}
        <3>1. PICK x \in s : TRUE
            BY <2>2
        <3>2. Total(f, s) = f[x] + Total(f, s \ {x})
            BY <2>0, <3>1, TotalAdds
        <3>3. f[x] \in Nat /\ Total(f, s \ {x}) \in Nat
            BY <1>1, <3>1
        <3> QED
            BY <3>2, <3>3
    <2> QED
        BY <2>1, <2>2
<1>2. SUBSET S \subseteq Q
    <2> HIDE DEF Q
    <2> QED
        BY <1>1, SubsetInduction
<1> QED
    BY <1>2

\* What is left of each after what is below it, summed up: all that is below none.
Apart(K, D) ==
    /\ \A i \in D : K[i] \subseteq D
    /\ \A i, j \in D : i # j => K[i] \intersect K[j] = {}
IsShare(share, f, K, D) == \A i \in D : share[i] = f[i] - Total(f, K[i])

LEMMA SharesAddUp ==
    ASSUME NEW D, IsFiniteSet(D), NEW f, Numbers(f, D), NEW K, Apart(K, D),
           NEW share, IsShare(share, f, K, D)
    PROVE  Total(share, D) = Total(f, D \ UNION {K[i] : i \in D})
<1> DEFINE Below(s) == UNION {K[i] : i \in s}
           Q == {s \in SUBSET D : Total(share, s) = Total(f, s) - Total(f, Below(s))}
<1>0. /\ \A i \in D : K[i] \subseteq D /\ share[i] = f[i] - Total(f, K[i])
      /\ \A i, j \in D : i # j => K[i] \intersect K[j] = {}
    BY DEF Apart, IsShare
<1>1. ASSUME NEW s \in SUBSET D PROVE IsFiniteSet(s) /\ IsFiniteSet(Below(s)) /\ Below(s) \subseteq D
    <2>1. Below(s) \subseteq D
        BY <1>0
    <2> HIDE DEF Below
    <2> QED
        BY <2>1, FS_Subset
<1>2. \A i \in D : Total(f, K[i]) \in Int /\ share[i] \in Int /\ IsFiniteSet(K[i])
    <2> TAKE i \in D
    <2>1. IsFiniteSet(K[i])
        BY <1>0, FS_Subset
    <2>2. Numbers(f, K[i])
        BY <1>0 DEF Numbers
    <2>3. Total(f, K[i]) \in Int
        BY <2>1, <2>2, TotalAdds
    <2> QED
        BY <1>0, <2>1, <2>3 DEF Numbers
<1>3. ASSUME NEW s \in SUBSET D, \A x \in s : s \ {x} \in Q PROVE s \in Q
    <2>1. CASE s = {}
        <3>1. Below(s) = {} /\ Total(f, {}) = 0 /\ Total(share, {}) = 0
            <4>1. Below(s) = {}
                BY <2>1
            <4>2. Numbers(f, {}) /\ Numbers(share, {}) /\ IsFiniteSet({})
                BY FS_EmptySet DEF Numbers
            <4> QED
                BY <4>1, <4>2, TotalAdds
        <3> HIDE DEF Below
        <3> QED
            BY <2>1, <3>1
    <2>2. CASE s # {}
        <3>1. PICK x \in s : TRUE
            BY <2>2
        <3> DEFINE r == s \ {x}
        <3>2. r \in SUBSET D /\ r \in Q /\ x \in D
            BY <1>3, <3>1
        <3>3. Below(s) = Below(r) \union K[x] /\ Below(r) \intersect K[x] = {}
            BY <1>0, <3>1
        <3>4. /\ IsFiniteSet(s) /\ IsFiniteSet(Below(r)) /\ Below(r) \subseteq D /\ IsFiniteSet(K[x])
              /\ Numbers(f, Below(r)) /\ Numbers(f, Below(r) \union K[x])
            <4>1. IsFiniteSet(s) /\ IsFiniteSet(Below(r)) /\ Below(r) \subseteq D
                BY <1>1, <3>2
            <4>2. IsFiniteSet(K[x]) /\ K[x] \subseteq D
                BY <1>0, <1>2, <3>2
            <4> HIDE DEF Below
            <4> QED
                BY <4>1, <4>2 DEF Numbers
        <3>5. Total(share, r) = Total(f, r) - Total(f, Below(r))
            BY <3>2
        <3> HIDE DEF Below, r
        <3>6. Total(f, Below(s)) = Total(f, Below(r)) + Total(f, K[x])
            BY <3>3, <3>4, TotalOfBoth
        <3>7. /\ Total(f, s) = f[x] + Total(f, r) /\ Total(f, r) \in Int
              /\ Total(share, s) = share[x] + Total(share, r) /\ Total(share, r) \in Int
            <4>1. Numbers(f, s) /\ Numbers(share, s)
                BY <1>2 DEF Numbers
            <4>2. Total(f, s) = f[x] + Total(f, s \ {x}) /\ Total(f, s \ {x}) \in Int
                BY <3>1, <3>4, <4>1, TotalAdds
            <4>3. Total(share, s) = share[x] + Total(share, s \ {x}) /\ Total(share, s \ {x}) \in Int
                BY <3>1, <3>4, <4>1, TotalAdds
            <4> QED
                BY <4>2, <4>3 DEF r
        <3>8. Total(f, Below(r)) \in Int
            BY <3>4, TotalAdds
        <3>9. share[x] = f[x] - Total(f, K[x]) /\ Total(f, K[x]) \in Int /\ f[x] \in Int
            BY <1>0, <1>2, <3>2 DEF Numbers
        <3>10. Total(share, s) = Total(f, s) - Total(f, Below(s))
            BY <3>5, <3>6, <3>7, <3>8, <3>9
        <3> QED
            BY <3>10
    <2> QED
        BY <2>1, <2>2
<1>4. D \in Q
    <2>1. SUBSET D \subseteq Q
        <3> HIDE DEF Q
        <3> QED
            BY <1>3, SubsetInduction
    <2> QED
        BY <2>1
<1>5. Below(D) \subseteq D /\ IsFiniteSet(Below(D))
    BY <1>1
<1>6. Total(share, D) = Total(f, D) - Total(f, Below(D))
    BY <1>4
<1> DEFINE top == D \ Below(D)
<1>7. D = Below(D) \union top /\ Below(D) \intersect top = {} /\ IsFiniteSet(top)
    <2>1. IsFiniteSet(D \ Below(D))
        BY FS_Difference
    <2> HIDE DEF Below
    <2> QED
        BY <1>5, <2>1
<1>8. Total(f, D) = Total(f, Below(D)) + Total(f, top)
    <2> HIDE DEF Below, top
    <2>1. Numbers(f, Below(D) \union top)
        BY <1>7
    <2> QED
        BY <1>5, <1>7, <2>1, TotalOfBoth
<1>9. Total(f, Below(D)) \in Int /\ Total(f, top) \in Int
    <2> HIDE DEF Below, top
    <2>1. Numbers(f, Below(D)) /\ Numbers(f, top)
        BY <1>7 DEF Numbers
    <2> QED
        BY <1>5, <1>7, <2>1, TotalAdds
<1>10. Total(share, D) = Total(f, top)
    <2> HIDE DEF Below, top
    <2> QED
        BY <1>6, <1>8, <1>9
<1> QED
    BY <1>10

-----------------------------------------------------------------------------
(* The trace of trace_flow: its calls, the depth, which of them are open    *)
(* and the number of statements so far.                                     *)

Entry == [depth : 0..MAX_DEPTH, sql : Nat]

\* The calls right below a call; below none of them, for 0.
Group(calls, i) ==
    IF i = 0 THEN {j \in DOMAIN calls : calls[j].depth = 0} ELSE Children(calls, i)
Base(calls, i) == IF i = 0 THEN 0 ELSE calls[i].depth + 1
Start(calls, i) == IF i = 0 THEN 0 ELSE calls[i].sql

\* What the calls that are over, right below this one, have spent.
Spent(calls, open, i) == Total(SqlOf(calls), Group(calls, i) \ open)

\* The counter at the call that is open at depth d; now, if the next one will be.
Limit(calls, depth, open, s, d, m) ==
    \/ d = depth /\ m = s
    \/ \E j \in open : calls[j].depth = d /\ m = calls[j].sql

FlowShape(calls, depth, open, s) ==
    /\ calls \in Seq(Entry) /\ Len(calls) <= MAX_CALLS /\ depth \in 0..MAX_DEPTH + 1 /\ s \in Nat
    /\ open \subseteq DOMAIN calls /\ (calls # <<>> => calls[1].depth = 0)

\* One call is open at each depth, and what came after it is deeper.
FlowOpen(calls, depth, open) ==
    /\ \A i \in open : calls[i].depth < depth
    /\ \A d \in 0..depth - 1 : \E i \in open : calls[i].depth = d
    /\ \A i \in open, j \in DOMAIN calls : i < j => calls[i].depth < calls[j].depth

\* No call is over before those below it, nor spends less than they did; an open
\* one has spent, until the call below it that is open, at least what those that
\* are over have.
FlowSpent(calls, depth, open, s) ==
    /\ \A i \in (DOMAIN calls) \ open :
          Group(calls, i) \intersect open = {} /\ Spent(calls, open, i) <= calls[i].sql
    /\ \A i \in open \union {0}, m \in Nat :
          Limit(calls, depth, open, s, Base(calls, i), m)
              => Spent(calls, open, i) <= m - Start(calls, i)

FlowInv(calls, depth, open, s) ==
    FlowShape(calls, depth, open, s) /\ FlowOpen(calls, depth, open) /\ FlowSpent(calls, depth, open, s)

\* What is known of a sequence of calls.
LEMMA CallsAre ==
    ASSUME NEW calls \in Seq(Entry)
    PROVE  /\ DOMAIN calls = 1..Len(calls) /\ Len(calls) \in Nat /\ IsFiniteSet(DOMAIN calls)
           /\ \A i \in DOMAIN calls : calls[i].depth \in 0..MAX_DEPTH /\ calls[i].depth \in Nat
                                      /\ calls[i].sql \in Nat
           /\ \A i \in DOMAIN calls : i \in Nat /\ i >= 1
<1>1. DOMAIN calls = 1..Len(calls) /\ Len(calls) \in Nat
    OBVIOUS
<1>2. IsFiniteSet(DOMAIN calls)
    <2>1. 1 \in Int /\ Len(calls) \in Int
        BY <1>1
    <2> QED
        BY <1>1, <2>1, FS_Interval
<1>3. \A i \in DOMAIN calls : calls[i] \in Entry
    OBVIOUS
<1>4. \A x \in Entry : x.depth \in 0..MAX_DEPTH /\ x.depth \in Nat /\ x.sql \in Nat
    BY TraceAssumption DEF Entry
<1> QED
    BY <1>1, <1>2, <1>3, <1>4

LEMMA ParentIsOne ==
    ASSUME NEW calls \in Seq(Entry), NEW j \in DOMAIN calls
    PROVE  /\ Parent(calls, j) \subseteq DOMAIN calls
           /\ \A i \in Parent(calls, j) : i < j /\ calls[i].depth < calls[j].depth
           /\ \A i, k \in Parent(calls, j) : i = k
<1>1. /\ DOMAIN calls = 1..Len(calls) /\ Len(calls) \in Nat /\ j \in Nat
      /\ \A i \in DOMAIN calls : calls[i].depth \in Nat
    BY CallsAre
<1>2. Parent(calls, j) \subseteq DOMAIN calls /\ \A i \in Parent(calls, j) : i \in Nat /\ i < j
    BY <1>1 DEF Parent
<1>3. \A i \in Parent(calls, j) : calls[i].depth < calls[j].depth
    BY DEF Parent
<1>4. ASSUME NEW i \in Parent(calls, j), NEW k \in Parent(calls, j), i < k PROVE FALSE
    <2>1. k \in i + 1..j - 1
        BY <1>1, <1>2, <1>4
    <2>2. calls[k].depth >= calls[j].depth
        BY <1>4, <2>1 DEF Parent
    <2>3. calls[k].depth \in Nat /\ calls[j].depth \in Nat
        BY <1>1, <1>2
    <2> QED
        BY <1>3, <2>2, <2>3
<1>5. \A i, k \in Parent(calls, j) : i = k
    BY <1>2, <1>4
<1> QED
    BY <1>2, <1>3, <1>5

\* A call of depth 0 is below none, and any other below one.
LEMMA ParentIsThere ==
    ASSUME NEW calls \in Seq(Entry), calls[1].depth = 0, NEW j \in DOMAIN calls
    PROVE  Parent(calls, j) = {} <=> calls[j].depth = 0
<1>1. /\ DOMAIN calls = 1..Len(calls) /\ Len(calls) \in Nat /\ j \in Nat /\ j >= 1
      /\ \A i \in DOMAIN calls : calls[i].depth \in Nat
    BY CallsAre
<1>2. ASSUME calls[j].depth = 0, NEW i \in Parent(calls, j) PROVE FALSE
    BY <1>1, <1>2, ParentIsOne
<1>3. ASSUME calls[j].depth # 0 PROVE Parent(calls, j) # {}
    <2> DEFINE Less == {k \in 1..j - 1 : calls[k].depth < calls[j].depth}
               Far == {n \in Nat : j - n \in Less}
    <2>1. 1 \in Less
        BY <1>1, <1>3
    <2>2. j - 1 \in Far
        BY <1>1, <2>1
    <2>3. \E n \in Far : \A m \in Far : n <= m
        <3> DEFINE R == {ss \in Nat \X Nat : ss[1] < ss[2]}
        <3>1. IsWellFoundedOn(R, Nat)
            BY NatLessThanWellFounded, Zenon DEF OpToRel
        <3>2. Far \subseteq Nat /\ Far # {}
            BY <2>2
        <3> HIDE DEF R, Far
        <3>3. PICK n \in Far : \A m \in Far : ~(<<m, n>> \in R)
            BY <3>1, <3>2, WFMin
        <3>4. \A m \in Far : ~(m < n)
            BY <3>2, <3>3 DEF R
        <3> QED
            BY <3>2, <3>4
    <2>4. PICK n \in Far : \A m \in Far : n <= m
        BY <2>3
    <2> DEFINE i == j - n
    <2>5. i \in 1..j - 1 /\ calls[i].depth < calls[j].depth
        BY <2>4
    <2>6. \A k \in i + 1..j - 1 : calls[k].depth >= calls[j].depth
        <3> SUFFICES ASSUME NEW k \in i + 1..j - 1, ~(calls[k].depth >= calls[j].depth) PROVE FALSE
            OBVIOUS
        <3>1. k \in 1..j - 1 /\ k \in DOMAIN calls
            BY <1>1, <2>5
        <3>2. calls[k].depth < calls[j].depth
            BY <1>1, <3>1
        <3>3. j - k \in Nat /\ j - (j - k) = k
            BY <1>1, <3>1
        <3>4. j - k \in Far
            BY <3>1, <3>2, <3>3
        <3>5. n <= j - k
            BY <2>4, <3>4
        <3> QED
            BY <1>1, <2>5, <3>1, <3>5
    <2>7. i \in Parent(calls, j)
        BY <2>5, <2>6 DEF Parent
    <2> QED
        BY <2>7
<1> QED
    BY <1>2, <1>3

LEMMA GroupIs ==
    ASSUME NEW calls \in Seq(Entry), NEW i \in (DOMAIN calls) \union {0}
    PROVE  /\ Group(calls, i) \subseteq DOMAIN calls /\ IsFiniteSet(Group(calls, i))
           /\ \A j \in Group(calls, i) : i < j /\ calls[j].depth >= Base(calls, i)
<1>1. IsFiniteSet(DOMAIN calls) /\ \A k \in DOMAIN calls : k \in Nat /\ k >= 1 /\ calls[k].depth \in Nat
    BY CallsAre
<1>2. Group(calls, i) \subseteq DOMAIN calls
    BY DEF Group, Children
<1>3. IsFiniteSet(Group(calls, i))
    BY <1>1, <1>2, FS_Subset
<1>4. ASSUME NEW j \in Group(calls, i) PROVE i < j /\ calls[j].depth >= Base(calls, i)
    <2>1. CASE i = 0
        BY <1>1, <2>1 DEF Group, Base
    <2>2. CASE i # 0
        <3>1. i \in Parent(calls, j) /\ j \in DOMAIN calls /\ i \in DOMAIN calls
            BY <2>2 DEF Group, Children
        <3>2. i < j /\ calls[i].depth < calls[j].depth
            BY <3>1, ParentIsOne
        <3> QED
            BY <1>1, <2>2, <3>1, <3>2 DEF Base
    <2> QED
        BY <2>1, <2>2
<1> QED
    BY <1>2, <1>3, <1>4

\* Groups are told by the depths.
LEMMA GroupsStand ==
    ASSUME NEW calls \in Seq(Entry), NEW later \in Seq(Entry), Len(calls) <= Len(later),
           \A j \in DOMAIN calls : later[j].depth = calls[j].depth
    PROVE  \A i \in (DOMAIN calls) \union {0} : Group(later, i) \intersect DOMAIN calls = Group(calls, i)
<1>1. /\ DOMAIN calls = 1..Len(calls) /\ Len(calls) \in Nat /\ DOMAIN later = 1..Len(later) /\ Len(later) \in Nat
      /\ DOMAIN calls \subseteq DOMAIN later
    BY CallsAre
<1>2. ASSUME NEW j \in DOMAIN calls PROVE Parent(later, j) = Parent(calls, j)
    <2>1. \A k \in 1..j - 1 : later[k].depth = calls[k].depth
        BY <1>1
    <2>2. \A i \in 1..j - 1 : \A k \in i + 1..j - 1 : later[k].depth = calls[k].depth
        BY <1>1
    <2> QED
        BY <1>2, <2>1, <2>2 DEF Parent
<1> TAKE i \in (DOMAIN calls) \union {0}
<1>3. CASE i = 0
    BY <1>1, <1>3 DEF Group
<1>4. CASE i # 0
    BY <1>1, <1>2, <1>4 DEF Group, Children
<1> QED
    BY <1>3, <1>4

\* What calls that are over spent is a number, and told by their own numbers.
LEMMA SqlsAreNumbers ==
    ASSUME NEW calls \in Seq(Entry), NEW S \in SUBSET DOMAIN calls
    PROVE  /\ IsFiniteSet(S) /\ Numbers(SqlOf(calls), S) /\ Total(SqlOf(calls), S) \in Nat
           /\ \A x \in S : SqlOf(calls)[x] = calls[x].sql
<1>1. IsFiniteSet(DOMAIN calls) /\ \A x \in DOMAIN calls : calls[x].sql \in Nat
    BY CallsAre
<1>2. \A x \in S : SqlOf(calls)[x] = calls[x].sql /\ SqlOf(calls)[x] \in Nat
    BY <1>1 DEF SqlOf
<1>3. IsFiniteSet(S)
    BY <1>1, FS_Subset
<1>4. Total(SqlOf(calls), S) \in Nat
    BY <1>2, <1>3, TotalIsNat
<1> QED
    BY <1>2, <1>3, <1>4 DEF Numbers

LEMMA SqlsStand ==
    ASSUME NEW calls \in Seq(Entry), NEW later \in Seq(Entry),
           NEW S \in SUBSET DOMAIN calls, S \subseteq DOMAIN later,
           \A j \in S : later[j].sql = calls[j].sql
    PROVE  Total(SqlOf(later), S) = Total(SqlOf(calls), S)
<1>1. /\ IsFiniteSet(S) /\ Numbers(SqlOf(calls), S)
      /\ \A x \in S : SqlOf(calls)[x] = calls[x].sql
    BY SqlsAreNumbers
<1>2. \A x \in S : SqlOf(later)[x] = later[x].sql
    BY DEF SqlOf
<1>3. \A x \in S : SqlOf(later)[x] = SqlOf(calls)[x]
    BY <1>1, <1>2
<1> QED
    BY <1>1, <1>3, TotalSame

LEMMA SpentIs ==
    ASSUME NEW calls \in Seq(Entry), NEW open, NEW i \in (DOMAIN calls) \union {0}
    PROVE  Spent(calls, open, i) \in Nat /\ Start(calls, i) \in Nat /\ Base(calls, i) \in Nat
<1>1. Group(calls, i) \ open \in SUBSET DOMAIN calls
    BY GroupIs
<1>2. \A x \in DOMAIN calls : calls[x].sql \in Nat /\ calls[x].depth \in Nat
    BY CallsAre
<1>3. Spent(calls, open, i) \in Nat
    BY <1>1, SqlsAreNumbers DEF Spent
<1> QED
    BY <1>2, <1>3 DEF Start, Base

\* No trace yet.
LEMMA FlowStarts == FlowInv(<<>>, 0, {}, 0)
<1>1. <<>> \in Seq(Entry) /\ Len(<<>>) = 0 /\ DOMAIN <<>> = {}
    OBVIOUS
<1>2. FlowShape(<<>>, 0, {}, 0)
    BY <1>1, TraceAssumption DEF FlowShape
<1>3. FlowOpen(<<>>, 0, {})
    BY DEF FlowOpen
<1>4. Spent(<<>>, {}, 0) = 0
    <2>1. Group(<<>>, 0) = {}
        BY <1>1 DEF Group
    <2>2. Group(<<>>, 0) \ {} = {}
        BY <2>1
    <2>3. IsFiniteSet({}) /\ Numbers(SqlOf(<<>>), {})
        BY FS_EmptySet DEF Numbers
    <2>4. Total(SqlOf(<<>>), {}) = 0
        BY <2>3, TotalAdds
    <2> QED
        BY <2>2, <2>4, Zenon DEF Spent
<1>5. FlowSpent(<<>>, 0, {}, 0)
    <2>1. Start(<<>>, 0) = 0
        BY DEF Start
    <2> QED
        BY <1>1, <1>4, <2>1 DEF FlowSpent
<1> QED
    BY <1>2, <1>3, <1>5 DEF FlowInv

\* More statements.
LEMMA FlowCounts ==
    ASSUME NEW calls, NEW depth, NEW open, NEW s, FlowInv(calls, depth, open, s),
           NEW t \in Nat, s <= t
    PROVE  FlowInv(calls, depth, open, t)
<1>1. calls \in Seq(Entry) /\ open \subseteq DOMAIN calls /\ s \in Nat
    BY DEF FlowInv, FlowShape
<1>2. FlowShape(calls, depth, open, t) /\ FlowOpen(calls, depth, open)
    BY DEF FlowInv, FlowShape
<1>3. FlowSpent(calls, depth, open, t)
    <2>1. \A i \in (DOMAIN calls) \ open :
              Group(calls, i) \intersect open = {} /\ Spent(calls, open, i) <= calls[i].sql
        BY DEF FlowInv, FlowSpent
    <2>2. ASSUME NEW i \in open \union {0}, NEW m \in Nat,
                 Limit(calls, depth, open, t, Base(calls, i), m)
          PROVE  Spent(calls, open, i) <= m - Start(calls, i)
        <3>1. \A n \in Nat : Limit(calls, depth, open, s, Base(calls, i), n)
                                 => Spent(calls, open, i) <= n - Start(calls, i)
            BY DEF FlowInv, FlowSpent
        <3>2. Spent(calls, open, i) \in Nat /\ Start(calls, i) \in Nat
            BY <1>1, SpentIs
        <3>3. CASE Base(calls, i) = depth /\ m = t
            <4>1. Limit(calls, depth, open, s, Base(calls, i), s)
                BY <3>3 DEF Limit
            <4>2. Spent(calls, open, i) <= s - Start(calls, i)
                BY <1>1, <3>1, <4>1
            <4> QED
                BY <1>1, <3>2, <3>3, <4>2
        <3>4. CASE \E j \in open : calls[j].depth = Base(calls, i) /\ m = calls[j].sql
            <4>1. Limit(calls, depth, open, s, Base(calls, i), m)
                BY <3>4 DEF Limit
            <4> QED
                BY <3>1, <4>1
        <3> QED
            BY <2>2, <3>3, <3>4 DEF Limit
    <2> QED
        BY <2>1, <2>2 DEF FlowSpent
<1> QED
    BY <1>2, <1>3 DEF FlowInv

\* One more call.
LEMMA FlowCalls ==
    ASSUME NEW calls, NEW depth, NEW open, NEW s, FlowInv(calls, depth, open, s),
           depth <= MAX_DEPTH, Len(calls) < MAX_CALLS
    PROVE  FlowInv(Append(calls, [depth |-> depth, sql |-> s]), depth + 1, open \union {Len(calls) + 1}, s)
<1> DEFINE e == [depth |-> depth, sql |-> s]
           later == Append(calls, e)
           n == Len(calls) + 1
           now == open \union {n}
<1>1. /\ calls \in Seq(Entry) /\ open \subseteq DOMAIN calls /\ s \in Nat /\ depth \in Nat
      /\ DOMAIN calls = 1..Len(calls) /\ Len(calls) \in Nat
      /\ \A i \in DOMAIN calls : i \in Nat /\ i >= 1 /\ calls[i].depth \in Nat /\ calls[i].sql \in Nat
    <2>1. calls \in Seq(Entry) /\ open \subseteq DOMAIN calls /\ s \in Nat /\ depth \in 0..MAX_DEPTH + 1
        BY DEF FlowInv, FlowShape
    <2>2. MAX_DEPTH \in Nat
        BY TraceAssumption
    <2> QED
        BY <2>1, <2>2, CallsAre
<1>2. e \in Entry /\ e.depth = depth /\ e.sql = s
    <2>1. MAX_DEPTH \in Nat
        BY TraceAssumption
    <2>2. depth \in 0..MAX_DEPTH
        BY <1>1, <2>1
    <2> QED
        BY <1>1, <2>2 DEF Entry
<1> HIDE DEF e
<1>3. /\ later \in Seq(Entry) /\ Len(later) = n /\ n \in Nat /\ n >= 1
      /\ DOMAIN later = (DOMAIN calls) \union {n} /\ n \notin DOMAIN calls /\ later[n] = e
      /\ \A i \in DOMAIN calls : later[i] = calls[i] /\ i < n
    BY <1>1, <1>2
<1> HIDE DEF later, n
<1>4. \A i \in open : calls[i].depth < depth
    BY DEF FlowInv, FlowOpen
<1>5. \A d \in 0..depth - 1 : \E i \in open : calls[i].depth = d
    BY DEF FlowInv, FlowOpen
<1>6. \A i \in open, j \in DOMAIN calls : i < j => calls[i].depth < calls[j].depth
    BY DEF FlowInv, FlowOpen
<1>7. FlowShape(later, depth + 1, now, s)
    <2>1. Len(later) <= MAX_CALLS /\ depth + 1 \in 0..MAX_DEPTH + 1
        <3>1. MAX_DEPTH \in Nat /\ MAX_CALLS \in Nat
            BY TraceAssumption
        <3>2. Len(later) = Len(calls) + 1
            BY <1>3 DEF n
        <3> QED
            BY <1>1, <3>1, <3>2
    <2>2. later[1].depth = 0
        <3>1. CASE calls = <<>>
            <4>1. n = 1 /\ open = {}
                BY <1>1, <3>1 DEF n
            <4>2. depth = 0
                BY <1>1, <1>5, <4>1
            <4> QED
                BY <1>2, <1>3, <4>1, <4>2
        <3>2. CASE calls # <<>>
            <4>1. 1 \in DOMAIN calls /\ calls[1].depth = 0
                BY <1>1, <3>2 DEF FlowInv, FlowShape
            <4> QED
                BY <1>3, <4>1
        <3> QED
            BY <3>1, <3>2
    <2> QED
        BY <1>1, <1>3, <2>1, <2>2 DEF FlowShape
<1>8. FlowOpen(later, depth + 1, now)
    <2>1. \A i \in now : later[i].depth < depth + 1
        BY <1>1, <1>2, <1>3, <1>4
    <2>2. \A d \in 0..(depth + 1) - 1 : \E i \in now : later[i].depth = d
        <3> SUFFICES ASSUME NEW d \in 0..(depth + 1) - 1 PROVE \E i \in now : later[i].depth = d
            OBVIOUS
        <3>1. CASE d = depth
            BY <1>2, <1>3, <3>1
        <3>2. CASE d # depth
            <4>1. d \in 0..depth - 1
                BY <1>1, <3>2
            <4>2. PICK i \in open : calls[i].depth = d
                BY <1>5, <4>1
            <4> QED
                BY <1>1, <1>3, <4>2
        <3> QED
            BY <3>1, <3>2
    <2>3. \A i \in now, j \in DOMAIN later : i < j => later[i].depth < later[j].depth
        <3> SUFFICES ASSUME NEW i \in now, NEW j \in DOMAIN later, i < j
                     PROVE  later[i].depth < later[j].depth
            OBVIOUS
        <3>1. i \in open
            BY <1>1, <1>3
        <3>2. CASE j \in DOMAIN calls
            BY <1>1, <1>3, <1>6, <3>1, <3>2
        <3>3. CASE j = n
            BY <1>1, <1>2, <1>3, <1>4, <3>1, <3>3
        <3> QED
            BY <1>3, <3>2, <3>3
    <2> QED
        BY <2>1, <2>2, <2>3 DEF FlowOpen
<1>9. \A i \in (DOMAIN calls) \union {0} : Group(later, i) \intersect DOMAIN calls = Group(calls, i)
    <2>1. Len(calls) <= Len(later)
        BY <1>1, <1>3 DEF n
    <2> QED
        BY <1>1, <1>3, <2>1, GroupsStand
\* Below the open call of the depth above, if it is below any.
<1>10. \A i \in DOMAIN calls : n \in Group(later, i) => i \in open
    <2> SUFFICES ASSUME NEW i \in DOMAIN calls, n \in Group(later, i), i \notin open PROVE FALSE
        OBVIOUS
    <2>1. i \in Parent(later, n) /\ i # 0
        BY <1>1 DEF Group, Children
    <2>2. calls[i].depth < depth /\ \A k \in i + 1..n - 1 : later[k].depth >= depth
        BY <1>2, <1>3, <2>1 DEF Parent
    <2>3. calls[i].depth \in 0..depth - 1 /\ depth >= 1
        BY <1>1, <2>2
    <2>4. PICK j \in open : calls[j].depth = depth - 1
        BY <1>1, <1>5, <2>3
    <2>5. CASE i < j
        <3>1. j \in i + 1..n - 1 /\ later[j].depth = depth - 1
            BY <1>1, <1>3, <2>4, <2>5
        <3> QED
            BY <1>1, <2>2, <3>1
    <2>6. CASE j < i
        <3>1. calls[j].depth < calls[i].depth
            BY <1>1, <1>6, <2>6
        <3> QED
            BY <1>1, <2>2, <2>4, <3>1
    <2>7. i # j /\ i \in Nat /\ j \in Nat
        BY <1>1
    <2> QED
        BY <2>5, <2>6, <2>7
<1>11. \A i \in (DOMAIN calls) \union {0} : Spent(later, now, i) = Spent(calls, open, i)
    <2> TAKE i \in (DOMAIN calls) \union {0}
    <2> DEFINE S == Group(calls, i) \ open
    <2>1. Group(later, i) \subseteq DOMAIN later /\ Group(calls, i) \subseteq DOMAIN calls
        <3>1. i \in (DOMAIN later) \union {0}
            BY <1>3
        <3> QED
            BY <1>1, <1>3, <3>1, GroupIs
    <2>2. Group(later, i) \ now = S
        BY <1>3, <1>9, <2>1
    <2>3. S \in SUBSET DOMAIN calls /\ S \subseteq DOMAIN later /\ \A j \in S : later[j].sql = calls[j].sql
        BY <1>3, <2>1
    <2> HIDE DEF S
    <2>4. Total(SqlOf(later), S) = Total(SqlOf(calls), S)
        BY <1>1, <1>3, <2>3, SqlsStand
    <2> QED
        BY <2>2, <2>4, Zenon DEF Spent, S
<1>12. FlowSpent(later, depth + 1, now, s)
    <2>1. ASSUME NEW i \in (DOMAIN later) \ now
          PROVE  Group(later, i) \intersect now = {} /\ Spent(later, now, i) <= later[i].sql
        <3>1. i \in (DOMAIN calls) \ open
            BY <1>3
        <3>2. Group(calls, i) \intersect open = {} /\ Spent(calls, open, i) <= calls[i].sql
            BY <3>1 DEF FlowInv, FlowSpent
        <3>3. n \notin Group(later, i)
            BY <1>10, <3>1
        <3>4. Group(later, i) \intersect open = {}
            BY <1>1, <1>9, <3>1, <3>2
        <3>5. Spent(later, now, i) <= later[i].sql
            BY <1>3, <1>11, <3>1, <3>2
        <3> QED
            BY <3>3, <3>4, <3>5
    <2>2. ASSUME NEW i \in now \union {0}, NEW m \in Nat,
                 Limit(later, depth + 1, now, s, Base(later, i), m)
          PROVE  Spent(later, now, i) <= m - Start(later, i)
        <3>1. CASE i = n
            <4>1. Base(later, n) = depth + 1 /\ Start(later, n) = s
                BY <1>2, <1>3 DEF Base, Start
            <4>2. m = s
                <5>1. \A j \in now : later[j].depth < depth + 1
                    BY <1>1, <1>2, <1>3, <1>4
                <5>2. \A j \in now : later[j].depth # depth + 1
                    <6> TAKE j \in now
                    <6>1. later[j].depth \in Nat
                        BY <1>1, <1>2, <1>3
                    <6> QED
                        BY <1>1, <5>1, <6>1
                <5> QED
                    BY <2>2, <3>1, <4>1, <5>2 DEF Limit
            <4>3. Spent(later, now, n) = 0
                <5>1. Group(later, n) = {}
                    <6>1. Group(later, n) \subseteq DOMAIN later /\ \A j \in Group(later, n) : n < j
                        BY <1>3, GroupIs
                    <6> QED
                        BY <1>1, <1>3, <6>1
                <5>2. Group(later, n) \ now = {}
                    BY <5>1
                <5>3. IsFiniteSet({}) /\ Numbers(SqlOf(later), {})
                    BY FS_EmptySet DEF Numbers
                <5>4. Total(SqlOf(later), {}) = 0
                    BY <5>3, TotalAdds
                <5> QED
                    BY <5>2, <5>4, Zenon DEF Spent
            <4> QED
                BY <1>1, <3>1, <4>1, <4>2, <4>3
        <3>2. CASE i # n
            <4>1. i \in open \union {0} /\ i \in (DOMAIN calls) \union {0}
                BY <1>1, <3>2
            <4>2. Base(later, i) = Base(calls, i) /\ Start(later, i) = Start(calls, i)
                BY <1>3, <4>1 DEF Base, Start
            <4>3. Base(calls, i) <= depth /\ Base(calls, i) \in Nat
                BY <1>1, <1>4, <4>1 DEF Base
            <4>4. Limit(calls, depth, open, s, Base(calls, i), m)
                <5>1. PICK j \in now : later[j].depth = Base(calls, i) /\ m = later[j].sql
                    BY <1>1, <2>2, <4>2, <4>3 DEF Limit
                <5>2. CASE j \in open
                    BY <1>1, <1>3, <5>1, <5>2 DEF Limit
                <5>3. CASE j = n
                    BY <1>2, <1>3, <5>1, <5>3 DEF Limit
                <5> QED
                    BY <5>2, <5>3
            <4>5. Spent(calls, open, i) <= m - Start(calls, i)
                BY <4>1, <4>4 DEF FlowInv, FlowSpent
            <4> QED
                BY <1>11, <4>1, <4>2, <4>5
        <3> QED
            BY <3>1, <3>2
    <2> QED
        BY <2>1, <2>2 DEF FlowSpent
<1>13. FlowInv(later, depth + 1, now, s)
    BY <1>7, <1>8, <1>12 DEF FlowInv
<1> QED
    BY <1>13 DEF later, e, n

\* The innermost call returns.
LEMMA FlowReturns ==
    ASSUME NEW calls, NEW depth, NEW open, NEW s, FlowInv(calls, depth, open, s),
           NEW c \in open, \A i \in open : i <= c
    PROVE  /\ FlowInv([calls EXCEPT ![c].sql = s - @], depth - 1, open \ {c}, s)
           /\ depth >= 1
<1> DEFINE e == [calls[c] EXCEPT !.sql = s - @]
           later == [calls EXCEPT ![c].sql = s - @]
           now == open \ {c}
           cost == s - calls[c].sql
<1>1. /\ calls \in Seq(Entry) /\ open \subseteq DOMAIN calls /\ s \in Nat /\ depth \in Nat
      /\ DOMAIN calls = 1..Len(calls) /\ Len(calls) \in Nat /\ depth \in 0..MAX_DEPTH + 1
      /\ \A i \in DOMAIN calls : i \in Nat /\ i >= 1 /\ calls[i].depth \in Nat /\ calls[i].sql \in Nat
    <2>1. calls \in Seq(Entry) /\ open \subseteq DOMAIN calls /\ s \in Nat /\ depth \in 0..MAX_DEPTH + 1
        BY DEF FlowInv, FlowShape
    <2>2. MAX_DEPTH \in Nat
        BY TraceAssumption
    <2> QED
        BY <2>1, <2>2, CallsAre
<1>2. \A i \in open : calls[i].depth < depth
    BY DEF FlowInv, FlowOpen
<1>3. \A d \in 0..depth - 1 : \E i \in open : calls[i].depth = d
    BY DEF FlowInv, FlowOpen
<1>4. \A i \in open, j \in DOMAIN calls : i < j => calls[i].depth < calls[j].depth
    BY DEF FlowInv, FlowOpen
<1>5. c \in DOMAIN calls /\ c \in Nat /\ c >= 1 /\ calls[c].depth \in Nat /\ calls[c].sql \in Nat
    BY <1>1
<1>6. \A i \in now : i < c /\ i \in open /\ i \in DOMAIN calls /\ calls[i].depth < calls[c].depth
    BY <1>1, <1>4, <1>5
<1>7. calls[c].depth = depth - 1 /\ depth >= 1
    <2>1. calls[c].depth < depth
        BY <1>2
    <2>2. depth >= 1 /\ depth - 1 \in 0..depth - 1
        BY <1>1, <1>5, <2>1
    <2>3. PICK i \in open : calls[i].depth = depth - 1
        BY <1>3, <2>2
    <2>4. CASE i = c
        BY <2>2, <2>3, <2>4
    <2>5. CASE i # c
        <3>1. calls[i].depth < calls[c].depth
            BY <1>6, <2>3, <2>5
        <3> QED
            BY <1>1, <1>5, <2>1, <2>3, <3>1
    <2> QED
        BY <2>4, <2>5
<1>8. \A m \in Nat : Limit(calls, depth, open, s, Base(calls, c), m)
                         => Spent(calls, open, c) <= m - Start(calls, c)
    BY DEF FlowInv, FlowSpent
<1>9. cost \in Nat /\ Spent(calls, open, c) <= cost
    <2>1. Base(calls, c) = depth /\ Start(calls, c) = calls[c].sql
        BY <1>1, <1>5, <1>7 DEF Base, Start
    <2>2. Limit(calls, depth, open, s, Base(calls, c), s)
        BY <2>1 DEF Limit
    <2>3. Spent(calls, open, c) <= cost
        BY <1>1, <1>8, <2>1, <2>2
    <2>4. Spent(calls, open, c) \in Nat
        BY <1>1, <1>5, SpentIs
    <2> QED
        BY <1>1, <1>5, <2>3, <2>4
<1>10. e \in Entry /\ e.depth = calls[c].depth /\ e.sql = cost
    <2>1. calls[c] \in Entry
        BY <1>1, <1>5
    <2> QED
        BY <1>9, <2>1 DEF Entry
<1>11. later = [calls EXCEPT ![c] = e]
    OBVIOUS
<1> HIDE DEF e, later, cost
<1>12. /\ later \in Seq(Entry) /\ Len(later) = Len(calls) /\ DOMAIN later = DOMAIN calls
       /\ later[c] = e /\ \A i \in DOMAIN calls : i # c => later[i] = calls[i]
    BY <1>1, <1>5, <1>10, <1>11
<1>13. \A i \in DOMAIN calls : later[i].depth = calls[i].depth
    BY <1>10, <1>12
<1>14. FlowShape(later, depth - 1, now, s)
    <2>1. depth - 1 \in 0..MAX_DEPTH + 1
        <3>1. MAX_DEPTH \in Nat
            BY TraceAssumption
        <3> QED
            BY <1>1, <1>7, <3>1
    <2>2. Len(later) <= MAX_CALLS
        BY <1>12 DEF FlowInv, FlowShape
    <2>3. later[1].depth = 0
        <3>1. 1 \in DOMAIN calls /\ calls # <<>>
            BY <1>1, <1>5
        <3>2. calls[1].depth = 0
            BY <3>1 DEF FlowInv, FlowShape
        <3> QED
            BY <1>13, <3>1, <3>2
    <2> QED
        BY <1>1, <1>12, <2>1, <2>2, <2>3 DEF FlowShape
<1>15. FlowOpen(later, depth - 1, now)
    <2>1. \A i \in now : later[i].depth < depth - 1
        BY <1>6, <1>7, <1>13
    <2>2. \A d \in 0..(depth - 1) - 1 : \E i \in now : later[i].depth = d
        <3> SUFFICES ASSUME NEW d \in 0..(depth - 1) - 1 PROVE \E i \in now : later[i].depth = d
            OBVIOUS
        <3>1. d \in 0..depth - 1 /\ d # depth - 1
            BY <1>1
        <3>2. PICK i \in open : calls[i].depth = d
            BY <1>3, <3>1
        <3> QED
            BY <1>1, <1>7, <1>13, <3>1, <3>2
    <2>3. \A i \in now, j \in DOMAIN later : i < j => later[i].depth < later[j].depth
        BY <1>4, <1>6, <1>12, <1>13
    <2> QED
        BY <2>1, <2>2, <2>3 DEF FlowOpen
<1>16. \A i \in (DOMAIN calls) \union {0} :
          /\ Group(later, i) = Group(calls, i) /\ Group(calls, i) \subseteq DOMAIN calls
          /\ IsFiniteSet(Group(calls, i))
    <2>1. \A i \in (DOMAIN calls) \union {0} : Group(later, i) \intersect DOMAIN calls = Group(calls, i)
        <3>1. Len(calls) <= Len(later)
            BY <1>1, <1>12
        <3> QED
            BY <1>1, <1>12, <1>13, <3>1, GroupsStand
    <2>2. \A i \in (DOMAIN calls) \union {0} : Group(later, i) \subseteq DOMAIN calls
        BY <1>12, GroupIs
    <2>3. \A i \in (DOMAIN calls) \union {0} :
              Group(calls, i) \subseteq DOMAIN calls /\ IsFiniteSet(Group(calls, i))
        BY <1>1, GroupIs
    <2> QED
        BY <2>1, <2>2, <2>3
\* What does not have c in it has spent the same.
<1>17. ASSUME NEW i \in (DOMAIN calls) \union {0}, c \notin Group(calls, i)
       PROVE  Spent(later, now, i) = Spent(calls, open, i)
    <2> DEFINE S == Group(calls, i) \ open
    <2>1. Group(later, i) \ now = S
        BY <1>16, <1>17
    <2>2. S \in SUBSET DOMAIN calls /\ S \subseteq DOMAIN later /\ \A j \in S : later[j].sql = calls[j].sql
        BY <1>12, <1>16, <1>17
    <2> HIDE DEF S
    <2>3. Total(SqlOf(later), S) = Total(SqlOf(calls), S)
        BY <1>1, <1>12, <2>2, SqlsStand
    <2> QED
        BY <2>1, <2>3, Zenon DEF Spent, S
<1>18. ASSUME NEW i \in (DOMAIN calls) \union {0}, c \in Group(calls, i)
       PROVE  Spent(later, now, i) = Spent(calls, open, i) + cost
    <2> DEFINE S == Group(calls, i) \ open
    <2>1. Group(later, i) \ now = S \union {c} /\ S = (S \union {c}) \ {c}
        BY <1>16, <1>18
    <2>2. S \in SUBSET DOMAIN calls /\ S \subseteq DOMAIN later /\ \A j \in S : later[j].sql = calls[j].sql
        BY <1>12, <1>16, <1>18
    <2>3. S \union {c} \in SUBSET DOMAIN later /\ c \in S \union {c}
        BY <1>5, <1>12, <2>2
    <2> HIDE DEF S
    <2>4. Total(SqlOf(later), S) = Total(SqlOf(calls), S)
        BY <1>1, <1>12, <2>2, SqlsStand
    <2>5. /\ IsFiniteSet(S \union {c}) /\ Numbers(SqlOf(later), S \union {c})
          /\ SqlOf(later)[c] = later[c].sql
        BY <1>12, <2>3, SqlsAreNumbers
    <2>6. /\ Total(SqlOf(later), S \union {c}) = SqlOf(later)[c] + Total(SqlOf(later), (S \union {c}) \ {c})
          /\ Total(SqlOf(later), (S \union {c}) \ {c}) \in Int
        BY <2>3, <2>5, TotalAdds
    <2>7. Spent(calls, open, i) = Total(SqlOf(calls), S)
        BY DEF Spent, S
    <2>8. Spent(later, now, i) = Total(SqlOf(later), S \union {c})
        BY <2>1, Zenon DEF Spent
    <2>9. Total(SqlOf(later), (S \union {c}) \ {c}) = Total(SqlOf(later), S)
        BY <2>1, Zenon
    <2>10. later[c].sql = cost
        BY <1>10, <1>12
    <2> QED
        BY <1>9, <2>4, <2>5, <2>6, <2>7, <2>8, <2>9, <2>10
\* Right below an open call are the calls of the next depth.
<1>19. \A i \in now \union {0} : c \in Group(calls, i) <=> Base(calls, i) = calls[c].depth
    <2> TAKE i \in now \union {0}
    <2>1. CASE i = 0
        BY <1>5, <2>1 DEF Group, Base
    <2>2. CASE i # 0
        <3>1. i \in now /\ i < c /\ i \in open /\ i \in DOMAIN calls /\ calls[i].depth \in Nat
              /\ calls[i].depth < calls[c].depth
            BY <1>1, <1>6, <2>2
        <3>2. c \in Group(calls, i) <=> i \in Parent(calls, c)
            BY <1>5, <2>2 DEF Group, Children
        <3>3. ASSUME i \in Parent(calls, c) PROVE calls[i].depth + 1 = calls[c].depth
            <4> SUFFICES ASSUME calls[i].depth + 1 < calls[c].depth PROVE FALSE
                BY <1>5, <3>1
            <4>1. calls[i].depth + 1 \in 0..depth - 1
                BY <1>1, <1>5, <1>7, <3>1
            <4>2. PICK j \in open : calls[j].depth = calls[i].depth + 1
                BY <1>3, <4>1
            <4>3. j \in now /\ j < c /\ j \in DOMAIN calls
                BY <1>5, <1>6, <4>2
            <4>4. i < j
                <5>1. ~(j < i)
                    BY <1>1, <1>4, <3>1, <4>2, <4>3
                <5>2. i # j /\ i \in Nat /\ j \in Nat
                    BY <1>1, <3>1, <4>2, <4>3
                <5> QED
                    BY <5>1, <5>2
            <4>5. j \in i + 1..c - 1
                BY <1>1, <1>5, <3>1, <4>3, <4>4
            <4>6. calls[j].depth >= calls[c].depth
                BY <3>3, <4>5 DEF Parent
            <4> QED
                BY <1>1, <1>5, <3>1, <4>2, <4>3, <4>6
        <3>4. ASSUME calls[i].depth + 1 = calls[c].depth PROVE i \in Parent(calls, c)
            <4>1. i \in 1..c - 1
                BY <1>1, <1>5, <3>1
            <4>2. \A k \in i + 1..c - 1 : k \in DOMAIN calls /\ i < k
                BY <1>1, <1>5, <3>1
            <4>3. \A k \in i + 1..c - 1 : calls[k].depth >= calls[c].depth
                <5> TAKE k \in i + 1..c - 1
                <5>1. calls[i].depth < calls[k].depth /\ calls[k].depth \in Nat
                    BY <1>1, <1>4, <3>1, <4>2
                <5> QED
                    BY <1>5, <3>1, <3>4, <5>1
            <4> QED
                BY <3>1, <4>1, <4>3 DEF Parent
        <3> QED
            BY <2>2, <3>2, <3>3, <3>4 DEF Base
    <2> QED
        BY <2>1, <2>2
<1>20. FlowSpent(later, depth - 1, now, s)
    <2>1. ASSUME NEW i \in (DOMAIN later) \ now
          PROVE  Group(later, i) \intersect now = {} /\ Spent(later, now, i) <= later[i].sql
        <3>1. CASE i = c
            <4>1. c \in (DOMAIN calls) \union {0} /\ \A j \in Group(calls, c) : c < j
                BY <1>1, <1>5, GroupIs
            <4>2. c \notin Group(calls, c) /\ Group(later, c) \intersect now = {}
                <5>1. c \notin Group(calls, c)
                    BY <1>5, <4>1
                <5>2. \A j \in now : j < c /\ j \in Nat
                    BY <1>1, <1>6
                <5>3. \A j \in now : j \notin Group(calls, c)
                    BY <1>5, <4>1, <5>2
                <5>4. Group(later, c) = Group(calls, c)
                    BY <1>16, <4>1
                <5> QED
                    BY <5>1, <5>3, <5>4
            <4>3. Spent(later, now, c) = Spent(calls, open, c)
                BY <1>17, <4>1, <4>2
            <4> QED
                BY <1>9, <1>10, <1>12, <3>1, <4>2, <4>3
        <3>2. CASE i # c
            <4>1. i \in (DOMAIN calls) \ open /\ i \in (DOMAIN calls) \union {0}
                BY <1>12, <3>2
            <4>2. Group(calls, i) \intersect open = {} /\ Spent(calls, open, i) <= calls[i].sql
                BY <4>1 DEF FlowInv, FlowSpent
            <4>3. c \notin Group(calls, i)
                BY <4>2
            <4>4. Group(later, i) \intersect now = {}
                BY <1>16, <4>1, <4>2
            <4>5. Spent(later, now, i) = Spent(calls, open, i)
                BY <1>17, <4>1, <4>3
            <4> QED
                BY <1>12, <3>2, <4>1, <4>2, <4>4, <4>5
        <3> QED
            BY <3>1, <3>2
    <2>2. ASSUME NEW i \in now \union {0}, NEW m \in Nat,
                 Limit(later, depth - 1, now, s, Base(later, i), m)
          PROVE  Spent(later, now, i) <= m - Start(later, i)
        <3>1. i \in open \union {0} /\ i \in (DOMAIN calls) \union {0} /\ i # c
            BY <1>1, <1>5, <1>6
        <3>2. Base(later, i) = Base(calls, i) /\ Start(later, i) = Start(calls, i)
            BY <1>12, <1>13, <3>1 DEF Base, Start
        <3>3. Spent(calls, open, i) \in Nat /\ Start(calls, i) \in Nat /\ Base(calls, i) \in Nat
            BY <1>1, <3>1, SpentIs
        <3>4. \A k \in Nat : Limit(calls, depth, open, s, Base(calls, i), k)
                                 => Spent(calls, open, i) <= k - Start(calls, i)
            BY <3>1 DEF FlowInv, FlowSpent
        <3>5. CASE Base(calls, i) = depth - 1 /\ m = s
            <4>1. Spent(later, now, i) = Spent(calls, open, i) + cost
                BY <1>7, <1>18, <1>19, <3>1, <3>5
            <4>2. Limit(calls, depth, open, s, Base(calls, i), calls[c].sql)
                BY <1>7, <3>5 DEF Limit
            <4>3. Spent(calls, open, i) <= calls[c].sql - Start(calls, i)
                BY <1>5, <3>4, <4>2
            <4>4. cost = s - calls[c].sql
                BY DEF cost
            <4> QED
                BY <1>1, <1>5, <3>2, <3>3, <3>5, <4>1, <4>3, <4>4
        <3>6. CASE \E j \in now : later[j].depth = Base(later, i) /\ m = later[j].sql
            <4>1. PICK j \in now : later[j].depth = Base(later, i) /\ m = later[j].sql
                BY <3>6
            <4>2. j \in open /\ calls[j].depth = Base(calls, i) /\ m = calls[j].sql
                  /\ calls[j].depth < calls[c].depth /\ calls[j].depth \in Nat
                BY <1>1, <1>6, <1>12, <3>2, <4>1
            <4>3. c \notin Group(calls, i)
                BY <1>5, <1>19, <4>2
            <4>4. Spent(later, now, i) = Spent(calls, open, i)
                BY <1>17, <3>1, <4>3
            <4>5. Limit(calls, depth, open, s, Base(calls, i), m)
                BY <4>2 DEF Limit
            <4> QED
                BY <3>2, <3>4, <4>4, <4>5
        <3> QED
            BY <2>2, <3>2, <3>5, <3>6 DEF Limit
    <2> QED
        BY <2>1, <2>2 DEF FlowSpent
<1>21. FlowInv(later, depth - 1, now, s)
    BY <1>14, <1>15, <1>20 DEF FlowInv
<1> QED
    BY <1>7, <1>21 DEF later

\* When all are over, the shares of the calls add up.
LEMMA FlowAddsUp ==
    ASSUME NEW calls, NEW depth, NEW s, FlowInv(calls, depth, {}, s)
    PROVE  LET self == compute_self_sql(calls)
               Outermost == {i \in DOMAIN calls : calls[i].depth = 0}
           IN  /\ \A i \in DOMAIN self : self[i] >= 0
               /\ Total(self, DOMAIN self) = Total(SqlOf(calls), Outermost)
               /\ Total(self, DOMAIN self) <= s
<1> DEFINE self == compute_self_sql(calls)
           Outermost == {i \in DOMAIN calls : calls[i].depth = 0}
           D == DOMAIN calls
           f == SqlOf(calls)
           K == [i \in D |-> Children(calls, i)]
<1>1. /\ calls \in Seq(Entry) /\ s \in Nat /\ depth \in 0..MAX_DEPTH + 1
      /\ (calls # <<>> => calls[1].depth = 0)
    BY DEF FlowInv, FlowShape
<1>2. /\ D = 1..Len(calls) /\ IsFiniteSet(D) /\ Numbers(f, D)
      /\ \A i \in D : i \in Nat /\ i # 0 /\ calls[i].sql \in Nat /\ f[i] = calls[i].sql
    <2>1. D = 1..Len(calls) /\ \A i \in D : i \in Nat /\ i >= 1 /\ calls[i].sql \in Nat
        BY <1>1, CallsAre
    <2>2. D \in SUBSET DOMAIN calls
        OBVIOUS
    <2>3. IsFiniteSet(D) /\ Numbers(f, D) /\ \A i \in D : f[i] = calls[i].sql
        BY <1>1, <2>2, SqlsAreNumbers
    <2> QED
        BY <2>1, <2>3
<1>3. DOMAIN self = D /\ \A i \in D : self[i] = f[i] - Total(f, K[i])
    BY <1>2 DEF compute_self_sql
<1>4. \A i \in D : self[i] >= 0
    <2> TAKE i \in D
    <2>1. Spent(calls, {}, i) <= calls[i].sql
        BY DEF FlowInv, FlowSpent
    <2>2. Group(calls, i) \ {} = K[i]
        BY <1>2 DEF Group
    <2>3. Total(f, K[i]) <= calls[i].sql
        BY <2>1, <2>2, Zenon DEF Spent
    <2>4. K[i] \in SUBSET DOMAIN calls
        BY DEF Children
    <2>5. Total(f, K[i]) \in Nat
        BY <1>1, <2>4, SqlsAreNumbers
    <2> HIDE DEF self, f, K
    <2>6. self[i] = f[i] - Total(f, K[i]) /\ f[i] = calls[i].sql /\ calls[i].sql \in Nat
        BY <1>2, <1>3
    <2> QED
        BY <2>3, <2>5, <2>6
<1>5. Total(self, D) = Total(f, D \ UNION {K[i] : i \in D})
    <2>1. \A i \in D : K[i] \subseteq D
        BY DEF Children
    <2>2. \A i, j \in D : i # j => K[i] \intersect K[j] = {}
        <3> SUFFICES ASSUME NEW i \in D, NEW j \in D, i # j, NEW k \in K[i] \intersect K[j] PROVE FALSE
            OBVIOUS
        <3>1. k \in DOMAIN calls /\ i \in Parent(calls, k) /\ j \in Parent(calls, k)
            <4>1. K[i] = Children(calls, i) /\ K[j] = Children(calls, j)
                OBVIOUS
            <4> HIDE DEF K
            <4>2. k \in Children(calls, i) /\ k \in Children(calls, j)
                BY <4>1
            <4> QED
                BY <4>2 DEF Children
        <3> QED
            BY <1>1, <3>1, ParentIsOne
    <2> HIDE DEF D, f, K, self
    <2>3. Apart(K, D) /\ IsShare(self, f, K, D)
        BY <1>3, <2>1, <2>2 DEF Apart, IsShare
    <2> QED
        BY <1>2, <2>3, SharesAddUp
<1>6. D \ UNION {K[i] : i \in D} = Outermost
    <2>1. ASSUME NEW j \in D PROVE (\E i \in D : j \in K[i]) <=> Parent(calls, j) # {}
        BY <1>1, ParentIsOne DEF Children
    <2>2. ASSUME NEW j \in D PROVE Parent(calls, j) = {} <=> calls[j].depth = 0
        <3>1. calls # <<>>
            BY <1>1
        <3> QED
            BY <1>1, <3>1, ParentIsThere
    <2> HIDE DEF K
    <2> QED
        BY <2>1, <2>2
<1>7. Total(self, D) = Total(f, Outermost)
    BY <1>5, <1>6, Zenon
<1>8. Total(f, Outermost) <= s
    <2>1. depth = 0
        <3>1. \A d \in 0..depth - 1 : \E i \in {} : calls[i].depth = d
            BY DEF FlowInv, FlowOpen
        <3>2. depth \in Nat
            BY <1>1, TraceAssumption
        <3>3. depth # 0 => 0 \in 0..depth - 1
            BY <3>2
        <3> QED
            BY <3>1, <3>3
    <2>2. Limit(calls, depth, {}, s, Base(calls, 0), s) /\ Start(calls, 0) = 0
        BY <2>1 DEF Limit, Base, Start
    <2>3. Spent(calls, {}, 0) <= s - Start(calls, 0)
        BY <1>1, <2>2 DEF FlowInv, FlowSpent
    <2>4. Group(calls, 0) \ {} = Outermost
        BY DEF Group
    <2>5. Spent(calls, {}, 0) = Total(f, Outermost)
        BY <2>4, Zenon DEF Spent
    <2> HIDE DEF f, Outermost
    <2> QED
        BY <1>1, <2>2, <2>3, <2>5
<1> HIDE DEF self, Outermost, f
<1>9. DOMAIN self = D
    BY <1>3
<1>10. /\ \A i \in DOMAIN self : self[i] >= 0
       /\ Total(self, DOMAIN self) = Total(f, Outermost)
       /\ Total(self, DOMAIN self) <= s
    BY <1>4, <1>7, <1>8, <1>9
<1> QED
    BY <1>10 DEF self, Outermost, f

LEMMA SeqOf ==
    ASSUME NEW S, NEW T, NEW q \in Seq(S), \A i \in 1..Len(q) : q[i] \in T
    PROVE  q \in Seq(T)
OBVIOUS

-----------------------------------------------------------------------------
(* The stack of esg_sample: the models of the open calls of addon code.     *)

\* The frame of each entry of the stack.
Tracks(frames, stack, pos) ==
    /\ frames \in Seq(Frame) /\ stack \in Seq(Model) /\ pos \in Seq(DOMAIN frames)
    /\ Len(pos) = Len(stack)
    /\ \A i \in DOMAIN pos : frames[pos[i]].addon /\ frames[pos[i]].model = stack[i]
    /\ \A i, j \in DOMAIN pos : i < j => pos[i] < pos[j]
    /\ \A k \in DOMAIN frames : frames[k].addon => \E i \in DOMAIN pos : pos[i] = k

-----------------------------------------------------------------------------
(* The invariant.                                                          *)

\* The entries of open frames in the trace.
Opened(frames) == {frames[k].idx : k \in DOMAIN frames} \ {0}

\* A frame that is called later has a later entry.
InOrder(frames) ==
    \A k, l \in DOMAIN frames :
        k < l /\ frames[k].idx # 0 /\ frames[l].idx # 0 => frames[k].idx < frames[l].idx

ToolOK ==
    /\ tool \in Tools /\ commit \in BOOLEAN
    /\ step \in {"start", "method", "finally", "reported", "died", "over"}
    /\ report \in {"none", "committed", "rolled back"}
    /\ seeds \in 0..ESG_SEEDS /\ (step \in {"method", "finally"} => seeds > 0)

ConnOK ==
    /\ db \subseteq Writes /\ tx \subseteq Writes
    /\ mark = {} \/ \E w \in SUBSET Writes : mark = {w}
    /\ aborted \in BOOLEAN /\ own \in BOOLEAN /\ wrote \in 0..MaxWrites

CodeOK ==
    /\ live \in Seq(Frame) /\ Len(live) <= MaxFrames /\ (step # "method" => live = <<>>)
    /\ raising \in BOOLEAN /\ error \in BOOLEAN /\ fatal \in BOOLEAN /\ blind \in BOOLEAN /\ left \in 0..Recipe

FlowOK == FlowInv(flow.calls, flow.depth, Opened(live), sql) /\ InOrder(live)

SkeletonOK ==
    skeleton \in [stack : Seq(Model), edges : SUBSET (Model \X Model), n_calls : Nat]

\* While no limit is passed, the stack is that of the calls, and the edges are
\* theirs; those of the methods before are merged.
StackOK ==
    tool = "esg_sample" /\ ~blind =>
        /\ \A k \in DOMAIN live : live[k].followed <=> live[k].addon
        /\ \E pos \in Seq(DOMAIN live) : Tracks(live, skeleton.stack, pos)

EdgesOK ==
    tool = "esg_sample" /\ ~blind =>
        /\ nested = graph \union skeleton.edges
        /\ step \in {"start", "reported"} => skeleton.edges \subseteq graph

TraceInv == ToolOK /\ ConnOK /\ CodeOK /\ FlowOK /\ SkeletonOK /\ StackOK /\ EdgesOK

LEMMA StackStarts == Tracks(<<>>, <<>>, <<>>)
BY DEF Tracks

\* A frame of a model's addon code goes on the stack; another does not.
LEMMA StackCalls ==
    ASSUME NEW frames, NEW stack, NEW pos, Tracks(frames, stack, pos), NEW f \in Frame, NEW m \in Model,
           f.addon, f.model = m
    PROVE  \E q \in Seq(DOMAIN Append(frames, f)) : Tracks(Append(frames, f), Append(stack, m), q)
<1> DEFINE later == Append(frames, f)
           n == Len(frames) + 1
           q == Append(pos, n)
           s == Append(stack, m)
<1>1. /\ frames \in Seq(Frame) /\ stack \in Seq(Model) /\ pos \in Seq(DOMAIN frames)
      /\ Len(pos) = Len(stack)
    BY DEF Tracks
<1>2. /\ later \in Seq(Frame) /\ DOMAIN frames = 1..Len(frames) /\ Len(frames) \in Nat
      /\ DOMAIN later = (DOMAIN frames) \union {n} /\ later[n] = f /\ n \in Nat
      /\ \A k \in DOMAIN frames : later[k] = frames[k] /\ k < n /\ k \in Nat
    BY <1>1
<1> HIDE DEF later, n
<1>3. /\ s \in Seq(Model) /\ Len(s) = Len(stack) + 1 /\ Len(stack) \in Nat /\ s[Len(s)] = m
      /\ \A i \in 1..Len(stack) : s[i] = stack[i]
    BY <1>1
<1>4. DOMAIN pos = 1..Len(pos) /\ \A i \in DOMAIN pos : pos[i] \in DOMAIN frames
    BY <1>1
<1>5. Len(q) = Len(pos) + 1 /\ DOMAIN q = 1..Len(q) /\ q[Len(q)] = n /\ \A i \in DOMAIN pos : q[i] = pos[i]
    BY <1>1, <1>4
<1>6. q \in Seq(DOMAIN later)
    <2>1. \A i \in 1..Len(q) : q[i] \in DOMAIN later
        <3> TAKE i \in 1..Len(q)
        <3>1. i \in DOMAIN pos \/ i = Len(q)
            BY <1>1, <1>3, <1>4, <1>5
        <3> QED
            BY <1>2, <1>4, <1>5, <3>1
    <2>2. pos \in Seq(DOMAIN later) /\ n \in DOMAIN later
        <3>1. \A i \in 1..Len(pos) : pos[i] \in DOMAIN later
            BY <1>2, <1>4
        <3> QED
            BY <1>1, <1>2, <3>1, SeqOf
    <2> QED
        BY <2>2
<1> HIDE DEF q, s
<1>7. \A i \in DOMAIN q : i \in DOMAIN pos \/ i = Len(q)
    BY <1>1, <1>3, <1>4, <1>5
<1>8. \A i \in DOMAIN q : later[q[i]].addon /\ later[q[i]].model = s[i]
    <2> TAKE i \in DOMAIN q
    <2>1. CASE i \in DOMAIN pos
        <3>1. frames[pos[i]].addon /\ frames[pos[i]].model = stack[i]
            BY <2>1 DEF Tracks
        <3> QED
            BY <1>1, <1>2, <1>3, <1>4, <1>5, <2>1, <3>1
    <2>2. CASE i = Len(q)
        BY <1>1, <1>2, <1>3, <1>5, <2>2
    <2> QED
        BY <1>7, <2>1, <2>2
<1>9. \A i, j \in DOMAIN q : i < j => q[i] < q[j]
    <2> SUFFICES ASSUME NEW i \in DOMAIN q, NEW j \in DOMAIN q, i < j PROVE q[i] < q[j]
        OBVIOUS
    <2>1. i \in DOMAIN pos
        BY <1>1, <1>3, <1>4, <1>5
    <2>2. CASE j \in DOMAIN pos
        BY <1>5, <2>1, <2>2 DEF Tracks
    <2>3. CASE j = Len(q)
        BY <1>2, <1>4, <1>5, <2>1, <2>3
    <2> QED
        BY <1>7, <2>2, <2>3
<1>10. \A k \in DOMAIN later : later[k].addon => \E i \in DOMAIN q : q[i] = k
    <2> SUFFICES ASSUME NEW k \in DOMAIN later, later[k].addon PROVE \E i \in DOMAIN q : q[i] = k
        OBVIOUS
    <2>1. CASE k = n
        <3>1. Len(q) \in DOMAIN q
            BY <1>1, <1>3, <1>5
        <3> QED
            BY <1>5, <2>1, <3>1
    <2>2. CASE k \in DOMAIN frames
        <3>1. PICK i \in DOMAIN pos : pos[i] = k
            BY <1>2, <2>2 DEF Tracks
        <3>2. i \in DOMAIN q
            BY <1>1, <1>3, <1>4, <1>5
        <3> QED
            BY <1>5, <3>1, <3>2
    <2> QED
        BY <1>2, <2>1, <2>2
<1>11. Tracks(later, s, q)
    BY <1>1, <1>2, <1>3, <1>5, <1>6, <1>8, <1>9, <1>10 DEF Tracks
<1> QED
    BY <1>6, <1>11 DEF later, s

LEMMA StackSkips ==
    ASSUME NEW frames, NEW stack, NEW pos, Tracks(frames, stack, pos), NEW f \in Frame, ~f.addon
    PROVE  \E q \in Seq(DOMAIN Append(frames, f)) : Tracks(Append(frames, f), stack, q)
<1> DEFINE later == Append(frames, f)
           n == Len(frames) + 1
<1>1. /\ frames \in Seq(Frame) /\ stack \in Seq(Model) /\ pos \in Seq(DOMAIN frames)
      /\ Len(pos) = Len(stack)
    BY DEF Tracks
<1>2. /\ later \in Seq(Frame) /\ DOMAIN frames = 1..Len(frames) /\ Len(frames) \in Nat
      /\ DOMAIN later = (DOMAIN frames) \union {n} /\ later[n] = f
      /\ \A k \in DOMAIN frames : later[k] = frames[k]
    BY <1>1
<1> HIDE DEF later, n
<1>3. DOMAIN pos = 1..Len(pos) /\ \A i \in DOMAIN pos : pos[i] \in DOMAIN frames
    BY <1>1
<1>4. pos \in Seq(DOMAIN later)
    <2>1. \A i \in 1..Len(pos) : pos[i] \in DOMAIN later
        BY <1>2, <1>3
    <2> QED
        BY <1>1, <2>1, SeqOf
<1>5. \A i \in DOMAIN pos : later[pos[i]].addon /\ later[pos[i]].model = stack[i]
    BY <1>2, <1>3 DEF Tracks
<1>6. \A i, j \in DOMAIN pos : i < j => pos[i] < pos[j]
    BY DEF Tracks
<1>7. \A k \in DOMAIN later : later[k].addon => \E i \in DOMAIN pos : pos[i] = k
    BY <1>2 DEF Tracks
<1>8. Tracks(later, stack, pos)
    BY <1>1, <1>2, <1>4, <1>5, <1>6, <1>7 DEF Tracks
<1> QED
    BY <1>4, <1>8 DEF later

\* The last entry is of the innermost frame of addon code.
LEMMA StackTop ==
    ASSUME NEW frames, NEW stack, NEW pos, Tracks(frames, stack, pos)
    PROVE  {frames[i].model : i \in {j \in DOMAIN frames : frames[j].addon
                /\ \A k \in DOMAIN frames : frames[k].addon => k <= j}}
           = IF stack = <<>> THEN {} ELSE {stack[Len(stack)]}
<1> DEFINE A == {j \in DOMAIN frames : frames[j].addon
                    /\ \A k \in DOMAIN frames : frames[k].addon => k <= j}
<1>1. /\ frames \in Seq(Frame) /\ stack \in Seq(Model) /\ pos \in Seq(DOMAIN frames)
      /\ Len(pos) = Len(stack)
    BY DEF Tracks
<1>2. DOMAIN pos = 1..Len(pos) /\ Len(pos) \in Nat /\ \A i \in DOMAIN pos : pos[i] \in DOMAIN frames
    BY <1>1
<1>3. DOMAIN frames = 1..Len(frames) /\ Len(frames) \in Nat
    BY <1>1
<1>4. \A i \in DOMAIN pos : frames[pos[i]].addon /\ frames[pos[i]].model = stack[i]
    BY DEF Tracks
<1>5. \A i, j \in DOMAIN pos : i < j => pos[i] < pos[j]
    BY DEF Tracks
<1>6. \A k \in DOMAIN frames : frames[k].addon => \E i \in DOMAIN pos : pos[i] = k
    BY DEF Tracks
<1>7. CASE stack = <<>>
    <2>1. DOMAIN pos = {}
        BY <1>1, <1>2, <1>7
    <2>2. A = {}
        BY <1>6, <2>1
    <2> HIDE DEF A
    <2>3. {frames[i].model : i \in A} = {}
        BY <2>2
    <2> QED
        BY <1>7, <2>3 DEF A
<1>8. CASE stack # <<>>
    <2> DEFINE l == Len(stack)
    <2>1. l \in DOMAIN pos /\ \A i \in DOMAIN pos : i <= l
        BY <1>1, <1>2, <1>8
    <2>2. pos[l] \in A
        <3>1. ASSUME NEW k \in DOMAIN frames, frames[k].addon PROVE k <= pos[l]
            <4>1. PICK i \in DOMAIN pos : pos[i] = k
                BY <1>6, <3>1
            <4>2. i = l \/ i < l
                BY <1>2, <2>1
            <4>3. k \in Nat /\ pos[l] \in Nat
                BY <1>2, <1>3, <2>1
            <4>4. i < l => pos[i] < pos[l]
                BY <1>5, <2>1
            <4> QED
                BY <4>1, <4>2, <4>3, <4>4
        <3> QED
            BY <1>2, <1>4, <2>1, <3>1
    <2>3. ASSUME NEW j \in A PROVE j = pos[l]
        <3>1. j <= pos[l] /\ pos[l] <= j
            BY <1>2, <1>4, <2>1, <2>2
        <3>2. j \in Nat /\ pos[l] \in Nat
            BY <1>2, <1>3, <2>1
        <3> QED
            BY <3>1, <3>2
    <2> HIDE DEF A
    <2>4. A = {pos[l]}
        BY <2>2, <2>3
    <2>5. {frames[i].model : i \in A} = {frames[pos[l]].model}
        BY <2>4
    <2>6. frames[pos[l]].model = stack[l]
        BY <1>4, <2>1
    <2> QED
        BY <1>8, <2>5, <2>6 DEF A
<1> QED
    BY <1>7, <1>8

\* What returns is the last entry, if it is addon code.
LEMMA StackReturns ==
    ASSUME NEW frames, NEW stack, NEW pos, Tracks(frames, stack, pos), frames # <<>>
    PROVE  LET n == Len(frames)
               m == Len(stack)
               before == SubSeq(frames, 1, n - 1)
               s == IF frames[n].addon THEN SubSeq(stack, 1, m - 1) ELSE stack
           IN  /\ (frames[n].addon => stack # <<>>)
               /\ \E q \in Seq(DOMAIN before) : Tracks(before, s, q)
<1> DEFINE n == Len(frames)
           m == Len(stack)
           before == SubSeq(frames, 1, n - 1)
<1>1. /\ frames \in Seq(Frame) /\ stack \in Seq(Model) /\ pos \in Seq(DOMAIN frames)
      /\ Len(pos) = Len(stack)
    BY DEF Tracks
<1>2. /\ n \in Nat /\ n >= 1 /\ DOMAIN frames = 1..n
      /\ before \in Seq(Frame) /\ DOMAIN before = 1..n - 1
      /\ \A k \in 1..n - 1 : before[k] = frames[k]
    BY <1>1
<1>3. m \in Nat /\ DOMAIN pos = 1..m /\ Len(pos) = m /\ \A i \in DOMAIN pos : pos[i] \in 1..n
    BY <1>1, <1>2
<1> HIDE DEF n, m, before
<1>4. \A i \in DOMAIN pos : frames[pos[i]].addon /\ frames[pos[i]].model = stack[i]
    BY DEF Tracks
<1>5. \A i, j \in DOMAIN pos : i < j => pos[i] < pos[j]
    BY DEF Tracks
<1>6. \A k \in DOMAIN frames : frames[k].addon => \E i \in DOMAIN pos : pos[i] = k
    BY DEF Tracks
<1>7. CASE frames[n].addon
    <2>1. PICK i \in DOMAIN pos : pos[i] = n
        BY <1>2, <1>6, <1>7
    <2>2. i = m
        <3> SUFFICES ASSUME i < m PROVE FALSE
            BY <1>3, <2>1
        <3>1. m \in DOMAIN pos /\ pos[i] < pos[m]
            BY <1>3, <1>5
        <3>2. pos[m] \in 1..n
            BY <1>3, <3>1
        <3> QED
            BY <1>2, <2>1, <3>1, <3>2
    <2>3. m >= 1 /\ stack # <<>>
        <3>1. m >= 1
            BY <1>3, <2>2
        <3> QED
            BY <3>1 DEF m
    <2> DEFINE q == SubSeq(pos, 1, m - 1)
               s == SubSeq(stack, 1, m - 1)
    <2>4. /\ s \in Seq(Model) /\ Len(s) = m - 1 /\ \A j \in 1..m - 1 : s[j] = stack[j]
        BY <1>1, <2>3 DEF m
    <2>5. Len(q) = m - 1 /\ DOMAIN q = 1..m - 1 /\ \A j \in 1..m - 1 : q[j] = pos[j]
        BY <1>1, <1>3, <2>3
    <2>6. \A j \in 1..m - 1 : j \in DOMAIN pos /\ pos[j] \in 1..n - 1 /\ j < m
        <3> TAKE j \in 1..m - 1
        <3>1. j \in DOMAIN pos /\ j < m /\ m \in DOMAIN pos
            BY <1>3, <2>3
        <3>2. pos[j] < pos[m] /\ pos[j] \in 1..n
            BY <1>3, <1>5, <3>1
        <3> QED
            BY <1>2, <2>1, <2>2, <3>1, <3>2
    <2>7. q \in Seq(DOMAIN before)
        <3>1. q \in Seq(DOMAIN frames)
            BY <1>1, <1>3, <2>3
        <3>2. \A j \in 1..Len(q) : q[j] \in DOMAIN before
            BY <1>2, <2>5, <2>6
        <3> HIDE DEF q
        <3> QED
            BY <3>1, <3>2, SeqOf
    <2> HIDE DEF q, s
    <2>8. \A j \in DOMAIN q : before[q[j]].addon /\ before[q[j]].model = s[j]
        <3> TAKE j \in DOMAIN q
        <3>1. q[j] = pos[j] /\ s[j] = stack[j] /\ j \in DOMAIN pos /\ pos[j] \in 1..n - 1
            BY <2>4, <2>5, <2>6
        <3>2. before[pos[j]] = frames[pos[j]]
            BY <1>2, <3>1
        <3> QED
            BY <1>4, <3>1, <3>2
    <2>9. \A j, k \in DOMAIN q : j < k => q[j] < q[k]
        BY <1>5, <2>5, <2>6
    <2>10. \A k \in DOMAIN before : before[k].addon => \E j \in DOMAIN q : q[j] = k
        <3> SUFFICES ASSUME NEW k \in DOMAIN before, before[k].addon PROVE \E j \in DOMAIN q : q[j] = k
            OBVIOUS
        <3>1. k \in DOMAIN frames /\ frames[k].addon /\ k # n
            BY <1>2
        <3>2. PICK j \in DOMAIN pos : pos[j] = k
            BY <1>6, <3>1
        <3>3. j \in 1..m - 1
            BY <1>3, <2>1, <2>2, <3>1, <3>2
        <3> QED
            BY <2>5, <3>2, <3>3
    <2>11. Tracks(before, s, q)
        BY <1>2, <2>4, <2>5, <2>7, <2>8, <2>9, <2>10 DEF Tracks
    <2> QED
        BY <1>7, <2>3, <2>7, <2>11 DEF s, n, m, before
<1>8. CASE ~frames[n].addon
    <2>1. \A i \in DOMAIN pos : pos[i] \in 1..n - 1
        <3> TAKE i \in DOMAIN pos
        <3>1. pos[i] \in 1..n /\ pos[i] # n
            BY <1>3, <1>4, <1>8
        <3> QED
            BY <1>2, <3>1
    <2>2. pos \in Seq(DOMAIN before)
        BY <1>1, <1>2, <1>3, <2>1, SeqOf
    <2>3. \A i \in DOMAIN pos : before[pos[i]].addon /\ before[pos[i]].model = stack[i]
        BY <1>2, <1>4, <2>1
    <2>4. \A k \in DOMAIN before : before[k].addon => \E i \in DOMAIN pos : pos[i] = k
        <3> SUFFICES ASSUME NEW k \in DOMAIN before, before[k].addon PROVE \E i \in DOMAIN pos : pos[i] = k
            OBVIOUS
        <3>1. k \in DOMAIN frames /\ frames[k].addon
            BY <1>2
        <3> QED
            BY <1>6, <3>1
    <2>5. Tracks(before, stack, pos)
        BY <1>1, <1>2, <1>5, <2>2, <2>3, <2>4 DEF Tracks
    <2> QED
        BY <1>8, <2>2, <2>5 DEF n, m, before
<1> QED
    BY <1>7, <1>8

\* Only models and code count.
LEMMA StackStands ==
    ASSUME NEW frames, NEW stack, NEW pos, Tracks(frames, stack, pos),
           NEW later \in Seq(Frame), DOMAIN later = DOMAIN frames,
           \A k \in DOMAIN frames : later[k].addon = frames[k].addon /\ later[k].model = frames[k].model
    PROVE  Tracks(later, stack, pos)
<1>1. pos \in Seq(DOMAIN later)
    BY DEF Tracks
<1>2. \A i \in DOMAIN pos : pos[i] \in DOMAIN frames
    BY DEF Tracks
<1>3. \A i \in DOMAIN pos : later[pos[i]].addon /\ later[pos[i]].model = stack[i]
    BY <1>2 DEF Tracks
<1>4. \A k \in DOMAIN later : later[k].addon => \E i \in DOMAIN pos : pos[i] = k
    BY DEF Tracks
<1> QED
    BY <1>1, <1>3, <1>4 DEF Tracks

LEMMA Bounds ==
    /\ Recipe \in Nat /\ Recipe >= 1 /\ ESG_SEEDS \in Nat /\ ESG_SEEDS >= 1
    /\ MaxFrames \in Nat /\ MaxWrites \in Nat
    /\ 0 \in 0..Recipe /\ 1 \in 0..Recipe /\ Recipe \in 0..Recipe /\ 0 \in 0..MaxWrites
    /\ \A n \in 0..ESG_SEEDS : n > 0 => n - 1 \in 0..ESG_SEEDS
<1>1. /\ Recipe \in Nat /\ Recipe >= 1 /\ ESG_SEEDS \in Nat /\ ESG_SEEDS >= 1
      /\ MaxFrames \in Nat /\ MaxWrites \in Nat
    BY RunAssumption
<1>2. 0 \in 0..Recipe /\ 1 \in 0..Recipe /\ Recipe \in 0..Recipe /\ 0 \in 0..MaxWrites
    BY <1>1
<1>3. \A n \in 0..ESG_SEEDS : n > 0 => n - 1 \in 0..ESG_SEEDS
    BY <1>1
<1> QED
    BY <1>1, <1>2, <1>3

\* More statements are no harm to the trace.
LEMMA MoreSql ==
    ASSUME TraceInv, sql' = sql + 1, UNCHANGED <<live, flow>>
    PROVE  FlowOK'
<1>1. PICK c, d, o, s, t : c = flow.calls /\ d = flow.depth /\ o = Opened(live) /\ s = sql /\ t = sql'
    OBVIOUS
<1>2. FlowInv(c, d, o, s)
    BY <1>1 DEF TraceInv, FlowOK, InOrder
<1>3. s \in Nat /\ t = s + 1
    BY <1>1, <1>2 DEF FlowInv, FlowShape
<1>4. FlowInv(c, d, o, t)
    BY <1>2, <1>3, FlowCounts
<1>5. Opened(live') = Opened(live)
    BY DEF Opened
<1>6. FlowInv(flow.calls, flow.depth, Opened(live), sql)'
    BY <1>1, <1>4, <1>5
<1> QED
    BY <1>6 DEF TraceInv, FlowOK, InOrder

\* A call that the trace records opens an entry, and its return closes it.
LEMMA OpenedCalls ==
    ASSUME NEW frames \in Seq(Frame), NEW f \in Frame
    PROVE  /\ Opened(Append(frames, f)) = Opened(frames) \union ({f.idx} \ {0})
           /\ InOrder(frames) /\ (\A i \in Opened(frames) : f.idx # 0 => i < f.idx)
                  => InOrder(Append(frames, f))
<1> DEFINE later == Append(frames, f)
           n == Len(frames) + 1
<1>1. /\ DOMAIN frames = 1..Len(frames) /\ Len(frames) \in Nat /\ n \in Nat
      /\ DOMAIN later = (DOMAIN frames) \union {n} /\ later[n] = f
      /\ \A k \in DOMAIN frames : later[k] = frames[k] /\ k < n /\ k \in Nat
    OBVIOUS
<1> HIDE DEF later, n
<1>2. Opened(later) = Opened(frames) \union ({f.idx} \ {0})
    BY <1>1 DEF Opened
<1>3. ASSUME InOrder(frames), \A i \in Opened(frames) : f.idx # 0 => i < f.idx
      PROVE  InOrder(later)
    <2> SUFFICES ASSUME NEW k \in DOMAIN later, NEW l \in DOMAIN later, k < l,
                        later[k].idx # 0, later[l].idx # 0
                 PROVE  later[k].idx < later[l].idx
        BY DEF InOrder
    <2>1. k \in DOMAIN frames
        BY <1>1
    <2>2. CASE l = n
        <3>1. frames[k].idx \in Opened(frames)
            BY <1>1, <2>1 DEF Opened
        <3> QED
            BY <1>1, <1>3, <2>1, <2>2, <3>1
    <2>3. CASE l \in DOMAIN frames
        BY <1>1, <1>3, <2>1, <2>3 DEF InOrder
    <2> QED
        BY <1>1, <2>2, <2>3
<1> QED
    BY <1>2, <1>3 DEF later

LEMMA OpenedReturns ==
    ASSUME NEW frames \in Seq(Frame), frames # <<>>, InOrder(frames)
    PROVE  LET c == frames[Len(frames)].idx
               before == SubSeq(frames, 1, Len(frames) - 1)
           IN  /\ Opened(before) = Opened(frames) \ {c} /\ InOrder(before)
               /\ c # 0 => c \in Opened(frames) /\ \A i \in Opened(frames) : i <= c
<1> DEFINE n == Len(frames)
           c == frames[n].idx
           before == SubSeq(frames, 1, n - 1)
<1>1. /\ n \in Nat /\ n >= 1 /\ DOMAIN frames = 1..n /\ n \in DOMAIN frames
      /\ DOMAIN before = 1..n - 1 /\ \A k \in 1..n - 1 : before[k] = frames[k]
    OBVIOUS
<1>2. \A k \in DOMAIN frames : frames[k].idx \in Nat
    <2>1. \A x \in Frame : x.idx \in Nat
        BY TraceAssumption DEF Frame
    <2>2. \A k \in DOMAIN frames : frames[k] \in Frame
        OBVIOUS
    <2> QED
        BY <2>1, <2>2
<1> HIDE DEF n, before
<1>3. \A k \in 1..n - 1 : frames[k].idx # 0 /\ c # 0 => frames[k].idx < c
    BY <1>1 DEF InOrder
<1>4. \A k \in DOMAIN frames : k = n \/ k \in 1..n - 1
    BY <1>1
<1>5. \A k \in 1..n - 1 : k \in DOMAIN frames
    BY <1>1
<1>6. Opened(before) = Opened(frames) \ {c}
    <2>1. \A k \in 1..n - 1 : frames[k].idx # 0 => frames[k].idx # c
        <3> SUFFICES ASSUME NEW k \in 1..n - 1, frames[k].idx # 0, frames[k].idx = c PROVE FALSE
            OBVIOUS
        <3>1. frames[k].idx < c /\ frames[k].idx \in Nat
            BY <1>2, <1>3, <1>5
        <3> QED
            BY <3>1
    <2>2. Opened(before) = {frames[k].idx : k \in 1..n - 1} \ {0}
        BY <1>1 DEF Opened
    <2>3. Opened(frames) = {frames[k].idx : k \in DOMAIN frames} \ {0}
        BY DEF Opened
    <2>4. \A x : x \in {frames[k].idx : k \in 1..n - 1} \ {0}
                     <=> x \in ({frames[k].idx : k \in DOMAIN frames} \ {0}) \ {c}
        BY <1>4, <1>5, <2>1
    <2> QED
        BY <2>2, <2>3, <2>4
<1>7. InOrder(before)
    BY <1>1, <1>5 DEF InOrder
<1>8. ASSUME c # 0 PROVE c \in Opened(frames) /\ \A i \in Opened(frames) : i <= c
    <2>1. c \in Opened(frames)
        BY <1>1, <1>8 DEF Opened
    <2>2. ASSUME NEW i \in Opened(frames) PROVE i <= c
        <3>1. PICK k \in DOMAIN frames : i = frames[k].idx /\ i # 0
            BY DEF Opened
        <3>2. i \in Nat /\ c \in Nat
            BY <1>1, <1>2, <3>1
        <3> QED
            BY <1>3, <1>4, <1>8, <3>1, <3>2
    <2> QED
        BY <2>1, <2>2
<1> QED
    BY <1>6, <1>7, <1>8 DEF n, before

LEMMA FramesAre ==
    ASSUME CodeOK
    PROVE  /\ DOMAIN live = 1..Len(live) /\ Len(live) \in Nat
           /\ \A k \in DOMAIN live : live[k] \in Frame /\ live[k].idx \in 0..MAX_CALLS
<1>1. live \in Seq(Frame)
    BY DEF CodeOK
<1>2. DOMAIN live = 1..Len(live) /\ Len(live) \in Nat /\ \A k \in DOMAIN live : live[k] \in Frame
    BY <1>1
<1>3. \A x \in Frame : x.idx \in 0..MAX_CALLS
    BY DEF Frame
<1> QED
    BY <1>2, <1>3

-----------------------------------------------------------------------------
(* The steps.                                                              *)

LEMMA InitTraces == Init => TraceInv
<1> SUFFICES ASSUME Init PROVE TraceInv
    OBVIOUS
<1>1. ToolOK
    BY RunAssumption DEF Init, ToolOK
<1>2. ConnOK
    <2>1. db = {} /\ tx = {} /\ mark = {} /\ aborted = FALSE /\ own = FALSE /\ wrote = 0
        BY DEF Init
    <2>2. wrote \in 0..MaxWrites
        BY <2>1, Bounds, Zenon
    <2> QED
        BY <2>1, <2>2 DEF ConnOK
<1>3. CodeOK
    <2>1. live = <<>> /\ raising = FALSE /\ error = FALSE /\ fatal = FALSE /\ blind = FALSE /\ left = 0
        BY DEF Init
    <2>2. left \in 0..Recipe
        BY <2>1, Bounds, Zenon
    <2>3. live \in Seq(Frame) /\ Len(live) <= MaxFrames
        BY <2>1, Bounds
    <2> QED
        BY <2>1, <2>2, <2>3 DEF CodeOK
<1>4. FlowOK
    <2>1. flow.calls = <<>> /\ flow.depth = 0 /\ sql = 0 /\ live = <<>>
        BY DEF Init, NoFlow
    <2>2. Opened(live) = {}
        BY <2>1 DEF Opened
    <2>3. FlowInv(flow.calls, flow.depth, Opened(live), sql)
        BY <2>1, <2>2, FlowStarts, Zenon
    <2> QED
        BY <2>1, <2>3 DEF FlowOK, InOrder
<1>5. SkeletonOK
    BY DEF Init, SkeletonOK, NoSkeleton
<1>6. StackOK
    <2>1. live = <<>> /\ skeleton.stack = <<>> /\ <<>> \in Seq(DOMAIN live)
        BY DEF Init, NoSkeleton
    <2>2. Tracks(live, skeleton.stack, <<>>)
        BY <2>1, StackStarts, Zenon
    <2>3. \A k \in DOMAIN live : live[k].followed <=> live[k].addon
        BY <2>1
    <2> QED
        BY <2>1, <2>2, <2>3 DEF StackOK
<1>7. EdgesOK
    BY DEF Init, EdgesOK, NoSkeleton
<1> QED
    BY <1>1, <1>2, <1>3, <1>4, <1>5, <1>6, <1>7 DEF TraceInv

\* Steps that leave the frames and the traces alone.
LEMMA FramesAside ==
    ASSUME TraceInv, UNCHANGED <<live, sql, flow, skeleton>>
    PROVE  FlowOK' /\ SkeletonOK' /\ (tool' = tool /\ blind' = blind => StackOK')
BY DEF TraceInv, FlowOK, SkeletonOK, StackOK, Opened

LEMMA RefuseTraces == ASSUME TraceInv, Refuse PROVE TraceInv'
<1>1. UNCHANGED <<tool, commit, seeds, report, conn, code, traces>> /\ step' = "died" /\ step = "start"
    BY DEF Refuse
<1>2. UNCHANGED <<live, sql, flow, skeleton, blind>>
    BY <1>1 DEF code, traces
<1>3. ToolOK' /\ ConnOK' /\ CodeOK' /\ EdgesOK'
    BY <1>1 DEF TraceInv, ToolOK, ConnOK, CodeOK, EdgesOK, conn, code, traces
<1> QED
    BY <1>1, <1>2, <1>3, FramesAside DEF TraceInv

LEMMA NoRecordTraces == ASSUME TraceInv, NoRecord PROVE TraceInv'
<1>1. /\ UNCHANGED <<tool, commit, step, report, db, tx, mark, wrote, own, code, traces>>
      /\ step = "start" /\ seeds > 0 /\ seeds' = seeds - 1 /\ aborted' \in {aborted, TRUE}
    BY DEF NoRecord
<1>2. UNCHANGED <<live, sql, flow, skeleton, blind>>
    BY <1>1 DEF code, traces
<1>3. ToolOK'
    <2>1. seeds' \in 0..ESG_SEEDS
        <3>1. seeds \in 0..ESG_SEEDS
            BY DEF TraceInv, ToolOK
        <3> QED
            BY <1>1, <3>1, Bounds
    <2> QED
        BY <1>1, <2>1 DEF TraceInv, ToolOK
<1>4. ConnOK'
    BY <1>1 DEF TraceInv, ConnOK
<1>5. CodeOK' /\ EdgesOK'
    BY <1>1 DEF TraceInv, CodeOK, EdgesOK, code, traces
<1> QED
    BY <1>1, <1>2, <1>3, <1>4, <1>5, FramesAside DEF TraceInv

LEMMA SavepointTraces == ASSUME TraceInv, Savepoint PROVE TraceInv'
<1>1. /\ UNCHANGED <<tool, commit, seeds, report, db, tx, aborted, wrote, own, live, raising,
                     fatal, entered, graph, nested, blind>>
      /\ step = "start" /\ seeds > 0 /\ mark' = {tx} /\ step' = "method"
      /\ left' = (IF tool = "fixture_factory" THEN Recipe ELSE 1)
      /\ error' = FALSE /\ sql' = 0 /\ flow' = NoFlow /\ skeleton' = NoSkeleton
    BY DEF Savepoint
<1>2. live = <<>> /\ live' = <<>>
    BY <1>1 DEF TraceInv, CodeOK
<1>3. ToolOK'
    BY <1>1 DEF TraceInv, ToolOK
<1>4. ConnOK'
    BY <1>1 DEF TraceInv, ConnOK
<1>5. CodeOK'
    <2>1. left' \in 0..Recipe
        BY <1>1, Bounds, Zenon
    <2> QED
        BY <1>1, <1>2, <2>1 DEF TraceInv, CodeOK
<1>6. FlowOK'
    <2>1. flow'.calls = <<>> /\ flow'.depth = 0 /\ Opened(live') = {}
        BY <1>1, <1>2 DEF NoFlow, Opened
    <2>2. FlowInv(flow.calls, flow.depth, Opened(live), sql)'
        BY <1>1, <2>1, FlowStarts, Zenon
    <2> QED
        BY <1>2, <2>2 DEF FlowOK, InOrder
<1>7. SkeletonOK'
    BY <1>1 DEF SkeletonOK, NoSkeleton
<1>8. StackOK'
    <2>1. skeleton'.stack = <<>> /\ <<>> \in Seq(DOMAIN live')
        BY <1>1, <1>2 DEF NoSkeleton
    <2>2. Tracks(live, skeleton.stack, <<>>)'
        BY <1>2, <2>1, StackStarts, Zenon
    <2>3. \A k \in DOMAIN live' : live'[k].followed <=> live'[k].addon
        BY <1>2
    <2> QED
        BY <2>1, <2>2, <2>3 DEF StackOK
<1>9. EdgesOK'
    BY <1>1 DEF TraceInv, EdgesOK, NoSkeleton
<1> QED
    BY <1>3, <1>4, <1>5, <1>6, <1>7, <1>8, <1>9 DEF TraceInv

LEMMA EsgReportTraces == ASSUME TraceInv, EsgReport PROVE TraceInv'
<1>1. /\ UNCHANGED <<tool, commit, seeds, conn, code, traces>> /\ step = "start"
      /\ step' = "reported" /\ report' = IF commit THEN "committed" ELSE "rolled back"
    BY DEF EsgReport
<1>2. UNCHANGED <<live, sql, flow, skeleton, blind>>
    BY <1>1 DEF code, traces
<1>3. ToolOK' /\ ConnOK' /\ CodeOK' /\ EdgesOK'
    BY <1>1 DEF TraceInv, ToolOK, ConnOK, CodeOK, EdgesOK, conn, code, traces
<1> QED
    BY <1>1, <1>2, <1>3, FramesAside DEF TraceInv

LEMMA WriteTraces == ASSUME TraceInv, Write PROVE TraceInv'
<1>1. /\ UNCHANGED <<run, db, mark, aborted, own, code, flow, skeleton, graph, nested, blind>>
      /\ wrote < MaxWrites /\ wrote' = wrote + 1 /\ tx' = tx \union {wrote'} /\ sql' = sql + 1
    BY DEF Write
<1>2. UNCHANGED <<tool, commit, step, seeds, report, live, raising, error, fatal, left>>
    BY <1>1 DEF run, code
<1>3. ToolOK' /\ CodeOK' /\ SkeletonOK' /\ StackOK' /\ EdgesOK'
    BY <1>1, <1>2 DEF TraceInv, ToolOK, CodeOK, SkeletonOK, StackOK, EdgesOK
<1>4. ConnOK'
    <2>1. wrote' \in 0..MaxWrites /\ wrote' \in Writes
        BY <1>1, RunAssumption DEF TraceInv, ConnOK, Writes
    <2> QED
        BY <1>1, <2>1 DEF TraceInv, ConnOK
<1>5. FlowOK'
    BY <1>1, <1>2, MoreSql DEF TraceInv
<1> QED
    BY <1>3, <1>4, <1>5 DEF TraceInv

LEMMA RaiseTraces == ASSUME TraceInv, Raise PROVE TraceInv'
<1>1. /\ UNCHANGED <<run, db, tx, mark, wrote, own, live, error, fatal, left, entered, flow,
                     skeleton, graph, nested, blind>>
      /\ raising' = TRUE
      /\ \/ UNCHANGED <<aborted, sql>>
         \/ aborted' = TRUE /\ sql' = sql + 1
    BY DEF Raise
<1>2. UNCHANGED <<tool, commit, step, seeds, report>>
    BY <1>1 DEF run
<1>3. ToolOK' /\ SkeletonOK' /\ StackOK' /\ EdgesOK'
    BY <1>1, <1>2 DEF TraceInv, ToolOK, SkeletonOK, StackOK, EdgesOK
<1>5. ConnOK'
    BY <1>1 DEF TraceInv, ConnOK
<1>6. CodeOK'
    BY <1>1, <1>2 DEF TraceInv, CodeOK
<1>4. FlowOK'
    BY <1>1, MoreSql, FramesAside DEF TraceInv
<1> QED
    BY <1>3, <1>4, <1>5, <1>6 DEF TraceInv

LEMMA CatchTraces == ASSUME TraceInv, Catch \/ Interrupt PROVE TraceInv'
<1>1. UNCHANGED <<run, conn, live, error, left, entered, traces>>
      /\ raising' \in BOOLEAN /\ fatal' \in BOOLEAN
    BY DEF Catch, Interrupt
<1>2. UNCHANGED <<live, sql, flow, skeleton, blind, tool>>
    BY <1>1 DEF run, traces
<1>3. ToolOK' /\ ConnOK' /\ CodeOK' /\ EdgesOK'
    BY <1>1 DEF TraceInv, ToolOK, ConnOK, CodeOK, EdgesOK, run, conn, traces
<1> QED
    BY <1>2, <1>3, FramesAside DEF TraceInv

LEMMA EndsTransactionTraces == ASSUME TraceInv, EndsTransaction PROVE TraceInv'
<1>1. /\ UNCHANGED <<run, wrote, raising, error, fatal, left, entered, traces>> /\ own' = TRUE
      /\ (db' = db \union tx \/ db' = db) /\ tx' = {} /\ mark' = {} /\ aborted' = FALSE
      /\ step = "method"
      /\ live' = [i \in DOMAIN live |-> [live[i] EXCEPT !.save = {}]]
    BY DEF EndsTransaction, Working
<1>2. UNCHANGED <<tool, commit, step, seeds, report, sql, flow, skeleton, graph, nested, blind>>
    BY <1>1 DEF run, traces
<1>3. live \in Seq(Frame) /\ DOMAIN live = 1..Len(live) /\ Len(live) \in Nat
      /\ \A k \in DOMAIN live : live[k] \in Frame
    BY FramesAre DEF TraceInv, CodeOK
<1>4. \A x \in Frame : /\ [x EXCEPT !.save = {}] \in Frame /\ [x EXCEPT !.save = {}].idx = x.idx
                       /\ [x EXCEPT !.save = {}].addon = x.addon /\ [x EXCEPT !.save = {}].model = x.model
                       /\ [x EXCEPT !.save = {}].followed = x.followed
    BY DEF Frame
<1>5. /\ live' \in Seq(Frame) /\ Len(live') = Len(live) /\ DOMAIN live' = DOMAIN live
      /\ \A k \in DOMAIN live : live'[k].idx = live[k].idx /\ live'[k].addon = live[k].addon
                                /\ live'[k].model = live[k].model /\ live'[k].followed = live[k].followed
    <2>1. DOMAIN live' = 1..Len(live) /\ \A k \in DOMAIN live : live'[k] = [live[k] EXCEPT !.save = {}]
        BY <1>1, <1>3
    <2>2. \A k \in DOMAIN live : live'[k] \in Frame
        BY <1>3, <1>4, <2>1
    <2>3. live' \in Seq(Frame) /\ Len(live') = Len(live)
        BY <1>1, <1>3, <2>2
    <2> QED
        BY <1>3, <1>4, <2>1, <2>3
<1>6. ToolOK'
    BY <1>2 DEF TraceInv, ToolOK
<1>7. ConnOK'
    BY <1>1 DEF TraceInv, ConnOK
<1>8. CodeOK'
    BY <1>1, <1>2, <1>5 DEF TraceInv, CodeOK
<1>9. SkeletonOK' /\ EdgesOK'
    BY <1>2 DEF TraceInv, SkeletonOK, EdgesOK
<1>10. FlowOK'
    <2>1. Opened(live') = Opened(live)
        BY <1>5 DEF Opened
    <2>2. FlowInv(flow.calls, flow.depth, Opened(live), sql)'
        BY <1>2, <2>1 DEF TraceInv, FlowOK, InOrder
    <2> QED
        BY <1>5, <2>2 DEF TraceInv, FlowOK, InOrder
<1>11. StackOK'
    <2> SUFFICES ASSUME tool' = "esg_sample", ~blind' PROVE StackOK'
        BY DEF StackOK
    <2>1. PICK pos \in Seq(DOMAIN live) : Tracks(live, skeleton.stack, pos)
        BY <1>2 DEF TraceInv, StackOK
    <2>2. PICK frames, later, stack : frames = live /\ later = live' /\ stack = skeleton.stack
        OBVIOUS
    <2>3. Tracks(later, stack, pos)
        BY <1>5, <2>1, <2>2, StackStands
    <2>4. \A k \in DOMAIN live' : live'[k].followed <=> live'[k].addon
        BY <1>2, <1>5 DEF TraceInv, StackOK
    <2>5. pos \in Seq(DOMAIN live') /\ Tracks(live', skeleton'.stack, pos)
        BY <1>2, <1>5, <2>1, <2>2, <2>3
    <2> QED
        BY <2>4, <2>5 DEF StackOK
<1> QED
    BY <1>6, <1>7, <1>8, <1>9, <1>10, <1>11 DEF TraceInv

LEMMA DoneTraces == ASSUME TraceInv, Done PROVE TraceInv'
<1>1. /\ UNCHANGED <<tool, commit, seeds, report, conn, live, fatal, left, entered, traces>>
      /\ step = "method" /\ live = <<>> /\ step' = "finally" /\ error' \in BOOLEAN /\ raising' = FALSE
    BY DEF Done
<1>2. UNCHANGED <<live, sql, flow, skeleton, blind>>
    BY <1>1 DEF traces
<1>3. ToolOK' /\ ConnOK' /\ CodeOK' /\ EdgesOK'
    BY <1>1 DEF TraceInv, ToolOK, ConnOK, CodeOK, EdgesOK, conn, traces
<1> QED
    BY <1>1, <1>2, <1>3, FramesAside DEF TraceInv

\* The finally clause merges the edges.
LEMMA OverTraces ==
    ASSUME TraceInv, step = "finally", NEW persisted \in BOOLEAN, Over(persisted), ConnOK',
           UNCHANGED <<tool, commit, code, sql, flow, skeleton, nested, blind>>
    PROVE  TraceInv'
<1>1. UNCHANGED <<live, raising, error, fatal, left>>
    BY DEF code
<1>2. \/ step' = "died" /\ UNCHANGED <<seeds, report, graph>>
      \/ /\ graph' = graph \union skeleton.edges
         /\ \/ step' = "start" /\ seeds' = seeds - 1 /\ report' = report
            \/ step' = "reported" /\ seeds' = seeds /\ report' \in {"committed", "rolled back"}
    BY DEF Over
<1>3. ToolOK'
    <2>1. seeds \in 0..ESG_SEEDS /\ seeds > 0
        BY DEF TraceInv, ToolOK
    <2>2. seeds' \in 0..ESG_SEEDS
        <3>1. seeds' = seeds - 1 \/ seeds' = seeds
            BY <1>2
        <3> QED
            BY <2>1, <3>1, Bounds
    <2>3. report \in {"none", "committed", "rolled back"}
        BY DEF TraceInv, ToolOK
    <2> QED
        BY <1>2, <2>2, <2>3 DEF TraceInv, ToolOK
<1>4. CodeOK'
    BY <1>1, <1>2 DEF TraceInv, CodeOK
<1>5. EdgesOK'
    BY <1>2 DEF TraceInv, EdgesOK
<1> QED
    BY <1>1, <1>3, <1>4, <1>5, FramesAside DEF TraceInv

LEMMA PersistTraces == ASSUME TraceInv, Persist PROVE TraceInv'
<1>1. /\ step = "finally" /\ Over(TRUE) /\ db' = db \union tx /\ tx' = {} /\ mark' = {}
      /\ UNCHANGED <<tool, commit, aborted, wrote, own, code, sql, flow, skeleton, nested, blind>>
    BY DEF Persist
<1>2. ConnOK'
    BY <1>1 DEF TraceInv, ConnOK
<1> QED
    BY <1>1, <1>2, OverTraces

LEMMA UnwindTraces == ASSUME TraceInv, Unwind PROVE TraceInv'
<1>1. /\ step = "finally" /\ Over(FALSE) /\ tx' \in mark /\ mark' = {} /\ aborted' = FALSE
      /\ UNCHANGED <<tool, commit, db, wrote, own, code, sql, flow, skeleton, nested, blind>>
    BY DEF Unwind
<1>2. ConnOK'
    BY <1>1 DEF TraceInv, ConnOK
<1> QED
    BY <1>1, <1>2, OverTraces

LEMMA FinallyFailsTraces == ASSUME TraceInv, FinallyFails PROVE TraceInv'
<1>1. /\ UNCHANGED <<tool, commit, seeds, report, conn, code, traces>> /\ step = "finally" /\ step' = "died"
    BY DEF FinallyFails
<1>2. UNCHANGED <<live, sql, flow, skeleton, blind>>
    BY <1>1 DEF code, traces
<1>3. ToolOK' /\ ConnOK' /\ CodeOK' /\ EdgesOK'
    BY <1>1 DEF TraceInv, ToolOK, ConnOK, CodeOK, EdgesOK, conn, code, traces
<1> QED
    BY <1>1, <1>2, <1>3, FramesAside DEF TraceInv

LEMMA ShellEndsTraces == ASSUME TraceInv, ShellEnds PROVE TraceInv'
<1>1. /\ UNCHANGED <<tool, commit, seeds, report, db, wrote, own, code, traces>>
      /\ step \in {"reported", "died"} /\ step' = "over" /\ tx' = {} /\ mark' = {} /\ aborted' = FALSE
    BY DEF ShellEnds
<1>2. UNCHANGED <<live, sql, flow, skeleton, blind>>
    BY <1>1 DEF code, traces
<1>3. ToolOK' /\ ConnOK' /\ CodeOK' /\ EdgesOK'
    BY <1>1 DEF TraceInv, ToolOK, ConnOK, CodeOK, EdgesOK, code, traces
<1> QED
    BY <1>1, <1>2, <1>3, FramesAside DEF TraceInv

LEMMA EnterTraces ==
    ASSUME TraceInv, NEW model \in Model, NEW addon \in BOOLEAN, NEW save \in BOOLEAN,
           Enter(model, addon, save)
    PROVE  TraceInv'
<1> DEFINE flows == tool = "trace_flow" /\ addon
           samples == tool = "esg_sample" /\ addon
           frame == [model |-> model, addon |-> addon, save |-> IF save THEN {tx} ELSE {},
                     idx |-> IF flows THEN flow_idx(flow) ELSE 0,
                     followed |-> samples /\ skeleton_follows(skeleton)]
<1>1. /\ step = "method" /\ Len(live) < MaxFrames
      /\ (left' = left \/ (left > 0 /\ left' = left - 1))
      /\ live' = Append(live, frame)
      /\ flow' = IF flows THEN flow_call(flow, sql) ELSE flow
      /\ UNCHANGED <<run, conn, raising, error, fatal, sql, graph>>
    BY DEF Enter, Working
<1>3. /\ samples => /\ skeleton' = skeleton_call(skeleton, model)
                    /\ blind' = (blind \/ ~skeleton_follows(skeleton))
                    /\ nested' = nested \union UNION {Edge(c, model) : c \in Caller}
      /\ ~samples => UNCHANGED <<skeleton, blind, nested>>
    BY DEF Enter
<1>4. UNCHANGED <<tool, commit, step, seeds, report, db, tx, mark, aborted, wrote, own>>
    BY <1>1 DEF run, conn
<1>5. PICK f : f = frame
    OBVIOUS
<1>6. /\ f.model = model /\ f.addon = addon /\ (f.followed <=> samples /\ skeleton_follows(skeleton))
      /\ f.idx = IF flows THEN flow_idx(flow) ELSE 0
    BY <1>5
<1>7. live' = Append(live, f)
    BY <1>1, <1>5
<1>8. PICK c, d, o, s : c = flow.calls /\ d = flow.depth /\ o = Opened(live) /\ s = sql
    OBVIOUS
<1>9. /\ FlowInv(c, d, o, s) /\ InOrder(live) /\ c \in Seq(Entry) /\ Len(c) \in Nat /\ o \subseteq DOMAIN c
      /\ DOMAIN c = 1..Len(c) /\ MAX_CALLS \in Nat /\ MAX_DEPTH \in Nat /\ d \in 0..MAX_DEPTH + 1
      /\ Len(c) <= MAX_CALLS
    <2>1. FlowInv(c, d, o, s) /\ InOrder(live)
        BY <1>8 DEF TraceInv, FlowOK
    <2>2. c \in Seq(Entry) /\ o \subseteq DOMAIN c /\ d \in 0..MAX_DEPTH + 1 /\ Len(c) <= MAX_CALLS
        BY <2>1 DEF FlowInv, FlowShape
    <2>3. Len(c) \in Nat /\ DOMAIN c = 1..Len(c)
        BY <2>2
    <2> QED
        BY <2>1, <2>2, <2>3, TraceAssumption
<1>10. flow_idx(flow) = IF d > MAX_DEPTH \/ Len(c) >= MAX_CALLS THEN 0 ELSE Len(c) + 1
    BY <1>8 DEF flow_idx, Refused
<1>11. f \in Frame
    <2>1. f.idx \in 0..MAX_CALLS
        BY <1>6, <1>9, <1>10
    <2>2. tx \in SUBSET Writes
        BY DEF TraceInv, ConnOK
    <2>3. (IF save THEN {tx} ELSE {}) \in SUBSET SUBSET Writes
        BY <2>2
    <2>4. (samples /\ skeleton_follows(skeleton)) \in BOOLEAN
        OBVIOUS
    <2>5. (IF flows THEN flow_idx(flow) ELSE 0) \in 0..MAX_CALLS
        BY <1>6, <2>1
    <2> HIDE DEF flows, samples
    <2> QED
        BY <1>5, <2>3, <2>4, <2>5 DEF Frame
<1> HIDE DEF frame
<1>12. live \in Seq(Frame) /\ Len(live) \in Nat /\ blind \in BOOLEAN
    BY FramesAre DEF TraceInv, CodeOK
<1>13. ToolOK' /\ ConnOK'
    BY <1>4 DEF TraceInv, ToolOK, ConnOK
<1>14. CodeOK'
    <2>1. left' \in 0..Recipe
        <3>1. left \in 0..Recipe /\ Recipe \in Nat
            BY Bounds DEF TraceInv, CodeOK
        <3> QED
            BY <1>1, <3>1
    <2>2. live' \in Seq(Frame) /\ Len(live') = Len(live) + 1
        BY <1>7, <1>11, <1>12
    <2>3. Len(live') <= MaxFrames
        BY <1>1, <1>12, <2>2, Bounds
    <2>4. blind' \in BOOLEAN
        BY <1>3, <1>12
    <2>5. raising' = raising /\ error' = error /\ fatal' = fatal
        BY <1>1
    <2> QED
        BY <1>1, <1>4, <2>1, <2>2, <2>3, <2>4, <2>5 DEF TraceInv, CodeOK
<1>15. PICK fs : fs = live
    OBVIOUS
<1>16. /\ Opened(Append(fs, f)) = Opened(fs) \union ({f.idx} \ {0})
       /\ InOrder(fs) /\ (\A i \in Opened(fs) : f.idx # 0 => i < f.idx) => InOrder(Append(fs, f))
    BY <1>11, <1>12, <1>15, OpenedCalls
<1>17. Opened(live') = o \union ({f.idx} \ {0}) /\ sql' = s
    BY <1>1, <1>7, <1>8, <1>15, <1>16
<1>18. ASSUME f.idx = 0 PROVE FlowOK'
    <2>1. flow' = flow
        <3>1. flows => d > MAX_DEPTH \/ Len(c) >= MAX_CALLS
            BY <1>6, <1>9, <1>10, <1>18
        <3> QED
            BY <1>1, <1>8, <3>1 DEF flow_call, Refused
    <2>2. Opened(live') = o
        BY <1>17, <1>18
    <2>3. FlowInv(flow.calls, flow.depth, Opened(live), sql)'
        BY <1>8, <1>9, <1>17, <2>1, <2>2
    <2>4. InOrder(live')
        BY <1>7, <1>9, <1>15, <1>16, <1>18
    <2> QED
        BY <2>3, <2>4 DEF FlowOK
<1>19. ASSUME f.idx # 0 PROVE FlowOK'
    <2>1. flows /\ ~(d > MAX_DEPTH \/ Len(c) >= MAX_CALLS) /\ f.idx = Len(c) + 1
        BY <1>6, <1>10, <1>19
    <2>2. d <= MAX_DEPTH /\ Len(c) < MAX_CALLS
        BY <1>9, <2>1
    <2>3. FlowInv(Append(c, [depth |-> d, sql |-> s]), d + 1, o \union {Len(c) + 1}, s)
        BY <1>9, <2>2, FlowCalls
    <2>4. flow'.calls = Append(c, [depth |-> d, sql |-> s]) /\ flow'.depth = d + 1
        <3>1. flow' = flow_call(flow, sql) /\ ~Refused(flow)
            BY <1>1, <1>8, <2>1 DEF Refused
        <3> QED
            BY <1>8, <3>1 DEF flow_call
    <2>5. Opened(live') = o \union {Len(c) + 1}
        BY <1>17, <1>19, <2>1
    <2>6. FlowInv(flow.calls, flow.depth, Opened(live), sql)'
        BY <1>17, <2>3, <2>4, <2>5
    <2>7. InOrder(live')
        <3>1. \A i \in o : i < f.idx
            BY <1>9, <2>1
        <3> QED
            BY <1>7, <1>8, <1>9, <1>15, <1>16, <3>1
    <2> QED
        BY <2>6, <2>7 DEF FlowOK
<1>20. PICK e, after : e = skeleton /\ after = skeleton'
    OBVIOUS
<1>21. /\ e \in [stack : Seq(Model), edges : SUBSET (Model \X Model), n_calls : Nat]
       /\ e.stack \in Seq(Model) /\ e.edges \subseteq Model \X Model /\ e.n_calls \in Nat
    BY <1>20 DEF TraceInv, SkeletonOK
<1>22. ASSUME samples
       PROVE  /\ after.stack = Append(e.stack, model)
              /\ after.edges = e.edges \union (IF e.stack = <<>> THEN {} ELSE Edge(e.stack[Len(e.stack)], model))
              /\ after \in [stack : Seq(Model), edges : SUBSET (Model \X Model), n_calls : Nat]
    <2>1. after = skeleton_call(e, model)
        BY <1>3, <1>20, <1>22
    <2>2. Append(e.stack, model) \in Seq(Model) /\ e.n_calls + 1 \in Nat
        BY <1>21
    <2>3. (IF e.stack = <<>> THEN {} ELSE Edge(e.stack[Len(e.stack)], model)) \in SUBSET (Model \X Model)
        <3>1. e.stack # <<>> => e.stack[Len(e.stack)] \in Model
            BY <1>21
        <3> QED
            BY <3>1 DEF Edge
    <2> QED
        BY <1>21, <2>1, <2>2, <2>3 DEF skeleton_call
<1>23. SkeletonOK'
    BY <1>3, <1>20, <1>21, <1>22 DEF SkeletonOK
<1>24. StackOK'
    <2> SUFFICES ASSUME tool' = "esg_sample", ~blind' PROVE StackOK'
        BY DEF StackOK
    <2>1. tool = "esg_sample" /\ ~blind /\ (samples => skeleton_follows(skeleton))
        BY <1>3, <1>4, <1>12
    <2>2. PICK pos \in Seq(DOMAIN live) : Tracks(live, skeleton.stack, pos)
        BY <2>1 DEF TraceInv, StackOK
    <2>3. \A k \in DOMAIN live' : live'[k].followed <=> live'[k].addon
        <3>1. \A k \in DOMAIN live : live[k].followed <=> live[k].addon
            BY <2>1 DEF TraceInv, StackOK
        <3>2. f.followed <=> f.addon
            BY <1>6, <2>1
        <3>3. \A k \in DOMAIN live' : live'[k] = f \/ (k \in DOMAIN live /\ live'[k] = live[k])
            BY <1>7, <1>12
        <3> QED
            BY <3>1, <3>2, <3>3
    <2>4. Tracks(fs, e.stack, pos)
        BY <1>15, <1>20, <2>2
    <2>5. \E q \in Seq(DOMAIN live') : Tracks(live', skeleton'.stack, q)
        <3>1. CASE samples
            <4>1. \E q \in Seq(DOMAIN Append(fs, f)) : Tracks(Append(fs, f), Append(e.stack, model), q)
                BY <1>6, <1>11, <2>4, <3>1, StackCalls
            <4> QED
                BY <1>7, <1>15, <1>20, <1>22, <3>1, <4>1
        <3>2. CASE ~samples
            <4>1. \E q \in Seq(DOMAIN Append(fs, f)) : Tracks(Append(fs, f), e.stack, q)
                BY <1>6, <1>11, <2>1, <2>4, <3>2, StackSkips
            <4> QED
                BY <1>3, <1>7, <1>15, <1>20, <3>2, <4>1
        <3> QED
            BY <3>1, <3>2
    <2> QED
        BY <2>3, <2>5 DEF StackOK
<1>25. EdgesOK'
    <2> SUFFICES ASSUME tool' = "esg_sample", ~blind' PROVE EdgesOK'
        BY DEF EdgesOK
    <2>1. tool = "esg_sample" /\ ~blind
        BY <1>3, <1>4, <1>12
    <2>2. nested = graph \union e.edges /\ graph' = graph
        BY <1>1, <1>20, <2>1 DEF TraceInv, EdgesOK
    <2>3. CASE samples
        <3>1. PICK pos \in Seq(DOMAIN live) : Tracks(live, skeleton.stack, pos)
            BY <2>1 DEF TraceInv, StackOK
        <3>2. Tracks(fs, e.stack, pos)
            BY <1>15, <1>20, <3>1
        <3>3. {fs[i].model : i \in {j \in DOMAIN fs : fs[j].addon
                   /\ \A k \in DOMAIN fs : fs[k].addon => k <= j}}
              = IF e.stack = <<>> THEN {} ELSE {e.stack[Len(e.stack)]}
            BY <3>2, StackTop
        <3>4. Caller = IF e.stack = <<>> THEN {} ELSE {e.stack[Len(e.stack)]}
            BY <1>15, <3>3 DEF Caller
        <3>5. UNION {Edge(x, model) : x \in Caller}
              = IF e.stack = <<>> THEN {} ELSE Edge(e.stack[Len(e.stack)], model)
            <4>1. CASE e.stack = <<>>
                <5>1. Caller = {}
                    BY <3>4, <4>1
                <5> QED
                    BY <4>1, <5>1
            <4>2. CASE e.stack # <<>>
                <5>1. Caller = {e.stack[Len(e.stack)]}
                    BY <3>4, <4>2
                <5> QED
                    BY <4>2, <5>1
            <4> QED
                BY <4>1, <4>2
        <3>6. nested' = graph' \union skeleton'.edges
            <4>1. nested' = nested \union UNION {Edge(x, model) : x \in Caller}
                BY <1>3, <2>3
            <4> QED
                BY <1>20, <1>22, <2>2, <2>3, <3>5, <4>1
        <3> QED
            BY <1>1, <1>4, <3>6 DEF EdgesOK
    <2>4. CASE ~samples
        BY <1>1, <1>3, <1>4, <1>20, <2>2, <2>4 DEF EdgesOK
    <2> QED
        BY <2>3, <2>4
<1> QED
    BY <1>13, <1>14, <1>18, <1>19, <1>23, <1>24, <1>25 DEF TraceInv

LEMMA LeaveTraces ==
    ASSUME TraceInv, Leave PROVE TraceInv'
<1>1. /\ step = "method" /\ live # <<>>
      /\ live' = SubSeq(live, 1, Len(live) - 1)
      /\ flow' = flow_return(flow, Top.idx, sql)
      /\ skeleton' = IF Top.followed THEN skeleton_return(skeleton) ELSE skeleton
      /\ UNCHANGED <<run, db, mark, wrote, own, raising, error, fatal, left, entered, sql, graph,
                     nested, blind>>
    BY DEF Leave
<1>2. IF raising /\ Top.save # {}
        THEN tx' \in Top.save /\ aborted' = FALSE
        ELSE UNCHANGED <<tx, aborted>>
    BY DEF Leave
<1>3. UNCHANGED <<tool, commit, step, seeds, report>>
    BY <1>1 DEF run
<1>4. PICK fs, top, n : fs = live /\ n = Len(fs) /\ top = fs[n]
    OBVIOUS
<1>5. Top = top
    BY <1>4 DEF Top
<1>6. /\ fs \in Seq(Frame) /\ n \in Nat /\ n >= 1 /\ top \in Frame
      /\ SubSeq(fs, 1, n - 1) \in Seq(Frame) /\ Len(SubSeq(fs, 1, n - 1)) = n - 1
      /\ \A k \in DOMAIN SubSeq(fs, 1, n - 1) : k \in DOMAIN fs /\ SubSeq(fs, 1, n - 1)[k] = fs[k]
      /\ n \in DOMAIN fs /\ n <= MaxFrames
    <2>1. fs \in Seq(Frame) /\ fs # <<>> /\ n = Len(fs) /\ n <= MaxFrames
        BY <1>1, <1>4 DEF TraceInv, CodeOK
    <2> QED
        BY <1>4, <2>1
<1>7. live' = SubSeq(fs, 1, n - 1)
    BY <1>1, <1>4
<1>8. ToolOK'
    BY <1>3 DEF TraceInv, ToolOK
<1>9. ConnOK'
    <2>1. top.save \in SUBSET SUBSET Writes
        <3>1. \A x \in Frame : x.save \in SUBSET SUBSET Writes
            BY DEF Frame
        <3> QED
            BY <1>6, <3>1
    <2>2. tx' \subseteq Writes /\ aborted' \in BOOLEAN
        BY <1>2, <1>5, <2>1 DEF TraceInv, ConnOK
    <2> QED
        BY <1>1, <2>2 DEF TraceInv, ConnOK
<1>10. CodeOK'
    <2>1. live' \in Seq(Frame) /\ Len(live') <= MaxFrames
        BY <1>6, <1>7, Bounds
    <2> QED
        BY <1>1, <1>3, <2>1 DEF TraceInv, CodeOK
<1>11. FlowOK'
    <2>1. PICK c, d, o, s : c = flow.calls /\ d = flow.depth /\ o = Opened(fs) /\ s = sql
        OBVIOUS
    <2>2. FlowInv(c, d, o, s) /\ InOrder(fs)
        BY <1>4, <2>1 DEF TraceInv, FlowOK
    <2>3. /\ Opened(SubSeq(fs, 1, n - 1)) = Opened(fs) \ {top.idx} /\ InOrder(SubSeq(fs, 1, n - 1))
          /\ top.idx # 0 => top.idx \in Opened(fs) /\ \A i \in Opened(fs) : i <= top.idx
        <3>1. fs # <<>>
            BY <1>1, <1>4
        <3> QED
            BY <1>4, <1>6, <2>2, <3>1, OpenedReturns
    <2>4. Opened(live') = o \ {top.idx} /\ InOrder(live') /\ sql' = s
        BY <1>1, <1>7, <2>1, <2>3
    <2>5. CASE top.idx = 0
        <3>1. flow' = flow
            BY <1>1, <1>5, <2>5 DEF flow_return
        <3>2. Opened(live') = o
            BY <2>1, <2>4, <2>5 DEF Opened
        <3>3. FlowInv(flow.calls, flow.depth, Opened(live), sql)'
            BY <2>1, <2>2, <2>4, <3>1, <3>2
        <3> QED
            BY <2>4, <3>3 DEF FlowOK
    <2>6. CASE top.idx # 0
        <3>1. PICK x : x = top.idx
            OBVIOUS
        <3>2. x \in o /\ \A i \in o : i <= x
            BY <2>1, <2>3, <2>6, <3>1
        <3>3. FlowInv([c EXCEPT ![x].sql = s - @], d - 1, o \ {x}, s)
            BY <2>2, <3>2, FlowReturns
        <3>4. flow'.calls = [c EXCEPT ![x].sql = s - @] /\ flow'.depth = d - 1
            BY <1>1, <1>5, <2>1, <2>6, <3>1 DEF flow_return
        <3>5. Opened(live') = o \ {x}
            BY <2>4, <3>1
        <3>6. FlowInv(flow.calls, flow.depth, Opened(live), sql)'
            BY <2>4, <3>3, <3>4, <3>5
        <3> QED
            BY <2>4, <3>6 DEF FlowOK
    <2> QED
        BY <2>5, <2>6
<1>12. PICK e : e = skeleton
    OBVIOUS
<1>13. e \in [stack : Seq(Model), edges : SUBSET (Model \X Model), n_calls : Nat] /\ e.stack \in Seq(Model)
    BY <1>12 DEF TraceInv, SkeletonOK
<1>14. /\ skeleton_return(e) \in [stack : Seq(Model), edges : SUBSET (Model \X Model), n_calls : Nat]
       /\ skeleton_return(e).edges = e.edges
       /\ e.stack # <<>> => skeleton_return(e).stack = SubSeq(e.stack, 1, Len(e.stack) - 1)
    <2>1. e.stack # <<>> => SubSeq(e.stack, 1, Len(e.stack) - 1) \in Seq(Model)
        BY <1>13
    <2> QED
        BY <1>13, <2>1 DEF skeleton_return
<1>15. SkeletonOK' /\ skeleton'.edges = skeleton.edges
    BY <1>1, <1>12, <1>13, <1>14 DEF SkeletonOK
<1>16. EdgesOK'
    BY <1>1, <1>3, <1>15 DEF TraceInv, EdgesOK
<1>17. StackOK'
    <2> SUFFICES ASSUME tool' = "esg_sample", ~blind' PROVE StackOK'
        BY DEF StackOK
    <2>1. /\ \A k \in DOMAIN live : live[k].followed <=> live[k].addon
          /\ \E pos \in Seq(DOMAIN live) : Tracks(live, skeleton.stack, pos)
        BY <1>1, <1>3 DEF TraceInv, StackOK
    <2>2. PICK pos \in Seq(DOMAIN live) : Tracks(live, skeleton.stack, pos)
        BY <2>1
    <2>3. Tracks(fs, e.stack, pos) /\ fs # <<>>
        BY <1>1, <1>4, <1>12, <2>2
    <2> DEFINE before == SubSeq(fs, 1, n - 1)
               stack == IF top.addon THEN SubSeq(e.stack, 1, Len(e.stack) - 1) ELSE e.stack
    <2>4. /\ top.addon => e.stack # <<>>
          /\ \E q \in Seq(DOMAIN before) : Tracks(before, stack, q)
        BY <1>4, <2>3, StackReturns
    <2>5. top.followed <=> top.addon
        BY <1>4, <1>6, <2>1
    <2>6. skeleton'.stack = stack
        BY <1>1, <1>5, <1>12, <1>14, <2>4, <2>5
    <2>7. \A k \in DOMAIN live' : live'[k].followed <=> live'[k].addon
        BY <1>4, <1>6, <1>7, <2>1
    <2> HIDE DEF before, stack
    <2>8. live' = before
        BY <1>7 DEF before
    <2>9. \E q \in Seq(DOMAIN live') : Tracks(live', skeleton'.stack, q)
        BY <2>4, <2>6, <2>8
    <2> QED
        BY <2>7, <2>9 DEF StackOK
<1> QED
    BY <1>8, <1>9, <1>10, <1>11, <1>15, <1>16, <1>17 DEF TraceInv

LEMMA NextTraces == ASSUME TraceInv, [Next]_vars PROVE TraceInv'
<1>1. CASE UNCHANGED vars
    <2>1. UNCHANGED <<tool, commit, step, seeds, report, db, tx, mark, aborted, wrote, own, live, raising,
                      error, fatal, left, sql, flow, skeleton, graph, nested, blind>>
        BY <1>1 DEF vars, run, conn, code, traces
    <2>2. ToolOK'
        BY <2>1 DEF TraceInv, ToolOK
    <2>3. ConnOK'
        BY <2>1 DEF TraceInv, ConnOK
    <2>4. CodeOK'
        BY <2>1 DEF TraceInv, CodeOK
    <2>5. EdgesOK'
        BY <2>1 DEF TraceInv, EdgesOK
    <2> QED
        BY <2>1, <2>2, <2>3, <2>4, <2>5, FramesAside DEF TraceInv
<1> QED
    BY <1>1, RefuseTraces, NoRecordTraces, SavepointTraces, EsgReportTraces, EnterTraces, LeaveTraces,
       WriteTraces, RaiseTraces, CatchTraces, EndsTransactionTraces, DoneTraces, PersistTraces,
       UnwindTraces, FinallyFailsTraces, ShellEndsTraces DEF Next

\* At every step the run's state has its type: no return takes the depth below
\* 0 or finds no entry, no limit is passed, and the tool has one savepoint.
THEOREM TypeCorrect == Spec => []TypeOK
<1>1. TraceInv => TypeOK
    <2> SUFFICES ASSUME TraceInv PROVE TypeOK
        OBVIOUS
    <2>1. flow.depth \in 0..MAX_DEPTH + 1 /\ Len(flow.calls) <= MAX_CALLS
        BY DEF TraceInv, FlowOK, FlowInv, FlowShape
    <2>2. mark \subseteq SUBSET Writes /\ Cardinality(mark) <= 1
        <3>1. CASE mark = {}
            <4>1. Cardinality(mark) = 0
                BY <3>1, FS_EmptySet
            <4> QED
                BY <3>1, <4>1
        <3>2. CASE \E w \in SUBSET Writes : mark = {w}
            <4>1. PICK w \in SUBSET Writes : mark = {w}
                BY <3>2
            <4>2. Cardinality(mark) = 1
                BY <4>1, FS_Singleton
            <4> QED
                BY <4>1, <4>2
        <3> QED
            BY <3>1, <3>2 DEF TraceInv, ConnOK
    <2> QED
        BY <2>1, <2>2 DEF TraceInv, ToolOK, ConnOK, CodeOK, TypeOK
<1> QED
    BY <1>1, InitTraces, NextTraces, PTL DEF Spec

\* Whatever is called, raises, is caught or cut off by a limit: when the method is
\* over no frame has a negative share of the SQL, the shares add up to what the
\* outermost frames counted, and, while no limit of esg_sample was passed, the
\* edges it reports are the calls between models that were made.
THEOREM TracesAreTrue == Spec => []TraceIsTrue
<1>1. TraceInv => TraceIsTrue
    <2> SUFFICES ASSUME TraceInv PROVE TraceIsTrue
        OBVIOUS
    <2>1. SelfSqlAddsUp
        <3> SUFFICES ASSUME step \in {"finally", "reported"} PROVE SelfSqlAddsUp
            BY DEF SelfSqlAddsUp
        <3>1. PICK c, d, s : c = flow.calls /\ d = flow.depth /\ s = sql
            OBVIOUS
        <3>2. Opened(live) = {}
            <4>1. live = <<>>
                BY DEF TraceInv, CodeOK
            <4> QED
                BY <4>1 DEF Opened
        <3>3. FlowInv(c, d, {}, s)
            BY <3>1, <3>2 DEF TraceInv, FlowOK
        <3> DEFINE self == compute_self_sql(c)
                   Outermost == {i \in DOMAIN c : c[i].depth = 0}
        <3>4. /\ \A i \in DOMAIN self : self[i] >= 0
              /\ Total(self, DOMAIN self) = Total(SqlOf(c), Outermost)
              /\ Total(self, DOMAIN self) <= s
            BY <3>3, FlowAddsUp
        <3> QED
            BY <3>1, <3>4, Zenon DEF SelfSqlAddsUp
    <2>2. EdgesAreCalls
        BY DEF TraceInv, EdgesOK, EdgesAreCalls
    <2> QED
        BY <2>1, <2>2 DEF TraceIsTrue
<1> QED
    BY <1>1, InitTraces, NextTraces, PTL DEF Spec
=============================================================================
