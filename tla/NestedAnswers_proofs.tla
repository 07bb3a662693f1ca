------------------------ MODULE NestedAnswers_proofs ------------------------
(***************************************************************************)
(* For any JSON, probes, cards and instances of the shapes that the        *)
(* assumptions of Answers name: what redact lets out is clean, and what    *)
(* native_check, fit_gap and claim_verify say of an instance is so.  Their *)
(* input nests, to some depth; what a recursive function does with it is   *)
(* shown level by level, for all values that nest less deep than n.        *)
(***************************************************************************)
EXTENDS Answers, FiniteSetTheorems, WellFoundedInduction, TLAPS

\* Every answer is the one its command gives to its question.
Given ==
    /\ asked \in Questions[tool]
    /\ Answered("redact") => answer = [value |-> Privacy!redact_file(asked.value, asked.mode)]
    /\ Answered("native_check") => answer = Claims!native_check(asked)
    /\ Answered("fit_gap") => answer = Claims!fit_gap(asked)
    /\ Answered("claim_verify") => answer = Claims!claim_verify(asked)

LEMMA AlwaysGiven == Spec => []Given
<1>1. Init => Given
  BY DEF Init, Given, Answered
<1>2. Given /\ [Next]_vars => Given'
  <2> SUFFICES ASSUME Given, [Next]_vars PROVE Given'
    OBVIOUS
  <2>1. CASE upgrade_brief
    BY <2>1 DEF upgrade_brief, Asked, Gives, Given, Answered
  <2>2. CASE scenarios
    BY <2>2 DEF scenarios, Asked, Gives, Given, Answered
  <2>3. CASE upgrade_check
    BY <2>3 DEF upgrade_check, Asked, Gives, Given, Answered
  <2>4. CASE env_diff
    BY <2>4 DEF env_diff, Asked, Gives, Given, Answered
  <2>5. CASE pre_edit_gate
    BY <2>5 DEF pre_edit_gate, Asked, Gives, Given, Answered
  <2>6. CASE evidence_validate
    BY <2>6 DEF evidence_validate, Asked, Gives, Given, Answered
  <2>7. CASE redact
    BY <2>7 DEF redact, Asked, Gives, Given, Answered
  <2>8. CASE native_check
    BY <2>8 DEF native_check, Asked, Gives, Given, Answered
  <2>9. CASE fit_gap
    BY <2>9 DEF fit_gap, Asked, Gives, Given, Answered
  <2>10. CASE claim_verify
    BY <2>10 DEF claim_verify, Asked, Gives, Given, Answered
  <2>11. CASE UNCHANGED vars
    BY <2>11 DEF vars, Given, Answered
  <2> QED
    BY <2>1, <2>2, <2>3, <2>4, <2>5, <2>6, <2>7, <2>8, <2>9, <2>10, <2>11 DEF Next
<1> QED
  BY <1>1, <1>2, PTL DEF Spec

-----------------------------------------------------------------------------
(* Numbers and sets.                                                       *)

\* Induction over the numbers, as a set.
LEMMA NatSetInduction ==
    ASSUME NEW S, 0 \in S, \A n \in Nat : n \in S => n + 1 \in S
    PROVE  Nat \subseteq S
<1> DEFINE R == {ss \in Nat \X Nat : ss[1] < ss[2]}
           T == Nat \ S
<1>1. IsWellFoundedOn(R, Nat)
  BY NatLessThanWellFounded, Zenon DEF OpToRel
<1> SUFFICES ASSUME T # {} PROVE FALSE
  OBVIOUS
<1>2. \E n \in T : \A m \in T : ~(<<m, n>> \in R)
  <2>1. T \subseteq Nat /\ T # {}
    OBVIOUS
  <2> HIDE DEF R, T
  <2> QED
    BY <1>1, <2>1, WFMin
<1>3. PICK n \in T : \A m \in T : ~(m < n)
  BY <1>2
<1>4. n # 0 /\ n - 1 \in Nat
  BY <1>3
<1>5. n - 1 \in S
  BY <1>3, <1>4
<1> QED
  BY <1>4, <1>5

\* Of some places of a list one is the last.
LEMMA HasLast ==
    ASSUME NEW n \in Nat, NEW s \in SUBSET (1 .. n), s # {}
    PROVE  \E x \in s : \A y \in s : y <= x
<1> DEFINE T == {m \in Nat : s \subseteq 1 .. m => \E x \in s : \A y \in s : y <= x}
<1>1. 0 \in T
  <2>1. 1 .. 0 = {}
    OBVIOUS
  <2>2. ~(s \subseteq 1 .. 0)
    BY <2>1
  <2> QED
    BY <2>2
<1>2. ASSUME NEW m \in Nat, m \in T PROVE m + 1 \in T
  <2> SUFFICES ASSUME s \subseteq 1 .. (m + 1) PROVE \E x \in s : \A y \in s : y <= x
    OBVIOUS
  <2>1. CASE m + 1 \in s
    BY <2>1
  <2>2. CASE m + 1 \notin s
    <3>1. s \subseteq 1 .. m
      BY <2>2
    <3> QED
      BY <1>2, <3>1
  <2> QED
    BY <2>1, <2>2
<1> HIDE DEF T
<1>3. Nat \subseteq T
  BY <1>1, <1>2, NatSetInduction
<1> QED
  BY <1>3 DEF T

\* What has at most as many elements as a finite set, as a function of them.
LEMMA ImagesAreFinite ==
    ASSUME NEW S, IsFiniteSet(S), NEW f
    PROVE  IsFiniteSet({f[x] : x \in S})
<1> DEFINE g == [x \in S |-> f[x]]
           T == {f[x] : x \in S}
<1>1. g \in Surjection(S, T)
  BY DEF Surjection
<1> QED
  BY <1>1, FS_Surjection

-----------------------------------------------------------------------------
(* redaction.py                                                            *)

\* What the worker does with a value, f being what it does with its parts.
RedactedBy(f, value) ==
    [how \in Privacy!Hows |->
        IF "object" \in DOMAIN value
        THEN LET object == Privacy!Triple(value.object, how.mode)
             IN  [object |-> [key \in DOMAIN object |->
                    IF how.mode = "external" /\ key \in STRIP_KEYS THEN Privacy!Text("<stripped:external-mode>")
                    ELSE IF key \in SensitiveKeys THEN Privacy!Text("<redacted>")
                    ELSE IF key \in Privacy!META_KEYS \union Underscored THEN object[key]
                    ELSE f[object[key]][Privacy!Within(object, how)]]]
        ELSE IF "list" \in DOMAIN value
             THEN [list |-> [i \in DOMAIN value.list |-> f[value.list[i]][how]]]
        ELSE IF ~Privacy!IsText(value) THEN value
        ELSE IF how.force THEN Privacy!Text("<redacted:sensitive-model-field>")
        ELSE IF how.mode = "external" THEN Privacy!Text(Privacy!mask_value(value.text)) ELSE value]

\* The parts of an object, its value replaced or not, are values that nest less.
LEMMA TripleHolds ==
    ASSUME NEW v \in Values, "object" \in DOMAIN v, NEW mode
    PROVE  LET object == Privacy!Triple(v.object, mode)
           IN  /\ DOMAIN object = DOMAIN v.object
               /\ \A key \in DOMAIN object : object[key] \in Values /\ nesting[object[key]] < nesting[v]
               /\ \A key \in DOMAIN object : key # "value" => object[key] = v.object[key]
<1> DEFINE object == Privacy!Triple(v.object, mode)
           held == Privacy!Text("<redacted:sensitive-field>")
<1>1. /\ held \in Values /\ nesting[held] = 0 /\ nesting \in [Values -> Nat]
      /\ \A part \in Privacy!Parts(v) : part \in Values /\ nesting[part] < nesting[v]
  BY RedactAssumption
<1>2. \A key \in DOMAIN v.object : v.object[key] \in Privacy!Parts(v)
  BY DEF Privacy!Parts, Privacy!Range
<1>3. object = v.object \/ ("value" \in DOMAIN v.object /\ object = [v.object EXCEPT !["value"] = held])
  BY DEF Privacy!Triple, Privacy!Has
<1> HIDE DEF object, held
<1>4. CASE object = v.object
  BY <1>1, <1>2, <1>4 DEF object
<1>5. CASE "value" \in DOMAIN v.object /\ object = [v.object EXCEPT !["value"] = held]
  <2>1. /\ DOMAIN object = DOMAIN v.object /\ object["value"] = held
        /\ \A key \in DOMAIN object : key # "value" => object[key] = v.object[key]
    BY <1>5
  <2>2. v.object["value"] \in Values /\ nesting[v.object["value"]] < nesting[v]
    BY <1>1, <1>2, <1>5
  <2>3. nesting[held] < nesting[v]
    BY <1>1, <2>2
  <2> QED
    BY <1>1, <1>2, <2>1, <2>3 DEF object
<1> QED
  BY <1>3, <1>4, <1>5

\* So that the worker depends on what nests less only.
LEMMA RedactedByParts ==
    ASSUME NEW v \in Values, NEW f, NEW g,
           \A part \in Values : nesting[part] < nesting[v] => f[part] = g[part]
    PROVE  RedactedBy(f, v) = RedactedBy(g, v)
<1> DEFINE Object(h, how) ==
             LET object == Privacy!Triple(v.object, how.mode)
             IN  [object |-> [key \in DOMAIN object |->
                    IF how.mode = "external" /\ key \in STRIP_KEYS THEN Privacy!Text("<stripped:external-mode>")
                    ELSE IF key \in SensitiveKeys THEN Privacy!Text("<redacted>")
                    ELSE IF key \in Privacy!META_KEYS \union Underscored THEN object[key]
                    ELSE h[object[key]][Privacy!Within(object, how)]]]
           List(h, how) == [list |-> [i \in DOMAIN v.list |-> h[v.list[i]][how]]]
           Leaf(how) == IF ~Privacy!IsText(v) THEN v
                        ELSE IF how.force THEN Privacy!Text("<redacted:sensitive-model-field>")
                        ELSE IF how.mode = "external" THEN Privacy!Text(Privacy!mask_value(v.text)) ELSE v
           Whole(h, how) == IF "object" \in DOMAIN v THEN Object(h, how)
                            ELSE IF "list" \in DOMAIN v THEN List(h, how) ELSE Leaf(how)
<1>1. \A h : RedactedBy(h, v) = [how \in Privacy!Hows |-> Whole(h, how)]
  BY Zenon DEF RedactedBy
<1>2. ASSUME "object" \in DOMAIN v, NEW how PROVE Object(f, how) = Object(g, how)
  <2> DEFINE object == Privacy!Triple(v.object, how.mode)
  <2>1. \A key \in DOMAIN object : f[object[key]] = g[object[key]]
    BY <1>2, TripleHolds
  <2> HIDE DEF object
  <2>2. [key \in DOMAIN object |->
            IF how.mode = "external" /\ key \in STRIP_KEYS THEN Privacy!Text("<stripped:external-mode>")
            ELSE IF key \in SensitiveKeys THEN Privacy!Text("<redacted>")
            ELSE IF key \in Privacy!META_KEYS \union Underscored THEN object[key]
            ELSE f[object[key]][Privacy!Within(object, how)]]
          = [key \in DOMAIN object |->
            IF how.mode = "external" /\ key \in STRIP_KEYS THEN Privacy!Text("<stripped:external-mode>")
            ELSE IF key \in SensitiveKeys THEN Privacy!Text("<redacted>")
            ELSE IF key \in Privacy!META_KEYS \union Underscored THEN object[key]
            ELSE g[object[key]][Privacy!Within(object, how)]]
    BY <2>1
  <2> QED
    BY <2>2, Zenon DEF object
<1>3. ASSUME "object" \notin DOMAIN v, "list" \in DOMAIN v, NEW how PROVE List(f, how) = List(g, how)
  <2>1. \A i \in DOMAIN v.list : v.list[i] \in Privacy!Parts(v)
    BY <1>3 DEF Privacy!Parts, Privacy!Range
  <2>2. \A i \in DOMAIN v.list : f[v.list[i]] = g[v.list[i]]
    BY <2>1, RedactAssumption
  <2> QED
    BY <2>2
<1> HIDE DEF Object, List, Leaf
<1>4. \A how : Whole(f, how) = Whole(g, how)
  BY <1>2, <1>3, Zenon
<1> HIDE DEF Whole
<1> QED
  BY <1>1, <1>4

\* By how deep they nest, the worker is defined on all values.
NestingTo(n) == {v \in Values : nesting[v] < n}
IsRedactTo(n, f) == f = [v \in NestingTo(n) |-> RedactedBy(f, v)]

LEMMA RedactsTo == \A n \in Nat : \E f : IsRedactTo(n, f)
<1> DEFINE P(n) == \E f : IsRedactTo(n, f)
           T == {n \in Nat : P(n)}
<1>1. P(0)
  <2> DEFINE f == [v \in NestingTo(0) |-> 0]
  <2>1. NestingTo(0) = {}
    BY RedactAssumption DEF NestingTo
  <2>2. IsRedactTo(0, f)
    BY <2>1 DEF IsRedactTo
  <2> QED
    BY <2>2
<1>2. ASSUME NEW n \in Nat, P(n) PROVE P(n + 1)
  <2>1. PICK f : IsRedactTo(n, f)
    BY <1>2
  <2> DEFINE g == [v \in NestingTo(n + 1) |-> RedactedBy(f, v)]
  <2>2. \A v \in NestingTo(n) : v \in NestingTo(n + 1) /\ f[v] = RedactedBy(f, v)
    <3>1. \A v \in NestingTo(n) : f[v] = RedactedBy(f, v)
      BY <2>1 DEF IsRedactTo
    <3>2. \A v \in NestingTo(n) : v \in NestingTo(n + 1)
      BY RedactAssumption DEF NestingTo
    <3> QED
      BY <3>1, <3>2
  <2>3. \A v \in NestingTo(n) : f[v] = g[v]
    BY <2>2
  <2>4. ASSUME NEW v \in NestingTo(n + 1) PROVE RedactedBy(f, v) = RedactedBy(g, v)
    <3>1. v \in Values /\ nesting[v] < n + 1
      BY DEF NestingTo
    <3>2. \A part \in Values : nesting[part] < nesting[v] => part \in NestingTo(n)
      BY <3>1, RedactAssumption DEF NestingTo
    <3>3. \A part \in Values : nesting[part] < nesting[v] => f[part] = g[part]
      BY <2>3, <3>2
    <3> HIDE DEF g
    <3> QED
      BY <3>1, <3>3, RedactedByParts
  <2>5. IsRedactTo(n + 1, g)
    <3>1. g = [v \in NestingTo(n + 1) |-> RedactedBy(f, v)]
      OBVIOUS
    <3> HIDE DEF g
    <3> QED
      BY <2>4, <3>1 DEF IsRedactTo
  <2> QED
    BY <2>5
<1> HIDE DEF P
<1>3. 0 \in T /\ \A n \in Nat : n \in T => n + 1 \in T
  BY <1>1, <1>2
<1> HIDE DEF T
<1>4. Nat \subseteq T
  BY <1>3, NatSetInduction
<1> QED
  BY <1>4 DEF T, P

\* Two such definitions agree where both are.
LEMMA RedactsAgree ==
    ASSUME NEW m \in Nat, NEW n \in Nat, NEW f, NEW g, IsRedactTo(m, f), IsRedactTo(n, g)
    PROVE  \A v \in NestingTo(m) \intersect NestingTo(n) : f[v] = g[v]
<1> DEFINE Q(k) == \A v \in NestingTo(m) \intersect NestingTo(n) : nesting[v] < k => f[v] = g[v]
           T == {k \in Nat : Q(k)}
<1>1. Q(0)
  BY RedactAssumption DEF NestingTo
<1>2. ASSUME NEW k \in Nat, Q(k) PROVE Q(k + 1)
  <2> SUFFICES ASSUME NEW v \in NestingTo(m) \intersect NestingTo(n), nesting[v] < k + 1 PROVE f[v] = g[v]
    OBVIOUS
  <2>1. v \in Values /\ nesting[v] < m /\ nesting[v] < n
    BY DEF NestingTo
  <2>2. ASSUME NEW part \in Values, nesting[part] < nesting[v] PROVE f[part] = g[part]
    <3>1. nesting[part] \in Nat /\ nesting[v] \in Nat
      BY <2>1, RedactAssumption
    <3>2. part \in NestingTo(m) \intersect NestingTo(n) /\ nesting[part] < k
      BY <2>1, <2>2, <3>1 DEF NestingTo
    <3> QED
      BY <1>2, <3>2
  <2>3. RedactedBy(f, v) = RedactedBy(g, v)
    BY <2>1, <2>2, RedactedByParts
  <2>4. f[v] = RedactedBy(f, v) /\ g[v] = RedactedBy(g, v)
    BY DEF IsRedactTo
  <2> QED
    BY <2>3, <2>4
<1> HIDE DEF Q
<1>3. 0 \in T /\ \A k \in Nat : k \in T => k + 1 \in T
  BY <1>1, <1>2
<1> HIDE DEF T
<1>4. Nat \subseteq T
  BY <1>3, NatSetInduction
<1>5. \A k \in Nat : Q(k)
  BY <1>4 DEF T
<1> SUFFICES ASSUME NEW v \in NestingTo(m) \intersect NestingTo(n) PROVE f[v] = g[v]
  OBVIOUS
<1>6. Q(m) /\ nesting[v] < m
  BY <1>5 DEF NestingTo
<1> QED
  BY <1>6 DEF Q

LEMMA RedactIs == \A v \in Values : Privacy!redact[v] = RedactedBy(Privacy!redact, v)
<1> DEFINE F(n) == CHOOSE f : IsRedactTo(n, f)
           h == [v \in Values |-> F(nesting[v] + 1)[v]]
<1>1. \A n \in Nat : IsRedactTo(n, F(n))
  BY RedactsTo
<1> HIDE DEF F
<1>2. \A v \in Values : nesting[v] \in Nat
  BY RedactAssumption
<1>3. ASSUME NEW v \in Values PROVE h[v] = RedactedBy(h, v)
  <2> DEFINE n == nesting[v] + 1
  <2>1. n \in Nat /\ v \in NestingTo(n) /\ IsRedactTo(n, F(n))
    BY <1>1, <1>2 DEF NestingTo
  <2>2. h[v] = RedactedBy(F(n), v)
    BY <2>1 DEF IsRedactTo
  <2>3. ASSUME NEW part \in Values, nesting[part] < nesting[v] PROVE F(n)[part] = h[part]
    <3> DEFINE m == nesting[part] + 1
    <3>1. m \in Nat /\ IsRedactTo(m, F(m)) /\ part \in NestingTo(m) \intersect NestingTo(n)
      BY <1>1, <1>2, <2>3 DEF NestingTo
    <3> HIDE DEF m, n
    <3>2. F(n)[part] = F(m)[part]
      BY <2>1, <3>1, RedactsAgree
    <3> QED
      BY <3>2 DEF m
  <2> HIDE DEF h, n
  <2>4. RedactedBy(F(n), v) = RedactedBy(h, v)
    BY <2>3, RedactedByParts
  <2> QED
    BY <2>2, <2>4
<1> DEFINE Defines(f) == f = [v \in Values |-> RedactedBy(f, v)]
<1>4. Defines(h)
  <2>1. h = [v \in Values |-> h[v]]
    OBVIOUS
  <2> HIDE DEF h
  <2> QED
    BY <1>3, <2>1
<1>5. Privacy!redact = CHOOSE f : Defines(f)
  BY Zenon DEF Privacy!redact, RedactedBy
<1> HIDE DEF h
<1>6. Defines(Privacy!redact)
  <2> HIDE DEF Defines
  <2> QED
    BY <1>4, <1>5
<1> QED
  BY <1>6

\* What comes out of the worker, or of the command, for a value that nests to a
\* depth, in a mode, and by force if it must be.
Placeholder(x) == \E t \in Privacy!Placeholders : x = Privacy!Text(t)
Caveated(result) ==
    IF "object" \in DOMAIN result
    THEN [object |-> [k \in DOMAIN result.object \union {"_caveat"} |->
                        IF k = "_caveat" THEN Privacy!Text("caveat") ELSE result.object[k]]]
    ELSE result
Came(x, depth, mode, forced) ==
    \E v \in Values, how \in Privacy!Hows :
        /\ how.mode = mode /\ (forced => how.force) /\ nesting[v] <= depth
        /\ x \in {Privacy!redact[v][how], Caveated(Privacy!redact[v][how])}
Out(x, depth, mode, forced) == Placeholder(x) \/ Came(x, depth, mode, forced)

\* Of an object: its keys, of which those to hide are hidden, the others come
\* out of the worker, and the model is kept or hidden.
IsOut(object, v, how) ==
    /\ DOMAIN v.object \subseteq DOMAIN object
    /\ \A key \in DOMAIN object \intersect SensitiveKeys : Placeholder(object[key])
    /\ \A key \in DOMAIN object \ (Privacy!META_KEYS \union Underscored) :
          \/ Placeholder(object[key])
          \/ \E part \in Values : /\ nesting[part] < nesting[v]
                                  /\ object[key] = Privacy!redact[part][Privacy!Within(v.object, how)]
    /\ Privacy!StrOf(object, "model") \in SENSITIVE_MODELS => Privacy!StrOf(v.object, "model") \in SENSITIVE_MODELS

LEMMA StrippedHides ==
    /\ Placeholder(Privacy!Text("<stripped:external-mode>"))
    /\ Placeholder(Privacy!Text("<redacted>"))
    /\ Placeholder(Privacy!Text("<redacted:sensitive-model-field>"))
BY DEF Placeholder, Privacy!Placeholders

\* The same keys have the same model.
LEMMA ModelStays ==
    ASSUME NEW o, NEW p, "model" \in DOMAIN o <=> "model" \in DOMAIN p,
           "model" \in DOMAIN o => o["model"] = p["model"]
    PROVE  Privacy!StrOf(o, "model") = Privacy!StrOf(p, "model")
BY DEF Privacy!StrOf

LEMMA ObjectsComeOut ==
    ASSUME NEW v \in Values, NEW how \in Privacy!Hows, "object" \in DOMAIN v
    PROVE  \E object : /\ Privacy!redact[v][how] = [object |-> object]
                       /\ DOMAIN object = DOMAIN v.object
                       /\ IsOut(object, v, how)
<1> DEFINE given == Privacy!Triple(v.object, how.mode)
           within == Privacy!Within(given, how)
           object == [key \in DOMAIN given |->
                    IF how.mode = "external" /\ key \in STRIP_KEYS THEN Privacy!Text("<stripped:external-mode>")
                    ELSE IF key \in SensitiveKeys THEN Privacy!Text("<redacted>")
                    ELSE IF key \in Privacy!META_KEYS \union Underscored THEN given[key]
                    ELSE Privacy!redact[given[key]][within]]
<1>1. Privacy!redact[v][how] = [object |-> object]
  <2>1. RedactedBy(Privacy!redact, v)[how] = [object |-> object]
    BY Zenon DEF RedactedBy
  <2> QED
    BY <2>1, RedactIs
<1>2. /\ DOMAIN given = DOMAIN v.object
      /\ \A key \in DOMAIN given : given[key] \in Values /\ nesting[given[key]] < nesting[v]
      /\ \A key \in DOMAIN given : key # "value" => given[key] = v.object[key]
  BY TripleHolds
<1> HIDE DEF given
<1>3. Privacy!StrOf(given, "model") = Privacy!StrOf(v.object, "model")
  BY <1>2, ModelStays
<1>4. within = Privacy!Within(v.object, how)
  BY <1>3 DEF Privacy!Within
<1> HIDE DEF within
<1>5. /\ DOMAIN object = DOMAIN v.object
      /\ \A key \in DOMAIN object :
            \/ object[key] = Privacy!Text("<stripped:external-mode>")
            \/ key \in SensitiveKeys /\ object[key] = Privacy!Text("<redacted>")
            \/ /\ key \notin SensitiveKeys /\ key \in Privacy!META_KEYS \union Underscored
               /\ object[key] = given[key]
            \/ /\ key \notin SensitiveKeys /\ key \notin Privacy!META_KEYS \union Underscored
               /\ object[key] = Privacy!redact[given[key]][within]
  BY <1>2
<1> HIDE DEF object
<1>6. \A key \in DOMAIN object \intersect SensitiveKeys : Placeholder(object[key])
  BY <1>5, StrippedHides
<1>7. ASSUME NEW key \in DOMAIN object \ (Privacy!META_KEYS \union Underscored)
      PROVE  \/ Placeholder(object[key])
             \/ \E part \in Values : /\ nesting[part] < nesting[v]
                                     /\ object[key] = Privacy!redact[part][Privacy!Within(v.object, how)]
  <2>1. key \in DOMAIN given
    BY <1>2, <1>5
  <2>2. Placeholder(object[key]) \/ object[key] = Privacy!redact[given[key]][within]
    BY <1>5, StrippedHides
  <2> QED
    BY <1>2, <1>4, <2>1, <2>2
<1>8. ASSUME Privacy!StrOf(object, "model") \in SENSITIVE_MODELS
      PROVE  Privacy!StrOf(v.object, "model") \in SENSITIVE_MODELS
  <2>1. CASE "model" \in DOMAIN object /\ Placeholder(object["model"])
    <3>1. PICK t \in Privacy!Placeholders : object["model"] = Privacy!Text(t)
      BY <2>1 DEF Placeholder
    <3>2. t # "number"
      BY DEF Privacy!Placeholders
    <3>3. Privacy!StrOf(object, "model") = t
      BY <2>1, <3>1, <3>2 DEF Privacy!StrOf, Privacy!Text, Privacy!IsText
    <3> QED
      BY <1>8, <3>3, RedactAssumption
  <2>2. CASE "model" \in DOMAIN object /\ ~Placeholder(object["model"])
    <3>1. "model" \in Privacy!META_KEYS
      BY DEF Privacy!META_KEYS
    <3>2. object["model"] = given["model"]
      BY <1>5, <2>2, <3>1, StrippedHides
    <3> QED
      BY <1>2, <1>3, <1>5, <1>8, <2>2, <3>2, ModelStays
  <2>3. CASE "model" \notin DOMAIN object
    BY <1>5, <1>8, <2>3, ModelStays
  <2> QED
    BY <2>1, <2>2, <2>3
<1>9. IsOut(object, v, how)
  BY <1>5, <1>6, <1>7, <1>8 DEF IsOut
<1> QED
  BY <1>1, <1>5, <1>9

LEMMA CaveatsComeOut ==
    ASSUME NEW v \in Values, NEW how \in Privacy!Hows, "object" \in DOMAIN v,
           NEW x \in {Privacy!redact[v][how], Caveated(Privacy!redact[v][how])}
    PROVE  \E object : x = [object |-> object] /\ IsOut(object, v, how)
<1>1. PICK object : /\ Privacy!redact[v][how] = [object |-> object]
                    /\ DOMAIN object = DOMAIN v.object
                    /\ IsOut(object, v, how)
  BY ObjectsComeOut
<1>2. CASE x = Privacy!redact[v][how]
  BY <1>1, <1>2
<1>3. CASE x = Caveated(Privacy!redact[v][how])
  <2> DEFINE new == [k \in DOMAIN object \union {"_caveat"} |->
                        IF k = "_caveat" THEN Privacy!Text("caveat") ELSE object[k]]
  <2>1. x = [object |-> new]
    BY <1>1, <1>3 DEF Caveated
  <2>2. /\ DOMAIN new = DOMAIN object \union {"_caveat"}
        /\ \A k \in DOMAIN object : k # "_caveat" => new[k] = object[k]
    OBVIOUS
  <2> HIDE DEF new
  <2>3. "_caveat" \in Underscored /\ "_caveat" \notin SensitiveKeys
    BY RedactAssumption
  <2>4. Privacy!StrOf(new, "model") = Privacy!StrOf(object, "model")
    BY <2>2, ModelStays
  <2>5. IsOut(new, v, how)
    <3>1. \A key \in DOMAIN new \intersect SensitiveKeys : key \in DOMAIN object /\ new[key] = object[key]
      BY <2>2, <2>3
    <3>2. \A key \in DOMAIN new \ (Privacy!META_KEYS \union Underscored) : key \in DOMAIN object /\ new[key] = object[key]
      BY <2>2, <2>3
    <3> QED
      BY <1>1, <2>2, <2>4, <3>1, <3>2 DEF IsOut
  <2> QED
    BY <2>1, <2>5
<1> QED
  BY <1>2, <1>3

\* Of what is no object: a list of what comes out, a text that is clean, or
\* nothing to read.
LEMMA OthersComeOut ==
    ASSUME NEW v \in Values, NEW how \in Privacy!Hows, "object" \notin DOMAIN v,
           NEW x \in {Privacy!redact[v][how], Caveated(Privacy!redact[v][how])}
    PROVE  /\ "object" \notin DOMAIN x
           /\ \A y \in Privacy!Inside(x) : \E part \in Values :
                 nesting[part] < nesting[v] /\ y = Privacy!redact[part][how]
           /\ Privacy!IsText(x) =>
                 \/ how.force /\ Placeholder(x)
                 \/ ~how.force /\ (how.mode = "external" => \E k : x = Privacy!Text(Privacy!mask_value(k)))
<1>1. Privacy!redact[v][how] =
         IF "list" \in DOMAIN v THEN [list |-> [i \in DOMAIN v.list |-> Privacy!redact[v.list[i]][how]]]
         ELSE IF ~Privacy!IsText(v) THEN v
         ELSE IF how.force THEN Privacy!Text("<redacted:sensitive-model-field>")
         ELSE IF how.mode = "external" THEN Privacy!Text(Privacy!mask_value(v.text)) ELSE v
  <2>1. RedactedBy(Privacy!redact, v)[how] =
         IF "list" \in DOMAIN v THEN [list |-> [i \in DOMAIN v.list |-> Privacy!redact[v.list[i]][how]]]
         ELSE IF ~Privacy!IsText(v) THEN v
         ELSE IF how.force THEN Privacy!Text("<redacted:sensitive-model-field>")
         ELSE IF how.mode = "external" THEN Privacy!Text(Privacy!mask_value(v.text)) ELSE v
    BY Zenon DEF RedactedBy
  <2> QED
    BY <2>1, RedactIs
<1> DEFINE r == Privacy!redact[v][how]
<1>2. CASE "list" \in DOMAIN v
  <2> DEFINE list == [i \in DOMAIN v.list |-> Privacy!redact[v.list[i]][how]]
  <2>1. r = [list |-> list]
    BY <1>1, <1>2
  <2>2. DOMAIN list = DOMAIN v.list /\ \A i \in DOMAIN v.list : list[i] = Privacy!redact[v.list[i]][how]
    OBVIOUS
  <2> HIDE DEF list
  <2>3. "object" \notin DOMAIN r /\ x = r
    BY <2>1 DEF Caveated
  <2>4. \A i \in DOMAIN v.list : v.list[i] \in Values /\ nesting[v.list[i]] < nesting[v]
    BY <1>2, RedactAssumption DEF Privacy!Parts, Privacy!Range
  <2>5. Privacy!Inside(x) = {list[i] : i \in DOMAIN list}
    BY <2>1, <2>3 DEF Privacy!Inside, Privacy!Range
  <2>6. ~Privacy!IsText(x)
    BY <2>1, <2>3 DEF Privacy!IsText
  <2> QED
    BY <2>2, <2>3, <2>4, <2>5, <2>6
<1>3. CASE "list" \notin DOMAIN v
  <2>1. "object" \notin DOMAIN r /\ "list" \notin DOMAIN r
    BY <1>1, <1>3 DEF Privacy!Text
  <2>2. x = r
    BY <2>1 DEF Caveated
  <2>3. Privacy!Inside(x) = {}
    BY <2>1, <2>2 DEF Privacy!Inside
  <2>4. ASSUME Privacy!IsText(x)
        PROVE  \/ how.force /\ Placeholder(x)
               \/ ~how.force /\ (how.mode = "external" => \E k : x = Privacy!Text(Privacy!mask_value(k)))
    <3>1. Privacy!IsText(v)
      BY <1>1, <1>3, <2>2, <2>4
    <3>2. CASE how.force
      BY <1>1, <1>3, <2>2, <3>1, <3>2, StrippedHides
    <3>3. CASE ~how.force
      BY <1>1, <1>3, <2>2, <3>1, <3>3
    <3> QED
      BY <3>2, <3>3
  <2> QED
    BY <2>1, <2>2, <2>3, <2>4
<1> QED
  BY <1>2, <1>3

\* One level down: it nests less, and what a sensitive model holds is forced.
LEMMA InsideComesOut ==
    ASSUME NEW depth \in Int, NEW mode, NEW forced, NEW x, Out(x, depth, mode, forced), NEW y \in Privacy!Inside(x)
    PROVE  /\ depth >= 1
           /\ Out(y, depth - 1, mode, forced)
           /\ mode = "external" /\ Privacy!StrOf(x.object, "model") \in SENSITIVE_MODELS /\ "object" \in DOMAIN x
                => Out(y, depth - 1, mode, TRUE)
<1>1. ~Placeholder(x)
  BY DEF Placeholder, Privacy!Inside, Privacy!Text
<1>2. PICK v \in Values, how \in Privacy!Hows :
         /\ how.mode = mode /\ (forced => how.force) /\ nesting[v] <= depth
         /\ x \in {Privacy!redact[v][how], Caveated(Privacy!redact[v][how])}
  BY <1>1 DEF Out, Came
<1>3. \A part \in Values : nesting[part] \in Nat
  BY RedactAssumption
<1>4. ASSUME NEW part \in Values, nesting[part] < nesting[v], NEW way \in Privacy!Hows, way.mode = mode,
             NEW f, f => way.force, y = Privacy!redact[part][way]
      PROVE  depth >= 1 /\ Out(y, depth - 1, mode, f)
  <2>1. nesting[part] \in Nat /\ nesting[v] \in Nat /\ nesting[v] <= depth
    BY <1>2, <1>3
  <2>2. depth >= 1 /\ nesting[part] <= depth - 1
    BY <1>4, <2>1
  <2>3. Came(y, depth - 1, mode, f)
    BY <1>4, <2>2 DEF Came
  <2> QED
    BY <2>2, <2>3 DEF Out
<1>5. CASE "object" \in DOMAIN v
  <2>1. PICK object : x = [object |-> object] /\ IsOut(object, v, how)
    BY <1>2, <1>5, CaveatsComeOut
  <2>2. PICK key \in DOMAIN object \ (Privacy!META_KEYS \union Underscored) : y = object[key]
    BY <2>1 DEF Privacy!Inside
  <2> DEFINE within == Privacy!Within(v.object, how)
  <2>3. /\ within \in Privacy!Hows /\ within.mode = mode /\ (how.force => within.force)
        /\ mode = "external" /\ Privacy!StrOf(v.object, "model") \in SENSITIVE_MODELS => within.force
    BY <1>2 DEF Privacy!Within, Privacy!Hows
  <2> HIDE DEF within
  <2>4. depth >= 1
    <3>1. PICK k \in DOMAIN v.object : TRUE
      <4>1. PICK known : /\ Privacy!redact[v][how] = [object |-> known]
                         /\ DOMAIN known = DOMAIN v.object
        BY <1>5, ObjectsComeOut
      <4>2. key # "_caveat"
        BY RedactAssumption
      <4>3. key \in DOMAIN known
        <5>1. CASE x = Privacy!redact[v][how]
          BY <2>1, <4>1, <5>1
        <5>2. CASE x = Caveated(Privacy!redact[v][how])
          <6> DEFINE new == [k \in DOMAIN known \union {"_caveat"} |->
                        IF k = "_caveat" THEN Privacy!Text("caveat") ELSE known[k]]
          <6>1. x = [object |-> new]
            BY <4>1, <5>2 DEF Caveated
          <6>2. object = new
            BY <2>1, <6>1
          <6>3. DOMAIN new = DOMAIN known \union {"_caveat"}
            OBVIOUS
          <6> HIDE DEF new
          <6> QED
            BY <2>2, <4>2, <6>2, <6>3
        <5> QED
          BY <1>2, <5>1, <5>2
      <4> QED
        BY <4>1, <4>3
    <3>2. v.object[k] \in Privacy!Parts(v)
      BY <1>5, <3>1 DEF Privacy!Parts, Privacy!Range
    <3>3. v.object[k] \in Values /\ nesting[v.object[k]] < nesting[v]
      BY <3>2, RedactAssumption
    <3> QED
      BY <1>2, <1>3, <3>3
  <2>5. CASE Placeholder(y)
    BY <2>4, <2>5 DEF Out
  <2>6. CASE ~Placeholder(y)
    <3>1. PICK part \in Values : nesting[part] < nesting[v] /\ y = Privacy!redact[part][within]
      BY <2>1, <2>2, <2>6 DEF IsOut, within
    <3>2. Out(y, depth - 1, mode, forced)
      BY <1>2, <1>4, <2>3, <3>1
    <3>3. ASSUME mode = "external", Privacy!StrOf(x.object, "model") \in SENSITIVE_MODELS
          PROVE  Out(y, depth - 1, mode, TRUE)
      <4>1. x.object = object
        BY <2>1
      <4>2. Privacy!StrOf(v.object, "model") \in SENSITIVE_MODELS
        BY <2>1, <3>3, <4>1 DEF IsOut
      <4> QED
        BY <1>4, <2>3, <3>1, <3>3, <4>2
    <3> QED
      BY <2>4, <3>2, <3>3
  <2> QED
    BY <2>5, <2>6
<1>6. CASE "object" \notin DOMAIN v
  <2>1. /\ "object" \notin DOMAIN x
        /\ \E part \in Values : nesting[part] < nesting[v] /\ y = Privacy!redact[part][how]
    BY <1>2, <1>6, OthersComeOut
  <2>2. PICK part \in Values : nesting[part] < nesting[v] /\ y = Privacy!redact[part][how]
    BY <2>1
  <2> QED
    BY <1>2, <1>4, <2>1, <2>2
<1> QED
  BY <1>5, <1>6

\* What comes out, read: texts that are clean, by force placeholders only; and
\* objects that hide their sensitive keys.
LEMMA OutIsClean ==
    ASSUME NEW depth \in Int, NEW mode, NEW forced, NEW x, Out(x, depth, mode, forced)
    PROVE  /\ Privacy!IsText(x) /\ forced => x.text \in Privacy!Placeholders
           /\ Privacy!IsText(x) /\ mode = "external" =>
                 /\ Privacy!mask_value(x.text) = x.text
                 /\ x.text \notin Privacy!PROVIDER \union Privacy!PII \union (Privacy!TOKENS \ {"padded"})
           /\ "object" \in DOMAIN x =>
                 /\ x = [object |-> x.object]
                 /\ \A key \in DOMAIN x.object \intersect SensitiveKeys : x.object[key].text \in Privacy!Placeholders
<1>1. ASSUME NEW t \in Privacy!Placeholders
      PROVE  /\ Privacy!mask_value(t) = t
             /\ t \notin Privacy!PROVIDER \union Privacy!PII \union (Privacy!TOKENS \ {"padded"})
  BY DEF Privacy!Placeholders, Privacy!mask_value, Privacy!PROVIDER, Privacy!PII, Privacy!TOKENS
<1>2. ASSUME NEW k
      PROVE  /\ Privacy!mask_value(Privacy!mask_value(k)) = Privacy!mask_value(k)
             /\ Privacy!mask_value(k) \notin Privacy!PROVIDER \union Privacy!PII \union (Privacy!TOKENS \ {"padded"})
  BY DEF Privacy!mask_value, Privacy!PROVIDER, Privacy!PII, Privacy!TOKENS
<1>3. CASE Placeholder(x)
  <2>1. PICK t \in Privacy!Placeholders : x = Privacy!Text(t)
    BY <1>3 DEF Placeholder
  <2>2. x.text = t /\ "object" \notin DOMAIN x
    BY <2>1 DEF Privacy!Text
  <2> QED
    BY <1>1, <2>2
<1>4. CASE Came(x, depth, mode, forced)
  <2>1. PICK v \in Values, how \in Privacy!Hows :
           /\ how.mode = mode /\ (forced => how.force)
           /\ x \in {Privacy!redact[v][how], Caveated(Privacy!redact[v][how])}
    BY <1>4 DEF Came
  <2>2. CASE "object" \in DOMAIN v
    <3>1. PICK object : x = [object |-> object] /\ IsOut(object, v, how)
      BY <2>1, <2>2, CaveatsComeOut
    <3>2. ~Privacy!IsText(x) /\ x.object = object
      BY <3>1 DEF Privacy!IsText
    <3>3. \A key \in DOMAIN object \intersect SensitiveKeys : object[key].text \in Privacy!Placeholders
      BY <3>1 DEF IsOut, Placeholder, Privacy!Text
    <3> QED
      BY <3>1, <3>2, <3>3
  <2>3. CASE "object" \notin DOMAIN v
    <3>1. /\ "object" \notin DOMAIN x
          /\ Privacy!IsText(x) =>
                 \/ how.force /\ Placeholder(x)
                 \/ ~how.force /\ (how.mode = "external" => \E k : x = Privacy!Text(Privacy!mask_value(k)))
      BY <2>1, <2>3, OthersComeOut
    <3>2. Placeholder(x) => x.text \in Privacy!Placeholders
      BY DEF Placeholder, Privacy!Text
    <3>3. ASSUME NEW k, x = Privacy!Text(Privacy!mask_value(k)) PROVE x.text = Privacy!mask_value(k)
      BY <3>3 DEF Privacy!Text
    <3> QED
      BY <1>1, <1>2, <2>1, <3>1, <3>2, <3>3
  <2> QED
    BY <2>2, <2>3
<1> QED
  BY <1>3, <1>4 DEF Out

\* The levels are what their definition says.
Below(level) == UNION {Privacy!Inside(v) : v \in level}
LEMMA LevelsAre ==
    ASSUME NEW value, NEW depth \in Nat
    PROVE  /\ Privacy!Levels(value, depth)[0] = {value}
           /\ \A n \in Nat : n + 1 <= depth =>
                 Privacy!Levels(value, depth)[n + 1] = Below(Privacy!Levels(value, depth)[n])
<1> DEFINE Next_(f, n) == IF n = 0 THEN {value} ELSE Below(f[n - 1])
           Defines(f, k) == f = [n \in 0 .. k |-> Next_(f, n)]
           P(k) == \E f : Defines(f, k)
           T == {k \in Nat : P(k)}
<1>1. P(0)
  <2> DEFINE f == [n \in 0 .. 0 |-> {value}]
  <2>1. Defines(f, 0)
    OBVIOUS
  <2> QED
    BY <2>1
<1>2. ASSUME NEW k \in Nat, P(k) PROVE P(k + 1)
  <2>1. PICK f : Defines(f, k)
    BY <1>2
  <2> DEFINE g == [n \in 0 .. (k + 1) |-> Next_(f, n)]
  <2>2. \A n \in 0 .. k : f[n] = Next_(f, n)
    BY <2>1
  <2>3. \A n \in 0 .. k : f[n] = g[n]
    <3> HIDE DEF Next_
    <3>1. \A n \in 0 .. (k + 1) : g[n] = Next_(f, n)
      OBVIOUS
    <3> QED
      BY <2>2, <3>1
  <2>4. \A n \in 0 .. (k + 1) : n # 0 => n - 1 \in 0 .. k
    OBVIOUS
  <2>5. \A n \in 0 .. (k + 1) : Next_(f, n) = Next_(g, n)
    <3> HIDE DEF g
    <3> QED
      BY <2>3, <2>4
  <2>6. Defines(g, k + 1)
    <3>1. g = [n \in 0 .. (k + 1) |-> Next_(f, n)]
      OBVIOUS
    <3> HIDE DEF g, Next_
    <3> QED
      BY <2>5, <3>1
  <2> QED
    BY <2>6
<1> HIDE DEF P
<1>3. 0 \in T /\ \A k \in Nat : k \in T => k + 1 \in T
  BY <1>1, <1>2
<1> HIDE DEF T
<1>4. Nat \subseteq T
  BY <1>3, NatSetInduction
<1>5. P(depth)
  BY <1>4 DEF T
<1>6. Privacy!Levels(value, depth) = CHOOSE f : Defines(f, depth)
  BY Zenon DEF Privacy!Levels, Below
<1>7. Defines(Privacy!Levels(value, depth), depth)
  <2> HIDE DEF Defines
  <2> QED
    BY <1>5, <1>6 DEF P
<1> DEFINE levels == Privacy!Levels(value, depth)
<1> HIDE DEF levels
<1>8. levels = [n \in 0 .. depth |-> Next_(levels, n)]
  BY <1>7 DEF levels
<1>9. \A n \in 0 .. depth : levels[n] = Next_(levels, n)
  <2> HIDE DEF Next_
  <2> QED
    BY <1>8
<1>10. levels[0] = {value}
  <2>1. levels[0] = Next_(levels, 0)
    <3>1. 0 \in 0 .. depth
      OBVIOUS
    <3> HIDE DEF Next_
    <3> QED
      BY <1>9, <3>1
  <2> QED
    BY <2>1
<1>11. ASSUME NEW n \in Nat, n + 1 <= depth PROVE levels[n + 1] = Below(levels[n])
  <2> DEFINE m == n + 1
  <2>1. m \in 0 .. depth /\ m # 0 /\ m - 1 = n
    BY <1>11
  <2> HIDE DEF m
  <2>2. levels[m] = Next_(levels, m)
    <3> HIDE DEF Next_
    <3> QED
      BY <1>9, <2>1
  <2>3. levels[m] = Below(levels[n])
    BY <2>1, <2>2
  <2> QED
    BY <2>3 DEF m
<1> QED
  BY <1>10, <1>11 DEF levels

\* What comes out as an object is nothing else.
IsObject(x) == x = [object |-> x.object]
LEMMA ObjectsOut ==
    ASSUME NEW depth \in Int, NEW mode, NEW forced, NEW x, Out(x, depth, mode, forced), "object" \in DOMAIN x
    PROVE  IsObject(x)
<1>1. x = [object |-> x.object]
  BY OutIsClean
<1> QED
  BY <1>1 DEF IsObject

\* If all of one level come out of the worker, so do all below.
AllOut(level, depth, mode, forced) == \A x \in level : Out(x, depth, mode, forced)

LEMMA LevelsComeOut ==
    ASSUME NEW value, NEW depth \in Nat, NEW start \in Int, NEW mode, NEW forced, NEW first \in Nat,
           first <= depth => AllOut(Privacy!Levels(value, depth)[first], start - first, mode, forced)
    PROVE  \A n \in first .. depth : AllOut(Privacy!Levels(value, depth)[n], start - n, mode, forced)
<1> DEFINE L == Privacy!Levels(value, depth)
           P(n) == first + n <= depth => AllOut(L[first + n], start - (first + n), mode, forced)
           T == {n \in Nat : P(n)}
<1>1. P(0)
  <2>1. first + 0 = first
    OBVIOUS
  <2> QED
    BY <2>1
<1>2. ASSUME NEW n \in Nat, P(n) PROVE P(n + 1)
  <2> DEFINE m == first + n
             d == start - m
  <2> SUFFICES ASSUME m + 1 <= depth, NEW y \in L[m + 1] PROVE Out(y, d - 1, mode, forced)
    <3>1. first + (n + 1) = m + 1 /\ start - (first + (n + 1)) = d - 1
      OBVIOUS
    <3> QED
      BY <3>1 DEF AllOut
  <2>1. m \in Nat /\ m <= depth /\ d \in Int
    OBVIOUS
  <2>2. AllOut(L[m], d, mode, forced)
    BY <1>2, <2>1
  <2> HIDE DEF m, d
  <2>3. L[m + 1] = Below(L[m])
    BY <2>1, LevelsAre
  <2> HIDE DEF L
  <2>4. PICK x \in L[m] : y \in Privacy!Inside(x)
    BY <2>3 DEF Below
  <2>5. Out(x, d, mode, forced)
    BY <2>2 DEF AllOut
  <2> QED
    BY <2>1, <2>4, <2>5, InsideComesOut
<1> HIDE DEF P
<1>3. 0 \in T /\ \A n \in Nat : n \in T => n + 1 \in T
  BY <1>1, <1>2
<1> HIDE DEF T
<1>4. Nat \subseteq T
  BY <1>3, NatSetInduction
<1>5. \A n \in Nat : P(n)
  BY <1>4 DEF T
<1> SUFFICES ASSUME NEW n \in first .. depth PROVE AllOut(L[n], start - n, mode, forced)
  OBVIOUS
<1>6. n - first \in Nat /\ first + (n - first) = n /\ n <= depth
  OBVIOUS
<1>7. P(n - first)
  BY <1>5, <1>6
<1> HIDE DEF L
<1> QED
  BY <1>6, <1>7 DEF P

LEMMA RedactionAnswered ==
    ASSUME Given, Answered("redact") PROVE RedactedIsClean
<1> DEFINE depth == nesting[asked.value]
           how == [mode |-> asked.mode, force |-> FALSE]
           result == Privacy!redact[asked.value][how]
           top == answer.value
           L == Privacy!Levels(top, depth)
           seen == Privacy!Seen(top, depth)
           shown == Privacy!Shown(seen)
<1>1. /\ asked.value \in Values /\ how \in Privacy!Hows /\ depth \in Nat
      /\ top = Privacy!redact_file(asked.value, asked.mode)
  <2>1. asked \in Questions["redact"] /\ top = Privacy!redact_file(asked.value, asked.mode)
    BY DEF Given, Answered
  <2>2. asked.value \in Values /\ asked.mode \in {"external", "local"}
    BY <2>1, RedactAssumption
  <2> QED
    BY <2>1, <2>2, RedactAssumption DEF Privacy!Hows
<1>2. top = Caveated(result)
  BY <1>1, Zenon DEF Privacy!redact_file, Caveated
<1> HIDE DEF result, top
<1>3. Out(top, depth, asked.mode, FALSE)
  <2>1. how.mode = asked.mode /\ top \in {Privacy!redact[asked.value][how], Caveated(Privacy!redact[asked.value][how])}
    BY <1>2 DEF result
  <2> HIDE DEF how
  <2>2. Came(top, depth, asked.mode, FALSE)
    BY <1>1, <2>1 DEF Came
  <2> QED
    BY <2>2 DEF Out
<1> HIDE DEF depth
<1>4. L[0] = {top}
  BY <1>1, LevelsAre
<1>5. \A n \in 0 .. depth : AllOut(L[n], depth - n, asked.mode, FALSE)
  <2>1. AllOut(L[0], depth - 0, asked.mode, FALSE)
    <3>1. depth - 0 = depth
      BY <1>1
    <3> HIDE DEF L
    <3> QED
      BY <1>3, <1>4, <3>1 DEF AllOut
  <2>2. depth \in Nat /\ depth \in Int /\ 0 \in Nat
    BY <1>1
  <2> QED
    BY <2>1, <2>2, LevelsComeOut
<1> HIDE DEF L
<1>6. \A x \in seen : \E n \in 0 .. depth : x \in L[n] /\ Out(x, depth - n, asked.mode, FALSE)
  BY <1>5 DEF Privacy!Seen, L, AllOut
<1> HIDE DEF seen
<1>7. (UNION {Privacy!Inside(v) : v \in seen}) \subseteq seen
  <2> SUFFICES ASSUME NEW x \in seen, NEW y \in Privacy!Inside(x) PROVE y \in seen
    OBVIOUS
  <2>1. PICK n \in 0 .. depth : x \in L[n] /\ Out(x, depth - n, asked.mode, FALSE)
    BY <1>6
  <2> DEFINE d == depth - n
  <2>2. d >= 1
    <3>1. d \in Int
      BY <1>1
    <3>2. Out(x, d, asked.mode, FALSE)
      BY <2>1
    <3> HIDE DEF d
    <3> QED
      BY <3>1, <3>2, InsideComesOut
  <2>3. n \in Nat /\ n + 1 <= depth /\ n + 1 \in 0 .. depth
    BY <1>1, <2>2
  <2>4. L[n + 1] = Below(L[n])
    BY <1>1, <2>3, LevelsAre DEF L
  <2>5. y \in L[n + 1]
    BY <2>1, <2>4 DEF Below
  <2> QED
    BY <2>3, <2>5 DEF seen, L, Privacy!Seen
<1>8. ASSUME asked.mode = "external"
      PROVE  /\ \A k \in shown : Privacy!mask_value(k) = k
             /\ shown \intersect (Privacy!PROVIDER \union Privacy!PII \union (Privacy!TOKENS \ {"padded"})) = {}
  <2> SUFFICES ASSUME NEW x \in seen, Privacy!IsText(x)
               PROVE  /\ Privacy!mask_value(x.text) = x.text
                      /\ x.text \notin Privacy!PROVIDER \union Privacy!PII \union (Privacy!TOKENS \ {"padded"})
    BY DEF Privacy!Shown
  <2>1. PICK n \in 0 .. depth : Out(x, depth - n, asked.mode, FALSE)
    BY <1>6
  <2>2. depth - n \in Int
    BY <1>1
  <2> QED
    BY <1>8, <2>1, <2>2, OutIsClean
<1>9. ASSUME asked.mode = "external" PROVE Privacy!scan_secrets(shown) \subseteq {"padded"}
  <2> HIDE DEF shown
  <2>1. shown \intersect (Privacy!PROVIDER \union Privacy!PII \union (Privacy!TOKENS \ {"padded"})) = {}
    BY <1>8, <1>9
  <2> SUFFICES ASSUME NEW k \in shown, k \in Privacy!PROVIDER \/ k = "hex" \/ Privacy!looks_like_b64_secret(k)
               PROVE  k = "padded"
    BY DEF Privacy!scan_secrets
  <2> QED
    BY <2>1 DEF Privacy!looks_like_b64_secret, Privacy!TOKENS
<1>10. ASSUME asked.mode = "external", NEW o \in Privacy!Objects(seen),
              Privacy!StrOf(o, "model") \in SENSITIVE_MODELS
       PROVE  Privacy!Shown(Privacy!Seen([object |-> o], depth)) \subseteq Privacy!Placeholders
  <2> DEFINE M == Privacy!Levels([object |-> o], depth)
  <2>1. PICK x \in seen : "object" \in DOMAIN x /\ x.object = o
    BY DEF Privacy!Objects
  <2>2. PICK n \in 0 .. depth : Out(x, depth - n, asked.mode, FALSE)
    BY <1>6
  <2> DEFINE d == depth - n
  <2>12. d \in Int
    BY <1>1
  <2>13. Out(x, d, asked.mode, FALSE)
    BY <2>2
  <2>3. d \in Int /\ Out(x, d, asked.mode, FALSE)
    BY <2>12, <2>13
  <2> HIDE DEF d
  <2>4. x = [object |-> o]
    <3>1. IsObject(x)
      BY <2>1, <2>12, <2>13, ObjectsOut
    <3> QED
      BY <2>1, <3>1 DEF IsObject
  <2>5. M[0] = {x}
    BY <1>1, <2>4, LevelsAre
  <2>6. 1 <= depth => AllOut(M[1], d - 1, asked.mode, TRUE)
    <3> SUFFICES ASSUME 1 <= depth, NEW y \in M[1] PROVE Out(y, d - 1, asked.mode, TRUE)
      BY DEF AllOut
    <3>1. 0 \in Nat /\ 0 + 1 <= depth /\ 0 + 1 = 1
      BY <1>1
    <3>2. M[0 + 1] = Below(M[0])
      BY <1>1, <3>1, LevelsAre
    <3> HIDE DEF M
    <3>3. y \in Privacy!Inside(x)
      BY <2>5, <3>1, <3>2 DEF Below
    <3> QED
      BY <1>10, <2>1, <2>3, <3>3, InsideComesOut
  <2>7. \A m \in 1 .. depth : AllOut(M[m], d - m, asked.mode, TRUE)
    BY <1>1, <2>3, <2>6, LevelsComeOut
  <2> SUFFICES ASSUME NEW y \in Privacy!Seen([object |-> o], depth), Privacy!IsText(y)
               PROVE  y.text \in Privacy!Placeholders
    BY DEF Privacy!Shown
  <2>8. PICK m \in 0 .. depth : y \in M[m]
    BY DEF Privacy!Seen
  <2>9. y # x
    BY <2>4 DEF Privacy!IsText
  <2> HIDE DEF M
  <2>10. m \in 1 .. depth
    BY <2>5, <2>8, <2>9
  <2> DEFINE e == d - m
  <2>11. e \in Int
    BY <2>12, <2>10
  <2>14. AllOut(M[m], e, asked.mode, TRUE)
    BY <2>7, <2>10
  <2> HIDE DEF e
  <2>15. Out(y, e, asked.mode, TRUE)
    BY <2>8, <2>14 DEF AllOut
  <2> QED
    BY <2>11, <2>15, OutIsClean
<1>11. ASSUME NEW o \in Privacy!Objects(seen), NEW k \in SensitiveKeys, k \in DOMAIN o
       PROVE  o[k].text \in Privacy!Placeholders
  <2>1. PICK x \in seen : "object" \in DOMAIN x /\ x.object = o
    BY DEF Privacy!Objects
  <2>2. PICK n \in 0 .. depth : Out(x, depth - n, asked.mode, FALSE)
    BY <1>6
  <2>3. depth - n \in Int
    BY <1>1
  <2> QED
    BY <1>11, <2>1, <2>2, <2>3, OutIsClean
<1>12. ASSUME "object" \in DOMAIN asked.value PROVE DOMAIN asked.value.object \subseteq DOMAIN top.object
  <2>1. top \in {Privacy!redact[asked.value][how], Caveated(Privacy!redact[asked.value][how])}
    BY <1>2 DEF result
  <2> HIDE DEF how
  <2>2. PICK object : top = [object |-> object] /\ IsOut(object, asked.value, how)
    BY <1>1, <1>12, <2>1, CaveatsComeOut
  <2> QED
    BY <2>2 DEF IsOut
<1> HIDE DEF shown
<1> QED
  BY <1>7, <1>8, <1>9, <1>10, <1>11, <1>12 DEF RedactedIsClean, depth, seen, shown, top

\* For any JSON, however deep: what redact lets out is masked, and hides what
\* its keys and models ask to hide.
THEOREM RedactionsAreClean == Spec => []RedactedIsClean
<1>1. Given => RedactedIsClean
  BY RedactionAnswered DEF RedactedIsClean
<1> QED
  BY <1>1, AlwaysGiven, PTL

-----------------------------------------------------------------------------
(* native_check.py, fit_gap.py and claim_verify.py: probes                  *)

\* What a probe says, f being what its parts say; and what it means.
EvalOf(f, probe, env) ==
    IF "bad" \in DOMAIN probe THEN Claims!Result(FALSE, {"malformed"})
    ELSE IF "any" \in DOMAIN probe THEN Claims!EvalAny([i \in DOMAIN probe.any |-> f[probe.any[i]]])
    ELSE IF "all" \in DOMAIN probe THEN Claims!EvalAll([i \in DOMAIN probe.all |-> f[probe.all[i]]])
    ELSE Claims!Result(Claims!dispatch_leaf(probe, env) = "found", {Claims!dispatch_leaf(probe, env)})

MeaningOf(f, probe) ==
    IF "bad" \in DOMAIN probe THEN [ways |-> {}, leaves |-> {}]
    ELSE IF "any" \in DOMAIN probe
         THEN LET parts == [i \in DOMAIN probe.any |-> f[probe.any[i]]]
              IN  [ways |-> Claims!Sets(parts), leaves |-> Claims!Leaves(parts)]
    ELSE IF "all" \in DOMAIN probe
         THEN LET parts == [i \in DOMAIN probe.all |-> f[probe.all[i]]]
              IN  [ways |-> {UNION {c[i] : i \in DOMAIN c} : c \in Claims!OneOfEach(parts)},
                   leaves |-> Claims!Leaves(parts)]
    ELSE [ways |-> {{probe}}, leaves |-> {probe}]

\* Both at once, so that there is one recursion to reason about.
BothOf(f, probe, env) ==
    [eval |-> EvalOf([p \in Probes |-> f[p].eval], probe, env),
     meaning |-> MeaningOf([p \in Probes |-> f[p].meaning], probe)]

\* Both depend on what nests less only.
LEMMA BothByParts ==
    ASSUME NEW probe \in Probes, NEW env, NEW f, NEW g,
           \A part \in Probes : nested[part] < nested[probe] => f[part] = g[part]
    PROVE  BothOf(f, probe, env) = BothOf(g, probe, env)
<1> DEFINE E(h) == [p \in Probes |-> h[p].eval]
           M(h) == [p \in Probes |-> h[p].meaning]
           AnyOf(h) == [i \in DOMAIN probe.any |-> h[probe.any[i]]]
           AllOf(h) == [i \in DOMAIN probe.all |-> h[probe.all[i]]]
<1>1. ASSUME "any" \in DOMAIN probe PROVE AnyOf(E(f)) = AnyOf(E(g)) /\ AnyOf(M(f)) = AnyOf(M(g))
  <2>1. \A i \in DOMAIN probe.any : probe.any[i] \in Probes /\ f[probe.any[i]] = g[probe.any[i]]
    BY <1>1, ClaimAssumption
  <2> QED
    BY <2>1
<1>2. ASSUME "all" \in DOMAIN probe PROVE AllOf(E(f)) = AllOf(E(g)) /\ AllOf(M(f)) = AllOf(M(g))
  <2>1. \A i \in DOMAIN probe.all : probe.all[i] \in Probes /\ f[probe.all[i]] = g[probe.all[i]]
    BY <1>2, ClaimAssumption
  <2> QED
    BY <2>1
<1>3. EvalOf(E(f), probe, env) = EvalOf(E(g), probe, env)
  <2> HIDE DEF E
  <2>1. ASSUME NEW h
        PROVE  EvalOf(h, probe, env) =
                 IF "bad" \in DOMAIN probe THEN Claims!Result(FALSE, {"malformed"})
                 ELSE IF "any" \in DOMAIN probe THEN Claims!EvalAny(AnyOf(h))
                 ELSE IF "all" \in DOMAIN probe THEN Claims!EvalAll(AllOf(h))
                 ELSE Claims!Result(Claims!dispatch_leaf(probe, env) = "found", {Claims!dispatch_leaf(probe, env)})
    BY Zenon DEF EvalOf
  <2> HIDE DEF AnyOf, AllOf
  <2>2. CASE "bad" \in DOMAIN probe
    BY <2>1, <2>2, Zenon
  <2>3. CASE "bad" \notin DOMAIN probe /\ "any" \in DOMAIN probe
    BY <1>1, <2>1, <2>3, Zenon
  <2>4. CASE "bad" \notin DOMAIN probe /\ "any" \notin DOMAIN probe /\ "all" \in DOMAIN probe
    BY <1>2, <2>1, <2>4, Zenon
  <2>5. CASE "bad" \notin DOMAIN probe /\ "any" \notin DOMAIN probe /\ "all" \notin DOMAIN probe
    BY <2>1, <2>5, Zenon
  <2> QED
    BY <2>2, <2>3, <2>4, <2>5
<1>4. MeaningOf(M(f), probe) = MeaningOf(M(g), probe)
  <2> HIDE DEF M
  <2> DEFINE Whole(any, all) ==
               IF "bad" \in DOMAIN probe THEN [ways |-> {}, leaves |-> {}]
               ELSE IF "any" \in DOMAIN probe THEN [ways |-> Claims!Sets(any), leaves |-> Claims!Leaves(any)]
               ELSE IF "all" \in DOMAIN probe
                    THEN [ways |-> {UNION {c[i] : i \in DOMAIN c} : c \in Claims!OneOfEach(all)},
                          leaves |-> Claims!Leaves(all)]
               ELSE [ways |-> {{probe}}, leaves |-> {probe}]
  <2>1. \A h : MeaningOf(h, probe) = Whole(AnyOf(h), AllOf(h))
    BY Zenon DEF MeaningOf
  <2>2. ASSUME NEW any, NEW all, NEW other, "any" \in DOMAIN probe PROVE Whole(any, all) = Whole(any, other)
    BY <2>2
  <2>3. ASSUME NEW any, NEW all, NEW other, "any" \notin DOMAIN probe PROVE Whole(any, all) = Whole(other, all)
    BY <2>3
  <2>4. ASSUME NEW any, NEW all, NEW x, NEW y, "any" \notin DOMAIN probe, "all" \notin DOMAIN probe
        PROVE  Whole(any, all) = Whole(x, y)
    BY <2>4
  <2> HIDE DEF Whole, AnyOf, AllOf
  <2>5. CASE "any" \in DOMAIN probe
    BY <1>1, <2>1, <2>2, <2>5
  <2>6. CASE "any" \notin DOMAIN probe /\ "all" \in DOMAIN probe
    BY <1>2, <2>1, <2>3, <2>6
  <2>7. CASE "any" \notin DOMAIN probe /\ "all" \notin DOMAIN probe
    BY <2>1, <2>4, <2>7
  <2> QED
    BY <2>5, <2>6, <2>7
<1> QED
  BY <1>3, <1>4, Zenon DEF BothOf

\* By how deep they nest, both are defined on all probes.
NestedTo(n) == {p \in Probes : nested[p] < n}
IsBothTo(n, f, env) == f = [p \in NestedTo(n) |-> BothOf(f, p, env)]

LEMMA BothTo == ASSUME NEW env PROVE \A n \in Nat : \E f : IsBothTo(n, f, env)
<1> DEFINE P(n) == \E f : IsBothTo(n, f, env)
           T == {n \in Nat : P(n)}
<1>1. P(0)
  <2> DEFINE f == [p \in NestedTo(0) |-> 0]
  <2>1. NestedTo(0) = {}
    BY ClaimAssumption DEF NestedTo
  <2>2. IsBothTo(0, f, env)
    BY <2>1 DEF IsBothTo
  <2> QED
    BY <2>2
<1>2. ASSUME NEW n \in Nat, P(n) PROVE P(n + 1)
  <2>1. PICK f : IsBothTo(n, f, env)
    BY <1>2
  <2> DEFINE g == [p \in NestedTo(n + 1) |-> BothOf(f, p, env)]
  <2>2. \A p \in NestedTo(n) : p \in NestedTo(n + 1) /\ f[p] = BothOf(f, p, env)
    <3>1. \A p \in NestedTo(n) : f[p] = BothOf(f, p, env)
      BY <2>1 DEF IsBothTo
    <3>2. \A p \in NestedTo(n) : p \in NestedTo(n + 1)
      BY ClaimAssumption DEF NestedTo
    <3> QED
      BY <3>1, <3>2
  <2>3. \A p \in NestedTo(n) : f[p] = g[p]
    BY <2>2
  <2>4. ASSUME NEW p \in NestedTo(n + 1) PROVE BothOf(f, p, env) = BothOf(g, p, env)
    <3>1. p \in Probes /\ nested[p] < n + 1
      BY DEF NestedTo
    <3>2. \A part \in Probes : nested[part] < nested[p] => part \in NestedTo(n)
      BY <3>1, ClaimAssumption DEF NestedTo
    <3>3. \A part \in Probes : nested[part] < nested[p] => f[part] = g[part]
      BY <2>3, <3>2
    <3> HIDE DEF g
    <3> QED
      BY <3>1, <3>3, BothByParts
  <2>5. IsBothTo(n + 1, g, env)
    <3>1. g = [p \in NestedTo(n + 1) |-> BothOf(f, p, env)]
      OBVIOUS
    <3> HIDE DEF g
    <3> QED
      BY <2>4, <3>1 DEF IsBothTo
  <2> QED
    BY <2>5
<1> HIDE DEF P
<1>3. 0 \in T /\ \A n \in Nat : n \in T => n + 1 \in T
  BY <1>1, <1>2
<1> HIDE DEF T
<1>4. Nat \subseteq T
  BY <1>3, NatSetInduction
<1> QED
  BY <1>4 DEF T, P

\* Two such definitions agree where both are.
LEMMA BothAgree ==
    ASSUME NEW env, NEW m \in Nat, NEW n \in Nat, NEW f, NEW g, IsBothTo(m, f, env), IsBothTo(n, g, env)
    PROVE  \A p \in NestedTo(m) \intersect NestedTo(n) : f[p] = g[p]
<1> DEFINE Q(k) == \A p \in NestedTo(m) \intersect NestedTo(n) : nested[p] < k => f[p] = g[p]
           T == {k \in Nat : Q(k)}
<1>1. Q(0)
  BY ClaimAssumption DEF NestedTo
<1>2. ASSUME NEW k \in Nat, Q(k) PROVE Q(k + 1)
  <2> SUFFICES ASSUME NEW p \in NestedTo(m) \intersect NestedTo(n), nested[p] < k + 1 PROVE f[p] = g[p]
    OBVIOUS
  <2>1. p \in Probes /\ nested[p] < m /\ nested[p] < n
    BY DEF NestedTo
  <2>2. ASSUME NEW part \in Probes, nested[part] < nested[p] PROVE f[part] = g[part]
    <3>1. nested[part] \in Nat /\ nested[p] \in Nat
      BY <2>1, ClaimAssumption
    <3>2. part \in NestedTo(m) \intersect NestedTo(n) /\ nested[part] < k
      BY <2>1, <2>2, <3>1 DEF NestedTo
    <3> QED
      BY <1>2, <3>2
  <2>3. BothOf(f, p, env) = BothOf(g, p, env)
    BY <2>1, <2>2, BothByParts
  <2>4. f[p] = BothOf(f, p, env) /\ g[p] = BothOf(g, p, env)
    BY DEF IsBothTo
  <2> QED
    BY <2>3, <2>4
<1> HIDE DEF Q
<1>3. 0 \in T /\ \A k \in Nat : k \in T => k + 1 \in T
  BY <1>1, <1>2
<1> HIDE DEF T
<1>4. Nat \subseteq T
  BY <1>3, NatSetInduction
<1>5. \A k \in Nat : Q(k)
  BY <1>4 DEF T
<1> SUFFICES ASSUME NEW p \in NestedTo(m) \intersect NestedTo(n) PROVE f[p] = g[p]
  OBVIOUS
<1>6. Q(m) /\ nested[p] < m
  BY <1>5 DEF NestedTo
<1> QED
  BY <1>6 DEF Q

\* So that there is a function that is both everywhere.
LEMMA BothAre == ASSUME NEW env PROVE \E h : h = [p \in Probes |-> BothOf(h, p, env)]
<1> DEFINE F(n) == CHOOSE f : IsBothTo(n, f, env)
           h == [p \in Probes |-> F(nested[p] + 1)[p]]
<1>1. \A n \in Nat : IsBothTo(n, F(n), env)
  BY BothTo
<1> HIDE DEF F
<1>2. \A p \in Probes : nested[p] \in Nat
  BY ClaimAssumption
<1>3. ASSUME NEW p \in Probes PROVE h[p] = BothOf(h, p, env)
  <2> DEFINE n == nested[p] + 1
  <2>1. n \in Nat /\ p \in NestedTo(n) /\ IsBothTo(n, F(n), env)
    BY <1>1, <1>2 DEF NestedTo
  <2>2. h[p] = BothOf(F(n), p, env)
    BY <2>1 DEF IsBothTo
  <2>3. ASSUME NEW part \in Probes, nested[part] < nested[p] PROVE F(n)[part] = h[part]
    <3> DEFINE m == nested[part] + 1
    <3>1. m \in Nat /\ IsBothTo(m, F(m), env) /\ part \in NestedTo(m) \intersect NestedTo(n)
      BY <1>1, <1>2, <2>3 DEF NestedTo
    <3> HIDE DEF m, n
    <3>2. F(n)[part] = F(m)[part]
      BY <2>1, <3>1, BothAgree
    <3> QED
      BY <3>2 DEF m
  <2> HIDE DEF h, n
  <2>4. BothOf(F(n), p, env) = BothOf(h, p, env)
    BY <2>3, BothByParts
  <2> QED
    BY <2>2, <2>4
<1>4. h = [p \in Probes |-> h[p]]
  OBVIOUS
<1> HIDE DEF h
<1>5. h = [p \in Probes |-> BothOf(h, p, env)]
  BY <1>3, <1>4
<1> QED
  BY <1>5

LEMMA EvalIs == ASSUME NEW env, NEW probe \in Probes
                PROVE  Claims!eval_probe(env)[probe] = EvalOf(Claims!eval_probe(env), probe, env)
<1>1. PICK h : h = [p \in Probes |-> BothOf(h, p, env)]
  BY BothAre
<1> DEFINE e == [p \in Probes |-> h[p].eval]
           Defines(f) == f = [p \in Probes |-> EvalOf(f, p, env)]
<1>2. \A p \in Probes : h[p].eval = EvalOf(e, p, env)
  <2>1. \A p \in Probes : BothOf(h, p, env).eval = EvalOf(e, p, env)
    BY DEF BothOf
  <2> HIDE DEF e
  <2> QED
    BY <1>1, <2>1
<1>3. Defines(e)
  <2>1. e = [p \in Probes |-> h[p].eval]
    OBVIOUS
  <2> HIDE DEF e
  <2> QED
    BY <1>2, <2>1
<1>4. Claims!eval_probe(env) = CHOOSE f : Defines(f)
  BY Zenon DEF Claims!eval_probe, EvalOf
<1> HIDE DEF e
<1>5. Defines(Claims!eval_probe(env))
  <2> HIDE DEF Defines
  <2> QED
    BY <1>3, <1>4
<1> QED
  BY <1>5

LEMMA MeaningIs == ASSUME NEW probe \in Probes PROVE Claims!meaning[probe] = MeaningOf(Claims!meaning, probe)
<1>1. PICK h : h = [p \in Probes |-> BothOf(h, p, 0)]
  BY BothAre
<1> DEFINE e == [p \in Probes |-> h[p].meaning]
           Defines(f) == f = [p \in Probes |-> MeaningOf(f, p)]
<1>2. \A p \in Probes : h[p].meaning = MeaningOf(e, p)
  <2>1. \A p \in Probes : BothOf(h, p, 0).meaning = MeaningOf(e, p)
    BY DEF BothOf
  <2> HIDE DEF e
  <2> QED
    BY <1>1, <2>1
<1>3. Defines(e)
  <2>1. e = [p \in Probes |-> h[p].meaning]
    OBVIOUS
  <2> HIDE DEF e
  <2> QED
    BY <1>2, <2>1
<1>4. Claims!meaning = CHOOSE f : Defines(f)
  BY Zenon DEF Claims!meaning, MeaningOf
<1> HIDE DEF e
<1>5. Defines(Claims!meaning)
  <2> HIDE DEF Defines
  <2> QED
    BY <1>3, <1>4
<1> QED
  BY <1>5

\* What a probe comes to: it passes if one of its ways is there, and is told
\* what its leaves say.
AllFound(way, env) == \A leaf \in way : Claims!dispatch_leaf(leaf, env) = "found"
IsWay(ways, env) == \E way \in ways : AllFound(way, env)
Heard(leaves, env) == {Claims!dispatch_leaf(leaf, env) : leaf \in leaves}
ComesTo(result, means, env) ==
    /\ result.passed <=> IsWay(means.ways, env)
    /\ result.evidence \ {"malformed"} = Heard(means.leaves, env)

LEMMA DispatchSays ==
    ASSUME NEW leaf, NEW env PROVE Claims!dispatch_leaf(leaf, env) \in {"unknown_kind", "error", "absent", "found"}
BY Zenon DEF Claims!dispatch_leaf

LEMMA PartsHeard ==
    ASSUME NEW env, NEW results, NEW parts, DOMAIN results = DOMAIN parts,
           \A i \in DOMAIN parts : ComesTo(results[i], parts[i], env)
    PROVE  (UNION {results[i].evidence : i \in DOMAIN results}) \ {"malformed"} = Heard(Claims!Leaves(parts), env)
<1> DEFINE evidence == UNION {results[i].evidence : i \in DOMAIN results}
<1>1. ASSUME NEW x \in evidence, x # "malformed" PROVE x \in Heard(Claims!Leaves(parts), env)
  <2>1. PICK i \in DOMAIN results : x \in results[i].evidence
    OBVIOUS
  <2>2. x \in Heard(parts[i].leaves, env)
    BY <1>1, <2>1 DEF ComesTo
  <2>3. PICK leaf \in parts[i].leaves : x = Claims!dispatch_leaf(leaf, env)
    BY <2>2 DEF Heard
  <2>4. leaf \in Claims!Leaves(parts)
    BY <2>3 DEF Claims!Leaves
  <2> QED
    BY <2>3, <2>4 DEF Heard
<1>2. ASSUME NEW x \in Heard(Claims!Leaves(parts), env) PROVE x \in evidence /\ x # "malformed"
  <2>1. PICK leaf \in Claims!Leaves(parts) : x = Claims!dispatch_leaf(leaf, env)
    BY DEF Heard
  <2>2. PICK i \in DOMAIN parts : leaf \in parts[i].leaves
    BY DEF Claims!Leaves
  <2>3. x \in Heard(parts[i].leaves, env)
    BY <2>1, <2>2 DEF Heard
  <2>4. x \in results[i].evidence /\ x # "malformed"
    BY <2>3 DEF ComesTo
  <2> QED
    BY <2>4
<1> HIDE DEF evidence
<1>3. evidence \ {"malformed"} = Heard(Claims!Leaves(parts), env)
  BY <1>1, <1>2
<1> QED
  BY <1>3 DEF evidence

\* One of a choice.
LEMMA WaysOfAny == ASSUME NEW env, NEW parts
                   PROVE  IsWay(Claims!Sets(parts), env) <=> \E i \in DOMAIN parts : IsWay(parts[i].ways, env)
BY DEF IsWay, Claims!Sets

\* One of each.
LEMMA WaysOfAll == ASSUME NEW env, NEW parts
                   PROVE  IsWay({UNION {c[i] : i \in DOMAIN c} : c \in Claims!OneOfEach(parts)}, env)
                            <=> \A i \in DOMAIN parts : IsWay(parts[i].ways, env)
<1> DEFINE All(c) == UNION {c[i] : i \in DOMAIN c}
           ways == {All(c) : c \in Claims!OneOfEach(parts)}
<1>1. ASSUME IsWay(ways, env), NEW i \in DOMAIN parts PROVE IsWay(parts[i].ways, env)
  <2>1. PICK c \in Claims!OneOfEach(parts) : AllFound(All(c), env)
    BY <1>1 DEF IsWay
  <2>2. DOMAIN c = DOMAIN parts /\ c[i] \in parts[i].ways
    BY DEF Claims!OneOfEach
  <2>3. AllFound(c[i], env)
    BY <2>1, <2>2 DEF AllFound
  <2> QED
    BY <2>2, <2>3 DEF IsWay
<1>2. ASSUME \A i \in DOMAIN parts : IsWay(parts[i].ways, env) PROVE IsWay(ways, env)
  <2> DEFINE Way(i) == CHOOSE way \in parts[i].ways : AllFound(way, env)
             c == [i \in DOMAIN parts |-> Way(i)]
  <2>1. \A i \in DOMAIN parts : Way(i) \in parts[i].ways /\ AllFound(Way(i), env)
    BY <1>2 DEF IsWay
  <2> HIDE DEF Way
  <2>2. \A i \in DOMAIN parts : Way(i) \in Claims!Sets(parts)
    BY <2>1 DEF Claims!Sets
  <2>3. c \in Claims!OneOfEach(parts)
    BY <2>1, <2>2 DEF Claims!OneOfEach
  <2>4. AllFound(All(c), env)
    BY <2>1 DEF AllFound
  <2> HIDE DEF c, All
  <2>5. All(c) \in ways
    BY <2>3
  <2> HIDE DEF ways
  <2> QED
    BY <2>4, <2>5 DEF IsWay
<1> QED
  BY <1>1, <1>2

\* Whatever the nesting.
LEMMA ProbesComeTo ==
    ASSUME NEW env, NEW probe \in Probes
    PROVE  ComesTo(Claims!eval_probe(env)[probe], Claims!meaning[probe], env)
<1> DEFINE eval == Claims!eval_probe(env)
           means == Claims!meaning
           Q(k) == \A p \in Probes : nested[p] < k => ComesTo(eval[p], means[p], env)
           T == {k \in Nat : Q(k)}
<1>0. \A p \in Probes : eval[p] = EvalOf(eval, p, env) /\ means[p] = MeaningOf(means, p)
  BY EvalIs, MeaningIs
<1> HIDE DEF eval, means
<1>1. Q(0)
  BY ClaimAssumption
<1>2. ASSUME NEW k \in Nat, Q(k) PROVE Q(k + 1)
  <2> SUFFICES ASSUME NEW p \in Probes, nested[p] < k + 1 PROVE ComesTo(eval[p], means[p], env)
    OBVIOUS
  <2>1. ASSUME NEW part \in Probes, nested[part] < nested[p] PROVE ComesTo(eval[part], means[part], env)
    BY <1>2, <2>1, ClaimAssumption
  <2>2. CASE "bad" \in DOMAIN p
    <3>1. eval[p] = [passed |-> FALSE, evidence |-> {"malformed"}]
      BY <1>0, <2>2, Zenon DEF EvalOf, Claims!Result
    <3>2. means[p] = [ways |-> {}, leaves |-> {}]
      BY <1>0, <2>2, Zenon DEF MeaningOf
    <3> QED
      BY <3>1, <3>2 DEF ComesTo, IsWay, Heard
  <2>3. CASE "bad" \notin DOMAIN p /\ "any" \in DOMAIN p
    <3> DEFINE results == [i \in DOMAIN p.any |-> eval[p.any[i]]]
               parts == [i \in DOMAIN p.any |-> means[p.any[i]]]
    <3>1. \A i \in DOMAIN parts : ComesTo(results[i], parts[i], env)
      BY <2>1, <2>3, ClaimAssumption
    <3>2. DOMAIN results = DOMAIN parts
      OBVIOUS
    <3>3. eval[p] = Claims!EvalAny(results) /\ means[p] = [ways |-> Claims!Sets(parts), leaves |-> Claims!Leaves(parts)]
      BY <1>0, <2>3, Zenon DEF EvalOf, MeaningOf
    <3> HIDE DEF results, parts
    <3>4. eval[p].evidence \ {"malformed"} = Heard(means[p].leaves, env)
      BY <3>1, <3>2, <3>3, PartsHeard DEF Claims!EvalAny, Claims!Result
    <3>5. (\E i \in DOMAIN results : results[i].passed) <=> IsWay(means[p].ways, env)
      BY <3>1, <3>2, <3>3, WaysOfAny DEF ComesTo
    <3>6. eval[p].passed <=> \E i \in DOMAIN results : results[i].passed
      BY <3>3 DEF Claims!EvalAny, Claims!Result
    <3> QED
      BY <3>4, <3>5, <3>6 DEF ComesTo
  <2>4. CASE "bad" \notin DOMAIN p /\ "any" \notin DOMAIN p /\ "all" \in DOMAIN p
    <3> DEFINE results == [i \in DOMAIN p.all |-> eval[p.all[i]]]
               parts == [i \in DOMAIN p.all |-> means[p.all[i]]]
               ways == {UNION {c[i] : i \in DOMAIN c} : c \in Claims!OneOfEach(parts)}
    <3>1. \A i \in DOMAIN parts : ComesTo(results[i], parts[i], env)
      BY <2>1, <2>4, ClaimAssumption
    <3>2. DOMAIN results = DOMAIN parts
      OBVIOUS
    <3>3. eval[p] = Claims!EvalAll(results) /\ means[p] = [ways |-> ways, leaves |-> Claims!Leaves(parts)]
      BY <1>0, <2>4, Zenon DEF EvalOf, MeaningOf
    <3> HIDE DEF results, parts
    <3>4. eval[p].evidence \ {"malformed"} = Heard(means[p].leaves, env)
      BY <3>1, <3>2, <3>3, PartsHeard DEF Claims!EvalAll, Claims!Result
    <3>5. (\A i \in DOMAIN results : results[i].passed) <=> IsWay(ways, env)
      BY <3>1, <3>2, WaysOfAll DEF ComesTo
    <3> HIDE DEF ways
    <3>6. eval[p].passed <=> \A i \in DOMAIN results : results[i].passed
      BY <3>3 DEF Claims!EvalAll, Claims!Result
    <3> QED
      BY <3>3, <3>4, <3>5, <3>6 DEF ComesTo
  <2>5. CASE "bad" \notin DOMAIN p /\ "any" \notin DOMAIN p /\ "all" \notin DOMAIN p
    <3> DEFINE says == Claims!dispatch_leaf(p, env)
    <3>1. eval[p] = Claims!Result(says = "found", {says})
      BY <1>0, <2>5, Zenon DEF EvalOf
    <3>2. means[p] = [ways |-> {{p}}, leaves |-> {p}]
      BY <1>0, <2>5, Zenon DEF MeaningOf
    <3>3. IsWay({{p}}, env) <=> says = "found"
      BY DEF IsWay, AllFound
    <3>4. {says} \ {"malformed"} = Heard({p}, env)
      BY DispatchSays DEF Heard
    <3> HIDE DEF says
    <3> DEFINE found == says = "found"
    <3>5. (eval[p].passed <=> found) /\ eval[p].evidence = {says}
      <4>1. eval[p] = [passed |-> found, evidence |-> {says}]
        BY <3>1, Zenon DEF Claims!Result
      <4> HIDE DEF found
      <4> QED
        BY <4>1
    <3>6. ComesTo(eval[p], [ways |-> {{p}}, leaves |-> {p}], env)
      <4> HIDE DEF found
      <4>1. /\ (eval[p].passed <=> IsWay({{p}}, env))
            /\ eval[p].evidence \ {"malformed"} = Heard({p}, env)
        BY <3>3, <3>4, <3>5 DEF found
      <4> QED
        BY <4>1 DEF ComesTo
    <3> QED
      BY <3>2, <3>6
  <2> QED
    BY <2>2, <2>3, <2>4, <2>5
<1> HIDE DEF Q
<1>3. 0 \in T /\ \A k \in Nat : k \in T => k + 1 \in T
  BY <1>1, <1>2
<1> HIDE DEF T
<1>4. Nat \subseteq T
  BY <1>3, NatSetInduction
<1>5. nested[probe] + 1 \in Nat /\ nested[probe] < nested[probe] + 1
  BY ClaimAssumption
<1>6. Q(nested[probe] + 1)
  BY <1>4, <1>5 DEF T
<1> QED
  BY <1>5, <1>6 DEF Q, eval, means

\* A card is gated exactly if its probe is there.
LEMMA GatedIsThere ==
    ASSUME NEW card, NEW env, card.probe = <<>> \/ card.probe[1] \in Probes
    PROVE  Claims!Gate(card, env).passed <=> Claims!There(card.probe, env)
<1>1. CASE card.probe = <<>>
  BY <1>1 DEF Claims!Gate, Claims!There, Claims!Result
<1>2. CASE card.probe # <<>>
  <2>1. Claims!Gate(card, env).passed <=> IsWay(Claims!meaning[card.probe[1]].ways, env)
    BY <1>2, ProbesComeTo DEF Claims!Gate, ComesTo
  <2> QED
    BY <1>2, <2>1 DEF Claims!There, IsWay, AllFound
<1> QED
  BY <1>1, <1>2

-----------------------------------------------------------------------------
(* claim_verify.py                                                          *)

LEMMA ProbeHasKind ==
    ASSUME NEW claim, Claims!claim_to_probe(claim) # <<>>
    PROVE  "kind" \in DOMAIN Claims!claim_to_probe(claim)[1]
<1> DEFINE own == claim.probe # <<>> /\ "kind" \in DOMAIN claim.probe[1] /\ claim.probe[1].kind \in Claims!PROBE_KINDS
           field == [kind |-> "field_exists", model |-> claim.model, field |-> claim.field]
           method == [kind |-> "method_exists", model |-> claim.model, method |-> claim.method]
           xmlid == [kind |-> "xmlid_exists", xmlid |-> claim.xmlid]
           model == [kind |-> "model_exists", model |-> claim.model]
<1>1. Claims!claim_to_probe(claim) \in {<<field>>, <<method>>, <<xmlid>>, <<model>>, <<>>}
        \/ (own /\ Claims!claim_to_probe(claim) = claim.probe)
  BY Zenon DEF Claims!claim_to_probe
<1>2. /\ "kind" \in DOMAIN field /\ "kind" \in DOMAIN method
      /\ "kind" \in DOMAIN xmlid /\ "kind" \in DOMAIN model
  OBVIOUS
<1>3. own => "kind" \in DOMAIN claim.probe[1]
  OBVIOUS
<1> HIDE DEF own, field, method, xmlid, model
<1>4. <<field>>[1] = field /\ <<method>>[1] = method /\ <<xmlid>>[1] = xmlid /\ <<model>>[1] = model
  OBVIOUS
<1> QED
  BY <1>1, <1>2, <1>3, <1>4

LEMMA VerdictAnswered == ASSUME Given, Answered("claim_verify") PROVE VerdictIsEarned
<1> DEFINE claim == asked.claim
           env == asked.env
           probe == Claims!claim_to_probe(claim)
           result == IF probe = <<>> THEN Claims!Result(FALSE, {}) ELSE Claims!eval_probe(env)[probe[1]]
           eval_ok == result.evidence \intersect {"error", "unknown_kind"} = {}
           passed == result.passed
           found == Claims!There(probe, env)
           looked_up == probe # <<>> /\ Claims!Says(probe, env) \subseteq {"found", "absent"}
           verdict == Claims!classify(claim, probe, passed, eval_ok)
           earned == /\ answer.verdict \in {"confirmed", "needs_shell"} <=> looked_up /\ found
                     /\ answer.verdict = "contradicted" => looked_up /\ ~found
                     /\ looked_up /\ ~found /\ Claims!sound[probe[1]] => answer.verdict = "contradicted"
                     /\ probe # <<>> /\ probe[1].kind = "method_exists" /\ answer.verdict = "confirmed"
                          => claim.claim_type = "existence"
<1>1. /\ answer = Claims!claim_verify(asked)
      /\ probe = <<>> \/ probe[1] \in Probes
  <2>1. tool = "claim_verify" /\ asked \in Questions["claim_verify"] /\ answer = Claims!claim_verify(asked)
    BY DEF Given, Answered
  <2> QED
    BY <2>1, ClaimAssumption
<1>2. Claims!claim_verify(asked) = [verdict |-> verdict]
  BY Zenon DEF Claims!claim_verify
<1> HIDE DEF verdict
<1>3. answer.verdict = verdict
  BY <1>1, <1>2
<1>4. ASSUME probe = <<>> PROVE earned
  <2>1. verdict \in {"needs_human", "absent"}
    BY <1>4, Zenon DEF verdict, Claims!classify
  <2>2. ~looked_up
    BY <1>4
  <2> HIDE DEF looked_up, found
  <2> QED
    BY <1>3, <1>4, <2>1, <2>2
<1>5. ASSUME probe # <<>> PROVE earned
  <2>1. ComesTo(result, Claims!meaning[probe[1]], env)
    BY <1>1, <1>5, ProbesComeTo
  <2>2. (passed <=> found) /\ result.evidence \ {"malformed"} = Claims!Says(probe, env)
    BY <1>5, <2>1 DEF ComesTo, Claims!There, Claims!Says, Heard, IsWay, AllFound
  <2>3. Claims!Says(probe, env) \subseteq {"unknown_kind", "error", "absent", "found"}
    BY <1>5, DispatchSays DEF Claims!Says
  <2> HIDE DEF result, found
  <2>4. eval_ok <=> looked_up
    BY <1>5, <2>2, <2>3
  <2> HIDE DEF eval_ok, looked_up, passed
  <2>5. /\ ~eval_ok => verdict = "needs_human"
        /\ eval_ok /\ ~passed => verdict = "contradicted"
        /\ eval_ok /\ passed => verdict = IF Claims!needs_runtime(claim, probe[1]) THEN "needs_shell" ELSE "confirmed"
    BY <1>5, Zenon DEF verdict, Claims!classify
  <2>6. "kind" \in DOMAIN probe[1]
    BY <1>5, ProbeHasKind
  <2>7. ASSUME probe[1].kind = "method_exists", verdict = "confirmed" PROVE claim.claim_type = "existence"
    BY <2>5, <2>6, <2>7 DEF Claims!needs_runtime
  <2> HIDE DEF probe, claim
  <2> QED
    BY <1>3, <2>2, <2>4, <2>5, <2>7
<1>6. earned
  <2> HIDE DEF earned
  <2> QED
    BY <1>4, <1>5
<1> QED
  BY <1>6, Zenon DEF VerdictIsEarned

-----------------------------------------------------------------------------
(* native_check.py: lists                                                   *)

\* The library's operator, as CapabilityClaims knows it.
LEMMA ClaimCounts == ASSUME NEW S PROVE Claims!Cardinality(S) = Cardinality(S)
BY Zenon DEF Claims!Cardinality, Cardinality

IsOrder(S, before) ==
    /\ \A s \in S : <<s, s>> \notin before
    /\ \A s, t \in S : s # t => <<s, t>> \in before \/ <<t, s>> \in before
    /\ \A s, t, u \in S : <<s, t>> \in before /\ <<t, u>> \in before => <<s, u>> \in before

\* A list of all of a set, each of them once.
Enumerates(order, S) ==
    /\ DOMAIN order = 1 .. Cardinality(S)
    /\ \A n \in DOMAIN order : order[n] \in S
    /\ \A n, k \in DOMAIN order : order[n] = order[k] => n = k
    /\ \A s \in S : \E n \in DOMAIN order : order[n] = s

LEMMA InOrderIs ==
    ASSUME NEW S, IsFiniteSet(S), NEW before, IsOrder(S, before)
    PROVE  Enumerates(Claims!InOrder(S, before), S)
<1> DEFINE Prev(s) == {t \in S : <<t, s>> \in before}
           size == Cardinality(S)
           r == [s \in S |-> Cardinality(Prev(s)) + 1]
           order == Claims!InOrder(S, before)
<1>1. size \in Nat
  BY FS_CardinalityType
<1>2. ASSUME NEW s \in S PROVE /\ IsFiniteSet(Prev(s)) /\ Cardinality(Prev(s)) \in Nat
                               /\ Cardinality(Prev(s)) + 1 \in 1 .. size
  <2>1. Prev(s) \in SUBSET (S \ {s})
    BY DEF IsOrder
  <2>2. IsFiniteSet(S \ {s}) /\ Cardinality(S \ {s}) = size - 1
    BY FS_RemoveElement
  <2> HIDE DEF Prev
  <2>3. IsFiniteSet(Prev(s)) /\ Cardinality(Prev(s)) <= Cardinality(S \ {s})
    BY <2>1, <2>2, FS_Subset
  <2>4. Cardinality(Prev(s)) \in Nat
    BY <2>3, FS_CardinalityType
  <2> HIDE DEF size
  <2> QED
    BY <1>1, <2>2, <2>3, <2>4
<1>3. ASSUME NEW s \in S, NEW t \in S, <<s, t>> \in before PROVE Cardinality(Prev(s)) # Cardinality(Prev(t))
  <2>1. Prev(s) \in SUBSET Prev(t)
    BY <1>3 DEF IsOrder
  <2>2. s \in Prev(t) /\ s \notin Prev(s)
    BY <1>3 DEF IsOrder
  <2>3. IsFiniteSet(Prev(t))
    BY <1>2
  <2> HIDE DEF Prev
  <2> QED
    BY <2>1, <2>2, <2>3, FS_Subset
<1>4. \A s, t \in S : Cardinality(Prev(s)) = Cardinality(Prev(t)) => s = t
  <2> HIDE DEF Prev
  <2> QED
    BY <1>3 DEF IsOrder
<1>5. r \in Injection(S, 1 .. size)
  <2> HIDE DEF Prev, size
  <2>1. r \in [S -> 1 .. size]
    BY <1>2
  <2>2. \A s, t \in S : r[s] = r[t] => s = t
    BY <1>2, <1>4
  <2> HIDE DEF r
  <2> QED
    BY <2>1, <2>2 DEF Injection, IsInjective
<1>6. r \in Surjection(S, 1 .. size)
  <2>1. IsFiniteSet(1 .. size) /\ Cardinality(1 .. size) = size
    BY <1>1, FS_Interval
  <2> HIDE DEF r
  <2> QED
    BY <1>5, <2>1, FS_Injection
<1>7. ASSUME NEW n \in 1 .. size PROVE \E s \in S : r[s] = n
  <2> HIDE DEF r
  <2> QED
    BY <1>6 DEF Surjection
<1>8. order = [n \in 1 .. size |-> CHOOSE s \in S : Cardinality(Prev(s)) = n - 1]
  <2>1. \A T : Claims!Cardinality(T) = Cardinality(T)
    BY ClaimCounts
  <2>2. order = [n \in 1 .. Claims!Cardinality(S) |-> CHOOSE s \in S : Claims!Cardinality(Prev(s)) = n - 1]
    BY DEF Claims!InOrder
  <2> HIDE DEF order, Prev
  <2> QED
    BY <2>1, <2>2
<1>9. ASSUME NEW n \in 1 .. size PROVE order[n] \in S /\ Cardinality(Prev(order[n])) = n - 1
  <2>1. \E s \in S : Cardinality(Prev(s)) = n - 1
    <3>1. PICK s \in S : r[s] = n
      BY <1>7
    <3>2. Cardinality(Prev(s)) + 1 = n /\ Cardinality(Prev(s)) \in Nat
      BY <1>2, <3>1
    <3> HIDE DEF Prev
    <3> QED
      BY <1>1, <3>2
  <2>2. order[n] = CHOOSE s \in S : Cardinality(Prev(s)) = n - 1
    BY <1>8
  <2> HIDE DEF order, Prev
  <2> QED
    BY <2>1, <2>2
<1>10. DOMAIN order = 1 .. size
  BY <1>8
<1>11. \A n, k \in 1 .. size : order[n] = order[k] => n = k
  <2> HIDE DEF order, Prev
  <2> QED
    BY <1>1, <1>9
<1>12. ASSUME NEW s \in S PROVE \E n \in 1 .. size : order[n] = s
  <2> HIDE DEF Prev
  <2> DEFINE n == Cardinality(Prev(s)) + 1
  <2>1. n \in 1 .. size /\ Cardinality(Prev(s)) = n - 1
    <3>1. Cardinality(Prev(s)) \in Nat /\ Cardinality(Prev(s)) + 1 \in 1 .. size
      BY <1>2
    <3> HIDE DEF size
    <3> QED
      BY <3>1
  <2> HIDE DEF n
  <2>2. order[n] \in S /\ Cardinality(Prev(order[n])) = n - 1
    BY <1>9, <2>1
  <2>3. order[n] = s
    BY <1>4, <2>1, <2>2
  <2> QED
    BY <2>1, <2>3
<1> HIDE DEF order, size
<1> QED
  BY <1>9, <1>10, <1>11, <1>12 DEF Enumerates, size, order

\* What a list has at some of its places.
IsSequence(list) == Len(list) \in Nat /\ DOMAIN list = 1 .. Len(list)

TakenFrom(kept, list, I, order) ==
    Enumerates(order, I) /\ kept = [n \in 1 .. Cardinality(I) |-> list[order[n]]]

LEMMA KeptIs ==
    ASSUME NEW list, NEW I, I \subseteq Int, IsFiniteSet(I)
    PROVE  \E order : TakenFrom(Claims!Kept(list, I), list, I, order)
<1> DEFINE before == {p \in I \X I : p[1] < p[2]}
           order == Claims!InOrder(I, before)
<1>1. IsOrder(I, before)
  BY DEF IsOrder
<1> HIDE DEF before
<1>2. Enumerates(order, I)
  BY <1>1, InOrderIs
<1>3. Claims!Kept(list, I) = [n \in DOMAIN order |-> list[order[n]]]
  BY DEF Claims!Kept, before
<1>4. DOMAIN order = 1 .. Cardinality(I)
  BY <1>2 DEF Enumerates
<1> HIDE DEF order
<1>5. Claims!Kept(list, I) = [n \in 1 .. Cardinality(I) |-> list[order[n]]]
  BY <1>3, <1>4
<1> QED
  BY <1>2, <1>5 DEF TakenFrom

-----------------------------------------------------------------------------
(* native_check.py: the corpus                                              *)

\* What lists have in common.
LEMMA ListIs == ASSUME NEW list, IsList(list) PROVE IsSequence(list)
BY DEF IsList, IsSequence

LEMMA FunctionIsList ==
    ASSUME NEW list, NEW n \in Nat, list = [k \in 1 .. n |-> list[k]]
    PROVE  IsList(list) /\ Len(list) = n
BY DEF IsList

LEMMA SequencesAreFinite == ASSUME NEW list, IsSequence(list) PROVE IsFiniteSet(DOMAIN list)
BY FS_Interval DEF IsSequence

\* The corpus is a list of the valid cards.
IsDeck(cards) == IsList(cards) /\ \A i \in DOMAIN cards : IsCard(cards[i])

LEMMA LoadedIs ==
    ASSUME NEW files, IsCorpus(files)
    PROVE  /\ IsDeck(Claims!load_cards(files))
           /\ \A i \in DOMAIN Claims!load_cards(files) : Claims!Valid(Claims!load_cards(files)[i])
<1> DEFINE here == [f \in DOMAIN files |->
                      {f} \X {i \in DOMAIN files[f].cards : files[f].parses /\ Claims!Valid(files[f].cards[i])}]
           at == UNION {here[f] : f \in DOMAIN files}
           before == {p \in at \X at : p[1][1] < p[2][1] \/ (p[1][1] = p[2][1] /\ p[1][2] < p[2][2])}
           order == Claims!InOrder(at, before)
           cards == Claims!load_cards(files)
<1>1. IsSequence(files) /\ \A f \in DOMAIN files : IsSequence(files[f].cards)
  BY ListIs DEF IsCorpus
<1>2. \A f \in DOMAIN files : IsFiniteSet(here[f])
  <2> TAKE f \in DOMAIN files
  <2> DEFINE I == {i \in DOMAIN files[f].cards : files[f].parses /\ Claims!Valid(files[f].cards[i])}
  <2>1. IsFiniteSet(DOMAIN files[f].cards)
    BY <1>1, SequencesAreFinite
  <2>2. IsFiniteSet(I)
    BY <2>1, FS_Subset
  <2>3. IsFiniteSet({f})
    BY FS_Singleton
  <2> HIDE DEF I
  <2>4. IsFiniteSet({f} \X I)
    BY <2>2, <2>3, FS_Product
  <2> QED
    BY <2>4 DEF I
<1>3. IsFiniteSet(at)
  <2> HIDE DEF here
  <2>1. IsFiniteSet(DOMAIN files)
    BY <1>1, SequencesAreFinite
  <2>2. IsFiniteSet({here[f] : f \in DOMAIN files})
    BY <2>1, ImagesAreFinite
  <2> QED
    BY <1>2, <2>2, FS_UNION
<1>4. ASSUME NEW p \in at
      PROVE  /\ p = <<p[1], p[2]>> /\ p[1] \in DOMAIN files /\ p[2] \in DOMAIN files[p[1]].cards
             /\ p[1] \in Int /\ p[2] \in Int /\ Claims!Valid(files[p[1]].cards[p[2]])
  BY <1>1 DEF IsSequence
<1> DEFINE places == UNION {{f} \X {i \in DOMAIN files[f].cards : files[f].parses /\ Claims!Valid(files[f].cards[i])} :
                              f \in DOMAIN files}
<1>5. at = places
  BY Zenon
<1>6. cards = LET o == Claims!InOrder(places, {p \in places \X places : p[1][1] < p[2][1] \/ (p[1][1] = p[2][1] /\ p[1][2] < p[2][2])})
              IN  [n \in DOMAIN o |-> files[o[n][1]].cards[o[n][2]]]
  BY DEF Claims!load_cards
<1> HIDE DEF at, places
<1>7. IsOrder(at, before)
  <2> DEFINE Less(s, t) == s[1] < t[1] \/ (s[1] = t[1] /\ s[2] < t[2])
  <2>1. \A s, t \in at : <<s, t>> \in before <=> Less(s, t)
    OBVIOUS
  <2>2. \A s \in at : ~Less(s, s)
    BY <1>4
  <2>3. \A s, t \in at : s # t => Less(s, t) \/ Less(t, s)
    BY <1>4
  <2>4. \A s, t, u \in at : Less(s, t) /\ Less(t, u) => Less(s, u)
    BY <1>4
  <2> HIDE DEF Less, before
  <2> QED
    BY <2>1, <2>2, <2>3, <2>4 DEF IsOrder
<1>8. cards = [n \in DOMAIN order |-> files[order[n][1]].cards[order[n][2]]]
  BY <1>5, <1>6
<1> HIDE DEF before
<1>9. Enumerates(order, at)
  BY <1>3, <1>7, InOrderIs
<1>10. Cardinality(at) \in Nat
  BY <1>3, FS_CardinalityType
<1> HIDE DEF cards, order
<1>11. IsList(cards)
  <2>1. cards = [n \in 1 .. Cardinality(at) |-> cards[n]]
    BY <1>8, <1>9 DEF Enumerates
  <2> QED
    BY <1>10, <2>1, FunctionIsList
<1>12. ASSUME NEW n \in DOMAIN cards PROVE IsCard(cards[n]) /\ Claims!Valid(cards[n])
  <2>1. n \in DOMAIN order /\ order[n] \in at /\ cards[n] = files[order[n][1]].cards[order[n][2]]
    BY <1>8, <1>9 DEF Enumerates
  <2>2. order[n][1] \in DOMAIN files /\ order[n][2] \in DOMAIN files[order[n][1]].cards
        /\ Claims!Valid(files[order[n][1]].cards[order[n][2]])
    BY <1>4, <2>1
  <2> QED
    BY <2>1, <2>2 DEF IsCorpus
<1> QED
  BY <1>11, <1>12 DEF IsDeck, cards

-----------------------------------------------------------------------------
(* native_check.py: recall                                                  *)

LEMMA TokensAreFinite == ASSUME NEW card, IsCard(card) PROVE IsFiniteSet(Claims!card_tokens(card))
<1> DEFINE phrases == {card.intents[i] : i \in DOMAIN card.intents}
<1>1. IsFiniteSet(DOMAIN card.intents)
  BY ListIs, SequencesAreFinite DEF IsCard
<1>2. IsFiniteSet(phrases) /\ \A p \in phrases : IsFiniteSet(p)
  BY <1>1, ImagesAreFinite DEF IsCard
<1>3. Claims!card_tokens(card) = card.words \union UNION phrases
  BY DEF Claims!card_tokens, Claims!ToSet
<1> HIDE DEF phrases
<1>4. IsFiniteSet(UNION phrases)
  BY <1>2, FS_UNION
<1>5. IsFiniteSet(card.words)
  BY DEF IsCard
<1> QED
  BY <1>3, <1>4, <1>5, FS_Union

LEMMA ScoreIs ==
    ASSUME NEW requirement, IsFiniteSet(requirement), NEW card, IsCard(card)
    PROVE  /\ Claims!ScoreOf(requirement, card) \in Nat
           /\ Claims!ScoreOf(requirement, card) > 0 <=> Claims!Speaks(requirement, card)
<1> DEFINE tokens == Claims!card_tokens(card)
           hits == {i \in DOMAIN card.intents : card.intents[i] # {} /\ <<card.intents[i], requirement>> \in TextWithin}
           both == requirement \intersect tokens
           h == Cardinality(hits)
           c == Cardinality(both)
           r == Cardinality(requirement)
           t == Cardinality(tokens)
           bonus == Claims!phrase_bonus(requirement, card)
           cosine == Claims!Cosine(requirement, card)
<1>1. IsFiniteSet(tokens) /\ IsFiniteSet(hits) /\ IsFiniteSet(both)
  <2>1. IsFiniteSet(DOMAIN card.intents)
    BY ListIs, SequencesAreFinite DEF IsCard
  <2>2. IsFiniteSet(hits)
    BY <2>1, FS_Subset
  <2>3. IsFiniteSet(tokens)
    BY TokensAreFinite
  <2> HIDE DEF tokens
  <2>4. IsFiniteSet(both)
    BY FS_Subset
  <2> QED
    BY <2>2, <2>3, <2>4
<1>2. Claims!Speaks(requirement, card) <=> both # {} \/ hits # {}
  <2>1. Claims!Speaks(requirement, card)
          <=> \/ tokens \intersect requirement # {}
              \/ \E i \in DOMAIN card.intents : card.intents[i] # {} /\ <<card.intents[i], requirement>> \in TextWithin
    BY Zenon DEF Claims!Speaks
  <2> HIDE DEF tokens
  <2> QED
    BY <2>1
<1>4. bonus = 4 * h
  <2>1. bonus = 4 * Claims!Cardinality(hits)
    BY Zenon DEF Claims!phrase_bonus
  <2> HIDE DEF hits, bonus
  <2> QED
    BY <2>1, ClaimCounts
<1>5. cosine = IF c = 0 THEN 0 ELSE 1 + (2 * c) \div (r + t)
  <2> DEFINE cc == Claims!Cardinality(both)
             rr == Claims!Cardinality(requirement)
             tt == Claims!Cardinality(tokens)
  <2>1. cosine = IF cc = 0 THEN 0 ELSE 1 + (2 * cc) \div (rr + tt)
    BY Zenon DEF Claims!Cosine
  <2>2. cc = c /\ rr = r /\ tt = t
    BY ClaimCounts
  <2> HIDE DEF cc, rr, tt, c, r, t, cosine
  <2> QED
    BY <2>1, <2>2
<1>6. h \in Nat /\ c \in Nat /\ r \in Nat /\ t \in Nat
  BY <1>1, FS_CardinalityType
<1>7. c <= r
  <2> HIDE DEF tokens
  <2> QED
    BY <1>1, FS_Subset
<1>8. (c = 0 <=> both = {}) /\ (h = 0 <=> hits = {})
  BY <1>1, FS_EmptySet
<1>9. Claims!ScoreOf(requirement, card) = bonus + cosine
  BY DEF Claims!ScoreOf
<1> HIDE DEF tokens, hits, both, h, c, r, t, bonus, cosine
<1>10. cosine \in Nat /\ (cosine > 0 <=> c # 0)
  <2>1. CASE c = 0
    BY <1>5, <2>1
  <2>2. CASE c # 0
    <3>1. r + t \in Nat \ {0} /\ 2 * c \in Nat
      BY <1>6, <1>7, <2>2
    <3> DEFINE d == r + t
               e == 2 * c
    <3>2. \A x \in Nat, y \in Nat \ {0} : x \div y \in Nat
      OBVIOUS
    <3>3. e \div d \in Nat
      BY <3>1, <3>2
    <3>4. cosine = 1 + (e \div d)
      BY <1>5, <2>2
    <3> HIDE DEF e, d
    <3> QED
      BY <2>2, <3>3, <3>4
  <2> QED
    BY <2>1, <2>2
<1>11. bonus \in Nat /\ (bonus > 0 <=> h # 0)
  BY <1>4, <1>6
<1> QED
  BY <1>2, <1>8, <1>9, <1>10, <1>11

\* Higher scores first, of equal ones what stands first.
LEMMA ScoresOrder ==
    ASSUME NEW S, NEW score, \A s \in S : score[s] \in Int /\ s \in Int
    PROVE  IsOrder(S, {p \in S \X S : score[p[1]] > score[p[2]] \/ (score[p[1]] = score[p[2]] /\ p[1] < p[2])})
<1> DEFINE Before(x, i, y, k) == x > y \/ (x = y /\ i < k)
           before == {p \in S \X S : score[p[1]] > score[p[2]] \/ (score[p[1]] = score[p[2]] /\ p[1] < p[2])}
<1>1. \A s, t \in S : <<s, t>> \in before <=> Before(score[s], s, score[t], t)
  <2> DEFINE pairs == {p \in S \X S : Before(score[p[1]], p[1], score[p[2]], p[2])}
  <2>1. before = pairs
    BY Zenon
  <2> HIDE DEF before, Before
  <2> QED
    BY <2>1
<1>2. \A x, i \in Int : ~Before(x, i, x, i)
  OBVIOUS
<1>3. \A x, i, y, k \in Int : i # k => Before(x, i, y, k) \/ Before(y, k, x, i)
  OBVIOUS
<1>4. \A x, i, y, k, z, l \in Int : Before(x, i, y, k) /\ Before(y, k, z, l) => Before(x, i, z, l)
  OBVIOUS
<1> HIDE DEF Before, before
<1>5. IsOrder(S, before)
  BY <1>1, <1>2, <1>3, <1>4 DEF IsOrder
<1> QED
  BY <1>5 DEF before

\* The first of the scored cards, as many as there may be.
Cut(matched, cards, scored, order) ==
    matched = [n \in (1 .. Cardinality(scored)) \intersect (1 .. TOP_K) |-> cards[order[n]]]

LEMMA MatchedIs ==
    ASSUME NEW requirement, IsFiniteSet(requirement), NEW cards, IsDeck(cards)
    PROVE  LET scored == {i \in DOMAIN cards : Claims!Speaks(requirement, cards[i])}
           IN  /\ IsFiniteSet(scored)
               /\ \E order : /\ Enumerates(order, scored)
                             /\ Cut(Claims!match_cards(requirement, cards), cards, scored, order)
<1> DEFINE score == [i \in DOMAIN cards |-> Claims!ScoreOf(requirement, cards[i])]
           scored == {i \in DOMAIN cards : score[i] > 0}
           speaking == {i \in DOMAIN cards : Claims!Speaks(requirement, cards[i])}
           before == {p \in scored \X scored : score[p[1]] > score[p[2]] \/ (score[p[1]] = score[p[2]] /\ p[1] < p[2])}
           order == Claims!InOrder(scored, before)
<1>1. \A i \in DOMAIN cards : score[i] \in Nat /\ (score[i] > 0 <=> Claims!Speaks(requirement, cards[i]))
  BY ScoreIs DEF IsDeck
<1>2. Claims!match_cards(requirement, cards) = [n \in DOMAIN order \intersect 1 .. TOP_K |-> cards[order[n]]]
  BY Zenon DEF Claims!match_cards
<1>3. IsFiniteSet(scored)
  <2>1. IsFiniteSet(DOMAIN cards)
    BY ListIs, SequencesAreFinite DEF IsDeck
  <2> HIDE DEF score
  <2> QED
    BY <2>1, FS_Subset
<1>4. \A i \in DOMAIN cards : i \in Int
  BY ListIs DEF IsDeck, IsSequence
<1> HIDE DEF score
<1>5. scored = speaking
  BY <1>1
<1>6. IsOrder(scored, before)
  <2>1. \A i \in scored : score[i] \in Int /\ i \in Int
    BY <1>1, <1>4
  <2> HIDE DEF scored
  <2> QED
    BY <2>1, ScoresOrder, Zenon
<1> HIDE DEF before
<1>7. Enumerates(order, scored)
  BY <1>3, <1>6, InOrderIs
<1>8. DOMAIN order = 1 .. Cardinality(scored)
  BY <1>7 DEF Enumerates
<1> HIDE DEF order, scored, speaking
<1>9. Claims!match_cards(requirement, cards)
        = [n \in (1 .. Cardinality(speaking)) \intersect (1 .. TOP_K) |-> cards[order[n]]]
  BY <1>2, <1>5, <1>8
<1>10. Enumerates(order, speaking) /\ IsFiniteSet(speaking)
  BY <1>3, <1>5, <1>7
<1> QED
  BY <1>9, <1>10 DEF speaking, Cut

-----------------------------------------------------------------------------
(* native_check.py: the learned phrases                                     *)

Starts(a, b) == Len(a) <= Len(b) /\ \A k \in 1 .. Len(a) : b[k] = a[k]

LEMMA StartsIsPrefix == ASSUME NEW a, IsList(a), NEW b, IsList(b), Starts(a, b) PROVE IsPrefix(a, b)
BY DEF IsList, Starts, IsPrefix

LEMMA JoinedLists ==
    ASSUME NEW a, IsList(a), NEW b, IsList(b)
    PROVE  /\ IsList(a \o b) /\ Len(a \o b) = Len(a) + Len(b) /\ Starts(a, a \o b)
           /\ \A k \in 1 .. Len(b) : (a \o b)[Len(a) + k] = b[k]
           /\ \A k \in 1 .. Len(a) + Len(b) : k \notin 1 .. Len(a) => k - Len(a) \in 1 .. Len(b) /\ (a \o b)[k] = b[k - Len(a)]
<1> DEFINE S == {a[i] : i \in DOMAIN a} \union {b[i] : i \in DOMAIN b}
           c == a \o b
<1>1. a \in Seq(S) /\ b \in Seq(S)
  BY DEF IsList
<1> HIDE DEF S
<1>2. /\ c \in Seq(S) /\ Len(c) = Len(a) + Len(b) /\ Len(a) \in Nat /\ Len(b) \in Nat
      /\ \A k \in 1 .. Len(a) : c[k] = a[k]
      /\ \A k \in 1 .. Len(a) + Len(b) : k \notin 1 .. Len(a) => c[k] = b[k - Len(a)]
  BY <1>1
<1> HIDE DEF c
<1>3. IsList(c)
  <2>1. c = [k \in 1 .. Len(c) |-> c[k]] /\ Len(c) \in Nat
    BY <1>2
  <2> QED
    BY <2>1, FunctionIsList
<1>4. Starts(a, c)
  BY <1>2 DEF Starts
<1>5. ASSUME NEW k \in 1 .. Len(b) PROVE c[Len(a) + k] = b[k]
  <2>1. Len(a) + k \in 1 .. Len(a) + Len(b) /\ Len(a) + k \notin 1 .. Len(a) /\ (Len(a) + k) - Len(a) = k
    BY <1>2
  <2> QED
    BY <1>2, <2>1
<1>6. \A k \in 1 .. Len(a) + Len(b) : k \notin 1 .. Len(a) => k - Len(a) \in 1 .. Len(b)
  BY <1>2
<1> QED
  BY <1>2, <1>3, <1>4, <1>5, <1>6 DEF c

\* A phrase that one of the card's intents is.
Recalls(card, phrase) == \E k \in DOMAIN card.intents : card.intents[k] = phrase
IsPhrases(list) == IsList(list) /\ \A i \in DOMAIN list : IsFiniteSet(list[i])
Gain(card, new) == [card EXCEPT !.intents = card.intents \o new]

LEMMA CardGains ==
    ASSUME NEW card, IsCard(card), NEW new, IsPhrases(new)
    PROVE  /\ IsCard(Gain(card, new)) /\ Gain(card, new).id = card.id
           /\ Starts(card.intents, Gain(card, new).intents)
           /\ \A k \in DOMAIN new : Recalls(Gain(card, new), new[k])
<1> DEFINE d == Gain(card, new)
           both == card.intents \o new
           keys == {"id", "words", "intents", "probe", "domain", "modules", "when_not_enough"}
<1>1. card = [k \in keys |-> card[k]]
  BY DEF IsCard, IsRecord
<1>2. /\ d = [k \in keys |-> d[k]] /\ d.intents = both
      /\ \A k \in keys \ {"intents"} : d[k] = card[k]
  <2> HIDE DEF both
  <2>1. d = [card EXCEPT !.intents = both]
    BY DEF Gain, both
  <2> HIDE DEF d
  <2> QED
    BY <1>1, <2>1
<1>3. IsPhrases(card.intents)
  BY DEF IsCard, IsPhrases
<1>4. /\ IsList(both) /\ Len(both) = Len(card.intents) + Len(new) /\ Starts(card.intents, both)
      /\ \A k \in 1 .. Len(new) : both[Len(card.intents) + k] = new[k]
      /\ \A k \in 1 .. Len(card.intents) + Len(new) :
            k \notin 1 .. Len(card.intents) => k - Len(card.intents) \in 1 .. Len(new) /\ both[k] = new[k - Len(card.intents)]
  BY <1>3, JoinedLists DEF IsPhrases
<1> HIDE DEF both
<1>5. IsSequence(both) /\ IsSequence(card.intents) /\ IsSequence(new)
  BY <1>3, <1>4, ListIs DEF IsPhrases
<1>6. ASSUME NEW k \in DOMAIN both PROVE IsFiniteSet(both[k])
  <2>1. CASE k \in 1 .. Len(card.intents)
    BY <1>3, <1>4, <1>5, <2>1 DEF IsPhrases, IsSequence, Starts
  <2>2. CASE k \notin 1 .. Len(card.intents)
    BY <1>4, <1>5, <2>2 DEF IsPhrases, IsSequence
  <2> QED
    BY <2>1, <2>2
<1>7. ASSUME NEW k \in DOMAIN new PROVE Recalls(d, new[k])
  <2>1. Len(card.intents) + k \in DOMAIN both /\ both[Len(card.intents) + k] = new[k]
    BY <1>4, <1>5 DEF IsSequence
  <2> HIDE DEF d
  <2> QED
    BY <1>2, <2>1 DEF Recalls
<1> HIDE DEF d
<1>8. IsCard(d)
  <2>1. IsRecord(d, keys)
    BY <1>2 DEF IsRecord
  <2>2. d.words = card.words /\ d.when_not_enough = card.when_not_enough /\ d.probe = card.probe
    BY <1>2
  <2>3. IsList(d.intents) /\ \A i \in DOMAIN d.intents : IsFiniteSet(d.intents[i])
    BY <1>2, <1>4, <1>6
  <2>4. /\ IsFiniteSet(card.words) /\ (\A p \in card.when_not_enough : IsFiniteSet(p))
        /\ card.probe = <<>> \/ card.probe[1] \in Probes
    BY DEF IsCard
  <2> QED
    BY <2>1, <2>2, <2>3, <2>4 DEF IsCard
<1> QED
  BY <1>2, <1>4, <1>7, <1>8 DEF d

\* The phrases that are not yet known, whatever known is.
PlacesOutside(list, known) == {i \in DOMAIN list : list[i] \notin known}

LEMMA NewPhrases ==
    ASSUME NEW list, IsPhrases(list), NEW known,
           NEW new, new = Claims!Kept(list, PlacesOutside(list, known))
    PROVE  /\ IsPhrases(new)
           /\ \A i \in DOMAIN list : list[i] \in known \/ \E k \in DOMAIN new : new[k] = list[i]
<1> DEFINE I == {i \in DOMAIN list : list[i] \notin known}
<1>0. new = Claims!Kept(list, I)
  BY Zenon DEF PlacesOutside
<1>1. IsSequence(list) /\ IsFiniteSet(DOMAIN list)
  BY ListIs, SequencesAreFinite DEF IsPhrases
<1>2. IsFiniteSet(I)
  BY <1>1, FS_Subset
<1>3. I \subseteq Int
  BY <1>1 DEF IsSequence
<1>4. Cardinality(I) \in Nat
  BY <1>2, FS_CardinalityType
<1>5. \A i \in DOMAIN list : list[i] \in known \/ i \in I
  OBVIOUS
<1>6. \A i \in I : i \in DOMAIN list
  OBVIOUS
<1> HIDE DEF I
<1>7. PICK order : TakenFrom(new, list, I, order)
  BY <1>0, <1>2, <1>3, KeptIs
<1>8. IsList(new)
  <2>1. new = [n \in 1 .. Cardinality(I) |-> new[n]]
    BY <1>7 DEF TakenFrom
  <2> QED
    BY <1>4, <2>1, FunctionIsList
<1>9. \A k \in DOMAIN new : IsFiniteSet(new[k])
  BY <1>6, <1>7 DEF TakenFrom, Enumerates, IsPhrases
<1>10. ASSUME NEW i \in I PROVE \E k \in DOMAIN new : new[k] = list[i]
  <2>1. PICK k \in DOMAIN order : order[k] = i
    BY <1>7 DEF TakenFrom, Enumerates
  <2>2. k \in 1 .. Cardinality(I)
    BY <1>7, <2>1 DEF TakenFrom, Enumerates
  <2>3. k \in DOMAIN new /\ new[k] = list[i]
    BY <1>7, <2>1, <2>2 DEF TakenFrom
  <2> QED
    BY <2>3
<1> QED
  BY <1>5, <1>8, <1>9, <1>10 DEF IsPhrases, I

IsState(s) == s = [cards |-> s.cards, stopped |-> s.stopped] /\ IsDeck(s.cards) /\ s.stopped \in BOOLEAN
Grown(old, new) ==
    /\ Len(old) <= Len(new)
    /\ \A i \in DOMAIN old : new[i].id = old[i].id /\ Starts(old[i].intents, new[i].intents)
Known(cards, id) == \E i \in DOMAIN cards : cards[i].id = id
RecalledBy(cards, id, phrase) == \E i \in DOMAIN cards : cards[i].id = id /\ Recalls(cards[i], phrase)

LEMMA GrownAgain ==
    ASSUME NEW old, IsDeck(old), NEW mid, IsDeck(mid), NEW new, IsDeck(new), Grown(old, mid), Grown(mid, new)
    PROVE  Grown(old, new)
<1>1. IsSequence(old) /\ IsSequence(mid) /\ IsSequence(new)
  BY ListIs DEF IsDeck
<1>2. Len(old) <= Len(new) /\ DOMAIN old \subseteq DOMAIN mid
  BY <1>1 DEF IsSequence, Grown
<1>3. ASSUME NEW i \in DOMAIN old PROVE new[i].id = old[i].id /\ Starts(old[i].intents, new[i].intents)
  <2> DEFINE a == old[i].intents
             b == mid[i].intents
             c == new[i].intents
  <2>1. i \in DOMAIN mid /\ i \in DOMAIN new
    BY <1>1, <1>2 DEF IsSequence
  <2>2. IsSequence(a) /\ IsSequence(b) /\ IsSequence(c)
    BY <2>1, ListIs DEF IsDeck, IsCard
  <2>3. Starts(a, b) /\ Starts(b, c) /\ new[i].id = old[i].id
    BY <2>1 DEF Grown
  <2> HIDE DEF a, b, c
  <2>4. Starts(a, c)
    BY <2>2, <2>3 DEF Starts, IsSequence
  <2> QED
    BY <2>3, <2>4 DEF a, c
<1> QED
  BY <1>2, <1>3 DEF Grown

LEMMA GrownSame == ASSUME NEW cards, IsDeck(cards) PROVE Grown(cards, cards)
<1>1. IsSequence(cards)
  BY ListIs DEF IsDeck
<1>2. \A i \in DOMAIN cards : IsSequence(cards[i].intents)
  BY ListIs DEF IsDeck, IsCard
<1> QED
  BY <1>1, <1>2 DEF Grown, Starts, IsSequence

LEMMA StillRecalled ==
    ASSUME NEW old, IsDeck(old), NEW new, IsDeck(new), Grown(old, new), NEW id, NEW phrase, RecalledBy(old, id, phrase)
    PROVE  RecalledBy(new, id, phrase)
<1>1. IsSequence(old) /\ IsSequence(new)
  BY ListIs DEF IsDeck
<1>2. PICK i \in DOMAIN old : old[i].id = id /\ Recalls(old[i], phrase)
  BY DEF RecalledBy
<1>3. i \in DOMAIN new
  BY <1>1 DEF IsSequence, Grown
<1>4. PICK k \in DOMAIN old[i].intents : old[i].intents[k] = phrase
  BY <1>2 DEF Recalls
<1>5. new[i].id = id /\ Starts(old[i].intents, new[i].intents)
  BY <1>2 DEF Grown
<1>6. IsSequence(old[i].intents) /\ IsSequence(new[i].intents)
  BY <1>3, ListIs DEF IsDeck, IsCard
<1>7. k \in DOMAIN new[i].intents /\ new[i].intents[k] = phrase
  BY <1>4, <1>5, <1>6 DEF Starts, IsSequence
<1> QED
  BY <1>3, <1>5, <1>7 DEF RecalledBy, Recalls

\* One card of a corpus gains phrases.
LEMMA OneGains ==
    ASSUME NEW cards, IsDeck(cards), NEW at \in DOMAIN cards, NEW new, IsPhrases(new)
    PROVE  LET after == [cards EXCEPT ![at] = Gain(cards[at], new)]
           IN  /\ IsDeck(after) /\ Grown(cards, after)
               /\ \A k \in DOMAIN new : RecalledBy(after, cards[at].id, new[k])
               /\ \A p : Recalls(cards[at], p) => RecalledBy(after, cards[at].id, p)
<1> DEFINE card == Gain(cards[at], new)
           after == [cards EXCEPT ![at] = card]
<1>1. IsSequence(cards) /\ cards = [n \in 1 .. Len(cards) |-> cards[n]]
  BY ListIs DEF IsDeck, IsList
<1>2. /\ IsCard(card) /\ card.id = cards[at].id /\ Starts(cards[at].intents, card.intents)
      /\ \A k \in DOMAIN new : Recalls(card, new[k])
  BY CardGains DEF IsDeck
<1> HIDE DEF card
<1>3. /\ after[at] = card /\ \A i \in DOMAIN cards : i # at => after[i] = cards[i]
      /\ DOMAIN after = DOMAIN cards
      /\ after = [n \in 1 .. Len(cards) |-> after[n]]
  BY <1>1
<1> HIDE DEF after
<1>4. IsList(after) /\ Len(after) = Len(cards)
  BY <1>1, <1>3, FunctionIsList DEF IsSequence
<1>5. IsDeck(after)
  BY <1>2, <1>3, <1>4 DEF IsDeck
<1>6. Grown(cards, after)
  <2>1. Grown(cards, cards)
    BY GrownSame
  <2> QED
    BY <1>1, <1>2, <1>3, <1>4, <2>1 DEF Grown, IsSequence
<1>7. \A k \in DOMAIN new : RecalledBy(after, cards[at].id, new[k])
  BY <1>2, <1>3 DEF RecalledBy
<1>8. \A p : Recalls(cards[at], p) => RecalledBy(cards, cards[at].id, p)
  BY DEF RecalledBy
<1>9. \A p : Recalls(cards[at], p) => RecalledBy(after, cards[at].id, p)
  BY <1>5, <1>6, <1>8, StillRecalled
<1> QED
  BY <1>5, <1>6, <1>7, <1>9 DEF after, card

LEMMA OneMore ==
    ASSUME NEW cards, IsDeck(cards), NEW card, IsCard(card)
    PROVE  IsDeck(Append(cards, card)) /\ Grown(cards, Append(cards, card))
<1> DEFINE S == {cards[i] : i \in DOMAIN cards} \union {card}
           after == Append(cards, card)
<1>1. cards \in Seq(S) /\ card \in S
  BY DEF IsDeck, IsList
<1> HIDE DEF S
<1>2. /\ after \in Seq(S) /\ Len(after) = Len(cards) + 1 /\ Len(cards) \in Nat
      /\ DOMAIN cards = 1 .. Len(cards) /\ DOMAIN after = 1 .. Len(cards) + 1
      /\ after[Len(cards) + 1] = card
      /\ \A i \in 1 .. Len(cards) : after[i] = cards[i]
  BY <1>1
<1> HIDE DEF after
<1>3. after = [n \in 1 .. Len(after) |-> after[n]] /\ Len(after) \in Nat
  BY <1>2
<1>4. IsList(after)
  BY <1>3, FunctionIsList
<1>5. ASSUME NEW i \in DOMAIN after PROVE IsCard(after[i])
  <2>1. i \in 1 .. Len(cards) \/ i = Len(cards) + 1
    BY <1>2
  <2> QED
    BY <1>2, <2>1 DEF IsDeck
<1>6. Grown(cards, after)
  <2>1. Grown(cards, cards)
    BY GrownSame
  <2> QED
    BY <1>2, <2>1 DEF Grown
<1> QED
  BY <1>4, <1>5, <1>6 DEF IsDeck, after

\* One learned entry.
Learned(s, entry, t) ==
    /\ IsState(t) /\ Grown(s.cards, t.cards)
    /\ t.stopped <=> s.stopped \/ ~entry.object
    /\ ~t.stopped /\ entry.id # "" /\ Known(s.cards, entry.id) =>
         \A i \in DOMAIN entry.learned_intents :
            entry.learned_intents[i] # {} => RecalledBy(t.cards, entry.id, entry.learned_intents[i])

LEMMA LearnIs ==
    ASSUME NEW s, IsState(s), NEW entry, IsEntry(entry)
    PROVE  Learned(s, entry, Claims!Learn(s, entry))
<1> DEFINE t == Claims!Learn(s, entry)
           known == {i \in DOMAIN s.cards : s.cards[i].id = entry.id}
           at == CHOOSE i \in known : \A k \in known : k <= i
           had == {{}} \union Claims!ToSet(s.cards[at].intents)
           new == Claims!Kept(entry.learned_intents,
                    {i \in DOMAIN entry.learned_intents : entry.learned_intents[i] \notin had})
           stop == [s EXCEPT !.stopped = TRUE]
           gain == [s EXCEPT !.cards[at].intents = @ \o new]
           more == [s EXCEPT !.cards = Append(@, entry.card[1])]
<1>1. t = IF s.stopped THEN s
          ELSE IF ~entry.object THEN stop
          ELSE IF entry.id = "" THEN s
          ELSE IF known # {} THEN gain
          ELSE IF entry.card = <<>> THEN s
          ELSE more
  BY Zenon DEF Claims!Learn
<1>2. s = [cards |-> s.cards, stopped |-> s.stopped] /\ IsDeck(s.cards) /\ s.stopped \in BOOLEAN
  BY DEF IsState
<1>3. IsSequence(s.cards) /\ Grown(s.cards, s.cards)
  BY <1>2, ListIs, GrownSame DEF IsDeck
<1>4. Known(s.cards, entry.id) <=> known # {}
  BY DEF Known
<1>5. ASSUME t = s, s.stopped \/ (entry.object /\ (entry.id = "" \/ known = {})) PROVE Learned(s, entry, t)
  <2> HIDE DEF t, known
  <2> QED
    BY <1>3, <1>4, <1>5 DEF Learned
<1>6. ASSUME t = stop, ~entry.object PROVE Learned(s, entry, t)
  <2>1. t = [cards |-> s.cards, stopped |-> TRUE]
    BY <1>2, <1>6
  <2> HIDE DEF t
  <2>2. t.cards = s.cards /\ t.stopped = TRUE /\ t = [cards |-> t.cards, stopped |-> t.stopped]
    BY <2>1
  <2> QED
    BY <1>2, <1>3, <1>6, <2>2 DEF Learned, IsState
<1>7. ASSUME t = gain, ~s.stopped, entry.object, known # {} PROVE Learned(s, entry, t)
  <2> DEFINE card == Gain(s.cards[at], new)
             after == [s.cards EXCEPT ![at] = card]
  <2>1. at \in known
    <3>1. Len(s.cards) \in Nat /\ known \in SUBSET (1 .. Len(s.cards))
      BY <1>3 DEF IsSequence
    <3> HIDE DEF known
    <3>2. \E x \in known : \A y \in known : y <= x
      BY <1>7, <3>1, HasLast
    <3> QED
      BY <3>2
  <2>2. at \in DOMAIN s.cards /\ s.cards[at].id = entry.id
    BY <2>1
  <2> HIDE DEF at
  <2>3. IsPhrases(entry.learned_intents)
    BY DEF IsEntry, IsPhrases
  <2>4. /\ IsPhrases(new)
        /\ \A i \in DOMAIN entry.learned_intents :
              entry.learned_intents[i] \in had \/ \E k \in DOMAIN new : new[k] = entry.learned_intents[i]
    <3>1. new = Claims!Kept(entry.learned_intents, PlacesOutside(entry.learned_intents, had))
      BY Zenon DEF PlacesOutside
    <3> HIDE DEF had, new
    <3> QED
      BY <2>3, <3>1, NewPhrases
  <2>5. \A p \in had : p = {} \/ Recalls(s.cards[at], p)
    BY DEF Recalls, Claims!ToSet
  <2> HIDE DEF new, had
  <2>6. /\ IsDeck(after) /\ Grown(s.cards, after)
        /\ \A k \in DOMAIN new : RecalledBy(after, s.cards[at].id, new[k])
        /\ \A p : Recalls(s.cards[at], p) => RecalledBy(after, s.cards[at].id, p)
    BY <1>2, <2>2, <2>4, OneGains
  <2>7. gain = [cards |-> after, stopped |-> s.stopped]
    <3> DEFINE x == s.cards[at].intents \o new
               deck == [s.cards EXCEPT ![at].intents = x]
    <3>1. gain = [s EXCEPT !.cards[at].intents = x]
      OBVIOUS
    <3> HIDE DEF x, gain
    <3>2. gain = [s EXCEPT !.cards = deck]
      BY <3>1
    <3>3. deck = [s.cards EXCEPT ![at] = [s.cards[at] EXCEPT !.intents = x]]
      OBVIOUS
    <3>4. deck = after
      BY <3>3 DEF Gain, x
    <3> HIDE DEF deck, after
    <3> QED
      BY <1>2, <3>2, <3>4
  <2> HIDE DEF t, gain, known, after
  <2>8. t.cards = after /\ t.stopped = s.stopped /\ t = [cards |-> t.cards, stopped |-> t.stopped]
    BY <1>7, <2>7
  <2>9. IsState(t) /\ Grown(s.cards, t.cards)
    BY <1>2, <2>6, <2>8 DEF IsState
  <2>10. ASSUME NEW i \in DOMAIN entry.learned_intents, entry.learned_intents[i] # {}
         PROVE  RecalledBy(t.cards, entry.id, entry.learned_intents[i])
    BY <2>2, <2>4, <2>5, <2>6, <2>8, <2>10
  <2> QED
    BY <1>7, <2>8, <2>9, <2>10 DEF Learned
<1>8. ASSUME t = more, ~s.stopped, entry.object, known = {}, entry.card # <<>> PROVE Learned(s, entry, t)
  <2> DEFINE after == Append(s.cards, entry.card[1])
  <2>1. more = [cards |-> after, stopped |-> s.stopped]
    BY <1>2
  <2>2. IsDeck(after) /\ Grown(s.cards, after)
    BY <1>2, <1>8, OneMore DEF IsEntry
  <2> HIDE DEF t, more, known, after
  <2>3. t.cards = after /\ t.stopped = s.stopped /\ t = [cards |-> t.cards, stopped |-> t.stopped]
    BY <1>8, <2>1
  <2> QED
    BY <1>2, <1>4, <1>8, <2>2, <2>3 DEF Learned, IsState
<1> HIDE DEF t, known, stop, gain, more
<1> QED
  BY <1>1, <1>5, <1>6, <1>7, <1>8 DEF t

\* The entries one after the other.
LearnedTo(n, start, learned, f) ==
    f = [k \in 0 .. n |-> IF k = 0 THEN start ELSE Claims!Learn(f[k - 1], learned[k])]

LEMMA LearnsTo == ASSUME NEW start, NEW learned PROVE \A n \in Nat : \E f : LearnedTo(n, start, learned, f)
<1> DEFINE T == {n \in Nat : \E f : LearnedTo(n, start, learned, f)}
           Learn(s, k) == Claims!Learn(s, learned[k])
<1>1. 0 \in T
  <2> DEFINE f == [k \in 0 .. 0 |-> start]
  <2>1. LearnedTo(0, start, learned, f)
    <3>1. \A k \in 0 .. 0 : k = 0
      OBVIOUS
    <3> QED
      BY <3>1 DEF LearnedTo
  <2> HIDE DEF f
  <2> QED
    BY <2>1
<1>2. ASSUME NEW n \in Nat, n \in T PROVE n + 1 \in T
  <2>1. PICK f : LearnedTo(n, start, learned, f)
    BY <1>2
  <2> HIDE DEF Learn
  <2>2. f = [k \in 0 .. n |-> IF k = 0 THEN start ELSE Learn(f[k - 1], k)]
    BY <2>1 DEF LearnedTo, Learn
  <2> DEFINE g == [k \in 0 .. (n + 1) |-> IF k <= n THEN f[k] ELSE Learn(f[n], n + 1)]
  <2>3. \A k \in 0 .. n : g[k] = f[k] /\ (k # 0 => k - 1 \in 0 .. n)
    OBVIOUS
  <2>4. ASSUME NEW k \in 0 .. (n + 1) PROVE g[k] = IF k = 0 THEN start ELSE Learn(g[k - 1], k)
    <3>1. CASE k \in 0 .. n
      <4>1. f[k] = IF k = 0 THEN start ELSE Learn(f[k - 1], k)
        BY <2>2, <3>1
      <4>2. g[k] = f[k] /\ (k # 0 => g[k - 1] = f[k - 1])
        BY <2>3, <3>1
      <4> HIDE DEF g
      <4> QED
        BY <4>1, <4>2
    <3>2. CASE k = n + 1
      <4>1. g[k] = Learn(f[n], k) /\ k # 0 /\ k - 1 = n /\ g[n] = f[n]
        BY <2>3, <3>2
      <4> HIDE DEF g
      <4> QED
        BY <4>1
    <3> QED
      BY <3>1, <3>2
  <2>5. g = [k \in 0 .. (n + 1) |-> g[k]]
    OBVIOUS
  <2> HIDE DEF g
  <2>6. g = [k \in 0 .. (n + 1) |-> IF k = 0 THEN start ELSE Learn(g[k - 1], k)]
    BY <2>4, <2>5
  <2>7. LearnedTo(n + 1, start, learned, g)
    BY <2>6 DEF LearnedTo, Learn
  <2> QED
    BY <2>7
<1> HIDE DEF T
<1>3. Nat \subseteq T
  BY <1>1, <1>2, NatSetInduction
<1> QED
  BY <1>3 DEF T

\* What the corpus is after n entries.
ReadTo(n, learned) == \A k \in 1 .. n : learned[k].object
Merged(cards, learned, n, s) ==
    /\ IsState(s) /\ Grown(cards, s.cards)
    /\ s.stopped <=> ~ReadTo(n, learned)
    /\ \A m \in 1 .. n : ReadTo(m, learned) /\ learned[m].id # "" /\ Known(cards, learned[m].id) =>
         \A i \in DOMAIN learned[m].learned_intents :
            learned[m].learned_intents[i] # {} =>
                RecalledBy(s.cards, learned[m].id, learned[m].learned_intents[i])

LEMMA MergedOnce ==
    ASSUME NEW cards, IsDeck(cards), NEW learned, NEW n \in Nat, NEW s, Merged(cards, learned, n, s),
           IsEntry(learned[n + 1])
    PROVE  Merged(cards, learned, n + 1, Claims!Learn(s, learned[n + 1]))
<1> DEFINE entry == learned[n + 1]
           t == Claims!Learn(s, entry)
<1>1. IsState(s) /\ Grown(cards, s.cards) /\ (s.stopped <=> ~ReadTo(n, learned)) /\ IsDeck(s.cards)
  BY DEF Merged, IsState
<1>2. Learned(s, entry, t)
  BY <1>1, LearnIs
<1> HIDE DEF t
<1>3. IsState(t) /\ Grown(s.cards, t.cards) /\ (t.stopped <=> s.stopped \/ ~entry.object) /\ IsDeck(t.cards)
  BY <1>2 DEF Learned, IsState
<1>4. Grown(cards, t.cards)
  BY <1>1, <1>3, GrownAgain
<1>5. ReadTo(n + 1, learned) <=> ReadTo(n, learned) /\ entry.object
  <2>1. \A k \in 1 .. n + 1 : k \in 1 .. n \/ k = n + 1
    OBVIOUS
  <2>2. n + 1 \in 1 .. n + 1 /\ \A k \in 1 .. n : k \in 1 .. n + 1
    OBVIOUS
  <2> QED
    BY <2>1, <2>2 DEF ReadTo
<1>6. t.stopped <=> ~ReadTo(n + 1, learned)
  BY <1>1, <1>3, <1>5
<1>7. ASSUME NEW m \in 1 .. n + 1, ReadTo(m, learned), learned[m].id # "", Known(cards, learned[m].id),
             NEW i \in DOMAIN learned[m].learned_intents, learned[m].learned_intents[i] # {}
      PROVE  RecalledBy(t.cards, learned[m].id, learned[m].learned_intents[i])
  <2>1. CASE m \in 1 .. n
    <3>1. RecalledBy(s.cards, learned[m].id, learned[m].learned_intents[i])
      BY <1>7, <2>1 DEF Merged
    <3> QED
      BY <1>1, <1>3, <3>1, StillRecalled
  <2>2. CASE m = n + 1
    <3>1. ~t.stopped
      BY <1>6, <1>7, <2>2
    <3>2. Known(s.cards, entry.id)
      <4>1. PICK k \in DOMAIN cards : cards[k].id = entry.id
        BY <1>7, <2>2 DEF Known
      <4>2. IsSequence(cards) /\ IsSequence(s.cards)
        BY <1>1, ListIs DEF IsDeck
      <4>3. k \in DOMAIN s.cards /\ s.cards[k].id = entry.id
        BY <1>1, <4>1, <4>2 DEF Grown, IsSequence
      <4> QED
        BY <4>3 DEF Known
    <3> QED
      BY <1>2, <1>7, <2>2, <3>1, <3>2 DEF Learned
  <2> QED
    BY <2>1, <2>2
<1> QED
  BY <1>3, <1>4, <1>6, <1>7 DEF Merged, t

LEMMA MergeIs ==
    ASSUME NEW cards, IsDeck(cards), NEW learned, IsList(learned), \A n \in DOMAIN learned : IsEntry(learned[n])
    PROVE  \E s : Merged(cards, learned, Len(learned), s) /\ Claims!merge_learned(cards, learned).cards = s.cards
<1> DEFINE start == [cards |-> cards, stopped |-> FALSE]
           size == Len(learned)
           Defines(f) == f = [k \in 0 .. size |-> IF k = 0 THEN start ELSE Claims!Learn(f[k - 1], learned[k])]
           after == CHOOSE f : Defines(f)
           T == {n \in Nat : n <= size => Merged(cards, learned, n, after[n])}
<1>1. size \in Nat /\ DOMAIN learned = 1 .. size
  BY DEF IsList
<1>2. Claims!merge_learned(cards, learned)
        = [cards |-> after[size].cards, mappings |-> IF after[size].stopped THEN 0 ELSE size]
  BY Zenon DEF Claims!merge_learned
<1>3. Defines(after)
  <2>1. \E f : LearnedTo(size, start, learned, f)
    BY <1>1, LearnsTo
  <2>2. \E f : Defines(f)
    BY <2>1 DEF LearnedTo
  <2> HIDE DEF Defines
  <2> QED
    BY <2>2
<1> HIDE DEF after
<1>4. Merged(cards, learned, 0, start)
  <2>1. IsState(start) /\ start.cards = cards /\ start.stopped = FALSE
    BY DEF IsState
  <2>2. Grown(cards, cards)
    BY GrownSame
  <2>3. ReadTo(0, learned) /\ \A m \in 1 .. 0 : FALSE
    BY DEF ReadTo
  <2> HIDE DEF start
  <2> QED
    BY <2>1, <2>2, <2>3 DEF Merged
<1>5. 0 \in T
  <2>1. after[0] = start
    BY <1>1, <1>3
  <2> HIDE DEF start
  <2> QED
    BY <1>4, <2>1
<1>6. ASSUME NEW n \in Nat, n \in T PROVE n + 1 \in T
  <2> SUFFICES ASSUME n + 1 <= size PROVE Merged(cards, learned, n + 1, after[n + 1])
    OBVIOUS
  <2>1. Merged(cards, learned, n, after[n])
    BY <1>1, <1>6
  <2>2. n + 1 \in 0 .. size /\ n + 1 # 0 /\ n + 1 \in DOMAIN learned /\ (n + 1) - 1 = n
    BY <1>1
  <2>3. after[n + 1] = Claims!Learn(after[n], learned[n + 1])
    BY <1>3, <2>2
  <2> QED
    BY <2>1, <2>2, <2>3, MergedOnce
<1> HIDE DEF T
<1>7. Nat \subseteq T
  BY <1>5, <1>6, NatSetInduction
<1>8. Merged(cards, learned, size, after[size])
  BY <1>1, <1>7 DEF T
<1> QED
  BY <1>2, <1>8

\* What the cards are that an answer with a corpus was given of.
CorpusOf(question) ==
    LET cards == Claims!load_cards(question.files)
    IN  IF question.learned.parses THEN Claims!merge_learned(cards, question.learned.entries)
        ELSE [cards |-> cards, mappings |-> 0]
LoadedAnswer(question) ==
    LET corpus == CorpusOf(question)
        matched == Claims!match_cards(question.requirement, corpus.cards)
    IN  [cards_loaded |-> Len(corpus.cards), learned_mappings |-> corpus.mappings,
         corpus |-> corpus.cards,
         confirmed |-> Claims!Kept(matched, {i \in DOMAIN matched : Claims!Gate(matched[i], question.env).passed}),
         unconfirmed |-> Claims!Kept(matched, {i \in DOMAIN matched : ~Claims!Gate(matched[i], question.env).passed})]

LEMMA CorpusShown ==
    ASSUME NEW question, NEW result, result = Claims!native_check(question), "corpus" \in DOMAIN result
    PROVE  result = LoadedAnswer(question) /\ result.corpus = CorpusOf(question).cards
<1>1. result = IF Claims!load_cards(question.files) = <<>> THEN [exit |-> "0 capability cards loaded"]
               ELSE LoadedAnswer(question)
  BY Zenon DEF Claims!native_check, LoadedAnswer, CorpusOf
<1>2. result # [exit |-> "0 capability cards loaded"]
  OBVIOUS
<1>3. result = LoadedAnswer(question)
  BY <1>1, <1>2, Zenon
<1> QED
  BY <1>3 DEF LoadedAnswer

LEMMA CorpusIsDeck ==
    ASSUME NEW question, IsCorpus(question.files), IsList(question.learned.entries),
           \A n \in DOMAIN question.learned.entries : IsEntry(question.learned.entries[n])
    PROVE  /\ IsDeck(CorpusOf(question).cards)
           /\ Grown(Claims!load_cards(question.files), CorpusOf(question).cards)
<1> DEFINE loaded == Claims!load_cards(question.files)
           learned == question.learned.entries
           merged == Claims!merge_learned(loaded, learned)
           cards == CorpusOf(question).cards
<1>1. IsDeck(loaded)
  BY LoadedIs
<1>2. cards = IF question.learned.parses THEN merged.cards ELSE loaded
  BY DEF CorpusOf
<1> HIDE DEF cards, loaded
<1>3. CASE question.learned.parses
  <2>1. PICK s : Merged(loaded, learned, Len(learned), s) /\ merged.cards = s.cards
    BY <1>1, MergeIs
  <2> HIDE DEF merged
  <2> QED
    BY <1>2, <1>3, <2>1 DEF Merged, IsState, cards, loaded
<1>4. CASE ~question.learned.parses
  BY <1>1, <1>2, <1>4, GrownSame DEF cards, loaded
<1> QED
  BY <1>3, <1>4

LEMMA LearningAnswered == ASSUME Given, Answered("native_check") PROVE LearningKeeps
<1> SUFFICES ASSUME "corpus" \in DOMAIN answer
             PROVE  LearningKeeps
  BY DEF LearningKeeps
<1> DEFINE loaded == Claims!load_cards(asked.files)
           learned == asked.learned.entries
           merged == Claims!merge_learned(loaded, learned)
           corpus == IF asked.learned.parses THEN merged ELSE [cards |-> loaded, mappings |-> 0]
           cards == corpus.cards
<1>1. /\ answer = Claims!native_check(asked)
      /\ IsCorpus(asked.files) /\ IsList(learned) /\ \A n \in DOMAIN learned : IsEntry(learned[n])
  <2>1. tool = "native_check" /\ asked \in Questions["native_check"] /\ answer = Claims!native_check(asked)
    BY DEF Given, Answered
  <2> QED
    BY <2>1, ClaimAssumption
<1>2. IsDeck(loaded) /\ \A i \in DOMAIN loaded : Claims!Valid(loaded[i])
  BY <1>1, LoadedIs
<1>3. answer.corpus = cards
  BY <1>1, CorpusShown DEF CorpusOf
<1>4. IsDeck(cards) /\ Grown(loaded, cards)
  <2>1. IsDeck(CorpusOf(asked).cards) /\ Grown(loaded, CorpusOf(asked).cards)
    BY <1>1, CorpusIsDeck
  <2> QED
    BY <2>1 DEF CorpusOf
<1>5. ASSUME NEW i \in DOMAIN loaded
      PROVE  IsPrefix(loaded[i].intents, cards[i].intents) /\ cards[i].id = loaded[i].id
  <2> HIDE DEF loaded, cards
  <2>1. i \in DOMAIN cards
    BY <1>2, <1>4, ListIs DEF IsDeck, IsSequence, Grown
  <2>2. IsList(loaded[i].intents) /\ IsList(cards[i].intents)
    BY <1>2, <1>4, <2>1 DEF IsDeck, IsCard
  <2> QED
    BY <1>4, <2>2, StartsIsPrefix DEF Grown
<1>6. ASSUME asked.learned.parses, NEW n \in DOMAIN learned, ReadTo(n, learned),
             NEW p \in ToSet(learned[n].learned_intents) \ {{}},
             \E i \in DOMAIN loaded : loaded[i].id = learned[n].id
      PROVE  \E i \in DOMAIN cards : cards[i].id = learned[n].id /\ p \in ToSet(cards[i].intents)
  <2>1. PICK s : Merged(loaded, learned, Len(learned), s) /\ merged.cards = s.cards
    BY <1>1, <1>2, MergeIs
  <2>2. PICK k \in DOMAIN learned[n].learned_intents : learned[n].learned_intents[k] = p /\ p # {}
    BY <1>6 DEF ToSet
  <2>3. learned[n].id # "" /\ Known(loaded, learned[n].id)
    <3> HIDE DEF loaded, learned
    <3> QED
      BY <1>2, <1>6 DEF Known, Claims!Valid
  <2>4. n \in 1 .. Len(learned)
    BY <1>1 DEF IsList
  <2> HIDE DEF loaded, learned, merged
  <2>5. RecalledBy(s.cards, learned[n].id, p)
    BY <1>6, <2>1, <2>2, <2>3, <2>4 DEF Merged
  <2>6. s.cards = cards
    BY <1>6, <2>1
  <2> HIDE DEF cards
  <2> QED
    BY <2>5, <2>6 DEF RecalledBy, Recalls, ToSet
<1> HIDE DEF loaded, cards, learned
<1>7. LearningKeeps <=>
        /\ \A i \in DOMAIN loaded : IsPrefix(loaded[i].intents, cards[i].intents) /\ cards[i].id = loaded[i].id
        /\ asked.learned.parses =>
             \A n \in DOMAIN learned : (\A k \in 1 .. n : learned[k].object) =>
                \A p \in ToSet(learned[n].learned_intents) \ {{}} :
                   (\E i \in DOMAIN loaded : loaded[i].id = learned[n].id) =>
                       \E i \in DOMAIN cards : cards[i].id = learned[n].id /\ p \in ToSet(cards[i].intents)
  <2> USE DEF LearningKeeps, loaded, learned
  <2> QED
    BY <1>3, Zenon
<1> QED
  BY <1>5, <1>6, <1>7 DEF ReadTo

-----------------------------------------------------------------------------
(* native_check.py: what is confirmed                                       *)

\* A list put in another order, those of P first.
PutFirst(both, first, list, P, place) ==
    /\ place \in Injection(DOMAIN both, DOMAIN list)
    /\ \A i \in DOMAIN both : both[i] = list[place[i]] /\ (i <= first <=> place[i] \in P)

\* What is kept is a list of what was at places of I, at each once.
ListKept(kept, list, I, order) ==
    /\ IsList(kept) /\ Len(kept) = Cardinality(I) /\ Len(kept) \in Nat
    /\ DOMAIN kept = 1 .. Len(kept) /\ DOMAIN order = 1 .. Len(kept)
    /\ \A n \in 1 .. Len(kept) : order[n] \in I /\ kept[n] = list[order[n]]
    /\ \A n, k \in 1 .. Len(kept) : order[n] = order[k] => n = k

LEMMA KeptIsList ==
    ASSUME NEW kept, NEW list, NEW I, IsFiniteSet(I), NEW order, TakenFrom(kept, list, I, order)
    PROVE  ListKept(kept, list, I, order)
<1>1. Cardinality(I) \in Nat
  BY FS_CardinalityType
<1>2. kept = [n \in 1 .. Cardinality(I) |-> kept[n]] /\ DOMAIN kept = 1 .. Cardinality(I)
  BY DEF TakenFrom
<1>3. IsList(kept) /\ Len(kept) = Cardinality(I)
  BY <1>1, <1>2, FunctionIsList
<1>4. \A n \in 1 .. Cardinality(I) : kept[n] = list[order[n]]
  BY DEF TakenFrom
<1>5. /\ DOMAIN order = 1 .. Cardinality(I)
      /\ \A n \in 1 .. Cardinality(I) : order[n] \in I
      /\ \A n, k \in 1 .. Cardinality(I) : order[n] = order[k] => n = k
  BY DEF TakenFrom, Enumerates
<1> QED
  BY <1>1, <1>2, <1>3, <1>4, <1>5 DEF ListKept

LEMMA TwoParts ==
    ASSUME NEW list, IsFiniteSet(DOMAIN list), DOMAIN list \subseteq Int,
           NEW P, NEW Q, P \union Q \subseteq DOMAIN list, P \intersect Q = {}
    PROVE  \E place : PutFirst(Claims!Kept(list, P) \o Claims!Kept(list, Q), Len(Claims!Kept(list, P)), list, P, place)
<1> DEFINE a == Claims!Kept(list, P)
           b == Claims!Kept(list, Q)
           both == a \o b
           m == Len(a)
           n == Len(b)
<1>1. IsFiniteSet(P) /\ IsFiniteSet(Q) /\ P \subseteq Int /\ Q \subseteq Int
  BY FS_Subset
<1>2. PICK p : TakenFrom(a, list, P, p)
  BY <1>1, KeptIs
<1>3. PICK q : TakenFrom(b, list, Q, q)
  BY <1>1, KeptIs
<1> HIDE DEF a, b
<1>4. /\ IsList(a) /\ m \in Nat
      /\ \A k \in 1 .. m : p[k] \in P /\ a[k] = list[p[k]]
      /\ \A k, l \in 1 .. m : p[k] = p[l] => k = l
  BY <1>1, <1>2, KeptIsList DEF ListKept
<1>5. /\ IsList(b) /\ n \in Nat
      /\ \A k \in 1 .. n : q[k] \in Q /\ b[k] = list[q[k]]
      /\ \A k, l \in 1 .. n : q[k] = q[l] => k = l
  BY <1>1, <1>3, KeptIsList DEF ListKept
<1>6. /\ IsList(both) /\ Len(both) = m + n
      /\ \A k \in 1 .. m : both[k] = a[k]
      /\ \A k \in 1 .. m + n : k \notin 1 .. m => k - m \in 1 .. n /\ both[k] = b[k - m]
  BY <1>4, <1>5, JoinedLists DEF Starts
<1>7. DOMAIN both = 1 .. m + n
  BY <1>6, ListIs DEF IsSequence
<1> HIDE DEF both, m, n
<1> DEFINE place == [k \in 1 .. m + n |-> IF k \in 1 .. m THEN p[k] ELSE q[k - m]]
<1>8. \A k \in 1 .. m + n : place[k] = IF k \in 1 .. m THEN p[k] ELSE q[k - m]
  OBVIOUS
<1>9. place = [k \in 1 .. m + n |-> place[k]]
  OBVIOUS
<1> HIDE DEF place
<1>10. ASSUME NEW k \in 1 .. m + n
       PROVE  /\ place[k] \in P \union Q /\ both[k] = list[place[k]]
              /\ k \in 1 .. m <=> place[k] \in P
  <2>1. CASE k \in 1 .. m
    BY <1>4, <1>6, <1>8, <2>1
  <2>2. CASE k \notin 1 .. m
    <3>1. place[k] = q[k - m] /\ k - m \in 1 .. n /\ both[k] = b[k - m]
      BY <1>6, <1>8, <2>2
    <3>2. q[k - m] \in Q /\ b[k - m] = list[q[k - m]]
      BY <1>5, <3>1
    <3> QED
      BY <2>2, <3>1, <3>2
  <2> QED
    BY <2>1, <2>2
<1>11. ASSUME NEW k \in 1 .. m + n, NEW l \in 1 .. m + n, place[k] = place[l] PROVE k = l
  <2>1. k \in 1 .. m <=> l \in 1 .. m
    BY <1>10, <1>11
  <2>2. CASE k \in 1 .. m
    <3>1. p[k] = p[l] /\ l \in 1 .. m
      BY <1>8, <1>11, <2>1, <2>2
    <3> QED
      BY <1>4, <2>2, <3>1
  <2>3. CASE k \notin 1 .. m
    <3>1. q[k - m] = q[l - m] /\ k - m \in 1 .. n /\ l - m \in 1 .. n
      BY <1>6, <1>8, <1>11, <2>1, <2>3
    <3>2. k - m = l - m
      BY <1>5, <3>1
    <3> QED
      BY <1>4, <3>2
  <2> QED
    BY <2>2, <2>3
<1>12. place \in [1 .. m + n -> DOMAIN list]
  BY <1>9, <1>10
<1>13. place \in Injection(DOMAIN both, DOMAIN list)
  BY <1>7, <1>11, <1>12 DEF Injection, IsInjective
<1>14. \A k \in 1 .. m + n : k <= m <=> k \in 1 .. m
  BY <1>4, <1>5
<1>15. \A k \in DOMAIN both : both[k] = list[place[k]] /\ (k <= m <=> place[k] \in P)
  BY <1>7, <1>10, <1>14
<1>16. PutFirst(both, m, list, P, place)
  BY <1>13, <1>15 DEF PutFirst
<1> QED
  BY <1>16 DEF both, m, a, b

LEMMA ConfirmedAnswered == ASSUME Given, Answered("native_check") PROVE ConfirmedIsThere
<1> SUFFICES ASSUME "corpus" \in DOMAIN answer
             PROVE  ConfirmedIsThere
  BY DEF ConfirmedIsThere
<1> DEFINE env == asked.env
           cards == CorpusOf(asked).cards
           matched == Claims!match_cards(asked.requirement, cards)
           scored == {i \in DOMAIN cards : Claims!Speaks(asked.requirement, cards[i])}
           P == {i \in DOMAIN matched : Claims!Gate(matched[i], env).passed}
           Q == {i \in DOMAIN matched : ~Claims!Gate(matched[i], env).passed}
           first == Len(answer.confirmed)
           listed == answer.confirmed \o answer.unconfirmed
<1>1. /\ answer = Claims!native_check(asked) /\ IsFiniteSet(asked.requirement)
      /\ IsCorpus(asked.files) /\ IsList(asked.learned.entries)
      /\ \A n \in DOMAIN asked.learned.entries : IsEntry(asked.learned.entries[n])
  <2>1. tool = "native_check" /\ asked \in Questions["native_check"] /\ answer = Claims!native_check(asked)
    BY DEF Given, Answered
  <2> QED
    BY <2>1, ClaimAssumption
<1>2. IsDeck(cards)
  BY <1>1, CorpusIsDeck
<1>3. answer = LoadedAnswer(asked) /\ answer.corpus = cards
  BY <1>1, CorpusShown
<1>4. answer.confirmed = Claims!Kept(matched, P) /\ answer.unconfirmed = Claims!Kept(matched, Q)
  BY <1>3 DEF LoadedAnswer
<1> HIDE DEF cards
<1>5. IsFiniteSet(scored) /\ \E o : Enumerates(o, scored) /\ Cut(matched, cards, scored, o)
  <2> HIDE DEF matched
  <2> QED
    BY <1>1, <1>2, MatchedIs DEF matched
<1>6. PICK order : Enumerates(order, scored) /\ Cut(matched, cards, scored, order)
  BY <1>5
<1>7. scored \subseteq DOMAIN cards
  OBVIOUS
<1> HIDE DEF matched, scored
<1>8. Cardinality(scored) \in Nat
  BY <1>5, FS_CardinalityType
<1>9. /\ DOMAIN matched \subseteq 1 .. Cardinality(scored)
      /\ \A n \in DOMAIN matched : matched[n] = cards[order[n]]
  BY <1>6 DEF Cut
<1>10. /\ \A n \in 1 .. Cardinality(scored) : order[n] \in DOMAIN cards
       /\ \A n, k \in 1 .. Cardinality(scored) : order[n] = order[k] => n = k
  BY <1>6, <1>7 DEF Enumerates
<1>11. IsFiniteSet(DOMAIN matched) /\ DOMAIN matched \subseteq Int
  <2>1. IsFiniteSet(1 .. Cardinality(scored))
    BY <1>8, FS_Interval
  <2>2. DOMAIN matched \in SUBSET (1 .. Cardinality(scored))
    BY <1>9
  <2>3. IsFiniteSet(DOMAIN matched)
    BY <2>1, <2>2, FS_Subset
  <2> QED
    BY <1>8, <2>2, <2>3
<1>12. P \union Q \subseteq DOMAIN matched /\ P \intersect Q = {}
  OBVIOUS
<1>13. \A i \in DOMAIN matched : i \in P <=> Claims!Gate(matched[i], env).passed
  OBVIOUS
<1> HIDE DEF P, Q
<1>14. PICK place : PutFirst(listed, first, matched, P, place)
  BY <1>4, <1>11, <1>12, TwoParts
<1> HIDE DEF listed, first
<1>15. /\ place \in [DOMAIN listed -> DOMAIN matched]
       /\ \A i, k \in DOMAIN listed : place[i] = place[k] => i = k
       /\ \A i \in DOMAIN listed : listed[i] = matched[place[i]] /\ (i <= first <=> place[i] \in P)
  BY <1>14 DEF PutFirst, Injection, IsInjective
<1>16. ASSUME NEW i \in DOMAIN listed PROVE i <= first <=> Claims!There(listed[i].probe, env)
  <2>1. place[i] \in DOMAIN matched /\ listed[i] = matched[place[i]]
    BY <1>15
  <2>2. IsCard(listed[i])
    BY <1>2, <1>9, <1>10, <2>1 DEF IsDeck
  <2>3. Claims!Gate(listed[i], env).passed <=> Claims!There(listed[i].probe, env)
    BY <2>2, GatedIsThere DEF IsCard
  <2> QED
    BY <1>13, <1>15, <2>1, <2>3
<1> DEFINE at == [i \in DOMAIN listed |-> order[place[i]]]
<1>17. \A i \in DOMAIN listed : at[i] \in DOMAIN cards /\ listed[i] = cards[at[i]]
  BY <1>9, <1>10, <1>15
<1>18. ASSUME NEW i \in DOMAIN listed, NEW k \in DOMAIN listed, at[i] = at[k] PROVE i = k
  <2>1. place[i] \in 1 .. Cardinality(scored) /\ place[k] \in 1 .. Cardinality(scored)
    BY <1>9, <1>15
  <2> QED
    BY <1>10, <1>15, <1>18, <2>1
<1>19. at \in Injection(DOMAIN listed, DOMAIN cards)
  <2>1. at \in [DOMAIN listed -> DOMAIN cards]
    BY <1>17
  <2> HIDE DEF at
  <2> QED
    BY <1>18, <2>1 DEF Injection, IsInjective
<1> HIDE DEF at
<1>20. \E f \in Injection(DOMAIN listed, DOMAIN cards) : \A i \in DOMAIN listed : listed[i] = cards[f[i]]
  BY <1>17, <1>19
<1> QED
  BY <1>3, <1>16, <1>20 DEF ConfirmedIsThere, listed, first

-----------------------------------------------------------------------------
(* fit_gap.py                                                               *)

\* What is said of the cards that a requirement matched.
RowOf(requirement, matched, env) ==
    LET row == Claims!classify_requirement({Claims!Match(requirement, matched[i], env) : i \in DOMAIN matched})
    IN  [requirement |-> requirement, classification |-> row.classification,
         confidence |-> row.confidence, gaps |-> row.gaps,
         recommended_modules |-> row.recommended_modules,
         effort_band |-> Claims!effort_band(row.classification),
         risk_class |-> Claims!risk_class(requirement, {matched[i].domain : i \in DOMAIN matched})]
Scoped(question) ==
    LET loaded == Claims!load_cards(question.files)
    IN  Claims!Kept(loaded, {i \in DOMAIN loaded : loaded[i].domain \in question.domains})
RowsOf(question) ==
    [i \in DOMAIN question.requirements |->
        RowOf(question.requirements[i], Claims!match_cards(question.requirements[i], Scoped(question)), question.env)]

LEMMA RowsShown ==
    ASSUME NEW question, NEW result, result = Claims!fit_gap(question), "rows" \in DOMAIN result
    PROVE  result.rows = RowsOf(question)
<1> DEFINE rows == RowsOf(question)
<1>1. result = IF question.requirements = <<>> THEN [exit |-> "no requirements"]
               ELSE IF Scoped(question) = <<>> THEN [exit |-> "0 capability cards"]
               ELSE [rows |-> rows, summary |-> Claims!summarize(rows)]
  BY Zenon DEF Claims!fit_gap, Scoped, RowsOf, RowOf
<1>2. result # [exit |-> "no requirements"] /\ result # [exit |-> "0 capability cards"]
  OBVIOUS
<1> HIDE DEF rows
<1>3. result = [rows |-> rows, summary |-> Claims!summarize(rows)]
  BY <1>1, <1>2, Zenon
<1> QED
  BY <1>3 DEF rows

\* A phrase of which the requirement has every word is one of its gaps.
LEMMA NamedGaps ==
    ASSUME NEW requirement, IsFiniteSet(requirement), NEW card, IsCard(card),
           NEW p \in card.when_not_enough, p # {}, p \subseteq requirement
    PROVE  p \in Claims!detect_gaps(requirement, card)
<1> DEFINE n == Cardinality(p)
           m == Claims!Cardinality(p \intersect requirement)
           k == Claims!Cardinality(p)
<1>1. p \intersect requirement = p
  OBVIOUS
<1>2. m = n /\ k = n
  BY <1>1, ClaimCounts
<1>3. n \in Nat \ {0}
  BY FS_CardinalityType, FS_EmptySet DEF IsCard
<1> HIDE DEF n, m, k
<1>4. m >= 1 /\ m >= k \div 2
  BY <1>2, <1>3
<1> QED
  BY <1>4 DEF Claims!detect_gaps, m, k

\* The classification of some matches.
Classified(row, matches, installed) ==
    LET gated == {m \in matches : m.gated}
    IN  /\ row.classification = "no_known_pattern" <=> matches = {}
        /\ row.confidence = "gated" <=> gated # {}
        /\ row.classification = "native_config" => \A m \in gated : m.gaps = {}
        /\ row.classification = "module_available_not_installed"
             <=> gated = {} /\ \E m \in matches : ~(m.card.modules \subseteq installed)
        /\ row.recommended_modules # {} => ~(row.recommended_modules \subseteq installed)

LEMMA ClassifiedIs ==
    ASSUME NEW matches, NEW installed,
           \A m \in matches : m.modules_installed <=> m.card.modules \subseteq installed
    PROVE  Classified(Claims!classify_requirement(matches), matches, installed)
<1> DEFINE gated == {m \in matches : m.gated}
           gaps == UNION {m.gaps : m \in gated}
           missing == {m \in matches : ~m.modules_installed}
           modules == UNION {m.card.modules : m \in missing}
           row == Claims!classify_requirement(matches)
           none == Claims!Class("no_known_pattern", "heuristic", {}, {})
           gap == Claims!Class("config_plus_gap", "gated", gaps, {})
           native == Claims!Class("native_config", "gated", gaps, {})
           available == Claims!Class("module_available_not_installed", "heuristic", {}, modules)
           known == Claims!Class("pattern_known_not_present", "heuristic", {}, {})
<1>1. /\ matches = {} => row = none
      /\ matches # {} /\ gated # {} /\ gaps # {} => row = gap
      /\ matches # {} /\ gated # {} /\ gaps = {} => row = native
      /\ matches # {} /\ gated = {} /\ missing # {} => row = available
      /\ matches # {} /\ gated = {} /\ missing = {} => row = known
  BY Zenon DEF Claims!classify_requirement
<1>2. /\ none.classification = "no_known_pattern" /\ none.confidence = "heuristic" /\ none.recommended_modules = {}
      /\ gap.classification = "config_plus_gap" /\ gap.confidence = "gated" /\ gap.recommended_modules = {}
      /\ native.classification = "native_config" /\ native.confidence = "gated" /\ native.recommended_modules = {}
      /\ available.classification = "module_available_not_installed" /\ available.confidence = "heuristic"
      /\ available.recommended_modules = modules
      /\ known.classification = "pattern_known_not_present" /\ known.confidence = "heuristic"
      /\ known.recommended_modules = {}
  BY DEF Claims!Class
<1>3. gaps = {} => \A m \in gated : m.gaps = {}
  OBVIOUS
<1>4. missing # {} => ~(modules \subseteq installed)
  OBVIOUS
<1>5. missing # {} <=> \E m \in matches : ~(m.card.modules \subseteq installed)
  OBVIOUS
<1>6. matches = {} => gated = {} /\ missing = {}
  OBVIOUS
<1> HIDE DEF gaps, missing, modules, row, none, gap, native, available, known
<1>7. /\ row.classification = "no_known_pattern" <=> matches = {}
      /\ row.confidence = "gated" <=> gated # {}
      /\ row.classification = "native_config" => gaps = {}
      /\ row.classification = "module_available_not_installed" <=> gated = {} /\ missing # {}
      /\ row.recommended_modules # {} => missing # {} /\ row.recommended_modules = modules
  <2> HIDE DEF gated
  <2>1. CASE matches = {}
    BY <1>1, <1>2, <1>6, <2>1
  <2>2. CASE matches # {} /\ gated # {} /\ gaps # {}
    BY <1>1, <1>2, <2>2
  <2>3. CASE matches # {} /\ gated # {} /\ gaps = {}
    BY <1>1, <1>2, <2>3
  <2>4. CASE matches # {} /\ gated = {} /\ missing # {}
    BY <1>1, <1>2, <2>4
  <2>5. CASE matches # {} /\ gated = {} /\ missing = {}
    BY <1>1, <1>2, <2>5
  <2> QED
    BY <2>1, <2>2, <2>3, <2>4, <2>5
<1>8. Classified(row, matches, installed)
  BY <1>3, <1>4, <1>5, <1>7 DEF Classified
<1> QED
  BY <1>8 DEF row

\* The cards of two lists are the same ones, at these places of the second.
SameCards(some, all, places) ==
    /\ \A i \in DOMAIN some : \E k \in places : some[i] = all[k]
    /\ \A k \in places : \E i \in DOMAIN some : some[i] = all[k]

LEMMA SpeakingMatched ==
    ASSUME NEW requirement, IsFiniteSet(requirement), NEW loaded, IsDeck(loaded), NEW domains,
           NEW speaking, speaking = {k \in DOMAIN loaded : loaded[k].domain \in domains /\ Claims!Speaks(requirement, loaded[k])},
           NEW scoped, scoped = Claims!Kept(loaded, {k \in DOMAIN loaded : loaded[k].domain \in domains})
    PROVE  /\ IsDeck(scoped)
           /\ Cardinality(speaking) <= TOP_K =>
                SameCards(Claims!match_cards(requirement, scoped), loaded, speaking)
<1> DEFINE I == {k \in DOMAIN loaded : loaded[k].domain \in domains}
           scored == {j \in DOMAIN scoped : Claims!Speaks(requirement, scoped[j])}
           matched == Claims!match_cards(requirement, scoped)
<1>1. IsFiniteSet(DOMAIN loaded) /\ DOMAIN loaded \subseteq Int
  BY ListIs, SequencesAreFinite DEF IsDeck, IsSequence
<1>2. IsFiniteSet(I) /\ IsFiniteSet(speaking) /\ I \subseteq Int
  BY <1>1, FS_Subset
<1>3. \A k \in I : k \in DOMAIN loaded
  OBVIOUS
<1>4. \A k \in speaking : k \in I /\ Claims!Speaks(requirement, loaded[k])
  OBVIOUS
<1>5. \A k \in I : Claims!Speaks(requirement, loaded[k]) => k \in speaking
  OBVIOUS
<1> HIDE DEF I
<1>6. PICK p : TakenFrom(scoped, loaded, I, p)
  BY <1>2, KeptIs DEF I
<1>7. /\ IsList(scoped) /\ DOMAIN scoped = 1 .. Len(scoped) /\ DOMAIN p = 1 .. Len(scoped)
      /\ \A n \in 1 .. Len(scoped) : p[n] \in I /\ scoped[n] = loaded[p[n]]
      /\ \A n, k \in 1 .. Len(scoped) : p[n] = p[k] => n = k
  <2>1. IsFiniteSet(I)
    BY <1>2
  <2>2. ListKept(scoped, loaded, I, p)
    BY ONLY <1>6, <2>1, KeptIsList
  <2> QED
    BY ONLY <2>2 DEF ListKept
<1>8. \A k \in I : \E n \in DOMAIN scoped : p[n] = k
  BY <1>6, <1>7 DEF TakenFrom, Enumerates
<1>9. IsDeck(scoped)
  BY <1>3, <1>7 DEF IsDeck
<1>10. \A j \in scored : j \in DOMAIN scoped /\ Claims!Speaks(requirement, scoped[j])
  OBVIOUS
<1>11. \A j \in DOMAIN scoped : Claims!Speaks(requirement, scoped[j]) => j \in scored
  OBVIOUS
<1>12. IsFiniteSet(scored) /\ \E o : Enumerates(o, scored) /\ Cut(matched, scoped, scored, o)
  <2> HIDE DEF matched
  <2> QED
    BY <1>9, MatchedIs DEF matched
<1>13. PICK o : Enumerates(o, scored) /\ Cut(matched, scoped, scored, o)
  BY <1>12
<1> HIDE DEF scored, matched
<1>14. \A j \in scored : p[j] \in speaking /\ scoped[j] = loaded[p[j]]
  BY <1>5, <1>7, <1>10
<1>15. Cardinality(scored) <= Cardinality(speaking)
  <2> DEFINE f == [j \in scored |-> p[j]]
  <2>1. f \in [scored -> speaking]
    BY <1>14
  <2>2. \A j, k \in scored : f[j] = f[k] => j = k
    BY <1>7, <1>10
  <2> HIDE DEF f
  <2>3. f \in Injection(scored, speaking)
    BY <2>1, <2>2 DEF Injection, IsInjective
  <2> QED
    BY <1>2, <2>3, FS_Injection
<1>16. Cardinality(scored) \in Nat /\ Cardinality(speaking) \in Nat /\ TOP_K \in Nat
  BY <1>2, <1>12, FS_CardinalityType, ClaimAssumption
<1>17. ASSUME Cardinality(speaking) <= TOP_K PROVE SameCards(matched, loaded, speaking)
  <2>1. \A n \in 1 .. Cardinality(scored) : n \in 1 .. TOP_K
    BY <1>15, <1>16, <1>17
  <2>2. DOMAIN matched = 1 .. Cardinality(scored) /\ \A n \in DOMAIN matched : matched[n] = scoped[o[n]]
    BY <1>13, <2>1 DEF Cut
  <2>3. DOMAIN o = DOMAIN matched /\ \A n \in DOMAIN matched : o[n] \in scored
    BY <1>13, <2>2 DEF Enumerates
  <2>4. ASSUME NEW n \in DOMAIN matched PROVE \E k \in speaking : matched[n] = loaded[k]
    <3>1. o[n] \in scored /\ matched[n] = scoped[o[n]]
      BY <2>2, <2>3
    <3> QED
      BY <1>14, <3>1
  <2>5. ASSUME NEW k \in speaking PROVE \E n \in DOMAIN matched : matched[n] = loaded[k]
    <3>1. PICK j \in DOMAIN scoped : p[j] = k
      BY <1>4, <1>8
    <3>2. scoped[j] = loaded[k]
      BY <1>7, <3>1
    <3>3. j \in scored
      BY <1>4, <1>11, <3>2
    <3>4. PICK n \in DOMAIN o : o[n] = j
      BY <1>13, <3>3 DEF Enumerates
    <3>5. n \in DOMAIN matched /\ matched[n] = loaded[k]
      BY <2>2, <2>3, <3>2, <3>4
    <3> QED
      BY <3>5
  <2> QED
    BY <2>4, <2>5 DEF SameCards
<1> QED
  BY <1>9, <1>17 DEF matched

\* What a row promises, of the cards that speak of its requirement.
Grounded(row, requirement, cards, speaking, env) ==
    LET there == {k \in speaking : Claims!There(cards[k].probe, env)}
    IN  /\ row.classification = "no_known_pattern" <=> speaking = {}
        /\ row.confidence = "gated" <=> there # {}
        /\ row.classification = "native_config" =>
             \A k \in there : \A p \in cards[k].when_not_enough \ {{}} : ~(p \subseteq requirement)
        /\ row.classification = "module_available_not_installed"
             <=> there = {} /\ \E k \in speaking : ~(cards[k].modules \subseteq env.installed)
        /\ row.recommended_modules # {} => ~(row.recommended_modules \subseteq env.installed)

LEMMA RowIsGrounded ==
    ASSUME NEW requirement, IsFiniteSet(requirement), NEW cards, NEW speaking, NEW env, NEW matched,
           \A k \in speaking : IsCard(cards[k]), SameCards(matched, cards, speaking)
    PROVE  Grounded(RowOf(requirement, matched, env), requirement, cards, speaking, env)
<1> DEFINE matches == {Claims!Match(requirement, matched[i], env) : i \in DOMAIN matched}
           gated == {m \in matches : m.gated}
           there == {k \in speaking : Claims!There(cards[k].probe, env)}
           cls == Claims!classify_requirement(matches)
           row == RowOf(requirement, matched, env)
           match == [k \in speaking |-> Claims!Match(requirement, cards[k], env)]
<1>1. /\ row.classification = cls.classification /\ row.confidence = cls.confidence
      /\ row.recommended_modules = cls.recommended_modules
  <2> HIDE DEF cls
  <2> QED
    BY DEF RowOf, cls
<1>2. matches = {match[k] : k \in speaking}
  <2> HIDE DEF match
  <2>1. \A k \in speaking : match[k] = Claims!Match(requirement, cards[k], env)
    BY DEF match
  <2> QED
    BY <2>1 DEF SameCards
<1>3. ASSUME NEW k \in speaking
      PROVE  /\ match[k].gated <=> Claims!There(cards[k].probe, env)
             /\ match[k].card = cards[k]
             /\ match[k].modules_installed <=> cards[k].modules \subseteq env.installed
             /\ match[k].gaps = Claims!detect_gaps(requirement, cards[k])
  <2>1. Claims!Gate(cards[k], env).passed <=> Claims!There(cards[k].probe, env)
    BY GatedIsThere DEF IsCard
  <2> DEFINE g == Claims!Gate(cards[k], env).passed
             i == cards[k].modules \subseteq env.installed
             d == Claims!detect_gaps(requirement, cards[k])
             r == [card |-> cards[k], gated |-> g, modules_installed |-> i, gaps |-> d]
  <2>2. match[k] = r
    BY DEF Claims!Match
  <2> HIDE DEF match, g, i, d
  <2>3. r.card = cards[k] /\ (r.gated <=> g) /\ (r.modules_installed <=> i) /\ r.gaps = d
    OBVIOUS
  <2> HIDE DEF r
  <2>4. /\ match[k].card = cards[k] /\ (match[k].gated <=> g)
        /\ (match[k].modules_installed <=> i) /\ match[k].gaps = d
    BY <2>2, <2>3
  <2> QED
    BY <2>1, <2>4 DEF g, i, d
<1> HIDE DEF match, matches
<1>4. \A m \in matches : \E k \in speaking : m = match[k]
  BY <1>2
<1>5. \A k \in speaking : match[k] \in matches
  BY <1>2
<1>6. \A m \in matches : m.modules_installed <=> m.card.modules \subseteq env.installed
  BY <1>3, <1>4
<1>7. Classified(cls, matches, env.installed)
  <2> HIDE DEF cls
  <2> QED
    BY <1>6, ClassifiedIs DEF cls
<1> HIDE DEF cls, row
<1>8. matches = {} <=> speaking = {}
  BY <1>4, <1>5
<1>9. gated = {} <=> there = {}
  <2>1. ASSUME NEW m \in gated PROVE there # {}
    BY <1>3, <1>4
  <2>2. ASSUME NEW k \in there PROVE gated # {}
    BY <1>3, <1>5
  <2> QED
    BY <2>1, <2>2
<1>10. (\E m \in matches : ~(m.card.modules \subseteq env.installed))
         <=> \E k \in speaking : ~(cards[k].modules \subseteq env.installed)
  BY <1>3, <1>4, <1>5
<1>11. ASSUME \A m \in gated : m.gaps = {}, NEW k \in there, NEW p \in cards[k].when_not_enough \ {{}}, p \subseteq requirement
       PROVE  FALSE
  <2>1. match[k] \in gated
    BY <1>3, <1>5
  <2>2. match[k].gaps = Claims!detect_gaps(requirement, cards[k])
    BY <1>3
  <2>3. p \in Claims!detect_gaps(requirement, cards[k])
    BY <1>11, NamedGaps
  <2> QED
    BY <1>11, <2>1, <2>2, <2>3
<1> HIDE DEF gated, there
<1>12. /\ row.classification = "no_known_pattern" <=> matches = {}
       /\ row.confidence = "gated" <=> gated # {}
       /\ row.classification = "native_config" => \A m \in gated : m.gaps = {}
       /\ row.classification = "module_available_not_installed"
            <=> gated = {} /\ \E m \in matches : ~(m.card.modules \subseteq env.installed)
       /\ row.recommended_modules # {} => ~(row.recommended_modules \subseteq env.installed)
  BY <1>1, <1>7 DEF Classified, gated
<1>13. /\ row.classification = "no_known_pattern" <=> speaking = {}
       /\ row.confidence = "gated" <=> there # {}
       /\ row.classification = "native_config" =>
            \A k \in there : \A p \in cards[k].when_not_enough \ {{}} : ~(p \subseteq requirement)
       /\ row.classification = "module_available_not_installed"
            <=> there = {} /\ \E k \in speaking : ~(cards[k].modules \subseteq env.installed)
  BY <1>8, <1>9, <1>10, <1>11, <1>12
<1>14. Grounded(row, requirement, cards, speaking, env)
  BY <1>12, <1>13 DEF Grounded, there
<1> QED
  BY <1>14 DEF row

LEMMA RungsAnswered == ASSUME Given, Answered("fit_gap") PROVE RungsAreGrounded
<1> SUFFICES ASSUME "rows" \in DOMAIN answer
             PROVE  RungsAreGrounded
  BY DEF RungsAreGrounded
<1> DEFINE cards == Claims!load_cards(asked.files)
           scoped == Scoped(asked)
<1>1. /\ answer = Claims!fit_gap(asked) /\ IsCorpus(asked.files)
      /\ \A i \in DOMAIN asked.requirements : IsFiniteSet(asked.requirements[i])
  <2>1. tool = "fit_gap" /\ asked \in Questions["fit_gap"] /\ answer = Claims!fit_gap(asked)
    BY DEF Given, Answered
  <2> QED
    BY <2>1, ClaimAssumption
<1>2. IsDeck(cards)
  BY <1>1, LoadedIs
<1>3. answer.rows = RowsOf(asked)
  BY <1>1, RowsShown
<1>4. scoped = Claims!Kept(cards, {k \in DOMAIN cards : cards[k].domain \in asked.domains})
  BY DEF Scoped
<1> HIDE DEF cards, scoped
<1>5. ASSUME NEW i \in DOMAIN answer.rows
      PROVE  LET requirement == asked.requirements[i]
                 speaking == {k \in DOMAIN cards : cards[k].domain \in asked.domains
                                                   /\ Claims!Speaks(requirement, cards[k])}
             IN  Cardinality(speaking) <= TOP_K =>
                   Grounded(answer.rows[i], requirement, cards, speaking, asked.env)
  <2> DEFINE requirement == asked.requirements[i]
             speaking == {k \in DOMAIN cards : cards[k].domain \in asked.domains
                                               /\ Claims!Speaks(requirement, cards[k])}
             matched == Claims!match_cards(requirement, scoped)
  <2>1. i \in DOMAIN asked.requirements /\ answer.rows[i] = RowOf(requirement, matched, asked.env)
    BY <1>3 DEF RowsOf, scoped
  <2>2. IsFiniteSet(requirement)
    BY <1>1, <2>1
  <2>3. speaking = {k \in DOMAIN cards : cards[k].domain \in asked.domains /\ Claims!Speaks(requirement, cards[k])}
    OBVIOUS
  <2>4. \A k \in speaking : IsCard(cards[k])
    BY <1>2 DEF IsDeck
  <2> HIDE DEF requirement, speaking, matched
  <2>5. Cardinality(speaking) <= TOP_K => SameCards(matched, cards, speaking)
    BY <1>2, <1>4, <2>2, <2>3, SpeakingMatched DEF matched
  <2>6. Cardinality(speaking) <= TOP_K => Grounded(answer.rows[i], requirement, cards, speaking, asked.env)
    BY <2>1, <2>2, <2>4, <2>5, RowIsGrounded
  <2> QED
    BY <2>6 DEF requirement, speaking
<1> QED
  BY <1>5 DEF RungsAreGrounded, Grounded, cards

\* Whichever of native_check, fit_gap and claim_verify is asked, of whatever
\* probes, cards and instance, a capability is there only if the instance shows
\* it, no card and no phrase that was learned is lost, and a rung or a verdict
\* says what was found.
THEOREM CapabilitiesAreShown == Spec => []CapabilitiesAreGrounded
<1>1. Given => CapabilitiesAreGrounded
  <2>1. Given => ConfirmedIsThere
    BY ConfirmedAnswered DEF ConfirmedIsThere
  <2>2. Given => LearningKeeps
    BY LearningAnswered DEF LearningKeeps
  <2>3. Given => RungsAreGrounded
    BY RungsAnswered DEF RungsAreGrounded
  <2>4. Given => VerdictIsEarned
    BY VerdictAnswered DEF VerdictIsEarned
  <2> QED
    BY <2>1, <2>2, <2>3, <2>4 DEF CapabilitiesAreGrounded
<1> QED
  BY <1>1, AlwaysGiven, PTL
=============================================================================
