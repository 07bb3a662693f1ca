-------------------------- MODULE CapabilityClaims --------------------------
(***************************************************************************)
(* native_check.py, fit_gap.py and claim_verify.py: what a running         *)
(* instance has, asked by probes.  A probe is a leaf with a kind, or       *)
(* [any |-> probes], [all |-> probes], or [bad |-> TRUE], no JSON object.  *)
(* The instance is what its registry and tables hold; its methods are all  *)
(* that hasattr finds.  A card of the corpus has intents, which are sets   *)
(* of words, as a requirement is, and the words of its title, its domain   *)
(* and its primitive; TextWithin says of which of these texts one is part  *)
(* of the other, character by character, whatever words they have.         *)
(***************************************************************************)
EXTENDS Integers, Sequences, SequencesExt, FiniteSets

CONSTANTS
    TOP_K,                                          \* match_cards: top_k
    TextWithin,                                     \* <<intent, requirement>>: its text is part of the other's
    Probes                                          \* those at issue, with all that they are made of

-----------------------------------------------------------------------------
(* Probes                                                                  *)
PROBE_KINDS ==
    {"module_installed", "model_exists", "field_exists", "method_exists", "xmlid_exists",
     "action_window_exists", "group_exists", "cron_exists", "sequence_exists",
     "selection_has_value", "mixin_inherited", "edition"}

\* The keys a handler reads; one that is not there is a KeyError, except for
\* an edition, which is then "".
Keys(kind) ==
    CASE kind \in {"model_exists", "action_window_exists", "cron_exists"} -> {"model"}
      [] kind = "module_installed" -> {"module"}
      [] kind = "field_exists" -> {"model", "field"}
      [] kind = "method_exists" -> {"model", "method"}
      [] kind \in {"xmlid_exists", "group_exists"} -> {"xmlid"}
      [] kind = "sequence_exists" -> {"code"}
      [] kind = "selection_has_value" -> {"model", "field", "value"}
      [] kind = "mixin_inherited" -> {"model", "mixin"}
      [] kind = "edition" -> {"edition"}

\* make_handlers
Handler(leaf, env) ==
    CASE leaf.kind = "module_installed" -> leaf.module \in env.installed
      [] leaf.kind = "model_exists" -> leaf.model \in env.models
      [] leaf.kind = "field_exists" -> leaf.model \in env.models /\ <<leaf.model, leaf.field>> \in env.fields
      [] leaf.kind = "method_exists" -> leaf.model \in env.models /\ <<leaf.model, leaf.method>> \in env.methods
      [] leaf.kind = "xmlid_exists" -> \E x \in env.xmlids : x.xmlid = leaf.xmlid
      [] leaf.kind = "group_exists" -> \E x \in env.xmlids : x.xmlid = leaf.xmlid /\ x.model = "res.groups"
      [] leaf.kind = "action_window_exists" -> leaf.model \in env.windows
      [] leaf.kind = "cron_exists" -> leaf.model \in env.crons
      [] leaf.kind = "sequence_exists" -> leaf.code \in env.sequences
      [] leaf.kind = "selection_has_value" -> <<leaf.model, leaf.field, leaf.value>> \in env.selections
      [] leaf.kind = "mixin_inherited" -> <<leaf.model, leaf.mixin>> \in env.mixins
      [] leaf.kind = "edition" ->
            leaf.edition = IF "web_enterprise" \in env.installed THEN "enterprise" ELSE "community"

\* Evidence: what the leaf says, or why it says nothing.
dispatch_leaf(leaf, env) ==
    IF leaf.kind \notin PROBE_KINDS THEN "unknown_kind"
    ELSE IF leaf.kind # "edition" /\ ~(Keys(leaf.kind) \subseteq DOMAIN leaf) THEN "error"
    ELSE IF leaf.kind = "edition" /\ "edition" \notin DOMAIN leaf THEN "absent"
    ELSE IF Handler(leaf, env) THEN "found" ELSE "absent"

Result(passed, evidence) == [passed |-> passed, evidence |-> evidence]

\* Mutant: all of them is the last of them.
EvalLast(results) ==
    Result(results = <<>> \/ results[Len(results)].passed, UNION {results[i].evidence : i \in DOMAIN results})
EvalAll(results) ==
    Result(\A i \in DOMAIN results : results[i].passed, UNION {results[i].evidence : i \in DOMAIN results})
EvalAny(results) ==
    Result(\E i \in DOMAIN results : results[i].passed, UNION {results[i].evidence : i \in DOMAIN results})

\* Every part is looked at, whatever the others say.
eval_probe(env) ==
    LET eval[probe \in Probes] ==
          IF "bad" \in DOMAIN probe THEN Result(FALSE, {"malformed"})
          ELSE IF "any" \in DOMAIN probe THEN EvalAny([i \in DOMAIN probe.any |-> eval[probe.any[i]]])
          ELSE IF "all" \in DOMAIN probe THEN EvalAll([i \in DOMAIN probe.all |-> eval[probe.all[i]]])
          ELSE Result(dispatch_leaf(probe, env) = "found", {dispatch_leaf(probe, env)})
    IN  eval

-----------------------------------------------------------------------------
(* Lists.  Said by the places of their elements, not with SelectSeq and    *)
(* SetToSortSeq, so that they can be reasoned about.                       *)

\* The elements of S by how many of them come before.
InOrder(S, before) ==
    [n \in 1 .. Cardinality(S) |-> CHOOSE s \in S : Cardinality({t \in S : <<t, s>> \in before}) = n - 1]
\* What the list has at the places I.
Kept(list, I) ==
    LET order == InOrder(I, {p \in I \X I : p[1] < p[2]})
    IN  [n \in DOMAIN order |-> list[order[n]]]

-----------------------------------------------------------------------------
(* native_check: the corpus                                                *)
Valid(card) == card.id # "" /\ card.intents # <<>>

\* CARDS_JSON, one blob, or the files of CARDS_DIR, less those that do not
\* parse and the cards without id or intents; no cards at all ends the script.
load_cards(files) ==
    LET at == UNION {{f} \X {i \in DOMAIN files[f].cards : files[f].parses /\ Valid(files[f].cards[i])} :
                       f \in DOMAIN files}
        order == InOrder(at, {p \in at \X at : p[1][1] < p[2][1] \/ (p[1][1] = p[2][1] /\ p[1][2] < p[2][2])})
    IN  [n \in DOMAIN order |-> files[order[n][1]].cards[order[n][2]]]

\* Mutant: the learned phrases take the place of the card's.
LearnReplaces(state, entry) ==
    LET known == {i \in DOMAIN state.cards : state.cards[i].id = entry.id}
    IN  IF known = {} \/ ~entry.object THEN state
        ELSE [state EXCEPT !.cards[CHOOSE i \in known : TRUE].intents = entry.learned_intents]
\* One learned entry; stopped when an entry before it was no object, after
\* which the cards stay as they are by then.
Learn(state, entry) ==
    LET known == {i \in DOMAIN state.cards : state.cards[i].id = entry.id}
        at == CHOOSE i \in known : \A k \in known : k <= i
        new == Kept(entry.learned_intents,
                    {i \in DOMAIN entry.learned_intents :
                        entry.learned_intents[i] \notin {{}} \union ToSet(state.cards[at].intents)})
    IN  IF state.stopped THEN state
        ELSE IF ~entry.object THEN [state EXCEPT !.stopped = TRUE]
        ELSE IF entry.id = "" THEN state
        ELSE IF known # {} THEN [state EXCEPT !.cards[at].intents = @ \o new]
        ELSE IF entry.card = <<>> THEN state
        ELSE [state EXCEPT !.cards = Append(@, entry.card[1])]

merge_learned(cards, learned) ==
    LET after[n \in 0 .. Len(learned)] ==
          IF n = 0 THEN [cards |-> cards, stopped |-> FALSE] ELSE Learn(after[n - 1], learned[n])
        end == after[Len(learned)]
    IN  [cards |-> end.cards, mappings |-> IF end.stopped THEN 0 ELSE Len(learned)]

-----------------------------------------------------------------------------
(* native_check: recall                                                    *)
card_tokens(card) == card.words \union UNION ToSet(card.intents)

\* Mutant: an intent is looked for word by word.
phrase_bonus_by_words(requirement, card) ==
    4 * Cardinality({i \in DOMAIN card.intents : card.intents[i] # {} /\ card.intents[i] \subseteq requirement})

\* An intent that stands in the requirement counts 2, be it inside of a word:
\* order in backorders.
phrase_bonus(requirement, card) ==
    4 * Cardinality({i \in DOMAIN card.intents :
                       card.intents[i] # {} /\ <<card.intents[i], requirement>> \in TextWithin})
\* The cosine of the TF-IDF vectors, here some number from 0 to 3 of a bonus of
\* 4, is above 0 exactly if they have a word in common.
Cosine(requirement, card) ==
    LET common == Cardinality(requirement \intersect card_tokens(card))
    IN  IF common = 0 THEN 0 ELSE 1 + (2 * common) \div (Cardinality(requirement) + Cardinality(card_tokens(card)))

ScoreOf(requirement, card) == phrase_bonus(requirement, card) + Cosine(requirement, card)

\* Sorting is stable: of equal scores the card that is loaded first.
match_cards(requirement, cards) ==
    LET score == [i \in DOMAIN cards |-> ScoreOf(requirement, cards[i])]
        scored == {i \in DOMAIN cards : score[i] > 0}
        before == {p \in scored \X scored :
                     score[p[1]] > score[p[2]] \/ (score[p[1]] = score[p[2]] /\ p[1] < p[2])}
        order == InOrder(scored, before)
    IN  [n \in DOMAIN order \intersect 1 .. TOP_K |-> cards[order[n]]]

\* A card without a probe is never confirmed.
Gate(card, env) ==
    IF card.probe = <<>> THEN Result(FALSE, {"no probe"}) ELSE eval_probe(env)[card.probe[1]]

\* run
native_check(question) ==
    LET cards == load_cards(question.files)
        corpus == IF question.learned.parses THEN merge_learned(cards, question.learned.entries)
                  ELSE [cards |-> cards, mappings |-> 0]
        matched == match_cards(question.requirement, corpus.cards)
    IN  IF cards = <<>> THEN [exit |-> "0 capability cards loaded"]
        ELSE [cards_loaded |-> Len(corpus.cards), learned_mappings |-> corpus.mappings,
              corpus |-> corpus.cards,
              confirmed |-> Kept(matched, {i \in DOMAIN matched : Gate(matched[i], question.env).passed}),
              unconfirmed |-> Kept(matched, {i \in DOMAIN matched : ~Gate(matched[i], question.env).passed})]

-----------------------------------------------------------------------------
(* fit_gap                                                                 *)
\* when_not_enough: half of the words of the phrase, rounded down, but one.
detect_gaps(requirement, card) ==
    {p \in card.when_not_enough :
        /\ Cardinality(p \intersect requirement) >= 1
        /\ Cardinality(p \intersect requirement) >= Cardinality(p) \div 2}

Match(requirement, card, env) ==
    [card |-> card, gated |-> Gate(card, env).passed,
     modules_installed |-> card.modules \subseteq env.installed,
     gaps |-> detect_gaps(requirement, card)]

Class(cls, confidence, gaps, modules) ==
    [classification |-> cls, confidence |-> confidence, gaps |-> gaps, recommended_modules |-> modules]

\* Mutant: a module that is not installed decides before a probe that passed.
classify_modules_first(matches) ==
    LET missing == {m \in matches : ~m.modules_installed}
    IN  IF missing # {} THEN Class("module_available_not_installed", "heuristic", {},
                                   UNION {m.card.modules : m \in missing})
        ELSE Class("native_config", "gated", {}, {})
classify_requirement(matches) ==
    LET gated == {m \in matches : m.gated}
        gaps == UNION {m.gaps : m \in gated}
        missing == {m \in matches : ~m.modules_installed}
    IN  IF matches = {} THEN Class("no_known_pattern", "heuristic", {}, {})
        ELSE IF gated # {}
             THEN Class(IF gaps # {} THEN "config_plus_gap" ELSE "native_config", "gated", gaps, {})
        ELSE IF missing # {}
             THEN Class("module_available_not_installed", "heuristic", {},
                        UNION {m.card.modules : m \in missing})
        ELSE Class("pattern_known_not_present", "heuristic", {}, {})

effort_band(cls) ==
    CASE cls = "native_config" -> "S"
      [] cls \in {"config_plus_gap", "module_available_not_installed"} -> "M"
      [] OTHER -> "L"
HIGH_RISK_TERMS == {"accounting", "valuation", "security", "permission", "company", "payroll"}
risk_class(requirement, domains) ==
    IF "account" \in domains \/ requirement \intersect HIGH_RISK_TERMS # {} THEN "high" ELSE "normal"
summarize(rows) == [c \in {rows[i].classification : i \in DOMAIN rows} |->
                      Cardinality({i \in DOMAIN rows : rows[i].classification = c})]

fit_gap(question) ==
    LET loaded == load_cards(question.files)
        cards == Kept(loaded, {i \in DOMAIN loaded : loaded[i].domain \in question.domains})
        Row(requirement) ==
            LET matched == match_cards(requirement, cards)
                row == classify_requirement({Match(requirement, matched[i], question.env) : i \in DOMAIN matched})
            IN  [requirement |-> requirement, classification |-> row.classification,
                 confidence |-> row.confidence, gaps |-> row.gaps,
                 recommended_modules |-> row.recommended_modules,
                 effort_band |-> effort_band(row.classification),
                 risk_class |-> risk_class(requirement, {matched[i].domain : i \in DOMAIN matched})]
        rows == [i \in DOMAIN question.requirements |-> Row(question.requirements[i])]
    IN  IF question.requirements = <<>> THEN [exit |-> "no requirements"]
        ELSE IF cards = <<>> THEN [exit |-> "0 capability cards"]
        ELSE [rows |-> rows, summary |-> summarize(rows)]

-----------------------------------------------------------------------------
(* claim_verify: a claim has a probe, or model, field, method, xmlid, each *)
(* "" if it is not there, a claim_type, and a text with words.             *)
claim_to_probe(claim) ==
    IF claim.probe # <<>> /\ "kind" \in DOMAIN claim.probe[1] /\ claim.probe[1].kind \in PROBE_KINDS
    THEN claim.probe
    ELSE IF claim.model # "" /\ claim.field # ""
         THEN <<[kind |-> "field_exists", model |-> claim.model, field |-> claim.field]>>
    ELSE IF claim.model # "" /\ claim.method # ""
         THEN <<[kind |-> "method_exists", model |-> claim.model, method |-> claim.method]>>
    ELSE IF claim.xmlid # "" THEN <<[kind |-> "xmlid_exists", xmlid |-> claim.xmlid]>>
    ELSE IF claim.model # "" THEN <<[kind |-> "model_exists", model |-> claim.model]>>
    ELSE <<>>

needs_runtime(claim, probe) ==
    /\ claim.claim_type # "existence"
    /\ \/ claim.claim_type \in {"hook_safety", "runtime_behavior", "migration", "security"}
       \/ "kind" \in DOMAIN probe /\ probe.kind = "method_exists"
       \/ "override" \in claim.words

\* Mutant: a probe that could not be evaluated is a probe that failed.
classify_without_eval(claim, probe, passed, eval_ok) ==
    IF probe = <<>> THEN IF claim.words # {} THEN "needs_human" ELSE "absent"
    ELSE IF ~passed THEN "contradicted"
    ELSE IF needs_runtime(claim, probe[1]) THEN "needs_shell" ELSE "confirmed"
classify(claim, probe, passed, eval_ok) ==
    IF probe = <<>> THEN IF claim.words # {} THEN "needs_human" ELSE "absent"
    ELSE IF ~eval_ok THEN "needs_human"
    ELSE IF ~passed THEN "contradicted"
    ELSE IF needs_runtime(claim, probe[1]) THEN "needs_shell" ELSE "confirmed"

claim_verify(question) ==
    LET probe == claim_to_probe(question.claim)
        result == IF probe = <<>> THEN Result(FALSE, {}) ELSE eval_probe(question.env)[probe[1]]
        eval_ok == result.evidence \intersect {"error", "unknown_kind"} = {}
    IN  [verdict |-> classify(question.claim, probe, result.passed, eval_ok)]

-----------------------------------------------------------------------------
(* What the answers promise.                                               *)
\* A card that speaks of the requirement: a word in common, or an intent of it
\* that stands in the requirement, be it inside of a word.
Speaks(requirement, card) ==
    \/ card_tokens(card) \intersect requirement # {}
    \/ \E i \in DOMAIN card.intents : card.intents[i] # {} /\ <<card.intents[i], requirement>> \in TextWithin

\* What a probe says without an order of evaluation: the leaves that are
\* looked at, and the sets of leaves of which one is enough.
Sets(parts) == UNION {parts[i].ways : i \in DOMAIN parts}
OneOfEach(parts) == {c \in [DOMAIN parts -> Sets(parts)] : \A i \in DOMAIN parts : c[i] \in parts[i].ways}
Leaves(parts) == UNION {parts[i].leaves : i \in DOMAIN parts}

meaning[probe \in Probes] ==
    IF "bad" \in DOMAIN probe THEN [ways |-> {}, leaves |-> {}]
    ELSE IF "any" \in DOMAIN probe
         THEN LET parts == [i \in DOMAIN probe.any |-> meaning[probe.any[i]]]
              IN  [ways |-> Sets(parts), leaves |-> Leaves(parts)]
    ELSE IF "all" \in DOMAIN probe
         THEN LET parts == [i \in DOMAIN probe.all |-> meaning[probe.all[i]]]
              IN  [ways |-> {UNION {c[i] : i \in DOMAIN c} : c \in OneOfEach(parts)}, leaves |-> Leaves(parts)]
    ELSE [ways |-> {{probe}}, leaves |-> {probe}]

\* No part that is looked at is malformed.
sound[probe \in Probes] ==
    /\ "bad" \notin DOMAIN probe
    /\ "any" \in DOMAIN probe => \A i \in DOMAIN probe.any : sound[probe.any[i]]
    /\ "all" \in DOMAIN probe /\ "any" \notin DOMAIN probe => \A i \in DOMAIN probe.all : sound[probe.all[i]]

There(probe, env) ==
    probe # <<>> /\ \E way \in meaning[probe[1]].ways : \A leaf \in way : dispatch_leaf(leaf, env) = "found"
Says(probe, env) == IF probe = <<>> THEN {} ELSE {dispatch_leaf(leaf, env) : leaf \in meaning[probe[1]].leaves}
=============================================================================
