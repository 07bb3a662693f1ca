------------------------------ MODULE Answers -------------------------------
(***************************************************************************)
(* The commands that read something, decide and print an answer, without   *)
(* state of their own.  A tool is asked one question and answers it; the   *)
(* properties compare the answer with what the question holds.             *)
(***************************************************************************)
EXTENDS Integers, Sequences, SequencesExt, FiniteSets, FiniteSetsExt, Functions

CONSTANTS
    Questions,                                      \* what each tool may be asked
    NoName, Generic, MIN_FIELDS_FOR_MATCH, MODEL_MATCH_THRESHOLD,   \* of gen_manifest
    HIGH_SIM,                                       \* of upgrade_check
    SENSITIVE_MODELS, SensitiveKeys, STRIP_KEYS, Underscored,       \* of redaction
    Values, nesting,                                \* the JSON values at issue, how deep each nests
    TOP_K,                                          \* of native_check
    TextWithin,                                     \* which intents are part of which requirements
    Probes, nested                                  \* the probes at issue, how deep each nests

Manifest == INSTANCE BreakingChanges
Tests == INSTANCE Scenarios
Risks == INSTANCE UpgradeRisks
Drift == INSTANCE EnvDrift
Gate == INSTANCE EditGate
Schema == INSTANCE EvidenceSchema
Privacy == INSTANCE Redaction
Claims == INSTANCE CapabilityClaims

IsRecord(r, keys) == r = [k \in keys |-> r[k]]

ASSUME EditAssumption ==
    \A q \in Questions["pre_edit_gate"] :
        /\ IsRecord(q.call, {"parses", "path", "in_module", "file"})
        /\ IsRecord(q.call.file, {"kind", "readable", "antipattern", "models"})
        /\ q.settings.gate \in {"works", "fails", "mumbles"}
        /\ q.settings.out \in {"default", "other"}

ASSUME ScenarioAssumption ==
    \A q \in Questions["scenarios"] : q.observations.read =>
        LET obs == q.observations.doc
        IN  /\ \A k \in {"max_recordset_len", "max_create_vals_len"} \intersect DOMAIN obs : obs[k] \in Int
            /\ \A k \in {"companies_seen", "allowed_company_sets"} \intersect DOMAIN obs : IsFiniteSet(obs[k])

\* What the parser gives: a list of classes, each with finitely many names.
IsTree(tree) ==
    /\ Len(tree.classes) \in Nat /\ DOMAIN tree.classes = 1 .. Len(tree.classes)
    /\ \A i \in DOMAIN tree.classes :
          LET class == tree.classes[i]
          IN  /\ IsRecord(class.fields, DOMAIN class.fields) /\ IsFiniteSet(DOMAIN class.fields)
              /\ IsFiniteSet(Manifest!Targets(class)) /\ Manifest!Targets(class) \subseteq Int

ASSUME BriefAssumption ==
    /\ MIN_FIELDS_FOR_MATCH \in Nat \ {0}
    /\ \A q \in Questions["upgrade_brief"] : IsTree(q.trees.old) /\ IsTree(q.trees.new)

ASSUME RiskAssumption ==
    \A q \in Questions["upgrade_check"] :
        /\ IsFiniteSet(DOMAIN q.old) /\ IsFiniteSet(DOMAIN q.new)
        /\ DOMAIN q.old \subseteq Int /\ DOMAIN q.new \subseteq Int
        /\ \A f \in Risks!Gone(q.old, q.new), g \in Risks!Gone(q.new, q.old) : q.similar[<<f, g>>] \in Int

ASSUME DriftAssumption ==
    \A q \in Questions["env_diff"] : \A f \in {q.base, q.target} :
        /\ IsRecord(f.instance, {"modules", "counts", "studio_fields", "config_params", "fails"})
        /\ IsRecord(f.instance.modules, DOMAIN f.instance.modules)
        /\ f.instance.counts \in [Drift!COUNTED -> Nat]
        /\ f.from # "instance" /\ f.saved.read /\ "counts" \in DOMAIN f.saved.file =>
             \A k \in DOMAIN f.saved.file.counts : f.saved.file.counts[k] \in Int

\* What a part of an artifact should be: a text, an object with the fields of
\* its type, or a list of such; an optional part may be left out or null.
IsOf(part, fields) == part.shape = "object" /\ \A f \in DOMAIN fields : part[f] \in fields[f]
ArtifactParts == {"schema_version", "generated_at"} \union DOMAIN Schema!Objects \union DOMAIN Schema!Lists
IsSound(artifact, k) ==
    CASE k = "schema_version" -> artifact[k] = "1.0"
      [] k = "generated_at" -> artifact[k] = "text"
      [] k \in DOMAIN Schema!Objects ->
            \/ IsOf(artifact[k], Schema!Objects[k])
            \/ k \in {"instance", "addons"} /\ artifact[k].shape \in {"absent", "null"}
      [] OTHER -> artifact[k].shape = "list" /\ \A i \in DOMAIN artifact[k].items :
                                                IsOf(artifact[k].items[i], Schema!Lists[k])

\* With an artifact comes which of its parts are not what they should be.
ASSUME ValidateAssumption ==
    \A q \in Questions["evidence_validate"] : q.damaged = {k \in ArtifactParts : ~IsSound(q.artifact, k)}

\* JSON that was read from a file nests to some depth; the placeholder that the
\* worker is called with again is one more value.
ASSUME RedactAssumption ==
    /\ nesting \in [Values -> Nat]
    /\ \A v \in Values : \A part \in Privacy!Parts(v) : part \in Values /\ nesting[part] < nesting[v]
    /\ LET held == Privacy!Text("<redacted:sensitive-field>") IN held \in Values /\ nesting[held] = 0
    /\ "_caveat" \in Underscored \ SensitiveKeys
    /\ SENSITIVE_MODELS \intersect Privacy!Placeholders = {}
    /\ \A q \in Questions["redact"] : q.value \in Values /\ q.mode \in {"external", "local"}

\* JSON has lists, of which probes are made to some depth; a card and a learned
\* entry are checked by those that write them.
IsList(l) == l \in Seq({l[i] : i \in DOMAIN l})
IsCard(c) ==
    /\ IsRecord(c, {"id", "words", "intents", "probe", "domain", "modules", "when_not_enough"})
    /\ IsList(c.intents) /\ IsFiniteSet(c.words)
    /\ \A i \in DOMAIN c.intents : IsFiniteSet(c.intents[i])
    /\ \A p \in c.when_not_enough : IsFiniteSet(p)
    /\ c.probe = <<>> \/ c.probe[1] \in Probes
IsCorpus(files) ==
    /\ IsList(files)
    /\ \A f \in DOMAIN files : IsList(files[f].cards) /\ \A i \in DOMAIN files[f].cards : IsCard(files[f].cards[i])
IsEntry(entry) ==
    /\ IsList(entry.learned_intents)
    /\ \A i \in DOMAIN entry.learned_intents : IsFiniteSet(entry.learned_intents[i])
    /\ entry.card = <<>> \/ IsCard(entry.card[1])

ASSUME ClaimAssumption ==
    /\ TOP_K \in Nat
    /\ nested \in [Probes -> Nat]
    /\ \A p \in Probes : \A k \in {"any", "all"} \intersect DOMAIN p :
          IsList(p[k]) /\ \A i \in DOMAIN p[k] : p[k][i] \in Probes /\ nested[p[k][i]] < nested[p]
    /\ \A q \in Questions["native_check"] :
          /\ IsFiniteSet(q.requirement) /\ IsCorpus(q.files) /\ IsList(q.learned.entries)
          /\ \A n \in DOMAIN q.learned.entries : IsEntry(q.learned.entries[n])
    /\ \A q \in Questions["fit_gap"] :
          /\ IsList(q.requirements) /\ IsCorpus(q.files)
          /\ \A i \in DOMAIN q.requirements : IsFiniteSet(q.requirements[i])
    /\ \A q \in Questions["claim_verify"] :
          Claims!claim_to_probe(q.claim) = <<>> \/ Claims!claim_to_probe(q.claim)[1] \in Probes

VARIABLES tool, asked, answer
vars == <<tool, asked, answer>>

NoAnswer == [none |-> TRUE]

Init ==
    /\ tool \in DOMAIN Questions
    /\ asked \in Questions[tool]
    /\ answer = NoAnswer

\* One answer to each question.
Asked(t) == tool = t /\ answer = NoAnswer
Gives(a) == answer' = a /\ UNCHANGED <<tool, asked>>

\* The two commands of each pair, one after the other.
scenarios_answer(q) ==
    LET generated == Tests!scenario_gen(q.change)
        doc == IF q.file = "generated" THEN [read |-> TRUE, doc |-> [scenarios |-> generated.scenarios]]
               ELSE q.other
    IN  [generated |-> generated, result |-> Tests!scenario_satisfaction(doc, q.observations)]
File(f) == IF f.from = "instance" THEN [read |-> TRUE, file |-> Drift!fingerprint(f.instance)] ELSE f.saved
drift_answer(q) == [there |-> Drift!env_diff(File(q.base), File(q.target)),
                    back |-> Drift!env_diff(File(q.target), File(q.base))]
edit_answer(q) == [exit |-> Gate!pre_edit_gate(q.call, q.settings, q.evidence, q.validator),
                   gate |-> Gate!gate_edit({q.call.file}, q.evidence, q.validator)]

upgrade_brief == Asked("upgrade_brief") /\ Gives(Manifest!gen_and_brief(asked.trees, asked.usage))
scenarios == Asked("scenarios") /\ Gives(scenarios_answer(asked))
upgrade_check == Asked("upgrade_check") /\ Gives(Risks!upgrade_check(asked.old, asked.new, asked.similar, asked.noupdate))
env_diff == Asked("env_diff") /\ Gives(drift_answer(asked))
pre_edit_gate == Asked("pre_edit_gate") /\ Gives(edit_answer(asked))
evidence_validate == Asked("evidence_validate") /\ Gives([errors |-> Schema!validate_artifact(asked.artifact)])
redact == Asked("redact") /\ Gives([value |-> Privacy!redact_file(asked.value, asked.mode)])

native_check == Asked("native_check") /\ Gives(Claims!native_check(asked))
fit_gap == Asked("fit_gap") /\ Gives(Claims!fit_gap(asked))
claim_verify == Asked("claim_verify") /\ Gives(Claims!claim_verify(asked))

Next == \/ upgrade_brief \/ scenarios \/ upgrade_check \/ env_diff \/ pre_edit_gate
        \/ evidence_validate \/ redact \/ native_check \/ fit_gap \/ claim_verify
Spec == Init /\ [][Next]_vars

\* Safe to read: the answer of tool t is there.
Answered(t) == tool = t /\ answer # NoAnswer

-----------------------------------------------------------------------------
(* gen_manifest.py, upgrade_brief.py and the grade of migrate_all.py       *)

\* The grade is read as an amount of work: nothing that an S or M module names
\* has lost its model or its module, nothing that an S module names its xml id.
GradeCoversWhatIsGone ==
    Answered("upgrade_brief") =>
        LET usage == asked.usage
            old == asked.trees.old
            new == asked.trees.new
            gone == {m \in usage.models : Manifest!ClassesOf(old, m) # {} /\ Manifest!ClassesOf(new, m) = {}}
        IN  /\ answer.effort \in {"S", "M"} => gone = {} /\ usage.depends \intersect (old.modules \ new.modules) = {}
            /\ answer.effort = "S" => usage.xmlids \intersect old.xmlids \subseteq new.xmlids

\* A field or method that all classes of a model have lost, that is still a
\* model, is warned of if the module names both, whichever class had it.
NamedLossesAreWarned ==
    Answered("upgrade_brief") =>
        LET old == asked.trees.old
            new == asked.trees.new
            Warned(m, w) == \E f \in answer.brief : f.severity = "WARNING" /\ f.subject = <<m, w>>
        IN  \A m \in asked.usage.models, w \in asked.usage.words :
                Manifest!ClassesOf(old, m) # {} /\ Manifest!ClassesOf(new, m) # {} =>
                    /\ Manifest!HasField(old, m, w.word) /\ ~Manifest!HasField(new, m, w.word)
                         => Warned(m, w.word)
                    /\ Manifest!HasMethod(old, m, w.word) /\ ~Manifest!HasMethod(new, m, w.word)
                           /\ (w.word \in Generic => m \in w.models)
                         => Warned(m, w.word)

\* A replacement that is suggested is one nobody has a better claim to, and a
\* model is not both renamed and merged.
CandidatesAreStable ==
    Answered("upgrade_brief") =>
        LET om == Manifest!collect_tree(asked.trees.old)
            nm == Manifest!collect_tree(asked.trees.new)
            renamed == {r[2] : r \in answer.manifest.renamed}
        IN  /\ Manifest!Stable(answer.manifest.renamed, Restrict(om, answer.manifest.removed),
                                Restrict(nm, DOMAIN nm \ DOMAIN om))
            /\ Manifest!Stable(answer.manifest.merged, Restrict(om, answer.manifest.removed \ renamed),
                                Restrict(nm, DOMAIN nm \intersect DOMAIN om))
            /\ renamed \intersect {r[2] : r \in answer.manifest.merged} = {}

\* The brief for a module tells of what the new version takes from it, and what
\* it suggests instead is consistent.
BriefTellsOfLosses == GradeCoversWhatIsGone /\ NamedLossesAreWarned /\ CandidatesAreStable

-----------------------------------------------------------------------------
(* scenario_gen.py and scenario_satisfaction.py                            *)

\* That all scenarios of the generated list are satisfied says that the run did
\* what the risk of the change asks for: with a user who is not the superuser
\* (or one of uid 0, which counts as such), in both phases, and as the model
\* and the methods have it with two companies, with two records, installed and
\* upgraded, against a locked period.  Nothing is satisfied without both files.
OkMeansSeen ==
    Answered("scenarios") /\ answer.result.ok =>
        LET obs == asked.observations.doc
            change == asked.change
            Saw(key, what) == key \in DOMAIN obs /\ what \subseteq obs[key]
        IN  /\ asked.observations.read
            /\ asked.file = "generated" \/ asked.other.read
            /\ asked.file = "generated" =>
                 /\ "uids_seen" \in DOMAIN obs /\ \E u \in obs.uids_seen : u \notin {"1", "true", "false", "null"}
                 /\ Saw("phases_covered", {"at_install", "post_install"})
                 /\ ~(change.known /\ change.transient) => Saw("install_modes", {"-i", "-u"})
                 /\ ~change.known \/ change.company =>
                      \/ "companies_seen" \in DOMAIN obs /\ Cardinality(obs.companies_seen) > 1
                      \/ "allowed_company_sets" \in DOMAIN obs /\ Cardinality(obs.allowed_company_sets) > 1
                         /\ "access_errors_seen" \in DOMAIN obs /\ obs.access_errors_seen
                 /\ change.methods \intersect {"write", "action_post"} # {} \/ change.methods = {} =>
                      \E k \in {"max_recordset_len", "max_create_vals_len"} \intersect DOMAIN obs : obs[k] > 1
                 /\ change.model \in {<<"account", "move">>, <<"account", "move", "reversal">>} =>
                      "locked_period_usererror" \in DOMAIN obs /\ obs.locked_period_usererror

-----------------------------------------------------------------------------
(* upgrade_check.py                                                        *)

\* The column of a stored field that is gone is in the report as blocking and
\* in the script once, as a removal or as one renaming; a renaming is of like
\* to like, and no new field takes the data of two.  A new field that must have
\* a value gets it from a renaming, has a default, or is reported.
EveryLossIsBlocking ==
    Answered("upgrade_check") =>
        LET gone == {f \in DOMAIN asked.old \ DOMAIN asked.new : asked.old[f].store}
            from == {p[1] : p \in answer.script.renames}
            Blocking(f) == \E r \in answer.risks : r.field = f /\ r.severity = "blocking"
        IN  /\ \A f \in gone : Blocking(f) /\ (f \in from <=> f \notin answer.script.removals)
            /\ \A p, q \in answer.script.renames : p[1] = q[1] \/ p[2] = q[2] => p = q
            /\ \A i, k \in DOMAIN answer.renames : answer.renames[i].new = answer.renames[k].new => i = k
            /\ \A p \in answer.script.renames :
                  p[1] \in gone /\ p[2] \notin DOMAIN asked.old /\ asked.old[p[1]].type = asked.new[p[2]].type
            /\ \A f \in DOMAIN asked.new \ DOMAIN asked.old :
                  asked.new[f].store /\ asked.new[f].required /\ ~asked.new[f].has_default
                    => Blocking(f) \/ \E p \in answer.script.renames : p[2] = f

-----------------------------------------------------------------------------
(* env_diff.py                                                             *)

\* Which instance comes first does not change the severity.  Between instances
\* whose lists could all be read, none says that they are the same in all that
\* is compared and that all counts are known; and if a module or a Studio field
\* is in one only, or the editions differ, it is high.
NoneMeansSame ==
    Answered("env_diff") =>
        LET b == asked.base.instance
            t == asked.target.instance
            read == (b.fails \union t.fails) \subseteq Drift!COUNTED
        IN  /\ "severity" \in DOMAIN answer.there <=> "severity" \in DOMAIN answer.back
            /\ "severity" \in DOMAIN answer.there => answer.there.severity = answer.back.severity
            /\ asked.base.from = "instance" /\ asked.target.from = "instance" /\ read =>
                 /\ answer.there.severity = "none" <=>
                      b.fails = {} /\ t.fails = {} /\ [b EXCEPT !.fails = {}] = [t EXCEPT !.fails = {}]
                 /\ answer.there.severity = "high" <=>
                      \/ DOMAIN b.modules # DOMAIN t.modules
                      \/ b.studio_fields # t.studio_fields

-----------------------------------------------------------------------------
(* gate_edit.py and hooks/pre_edit_gate.py                                 *)

\* An edit that is let through without being waved through (switched off, not
\* gated, a gate that cannot run and is not strict) is of a file that names only
\* models of whose stem there is evidence, or that is yet to be written.
EditsAreGrounded ==
    Answered("pre_edit_gate") =>
        LET waved == \/ asked.settings.disable \/ ~Gate!Gated(asked.call)
                     \/ asked.settings.gate # "works" /\ ~asked.settings.strict
            file == asked.call.file
            stems == {e[1] : e \in {d \in asked.evidence : d[2] # "trace"}}
        IN  answer.exit = Gate!Allow /\ ~waved =>
                /\ asked.settings.gate = "works"
                /\ file.readable => \A m \in file.models : m.technical \/ m.stem \in stems
                /\ file.readable /\ file.kind = "py" /\ file.antipattern => ~asked.validator.works

\* What a block names is enough and needed: the edit that is blocked is let
\* through, once the commands have run and the file is clean if validating is
\* one of them, exactly if they can leave evidence where the gate reads, which
\* is of the stem of each model that is missing one: that of a model, be it
\* another one, that is in the registry.  (references/enforcement-hooks.md:20 has
\* the gate flip to allow in any case.)
AfterCommands(q, commands) ==
    LET written == UNION {Gate!odoo_ai_all(c[2], q.settings) : c \in {d \in commands : d[1] = "odoo-ai all"}}
        fixed == IF \E c \in commands : c[1] = "odoo-ai validate"
                 THEN [q.call EXCEPT !.file.antipattern = FALSE] ELSE q.call
    IN  Gate!pre_edit_gate(fixed, q.settings, q.evidence \union written, q.validator)
BlockedEditsCanGoOn ==
    Answered("pre_edit_gate") /\ asked.settings.gate = "works" /\ answer.exit = Gate!Block =>
        LET asks == {c[2] : c \in {d \in answer.gate.required_commands : d[1] = "odoo-ai all"}}
            known == {m.stem : m \in {n \in asks : n.registered}}
        IN  AfterCommands(asked, answer.gate.required_commands) = Gate!Allow
              <=> asks = {} \/ (asked.settings.out = "default" /\ {m.stem : m \in asks} \subseteq known)

\* The gate lets through what is grounded, and what it asks for lifts a block
\* where it can.
GateIsGrounded == EditsAreGrounded /\ BlockedEditsCanGoOn

-----------------------------------------------------------------------------
(* redaction.py                                                            *)

\* In external mode a reader sees, apart from the keys that are kept as they
\* are, no text that would be masked and none that the scanner would report,
\* padded words excepted; of a record of a sensitive model, however deep, no
\* text at all; no value of a sensitive key in either mode; and every key is
\* still there.  What is seen nests no deeper than what was given.
RedactedIsClean ==
    Answered("redact") =>
        LET depth == nesting[asked.value]
            seen == Privacy!Seen(answer.value, depth)
            shown == Privacy!Shown(seen)
        IN  /\ (UNION {Privacy!Inside(v) : v \in seen}) \subseteq seen
            /\ asked.mode = "external" =>
                 /\ \A k \in shown : Privacy!mask_value(k) = k
                 /\ shown \intersect (Privacy!PROVIDER \union Privacy!PII \union (Privacy!TOKENS \ {"padded"})) = {}
                 /\ Privacy!scan_secrets(shown) \subseteq {"padded"}
                 /\ \A o \in Privacy!Objects(seen) :
                      Privacy!StrOf(o, "model") \in SENSITIVE_MODELS =>
                        Privacy!Shown(Privacy!Seen([object |-> o], depth)) \subseteq Privacy!Placeholders
            /\ \A o \in Privacy!Objects(seen), k \in SensitiveKeys :
                  k \in DOMAIN o => o[k].text \in Privacy!Placeholders
            /\ "object" \in DOMAIN asked.value => DOMAIN asked.value.object \subseteq DOMAIN answer.value.object

-----------------------------------------------------------------------------
(* evidence_schema.py, validate                                            *)

\* All that is wrong with an artifact is said at once: there is an error about
\* every part that is damaged, whatever else is, and about no other; a decision
\* to approve stands only without a warm check of a layer that gates merging.
ErrorsAreComplete ==
    Answered("evidence_validate") =>
        LET artifact == asked.artifact
            warm == {i \in DOMAIN artifact.checks.items :
                        /\ artifact.checks.items[i].shape = "object"
                        /\ artifact.checks.items[i].cache_provenance = "warm"
                        /\ artifact.checks.items[i].layer \in {"gate", "verify"}}
            about == {e[1] : e \in answer.errors}
        IN  /\ about \ {"checks"} = asked.damaged \ {"checks"}
            /\ "checks" \in about <=>
                 \/ "checks" \in asked.damaged
                 \/ artifact.decision.shape = "object" /\ artifact.decision.decision = "approve" /\ warm # {}

-----------------------------------------------------------------------------
(* native_check.py, fit_gap.py, claim_verify.py                            *)

\* A card is confirmed exactly if one of the ways to satisfy its probe is there
\* as a whole, whatever the nesting and the order of evaluation; the cards that
\* are listed are cards of the corpus and none is listed twice.
ConfirmedIsThere ==
    Answered("native_check") /\ "corpus" \in DOMAIN answer =>
        LET listed == answer.confirmed \o answer.unconfirmed
        IN  /\ \A i \in DOMAIN listed :
                  i <= Len(answer.confirmed) <=> Claims!There(listed[i].probe, asked.env)
            /\ \E at \in Injection(DOMAIN listed, DOMAIN answer.corpus) :
                  \A i \in DOMAIN listed : listed[i] = answer.corpus[at[i]]

\* What is learned adds: no card is lost or loses an intent, and a phrase that
\* was learned for a card is recalled by that card, even though the entries
\* after one that is no object are not read.
LearningKeeps ==
    Answered("native_check") /\ "corpus" \in DOMAIN answer =>
        LET loaded == Claims!load_cards(asked.files)
            Read(n) == \A k \in 1..n : asked.learned.entries[k].object
            Has(id, phrase) == \E i \in DOMAIN answer.corpus :
                                  answer.corpus[i].id = id /\ phrase \in ToSet(answer.corpus[i].intents)
        IN  /\ \A i \in DOMAIN loaded : IsPrefix(loaded[i].intents, answer.corpus[i].intents)
                                        /\ answer.corpus[i].id = loaded[i].id
            /\ asked.learned.parses =>
                 \A n \in DOMAIN asked.learned.entries : Read(n) =>
                    LET entry == asked.learned.entries[n]
                    IN  \A p \in ToSet(entry.learned_intents) \ {{}} :
                           (\E i \in DOMAIN loaded : loaded[i].id = entry.id) => Has(entry.id, p)

\* A rung is what the instance shows of the cards that speak of the
\* requirement (none was cut off): no known pattern if there are none, gated
\* exactly if one of them is there, native only if none of its gaps is named
\* word by word, a module to install only if it is not installed.
RungsAreGrounded ==
    Answered("fit_gap") /\ "rows" \in DOMAIN answer =>
        \A i \in DOMAIN answer.rows :
            LET row == answer.rows[i]
                requirement == asked.requirements[i]
                cards == Claims!load_cards(asked.files)
                speaking == {k \in DOMAIN cards : cards[k].domain \in asked.domains
                                                  /\ Claims!Speaks(requirement, cards[k])}
                there == {k \in speaking : Claims!There(cards[k].probe, asked.env)}
            IN  Cardinality(speaking) <= TOP_K =>
                  /\ row.classification = "no_known_pattern" <=> speaking = {}
                  /\ row.confidence = "gated" <=> there # {}
                  /\ row.classification = "native_config" =>
                       \A k \in there : \A p \in cards[k].when_not_enough \ {{}} : ~(p \subseteq requirement)
                  /\ row.classification = "module_available_not_installed"
                       <=> there = {} /\ \E k \in speaking : ~(cards[k].modules \subseteq asked.env.installed)
                  /\ row.recommended_modules # {} => ~(row.recommended_modules \subseteq asked.env.installed)

\* A claim is called right exactly if what it names is there; it is called
\* wrong only if that is not there, and always then, when all that was looked
\* at could be looked up and has no malformed part; that a method is there never
\* settles more than its existence.  Of a malformed part it may say contradicted,
\* against claim_verify.py:117-118: the part only counts as not found.
VerdictIsEarned ==
    Answered("claim_verify") =>
        LET claim == asked.claim
            probe == Claims!claim_to_probe(claim)
            looked_up == probe # <<>> /\ Claims!Says(probe, asked.env) \subseteq {"found", "absent"}
            found == Claims!There(probe, asked.env)
        IN  /\ answer.verdict \in {"confirmed", "needs_shell"} <=> looked_up /\ found
            /\ answer.verdict = "contradicted" => looked_up /\ ~found
            /\ looked_up /\ ~found /\ Claims!sound[probe[1]] => answer.verdict = "contradicted"
            /\ probe # <<>> /\ probe[1].kind = "method_exists" /\ answer.verdict = "confirmed"
                 => claim.claim_type = "existence"

\* Whichever of the three is asked, a capability is there only if the instance
\* shows it.
CapabilitiesAreGrounded == ConfirmedIsThere /\ LearningKeeps /\ RungsAreGrounded /\ VerdictIsEarned
=============================================================================
