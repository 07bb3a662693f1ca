--------------------------- MODULE Answers_proofs ---------------------------
(***************************************************************************)
(* For any questions of the shapes that the assumptions of Answers name:   *)
(* what the answers of the commands promise is so.  A command answers      *)
(* once, so that its answer is always the function of the question         *)
(* (Given); the rest are theorems about these functions.  The commands     *)
(* whose input nests have NestedAnswers_proofs.                            *)
(***************************************************************************)
EXTENDS Answers, FiniteSetTheorems, WellFoundedInduction, TLAPS

\* Every answer is the one its command gives to its question.
Given ==
    /\ asked \in Questions[tool]
    /\ Answered("upgrade_brief") => answer = Manifest!gen_and_brief(asked.trees, asked.usage)
    /\ Answered("scenarios") => answer = scenarios_answer(asked)
    /\ Answered("upgrade_check") => answer = Risks!upgrade_check(asked.old, asked.new, asked.similar, asked.noupdate)
    /\ Answered("env_diff") => answer = drift_answer(asked)
    /\ Answered("pre_edit_gate") => answer = edit_answer(asked)
    /\ Answered("evidence_validate") => answer = [errors |-> Schema!validate_artifact(asked.artifact)]

LEMMA AlwaysGiven == Spec => []Given
<1>1. Init => Given
  BY DEF Init, Given, Answered
<1>2. Given /\ [Next]_vars => Given'
  <2> SUFFICES ASSUME Given, [Next]_vars PROVE Given'
    OBVIOUS
  <2>1. CASE upgrade_brief
    BY <2>1 DEF upgrade_brief, Asked, Gives, Given, Answered
  <2>2. CASE scenarios
    BY <2>2 DEF scenarios, Asked, Gives, Given, Answered
  <2>3. CASE upgrade_check
    BY <2>3 DEF upgrade_check, Asked, Gives, Given, Answered
  <2>4. CASE env_diff
    BY <2>4 DEF env_diff, Asked, Gives, Given, Answered
  <2>5. CASE pre_edit_gate
    BY <2>5 DEF pre_edit_gate, Asked, Gives, Given, Answered
  <2>6. CASE evidence_validate
    BY <2>6 DEF evidence_validate, Asked, Gives, Given, Answered
  <2>7. CASE redact
    BY <2>7 DEF redact, Asked, Gives, Given, Answered
  <2>8. CASE native_check
    BY <2>8 DEF native_check, Asked, Gives, Given, Answered
  <2>9. CASE fit_gap
    BY <2>9 DEF fit_gap, Asked, Gives, Given, Answered
  <2>10. CASE claim_verify
    BY <2>10 DEF claim_verify, Asked, Gives, Given, Answered
  <2>11. CASE UNCHANGED vars
    BY <2>11 DEF vars, Given, Answered
  <2> QED
    BY <2>1, <2>2, <2>3, <2>4, <2>5, <2>6, <2>7, <2>8, <2>9, <2>10, <2>11 DEF Next
<1> QED
  BY <1>1, <1>2, PTL DEF Spec

-----------------------------------------------------------------------------
(* gate_edit.py and hooks/pre_edit_gate.py                                 *)

\* The library's operator, as EditGate knows it.
LEMMA GateCounts == ASSUME NEW S PROVE Gate!Cardinality(S) = Cardinality(S)
BY Zenon DEF Gate!Cardinality, Cardinality

\* The gate of one file.
Flagged(file, validator) == file.kind = "py" /\ validator.works /\ file.readable /\ file.antipattern
Ungrounded(file, evidence) ==
    {m \in file.models : file.readable /\ ~m.technical /\ ~Gate!evidence_for_model(m, evidence)}

CommandsFor(file, evidence, validator) ==
    {<<"odoo-ai all", m>> : m \in Ungrounded(file, evidence)}
        \union (IF Flagged(file, validator) THEN {<<"odoo-ai validate", "changed files">>} ELSE {})
Blocks(file, evidence, validator) == Ungrounded(file, evidence) # {} \/ Flagged(file, validator)

LEMMA OneFile ==
    ASSUME NEW file, NEW evidence, NEW validator, file.kind \in {"py", "xml"}
    PROVE  /\ Gate!gate_edit({file}, evidence, validator).decision = "block" <=> Blocks(file, evidence, validator)
           /\ Gate!gate_edit({file}, evidence, validator).required_commands = CommandsFor(file, evidence, validator)
<1> DEFINE flagged == Flagged(file, validator)
           missing == Ungrounded(file, evidence)
           py == {f \in {file} : f.kind = "py"}
           bad == {f \in py : f.readable /\ f.antipattern}
           ran == IF py # {} THEN Gate!_run_validator(validator, py) ELSE [has |-> FALSE, blocking |-> 0]
           touched == UNION {Gate!extract_models(f) : f \in {g \in {file} : g.readable}}
           business == {m \in touched : ~m.technical}
<1>1. ran.has /\ ran.blocking > 0 <=> flagged
  <2>1. bad = IF file.kind = "py" /\ file.readable /\ file.antipattern THEN {file} ELSE {}
    OBVIOUS
  <2>2. Cardinality({file}) = 1 /\ Cardinality({}) = 0
    BY FS_Singleton, FS_EmptySet
  <2>3. Cardinality(bad) > 0 <=> file.kind = "py" /\ file.readable /\ file.antipattern
    BY <2>1, <2>2
  <2>4. ran = IF py # {} /\ validator.works THEN [has |-> TRUE, blocking |-> Cardinality(bad)]
              ELSE [has |-> FALSE, blocking |-> 0]
    BY GateCounts DEF Gate!_run_validator
  <2>5. py # {} <=> file.kind = "py"
    OBVIOUS
  <2> HIDE DEF bad, py, ran
  <2> QED
    BY <2>3, <2>4, <2>5 DEF Flagged
<1>2. missing = {m \in business : ~Gate!evidence_for_model(m, evidence)}
  <2>1. CASE file.readable
    <3>1. touched = Gate!extract_models(file)
      BY <2>1
    <3>2. business = {m \in file.models : ~m.technical}
      BY <3>1 DEF Gate!extract_models
    <3> QED
      BY <2>1, <3>2 DEF Ungrounded
  <2>2. CASE ~file.readable
    BY <2>2 DEF Ungrounded
  <2> QED
    BY <2>1, <2>2
<1>3. Gate!gate_edit({file}, evidence, validator) = Gate!decide(touched, evidence, ran.blocking, ran.has)
  BY DEF Gate!gate_edit
<1> HIDE DEF ran, touched, missing, flagged
<1> DEFINE d == Gate!decide(touched, evidence, ran.blocking, ran.has)
<1>4. d.decision = "block" <=> missing # {} \/ flagged
  BY <1>1, <1>2 DEF Gate!decide
<1>5. d.required_commands = {<<"odoo-ai all", m>> : m \in missing} \union
                    (IF flagged THEN {<<"odoo-ai validate", "changed files">>} ELSE {})
  BY <1>1, <1>2, Zenon DEF Gate!decide
<1> QED
  BY <1>3, <1>4, <1>5 DEF missing, flagged, CommandsFor, Blocks

LEMMA EditsGrounded ==
    ASSUME Given, Answered("pre_edit_gate") PROVE EditsAreGrounded
<1> DEFINE file == asked.call.file
           stems == {e[1] : e \in {d \in asked.evidence : d[2] # "trace"}}
           waved == \/ asked.settings.disable \/ ~Gate!Gated(asked.call)
                    \/ asked.settings.gate # "works" /\ ~asked.settings.strict
           g == Gate!gate_edit({file}, asked.evidence, asked.validator)
<1>1. asked \in Questions["pre_edit_gate"] /\ answer = edit_answer(asked)
  BY DEF Given, Answered
<1> SUFFICES ASSUME answer.exit = Gate!Allow, ~waved
             PROVE  /\ asked.settings.gate = "works"
                    /\ file.readable => \A m \in file.models : m.technical \/ m.stem \in stems
                    /\ file.readable /\ file.kind = "py" /\ file.antipattern => ~asked.validator.works
  BY DEF EditsAreGrounded
<1>2. Gate!pre_edit_gate(asked.call, asked.settings, asked.evidence, asked.validator) = Gate!Allow
  BY <1>1 DEF edit_answer
<1>3. asked.settings.gate \in {"works", "fails", "mumbles"}
  BY <1>1, EditAssumption
<1>4. asked.settings.gate = "works" /\ g.decision # "block"
  BY <1>2, <1>3 DEF Gate!pre_edit_gate, Gate!Allow, Gate!Block, Gate!_gate_error
<1>5. file.kind \in {"py", "xml"}
  BY DEF Gate!Gated
<1> HIDE DEF file, g
<1>6. Ungrounded(file, asked.evidence) = {} /\ ~Flagged(file, asked.validator)
  BY <1>4, <1>5, OneFile DEF g, Blocks
<1>7. ASSUME file.readable, NEW m \in file.models, ~m.technical PROVE m.stem \in stems
  <2>1. Gate!evidence_for_model(m, asked.evidence)
    BY <1>6, <1>7 DEF Ungrounded
  <2>2. PICK s \in Gate!EvidenceSteps : <<m.stem, s>> \in asked.evidence
    BY <2>1 DEF Gate!evidence_for_model
  <2>3. s # "trace"
    BY DEF Gate!EvidenceSteps
  <2>4. <<m.stem, s>> \in {d \in asked.evidence : d[2] # "trace"}
    BY <2>2, <2>3
  <2> QED
    BY <2>4
<1> QED
  BY <1>4, <1>6, <1>7 DEF Flagged

\* What running odoo-ai all of these models adds where the gate reads.
LEMMA WrittenIs ==
    ASSUME NEW asks, NEW settings, NEW evidence, NEW model, ~Gate!evidence_for_model(model, evidence)
    PROVE  Gate!evidence_for_model(model, evidence \union UNION {Gate!odoo_ai_all(m, settings) : m \in asks})
             <=> settings.out = "default" /\ \E n \in asks : n.registered /\ n.stem = model.stem
<1> DEFINE Brings(n) == settings.out = "default" /\ n.registered
           written == UNION {Gate!odoo_ai_all(m, settings) : m \in asks}
<1>1. \A n, stem, step : <<stem, step>> \in Gate!odoo_ai_all(n, settings)
                            <=> Brings(n) /\ stem = n.stem /\ step \in {"brief", "entrypoints", "metadata"}
  BY DEF Gate!odoo_ai_all
<1>2. \A stem, step : <<stem, step>> \in written
                         <=> \E n \in asks : <<stem, step>> \in Gate!odoo_ai_all(n, settings)
  OBVIOUS
<1> HIDE DEF written
<1>3. Gate!evidence_for_model(model, evidence \union written)
        <=> \E step \in Gate!EvidenceSteps : <<model.stem, step>> \in written
  BY DEF Gate!evidence_for_model
<1>4. "brief" \in Gate!EvidenceSteps
  BY DEF Gate!EvidenceSteps
<1>5. (\E step \in Gate!EvidenceSteps : <<model.stem, step>> \in written)
        <=> \E n \in asks : Brings(n) /\ n.stem = model.stem
  <2> HIDE DEF Brings
  <2>1. ASSUME NEW step, <<model.stem, step>> \in written PROVE \E n \in asks : Brings(n) /\ n.stem = model.stem
    <3>1. PICK n \in asks : <<model.stem, step>> \in Gate!odoo_ai_all(n, settings)
      BY <1>2, <2>1
    <3> QED
      BY <1>1, <3>1
  <2>2. ASSUME NEW n \in asks, Brings(n), n.stem = model.stem PROVE <<model.stem, "brief">> \in written
    <3>1. <<model.stem, "brief">> \in Gate!odoo_ai_all(n, settings)
      BY <1>1, <2>2
    <3> QED
      BY <1>2, <3>1
  <2> QED
    BY <1>4, <2>1, <2>2
<1> QED
  BY <1>3, <1>5 DEF written

LEMMA BlockedCanGoOn ==
    ASSUME Given, Answered("pre_edit_gate") PROVE BlockedEditsCanGoOn
<1> DEFINE call == asked.call
           settings == asked.settings
           commands == answer.gate.required_commands
           asks == {c[2] : c \in {d \in commands : d[1] = "odoo-ai all"}}
           known == {m.stem : m \in {n \in asks : n.registered}}
           written == UNION {Gate!odoo_ai_all(c[2], settings) : c \in {d \in commands : d[1] = "odoo-ai all"}}
           adds == UNION {Gate!odoo_ai_all(m, settings) : m \in asks}
           validates == \E c \in commands : c[1] = "odoo-ai validate"
           fixed == IF validates THEN [call EXCEPT !.file.antipattern = FALSE] ELSE call
           after == Gate!gate_edit({fixed.file}, asked.evidence \union adds, asked.validator)
           lands == asks = {} \/ (settings.out = "default" /\ {m.stem : m \in asks} \subseteq known)
           lifts == Gate!pre_edit_gate(fixed, settings, asked.evidence \union adds, asked.validator) = Gate!Allow
<1>1. asked \in Questions["pre_edit_gate"] /\ answer = edit_answer(asked)
  BY DEF Given, Answered
<1>2. written = adds
  OBVIOUS
<1>3. AfterCommands(asked, commands)
        = Gate!pre_edit_gate(fixed, settings, asked.evidence \union written, asked.validator)
  BY Zenon DEF AfterCommands
<1> HIDE DEF written
<1>4. SUFFICES ASSUME settings.gate = "works", answer.exit = Gate!Block
               PROVE  lifts <=> lands
  <2> HIDE DEF adds, fixed, commands
  <2>1. AfterCommands(asked, commands) = Gate!Allow <=> lifts
    BY <1>2, <1>3
  <2> QED
    BY <2>1, Zenon DEF BlockedEditsCanGoOn, commands
<1>5. /\ IsRecord(call, {"parses", "path", "in_module", "file"})
      /\ IsRecord(call.file, {"kind", "readable", "antipattern", "models"})
  BY <1>1, EditAssumption
<1> HIDE DEF validates
<1>6. /\ fixed.parses = call.parses /\ fixed.path = call.path /\ fixed.in_module = call.in_module
      /\ fixed.file.kind = call.file.kind /\ fixed.file.readable = call.file.readable
      /\ fixed.file.models = call.file.models
      /\ fixed.file.antipattern = IF validates THEN FALSE ELSE call.file.antipattern
  BY <1>5 DEF IsRecord
<1> HIDE DEF fixed
<1>7. ~settings.disable /\ Gate!Gated(call)
  <2>1. answer.exit = Gate!pre_edit_gate(call, settings, asked.evidence, asked.validator)
    BY <1>1 DEF edit_answer
  <2> QED
    BY <1>4, <2>1 DEF Gate!pre_edit_gate, Gate!Block, Gate!Allow
<1>8. Gate!Gated(fixed)
  BY <1>6, <1>7 DEF Gate!Gated
<1>9. call.file.kind \in {"py", "xml"} /\ fixed.file.kind \in {"py", "xml"}
  BY <1>6, <1>7 DEF Gate!Gated
<1> DEFINE missing == Ungrounded(call.file, asked.evidence)
           flagged == Flagged(call.file, asked.validator)
           still == Ungrounded(fixed.file, asked.evidence \union adds)
           flagged_still == Flagged(fixed.file, asked.validator)
<1>10. commands = CommandsFor(call.file, asked.evidence, asked.validator)
  <2>1. commands = Gate!gate_edit({call.file}, asked.evidence, asked.validator).required_commands
    BY <1>1 DEF edit_answer
  <2> QED
    BY <1>9, <2>1, OneFile
<1>11. asks = missing
  <2> DEFINE Ask(m) == <<"odoo-ai all", m>>
             check == <<"odoo-ai validate", "changed files">>
             all == {Ask(m) : m \in missing}
             rest == IF flagged THEN {check} ELSE {}
  <2>1. commands = all \union rest
    BY <1>10, Zenon DEF CommandsFor
  <2>2. (\A m : Ask(m)[1] = "odoo-ai all" /\ Ask(m)[2] = m) /\ check[1] # "odoo-ai all"
    OBVIOUS
  <2> HIDE DEF commands, missing, Ask, check, flagged
  <2>3. {d \in commands : d[1] = "odoo-ai all"} = all
    BY <2>1, <2>2
  <2>4. {c[2] : c \in all} = missing
    <3>1. \A c : c \in all <=> \E m \in missing : c = Ask(m)
      OBVIOUS
    <3> HIDE DEF all
    <3>2. \A m \in missing : Ask(m) \in all /\ Ask(m)[2] = m
      BY <2>2, <3>1
    <3>3. ASSUME NEW c \in all PROVE c[2] \in missing
      <4>1. PICK m \in missing : c = Ask(m)
        BY <3>1
      <4>2. c[2] = m
        BY <2>2, <4>1
      <4> QED
        BY <4>2
    <3> QED
      BY <3>2, <3>3
  <2> HIDE DEF all
  <2> QED
    BY <2>3, <2>4
<1>12. ~flagged_still
  <2>1. flagged => validates
    <3>1. SUFFICES ASSUME flagged PROVE validates
      OBVIOUS
    <3>2. <<"odoo-ai validate", "changed files">> \in commands
      BY <1>10, <3>1 DEF CommandsFor
    <3> QED
      BY <3>2 DEF validates
  <2> QED
    BY <1>6, <2>1 DEF Flagged
<1>13. still = {m \in missing : ~(settings.out = "default" /\ m.stem \in known)}
  <2> DEFINE evidence == asked.evidence
             more == asked.evidence \union adds
  <2>1. \A m : m \in missing <=> m \in call.file.models /\ call.file.readable /\ ~m.technical
                                  /\ ~Gate!evidence_for_model(m, evidence)
    BY DEF Ungrounded
  <2>2. \A m : m \in still <=> m \in call.file.models /\ call.file.readable /\ ~m.technical
                                /\ ~Gate!evidence_for_model(m, more)
    BY <1>6 DEF Ungrounded
  <2>3. \A m : Gate!evidence_for_model(m, evidence) => Gate!evidence_for_model(m, more)
    BY DEF Gate!evidence_for_model
  <2>4. \A m : ~Gate!evidence_for_model(m, evidence) =>
                  (Gate!evidence_for_model(m, more)
                     <=> settings.out = "default" /\ \E n \in asks : n.registered /\ n.stem = m.stem)
    <3> SUFFICES ASSUME NEW m, ~Gate!evidence_for_model(m, evidence)
                 PROVE  Gate!evidence_for_model(m, more)
                          <=> settings.out = "default" /\ \E n \in asks : n.registered /\ n.stem = m.stem
      OBVIOUS
    <3> HIDE DEF asks, settings
    <3> QED
      BY WrittenIs
  <2>5. \A m : m.stem \in known <=> \E n \in asks : n.registered /\ n.stem = m.stem
    OBVIOUS
  <2> HIDE DEF missing, still, known, more, evidence, asks
  <2> QED
    BY <2>1, <2>2, <2>3, <2>4, <2>5
<1>14. still = {} <=> lands
  <2>1. {m.stem : m \in asks} \subseteq known <=> \A m \in asks : m.stem \in known
    OBVIOUS
  <2> HIDE DEF still, missing, known, asks
  <2> QED
    BY <1>11, <1>13, <2>1
<1> HIDE DEF still, flagged_still, lands, adds
<1>15. after.decision = "block" <=> still # {} \/ flagged_still
  <2>1. \A e : Gate!gate_edit({fixed.file}, e, asked.validator).decision = "block"
                 <=> Blocks(fixed.file, e, asked.validator)
    BY <1>9, OneFile
  <2> QED
    BY <2>1, Zenon DEF still, flagged_still, Blocks
<1>16. lifts <=> after.decision # "block"
  BY <1>4, <1>7, <1>8 DEF Gate!pre_edit_gate, Gate!Block, Gate!Allow
<1> QED
  BY <1>12, <1>14, <1>15, <1>16

\* An edit that the hook lets through is of models there is evidence of, and
\* doing what a block says lifts it exactly if odoo-ai all writes where the gate
\* reads and the stem of each model that is asked for is one of a model that
\* the registry has.
THEOREM GatesAreGrounded == Spec => []GateIsGrounded
<1>1. Given => GateIsGrounded
  BY EditsGrounded, BlockedCanGoOn DEF GateIsGrounded, EditsAreGrounded, BlockedEditsCanGoOn
<1> QED
  BY <1>1, AlwaysGiven, PTL

-----------------------------------------------------------------------------
(* env_diff.py                                                             *)

\* How two files differ, said without the lists of what is on one side only.
Listed(file, key) == Drift!Part(file, key, {})
ModulesOf(file) == Drift!Part(file, "modules", <<>>)
CountsOf(file) == Drift!Part(file, "counts", <<>>)
CountOf(file, k) == Drift!Part(CountsOf(file), k, Drift!Unknown)

High(base, target) ==
    \/ Drift!Part(base, "edition", "") # Drift!Part(target, "edition", "")
    \/ DOMAIN ModulesOf(base) # DOMAIN ModulesOf(target)
    \/ Listed(base, "studio_fields") # Listed(target, "studio_fields")

CountsMove(base, target) ==
    \E k \in DOMAIN CountsOf(base) \union DOMAIN CountsOf(target) :
        \/ CountOf(base, k) = Drift!Unknown \/ CountOf(target, k) = Drift!Unknown
        \/ CountOf(base, k) # CountOf(target, k)

Low(base, target) ==
    \/ \E m \in DOMAIN ModulesOf(base) \intersect DOMAIN ModulesOf(target) :
          ModulesOf(base)[m] # ModulesOf(target)[m]
    \/ CountsMove(base, target)
    \/ Listed(base, "config_params") # Listed(target, "config_params")

Counted(file) == \A k \in DOMAIN CountsOf(file) : CountsOf(file)[k] \in Int

LEMMA SidesDiffer == ASSUME NEW S, NEW T PROVE Drift!Differ(Drift!Sides(S, T)) <=> S # T
<1>1. Drift!Differ(Drift!Sides(S, T)) <=> S \ T # {} \/ T \ S # {}
  BY DEF Drift!Differ, Drift!Sides
<1>2. S \ T # {} \/ T \ S # {} <=> S # T
  OBVIOUS
<1> QED
  BY <1>1, <1>2

LEMMA DeltaMoves ==
    ASSUME NEW n \in Int, NEW k \in Int
    PROVE  Drift!Delta(n, k).delta # 0 \/ ~Drift!Delta(n, k).comparable
             <=> n = Drift!Unknown \/ k = Drift!Unknown \/ n # k
BY DEF Drift!Delta, Drift!Unknown

LEMMA CountIsInt == ASSUME NEW file, Counted(file), NEW k PROVE CountOf(file, k) \in Int
BY DEF Counted, CountOf, Drift!Part, Drift!Unknown

LEMMA SeverityIs ==
    ASSUME NEW base, NEW target, Counted(base), Counted(target)
    PROVE  Drift!summarize_drift(Drift!diff_fingerprints(base, target)).severity
             = IF High(base, target) THEN "high" ELSE IF Low(base, target) THEN "low" ELSE "none"
<1> DEFINE diff == Drift!diff_fingerprints(base, target)
<1>1. /\ diff.edition_changed <=> Drift!Part(base, "edition", "") # Drift!Part(target, "edition", "")
      /\ diff.modules = Drift!Sides(DOMAIN ModulesOf(base), DOMAIN ModulesOf(target))
      /\ diff.studio_fields = Drift!Sides(Listed(base, "studio_fields"), Listed(target, "studio_fields"))
      /\ diff.config_params = Drift!Sides(Listed(base, "config_params"), Listed(target, "config_params"))
  BY DEF Drift!diff_fingerprints, ModulesOf, Listed
<1>2. diff.version_changed # {} <=>
        \E m \in DOMAIN ModulesOf(base) \intersect DOMAIN ModulesOf(target) :
          ModulesOf(base)[m] # ModulesOf(target)[m]
  <2>1. diff.version_changed = {m \in DOMAIN ModulesOf(base) \intersect DOMAIN ModulesOf(target) :
                                  ModulesOf(base)[m] # ModulesOf(target)[m]}
    BY DEF Drift!diff_fingerprints, ModulesOf
  <2> QED
    BY <2>1
<1>3. (\E k \in DOMAIN diff.counts : diff.counts[k].delta # 0 \/ ~diff.counts[k].comparable)
        <=> CountsMove(base, target)
  <2>1. diff.counts = [k \in DOMAIN CountsOf(base) \union DOMAIN CountsOf(target) |->
                         Drift!Delta(CountOf(base, k), CountOf(target, k))]
    BY Zenon DEF Drift!diff_fingerprints, CountsOf, CountOf
  <2> HIDE DEF diff
  <2>2. \A k : CountOf(base, k) \in Int /\ CountOf(target, k) \in Int
    BY CountIsInt
  <2>3. \A k : LET d == Drift!Delta(CountOf(base, k), CountOf(target, k))
               IN  d.delta # 0 \/ ~d.comparable
                     <=> \/ CountOf(base, k) = Drift!Unknown \/ CountOf(target, k) = Drift!Unknown
                         \/ CountOf(base, k) # CountOf(target, k)
    BY <2>2, DeltaMoves
  <2> QED
    BY <2>1, <2>3 DEF CountsMove
<1> HIDE DEF diff
<1>4. /\ Drift!Differ(diff.modules) <=> DOMAIN ModulesOf(base) # DOMAIN ModulesOf(target)
      /\ Drift!Differ(diff.studio_fields) <=> Listed(base, "studio_fields") # Listed(target, "studio_fields")
      /\ Drift!Differ(diff.config_params) <=> Listed(base, "config_params") # Listed(target, "config_params")
  BY <1>1, SidesDiffer
<1>5. diff.edition_changed \/ Drift!Differ(diff.modules) \/ Drift!Differ(diff.studio_fields) <=> High(base, target)
  BY <1>1, <1>4 DEF High
<1>6. \/ diff.version_changed # {}
      \/ \E k \in DOMAIN diff.counts : diff.counts[k].delta # 0 \/ ~diff.counts[k].comparable
      \/ Drift!Differ(diff.config_params)
      <=> Low(base, target)
  BY <1>2, <1>3, <1>4 DEF Low
<1> QED
  BY <1>5, <1>6, Zenon DEF Drift!summarize_drift, diff

LEMMA Symmetric ==
    ASSUME NEW base, NEW target
    PROVE  (High(base, target) <=> High(target, base)) /\ (Low(base, target) <=> Low(target, base))
BY DEF High, Low, CountsMove

\* What a fingerprint says of an instance of which no list failed.
LEMMA PrintOf ==
    ASSUME NEW i, i.counts \in [Drift!COUNTED -> Nat]
    PROVE  LET print == Drift!fingerprint(i)
           IN  /\ Counted(print)
               /\ i.fails \subseteq Drift!COUNTED =>
                    /\ Drift!Part(print, "edition", "")
                         = (IF "web_enterprise" \in DOMAIN i.modules THEN "enterprise" ELSE "community")
                    /\ ModulesOf(print) = i.modules
                    /\ Listed(print, "studio_fields") = i.studio_fields
                    /\ Listed(print, "config_params") = i.config_params
                    /\ DOMAIN CountsOf(print) = Drift!COUNTED
                    /\ \A k \in Drift!COUNTED :
                         CountOf(print, k) = IF k \in i.fails THEN Drift!Unknown ELSE i.counts[k]
<1> DEFINE print == Drift!fingerprint(i)
           counts == [k \in Drift!COUNTED |-> IF k \in i.fails THEN Drift!Unknown ELSE i.counts[k]]
<1>1. DOMAIN print = {"edition", "modules", "counts", "studio_fields", "config_params"} /\ print.counts = counts
  BY DEF Drift!fingerprint
<1>2. CountsOf(print) = counts
  BY <1>1 DEF CountsOf, Drift!Part
<1>3. \A k \in Drift!COUNTED : counts[k] \in Int
  BY DEF Drift!Unknown
<1>4. Counted(print)
  BY <1>2, <1>3 DEF Counted
<1>5. ASSUME i.fails \subseteq Drift!COUNTED
      PROVE  /\ print.edition = (IF "web_enterprise" \in DOMAIN i.modules THEN "enterprise" ELSE "community")
             /\ print.modules = i.modules
             /\ print.studio_fields = i.studio_fields
             /\ print.config_params = i.config_params
  <2>1. {"edition", "modules", "studio_fields", "config_params"} \intersect i.fails = {}
    BY <1>5 DEF Drift!COUNTED
  <2> QED
    BY <2>1 DEF Drift!fingerprint
<1>6. ASSUME NEW k \in Drift!COUNTED
      PROVE  CountOf(print, k) = IF k \in i.fails THEN Drift!Unknown ELSE i.counts[k]
  BY <1>2 DEF CountOf, Drift!Part
<1>7. DOMAIN CountsOf(print) = Drift!COUNTED
  BY <1>2
<1> HIDE DEF print, counts
<1> QED
  BY <1>1, <1>4, <1>5, <1>6, <1>7 DEF print, ModulesOf, Listed, Drift!Part

LEMMA SameAsEqual ==
    ASSUME NEW b, NEW t, b.counts \in [Drift!COUNTED -> Nat], t.counts \in [Drift!COUNTED -> Nat],
           b.fails \subseteq Drift!COUNTED, t.fails \subseteq Drift!COUNTED,
           IsRecord(b.modules, DOMAIN b.modules), IsRecord(t.modules, DOMAIN t.modules)
    PROVE  LET high == High(Drift!fingerprint(b), Drift!fingerprint(t))
               low == Low(Drift!fingerprint(b), Drift!fingerprint(t))
           IN  /\ high <=> DOMAIN b.modules # DOMAIN t.modules \/ b.studio_fields # t.studio_fields
               /\ ~high /\ ~low <=> /\ b.fails = {} /\ t.fails = {}
                                      /\ b.modules = t.modules /\ b.counts = t.counts
                                      /\ b.studio_fields = t.studio_fields /\ b.config_params = t.config_params
<1> DEFINE p == Drift!fingerprint(b)
           q == Drift!fingerprint(t)
<1>1. /\ Drift!Part(p, "edition", "") = (IF "web_enterprise" \in DOMAIN b.modules THEN "enterprise" ELSE "community")
      /\ ModulesOf(p) = b.modules
      /\ Listed(p, "studio_fields") = b.studio_fields
      /\ Listed(p, "config_params") = b.config_params
      /\ DOMAIN CountsOf(p) = Drift!COUNTED
      /\ \A k \in Drift!COUNTED : CountOf(p, k) = IF k \in b.fails THEN Drift!Unknown ELSE b.counts[k]
  BY PrintOf
<1>2. /\ Drift!Part(q, "edition", "") = (IF "web_enterprise" \in DOMAIN t.modules THEN "enterprise" ELSE "community")
      /\ ModulesOf(q) = t.modules
      /\ Listed(q, "studio_fields") = t.studio_fields
      /\ Listed(q, "config_params") = t.config_params
      /\ DOMAIN CountsOf(q) = Drift!COUNTED
      /\ \A k \in Drift!COUNTED : CountOf(q, k) = IF k \in t.fails THEN Drift!Unknown ELSE t.counts[k]
  BY PrintOf
<1> HIDE DEF p, q
<1>3. High(p, q) <=> DOMAIN b.modules # DOMAIN t.modules \/ b.studio_fields # t.studio_fields
  <2>1. DOMAIN b.modules = DOMAIN t.modules => Drift!Part(p, "edition", "") = Drift!Part(q, "edition", "")
    <3> SUFFICES ASSUME DOMAIN b.modules = DOMAIN t.modules
                 PROVE  Drift!Part(p, "edition", "") = Drift!Part(q, "edition", "")
      OBVIOUS
    <3>1. "web_enterprise" \in DOMAIN b.modules <=> "web_enterprise" \in DOMAIN t.modules
      OBVIOUS
    <3>2. Drift!Part(p, "edition", "")
            = (IF "web_enterprise" \in DOMAIN b.modules THEN "enterprise" ELSE "community")
      BY <1>1, Zenon
    <3>3. Drift!Part(q, "edition", "")
            = (IF "web_enterprise" \in DOMAIN t.modules THEN "enterprise" ELSE "community")
      BY <1>2, Zenon
    <3>4. CASE "web_enterprise" \in DOMAIN b.modules
      BY <3>1, <3>2, <3>3, <3>4, Zenon
    <3>5. CASE "web_enterprise" \notin DOMAIN b.modules
      BY <3>1, <3>2, <3>3, <3>5, Zenon
    <3> QED
      BY <3>4, <3>5
  <2>2. High(p, q) <=> \/ Drift!Part(p, "edition", "") # Drift!Part(q, "edition", "")
                       \/ DOMAIN b.modules # DOMAIN t.modules \/ b.studio_fields # t.studio_fields
    BY <1>1, <1>2, Zenon DEF High
  <2> QED
    BY <2>1, <2>2
<1>4. ~CountsMove(p, q) <=> b.fails = {} /\ t.fails = {} /\ b.counts = t.counts
  <2>1. \A k \in Drift!COUNTED : b.counts[k] # Drift!Unknown /\ t.counts[k] # Drift!Unknown
    BY DEF Drift!Unknown
  <2>2. CountsMove(p, q) <=> \E k \in Drift!COUNTED : k \in b.fails \/ k \in t.fails \/ b.counts[k] # t.counts[k]
    BY <1>1, <1>2, <2>1 DEF CountsMove
  <2> QED
    BY <2>2
<1>5. ASSUME DOMAIN b.modules = DOMAIN t.modules
      PROVE  b.modules = t.modules <=>
               ~\E m \in DOMAIN b.modules \intersect DOMAIN t.modules : b.modules[m] # t.modules[m]
  BY <1>5 DEF IsRecord
<1>6. ~High(p, q) /\ ~Low(p, q) <=>
        /\ b.fails = {} /\ t.fails = {} /\ b.modules = t.modules /\ b.counts = t.counts
        /\ b.studio_fields = t.studio_fields /\ b.config_params = t.config_params
  BY <1>1, <1>2, <1>3, <1>4, <1>5 DEF Low
<1> QED
  BY <1>3, <1>6 DEF p, q

LEMMA DriftAnswered ==
    ASSUME Given, Answered("env_diff") PROVE NoneMeansSame
<1> DEFINE b == asked.base.instance
           t == asked.target.instance
           there == answer.there
           back == answer.back
           base == File(asked.base)
           target == File(asked.target)
           both == base.read /\ target.read
<1>1. asked \in Questions["env_diff"] /\ answer = drift_answer(asked)
  BY DEF Given, Answered
<1>2. ASSUME NEW f \in {asked.base, asked.target}
      PROVE  /\ IsRecord(f.instance, {"modules", "counts", "studio_fields", "config_params", "fails"})
             /\ IsRecord(f.instance.modules, DOMAIN f.instance.modules)
             /\ f.instance.counts \in [Drift!COUNTED -> Nat]
             /\ File(f).read => Counted(File(f).file)
  <2>1. /\ IsRecord(f.instance, {"modules", "counts", "studio_fields", "config_params", "fails"})
        /\ IsRecord(f.instance.modules, DOMAIN f.instance.modules)
        /\ f.instance.counts \in [Drift!COUNTED -> Nat]
        /\ f.from # "instance" /\ f.saved.read /\ "counts" \in DOMAIN f.saved.file =>
             \A k \in DOMAIN f.saved.file.counts : f.saved.file.counts[k] \in Int
    BY <1>1, DriftAssumption
  <2>2. CASE f.from = "instance"
    <3>1. File(f).file = Drift!fingerprint(f.instance)
      BY <2>2 DEF File
    <3>2. Counted(Drift!fingerprint(f.instance))
      BY <2>1, PrintOf
    <3> QED
      BY <2>1, <3>1, <3>2
  <2>3. CASE f.from # "instance" /\ f.saved.read
    <3>1. File(f) = f.saved
      BY <2>3 DEF File
    <3>2. Counted(f.saved.file)
      BY <2>1, <2>3 DEF Counted, CountsOf, Drift!Part
    <3> QED
      BY <2>1, <3>1, <3>2
  <2>4. CASE f.from # "instance" /\ ~f.saved.read
    BY <2>1, <2>4 DEF File
  <2> QED
    BY <2>2, <2>3, <2>4
<1> HIDE DEF base, target
<1>3. there = Drift!env_diff(base, target) /\ back = Drift!env_diff(target, base)
  BY <1>1 DEF drift_answer, base, target
<1> HIDE DEF there, back
<1>4. ("severity" \in DOMAIN there <=> both) /\ ("severity" \in DOMAIN back <=> both)
  BY <1>3 DEF Drift!env_diff
<1>5. ASSUME both
      PROVE  /\ there.severity = (IF High(base.file, target.file) THEN "high"
                                  ELSE IF Low(base.file, target.file) THEN "low" ELSE "none")
             /\ there.severity = back.severity
  <2>1. /\ there.severity = Drift!summarize_drift(Drift!diff_fingerprints(base.file, target.file)).severity
        /\ back.severity = Drift!summarize_drift(Drift!diff_fingerprints(target.file, base.file)).severity
    BY <1>3, <1>5 DEF Drift!env_diff
  <2>2. Counted(base.file) /\ Counted(target.file)
    BY <1>2, <1>5 DEF base, target
  <2>3. /\ there.severity = (IF High(base.file, target.file) THEN "high"
                             ELSE IF Low(base.file, target.file) THEN "low" ELSE "none")
        /\ back.severity = (IF High(target.file, base.file) THEN "high"
                            ELSE IF Low(target.file, base.file) THEN "low" ELSE "none")
    BY <2>1, <2>2, SeverityIs
  <2> QED
    BY <2>3, Symmetric
<1>6. ASSUME asked.base.from = "instance", asked.target.from = "instance",
             (b.fails \union t.fails) \subseteq Drift!COUNTED
      PROVE  /\ there.severity = "none" <=>
                  b.fails = {} /\ t.fails = {} /\ [b EXCEPT !.fails = {}] = [t EXCEPT !.fails = {}]
             /\ there.severity = "high" <=>
                  \/ DOMAIN b.modules # DOMAIN t.modules
                  \/ b.studio_fields # t.studio_fields
  <2>1. both /\ base.file = Drift!fingerprint(b) /\ target.file = Drift!fingerprint(t)
    BY <1>6 DEF base, target, File
  <2> DEFINE high == High(Drift!fingerprint(b), Drift!fingerprint(t))
             low == Low(Drift!fingerprint(b), Drift!fingerprint(t))
  <2>2. there.severity = (IF high THEN "high" ELSE IF low THEN "low" ELSE "none")
    BY <1>5, <2>1
  <2>3. /\ IsRecord(b, {"modules", "counts", "studio_fields", "config_params", "fails"})
        /\ IsRecord(t, {"modules", "counts", "studio_fields", "config_params", "fails"})
        /\ IsRecord(b.modules, DOMAIN b.modules) /\ IsRecord(t.modules, DOMAIN t.modules)
        /\ b.counts \in [Drift!COUNTED -> Nat] /\ t.counts \in [Drift!COUNTED -> Nat]
    BY <1>2
  <2>4. /\ high <=> DOMAIN b.modules # DOMAIN t.modules \/ b.studio_fields # t.studio_fields
        /\ ~high /\ ~low <=> /\ b.fails = {} /\ t.fails = {}
                             /\ b.modules = t.modules /\ b.counts = t.counts
                             /\ b.studio_fields = t.studio_fields /\ b.config_params = t.config_params
    BY <1>6, <2>3, SameAsEqual
  <2> HIDE DEF high, low
  <2>5. [b EXCEPT !.fails = {}] = [t EXCEPT !.fails = {}]
          <=> /\ b.modules = t.modules /\ b.counts = t.counts
              /\ b.studio_fields = t.studio_fields /\ b.config_params = t.config_params
    <3> HIDE DEF b, t
    <3> QED
      BY <2>3 DEF IsRecord
  <2>6. (there.severity = "none" <=> ~high /\ ~low) /\ (there.severity = "high" <=> high)
    BY <2>2
  <2> QED
    BY <2>4, <2>5, <2>6
<1> QED
  BY <1>4, <1>5, <1>6 DEF NoneMeansSame, there, back

\* Whichever instance comes first the severity is the same, and between two
\* instances whose lists could be read, none says that they are the same.
THEOREM DriftIsTold == Spec => []NoneMeansSame
<1>1. Given => NoneMeansSame
  BY DriftAnswered DEF NoneMeansSame
<1> QED
  BY <1>1, AlwaysGiven, PTL

-----------------------------------------------------------------------------
(* scenario_gen.py and scenario_satisfaction.py                            *)

Keys == {"non_admin", "at_install_vs_post_install", "multi_company", "batch", "upgrade_i_and_u",
         "locked_period", "record_rules"}

LEMMA JoinedKeys ==
    ASSUME NEW s \in Seq(Keys), NEW t \in Seq(Keys)
    PROVE  s \o t \in Seq(Keys) /\ Tests!ToSet(s \o t) = Tests!ToSet(s) \union Tests!ToSet(t)
<1>1. s \o t \in Seq(Keys)
  OBVIOUS
<1>2. ASSUME NEW k \in Tests!ToSet(s \o t) PROVE k \in Tests!ToSet(s) \union Tests!ToSet(t)
  <2>1. PICK i \in DOMAIN (s \o t) : k = (s \o t)[i]
    BY <1>2 DEF Tests!ToSet
  <2>2. i \in 1..(Len(s) + Len(t))
    BY <2>1
  <2>3. CASE i <= Len(s)
    BY <2>1, <2>2, <2>3 DEF Tests!ToSet
  <2>4. CASE i > Len(s)
    BY <2>1, <2>2, <2>4 DEF Tests!ToSet
  <2> QED
    BY <2>2, <2>3, <2>4
<1>3. ASSUME NEW k \in Tests!ToSet(s) PROVE k \in Tests!ToSet(s \o t)
  <2>1. PICK i \in 1..Len(s) : k = s[i]
    BY <1>3 DEF Tests!ToSet
  <2>2. i \in DOMAIN (s \o t) /\ (s \o t)[i] = k
    BY <2>1
  <2> QED
    BY <2>2 DEF Tests!ToSet
<1>4. ASSUME NEW k \in Tests!ToSet(t) PROVE k \in Tests!ToSet(s \o t)
  <2>1. PICK i \in 1..Len(t) : k = t[i]
    BY <1>4 DEF Tests!ToSet
  <2>2. Len(s) + i \in DOMAIN (s \o t) /\ (s \o t)[Len(s) + i] = k
    BY <2>1
  <2> QED
    BY <2>2 DEF Tests!ToSet
<1> QED
  BY <1>1, <1>2, <1>3, <1>4

LEMMA OneKey == ASSUME NEW k \in Keys PROVE <<k>> \in Seq(Keys) /\ Tests!ToSet(<<k>>) = {k}
BY DEF Tests!ToSet

LEMMA NoKey == <<>> \in Seq(Keys) /\ Tests!ToSet(<<>>) = {}
BY DEF Tests!ToSet

\* The keys that a change asks for, whatever their order.
LEMMA AskedFor ==
    ASSUME NEW model, NEW methods, NEW company, NEW transient
    PROVE  Tests!ToSet(Tests!required_scenarios(model, methods, company, transient))
             = {"non_admin", "at_install_vs_post_install"}
               \union (IF company THEN {"multi_company"} ELSE {})
               \union (IF methods \intersect Tests!BatchMethods # {} THEN {"batch"} ELSE {})
               \union (IF ~transient THEN {"upgrade_i_and_u"} ELSE {})
               \union (IF Tests!classify_model_risk(model) = "critical" /\ model[1] = "account"
                       THEN {"locked_period"} ELSE {})
               \union (IF company THEN {"record_rules"} ELSE {})
<1> DEFINE s0 == <<"non_admin", "at_install_vs_post_install">>
           s1 == IF company THEN <<"multi_company">> ELSE <<>>
           s2 == IF methods \intersect Tests!BatchMethods # {} THEN <<"batch">> ELSE <<>>
           s3 == IF ~transient THEN <<"upgrade_i_and_u">> ELSE <<>>
           s4 == IF Tests!classify_model_risk(model) = "critical" /\ model[1] = "account"
                 THEN <<"locked_period">> ELSE <<>>
           s5 == IF company THEN <<"record_rules">> ELSE <<>>
<1>1. s0 \in Seq(Keys) /\ Tests!ToSet(s0) = {"non_admin", "at_install_vs_post_install"}
  BY DEF Keys, Tests!ToSet
<1>2. s1 \in Seq(Keys) /\ Tests!ToSet(s1) = IF company THEN {"multi_company"} ELSE {}
  BY OneKey, NoKey DEF Keys
<1>3. s2 \in Seq(Keys) /\ Tests!ToSet(s2) = IF methods \intersect Tests!BatchMethods # {} THEN {"batch"} ELSE {}
  BY OneKey, NoKey DEF Keys
<1>4. s3 \in Seq(Keys) /\ Tests!ToSet(s3) = IF ~transient THEN {"upgrade_i_and_u"} ELSE {}
  BY OneKey, NoKey DEF Keys
<1>5. s4 \in Seq(Keys) /\ Tests!ToSet(s4) = IF Tests!classify_model_risk(model) = "critical" /\ model[1] = "account"
                                         THEN {"locked_period"} ELSE {}
  BY OneKey, NoKey DEF Keys
<1>6. s5 \in Seq(Keys) /\ Tests!ToSet(s5) = IF company THEN {"record_rules"} ELSE {}
  BY OneKey, NoKey DEF Keys
<1>7. Tests!required_scenarios(model, methods, company, transient) = s0 \o s1 \o s2 \o s3 \o s4 \o s5
  BY Zenon DEF Tests!required_scenarios
<1> HIDE DEF s0, s1, s2, s3, s4, s5
<1>8. Tests!ToSet(s0 \o s1 \o s2 \o s3 \o s4 \o s5)
        = Tests!ToSet(s0) \union Tests!ToSet(s1) \union Tests!ToSet(s2) \union Tests!ToSet(s3)
            \union Tests!ToSet(s4) \union Tests!ToSet(s5)
  <2>1. s0 \o s1 \in Seq(Keys) /\ Tests!ToSet(s0 \o s1) = Tests!ToSet(s0) \union Tests!ToSet(s1)
    BY <1>1, <1>2, JoinedKeys
  <2>2. s0 \o s1 \o s2 \in Seq(Keys) /\ Tests!ToSet(s0 \o s1 \o s2) = Tests!ToSet(s0 \o s1) \union Tests!ToSet(s2)
    BY <2>1, <1>3, JoinedKeys
  <2>3. s0 \o s1 \o s2 \o s3 \in Seq(Keys)
        /\ Tests!ToSet(s0 \o s1 \o s2 \o s3) = Tests!ToSet(s0 \o s1 \o s2) \union Tests!ToSet(s3)
    BY <2>2, <1>4, JoinedKeys
  <2>4. s0 \o s1 \o s2 \o s3 \o s4 \in Seq(Keys)
        /\ Tests!ToSet(s0 \o s1 \o s2 \o s3 \o s4) = Tests!ToSet(s0 \o s1 \o s2 \o s3) \union Tests!ToSet(s4)
    BY <2>3, <1>5, JoinedKeys
  <2>5. Tests!ToSet(s0 \o s1 \o s2 \o s3 \o s4 \o s5) = Tests!ToSet(s0 \o s1 \o s2 \o s3 \o s4) \union Tests!ToSet(s5)
    BY <2>4, <1>6, JoinedKeys
  <2> QED
    BY <2>1, <2>2, <2>3, <2>4, <2>5, Zenon
<1> QED
  BY <1>1, <1>2, <1>3, <1>4, <1>5, <1>6, <1>7, <1>8, Zenon

LEMMA MovesAreLocked ==
    ASSUME NEW model \in {<<"account", "move">>, <<"account", "move", "reversal">>}
    PROVE  Tests!classify_model_risk(model) = "critical" /\ model[1] = "account"
<1>1. model[1] = "account"
  OBVIOUS
<1>2. model \notin Tests!HIGH_EXACT
  <2>1. model[2] = "move" /\ (Len(model) = 2 \/ model[3] = "reversal")
    OBVIOUS
  <2>2. ASSUME NEW m \in Tests!HIGH_EXACT PROVE m # model
    BY <1>1, <2>1, <2>2 DEF Tests!HIGH_EXACT
  <2> QED
    BY <2>2
<1>3. <<"account", "move">> \in Tests!CRITICAL_PREFIXES
  BY DEF Tests!CRITICAL_PREFIXES
<1>4. Tests!IsPrefix(<<"account", "move">>, model)
  <2>1. Len(<<"account", "move">>) = 2 /\ Len(model) \in {2, 3}
    OBVIOUS
  <2>2. SubSeq(<<"account", "move">>, 1, 2) = SubSeq(model, 1, 2)
    <3> DEFINE s == SubSeq(<<"account", "move">>, 1, 2)
               t == SubSeq(model, 1, 2)
    <3>1. s \in Seq({"account", "move", "reversal"}) /\ t \in Seq({"account", "move", "reversal"})
      OBVIOUS
    <3>2. Len(s) = 2 /\ Len(t) = 2
      OBVIOUS
    <3>3. s[1] = t[1] /\ s[2] = t[2]
      OBVIOUS
    <3> HIDE DEF s, t
    <3>4. s = t
      BY <3>1, <3>2, <3>3
    <3> QED
      BY <3>4 DEF s, t
  <2> QED
    BY <2>1, <2>2 DEF Tests!IsPrefix
<1> QED
  BY <1>1, <1>2, <1>3, <1>4, Zenon DEF Tests!classify_model_risk

Readable(obs) ==
    /\ \A k \in {"max_recordset_len", "max_create_vals_len"} \intersect DOMAIN obs : obs[k] \in Int
    /\ \A k \in {"companies_seen", "allowed_company_sets"} \intersect DOMAIN obs : IsFiniteSet(obs[k])

LEMMA TestsCount == ASSUME NEW S PROVE Tests!Cardinality(S) = Cardinality(S)
BY Zenon DEF Tests!Cardinality, Cardinality

\* At least two of what an observation lists, if it lists any.
LEMMA TwoSeen ==
    ASSUME NEW obs, Readable(obs), NEW k \in {"companies_seen", "allowed_company_sets"},
           Tests!Cardinality(Tests!Get(obs, k, {})) >= 2
    PROVE  k \in DOMAIN obs /\ Cardinality(obs[k]) > 1
<1>1. k \in DOMAIN obs
  <2>1. Cardinality({}) = 0
    BY FS_EmptySet
  <2> QED
    BY <2>1, TestsCount DEF Tests!Get
<1>2. Cardinality(obs[k]) \in Nat
  BY <1>1, FS_CardinalityType DEF Readable
<1>3. Cardinality(obs[k]) >= 2
  BY <1>1, TestsCount DEF Tests!Get
<1> QED
  BY <1>1, <1>2, <1>3

\* What it takes to satisfy each of the keys.
LEMMA Satisfied ==
    ASSUME NEW obs, Readable(obs)
    PROVE  /\ Tests!satisfied_predicate("non_admin", obs) =>
                "uids_seen" \in DOMAIN obs /\ \E u \in obs.uids_seen : u \notin {"1", "true", "false", "null"}
           /\ Tests!satisfied_predicate("at_install_vs_post_install", obs) =>
                "phases_covered" \in DOMAIN obs /\ {"at_install", "post_install"} \subseteq obs.phases_covered
           /\ Tests!satisfied_predicate("upgrade_i_and_u", obs) =>
                "install_modes" \in DOMAIN obs /\ {"-i", "-u"} \subseteq obs.install_modes
           /\ Tests!satisfied_predicate("multi_company", obs) =>
                \/ "companies_seen" \in DOMAIN obs /\ Cardinality(obs.companies_seen) > 1
                \/ "allowed_company_sets" \in DOMAIN obs /\ Cardinality(obs.allowed_company_sets) > 1
           /\ Tests!satisfied_predicate("record_rules", obs) =>
                \/ "companies_seen" \in DOMAIN obs /\ Cardinality(obs.companies_seen) > 1
                \/ "access_errors_seen" \in DOMAIN obs /\ obs.access_errors_seen
           /\ Tests!satisfied_predicate("batch", obs) =>
                \E k \in {"max_recordset_len", "max_create_vals_len"} \intersect DOMAIN obs : obs[k] > 1
           /\ Tests!satisfied_predicate("locked_period", obs) =>
                "locked_period_usererror" \in DOMAIN obs /\ obs.locked_period_usererror
<1>1. ASSUME Tests!satisfied_predicate("non_admin", obs)
      PROVE  "uids_seen" \in DOMAIN obs /\ \E u \in obs.uids_seen : u \notin {"1", "true", "false", "null"}
  <2>1. Tests!non_admin_uids(obs) # {}
    BY <1>1 DEF Tests!satisfied_predicate
  <2> QED
    BY <2>1 DEF Tests!non_admin_uids, Tests!Get
<1>2. ASSUME Tests!satisfied_predicate("at_install_vs_post_install", obs)
      PROVE  "phases_covered" \in DOMAIN obs /\ {"at_install", "post_install"} \subseteq obs.phases_covered
  BY <1>2 DEF Tests!satisfied_predicate, Tests!Get
<1>3. ASSUME Tests!satisfied_predicate("upgrade_i_and_u", obs)
      PROVE  "install_modes" \in DOMAIN obs /\ {"-i", "-u"} \subseteq obs.install_modes
  BY <1>3 DEF Tests!satisfied_predicate, Tests!Get
<1>4. Tests!TwoCompanies(obs) => "companies_seen" \in DOMAIN obs /\ Cardinality(obs.companies_seen) > 1
  BY TwoSeen DEF Tests!TwoCompanies
<1>5. ASSUME Tests!satisfied_predicate("multi_company", obs)
      PROVE  \/ "companies_seen" \in DOMAIN obs /\ Cardinality(obs.companies_seen) > 1
             \/ "allowed_company_sets" \in DOMAIN obs /\ Cardinality(obs.allowed_company_sets) > 1
  <2>1. Tests!TwoCompanies(obs) \/ Tests!Cardinality(Tests!Get(obs, "allowed_company_sets", {})) >= 2
    BY <1>5 DEF Tests!satisfied_predicate
  <2> QED
    BY <1>4, <2>1, TwoSeen
<1>6. ASSUME Tests!satisfied_predicate("record_rules", obs)
      PROVE  \/ "companies_seen" \in DOMAIN obs /\ Cardinality(obs.companies_seen) > 1
             \/ "access_errors_seen" \in DOMAIN obs /\ obs.access_errors_seen
  <2>1. Tests!Get(obs, "access_errors_seen", FALSE) \/ Tests!TwoCompanies(obs)
    BY <1>6 DEF Tests!satisfied_predicate
  <2> QED
    BY <1>4, <2>1 DEF Tests!Get
<1>7. ASSUME Tests!satisfied_predicate("batch", obs)
      PROVE  \E k \in {"max_recordset_len", "max_create_vals_len"} \intersect DOMAIN obs : obs[k] > 1
  <2>1. Tests!Get(obs, "max_recordset_len", 0) >= 2 \/ Tests!Get(obs, "max_create_vals_len", 0) >= 2
    BY <1>7 DEF Tests!satisfied_predicate
  <2>2. PICK k \in {"max_recordset_len", "max_create_vals_len"} : Tests!Get(obs, k, 0) >= 2
    BY <2>1
  <2>3. k \in DOMAIN obs /\ obs[k] >= 2
    BY <2>2 DEF Tests!Get
  <2>4. obs[k] \in Int
    BY <2>3 DEF Readable
  <2> QED
    BY <2>3, <2>4
<1>8. ASSUME Tests!satisfied_predicate("locked_period", obs)
      PROVE  "locked_period_usererror" \in DOMAIN obs /\ obs.locked_period_usererror
  BY <1>8 DEF Tests!satisfied_predicate, Tests!Get
<1> QED
  BY <1>1, <1>2, <1>3, <1>5, <1>6, <1>7, <1>8

LEMMA ScenariosAnswered ==
    ASSUME Given, Answered("scenarios") PROVE OkMeansSeen
<1> DEFINE obs == asked.observations.doc
           change == asked.change
           Saw(key, what) == key \in DOMAIN obs /\ what \subseteq obs[key]
           methods == IF change.methods = {} THEN {"create", "write"} ELSE change.methods
           company == change.known => change.company
           transient == change.known /\ change.transient
           asked_for == Tests!required_scenarios(change.model, methods, company, transient)
           doc == IF asked.file = "generated"
                  THEN [read |-> TRUE, doc |-> [scenarios |-> Tests!scenario_gen(change).scenarios]]
                  ELSE asked.other
           required == IF doc.read THEN Tests!required_from_scenarios(doc.doc) ELSE {}
           seen == IF asked.observations.read THEN asked.observations.doc ELSE <<>>
<1>1. asked \in Questions["scenarios"] /\ answer = scenarios_answer(asked)
  BY DEF Given, Answered
<1> SUFFICES ASSUME answer.result.ok
             PROVE  /\ asked.observations.read
                    /\ asked.file = "generated" \/ asked.other.read
                    /\ asked.file = "generated" =>
                         /\ "uids_seen" \in DOMAIN obs /\ \E u \in obs.uids_seen : u \notin {"1", "true", "false", "null"}
                         /\ Saw("phases_covered", {"at_install", "post_install"})
                         /\ ~(change.known /\ change.transient) => Saw("install_modes", {"-i", "-u"})
                         /\ ~change.known \/ change.company =>
                              \/ "companies_seen" \in DOMAIN obs /\ Cardinality(obs.companies_seen) > 1
                              \/ "allowed_company_sets" \in DOMAIN obs /\ Cardinality(obs.allowed_company_sets) > 1
                                 /\ "access_errors_seen" \in DOMAIN obs /\ obs.access_errors_seen
                         /\ change.methods \intersect {"write", "action_post"} # {} \/ change.methods = {} =>
                              \E k \in {"max_recordset_len", "max_create_vals_len"} \intersect DOMAIN obs : obs[k] > 1
                         /\ change.model \in {<<"account", "move">>, <<"account", "move", "reversal">>} =>
                              "locked_period_usererror" \in DOMAIN obs /\ obs.locked_period_usererror
  BY DEF OkMeansSeen
<1>2. answer.result = Tests!scenario_satisfaction(doc, asked.observations)
  BY <1>1, Zenon DEF scenarios_answer
<1>3. doc.read /\ asked.observations.read /\ Tests!evaluate(required, seen).ok
  <2> DEFINE report == Tests!evaluate(required, seen)
  <2>1. answer.result = IF doc.read /\ asked.observations.read THEN report ELSE [report EXCEPT !.ok = FALSE]
    BY <1>2 DEF Tests!scenario_satisfaction
  <2>2. [report EXCEPT !.ok = FALSE].ok = FALSE
    <3>1. "ok" \in DOMAIN report
      BY DEF Tests!evaluate
    <3> HIDE DEF report
    <3> QED
      BY <3>1
  <2> HIDE DEF report, doc
  <2>3. CASE doc.read /\ asked.observations.read
    BY <2>1, <2>3 DEF report
  <2>4. CASE ~(doc.read /\ asked.observations.read)
    BY <2>1, <2>2, <2>4
  <2> QED
    BY <2>3, <2>4
<1>4. \A k \in required : Tests!satisfied_predicate(k, obs)
  <2>1. seen = obs
    BY <1>3
  <2> HIDE DEF required, seen, obs
  <2>2. required \ {k \in required : Tests!satisfied_predicate(k, seen)} = {}
    BY <1>3 DEF Tests!evaluate
  <2> QED
    BY <2>1, <2>2
<1>5. Readable(obs)
  BY <1>1, <1>3, ScenarioAssumption DEF Readable
<1>6. asked.file = "generated" \/ asked.other.read
  BY <1>3
<1>7. ASSUME asked.file = "generated"
      PROVE  required = Tests!ToSet(asked_for) \ {""}
  <2>1. doc = [read |-> TRUE, doc |-> [scenarios |-> asked_for]]
    BY <1>7 DEF Tests!scenario_gen
  <2> HIDE DEF doc, asked_for
  <2> QED
    BY <2>1 DEF Tests!required_from_scenarios, Tests!WellFormed
<1> HIDE DEF required, doc, seen, obs
<1>8. ASSUME asked.file = "generated"
      PROVE  /\ {"non_admin", "at_install_vs_post_install"} \subseteq required
             /\ ~transient => "upgrade_i_and_u" \in required
             /\ company => "multi_company" \in required /\ "record_rules" \in required
             /\ methods \intersect Tests!BatchMethods # {} => "batch" \in required
             /\ Tests!classify_model_risk(change.model) = "critical" /\ change.model[1] = "account"
                  => "locked_period" \in required
  <2> HIDE DEF methods, company, transient, change
  <2>1. Tests!ToSet(asked_for)
           = {"non_admin", "at_install_vs_post_install"}
               \union (IF company THEN {"multi_company"} ELSE {})
               \union (IF methods \intersect Tests!BatchMethods # {} THEN {"batch"} ELSE {})
               \union (IF ~transient THEN {"upgrade_i_and_u"} ELSE {})
               \union (IF Tests!classify_model_risk(change.model) = "critical" /\ change.model[1] = "account"
                       THEN {"locked_period"} ELSE {})
               \union (IF company THEN {"record_rules"} ELSE {})
    BY AskedFor
  <2> HIDE DEF asked_for
  <2> QED
    BY <1>7, <1>8, <2>1
<1>9. change.methods \intersect {"write", "action_post"} # {} \/ change.methods = {}
        => methods \intersect Tests!BatchMethods # {}
  BY DEF Tests!BatchMethods
<1>10. change.model \in {<<"account", "move">>, <<"account", "move", "reversal">>}
        => Tests!classify_model_risk(change.model) = "critical" /\ change.model[1] = "account"
  BY MovesAreLocked
<1>11. (~change.known \/ change.company => company) /\ (~(change.known /\ change.transient) => ~transient)
  OBVIOUS
<1> HIDE DEF methods, company, transient, change
<1> QED
  BY <1>3, <1>4, <1>5, <1>6, <1>8, <1>9, <1>10, <1>11, Satisfied

\* That all scenarios are satisfied says that the run did what the risk of the
\* change asks for.
THEOREM OksAreSeen == Spec => []OkMeansSeen
<1>1. Given => OkMeansSeen
  BY ScenariosAnswered DEF OkMeansSeen
<1> QED
  BY <1>1, AlwaysGiven, PTL

-----------------------------------------------------------------------------
(* Loops over finite sets.                                                 *)

\* Induction over the numbers, as a set.
LEMMA NatSetInduction ==
    ASSUME NEW S, 0 \in S, \A n \in Nat : n \in S => n + 1 \in S
    PROVE  Nat \subseteq S
<1> DEFINE R == {ss \in Nat \X Nat : ss[1] < ss[2]}
           T == Nat \ S
<1>1. IsWellFoundedOn(R, Nat)
  BY NatLessThanWellFounded, Zenon DEF OpToRel
<1> SUFFICES ASSUME T # {} PROVE FALSE
  OBVIOUS
<1>2. \E n \in T : \A m \in T : ~(<<m, n>> \in R)
  <2>1. T \subseteq Nat /\ T # {}
    OBVIOUS
  <2> HIDE DEF R, T
  <2> QED
    BY <1>1, <2>1, WFMin
<1>3. PICK n \in T : \A m \in T : ~(m < n)
  BY <1>2
<1>4. n # 0 /\ n - 1 \in Nat
  BY <1>3
<1>5. n - 1 \in S
  BY <1>3, <1>4
<1> QED
  BY <1>4, <1>5

\* The subsets of a finite set.
LEMMA Subsets ==
    ASSUME NEW S, IsFiniteSet(S), NEW s \in SUBSET S
    PROVE  /\ IsFiniteSet(s) /\ Cardinality(s) \in Nat /\ Cardinality(s) <= Cardinality(S)
           /\ \A x \in s : s \ {x} \in SUBSET S /\ Cardinality(s \ {x}) = Cardinality(s) - 1
<1>1. IsFiniteSet(s) /\ Cardinality(s) \in Nat /\ Cardinality(s) <= Cardinality(S)
  BY FS_Subset, FS_CardinalityType
<1>2. \A x \in s : Cardinality(s \ {x}) = Cardinality(s) - 1
  BY <1>1, FS_RemoveElement
<1> QED
  BY <1>1, <1>2

\* Induction over the subsets of a finite set, as a set.
LEMMA SubsetInduction ==
    ASSUME NEW S, IsFiniteSet(S), NEW Q,
           \A s \in SUBSET S : (\A x \in s : s \ {x} \in Q) => s \in Q
    PROVE  SUBSET S \subseteq Q
<1> DEFINE N == {n \in Nat : \A s \in SUBSET S : Cardinality(s) <= n => s \in Q}
<1>1. \A s \in SUBSET S : Cardinality(s) \in Nat /\ Cardinality(s) <= Cardinality(S)
  BY Subsets
<1>2. 0 \in N
  <2> SUFFICES ASSUME NEW s \in SUBSET S, Cardinality(s) <= 0 PROVE s \in Q
    OBVIOUS
  <2>1. Cardinality(s) = 0 /\ IsFiniteSet(s)
    BY <1>1, Subsets
  <2>2. s = {}
    BY <2>1, FS_EmptySet
  <2> QED
    BY <2>2
<1>3. ASSUME NEW n \in Nat, n \in N PROVE n + 1 \in N
  <2> SUFFICES ASSUME NEW s \in SUBSET S, Cardinality(s) <= n + 1 PROVE s \in Q
    OBVIOUS
  <2> SUFFICES ASSUME NEW x \in s PROVE s \ {x} \in Q
    OBVIOUS
  <2>1. s \ {x} \in SUBSET S /\ Cardinality(s \ {x}) = Cardinality(s) - 1
    BY Subsets
  <2>2. Cardinality(s \ {x}) <= n
    BY <1>1, <2>1
  <2> QED
    BY <1>3, <2>1, <2>2
<1>4. Nat \subseteq N
  <2> HIDE DEF N
  <2> QED
    BY <1>2, <1>3, NatSetInduction
<1>5. Cardinality(S) \in N
  BY <1>4, FS_CardinalityType
<1> QED
  BY <1>1, <1>5

\* Of finitely many things in a linear order one is first.
Linear(S, R) ==
    /\ \A x, y \in S : <<x, y>> \in R \/ <<y, x>> \in R
    /\ \A x, y, z \in S : <<x, y>> \in R /\ <<y, z>> \in R => <<x, z>> \in R

LEMMA HasFirst ==
    ASSUME NEW S, IsFiniteSet(S), NEW R, Linear(S, R)
    PROVE  \A s \in SUBSET S : s # {} => \E x \in s : \A y \in s : <<x, y>> \in R
<1> DEFINE Q == {s \in SUBSET S : s # {} => \E x \in s : \A y \in s : <<x, y>> \in R}
<1>1. ASSUME NEW s \in SUBSET S, \A x \in s : s \ {x} \in Q PROVE s \in Q
  <2> SUFFICES ASSUME s # {} PROVE \E x \in s : \A y \in s : <<x, y>> \in R
    OBVIOUS
  <2>1. PICK x : x \in s
    OBVIOUS
  <2>2. x \in S /\ <<x, x>> \in R
    BY <2>1 DEF Linear
  <2>3. CASE s \ {x} = {}
    <3>1. \A y \in s : y = x
      BY <2>3
    <3> QED
      BY <2>1, <2>2, <3>1
  <2>4. CASE s \ {x} # {}
    <3>1. PICK b \in s \ {x} : \A y \in s \ {x} : <<b, y>> \in R
      BY <1>1, <2>1, <2>4
    <3>2. CASE <<x, b>> \in R
      <4>1. \A y \in s : <<x, y>> \in R
        BY <2>2, <3>1, <3>2 DEF Linear
      <4> QED
        BY <2>1, <4>1
    <3>3. CASE <<b, x>> \in R
      <4>1. \A y \in s : <<b, y>> \in R
        BY <3>1, <3>3
      <4> QED
        BY <3>1, <4>1
    <3> QED
      BY <2>2, <3>1, <3>2, <3>3 DEF Linear
  <2> QED
    BY <2>3, <2>4
<1> HIDE DEF Q
<1>2. SUBSET S \subseteq Q
  BY <1>1, SubsetInduction
<1> QED
  BY <1>2 DEF Q

LEMMA HasGreatest ==
    ASSUME NEW S, IsFiniteSet(S), S \subseteq Int, NEW s \in (SUBSET S) \ {{}}
    PROVE  \E x \in s : \A y \in s : x >= y
<1> DEFINE R == {q \in S \X S : q[1] >= q[2]}
<1>1. \A x, y \in S : <<x, y>> \in R <=> x >= y
  OBVIOUS
<1> HIDE DEF R
<1>2. Linear(S, R)
  BY <1>1 DEF Linear
<1>3. PICK x \in s : \A y \in s : <<x, y>> \in R
  <2>1. \A t \in SUBSET S : t # {} => \E x \in t : \A y \in t : <<x, y>> \in R
    BY <1>2, HasFirst
  <2> QED
    BY <2>1
<1>4. \A y \in s : x >= y
  BY <1>1, <1>3
<1> QED
  BY <1>4

\* A loop that takes the elements of S in the order that pick says, and its
\* value before each.
IsLoop(S, pick, base, step, loop) ==
    /\ DOMAIN loop = SUBSET S /\ loop = [s \in SUBSET S |-> loop[s]]
    /\ loop[{}] = base
    /\ \A s \in (SUBSET S) \ {{}} : loop[s] = step[<<pick[s], loop[s \ {pick[s]}]>>]

LEMMA LoopExists ==
    ASSUME NEW S, IsFiniteSet(S), NEW pick, \A s \in (SUBSET S) \ {{}} : pick[s] \in s,
           NEW base, NEW step
    PROVE  \E loop : IsLoop(S, pick, base, step, loop)
<1> DEFINE N == Cardinality(S)
           Body(g, s) == IF s = {} THEN base ELSE step[<<pick[s], g[s \ {pick[s]}]>>]
           Small(n) == {s \in SUBSET S : Cardinality(s) <= n}
           P(n) == \E g : g = [s \in Small(n) |-> Body(g, s)]
<1>1. \A s \in SUBSET S : IsFiniteSet(s) /\ Cardinality(s) \in Nat /\ Cardinality(s) <= N
  BY Subsets
<1>2. \A s \in (SUBSET S) \ {{}} :
         s \ {pick[s]} \in SUBSET S /\ Cardinality(s \ {pick[s]}) = Cardinality(s) - 1
  BY Subsets
<1>3. P(0)
  <2>1. \A s \in Small(0) : s = {}
    BY <1>1, FS_EmptySet
  <2> DEFINE g == [s \in Small(0) |-> base]
  <2>2. g = [s \in Small(0) |-> Body(g, s)]
    BY <2>1
  <2> QED
    BY <2>2
<1>4. ASSUME NEW n \in Nat, P(n) PROVE P(n + 1)
  <2>1. PICK h : h = [s \in Small(n) |-> Body(h, s)]
    BY <1>4
  <2> DEFINE g == [s \in Small(n + 1) |-> IF s \in Small(n) THEN h[s] ELSE Body(h, s)]
  <2>2. \A s \in Small(n + 1) : s # {} => s \ {pick[s]} \in Small(n)
    BY <1>1, <1>2
  <2>3. \A s \in Small(n) : h[s] = Body(h, s) /\ s \in Small(n + 1)
    <3>1. \A s \in Small(n) : h[s] = Body(h, s)
      BY <2>1
    <3>2. \A s \in Small(n) : s \in Small(n + 1)
      BY <1>1
    <3> QED
      BY <3>1, <3>2
  <2> HIDE DEF Small
  <2>4. \A s \in Small(n + 1) : g[s] = Body(h, s)
    BY <2>3
  <2>5. \A s \in Small(n) : g[s] = h[s]
    BY <2>3
  <2>6. \A s \in Small(n + 1) : Body(h, s) = Body(g, s)
    BY <2>2, <2>5
  <2>7. g = [s \in Small(n + 1) |-> Body(g, s)]
    <3>1. g = [s \in Small(n + 1) |-> Body(h, s)]
      BY <2>4
    <3> HIDE DEF g, Body
    <3> QED
      BY <2>6, <3>1
  <2> QED
    BY <2>7
<1>5. P(N)
  <2> HIDE DEF P
  <2> DEFINE T == {n \in Nat : P(n)}
  <2>1. 0 \in T /\ \A n \in Nat : n \in T => n + 1 \in T
    BY <1>3, <1>4
  <2>2. N \in Nat
    BY FS_CardinalityType
  <2> HIDE DEF T
  <2>3. N \in T
    BY <2>1, <2>2, NatSetInduction
  <2> QED
    BY <2>3 DEF T
<1>6. Small(N) = SUBSET S
  BY <1>1
<1> HIDE DEF Small
<1>7. PICK e : e = [s \in SUBSET S |-> Body(e, s)]
  BY <1>5, <1>6
<1>8. IsLoop(S, pick, base, step, e)
  <2>1. \A s \in SUBSET S : e[s] = Body(e, s)
    BY <1>7
  <2>2. DOMAIN e = SUBSET S /\ e = [s \in SUBSET S |-> e[s]]
    <3> HIDE DEF Body
    <3> QED
      BY <1>7, <2>1
  <2> QED
    BY <2>1, <2>2 DEF IsLoop
<1> QED
  BY <1>8

-----------------------------------------------------------------------------
(* upgrade_check.py                                                        *)

\* Two versions of a model's fields, as RiskAssumption has them.
Versions(old, new, similar) ==
    /\ IsFiniteSet(DOMAIN old) /\ IsFiniteSet(DOMAIN new)
    /\ DOMAIN old \subseteq Int /\ DOMAIN new \subseteq Int
    /\ \A f \in Risks!Gone(old, new), g \in Risks!Gone(new, old) : similar[<<f, g>>] \in Int

\* The fields whose columns go.
Lost(old, new) == {f \in Risks!Gone(old, new) : old[f].store}

Row(old, new) == [old : Lost(old, new), new : Risks!Gone(new, old), confidence : {"high", "low"}, similarity : Int]

\* One turn of detect_renames.
Renaming(old, new, similar, f, renames) ==
    LET candidates == Risks!Candidates(f, old, new, renames)
        best == Risks!Best(f, candidates, similar)
        sure == Risks!Cardinality(candidates) = 1 /\ similar[<<f, best>>] >= HIGH_SIM
    IN  IF candidates = {} THEN renames
        ELSE Append(renames, [old |-> f, new |-> best, confidence |-> IF sure THEN "high" ELSE "low",
                              similarity |-> similar[<<f, best>>]])

LEMMA LostIsFinite ==
    ASSUME NEW old, NEW new, NEW similar, Versions(old, new, similar)
    PROVE  /\ IsFiniteSet(Lost(old, new)) /\ IsFiniteSet(Risks!Gone(new, old))
           /\ Lost(old, new) \subseteq Int /\ Risks!Gone(new, old) \subseteq Int
           /\ Lost(old, new) \subseteq Risks!Gone(old, new)
<1>1. Lost(old, new) \subseteq DOMAIN old /\ Risks!Gone(new, old) \subseteq DOMAIN new
  BY DEF Lost, Risks!Gone
<1>2. IsFiniteSet(Lost(old, new)) /\ IsFiniteSet(Risks!Gone(new, old))
  BY <1>1, FS_Subset DEF Versions
<1> QED
  BY <1>1, <1>2 DEF Versions, Lost

LEMMA GreatestField ==
    ASSUME NEW S, IsFiniteSet(S), S \subseteq Int, NEW s \in (SUBSET S) \ {{}}
    PROVE  Risks!Max(s) \in s
BY HasGreatest DEF Risks!Max

LEMMA BestIsIn ==
    ASSUME NEW old, NEW new, NEW similar, Versions(old, new, similar),
           NEW f \in Lost(old, new), NEW c \in (SUBSET Risks!Gone(new, old)) \ {{}}
    PROVE  Risks!Best(f, c, similar) \in c
<1> DEFINE G == Risks!Gone(new, old)
           v == [g \in G |-> similar[<<f, g>>]]
           R == {q \in G \X G : v[q[1]] > v[q[2]] \/ (v[q[1]] = v[q[2]] /\ q[1] <= q[2])}
<1>1. G \subseteq Int /\ IsFiniteSet(G) /\ \A g \in G : v[g] \in Int
  BY LostIsFinite DEF Versions
<1>2. \A x, y \in G : <<x, y>> \in R <=> v[x] > v[y] \/ (v[x] = v[y] /\ x <= y)
  OBVIOUS
<1>3. \A g \in G : v[g] = similar[<<f, g>>]
  OBVIOUS
<1> HIDE DEF R, v, G
<1>4. \A x, y \in G : <<x, y>> \in R \/ <<y, x>> \in R
  <2> TAKE x, y \in G
  <2>1. x \in Int /\ y \in Int /\ v[x] \in Int /\ v[y] \in Int
    BY <1>1
  <2>2. \/ v[x] > v[y] \/ (v[x] = v[y] /\ x <= y)
        \/ v[y] > v[x] \/ (v[y] = v[x] /\ y <= x)
    BY <2>1
  <2> QED
    BY <1>2, <2>2
<1>5. \A x, y, z \in G : <<x, y>> \in R /\ <<y, z>> \in R => <<x, z>> \in R
  <2> SUFFICES ASSUME NEW x \in G, NEW y \in G, NEW z \in G, <<x, y>> \in R, <<y, z>> \in R
               PROVE  <<x, z>> \in R
    OBVIOUS
  <2>1. /\ x \in Int /\ y \in Int /\ z \in Int
        /\ v[x] \in Int /\ v[y] \in Int /\ v[z] \in Int
    BY <1>1
  <2>2. v[x] > v[y] \/ (v[x] = v[y] /\ x <= y)
    BY <1>2
  <2>3. v[y] > v[z] \/ (v[y] = v[z] /\ y <= z)
    BY <1>2
  <2>4. v[x] > v[z] \/ (v[x] = v[z] /\ x <= z)
    BY <2>1, <2>2, <2>3
  <2> QED
    BY <1>2, <2>4
<1>6. c \in SUBSET G /\ c # {}
  BY DEF G
<1>7. PICK x \in c : \A y \in c : <<x, y>> \in R
  <2>1. Linear(G, R)
    BY <1>4, <1>5 DEF Linear
  <2>2. \A t \in SUBSET G : t # {} => \E x \in t : \A y \in t : <<x, y>> \in R
    BY <1>1, <2>1, HasFirst
  <2> QED
    BY <1>6, <2>2
<1>8. \A y \in c : \/ similar[<<f, x>>] > similar[<<f, y>>]
                   \/ similar[<<f, x>>] = similar[<<f, y>>] /\ x <= y
  BY <1>2, <1>3, <1>6, <1>7
<1> QED
  BY <1>8 DEF Risks!Best

\* A turn adds nothing, or the renaming of its field to one that is free.
LEMMA TurnAdds ==
    ASSUME NEW old, NEW new, NEW similar, Versions(old, new, similar),
           NEW f \in Lost(old, new), NEW renames \in Seq(Row(old, new))
    PROVE  LET after == Renaming(old, new, similar, f, renames)
           IN  \/ after = renames
               \/ \E row \in Row(old, new) :
                    /\ after = Append(renames, row)
                    /\ row.old = f /\ new[row.new].store /\ new[row.new].type = old[f].type
                    /\ \A i \in DOMAIN renames : renames[i].new # row.new
<1> DEFINE candidates == Risks!Candidates(f, old, new, renames)
           best == Risks!Best(f, candidates, similar)
           sure == Risks!Cardinality(candidates) = 1 /\ similar[<<f, best>>] >= HIGH_SIM
           row == [old |-> f, new |-> best, confidence |-> IF sure THEN "high" ELSE "low",
                   similarity |-> similar[<<f, best>>]]
<1>1. CASE candidates = {}
  BY <1>1 DEF Renaming
<1>2. CASE candidates # {}
  <2>1. candidates \subseteq Risks!Gone(new, old)
    BY DEF Risks!Candidates
  <2>2. best \in candidates
    <3> HIDE DEF candidates
    <3> QED
      BY <1>2, <2>1, BestIsIn
  <2> HIDE DEF best
  <2>3. /\ best \in Risks!Gone(new, old) /\ new[best].store /\ new[best].type = old[f].type
        /\ \A i \in DOMAIN renames : renames[i].new # best
    BY <2>2 DEF Risks!Candidates, Risks!ToSet
  <2>4. similar[<<f, best>>] \in Int
    BY <2>3, LostIsFinite DEF Versions
  <2>5. row \in Row(old, new) /\ row.old = f /\ row.new = best
    <3> HIDE DEF sure
    <3> QED
      BY <2>3, <2>4 DEF Row
  <2>6. Renaming(old, new, similar, f, renames) = Append(renames, row)
    BY <1>2, Zenon DEF Renaming, best
  <2> HIDE DEF row
  <2> QED
    BY <2>3, <2>5, <2>6
<1> QED
  BY <1>1, <1>2

LEMMA TurnKeepsRows ==
    ASSUME NEW old, NEW new, NEW similar, Versions(old, new, similar),
           NEW f \in Lost(old, new), NEW renames \in Seq(Row(old, new))
    PROVE  Renaming(old, new, similar, f, renames) \in Seq(Row(old, new))
BY TurnAdds

\* The renamings of each set of fields, one turn after the other.
RenamingLoop(old, new, similar, loop) ==
    /\ Risks!detect_renames(old, new, similar) = loop[Lost(old, new)]
    /\ loop[{}] = <<>>
    /\ \A s \in (SUBSET Lost(old, new)) \ {{}} :
          \E f \in s : loop[s] = Renaming(old, new, similar, f, loop[s \ {f}])

LEMMA RenamesAreLoop ==
    ASSUME NEW old, NEW new, NEW similar, Versions(old, new, similar)
    PROVE  \E loop : RenamingLoop(old, new, similar, loop)
<1> DEFINE S == Lost(old, new)
           V == Seq(Row(old, new))
           pick == [s \in SUBSET S |-> Risks!Max(s)]
           step == [t \in S \X V |-> Renaming(old, new, similar, t[1], t[2])]
<1>1. \A s \in (SUBSET S) \ {{}} : pick[s] = Risks!Max(s) /\ pick[s] \in s
  BY LostIsFinite, GreatestField
<1>2. \A f \in S, r \in V : step[<<f, r>>] = Renaming(old, new, similar, f, r) /\ step[<<f, r>>] \in V
  <2> TAKE f \in S, r \in V
  <2>1. step[<<f, r>>] = Renaming(old, new, similar, f, r)
    OBVIOUS
  <2> QED
    BY <2>1, TurnKeepsRows
<1> HIDE DEF pick, step, V
<1>3. PICK loop : IsLoop(S, pick, <<>>, step, loop)
  BY <1>1, LostIsFinite, LoopExists
<1>4. /\ loop = [s \in SUBSET S |-> loop[s]] /\ loop[{}] = <<>>
      /\ \A s \in (SUBSET S) \ {{}} : loop[s] = step[<<pick[s], loop[s \ {pick[s]}]>>]
  BY <1>3 DEF IsLoop
<1>5. \A s \in SUBSET S : loop[s] \in V
  <2> DEFINE Q == {s \in SUBSET S : loop[s] \in V}
  <2>1. ASSUME NEW s \in SUBSET S, \A x \in s : s \ {x} \in Q PROVE s \in Q
    <3>1. CASE s = {}
      <4>1. <<>> \in V
        BY DEF V
      <4>2. loop[s] = <<>>
        BY <1>4, <3>1
      <4> QED
        BY <4>1, <4>2
    <3>2. CASE s # {}
      <4>1. pick[s] \in S /\ s \ {pick[s]} \in Q
        BY <1>1, <2>1, <3>2
      <4>2. loop[s \ {pick[s]}] \in V
        BY <4>1
      <4>3. loop[s] = step[<<pick[s], loop[s \ {pick[s]}]>>]
        BY <1>4, <3>2
      <4>4. loop[s] \in V
        BY <1>2, <4>1, <4>2, <4>3
      <4> QED
        BY <4>4
    <3> QED
      BY <3>1, <3>2
  <2>2. IsFiniteSet(S)
    BY LostIsFinite
  <2> HIDE DEF Q, S
  <2>3. SUBSET S \subseteq Q
    BY <2>1, <2>2, SubsetInduction
  <2> QED
    BY <2>3 DEF Q
<1>6. \A s \in (SUBSET S) \ {{}} :
         loop[s] = Renaming(old, new, similar, Risks!Max(s), loop[s \ {Risks!Max(s)}])
  BY <1>1, <1>2, <1>4, <1>5
<1> DEFINE Body(g, s) == IF s = {} THEN <<>>
                         ELSE Renaming(old, new, similar, Risks!Max(s), g[s \ {Risks!Max(s)}])
           e == CHOOSE g : g = [s \in SUBSET S |-> Body(g, s)]
<1>7. loop = [s \in SUBSET S |-> Body(loop, s)]
  <2>1. \A s \in SUBSET S : loop[s] = Body(loop, s)
    BY <1>4, <1>6
  <2> HIDE DEF Body
  <2> QED
    BY <1>4, <2>1
<1>8. e = [s \in SUBSET S |-> Body(e, s)]
  <2> HIDE DEF Body
  <2> QED
    BY <1>7, Zenon
<1>9. Risks!detect_renames(old, new, similar) = e[S]
  BY Zenon DEF Risks!detect_renames, Risks!MapThenFoldSet, Renaming, Lost
<1> HIDE DEF e
<1>10. e[{}] = <<>> /\ \A s \in (SUBSET S) \ {{}} :
         e[s] = Renaming(old, new, similar, Risks!Max(s), e[s \ {Risks!Max(s)}])
  BY <1>8
<1>11. \A s \in (SUBSET S) \ {{}} : \E f \in s : e[s] = Renaming(old, new, similar, f, e[s \ {f}])
  BY <1>1, <1>10
<1>12. RenamingLoop(old, new, similar, e)
  BY <1>9, <1>10, <1>11 DEF RenamingLoop
<1> QED
  BY <1>12

\* What the renamings are when the fields in s had their turn.
Sound(old, new, s, renames) ==
    /\ renames \in Seq(Row(old, new))
    /\ \A i \in DOMAIN renames :
          /\ renames[i].old \in s
          /\ new[renames[i].new].store /\ new[renames[i].new].type = old[renames[i].old].type
    /\ \A i, k \in DOMAIN renames :
          renames[i].old = renames[k].old \/ renames[i].new = renames[k].new => i = k

LEMMA TurnIsSound ==
    ASSUME NEW old, NEW new, NEW similar, Versions(old, new, similar),
           NEW s \in SUBSET Lost(old, new), NEW f \in s, NEW renames, Sound(old, new, s \ {f}, renames)
    PROVE  Sound(old, new, s, Renaming(old, new, similar, f, renames))
<1> DEFINE after == Renaming(old, new, similar, f, renames)
<1>1. renames \in Seq(Row(old, new)) /\ f \in Lost(old, new)
  BY DEF Sound
<1> HIDE DEF after
<1>2. CASE after = renames
  BY <1>2 DEF Sound, after
<1>3. CASE \E row \in Row(old, new) :
              /\ after = Append(renames, row)
              /\ row.old = f /\ new[row.new].store /\ new[row.new].type = old[f].type
              /\ \A i \in DOMAIN renames : renames[i].new # row.new
  <2>1. PICK row \in Row(old, new) :
              /\ after = Append(renames, row)
              /\ row.old = f /\ new[row.new].store /\ new[row.new].type = old[f].type
              /\ \A i \in DOMAIN renames : renames[i].new # row.new
    BY <1>3
  <2> DEFINE n == Len(renames)
  <2>2. /\ DOMAIN renames = 1 .. n /\ n \in Nat /\ DOMAIN after = 1 .. n + 1
        /\ \A i \in 1 .. n : after[i] = renames[i]
        /\ after[n + 1] = row
    BY <1>1, <2>1
  <2>3. after \in Seq(Row(old, new))
    BY <1>1, <2>1
  <2>4. \A i \in 1 .. n : renames[i].old \in s \ {f} /\ renames[i].old # row.old /\ renames[i].new # row.new
    BY <2>1, <2>2 DEF Sound
  <2>5. \A i \in 1 .. n : new[renames[i].new].store /\ new[renames[i].new].type = old[renames[i].old].type
    BY <2>2 DEF Sound
  <2>6. \A i, k \in 1 .. n :
           renames[i].old = renames[k].old \/ renames[i].new = renames[k].new => i = k
    BY <2>2 DEF Sound
  <2>7. \A i \in 1 .. n + 1 : i \in 1 .. n \/ i = n + 1
    BY <2>2
  <2>8. \A i \in DOMAIN after :
          /\ after[i].old \in s
          /\ new[after[i].new].store /\ new[after[i].new].type = old[after[i].old].type
    BY <2>1, <2>2, <2>4, <2>5, <2>7
  <2>9. \A i, k \in DOMAIN after :
           after[i].old = after[k].old \/ after[i].new = after[k].new => i = k
    BY <2>2, <2>4, <2>6, <2>7
  <2>10. Sound(old, new, s, after)
    BY <2>3, <2>8, <2>9 DEF Sound
  <2> QED
    BY <2>10 DEF after
<1> QED
  BY <1>1, <1>2, <1>3, TurnAdds DEF after

LEMMA RenamesAreSound ==
    ASSUME NEW old, NEW new, NEW similar, Versions(old, new, similar)
    PROVE  Sound(old, new, Lost(old, new), Risks!detect_renames(old, new, similar))
<1> DEFINE S == Lost(old, new)
<1>1. PICK loop : RenamingLoop(old, new, similar, loop)
  BY RenamesAreLoop
<1> DEFINE Q == {s \in SUBSET S : Sound(old, new, s, loop[s])}
<1>2. ASSUME NEW s \in SUBSET S, \A x \in s : s \ {x} \in Q PROVE s \in Q
  <2>1. CASE s = {}
    <3>1. Sound(old, new, {}, <<>>)
      BY DEF Sound
    <3> QED
      BY <1>1, <2>1, <3>1 DEF RenamingLoop
  <2>2. CASE s # {}
    <3>1. PICK f \in s : loop[s] = Renaming(old, new, similar, f, loop[s \ {f}])
      BY <1>1, <2>2 DEF RenamingLoop
    <3>2. Sound(old, new, s \ {f}, loop[s \ {f}])
      BY <1>2, <3>1
    <3>3. Sound(old, new, s, loop[s])
      BY <3>1, <3>2, TurnIsSound
    <3> QED
      BY <3>3
  <2> QED
    BY <2>1, <2>2
<1>3. IsFiniteSet(S)
  BY LostIsFinite
<1>4. SUBSET S \subseteq Q
  <2> HIDE DEF Q, S
  <2> QED
    BY <1>2, <1>3, SubsetInduction
<1>5. S \in Q
  BY <1>4
<1> QED
  BY <1>1, <1>5 DEF RenamingLoop

LEMMA LossesAnswered ==
    ASSUME Given, Answered("upgrade_check") PROVE EveryLossIsBlocking
<1> DEFINE old == asked.old
           new == asked.new
           similar == asked.similar
           renames == Risks!detect_renames(old, new, similar)
           rows == {renames[i] : i \in DOMAIN renames}
           sure == {r \in rows : r.confidence = "high"}
           risks == Risks!classify_upgrade_risks(old, new, similar, asked.noupdate)
           gone == {f \in DOMAIN old \ DOMAIN new : old[f].store}
           moved == {<<r.old, r.new>> : r \in sure}
           removals == {r.field : r \in {s \in risks : s.kind = "field_removed"}}
           Blocking(f) == \E r \in risks : r.field = f /\ r.severity = "blocking"
<1>1. asked \in Questions["upgrade_check"] /\ answer = Risks!upgrade_check(old, new, similar, asked.noupdate)
  BY DEF Given, Answered
<1>2. Versions(old, new, similar)
  BY <1>1, RiskAssumption DEF Versions
<1> HIDE DEF old, new, similar, renames, risks
<1>3. Sound(old, new, Lost(old, new), renames)
  BY <1>2, RenamesAreSound DEF renames
<1>4. Risks!ToSet(renames) = rows /\ Risks!high(renames) = sure
  BY Zenon DEF Risks!ToSet, Risks!high
<1>5. /\ answer.renames = renames /\ answer.risks = risks
      /\ answer.script.renames = moved /\ answer.script.removals = removals
  <2>1. /\ answer.renames = renames /\ answer.risks = risks
        /\ answer.script = Risks!render_migration_script({r \in Risks!ToSet(renames) : r.confidence = "high"}, removals)
    BY <1>1 DEF Risks!upgrade_check, renames, risks
  <2> HIDE DEF removals
  <2>2. answer.script = Risks!render_migration_script(sure, removals)
    BY <1>4, <2>1
  <2> QED
    BY <2>1, <2>2 DEF Risks!render_migration_script
<1>6. gone = Lost(old, new)
  BY DEF Lost, Risks!Gone
<1>7. risks = Risks!Removed(old, new, renames) \union Risks!Renamed(renames)
              \union Risks!NewRequired(old, new, renames) \union Risks!TypeChanged(old, new)
              \union {Risks!Risk("noupdate_protected", x, "warning") : x \in asked.noupdate}
  BY Zenon DEF Risks!classify_upgrade_risks, risks, renames
\* The rows that are sure.
<1>8. \A r \in sure :
        /\ r.old \in gone /\ r.new \in DOMAIN new /\ r.new \notin DOMAIN old
        /\ new[r.new].type = old[r.old].type
  <2>1. \A i \in DOMAIN renames :
           /\ renames[i] \in Row(old, new)
           /\ new[renames[i].new].type = old[renames[i].old].type
    BY <1>3 DEF Sound
  <2>2. \A r \in Row(old, new) : r.old \in gone /\ r.new \in DOMAIN new /\ r.new \notin DOMAIN old
    BY <1>6 DEF Row, Risks!Gone
  <2> QED
    BY <2>1, <2>2
<1>9. \A q, r \in rows : q.old = r.old \/ q.new = r.new => q = r
  BY <1>3 DEF Sound
\* The risks.
<1>10. \A f \in Risks!Gone(old, new) \ {r.old : r \in sure} :
          Risks!Risk("field_removed", f, IF old[f].store THEN "blocking" ELSE "warning") \in risks
  <2>1. \A f \in Risks!Gone(old, new) \ {r.old : r \in sure} :
          Risks!Risk("field_removed", f, IF old[f].store THEN "blocking" ELSE "warning")
            \in Risks!Removed(old, new, renames)
    BY <1>4 DEF Risks!Removed
  <2> QED
    BY <1>7, <2>1
<1>11. \A r \in sure : Risks!Risk("field_renamed", r.old, "blocking") \in risks
  <2>1. \A r \in sure : Risks!Risk("field_renamed", r.old, "blocking") \in Risks!Renamed(renames)
    BY <1>4 DEF Risks!Renamed
  <2> QED
    BY <1>7, <2>1
<1>12. \A f \in Risks!Gone(new, old) \ {r.new : r \in sure} :
          new[f].store /\ new[f].required /\ ~new[f].has_default
            => Risks!Risk("new_required_no_default", f, "blocking") \in risks
  <2>1. \A f \in Risks!Gone(new, old) \ {r.new : r \in sure} :
          new[f].store /\ new[f].required /\ ~new[f].has_default
            => Risks!Risk("new_required_no_default", f, "blocking") \in Risks!NewRequired(old, new, renames)
    BY <1>4 DEF Risks!NewRequired
  <2> QED
    BY <1>7, <2>1
<1>13. removals = Risks!Gone(old, new) \ {r.old : r \in sure}
  <2>1. \A x \in risks : x.kind = "field_removed" => x \in Risks!Removed(old, new, renames)
    BY <1>7 DEF Risks!Renamed, Risks!NewRequired, Risks!TypeChanged, Risks!Risk
  <2>2. \A x \in Risks!Removed(old, new, renames) : x.field \in Risks!Gone(old, new) \ {r.old : r \in sure}
    BY <1>4 DEF Risks!Removed, Risks!Risk
  <2>3. \A f \in Risks!Gone(old, new) \ {r.old : r \in sure} :
           \E x \in risks : x.kind = "field_removed" /\ x.field = f
    <3>1. \A f, severity : Risks!Risk("field_removed", f, severity).kind = "field_removed"
                          /\ Risks!Risk("field_removed", f, severity).field = f
      BY DEF Risks!Risk
    <3> QED
      BY <1>10, <3>1
  <2> QED
    BY <2>1, <2>2, <2>3
<1>14. \A f \in gone : f \notin {r.old : r \in sure} => Blocking(f)
  <2> SUFFICES ASSUME NEW f \in gone, f \notin {r.old : r \in sure} PROVE Blocking(f)
    OBVIOUS
  <2> DEFINE risk == Risks!Risk("field_removed", f, IF old[f].store THEN "blocking" ELSE "warning")
  <2>1. risk.field = f /\ risk.severity = "blocking"
    BY DEF Risks!Risk
  <2>2. f \in Risks!Gone(old, new)
    BY DEF Risks!Gone
  <2>3. risk \in risks
    <3> HIDE DEF sure
    <3> QED
      BY <1>10, <2>2
  <2> HIDE DEF risk
  <2> QED
    BY <2>1, <2>3
<1>15. \A r \in sure : Blocking(r.old)
  BY <1>11 DEF Risks!Risk
<1>16. \A f \in gone : Blocking(f) /\ (f \in {p[1] : p \in moved} <=> f \notin removals)
  <2>1. \A f : f \in {p[1] : p \in moved} <=> f \in {r.old : r \in sure}
    <3> HIDE DEF sure
    <3>1. \A r \in sure : <<r.old, r.new>> \in moved /\ <<r.old, r.new>>[1] = r.old
      OBVIOUS
    <3>2. \A p \in moved : p[1] \in {r.old : r \in sure}
      OBVIOUS
    <3>3. \A r \in sure : r.old \in {p[1] : p \in moved}
      <4> HIDE DEF moved
      <4> QED
        BY <3>1
    <3> HIDE DEF moved
    <3> QED
      BY <3>2, <3>3
  <2>2. \A f \in gone : f \in Risks!Gone(old, new)
    BY DEF Risks!Gone
  <2>3. \A f \in gone : Blocking(f)
    <3> TAKE f \in gone
    <3> HIDE DEF sure, Blocking, gone
    <3>1. CASE f \in {r.old : r \in sure}
      <4>1. PICK r \in sure : r.old = f
        BY <3>1
      <4> QED
        BY <1>15, <4>1
    <3>2. CASE f \notin {r.old : r \in sure}
      BY <1>14, <3>2
    <3> QED
      BY <3>1, <3>2
  <2> HIDE DEF removals, sure, moved, gone
  <2> QED
    BY <1>13, <2>1, <2>2, <2>3
<1>17. \A p, q \in moved : p[1] = q[1] \/ p[2] = q[2] => p = q
  BY <1>9
<1>18. \A i, k \in DOMAIN renames : renames[i].new = renames[k].new => i = k
  BY <1>3 DEF Sound
<1>19. \A p \in moved : p[1] \in gone /\ p[2] \notin DOMAIN old /\ old[p[1]].type = new[p[2]].type
  BY <1>8
<1>20. \A f \in DOMAIN new \ DOMAIN old :
          new[f].store /\ new[f].required /\ ~new[f].has_default
            => Blocking(f) \/ \E p \in moved : p[2] = f
  <2> TAKE f \in DOMAIN new \ DOMAIN old
  <2> HAVE new[f].store /\ new[f].required /\ ~new[f].has_default
  <2>1. f \in Risks!Gone(new, old)
    BY DEF Risks!Gone
  <2>2. CASE f \in {r.new : r \in sure}
    <3> HIDE DEF sure
    <3>1. PICK r \in sure : r.new = f
      BY <2>2
    <3>2. <<r.old, r.new>> \in moved /\ <<r.old, r.new>>[2] = f
      BY <3>1
    <3> HIDE DEF moved
    <3> QED
      BY <3>2
  <2>3. CASE f \notin {r.new : r \in sure}
    <3>1. Risks!Risk("new_required_no_default", f, "blocking") \in risks
      BY <1>12, <2>1, <2>3
    <3> QED
      BY <3>1 DEF Risks!Risk
  <2> QED
    BY <2>2, <2>3
<1> HIDE DEF gone, removals, moved
<1> QED
  BY <1>5, <1>16, <1>17, <1>18, <1>19, <1>20 DEF EveryLossIsBlocking, gone, old, new

\* The column of a stored field that is gone is in the report as blocking and
\* in the script once; a renaming is of like to like and takes nobody's place;
\* a new field that must have a value gets one or is reported.
THEOREM LossesAreTold == Spec => []EveryLossIsBlocking
<1>1. Given => EveryLossIsBlocking
  BY LossesAnswered DEF EveryLossIsBlocking
<1> QED
  BY <1>1, AlwaysGiven, PTL

-----------------------------------------------------------------------------
(* gen_manifest.py: the trees.                                             *)

LEMMA GreatestModel ==
    ASSUME NEW S, IsFiniteSet(S), S \subseteq Int, NEW s \in (SUBSET S) \ {{}}
    PROVE  Manifest!Max(s) \in s
BY HasGreatest DEF Manifest!Max

\* One turn of collect_tree for the model m.
Merging(tree, m, i, entry) ==
    IF m \in Manifest!Targets(tree.classes[i]) THEN Manifest!Merge(entry, tree.classes[i]) ELSE entry
Blank == [fields |-> <<>>, methods |-> {}, defined |-> FALSE]

\* The entry has the fields and methods of the classes in s that are of m.
Collected(tree, m, s, entry) ==
    /\ \A f : f \in DOMAIN entry.fields <=>
                \E i \in s : m \in Manifest!Targets(tree.classes[i]) /\ f \in DOMAIN tree.classes[i].fields
    /\ \A f : f \in entry.methods <=>
                \E i \in s : m \in Manifest!Targets(tree.classes[i]) /\ f \in tree.classes[i].methods

LEMMA MergingCollects ==
    ASSUME NEW tree, NEW m, NEW s, NEW i \in s, NEW entry, Collected(tree, m, s \ {i}, entry)
    PROVE  Collected(tree, m, s, Merging(tree, m, i, entry))
<1> DEFINE class == tree.classes[i]
           after == Merging(tree, m, i, entry)
           Of(k) == m \in Manifest!Targets(tree.classes[k])
<1>1. /\ \A f : f \in DOMAIN entry.fields <=> \E k \in s \ {i} : Of(k) /\ f \in DOMAIN tree.classes[k].fields
      /\ \A f : f \in entry.methods <=> \E k \in s \ {i} : Of(k) /\ f \in tree.classes[k].methods
  BY DEF Collected
<1>2. CASE ~Of(i)
  <2>1. after = entry
    BY <1>2 DEF Merging
  <2> HIDE DEF after, Of
  <2>2. Collected(tree, m, s, after)
    BY <1>1, <1>2, <2>1 DEF Collected, Of
  <2> QED
    BY <2>2 DEF after
<1>3. CASE Of(i)
  <2>1. after = Manifest!Merge(entry, class)
    BY <1>3 DEF Merging
  <2>2. /\ DOMAIN after.fields = DOMAIN entry.fields \union DOMAIN class.fields
        /\ after.methods = entry.methods \union class.methods
    BY <2>1 DEF Manifest!Merge
  <2> HIDE DEF after
  <2>3. \A f : f \in DOMAIN after.fields <=> \E k \in s : Of(k) /\ f \in DOMAIN tree.classes[k].fields
    BY <1>1, <1>3, <2>2
  <2>4. \A f : f \in after.methods <=> \E k \in s : Of(k) /\ f \in tree.classes[k].methods
    BY <1>1, <1>3, <2>2
  <2>5. Collected(tree, m, s, after)
    BY <2>3, <2>4 DEF Collected
  <2> QED
    BY <2>5 DEF after
<1> QED
  BY <1>2, <1>3

\* All that an entry can be made of.
FieldsOf(tree) == UNION {DOMAIN tree.classes[i].fields : i \in DOMAIN tree.classes}
TypesOf(tree) ==
    UNION {{tree.classes[i].fields[f] : f \in DOMAIN tree.classes[i].fields} : i \in DOMAIN tree.classes}
MethodsOf(tree) == UNION {tree.classes[i].methods : i \in DOMAIN tree.classes}
Entry(tree) ==
    [fields : UNION {[D -> TypesOf(tree)] : D \in SUBSET FieldsOf(tree)},
     methods : SUBSET MethodsOf(tree), defined : BOOLEAN]

LEMMA EntriesStay ==
    ASSUME NEW tree, NEW m, NEW i \in DOMAIN tree.classes, NEW entry \in Entry(tree)
    PROVE  Merging(tree, m, i, entry) \in Entry(tree)
<1> DEFINE class == tree.classes[i]
           both == DOMAIN entry.fields \union DOMAIN class.fields
           merged == [f \in both |-> IF f \in DOMAIN class.fields THEN class.fields[f] ELSE entry.fields[f]]
<1>1. PICK D \in SUBSET FieldsOf(tree) : entry.fields \in [D -> TypesOf(tree)]
  BY DEF Entry
<1>2. DOMAIN class.fields \subseteq FieldsOf(tree) /\ class.methods \subseteq MethodsOf(tree)
      /\ \A f \in DOMAIN class.fields : class.fields[f] \in TypesOf(tree)
  BY DEF FieldsOf, MethodsOf, TypesOf
<1>3. both \in SUBSET FieldsOf(tree) /\ merged \in [both -> TypesOf(tree)]
  BY <1>1, <1>2
<1>4. merged \in UNION {[E -> TypesOf(tree)] : E \in SUBSET FieldsOf(tree)}
  <2> HIDE DEF merged, both
  <2> QED
    BY <1>3
<1>5. entry.methods \union class.methods \in SUBSET MethodsOf(tree)
  BY <1>2 DEF Entry
<1>6. (entry.defined \/ class.name # NoName) \in BOOLEAN
  OBVIOUS
<1> DEFINE after == Manifest!Merge(entry, class)
<1>7. after = [fields |-> merged, methods |-> entry.methods \union class.methods,
               defined |-> entry.defined \/ class.name # NoName]
  BY Zenon DEF Manifest!Merge
<1>8. after \in Entry(tree)
  <2> HIDE DEF merged, after
  <2> QED
    BY <1>4, <1>5, <1>7 DEF Entry
<1> HIDE DEF after
<1> QED
  BY <1>8 DEF Merging, after

\* What a model has after the classes of each set, one turn after the other.
MergingLoop(tree, m, loop) ==
    /\ Manifest!collect_tree(tree)[m] = loop[DOMAIN tree.classes]
    /\ loop[{}] = Blank
    /\ \A s \in (SUBSET DOMAIN tree.classes) \ {{}} :
          \E i \in s : loop[s] = Merging(tree, m, i, loop[s \ {i}])

LEMMA ClassesAreFinite ==
    ASSUME NEW tree, IsTree(tree)
    PROVE  IsFiniteSet(DOMAIN tree.classes) /\ DOMAIN tree.classes \subseteq Int
BY FS_Interval DEF IsTree

LEMMA EntriesAreLoop ==
    ASSUME NEW tree, IsTree(tree), NEW m \in DOMAIN Manifest!collect_tree(tree)
    PROVE  \E loop : MergingLoop(tree, m, loop)
<1> DEFINE S == DOMAIN tree.classes
           V == Entry(tree)
           pick == [s \in SUBSET S |-> Manifest!Max(s)]
           step == [t \in S \X V |-> Merging(tree, m, t[1], t[2])]
<1>1. \A s \in (SUBSET S) \ {{}} : pick[s] = Manifest!Max(s) /\ pick[s] \in s
  BY ClassesAreFinite, GreatestModel
<1>2. \A i \in S, r \in V : step[<<i, r>>] = Merging(tree, m, i, r) /\ step[<<i, r>>] \in V
  <2> TAKE i \in S, r \in V
  <2>1. step[<<i, r>>] = Merging(tree, m, i, r)
    OBVIOUS
  <2> QED
    BY <2>1, EntriesStay
<1>3. Blank \in V
  <2>1. <<>> \in [{} -> TypesOf(tree)]
    OBVIOUS
  <2>2. <<>> \in UNION {[E -> TypesOf(tree)] : E \in SUBSET FieldsOf(tree)}
    BY <2>1
  <2> QED
    BY <2>2 DEF Blank, Entry
<1> HIDE DEF pick, step, V
<1>4. PICK loop : IsLoop(S, pick, Blank, step, loop)
  BY <1>1, ClassesAreFinite, LoopExists
<1>5. /\ loop = [s \in SUBSET S |-> loop[s]] /\ loop[{}] = Blank
      /\ \A s \in (SUBSET S) \ {{}} : loop[s] = step[<<pick[s], loop[s \ {pick[s]}]>>]
  BY <1>4 DEF IsLoop
<1>6. \A s \in SUBSET S : loop[s] \in V
  <2> DEFINE Q == {s \in SUBSET S : loop[s] \in V}
  <2>1. ASSUME NEW s \in SUBSET S, \A x \in s : s \ {x} \in Q PROVE s \in Q
    <3>1. CASE s = {}
      BY <1>3, <1>5, <3>1
    <3>2. CASE s # {}
      <4>1. pick[s] \in S /\ s \ {pick[s]} \in Q
        BY <1>1, <2>1, <3>2
      <4>2. loop[s \ {pick[s]}] \in V
        BY <4>1
      <4>3. loop[s] = step[<<pick[s], loop[s \ {pick[s]}]>>]
        BY <1>5, <3>2
      <4>4. loop[s] \in V
        BY <1>2, <4>1, <4>2, <4>3
      <4> QED
        BY <4>4
    <3> QED
      BY <3>1, <3>2
  <2>2. IsFiniteSet(S)
    BY ClassesAreFinite
  <2> HIDE DEF Q, S
  <2>3. SUBSET S \subseteq Q
    BY <2>1, <2>2, SubsetInduction
  <2> QED
    BY <2>3 DEF Q
<1>7. \A s \in (SUBSET S) \ {{}} :
         loop[s] = Merging(tree, m, Manifest!Max(s), loop[s \ {Manifest!Max(s)}])
  BY <1>1, <1>2, <1>5, <1>6
<1> DEFINE Body(g, s) == IF s = {} THEN Blank
                         ELSE Merging(tree, m, Manifest!Max(s), g[s \ {Manifest!Max(s)}])
           e == CHOOSE g : g = [s \in SUBSET S |-> Body(g, s)]
<1>8. loop = [s \in SUBSET S |-> Body(loop, s)]
  <2>1. \A s \in SUBSET S : loop[s] = Body(loop, s)
    BY <1>5, <1>7
  <2> HIDE DEF Body
  <2> QED
    BY <1>5, <2>1
<1>9. e = [s \in SUBSET S |-> Body(e, s)]
  <2> HIDE DEF Body
  <2> QED
    BY <1>8, Zenon
<1>10. Manifest!collect_tree(tree)[m] = e[S]
  <2>1. DOMAIN Manifest!collect_tree(tree) = UNION {Manifest!Targets(tree.classes[i]) : i \in DOMAIN tree.classes}
    BY DEF Manifest!collect_tree
  <2> QED
    BY <2>1, Zenon DEF Manifest!collect_tree, Manifest!FoldLeft, Manifest!MapThenFoldSet, Merging, Blank
<1> HIDE DEF e
<1>11. e[{}] = Blank /\ \A s \in (SUBSET S) \ {{}} :
         e[s] = Merging(tree, m, Manifest!Max(s), e[s \ {Manifest!Max(s)}])
  BY <1>9
<1>12. \A s \in (SUBSET S) \ {{}} : \E i \in s : e[s] = Merging(tree, m, i, e[s \ {i}])
  BY <1>1, <1>11
<1>13. MergingLoop(tree, m, e)
  BY <1>10, <1>11, <1>12 DEF MergingLoop
<1> QED
  BY <1>13

\* A model has the fields and methods of its classes, whichever came first.
LEMMA EntriesCollect ==
    ASSUME NEW tree, IsTree(tree), NEW m \in DOMAIN Manifest!collect_tree(tree)
    PROVE  Collected(tree, m, DOMAIN tree.classes, Manifest!collect_tree(tree)[m])
<1> DEFINE S == DOMAIN tree.classes
<1>1. PICK loop : MergingLoop(tree, m, loop)
  BY EntriesAreLoop
<1> DEFINE Q == {s \in SUBSET S : Collected(tree, m, s, loop[s])}
<1>2. ASSUME NEW s \in SUBSET S, \A x \in s : s \ {x} \in Q PROVE s \in Q
  <2>1. CASE s = {}
    <3>1. Collected(tree, m, {}, Blank)
      BY DEF Collected, Blank
    <3> QED
      BY <1>1, <2>1, <3>1 DEF MergingLoop
  <2>2. CASE s # {}
    <3>1. PICK i \in s : loop[s] = Merging(tree, m, i, loop[s \ {i}])
      BY <1>1, <2>2 DEF MergingLoop
    <3>2. Collected(tree, m, s \ {i}, loop[s \ {i}])
      BY <1>2, <3>1
    <3>3. Collected(tree, m, s, loop[s])
      BY <3>1, <3>2, MergingCollects
    <3> QED
      BY <3>3
  <2> QED
    BY <2>1, <2>2
<1>3. IsFiniteSet(S)
  BY ClassesAreFinite
<1>4. SUBSET S \subseteq Q
  <2> HIDE DEF Q, S
  <2> QED
    BY <1>2, <1>3, SubsetInduction
<1>5. S \in Q
  BY <1>4
<1> QED
  BY <1>1, <1>5 DEF MergingLoop

LEMMA TreesCollect ==
    ASSUME NEW tree, IsTree(tree)
    PROVE  LET models == Manifest!collect_tree(tree)
           IN  /\ \A m : m \in DOMAIN models <=> Manifest!ClassesOf(tree, m) # {}
               /\ \A m \in DOMAIN models :
                     /\ \A f : f \in DOMAIN models[m].fields <=> Manifest!HasField(tree, m, f)
                     /\ \A f : f \in models[m].methods <=> Manifest!HasMethod(tree, m, f)
<1> DEFINE models == Manifest!collect_tree(tree)
<1>1. DOMAIN models = UNION {Manifest!Targets(tree.classes[i]) : i \in DOMAIN tree.classes}
  BY DEF Manifest!collect_tree
<1>2. \A m, c : c \in Manifest!ClassesOf(tree, m) <=>
                  \E i \in DOMAIN tree.classes : m \in Manifest!Targets(tree.classes[i]) /\ c = tree.classes[i]
  BY DEF Manifest!ClassesOf
<1>3. \A m \in DOMAIN models : Collected(tree, m, DOMAIN tree.classes, models[m])
  BY EntriesCollect
<1> HIDE DEF models
<1>4. \A m : m \in DOMAIN models <=> Manifest!ClassesOf(tree, m) # {}
  BY <1>1, <1>2
<1>5. ASSUME NEW m \in DOMAIN models, NEW f
      PROVE  f \in DOMAIN models[m].fields <=> Manifest!HasField(tree, m, f)
  BY <1>2, <1>3 DEF Collected, Manifest!HasField
<1>6. ASSUME NEW m \in DOMAIN models, NEW f
      PROVE  f \in models[m].methods <=> Manifest!HasMethod(tree, m, f)
  BY <1>2, <1>3 DEF Collected, Manifest!HasMethod
<1> QED
  BY <1>4, <1>5, <1>6 DEF models

\* What has at most as many elements as a finite set, as a function of them.
LEMMA ImagesAreFinite ==
    ASSUME NEW S, IsFiniteSet(S), NEW f
    PROVE  IsFiniteSet({f[x] : x \in S})
<1> DEFINE g == [x \in S |-> f[x]]
           T == {f[x] : x \in S}
<1>1. g \in Surjection(S, T)
  BY DEF Surjection
<1> QED
  BY <1>1, FS_Surjection

LEMMA TreesAreFinite ==
    ASSUME NEW tree, IsTree(tree)
    PROVE  LET models == Manifest!collect_tree(tree)
           IN  /\ IsFiniteSet(DOMAIN models) /\ DOMAIN models \subseteq Int
               /\ \A m \in DOMAIN models : IsFiniteSet(DOMAIN models[m].fields)
<1> DEFINE models == Manifest!collect_tree(tree)
           S == DOMAIN tree.classes
           t == [i \in S |-> Manifest!Targets(tree.classes[i])]
           d == [i \in S |-> DOMAIN tree.classes[i].fields]
<1>1. DOMAIN models = UNION {t[i] : i \in S}
  BY DEF Manifest!collect_tree
<1>2. FieldsOf(tree) = UNION {d[i] : i \in S}
  BY DEF FieldsOf
<1>3. \A i \in S : IsFiniteSet(t[i]) /\ IsFiniteSet(d[i]) /\ t[i] \subseteq Int
  BY DEF IsTree
<1>4. ASSUME NEW m \in DOMAIN models PROVE DOMAIN models[m].fields \subseteq FieldsOf(tree)
  <2>1. Collected(tree, m, S, models[m])
    BY EntriesCollect
  <2> HIDE DEF models
  <2> QED
    BY <2>1 DEF Collected, FieldsOf
<1> HIDE DEF models, t, d
<1>5. IsFiniteSet({t[i] : i \in S}) /\ IsFiniteSet({d[i] : i \in S})
  BY ClassesAreFinite, ImagesAreFinite
<1>6. IsFiniteSet(DOMAIN models) /\ IsFiniteSet(FieldsOf(tree))
  <2>1. IsFiniteSet(UNION {t[i] : i \in S})
    BY <1>3, <1>5, FS_UNION
  <2>2. IsFiniteSet(UNION {d[i] : i \in S})
    BY <1>3, <1>5, FS_UNION
  <2> QED
    BY <1>1, <1>2, <2>1, <2>2
<1>7. \A m \in DOMAIN models : IsFiniteSet(DOMAIN models[m].fields)
  BY <1>4, <1>6, FS_Subset
<1>8. DOMAIN models \subseteq Int
  BY <1>1, <1>3
<1> QED
  BY <1>6, <1>7, <1>8 DEF models

-----------------------------------------------------------------------------
(* gen_manifest.py: the matches.                                           *)

\* Models as a tree gives them.
Models(models) ==
    /\ IsFiniteSet(DOMAIN models) /\ DOMAIN models \subseteq Int
    /\ \A m \in DOMAIN models : IsFiniteSet(DOMAIN models[m].fields)

LEMMA ManifestCounts == ASSUME NEW S PROVE Manifest!Cardinality(S) = Cardinality(S)
BY Zenon DEF Manifest!Cardinality, Cardinality

LEMMA ScoresAreNumbers ==
    ASSUME NEW a, NEW b, IsFiniteSet(DOMAIN a.fields), IsFiniteSet(DOMAIN b.fields),
           Manifest!Common(a, b) >= MIN_FIELDS_FOR_MATCH
    PROVE  Manifest!Score(a, b) \in Int
<1> DEFINE A == DOMAIN a.fields
           B == DOMAIN b.fields
           c == Cardinality(A \intersect B)
           s == Manifest!Smaller(a, b)
<1>1. /\ Cardinality(A) \in Nat /\ Cardinality(B) \in Nat /\ c \in Nat
      /\ c <= Cardinality(A) /\ c <= Cardinality(B)
  <2>1. IsFiniteSet(A \intersect B) /\ c <= Cardinality(A) /\ c <= Cardinality(B)
    BY FS_Intersection
  <2> QED
    BY <2>1, FS_CardinalityType
<1>2. Manifest!Common(a, b) = c
  BY ManifestCounts DEF Manifest!Common
<1>3. MIN_FIELDS_FOR_MATCH \in Nat /\ MIN_FIELDS_FOR_MATCH > 0
  BY BriefAssumption
<1>4. s = Manifest!Min({Cardinality(A), Cardinality(B)})
  BY ManifestCounts DEF Manifest!Smaller
<1> HIDE DEF A, B, c, s
<1>5. s \in {Cardinality(A), Cardinality(B)}
  <2> DEFINE x == Cardinality(A)
             y == Cardinality(B)
  <2>1. \E n \in {x, y} : \A k \in {x, y} : n <= k
    <3>1. CASE x <= y
      BY <1>1, <3>1
    <3>2. CASE y <= x
      BY <1>1, <3>2
    <3> QED
      BY <1>1, <3>1, <3>2
  <2> HIDE DEF x, y
  <2>2. Manifest!Min({x, y}) \in {x, y}
    BY <2>1 DEF Manifest!Min
  <2> QED
    BY <1>4, <2>2 DEF x, y
<1>6. s \in Nat /\ s > 0
  BY <1>1, <1>2, <1>3, <1>5
<1>7. (2000 * c + s) \in Int /\ 2 * s \in Nat /\ 2 * s > 0
  BY <1>1, <1>6
<1>8. (2000 * c + s) \div (2 * s) \in Int
  BY <1>7
<1> QED
  BY <1>2, <1>8 DEF Manifest!Score, s

\* A pair is what it holds.
LEMMA PairsAre ==
    ASSUME NEW removed, NEW pool, Models(removed), Models(pool)
    PROVE  /\ IsFiniteSet(Manifest!Pairs(removed, pool))
           /\ Manifest!Pairs(removed, pool) \subseteq Int \X Int \X Int
           /\ \A p \in Manifest!Pairs(removed, pool) : p[2] \in DOMAIN removed
<1> DEFINE D == (DOMAIN removed) \X (DOMAIN pool)
           Q == {p \in D : /\ Manifest!Common(removed[p[1]], pool[p[2]]) >= MIN_FIELDS_FOR_MATCH
                           /\ Manifest!Score(removed[p[1]], pool[p[2]]) >= MODEL_MATCH_THRESHOLD}
           f == [q \in Q |-> <<Manifest!Score(removed[q[1]], pool[q[2]]), q[1], q[2]>>]
<1>1. Manifest!Pairs(removed, pool) = {f[q] : q \in Q}
  BY DEF Manifest!Pairs
<1>2. \A q \in Q : f[q] = <<Manifest!Score(removed[q[1]], pool[q[2]]), q[1], q[2]>>
  OBVIOUS
<1>3. IsFiniteSet(Q)
  <2>1. IsFiniteSet(D)
    BY FS_Product DEF Models
  <2> QED
    BY <2>1, FS_Subset
<1>4. \A q \in Q : /\ q[1] \in DOMAIN removed /\ q[2] \in DOMAIN pool
                   /\ Manifest!Common(removed[q[1]], pool[q[2]]) >= MIN_FIELDS_FOR_MATCH
  OBVIOUS
<1> HIDE DEF f, Q
<1>5. IsFiniteSet({f[q] : q \in Q})
  BY <1>3, ImagesAreFinite
<1>6. ASSUME NEW q \in Q PROVE f[q] \in Int \X Int \X Int /\ f[q][2] \in DOMAIN removed
  <2>1. q[1] \in Int /\ q[2] \in Int
    BY <1>4 DEF Models
  <2>2. IsFiniteSet(DOMAIN removed[q[1]].fields) /\ IsFiniteSet(DOMAIN pool[q[2]].fields)
    BY <1>4 DEF Models
  <2>3. Manifest!Score(removed[q[1]], pool[q[2]]) \in Int
    BY <1>4, <2>2, ScoresAreNumbers
  <2> QED
    BY <1>2, <1>4, <2>1, <2>3
<1> QED
  BY <1>1, <1>5, <1>6

LEMMA HindmostIsLast ==
    ASSUME NEW P, IsFiniteSet(P), P \subseteq Int \X Int \X Int, NEW s \in (SUBSET P) \ {{}}
    PROVE  LET p == Manifest!Hindmost(s)
           IN  p \in s /\ \A q \in s : q = p \/ Manifest!Ahead(q, p)
<1> DEFINE R == {t \in P \X P : t[2] = t[1] \/ Manifest!Ahead(t[2], t[1])}
<1>1. \A p, q \in P : <<p, q>> \in R <=> q = p \/ Manifest!Ahead(q, p)
  OBVIOUS
<1> HIDE DEF R
<1>2. \A p \in P : p[1] \in Int /\ p[2] \in Int /\ p[3] \in Int /\ p = <<p[1], p[2], p[3]>>
  OBVIOUS
<1>3. \A p, q \in P : <<p, q>> \in R \/ <<q, p>> \in R
  <2> TAKE p, q \in P
  <2>1. p[1] = q[1] /\ p[2] = q[2] /\ p[3] = q[3] => p = q
    BY <1>2
  <2>2. p = q \/ Manifest!Ahead(p, q) \/ Manifest!Ahead(q, p)
    BY <1>2, <2>1 DEF Manifest!Ahead
  <2> QED
    BY <1>1, <2>2
<1>4. \A p, q, r \in P : <<p, q>> \in R /\ <<q, r>> \in R => <<p, r>> \in R
  <2> SUFFICES ASSUME NEW p \in P, NEW q \in P, NEW r \in P, <<p, q>> \in R, <<q, r>> \in R
               PROVE  <<p, r>> \in R
    OBVIOUS
  <2>1. (q = p \/ Manifest!Ahead(q, p)) /\ (r = q \/ Manifest!Ahead(r, q))
    BY <1>1
  <2>2. Manifest!Ahead(q, p) /\ Manifest!Ahead(r, q) => Manifest!Ahead(r, p)
    BY <1>2 DEF Manifest!Ahead
  <2>3. r = p \/ Manifest!Ahead(r, p)
    BY <2>1, <2>2
  <2> QED
    BY <1>1, <2>3
<1>5. PICK p \in s : \A q \in s : <<p, q>> \in R
  <2>1. Linear(P, R)
    BY <1>3, <1>4 DEF Linear
  <2>2. \A t \in SUBSET P : t # {} => \E x \in t : \A y \in t : <<x, y>> \in R
    BY <2>1, HasFirst
  <2> QED
    BY <2>2
<1>6. p \in s /\ \A q \in s : q = p \/ Manifest!Ahead(q, p)
  BY <1>1, <1>5
<1> QED
  BY <1>6 DEF Manifest!Hindmost

\* The pairs taken of each set, the hindmost last.
MatchingLoop(P, matches, loop) ==
    /\ matches = loop[P]
    /\ loop[{}] = {}
    /\ \A s \in (SUBSET P) \ {{}} :
          loop[s] = Manifest!Take(Manifest!Hindmost(s), loop[s \ {Manifest!Hindmost(s)}])

LEMMA MatchesAreLoop ==
    ASSUME NEW removed, NEW pool, Models(removed), Models(pool)
    PROVE  \E loop : MatchingLoop(Manifest!Pairs(removed, pool), Manifest!best_matches(removed, pool), loop)
<1> DEFINE S == Manifest!Pairs(removed, pool)
           V == SUBSET S
           pick == [s \in SUBSET S |-> Manifest!Hindmost(s)]
           step == [t \in S \X V |-> Manifest!Take(t[1], t[2])]
<1>1. \A s \in (SUBSET S) \ {{}} : pick[s] = Manifest!Hindmost(s) /\ pick[s] \in s
  BY PairsAre, HindmostIsLast
<1>2. \A p \in S, r \in V : step[<<p, r>>] = Manifest!Take(p, r) /\ step[<<p, r>>] \in V
  <2> TAKE p \in S, r \in V
  <2>1. step[<<p, r>>] = Manifest!Take(p, r)
    OBVIOUS
  <2> HIDE DEF S, step
  <2> QED
    BY <2>1 DEF Manifest!Take
<1> HIDE DEF pick, step, V
<1>3. PICK loop : IsLoop(S, pick, {}, step, loop)
  BY <1>1, PairsAre, LoopExists
<1>4. /\ loop = [s \in SUBSET S |-> loop[s]] /\ loop[{}] = {}
      /\ \A s \in (SUBSET S) \ {{}} : loop[s] = step[<<pick[s], loop[s \ {pick[s]}]>>]
  BY <1>3 DEF IsLoop
<1>5. \A s \in SUBSET S : loop[s] \in V
  <2> DEFINE Q == {s \in SUBSET S : loop[s] \in V}
  <2>1. ASSUME NEW s \in SUBSET S, \A x \in s : s \ {x} \in Q PROVE s \in Q
    <3>1. CASE s = {}
      <4>1. {} \in V
        BY DEF V
      <4> QED
        BY <1>4, <3>1, <4>1
    <3>2. CASE s # {}
      <4>1. pick[s] \in S /\ s \ {pick[s]} \in Q
        BY <1>1, <2>1, <3>2
      <4>2. loop[s \ {pick[s]}] \in V
        BY <4>1
      <4>3. loop[s] = step[<<pick[s], loop[s \ {pick[s]}]>>]
        BY <1>4, <3>2
      <4>4. loop[s] \in V
        BY <1>2, <4>1, <4>2, <4>3
      <4> QED
        BY <4>4
    <3> QED
      BY <3>1, <3>2
  <2>2. IsFiniteSet(S)
    BY PairsAre
  <2> HIDE DEF Q, S
  <2>3. SUBSET S \subseteq Q
    BY <2>1, <2>2, SubsetInduction
  <2> QED
    BY <2>3 DEF Q
<1> DEFINE Body(g, s) == IF s = {} THEN {}
                         ELSE Manifest!Take(Manifest!Hindmost(s), g[s \ {Manifest!Hindmost(s)}])
           e == CHOOSE g : g = [s \in SUBSET S |-> Body(g, s)]
<1>6. \A s \in SUBSET S : loop[s] = Body(loop, s)
  <2> TAKE s \in SUBSET S
  <2>1. CASE s = {}
    BY <1>4, <2>1
  <2>2. CASE s # {}
    <3>1. pick[s] \in S /\ pick[s] = Manifest!Hindmost(s) /\ loop[s \ {pick[s]}] \in V
      BY <1>1, <1>5, <2>2
    <3>2. loop[s] = Manifest!Take(pick[s], loop[s \ {pick[s]}])
      BY <1>2, <1>4, <2>2, <3>1
    <3> QED
      BY <2>2, <3>1, <3>2
  <2> QED
    BY <2>1, <2>2
<1>7. loop = [s \in SUBSET S |-> Body(loop, s)]
  <2> HIDE DEF Body
  <2> QED
    BY <1>4, <1>6
<1>8. e = [s \in SUBSET S |-> Body(e, s)]
  <2> HIDE DEF Body
  <2> QED
    BY <1>7, Zenon
<1>9. Manifest!best_matches(removed, pool) = e[S]
  BY Zenon DEF Manifest!best_matches, Manifest!MapThenFoldSet
<1> HIDE DEF e, S
<1>10. e[{}] = {} /\ \A s \in (SUBSET S) \ {{}} :
         e[s] = Manifest!Take(Manifest!Hindmost(s), e[s \ {Manifest!Hindmost(s)}])
  BY <1>8
<1>11. MatchingLoop(S, Manifest!best_matches(removed, pool), e)
  BY <1>9, <1>10 DEF MatchingLoop
<1> QED
  BY <1>11 DEF S

\* Of the pairs in s, taken is what nobody has a better claim to.
Claimed(s, taken) ==
    /\ taken \subseteq s
    /\ \A p, q \in taken : p[2] = q[2] \/ p[3] = q[3] => p = q
    /\ \A p \in s : \E q \in taken : (q = p \/ Manifest!Ahead(q, p)) /\ (q[2] = p[2] \/ q[3] = p[3])

LEMMA TakingClaims ==
    ASSUME NEW s, NEW p \in s, \A q \in s : q = p \/ Manifest!Ahead(q, p),
           NEW taken, Claimed(s \ {p}, taken)
    PROVE  Claimed(s, Manifest!Take(p, taken))
<1>1. /\ taken \subseteq s \ {p}
      /\ \A x, y \in taken : x[2] = y[2] \/ x[3] = y[3] => x = y
      /\ \A x \in s \ {p} : \E y \in taken : (y = x \/ Manifest!Ahead(y, x)) /\ (y[2] = x[2] \/ y[3] = x[3])
  BY DEF Claimed
<1>2. CASE \E u \in taken : u[2] = p[2] \/ u[3] = p[3]
  <2>1. Manifest!Take(p, taken) = taken
    BY <1>2 DEF Manifest!Take
  <2>2. PICK u \in taken : u[2] = p[2] \/ u[3] = p[3]
    BY <1>2
  <2>3. Manifest!Ahead(u, p)
    BY <1>1, <2>2
  <2>4. \A x \in s : \E y \in taken : (y = x \/ Manifest!Ahead(y, x)) /\ (y[2] = x[2] \/ y[3] = x[3])
    BY <1>1, <2>2, <2>3
  <2> QED
    BY <1>1, <2>1, <2>4 DEF Claimed
<1>3. CASE ~\E u \in taken : u[2] = p[2] \/ u[3] = p[3]
  <2>1. Manifest!Take(p, taken) = taken \union {p}
    BY <1>3 DEF Manifest!Take
  <2>2. \A x, y \in taken \union {p} : x[2] = y[2] \/ x[3] = y[3] => x = y
    BY <1>1, <1>3
  <2>3. \A x \in s : \E y \in taken \union {p} :
           (y = x \/ Manifest!Ahead(y, x)) /\ (y[2] = x[2] \/ y[3] = x[3])
    BY <1>1
  <2> QED
    BY <1>1, <2>1, <2>2, <2>3 DEF Claimed
<1> QED
  BY <1>2, <1>3

LEMMA MatchesAreClaimed ==
    ASSUME NEW removed, NEW pool, Models(removed), Models(pool)
    PROVE  Claimed(Manifest!Pairs(removed, pool), Manifest!best_matches(removed, pool))
<1> DEFINE S == Manifest!Pairs(removed, pool)
<1>1. PICK loop : MatchingLoop(S, Manifest!best_matches(removed, pool), loop)
  BY MatchesAreLoop
<1>2. IsFiniteSet(S) /\ \A s \in (SUBSET S) \ {{}} :
         Manifest!Hindmost(s) \in s /\ \A q \in s : q = Manifest!Hindmost(s) \/ Manifest!Ahead(q, Manifest!Hindmost(s))
  BY PairsAre, HindmostIsLast
<1> DEFINE Q == {s \in SUBSET S : Claimed(s, loop[s])}
<1> HIDE DEF S
<1>3. ASSUME NEW s \in SUBSET S, \A x \in s : s \ {x} \in Q PROVE s \in Q
  <2>1. CASE s = {}
    <3>1. Claimed({}, {})
      BY DEF Claimed
    <3> QED
      BY <1>1, <2>1, <3>1 DEF MatchingLoop
  <2>2. CASE s # {}
    <3> DEFINE p == Manifest!Hindmost(s)
    <3>1. loop[s] = Manifest!Take(p, loop[s \ {p}])
      BY <1>1, <2>2 DEF MatchingLoop
    <3>2. p \in s /\ \A q \in s : q = p \/ Manifest!Ahead(q, p)
      BY <1>2, <2>2
    <3> HIDE DEF p
    <3>3. Claimed(s \ {p}, loop[s \ {p}])
      BY <1>3, <3>2
    <3>4. Claimed(s, loop[s])
      BY <3>1, <3>2, <3>3, TakingClaims
    <3> QED
      BY <3>4
  <2> QED
    BY <2>1, <2>2
<1>4. SUBSET S \subseteq Q
  <2> HIDE DEF Q
  <2> QED
    BY <1>2, <1>3, SubsetInduction
<1>5. S \in Q
  BY <1>4
<1>6. Claimed(S, Manifest!best_matches(removed, pool))
  BY <1>1, <1>5 DEF MatchingLoop
<1> QED
  BY <1>6 DEF S

LEMMA MatchesAreStable ==
    ASSUME NEW removed, NEW pool, Models(removed), Models(pool)
    PROVE  /\ Manifest!Stable(Manifest!best_matches(removed, pool), removed, pool)
           /\ \A p \in Manifest!best_matches(removed, pool) : p[2] \in DOMAIN removed
<1> DEFINE S == Manifest!Pairs(removed, pool)
           taken == Manifest!best_matches(removed, pool)
<1>1. Claimed(S, taken)
  BY MatchesAreClaimed
<1>2. S \subseteq Int \X Int \X Int /\ \A p \in S : p[2] \in DOMAIN removed
  BY PairsAre
<1>3. ASSUME NEW p \in (DOMAIN removed) \X (DOMAIN pool),
             Manifest!Common(removed[p[1]], pool[p[2]]) >= MIN_FIELDS_FOR_MATCH,
             Manifest!Score(removed[p[1]], pool[p[2]]) >= MODEL_MATCH_THRESHOLD
      PROVE  <<Manifest!Score(removed[p[1]], pool[p[2]]), p[1], p[2]>> \in S
  BY <1>3 DEF Manifest!Pairs
<1> HIDE DEF S, taken
<1>4. ASSUME NEW p \in (DOMAIN removed) \X (DOMAIN pool),
             Manifest!Common(removed[p[1]], pool[p[2]]) >= MIN_FIELDS_FOR_MATCH,
             Manifest!Score(removed[p[1]], pool[p[2]]) >= MODEL_MATCH_THRESHOLD
      PROVE  \E q \in taken : /\ q[1] >= Manifest!Score(removed[p[1]], pool[p[2]])
                              /\ q[2] = p[1] \/ q[3] = p[2]
  <2> DEFINE score == Manifest!Score(removed[p[1]], pool[p[2]])
             t == <<score, p[1], p[2]>>
  <2>1. t \in S
    BY <1>3, <1>4
  <2>2. t[1] = score /\ t[2] = p[1] /\ t[3] = p[2]
    OBVIOUS
  <2> HIDE DEF t, score
  <2>3. PICK q \in taken : (q = t \/ Manifest!Ahead(q, t)) /\ (q[2] = t[2] \/ q[3] = t[3])
    BY <1>1, <2>1 DEF Claimed
  <2>4. q \in S /\ q[1] \in Int /\ t[1] \in Int
    BY <1>1, <1>2, <2>1 DEF Claimed
  <2>5. q[1] >= t[1]
    BY <2>3, <2>4 DEF Manifest!Ahead
  <2> QED
    BY <2>2, <2>3, <2>5 DEF score
<1>5. \A p, q \in taken : p[2] = q[2] \/ p[3] = q[3] => p = q
  BY <1>1 DEF Claimed
<1>6. Manifest!Stable(taken, removed, pool)
  BY <1>4, <1>5 DEF Manifest!Stable
<1>7. \A p \in taken : p[2] \in DOMAIN removed
  BY <1>1, <1>2 DEF Claimed
<1> QED
  BY <1>6, <1>7 DEF taken

-----------------------------------------------------------------------------
(* gen_manifest.py, upgrade_brief.py: what is told of them.                *)

LEMMA TreesAreModels ==
    ASSUME NEW tree, IsTree(tree), NEW D, D \subseteq DOMAIN Manifest!collect_tree(tree)
    PROVE  Models(Manifest!Restrict(Manifest!collect_tree(tree), D))
<1> DEFINE models == Manifest!collect_tree(tree)
<1>1. /\ IsFiniteSet(DOMAIN models) /\ DOMAIN models \subseteq Int
      /\ \A m \in DOMAIN models : IsFiniteSet(DOMAIN models[m].fields)
  BY TreesAreFinite
<1> HIDE DEF models
<1>2. IsFiniteSet(D) /\ D \subseteq Int
  BY <1>1, FS_Subset DEF models
<1>3. LET r == Manifest!Restrict(models, D)
      IN  DOMAIN r = D /\ \A m \in D : r[m] = models[m]
  BY DEF Manifest!Restrict
<1>4. \A m \in D : m \in DOMAIN models
  BY DEF models
<1>5. Models(Manifest!Restrict(models, D))
  BY <1>1, <1>2, <1>3, <1>4 DEF Models
<1> QED
  BY <1>5 DEF models

\* The manifest by what is in the two trees.
Manifested(old, new, manifest) ==
    LET om == Manifest!collect_tree(old)
        nm == Manifest!collect_tree(new)
        gone == DOMAIN om \ DOMAIN nm
        both == DOMAIN om \intersect DOMAIN nm
    IN  /\ manifest.removed = gone
        /\ manifest.renamed = Manifest!best_matches(Manifest!Restrict(om, gone),
                                                    Manifest!Restrict(nm, DOMAIN nm \ DOMAIN om))
        /\ manifest.merged = Manifest!best_matches(Manifest!Restrict(om, gone \ {r[2] : r \in manifest.renamed}),
                                                   Manifest!Restrict(nm, both))
        /\ DOMAIN manifest.changed = {b \in both : Manifest!DiffModel(om[b], nm[b]) # Manifest!Unchanged}
        /\ \A m \in DOMAIN manifest.changed : manifest.changed[m] = Manifest!DiffModel(om[m], nm[m])
        /\ manifest.modules = old.modules \ new.modules /\ manifest.xmlids = old.xmlids \ new.xmlids

LEMMA ManifestIs ==
    ASSUME NEW old, NEW new
    PROVE  Manifested(old, new, Manifest!build_manifest(old, new))
<1> DEFINE om == Manifest!collect_tree(old)
           nm == Manifest!collect_tree(new)
           gone == DOMAIN om \ DOMAIN nm
           added == DOMAIN nm \ DOMAIN om
           both == DOMAIN om \intersect DOMAIN nm
           removed == Manifest!Restrict(om, gone)
           renamed == Manifest!best_matches(removed, Manifest!Restrict(nm, added))
           names == {r[2] : r \in renamed}
           leftover == Manifest!Restrict(removed, DOMAIN removed \ names)
           merged == Manifest!best_matches(leftover, Manifest!Restrict(nm, both))
           differ == {b \in both : Manifest!DiffModel(om[b], nm[b]) # Manifest!Unchanged}
           changed == [m \in differ |-> Manifest!DiffModel(om[m], nm[m])]
           manifest == Manifest!build_manifest(old, new)
<1>1. manifest = [removed |-> DOMAIN removed, renamed |-> renamed, merged |-> merged, changed |-> changed,
                  modules |-> old.modules \ new.modules, xmlids |-> old.xmlids \ new.xmlids]
  BY Zenon DEF Manifest!build_manifest
<1>2. DOMAIN removed = gone
  BY DEF Manifest!Restrict
<1>3. leftover = Manifest!Restrict(om, gone \ names)
  <2>1. \A m \in gone \ names : removed[m] = om[m]
    BY DEF Manifest!Restrict
  <2>2. leftover = [m \in gone \ names |-> removed[m]]
    BY <1>2 DEF Manifest!Restrict
  <2> HIDE DEF removed, gone, names, om
  <2>3. [m \in gone \ names |-> removed[m]] = [m \in gone \ names |-> om[m]]
    BY <2>1
  <2> QED
    BY <2>2, <2>3 DEF Manifest!Restrict
<1>4. DOMAIN changed = differ /\ \A m \in differ : changed[m] = Manifest!DiffModel(om[m], nm[m])
  OBVIOUS
<1> HIDE DEF manifest, changed, merged, leftover, renamed, removed
<1>5. /\ manifest.removed = gone /\ manifest.renamed = renamed /\ manifest.merged = merged
      /\ manifest.changed = changed
      /\ manifest.modules = old.modules \ new.modules /\ manifest.xmlids = old.xmlids \ new.xmlids
  BY <1>1, <1>2
<1>6. merged = Manifest!best_matches(Manifest!Restrict(om, gone \ names), Manifest!Restrict(nm, both))
  BY <1>3 DEF merged
<1>7. renamed = Manifest!best_matches(Manifest!Restrict(om, gone), Manifest!Restrict(nm, added))
  BY DEF renamed, removed
<1> QED
  BY <1>4, <1>5, <1>6, <1>7 DEF manifest, Manifested

LEMMA BriefAnswered ==
    ASSUME Given, Answered("upgrade_brief")
    PROVE  /\ IsTree(asked.trees.old) /\ IsTree(asked.trees.new)
           /\ Manifested(asked.trees.old, asked.trees.new, answer.manifest)
           /\ answer.brief = Manifest!build_brief(asked.usage, answer.manifest)
           /\ answer.effort = Manifest!effort_grade(answer.brief)
<1>1. asked \in Questions["upgrade_brief"] /\ answer = Manifest!gen_and_brief(asked.trees, asked.usage)
  BY DEF Given, Answered
<1>2. IsTree(asked.trees.old) /\ IsTree(asked.trees.new)
  BY <1>1, BriefAssumption
<1>3. answer = LET manifest == Manifest!build_manifest(asked.trees.old, asked.trees.new)
                   brief == Manifest!build_brief(asked.usage, manifest)
               IN  [manifest |-> manifest, brief |-> brief, effort |-> Manifest!effort_grade(brief)]
  BY <1>1, Zenon DEF Manifest!gen_and_brief
<1>4. answer.manifest = Manifest!build_manifest(asked.trees.old, asked.trees.new)
  BY <1>3
<1>5. Manifested(asked.trees.old, asked.trees.new, answer.manifest)
  BY <1>4, ManifestIs
<1> QED
  BY <1>2, <1>3, <1>5

\* An error of the brief keeps the grade from S, and one of these two from M.
LEMMA ErrorsAreGraded ==
    ASSUME NEW brief, NEW f \in brief, f.severity = "ERROR"
    PROVE  /\ Manifest!effort_grade(brief) # "S"
           /\ f.kind \in {"removed_model", "removed_module_dependency"} => Manifest!effort_grade(brief) \notin {"S", "M"}
<1> DEFINE errors == {e \in brief : e.severity = "ERROR"}
<1>1. f \in errors
  OBVIOUS
<1> HIDE DEF errors
<1>2. errors # {}
  BY <1>1
<1>3. Manifest!effort_grade(brief) =
         IF errors = {} THEN "S"
         ELSE IF Manifest!Cardinality(errors) >= 5
                 \/ \E e \in errors : e.kind \in {"removed_model", "removed_module_dependency"}
              THEN "L" ELSE "M"
  BY Zenon DEF Manifest!effort_grade, errors
<1>4. Manifest!effort_grade(brief) # "S"
  BY <1>2, <1>3
<1>5. ASSUME f.kind \in {"removed_model", "removed_module_dependency"}
      PROVE  Manifest!effort_grade(brief) = "L"
  <2>1. \E e \in errors : e.kind \in {"removed_model", "removed_module_dependency"}
    BY <1>1, <1>5
  <2> QED
    BY <1>2, <1>3, <2>1
<1> QED
  BY <1>4, <1>5

LEMMA FindingsInBrief ==
    ASSUME NEW usage, NEW manifest
    PROVE  LET brief == Manifest!build_brief(usage, manifest)
           IN  /\ \A d \in usage.depends \intersect manifest.modules :
                     Manifest!Finding("ERROR", "removed_module_dependency", d) \in brief
               /\ \A m \in usage.models \intersect manifest.removed :
                     Manifest!Finding("ERROR", "removed_model", m) \in brief
               /\ \A x \in usage.xmlids \intersect manifest.xmlids :
                     Manifest!Finding("ERROR", "removed_xmlid", x) \in brief
               /\ \A m \in usage.models \intersect DOMAIN manifest.changed :
                     Manifest!ChangedFindings(usage, m, manifest.changed[m]) \subseteq brief
<1> DEFINE brief == Manifest!build_brief(usage, manifest)
           A == {Manifest!Finding("ERROR", "removed_module_dependency", d) : d \in usage.depends \intersect manifest.modules}
           B == {Manifest!Finding("ERROR", "removed_model", m) : m \in usage.models \intersect manifest.removed}
           C == UNION {Manifest!ChangedFindings(usage, m, manifest.changed[m]) :
                         m \in usage.models \intersect DOMAIN manifest.changed}
           D == {Manifest!Finding("ERROR", "removed_xmlid", x) : x \in usage.xmlids \intersect manifest.xmlids}
<1>1. brief = A \union B \union C \union D
  BY DEF Manifest!build_brief
<1>2. \A d \in usage.depends \intersect manifest.modules :
         Manifest!Finding("ERROR", "removed_module_dependency", d) \in A
  OBVIOUS
<1>3. \A m \in usage.models \intersect manifest.removed : Manifest!Finding("ERROR", "removed_model", m) \in B
  OBVIOUS
<1>4. \A m \in usage.models \intersect DOMAIN manifest.changed :
         Manifest!ChangedFindings(usage, m, manifest.changed[m]) \subseteq C
  OBVIOUS
<1>5. \A x \in usage.xmlids \intersect manifest.xmlids : Manifest!Finding("ERROR", "removed_xmlid", x) \in D
  OBVIOUS
<1> HIDE DEF brief, A, B, C, D
<1>6. A \subseteq brief /\ B \subseteq brief /\ C \subseteq brief /\ D \subseteq brief
  BY <1>1
<1> QED
  BY <1>2, <1>3, <1>4, <1>5, <1>6 DEF brief

LEMMA GradeAnswered ==
    ASSUME Given, Answered("upgrade_brief") PROVE GradeCoversWhatIsGone
<1> DEFINE usage == asked.usage
           old == asked.trees.old
           new == asked.trees.new
           om == Manifest!collect_tree(old)
           nm == Manifest!collect_tree(new)
           gone == {m \in usage.models : Manifest!ClassesOf(old, m) # {} /\ Manifest!ClassesOf(new, m) = {}}
           brief == answer.brief
           manifest == answer.manifest
<1>1. /\ \A m : m \in DOMAIN om <=> Manifest!ClassesOf(old, m) # {}
      /\ \A m : m \in DOMAIN nm <=> Manifest!ClassesOf(new, m) # {}
  BY BriefAnswered, TreesCollect
<1>2. /\ manifest.removed = DOMAIN om \ DOMAIN nm
      /\ manifest.modules = old.modules \ new.modules /\ manifest.xmlids = old.xmlids \ new.xmlids
  BY BriefAnswered DEF Manifested
<1>3. /\ \A d \in usage.depends \intersect manifest.modules :
            Manifest!Finding("ERROR", "removed_module_dependency", d) \in brief
      /\ \A m \in usage.models \intersect manifest.removed : Manifest!Finding("ERROR", "removed_model", m) \in brief
      /\ \A x \in usage.xmlids \intersect manifest.xmlids : Manifest!Finding("ERROR", "removed_xmlid", x) \in brief
  BY BriefAnswered, FindingsInBrief
<1>4. answer.effort = Manifest!effort_grade(brief)
  BY BriefAnswered
<1>5. \A kind, subject :
         LET f == Manifest!Finding("ERROR", kind, subject) IN f.severity = "ERROR" /\ f.kind = kind
  BY DEF Manifest!Finding
<1> HIDE DEF om, nm, brief, manifest, old, new
<1>6. ASSUME answer.effort \in {"S", "M"} PROVE gone = {}
  <2> SUFFICES ASSUME NEW m \in gone PROVE FALSE
    OBVIOUS
  <2>1. m \in usage.models \intersect manifest.removed
    BY <1>1, <1>2
  <2> HIDE DEF usage, gone
  <2>2. Manifest!Finding("ERROR", "removed_model", m) \in brief
    BY <1>3, <2>1
  <2> QED
    BY <1>4, <1>5, <1>6, <2>2, ErrorsAreGraded
<1>7. ASSUME answer.effort \in {"S", "M"} PROVE usage.depends \intersect (old.modules \ new.modules) = {}
  <2> SUFFICES ASSUME NEW d \in usage.depends \intersect (old.modules \ new.modules) PROVE FALSE
    OBVIOUS
  <2>1. Manifest!Finding("ERROR", "removed_module_dependency", d) \in brief
    BY <1>2, <1>3
  <2> QED
    BY <1>4, <1>5, <1>7, <2>1, ErrorsAreGraded
<1>8. ASSUME answer.effort = "S" PROVE usage.xmlids \intersect old.xmlids \subseteq new.xmlids
  <2> SUFFICES ASSUME NEW x \in usage.xmlids \intersect old.xmlids, x \notin new.xmlids PROVE FALSE
    OBVIOUS
  <2>1. Manifest!Finding("ERROR", "removed_xmlid", x) \in brief
    BY <1>2, <1>3
  <2> QED
    BY <1>4, <1>5, <1>8, <2>1, ErrorsAreGraded
<1> HIDE DEF gone
<1> QED
  BY <1>6, <1>7, <1>8 DEF GradeCoversWhatIsGone, gone, old, new

LEMMA LossesWarned ==
    ASSUME Given, Answered("upgrade_brief") PROVE NamedLossesAreWarned
<1> DEFINE usage == asked.usage
           old == asked.trees.old
           new == asked.trees.new
           om == Manifest!collect_tree(old)
           nm == Manifest!collect_tree(new)
           brief == answer.brief
           manifest == answer.manifest
           Warned(m, w) == \E f \in brief : f.severity = "WARNING" /\ f.subject = <<m, w>>
<1> SUFFICES ASSUME NEW m \in usage.models, NEW w \in usage.words,
                    Manifest!ClassesOf(old, m) # {}, Manifest!ClassesOf(new, m) # {}
             PROVE  /\ Manifest!HasField(old, m, w.word) /\ ~Manifest!HasField(new, m, w.word)
                         => Warned(m, w.word)
                    /\ Manifest!HasMethod(old, m, w.word) /\ ~Manifest!HasMethod(new, m, w.word)
                           /\ (w.word \in Generic => m \in w.models)
                         => Warned(m, w.word)
  BY DEF NamedLossesAreWarned
<1>1. m \in DOMAIN om /\ m \in DOMAIN nm
  BY BriefAnswered, TreesCollect
<1>2. /\ w.word \in DOMAIN om[m].fields <=> Manifest!HasField(old, m, w.word)
      /\ w.word \in om[m].methods <=> Manifest!HasMethod(old, m, w.word)
  BY <1>1, BriefAnswered, TreesCollect
<1>3. /\ w.word \in DOMAIN nm[m].fields <=> Manifest!HasField(new, m, w.word)
      /\ w.word \in nm[m].methods <=> Manifest!HasMethod(new, m, w.word)
  BY <1>1, BriefAnswered, TreesCollect
<1> DEFINE diff == Manifest!DiffModel(om[m], nm[m])
<1>4. /\ DOMAIN manifest.changed =
            {b \in DOMAIN om \intersect DOMAIN nm : Manifest!DiffModel(om[b], nm[b]) # Manifest!Unchanged}
      /\ \A b \in DOMAIN manifest.changed : manifest.changed[b] = Manifest!DiffModel(om[b], nm[b])
  BY BriefAnswered DEF Manifested
<1>5. m \in DOMAIN manifest.changed => Manifest!ChangedFindings(usage, m, manifest.changed[m]) \subseteq brief
  BY BriefAnswered, FindingsInBrief
<1> HIDE DEF om, nm, brief, manifest, old, new, usage
<1>6. /\ diff.fields_removed = DOMAIN om[m].fields \ DOMAIN nm[m].fields
      /\ diff.methods_removed = om[m].methods \ nm[m].methods
  BY DEF Manifest!DiffModel
<1>7. Manifest!Unchanged.fields_removed = {} /\ Manifest!Unchanged.methods_removed = {}
  BY DEF Manifest!Unchanged
<1> HIDE DEF diff
<1>8. ASSUME diff # Manifest!Unchanged PROVE Manifest!ChangedFindings(usage, m, diff) \subseteq brief
  BY <1>1, <1>4, <1>5, <1>8 DEF diff
<1>9. ASSUME Manifest!HasField(old, m, w.word), ~Manifest!HasField(new, m, w.word)
      PROVE  Warned(m, w.word)
  <2>1. w.word \in diff.fields_removed
    BY <1>2, <1>3, <1>6, <1>9
  <2>2. diff # Manifest!Unchanged
    BY <1>7, <2>1
  <2> DEFINE f == Manifest!Finding("WARNING", "removed_field_usage", <<m, w.word>>)
  <2>3. f \in Manifest!ChangedFindings(usage, m, diff)
    BY <2>1 DEF Manifest!ChangedFindings
  <2>4. f.severity = "WARNING" /\ f.subject = <<m, w.word>>
    BY DEF Manifest!Finding
  <2> HIDE DEF f
  <2> QED
    BY <1>8, <2>2, <2>3, <2>4
<1>10. ASSUME Manifest!HasMethod(old, m, w.word), ~Manifest!HasMethod(new, m, w.word),
              w.word \in Generic => m \in w.models
       PROVE  Warned(m, w.word)
  <2>1. w.word \in diff.methods_removed
    BY <1>2, <1>3, <1>6, <1>10
  <2>2. diff # Manifest!Unchanged
    BY <1>7, <2>1
  <2>3. Manifest!Appears(usage, w.word, m)
    BY <1>10 DEF Manifest!Appears
  <2> DEFINE f == Manifest!Finding("WARNING", "removed_method_usage", <<m, w.word>>)
  <2>4. f \in Manifest!ChangedFindings(usage, m, diff)
    BY <2>1, <2>3 DEF Manifest!ChangedFindings
  <2>5. f.severity = "WARNING" /\ f.subject = <<m, w.word>>
    BY DEF Manifest!Finding
  <2> HIDE DEF f
  <2> QED
    BY <1>8, <2>2, <2>4, <2>5
<1> QED
  BY <1>9, <1>10

LEMMA CandidatesAnswered ==
    ASSUME Given, Answered("upgrade_brief") PROVE CandidatesAreStable
<1> DEFINE old == asked.trees.old
           new == asked.trees.new
           om == Manifest!collect_tree(old)
           nm == Manifest!collect_tree(new)
           manifest == answer.manifest
           gone == DOMAIN om \ DOMAIN nm
           both == DOMAIN om \intersect DOMAIN nm
           added == DOMAIN nm \ DOMAIN om
           renamed == {r[2] : r \in manifest.renamed}
           A == Manifest!Restrict(om, gone)
           B == Manifest!Restrict(nm, added)
           C == Manifest!Restrict(om, gone \ renamed)
           E == Manifest!Restrict(nm, both)
<1>1. /\ manifest.removed = gone
      /\ manifest.renamed = Manifest!best_matches(A, B)
      /\ manifest.merged = Manifest!best_matches(C, E)
  BY BriefAnswered DEF Manifested
<1>2. Models(A) /\ Models(B) /\ Models(C) /\ Models(E)
  <2>1. gone \subseteq DOMAIN om /\ gone \ renamed \subseteq DOMAIN om
    OBVIOUS
  <2>2. added \subseteq DOMAIN nm /\ both \subseteq DOMAIN nm
    OBVIOUS
  <2> HIDE DEF gone, renamed, added, both
  <2>3. Models(A)
    BY <2>1, BriefAnswered, TreesAreModels
  <2>4. Models(B)
    BY <2>2, BriefAnswered, TreesAreModels
  <2>5. Models(C)
    BY <2>1, BriefAnswered, TreesAreModels
  <2>6. Models(E)
    BY <2>2, BriefAnswered, TreesAreModels
  <2> QED
    BY <2>3, <2>4, <2>5, <2>6
<1>3. DOMAIN C = gone \ renamed
  BY DEF Manifest!Restrict
<1>4. \A S : Restrict(om, S) = Manifest!Restrict(om, S) /\ Restrict(nm, S) = Manifest!Restrict(nm, S)
  BY Zenon DEF Restrict, Manifest!Restrict
<1> HIDE DEF om, nm, manifest, A, B, C, E, old, new
<1>5. Manifest!Stable(manifest.renamed, A, B)
  BY <1>1, <1>2, MatchesAreStable
<1>6. Manifest!Stable(manifest.merged, C, E) /\ \A p \in manifest.merged : p[2] \in DOMAIN C
  BY <1>1, <1>2, MatchesAreStable
<1>7. renamed \intersect {r[2] : r \in manifest.merged} = {}
  BY <1>3, <1>6
<1>8. /\ Manifest!Stable(manifest.renamed, Restrict(om, manifest.removed), Restrict(nm, added))
      /\ Manifest!Stable(manifest.merged, Restrict(om, manifest.removed \ renamed), Restrict(nm, DOMAIN nm \intersect DOMAIN om))
  <2>1. DOMAIN nm \intersect DOMAIN om = both
    OBVIOUS
  <2> HIDE DEF gone, renamed, added, both
  <2>2. Restrict(om, manifest.removed) = A /\ Restrict(nm, added) = B
    BY <1>1, <1>4 DEF A, B
  <2>3. Restrict(om, manifest.removed \ renamed) = C /\ Restrict(nm, DOMAIN nm \intersect DOMAIN om) = E
    BY <1>1, <1>4, <2>1 DEF C, E
  <2> QED
    BY <1>5, <1>6, <2>2, <2>3
<1> HIDE DEF renamed
<1> QED
  BY <1>7, <1>8 DEF CandidatesAreStable, renamed, om, nm, manifest, old, new

\* The brief for a module tells of what the new version takes from it, and what
\* it suggests instead is consistent.
THEOREM BriefsTellOfLosses == Spec => []BriefTellsOfLosses
<1>1. Given => BriefTellsOfLosses
  BY GradeAnswered, LossesWarned, CandidatesAnswered
     DEF BriefTellsOfLosses, GradeCoversWhatIsGone, NamedLossesAreWarned, CandidatesAreStable
<1> QED
  BY <1>1, AlwaysGiven, PTL

-----------------------------------------------------------------------------
(* evidence_schema.py, validate                                            *)

\* What an error is about, and when there is one.
LEMMA ErrorsAbout ==
    ASSUME NEW artifact, NEW k
    PROVE  (\E e \in Schema!validate_artifact(artifact) : e[1] = k) <=>
              \/ k \in Schema!RequiredTop /\ artifact[k].shape = "absent"
              \/ k = "schema_version" /\ artifact.schema_version # "1.0"
              \/ k = "generated_at" /\ artifact.generated_at # "text"
              \/ /\ k \in DOMAIN Schema!Objects /\ artifact[k].shape \notin Schema!Skipped(k)
                 /\ Schema!Wrong(artifact[k], Schema!Objects[k]) # {}
              \/ k \in DOMAIN Schema!Lists /\ Schema!WrongItems(artifact[k], Schema!Lists[k]) # {}
              \/ k = "checks" /\ Schema!Approves(artifact) /\ Schema!WarmGating(artifact)
<1> DEFINE required == {r \in Schema!RequiredTop : artifact[r].shape = "absent"}
           there == {o \in DOMAIN Schema!Objects : artifact[o].shape \notin Schema!Skipped(o)}
           missing == {<<r, 0, "missing">> : r \in required}
           version == IF artifact.schema_version = "1.0" THEN {} ELSE {<<"schema_version", 0, "value">>}
           made == IF artifact.generated_at \in Schema!NonEmpty THEN {} ELSE {<<"generated_at", 0, "value">>}
           InObject(o) == {<<o, 0, f>> : f \in Schema!Wrong(artifact[o], Schema!Objects[o])}
           InList(l) == {<<l, w[1], w[2]>> : w \in Schema!WrongItems(artifact[l], Schema!Lists[l])}
           objects == UNION {InObject(o) : o \in there}
           lists == UNION {InList(l) : l \in DOMAIN Schema!Lists}
           warm == IF Schema!Approves(artifact) /\ Schema!WarmGating(artifact) THEN {<<"checks", 0, "warm">>} ELSE {}
           all == (((((missing \union version) \union made) \union objects) \union lists) \union warm)
           About(S) == \E e \in S : e[1] = k
<1>1. Schema!validate_artifact(artifact) = all
  BY Zenon DEF Schema!validate_artifact
<1>2. About(missing) <=> k \in Schema!RequiredTop /\ artifact[k].shape = "absent"
  <2>1. ASSUME k \in required PROVE About(missing)
    <3>1. <<k, 0, "missing">> \in missing
      BY <2>1
    <3>2. <<k, 0, "missing">>[1] = k
      OBVIOUS
    <3> QED
      BY <3>1, <3>2
  <2>2. ASSUME About(missing) PROVE k \in required
    <3>1. PICK r \in required : <<r, 0, "missing">>[1] = k
      BY <2>2
    <3> QED
      BY <3>1
  <2> QED
    BY <2>1, <2>2
<1>3. About(version) <=> k = "schema_version" /\ artifact.schema_version # "1.0"
  <2>1. CASE artifact.schema_version = "1.0"
    BY <2>1
  <2>2. CASE artifact.schema_version # "1.0"
    <3>1. version = {<<"schema_version", 0, "value">>}
      BY <2>2
    <3>2. <<"schema_version", 0, "value">>[1] = "schema_version"
      OBVIOUS
    <3> HIDE DEF version
    <3> QED
      BY <2>2, <3>1, <3>2, Zenon
  <2> QED
    BY <2>1, <2>2
<1>4. About(made) <=> k = "generated_at" /\ artifact.generated_at # "text"
  <2>1. CASE artifact.generated_at = "text"
    BY <2>1 DEF Schema!NonEmpty
  <2>2. CASE artifact.generated_at # "text"
    <3>1. made = {<<"generated_at", 0, "value">>}
      BY <2>2 DEF Schema!NonEmpty
    <3>2. <<"generated_at", 0, "value">>[1] = "generated_at"
      OBVIOUS
    <3> HIDE DEF made
    <3> QED
      BY <2>2, <3>1, <3>2, Zenon
  <2> QED
    BY <2>1, <2>2
<1>5. About(objects) <=> k \in there /\ Schema!Wrong(artifact[k], Schema!Objects[k]) # {}
  <2>1. \A o : \A e \in InObject(o) : e[1] = o
    OBVIOUS
  <2>2. \A o : InObject(o) # {} <=> Schema!Wrong(artifact[o], Schema!Objects[o]) # {}
    OBVIOUS
  <2> HIDE DEF InObject, there
  <2>3. About(objects) <=> \E o \in there : \E e \in InObject(o) : e[1] = k
    OBVIOUS
  <2> QED
    BY <2>1, <2>2, <2>3
<1>6. About(lists) <=> k \in DOMAIN Schema!Lists /\ Schema!WrongItems(artifact[k], Schema!Lists[k]) # {}
  <2>1. \A l : \A e \in InList(l) : e[1] = l
    OBVIOUS
  <2>2. \A l : InList(l) # {} <=> Schema!WrongItems(artifact[l], Schema!Lists[l]) # {}
    OBVIOUS
  <2> HIDE DEF InList
  <2>3. About(lists) <=> \E l \in DOMAIN Schema!Lists : \E e \in InList(l) : e[1] = k
    OBVIOUS
  <2> QED
    BY <2>1, <2>2, <2>3
<1>7. About(warm) <=> k = "checks" /\ Schema!Approves(artifact) /\ Schema!WarmGating(artifact)
  <2>1. CASE ~(Schema!Approves(artifact) /\ Schema!WarmGating(artifact))
    <3>1. warm = {}
      BY <2>1
    <3> QED
      BY <2>1, <3>1
  <2>2. CASE Schema!Approves(artifact) /\ Schema!WarmGating(artifact)
    <3>1. warm = {<<"checks", 0, "warm">>}
      BY <2>2
    <3>2. <<"checks", 0, "warm">>[1] = "checks"
      OBVIOUS
    <3> HIDE DEF warm
    <3> QED
      BY <2>2, <3>1, <3>2, Zenon
  <2> QED
    BY <2>1, <2>2
<1> HIDE DEF missing, version, made, objects, lists, warm
<1>8. About(all) <=> \/ About(missing) \/ About(version) \/ About(made)
                     \/ About(objects) \/ About(lists) \/ About(warm)
  OBVIOUS
<1> QED
  BY <1>1, <1>2, <1>3, <1>4, <1>5, <1>6, <1>7, <1>8

LEMMA WrongIsNot ==
    ASSUME NEW part, NEW fields PROVE Schema!Wrong(part, fields) # {} <=> ~IsOf(part, fields)
BY DEF Schema!Wrong, IsOf

LEMMA WrongItemsAre ==
    ASSUME NEW part, NEW fields
    PROVE  Schema!WrongItems(part, fields) # {} <=>
              /\ part.shape # "absent"
              /\ ~(part.shape = "list" /\ \A i \in DOMAIN part.items : IsOf(part.items[i], fields))
<1>1. CASE part.shape = "absent"
  BY <1>1 DEF Schema!WrongItems
<1>2. CASE part.shape = "list"
  <2> DEFINE Of(i) == {i} \X Schema!Wrong(part.items[i], fields)
  <2>1. Schema!WrongItems(part, fields) = UNION {Of(i) : i \in DOMAIN part.items}
    BY <1>2 DEF Schema!WrongItems
  <2>2. \A i : Of(i) # {} <=> Schema!Wrong(part.items[i], fields) # {}
    <3> SUFFICES ASSUME NEW i PROVE Of(i) # {} <=> Schema!Wrong(part.items[i], fields) # {}
      OBVIOUS
    <3>1. ASSUME NEW f \in Schema!Wrong(part.items[i], fields) PROVE <<i, f>> \in Of(i)
      OBVIOUS
    <3>2. Schema!Wrong(part.items[i], fields) = {} => Of(i) = {}
      OBVIOUS
    <3> QED
      BY <3>1, <3>2
  <2> HIDE DEF Of
  <2>3. Schema!WrongItems(part, fields) # {} <=> \E i \in DOMAIN part.items : Of(i) # {}
    BY <2>1
  <2> QED
    BY <1>2, <2>2, <2>3, WrongIsNot
<1>3. CASE part.shape \notin {"absent", "list"}
  BY <1>3 DEF Schema!WrongItems
<1> QED
  BY <1>1, <1>2, <1>3

LEMMA ErrorsAnswered ==
    ASSUME Given, Answered("evidence_validate") PROVE ErrorsAreComplete
<1> DEFINE artifact == asked.artifact
           items == artifact.checks.items
           warm == {i \in DOMAIN items : /\ items[i].shape = "object"
                                         /\ items[i].cache_provenance = "warm"
                                         /\ items[i].layer \in {"gate", "verify"}}
           approves == artifact.decision.shape = "object" /\ artifact.decision.decision = "approve"
           about == {e[1] : e \in answer.errors}
           warned == Schema!Approves(artifact) /\ Schema!WarmGating(artifact)
<1>1. /\ asked.damaged = {k \in ArtifactParts : ~IsSound(artifact, k)}
      /\ answer.errors = Schema!validate_artifact(artifact)
  BY ValidateAssumption DEF Given, Answered
<1> HIDE DEF artifact
<1>2. warned <=> approves /\ warm # {} /\ artifact.checks.shape = "list"
  BY DEF Schema!Approves, Schema!WarmGating, Schema!MergeGatingLayers
<1> HIDE DEF warned
<1>3. /\ DOMAIN Schema!Objects = {"git", "decision", "redaction", "instance", "addons"}
      /\ DOMAIN Schema!Lists = {"checks", "human_signoffs"}
  BY DEF Schema!Objects, Schema!Lists
<1>4. ArtifactParts = {"schema_version", "generated_at", "git", "decision", "redaction", "instance", "addons",
                       "checks", "human_signoffs"}
  BY <1>3 DEF ArtifactParts
<1>5. ASSUME NEW k
      PROVE  k \in about <=>
              \/ k \in Schema!RequiredTop /\ artifact[k].shape = "absent"
              \/ k = "schema_version" /\ artifact.schema_version # "1.0"
              \/ k = "generated_at" /\ artifact.generated_at # "text"
              \/ k \in DOMAIN Schema!Objects /\ artifact[k].shape \notin Schema!Skipped(k)
                 /\ ~IsOf(artifact[k], Schema!Objects[k])
              \/ k \in DOMAIN Schema!Lists /\ artifact[k].shape # "absent"
                 /\ ~(artifact[k].shape = "list" /\ \A i \in DOMAIN artifact[k].items :
                                                       IsOf(artifact[k].items[i], Schema!Lists[k]))
              \/ k = "checks" /\ warned
  <2>1. k \in about <=> \E e \in Schema!validate_artifact(artifact) : e[1] = k
    BY <1>1
  <2>2. /\ Schema!Wrong(artifact[k], Schema!Objects[k]) # {} <=> ~IsOf(artifact[k], Schema!Objects[k])
        /\ Schema!WrongItems(artifact[k], Schema!Lists[k]) # {} <=>
              /\ artifact[k].shape # "absent"
              /\ ~(artifact[k].shape = "list" /\ \A i \in DOMAIN artifact[k].items :
                                                    IsOf(artifact[k].items[i], Schema!Lists[k]))
    BY WrongIsNot, WrongItemsAre
  <2>3. (\E e \in Schema!validate_artifact(artifact) : e[1] = k) <=>
              \/ k \in Schema!RequiredTop /\ artifact[k].shape = "absent"
              \/ k = "schema_version" /\ artifact.schema_version # "1.0"
              \/ k = "generated_at" /\ artifact.generated_at # "text"
              \/ /\ k \in DOMAIN Schema!Objects /\ artifact[k].shape \notin Schema!Skipped(k)
                 /\ Schema!Wrong(artifact[k], Schema!Objects[k]) # {}
              \/ k \in DOMAIN Schema!Lists /\ Schema!WrongItems(artifact[k], Schema!Lists[k]) # {}
              \/ k = "checks" /\ warned
    BY ErrorsAbout, Zenon DEF warned
  <2> HIDE DEF about
  <2> QED
    BY <2>1, <2>2, <2>3, Zenon
<1> HIDE DEF about, warm
<1>6. ASSUME NEW k \in DOMAIN Schema!Objects PROVE k \in about <=> ~IsSound(artifact, k)
  <2>1. k \in about <=>
              \/ k \in Schema!RequiredTop /\ artifact[k].shape = "absent"
              \/ artifact[k].shape \notin Schema!Skipped(k) /\ ~IsOf(artifact[k], Schema!Objects[k])
    BY <1>3, <1>5
  <2>2. IsSound(artifact, k) <=> \/ IsOf(artifact[k], Schema!Objects[k])
                                 \/ k \in {"instance", "addons"} /\ artifact[k].shape \in {"absent", "null"}
    BY <1>3 DEF IsSound
  <2>3. IsOf(artifact[k], Schema!Objects[k]) => artifact[k].shape = "object"
    BY DEF IsOf
  <2>4. k \in Schema!RequiredTop <=> k \notin {"instance", "addons"}
    BY <1>3 DEF Schema!RequiredTop
  <2> QED
    BY <2>1, <2>2, <2>3, <2>4 DEF Schema!Skipped
<1>7. ASSUME NEW k \in DOMAIN Schema!Lists
      PROVE  k \in about <=> ~IsSound(artifact, k) \/ (k = "checks" /\ warned)
  <2> DEFINE sound == artifact[k].shape = "list" /\ \A i \in DOMAIN artifact[k].items :
                                                       IsOf(artifact[k].items[i], Schema!Lists[k])
  <2>1. k \in Schema!RequiredTop
    BY <1>3 DEF Schema!RequiredTop
  <2>2. IsSound(artifact, k) <=> sound
    BY <1>3 DEF IsSound
  <2>3. sound => artifact[k].shape # "absent"
    OBVIOUS
  <2>4. k \in about <=> \/ artifact[k].shape = "absent" \/ (artifact[k].shape # "absent" /\ ~sound)
                        \/ k = "checks" /\ warned
    BY <1>3, <1>5, <2>1
  <2> HIDE DEF sound
  <2> QED
    BY <2>2, <2>3, <2>4
<1>8. ASSUME NEW k \in {"schema_version", "generated_at"} PROVE k \in about <=> ~IsSound(artifact, k)
  BY <1>3, <1>5 DEF IsSound, Schema!RequiredTop
<1>9. about \subseteq ArtifactParts
  BY <1>3, <1>4, <1>5 DEF Schema!RequiredTop
<1>10. about \ {"checks"} = asked.damaged \ {"checks"}
  <2>1. \A k \in ArtifactParts \ {"checks"} : k \in about <=> ~IsSound(artifact, k)
    BY <1>3, <1>4, <1>6, <1>7, <1>8
  <2> QED
    BY <1>1, <1>9, <2>1
<1>11. "checks" \in about <=> "checks" \in asked.damaged \/ (approves /\ warm # {})
  <2>1. "checks" \in about <=> ~IsSound(artifact, "checks") \/ warned
    BY <1>3, <1>7
  <2>2. "checks" \in asked.damaged <=> ~IsSound(artifact, "checks")
    BY <1>1, <1>4
  <2>3. IsSound(artifact, "checks") => artifact.checks.shape = "list"
    BY <1>3 DEF IsSound
  <2> QED
    BY <1>2, <2>1, <2>2, <2>3
<1> HIDE DEF approves
<1>12. Answered("evidence_validate") =>
         /\ about \ {"checks"} = asked.damaged \ {"checks"}
         /\ "checks" \in about <=> "checks" \in asked.damaged \/ (approves /\ warm # {})
  BY <1>10, <1>11
<1> QED
  BY <1>12, Zenon DEF ErrorsAreComplete, artifact, about, approves, warm

\* For any artifact: there is an error about each part that is not what it
\* should be, and about no other, but for warm checks under an approval.
THEOREM ErrorsAreFound == Spec => []ErrorsAreComplete
<1>1. Given => ErrorsAreComplete
  BY ErrorsAnswered DEF ErrorsAreComplete
<1> QED
  BY <1>1, AlwaysGiven, PTL
=============================================================================
