------------------------------ MODULE EditGate ------------------------------
(***************************************************************************)
(* gate_edit.py and the hook that runs it before an edit.  A model has a   *)
(* name, the stem of its evidence files, in which dots are underscores, so *)
(* that two models may share it, technical says whether it is one of those *)
(* that need no evidence, and registered whether the instance that is      *)
(* asked has it.  Evidence is a set of <<stem, step>>, the names of the    *)
(* files under the directory that the gate reads, of any age.              *)
(***************************************************************************)
EXTENDS Naturals, Sequences, FiniteSets, Functions, SequencesExt

-----------------------------------------------------------------------------
(* gate_edit                                                               *)
EvidenceSteps == {"brief", "capabilities", "surface", "metadata", "entrypoints"}

\* Mutant: the name with its dots is looked for.
evidence_by_name(model, evidence) == \E s \in EvidenceSteps : <<model.name, s>> \in evidence
evidence_for_model(model, evidence) == \E s \in EvidenceSteps : <<model.stem, s>> \in evidence

\* _name and _inherit of a .py; of an .xml the models that records name, less
\* the technical ones.
extract_models(file) ==
    CASE file.kind = "py" -> file.models
      [] file.kind = "xml" -> {m \in file.models : ~m.technical}
      [] OTHER -> {}

decide(touched, evidence, blocking, has_validator) ==
    LET business == {m \in touched : ~m.technical}
        missing == {m \in business : ~evidence_for_model(m, evidence)}
        antipattern == has_validator /\ blocking > 0
    IN  [decision |-> IF missing = {} /\ ~antipattern THEN "allow" ELSE "block",
         missing_evidence |-> missing,
         required_commands |-> {<<"odoo-ai all", m>> : m \in missing}
                               \union (IF antipattern THEN {<<"odoo-ai validate", "changed files">>} ELSE {})]

\* A validator that is not there, or raises, says nothing.
_run_validator(validator, files) ==
    IF validator.works
    THEN [has |-> TRUE, blocking |-> Cardinality({f \in files : f.readable /\ f.antipattern})]
    ELSE [has |-> FALSE, blocking |-> 0]

\* main: a file that cannot be read, like one that is yet to be written, touches
\* no model.
gate_edit(files, evidence, validator) ==
    LET py == {f \in files : f.kind = "py"}
        ran == IF py # {} THEN _run_validator(validator, py) ELSE [has |-> FALSE, blocking |-> 0]
        touched == UNION {extract_models(f) : f \in {g \in files : g.readable}}
    IN  decide(touched, evidence, ran.blocking, ran.has)

-----------------------------------------------------------------------------
(* odoo-ai all: what running it adds where the gate reads.  It writes into *)
(* /tmp/odoo-ai, whatever ODOO_AI_OUT names, and nothing of a model that   *)
(* the registry does not have, at which each of its steps raises; with a   *)
(* database and an odoo-bin that answer.  out: "default", or "other" when  *)
(* ODOO_AI_OUT names a directory that /tmp/odoo-ai is no part of.          *)

odoo_ai_all(model, settings) ==
    IF settings.out = "default" /\ model.registered
    THEN {model.stem} \X {"brief", "entrypoints", "metadata"} ELSE {}

-----------------------------------------------------------------------------
(* hooks/pre_edit_gate: exit status 0 lets the edit happen, 2 blocks it.   *)
Allow == 0
Block == 2
_gate_error(strict) == IF strict THEN Block ELSE Allow

\* Not gated: no JSON on stdin, no path, another suffix, outside of a module.
Gated(call) == call.parses /\ call.path # "" /\ call.file.kind \in {"py", "xml"} /\ call.in_module

\* Mutant: an answer without a decision is no reason to block.
pre_edit_trusting(call, settings, evidence, validator) ==
    IF settings.disable \/ ~Gated(call) THEN Allow
    ELSE IF settings.gate = "fails" THEN _gate_error(settings.strict)
    ELSE IF settings.gate = "works" /\ gate_edit({call.file}, evidence, validator).decision = "block" THEN Block
    ELSE Allow
\* gate: "works", "fails" (it is not there, is too late, prints no JSON) or
\* "mumbles" (prints JSON without a decision).
pre_edit_gate(call, settings, evidence, validator) ==
    IF settings.disable \/ ~Gated(call) THEN Allow
    ELSE IF settings.gate \in {"fails", "mumbles"} THEN _gate_error(settings.strict)
    ELSE IF gate_edit({call.file}, evidence, validator).decision = "block" THEN Block
    ELSE Allow
=============================================================================
