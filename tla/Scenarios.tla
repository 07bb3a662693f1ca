----------------------------- MODULE Scenarios ------------------------------
(***************************************************************************)
(* scenario_gen.py says which scenarios the tests of a change must have;   *)
(* scenario_satisfaction.py decides from what a run was seen to do whether *)
(* it had them.                                                            *)
(*                                                                         *)
(* A model's name is the sequence of its parts.  Observations are a record *)
(* with some of its keys; uids are the texts of JSON values, for a list    *)
(* may hold true or null.  The document with the required scenarios has    *)
(* lists of keys, "" for an entry that is not of the right shape.          *)
(***************************************************************************)
EXTENDS Naturals, Sequences, SequencesExt, FiniteSets

-----------------------------------------------------------------------------
(* scenario_gen                                                            *)
CRITICAL_PREFIXES ==
    {<<"account", "move">>, <<"account", "payment">>, <<"account", "bank", "statement">>,
     <<"stock", "valuation">>, <<"stock", "quant">>, <<"hr", "payslip">>,
     <<"payment", "transaction">>, <<"pos", "order">>}
HIGH_EXACT ==
    {<<"sale", "order">>, <<"purchase", "order">>, <<"stock", "picking">>,
     <<"mrp", "production">>, <<"account", "move", "line">>}

\* High is looked up before critical.
classify_model_risk(model) ==
    IF model \in HIGH_EXACT THEN "high"
    ELSE IF \E p \in CRITICAL_PREFIXES : IsPrefix(p, model) THEN "critical" ELSE "normal"

\* create, write and unlink, and all that begin with action_.
BatchMethods == {"create", "write", "unlink", "action_post"}

required_scenarios(model, methods, has_company_id, is_transient) ==
    <<"non_admin", "at_install_vs_post_install">>
    \o (IF has_company_id THEN <<"multi_company">> ELSE <<>>)
    \o (IF methods \intersect BatchMethods # {} THEN <<"batch">> ELSE <<>>)
    \o (IF ~is_transient THEN <<"upgrade_i_and_u">> ELSE <<>>)
    \o (IF classify_model_risk(model) = "critical" /\ model[1] = "account" THEN <<"locked_period">> ELSE <<>>)
    \o (IF has_company_id THEN <<"record_rules">> ELSE <<>>)

\* The tests of the skeleton, each with the phase of its class.
render_test_skeleton(scenarios) ==
    [i \in DOMAIN scenarios |-> <<"post_install", scenarios[i]>>]
    \o (IF "at_install_vs_post_install" \in ToSet(scenarios)
        THEN << <<"at_install", "at_install_behaviour">> >> ELSE <<>>)

\* run: of a model that env does not have, what asks for more is assumed.
scenario_gen(change) ==
    LET methods == IF change.methods = {} THEN {"create", "write"} ELSE change.methods
        has_company_id == change.known => change.company
        is_transient == change.known /\ change.transient
        scenarios == required_scenarios(change.model, methods, has_company_id, is_transient)
    IN  [risk |-> classify_model_risk(change.model), scenarios |-> scenarios,
         skeleton |-> render_test_skeleton(scenarios)]

-----------------------------------------------------------------------------
(* scenario_satisfaction                                                   *)
\* The keys that a list holds; their order decides nothing.
WellFormed(keys) == ToSet(keys) \ {""}

\* A list of scenarios decides alone, even when it is empty; no list, nothing.
required_from_scenarios(doc) ==
    IF "scenarios" \in DOMAIN doc THEN WellFormed(doc.scenarios)
    ELSE IF "required" \in DOMAIN doc THEN WellFormed(doc.required)
    ELSE {}

Get(obs, key, default) == IF key \in DOMAIN obs THEN obs[key] ELSE default

\* Integers other than 1, the superuser; true and false are no integers here.
non_admin_uids(obs) == Get(obs, "uids_seen", {}) \ {"1", "true", "false", "null"}
TwoCompanies(obs) == Cardinality(Get(obs, "companies_seen", {})) >= 2

satisfied_predicate(key, obs) ==
    CASE key = "non_admin" -> non_admin_uids(obs) # {}
      [] key = "at_install_vs_post_install" ->
            {"at_install", "post_install"} \subseteq Get(obs, "phases_covered", {})
      [] key = "multi_company" ->
            TwoCompanies(obs) \/ Cardinality(Get(obs, "allowed_company_sets", {})) >= 2
      [] key = "batch" ->
            Get(obs, "max_recordset_len", 0) >= 2 \/ Get(obs, "max_create_vals_len", 0) >= 2
      [] key = "upgrade_i_and_u" -> {"-i", "-u"} \subseteq Get(obs, "install_modes", {})
      [] key = "locked_period" -> Get(obs, "locked_period_usererror", FALSE)
      [] key = "record_rules" ->
            Get(obs, "access_errors_seen", FALSE) \/ (TwoCompanies(obs) /\ non_admin_uids(obs) # {})
      [] OTHER -> FALSE

evaluate(required, obs) ==
    LET satisfied == {k \in required : satisfied_predicate(k, obs)}
        unsatisfied == required \ satisfied
    IN  [required |-> required, unsatisfied |-> unsatisfied,
         satisfied |-> Cardinality(satisfied), ok |-> unsatisfied = {}]

\* Mutant: a file that could not be read only leaves a warning.
satisfaction_unforced(scenarios, observations) ==
    evaluate(IF scenarios.read THEN required_from_scenarios(scenarios.doc) ELSE {},
             IF observations.read THEN observations.doc ELSE <<>>)
\* main: a file that could not be read is never fine, whatever is required.
scenario_satisfaction(scenarios, observations) ==
    LET report == evaluate(IF scenarios.read THEN required_from_scenarios(scenarios.doc) ELSE {},
                           IF observations.read THEN observations.doc ELSE <<>>)
    IN  IF scenarios.read /\ observations.read THEN report ELSE [report EXCEPT !.ok = FALSE]
=============================================================================
