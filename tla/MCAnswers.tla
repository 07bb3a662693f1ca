----------------------------- MODULE MCAnswers ------------------------------
(* Small sets of questions for each tool.                                  *)
EXTENDS Answers, TLC

-----------------------------------------------------------------------------
(* An instance with one model or two; probes of every kind, nested twice;  *)
(* cards that share words; requirements of one to three words.             *)
Small == [installed |-> {"base"}, models |-> {"so"}, fields |-> {<<"so", "name">>}, methods |-> {<<"so", "run">>},
          xmlids |-> {[xmlid |-> "x", model |-> "res.groups"], [xmlid |-> "y", model |-> "ir.rule"]},
          windows |-> {}, crons |-> {"so"}, sequences |-> {}, selections |-> {<<"so", "name", "a">>},
          mixins |-> {<<"so", "mail">>}]
Large == [Small EXCEPT !.installed = @ \union {"sale", "web_enterprise"}, !.models = @ \union {"sol"},
                       !.sequences = {"seq"}, !.windows = {"so"}]
Envs == {Small, Large}

Leaves == {[kind |-> "module_installed", module |-> "sale"], [kind |-> "model_exists", model |-> "so"],
           [kind |-> "model_exists", model |-> "sol"], [kind |-> "field_exists", model |-> "so", field |-> "name"],
           [kind |-> "field_exists", model |-> "so"], [kind |-> "method_exists", model |-> "so", method |-> "run"],
           [kind |-> "xmlid_exists", xmlid |-> "x"], [kind |-> "group_exists", xmlid |-> "y"],
           [kind |-> "action_window_exists", model |-> "so"], [kind |-> "cron_exists", model |-> "so"],
           [kind |-> "sequence_exists", code |-> "seq"], [kind |-> "edition", edition |-> "enterprise"],
           [kind |-> "selection_has_value", model |-> "so", field |-> "name", value |-> "a"],
           [kind |-> "mixin_inherited", model |-> "so", mixin |-> "mail"],
           [kind |-> "edition"], [kind |-> "no_such_kind"]}
SomeLeaves == {[kind |-> "module_installed", module |-> "sale"], [kind |-> "model_exists", model |-> "so"],
               [kind |-> "model_exists"], [bad |-> TRUE]}
Nested == {[any |-> <<p, q>>] : p, q \in SomeLeaves} \union {[all |-> <<p, q>>] : p, q \in SomeLeaves}
          \union {[all |-> <<>>], [any |-> <<>>]}
SomeProbes == Leaves \union {[bad |-> TRUE]} \union Nested
              \union {[all |-> <<p, q>>] : p \in Nested, q \in SomeLeaves}
\* A kind beside parts is not looked at.
Mixed == {[kind |-> "model_exists", model |-> "so", any |-> <<p, q>>] : p, q \in SomeLeaves}

Card(id, words, intents, probe, domain, modules, gaps) ==
    [id |-> id, words |-> words, intents |-> intents, probe |-> probe, domain |-> domain,
     modules |-> modules, when_not_enough |-> gaps]
Deposit == Card("deposit", {"deposit"}, <<{"down", "payment"}>>, <<[kind |-> "model_exists", model |-> "sol"]>>,
                "sale", {"sale"}, {{"several", "deposit"}})
Numbers(probe) == Card("numbers", {}, <<{"number"}, {"down"}>>, probe, "stock", {}, {{"yearly", "number"}, {}})
Ledger == Card("ledger", {"ledger"}, <<{"number", "entry"}>>, <<[kind |-> "model_exists", model |-> "so"]>>,
               "account", {"base"}, {})
NoId == [Ledger EXCEPT !.id = ""]

Files(probe) == {<<[parses |-> TRUE, cards |-> <<Deposit, Numbers(probe)>>], [parses |-> p, cards |-> <<NoId, Ledger>>]>> :
                   p \in BOOLEAN}
                \union {<<>>, <<[parses |-> TRUE, cards |-> <<NoId>>]>>}

Entry(id, phrases, card) == [object |-> TRUE, id |-> id, learned_intents |-> phrases, card |-> card]
NoObject == [object |-> FALSE, id |-> "", learned_intents |-> <<>>, card |-> <<>>]
EntryLists == {<<>>, <<Entry("numbers", <<{"serial"}, {"number"}, {}>>, <<>>)>>,
               <<Entry("", <<{"serial"}>>, <<>>), Entry("new", <<>>, <<[Ledger EXCEPT !.id = "new"]>>),
                 Entry("new", <<{"serial"}>>, <<>>), Entry("gone", <<{"serial"}>>, <<>>)>>,
               <<Entry("deposit", <<{"serial"}>>, <<>>), NoObject, Entry("ledger", <<{"serial"}>>, <<>>)>>}
Requirements == {{"number"}, {"serial"}, {"down", "payment"}, {"yearly", "down", "number"},
                 {"several", "deposit", "payroll"}, {"elsewhere"}, {"renumbered"}}
\* A text is part of another if its words are, and if its word is part of a word.
Phrases == {{"down", "payment"}, {"number"}, {"down"}, {"number", "entry"}, {"serial"}}
WithinTexts == {p \in Phrases \X (Requirements \union {{"serial", "down"}}) : p[1] \subseteq p[2]}
               \union {<<{"number"}, {"renumbered"}>>}

NativeQuestions ==
    {[requirement |-> r, env |-> e, files |-> f, learned |-> [parses |-> TRUE, entries |-> l]] :
       r \in {{"number"}, {"serial", "down"}, {"renumbered"}}, e \in Envs, l \in EntryLists,
       f \in UNION {Files(p) : p \in {<<>>} \union {<<q>> : q \in SomeProbes}}}
    \union {[requirement |-> {"number"}, env |-> Small, files |-> f, learned |-> [parses |-> FALSE, entries |-> <<>>]] :
               f \in Files(<<>>)}

FitQuestions ==
    {[requirements |-> rs, domains |-> d, env |-> e, files |-> f] :
       rs \in {<<>>} \union {<<r, q>> : r, q \in Requirements}, d \in {{"sale", "stock", "account"}, {"stock"}}, e \in Envs,
       f \in UNION {Files(p) : p \in {<<>>, <<[kind |-> "model_exists", model |-> "so"]>>,
                                        <<[any |-> <<[kind |-> "model_exists"], [kind |-> "module_installed", module |-> "sale"]>>]>>}}}

AllClaims ==
    [probe : {<<>>} \union {<<p>> : p \in Leaves \union Mixed}, model : {"", "so", "sol"}, field : {"", "name"},
     method : {"", "run"}, xmlid : {"", "x"}, claim_type : {"", "existence", "security"},
     words : {{}, {"is"}, {"override", "is"}}]
ClaimQuestions == [claim : AllClaims, env : Envs]

\* With the probes that are made of a claim (making one needs none to be at
\* issue), by how deep they nest.
Making == INSTANCE CapabilityClaims WITH Probes <- {}
AllProbes == SomeProbes \union Mixed \union SomeLeaves \union UNION {ToSet(Making!claim_to_probe(c)) : c \in AllClaims}
AllNested ==
    LET nested_once == Nested \union Mixed
        twice == {[all |-> <<p, q>>] : p \in Nested, q \in SomeLeaves}
    IN  [p \in AllProbes |-> IF p \in twice THEN 2 ELSE IF p \in nested_once THEN 1 ELSE 0]

-----------------------------------------------------------------------------
(* Three models, named 1 to 3, with up to three fields; a class and an     *)
(* extension of it in the old tree, any two classes in the new.            *)
Fields(F) == [f \in F |-> "Char"]
OneClass(name, inherits, F, methods) ==
    [name |-> name, inherits |-> inherits, fields |-> Fields(F), methods |-> methods]
Tree(classes, modules, xmlids) == [classes |-> classes, modules |-> modules, xmlids |-> xmlids]

F3 == {"a", "b", "c"}
OldTrees == {Tree(<<OneClass(1, {}, f, {"run", "get"}), OneClass(0, {1}, {"b"}, {}), OneClass(2, {}, g, {})>>,
                  {"x", "y"}, {"v"}) : f, g \in {{"a", "b"}, F3, {"c"}}}
            \union {Tree(<<OneClass(1, {}, F3, {"get"}), OneClass(0, {2, 3}, {"a"}, {})>>, {"x"}, {"v"})}
NewClasses == [name : {0, 1, 2, 3}, inherits : {{1}, {2}}, fields : {Fields({"a", "b"}), Fields(F3)},
               methods : {{}, {"get"}}]
NewTrees == {Tree(<<c, d>>, {"x"}, X) : c, d \in NewClasses, X \in {{}, {"v"}}}


Word(w, models) == [word |-> w, models |-> models]
ThreeUsages ==
    {[models |-> {1, 2}, xmlids |-> {}, depends |-> {"x"},
      words |-> {Word("b", {}), Word("get", {}), Word("run", {})}],
     [models |-> {1}, xmlids |-> {"v"}, depends |-> {}, words |-> {Word("get", {1}), Word("c", {})}],
     [models |-> {}, xmlids |-> {"v"}, depends |-> {"y"}, words |-> {}]}
BriefQuestions == [trees : [old : OldTrees, new : NewTrees], usage : ThreeUsages]

-----------------------------------------------------------------------------
(* Changes of six models; observations with every key left out once, or    *)
(* at its limit.                                                           *)
Full == [uids_seen |-> {"1", "17"}, phases_covered |-> {"at_install", "post_install"},
         install_modes |-> {"-i", "-u"}, companies_seen |-> {1, 2}, allowed_company_sets |-> {<<1>>},
         max_recordset_len |-> 2, max_create_vals_len |-> 1, access_errors_seen |-> FALSE,
         locked_period_usererror |-> TRUE]
Others == {[Full EXCEPT !.uids_seen = {"1", "true", "null"}], [Full EXCEPT !.uids_seen = {"0"}],
           [Full EXCEPT !.phases_covered = {"post_install"}], [Full EXCEPT !.install_modes = {"-u"}],
           [Full EXCEPT !.companies_seen = {1}], [Full EXCEPT !.max_recordset_len = 1],
           [Full EXCEPT !.companies_seen = {1}, !.allowed_company_sets = {<<1>>, <<1, 2>>}, !.access_errors_seen = TRUE],
           [Full EXCEPT !.locked_period_usererror = FALSE]}
Observed == {Full} \union Others \union {[k \in DOMAIN Full \ {left} |-> Full[k]] : left \in DOMAIN Full}
Unread == [read |-> FALSE]
Documents == {Unread} \union {[read |-> TRUE, doc |-> d] :
                d \in {<<>>, [required |-> <<"batch", "", "batch">>], [required |-> <<"no_such">>],
                       [scenarios |-> <<"">>, required |-> <<"non_admin">>]}}
ScenarioQuestions ==
    [change : [model : {<<"account", "move">>, <<"account", "move", "line">>, <<"account", "move", "reversal">>,
                        <<"account", "moves">>, <<"stock", "quant">>, <<"sale", "order">>},
               methods : {{}, {"write"}, {"action_post"}, {"read"}},
               known : BOOLEAN, company : BOOLEAN, transient : BOOLEAN],
     file : {"generated"}, other : {Unread}, observations : {Unread} \union [read : {TRUE}, doc : Observed]]
    \union
    [change : {[model |-> <<"sale", "order">>, methods |-> {}, known |-> FALSE, company |-> TRUE, transient |-> TRUE]},
     file : {"other"}, other : Documents, observations : {Unread} \union [read : {TRUE}, doc : Observed]]

-----------------------------------------------------------------------------
(* Up to two fields gone, two come, one that stays; all similarities at    *)
(* and around the limit.                                                   *)
Meta == [type : {"char"}, required : {FALSE}, has_default : {FALSE}, store : BOOLEAN]
        \union {[type |-> "date", required |-> FALSE, has_default |-> FALSE, store |-> TRUE]}
NewMeta == [type : {"char"}, required : BOOLEAN, has_default : BOOLEAN, store : {TRUE}]
           \union {[type |-> "date", required |-> TRUE, has_default |-> FALSE, store |-> s] : s \in BOOLEAN}
Stays == {[type |-> t, required |-> FALSE, has_default |-> FALSE, store |-> TRUE] : t \in {"char", "date"}}
Names(F, same, metas) == {(5 :> s) @@ f : s \in same, f \in [F -> metas]}
RiskQuestions ==
    {[old |-> o, new |-> n, noupdate |-> {9},
      similar |-> (<<1, 3>> :> a @@ <<1, 4>> :> 600 @@ <<2, 3>> :> b @@ <<2, 4>> :> c)] :
        o \in Names({1, 2}, {CHOOSE s \in Stays : s.type = "char"}, Meta) \union Names({1}, Stays, Meta),
        n \in Names({3, 4}, Stays, NewMeta) \union Names({3}, Stays, NewMeta) \union Names({}, Stays, NewMeta),
        a \in {400, 600, 900}, b \in {600, 900}, c \in {400, 500}}

-----------------------------------------------------------------------------
(* Pairs of small instances, of which scans fail, and files with nothing.  *)
Instances ==
    {[modules |-> m, counts |-> [k \in Drift!COUNTED |-> IF k = "ir.rule" THEN n ELSE 1],
      studio_fields |-> s, config_params |-> {"lang"} \ s, fails |-> f] :
        m \in {("base" :> 1), ("base" :> 2), ("base" :> 1 @@ "web_enterprise" :> 1)}, n \in {0, 1},
        s \in {{}, {"lang"}}, f \in {{}, {"ir.rule"}, {"modules", "ir.cron"}, {"studio_fields", "edition"}}}
FileOf(i) == [from |-> "instance", instance |-> i, saved |-> [read |-> FALSE]]
Saved == {[from |-> "saved", instance |-> CHOOSE i \in Instances : TRUE, saved |-> f] :
            f \in {[read |-> FALSE], [read |-> TRUE, file |-> <<>>]}}
DriftQuestions == [base : {FileOf(i) : i \in Instances} \union Saved, target : {FileOf(i) : i \in Instances} \union Saved]

-----------------------------------------------------------------------------
(* Texts of every kind under every key, in records, lists of records and   *)
(* triples.                                                                *)
\* The kinds of text do not depend on the values at issue.
Kinds == INSTANCE Redaction WITH Values <- {}
Texts == {[text |-> k] : k \in Kinds!PROVIDER \union Kinds!PII \union Kinds!TOKENS
                                 \union {"number", "name", "res.partner", "sale.order"}}
Keys == {"source", "password", "id", "_warnings", "name", "value"}
Records == {[object |-> ("model" :> [text |-> m]) @@ (k :> t)] :
               m \in {"res.partner", "sale.order", "name"}, k \in Keys, t \in Texts}
Triples == {[object |-> ("field" :> [text |-> f]) @@ ("value" :> t)] : f \in {"password", "vat", "name"}, t \in Texts}
Holders == {[object |-> k :> v] : k \in Keys, v \in Records}
           \union {[object |-> ("model" :> [text |-> m]) @@ (k :> [list |-> <<v, [text |-> "name"]>>])] :
                      m \in {"res.partner", "sale.order"}, k \in {"line", "_line"}, v \in Records \union Triples}
RedactQuestions ==
    [value : Texts \union Records \union Triples \union Holders \union {[list |-> <<v, v>>] : v \in Records},
     mode : {"external", "local"}]

\* All that these hold, by how deep it nests.
Flat == Texts \union {[text |-> k] : k \in {"password", "vat", "<redacted:sensitive-field>"}}
Once == Records \union Triples
Twice == {[list |-> <<v, [text |-> "name"]>>] : v \in Once} \union {[list |-> <<v, v>>] : v \in Records}
         \union {[object |-> k :> v] : k \in Keys, v \in Records}
NestedValues == UNION {Flat, Once, Twice, Holders}
NestingOf ==
    LET flat == Flat
        once == Once
        twice == Twice
    IN  [v \in NestedValues |-> IF v \in flat THEN 0 ELSE IF v \in once THEN 1 ELSE IF v \in twice THEN 2 ELSE 3]
ProbesAtIssue == AllProbes
ProbesNest == AllNested
AllValues == NestedValues
AllNesting == NestingOf

-----------------------------------------------------------------------------
(* A file of every sort with any of five models, two of which share a      *)
(* stem; one of these and one other are new, not yet in the registry.      *)
Edited(name, stem, technical, registered) ==
    [name |-> name, stem |-> stem, technical |-> technical, registered |-> registered]
EditModels == {Edited("a.b_c", "a_b_c", FALSE, TRUE), Edited("a_b.c", "a_b_c", FALSE, FALSE),
               Edited("ir.rule", "ir_rule", TRUE, TRUE), Edited("d.e", "d_e", FALSE, TRUE),
               Edited("new", "new", FALSE, FALSE)}
Calls ==
    [parses : {TRUE}, path : {"f"}, in_module : {TRUE},
     file : [kind : {"py", "xml"}, readable : BOOLEAN, antipattern : BOOLEAN, models : SUBSET EditModels]]
    \union
    [parses : BOOLEAN, path : {"", "f"}, in_module : BOOLEAN,
     file : [kind : {"py", "other"}, readable : {TRUE}, antipattern : {TRUE}, models : {EditModels}]]
EditQuestions ==
    [call : Calls,
     settings : [disable : BOOLEAN, strict : BOOLEAN, gate : {"works", "fails", "mumbles"}, out : {"default", "other"}],
     evidence : SUBSET {<<"a_b_c", "brief">>, <<"d_e", "metadata">>, <<"d_e", "trace">>}, validator : [works : BOOLEAN]]

-----------------------------------------------------------------------------
(* A sound artifact, and every choice of parts to damage, each in one of   *)
(* three ways.                                                             *)
SoundCheck(layer, cache) ==
    [shape |-> "object", id |-> "text", layer |-> layer, status |-> "pass", severity |-> "S0",
     cache_provenance |-> cache, summary |-> "", logs_path |-> "null"]
Sound(decision, check) ==
    [schema_version |-> "1.0", generated_at |-> "text",
     git |-> [shape |-> "object", commit_sha |-> "null", diff_hash |-> "absent", branch |-> "text"],
     instance |-> [shape |-> "null"], addons |-> [shape |-> "object", addon_hash |-> "text"],
     checks |-> [shape |-> "list", items |-> <<check>>],
     decision |-> [shape |-> "object", decision |-> decision, blocking_findings |-> "strings",
                   required_approvals |-> "strings"],
     human_signoffs |-> [shape |-> "list", items |-> <<[shape |-> "object", role |-> "", at |-> "text", name |-> "absent"]>>],
     redaction |-> [shape |-> "object", mode |-> "local", scanned |-> "true"]]
Damage(artifact, part, way) ==
    CASE part = "schema_version" -> [artifact EXCEPT !.schema_version = "2.0"]
      [] part \in {"checks", "human_signoffs"} /\ way = "item" ->
            [artifact EXCEPT ![part].items = Append(@, IF part = "checks" THEN [SoundCheck("gate", "hot") EXCEPT !.id = ""]
                                                       ELSE [shape |-> "object", role |-> "null", at |-> "", name |-> ""])]
      [] part = "instance" -> [artifact EXCEPT !.instance = [shape |-> "other"]]
      [] part = "decision" /\ way = "item" -> [artifact EXCEPT !.decision.decision = "maybe"]
      [] part \in {"git", "redaction"} /\ way = "item" ->
            IF part = "git" THEN [artifact EXCEPT !.git.branch = "other"] ELSE [artifact EXCEPT !.redaction.mode = "null"]
      [] OTHER -> [artifact EXCEPT ![part] = [shape |-> IF way = "item" THEN "null" ELSE way, items |-> <<>>]]
ValidateQuestions ==
    {[artifact |-> FoldSet(LAMBDA p, a : Damage(a, p, w), Sound(d, SoundCheck(l, c)), parts), damaged |-> parts] :
        w \in {"absent", "other", "item"}, d \in {"approve", "block"}, l \in {"gate", "inspect"}, c \in {"cold", "warm"},
        parts \in SUBSET {"schema_version", "git", "instance", "checks", "decision", "human_signoffs", "redaction"}}

-----------------------------------------------------------------------------
AllQuestions ==
    [native_check |-> NativeQuestions, fit_gap |-> FitQuestions, claim_verify |-> ClaimQuestions,
     upgrade_brief |-> BriefQuestions, scenarios |-> ScenarioQuestions, upgrade_check |-> RiskQuestions,
     env_diff |-> DriftQuestions, redact |-> RedactQuestions, pre_edit_gate |-> EditQuestions,
     evidence_validate |-> ValidateQuestions]
=============================================================================
