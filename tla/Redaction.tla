----------------------------- MODULE Redaction ------------------------------
(***************************************************************************)
(* redaction.py.  A JSON value is a text, a list or an object:             *)
(* [text |-> its kind], [list |-> values], [object |-> a function from     *)
(* keys to values]; what is no text (a number) has the kind "number".      *)
(* What the regular expressions tell apart of a text is its kind.          *)
(***************************************************************************)
EXTENDS Naturals, Sequences, SequencesExt, FiniteSets, Functions

CONSTANTS
    SENSITIVE_MODELS,   \* the kinds of text that are one of these names
    SensitiveKeys,      \* keys that match SENSITIVE_KEY_RE
    STRIP_KEYS,         \* _STRIP_KEYS
    Underscored,        \* keys that begin with _
    Values              \* the JSON values at issue, with all that they hold

META_KEYS == {"model", "id", "_name"}
SENSITIVE_FIELDS == {"email", "phone", "mobile", "vat", "iban", "acc_number", "login"}

Text(kind) == [text |-> kind]
IsText(value) == "text" \in DOMAIN value /\ value.text # "number"

-----------------------------------------------------------------------------
(* Kinds of text                                                           *)
PROVIDER == {"aws_key", "github_token", "stripe_key", "slack_token", "google_api_key", "private_key", "jwt"}
PII == {"iban", "card", "email_address", "phone_number"}
\* Long runs of hex or base64 letters: with +, of mixed case and digits, a path
\* with slashes, lower case with padding.
TOKENS == {"hex", "plus_token", "mixed_token", "slash_path", "padded"}

\* Mutant: only what the scanner counts is masked.
mask_scanned(kind) ==
    IF kind \in PROVIDER \/ kind \in {"hex", "plus_token", "mixed_token", "padded"} THEN "<masked>" ELSE kind
\* mask_value, with _safe_b64_replace for which padding is nothing.
mask_value(kind) ==
    IF kind \in PROVIDER \union PII \union {"hex", "plus_token", "mixed_token", "slash_path"}
    THEN "<masked>" ELSE kind

\* _looks_like_b64_secret: for the scanner a path is none, padding is a sign.
looks_like_b64_secret(kind) == kind \in {"plus_token", "mixed_token", "padded"}
scan_secrets(kinds) ==
    {k \in kinds : k \in PROVIDER \/ k = "hex" \/ looks_like_b64_secret(k)}

classify_field_sensitivity(model, field) ==
    IF model \in SENSITIVE_MODELS \/ field \in SensitiveKeys \union SENSITIVE_FIELDS THEN "high" ELSE "normal"

-----------------------------------------------------------------------------
(* _redact                                                                 *)
StrOf(object, key) == IF key \in DOMAIN object /\ IsText(object[key]) THEN object[key].text ELSE ""
Has(object, key) == key \in DOMAIN object

\* A {model, field, value} triple loses its value before the keys are read.
Triple(object, mode) ==
    IF /\ mode = "external" /\ Has(object, "value") /\ (Has(object, "model") \/ Has(object, "field"))
       /\ classify_field_sensitivity(StrOf(object, "model"), StrOf(object, "field")) = "high"
    THEN [object EXCEPT !["value"] = Text("<redacted:sensitive-field>")]
    ELSE object

\* The model of a record taints all that it holds.
Within(object, how) ==
    [how EXCEPT !.force = @ \/ (how.mode = "external" /\ StrOf(object, "model") \in SENSITIVE_MODELS)]

\* A value, in one of two modes, by force or not.
Hows == [mode : {"external", "local"}, force : BOOLEAN]
redact[value \in Values] ==
    [how \in Hows |->
        IF "object" \in DOMAIN value
        THEN LET object == Triple(value.object, how.mode)
             IN  [object |-> [key \in DOMAIN object |->
                    IF how.mode = "external" /\ key \in STRIP_KEYS THEN Text("<stripped:external-mode>")
                    ELSE IF key \in SensitiveKeys THEN Text("<redacted>")
                    ELSE IF key \in META_KEYS \union Underscored THEN object[key]
                    ELSE redact[object[key]][Within(object, how)]]]
        ELSE IF "list" \in DOMAIN value
             THEN [list |-> [i \in DOMAIN value.list |-> redact[value.list[i]][how]]]
        ELSE IF ~IsText(value) THEN value
        ELSE IF how.force THEN Text("<redacted:sensitive-model-field>")
        ELSE IF how.mode = "external" THEN Text(mask_value(value.text)) ELSE value]

\* main, redact: the caveat is added to an object only.
redact_file(value, mode) ==
    LET result == redact[value][[mode |-> mode, force |-> FALSE]]
    IN  IF "object" \in DOMAIN result
        THEN [object |-> [k \in DOMAIN result.object \union {"_caveat"} |->
                            IF k = "_caveat" THEN Text("caveat") ELSE result.object[k]]]
        ELSE result

-----------------------------------------------------------------------------
(* What a reader of a value sees, keys that are kept as they are left out. *)
Inside(value) ==
    IF "object" \in DOMAIN value
    THEN {value.object[k] : k \in DOMAIN value.object \ (META_KEYS \union Underscored)}
    ELSE IF "list" \in DOMAIN value THEN Range(value.list) ELSE {}

\* Level by level, to a depth.
Levels(value, depth) ==
    LET level[n \in 0 .. depth] == IF n = 0 THEN {value} ELSE UNION {Inside(v) : v \in level[n - 1]}
    IN  level
Seen(value, depth) == UNION {Levels(value, depth)[n] : n \in 0 .. depth}

Shown(values) == {v.text : v \in {w \in values : IsText(w)}}
Objects(values) == {v.object : v \in {w \in values : "object" \in DOMAIN w}}

\* What the worker is called with for the parts of a value.
Parts(value) ==
    IF "object" \in DOMAIN value THEN Range(value.object)
    ELSE IF "list" \in DOMAIN value THEN Range(value.list) ELSE {}

Placeholders == {"<masked>", "<redacted>", "<redacted:sensitive-field>",
                 "<redacted:sensitive-model-field>", "<stripped:external-mode>"}
=============================================================================
