------------------------------ MODULE EnvDrift ------------------------------
(***************************************************************************)
(* env_diff.py: the fingerprint of an instance, and how two of them        *)
(* differ.  An instance has modules with versions, counts of five models,  *)
(* Studio fields, configuration parameters; fails names the scans that     *)
(* raise there.                                                            *)
(***************************************************************************)
EXTENDS Integers, FiniteSets, Functions

COUNTED == {"ir.model", "ir.rule", "ir.model.access", "ir.cron", "ir.actions.server"}
Unknown == -1   \* None: a count that could not be taken

-----------------------------------------------------------------------------
\* run: a scan that raises leaves what an instance without any would have,
\* but for the edition and the counts.
fingerprint(instance) ==
    LET Or(scan, value, default) == IF scan \in instance.fails THEN default ELSE value
    IN  [edition |-> Or("edition", IF "web_enterprise" \in DOMAIN instance.modules
                                   THEN "enterprise" ELSE "community", "unknown"),
         modules |-> Or("modules", instance.modules, <<>>),
         counts |-> [m \in COUNTED |-> Or(m, instance.counts[m], Unknown)],
         studio_fields |-> Or("studio_fields", instance.studio_fields, {}),
         config_params |-> Or("config_params", instance.config_params, {})]

\* A file that was saved earlier, or written by hand, may lack keys; a list
\* that is not there is empty.
Part(file, key, default) == IF key \in DOMAIN file THEN file[key] ELSE default

Sides(base, target) == [only_in_base |-> base \ target, only_in_target |-> target \ base]

Delta(base, target) ==
    IF base = Unknown \/ target = Unknown THEN [comparable |-> FALSE, delta |-> 0]
    ELSE [comparable |-> TRUE, delta |-> target - base]

diff_fingerprints(base, target) ==
    LET b == Part(base, "modules", <<>>)
        t == Part(target, "modules", <<>>)
        bc == Part(base, "counts", <<>>)
        tc == Part(target, "counts", <<>>)
    IN  [modules |-> Sides(DOMAIN b, DOMAIN t),
         version_changed |-> {m \in DOMAIN b \intersect DOMAIN t : b[m] # t[m]},
         counts |-> [k \in DOMAIN bc \union DOMAIN tc |-> Delta(Part(bc, k, Unknown), Part(tc, k, Unknown))],
         studio_fields |-> Sides(Part(base, "studio_fields", {}), Part(target, "studio_fields", {})),
         config_params |-> Sides(Part(base, "config_params", {}), Part(target, "config_params", {})),
         edition_changed |-> Part(base, "edition", "") # Part(target, "edition", "")]

Differ(sides) == sides.only_in_base # {} \/ sides.only_in_target # {}

\* Mutant: a count that is unknown is no difference.
summarize_known(diff) ==
    [severity |-> IF diff.edition_changed \/ Differ(diff.modules) \/ Differ(diff.studio_fields) THEN "high"
                  ELSE IF \/ diff.version_changed # {}
                          \/ \E k \in DOMAIN diff.counts : diff.counts[k].delta # 0
                          \/ Differ(diff.config_params)
                       THEN "low" ELSE "none"]
summarize_drift(diff) ==
    [severity |-> IF diff.edition_changed \/ Differ(diff.modules) \/ Differ(diff.studio_fields) THEN "high"
                  ELSE IF \/ diff.version_changed # {}
                          \/ \E k \in DOMAIN diff.counts : diff.counts[k].delta # 0 \/ ~diff.counts[k].comparable
                          \/ Differ(diff.config_params)
                       THEN "low" ELSE "none"]

\* main: two files, or an error.
env_diff(base, target) ==
    IF base.read /\ target.read
    THEN LET diff == diff_fingerprints(base.file, target.file)
         IN  [diff |-> diff, severity |-> summarize_drift(diff).severity]
    ELSE [exit |-> 1]
=============================================================================
