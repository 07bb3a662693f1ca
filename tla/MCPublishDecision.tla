------------------------- MODULE MCPublishDecision -------------------------
(* Bundles that the gate approves, blocks, or approves only without        *)
(* --strict; sign-offs and redaction files that are whole, odd or broken.  *)
EXTENDS PublishDecision

Report(decision, blocking) ==
    [NoReport EXCEPT !.decision = decision, !.blocking = blocking,
                     !.present = <<"native_check", "scan_secrets">>, !.missing = <<"trace">>]
AnEntry == [shape |-> "object", role |-> "null", at |-> "absent", name |-> "other"]
Entry(role, name) == [AnEntry EXCEPT !.role = role, !.name = name]

Broken == [shape |-> "other"]
TwoBundles ==
    {[strict |-> Report("block", <<"f">>), loose |-> Report("approve", <<>>), repository |-> TRUE,
      signoffs |-> [shape |-> "list", items |-> <<Broken, Entry("null", "other")>>], redacted |-> <<>>],
     [strict |-> Report("approve", <<>>), loose |-> Report("block", <<"f", "g">>), repository |-> FALSE,
      signoffs |-> Entry("text", "text"), redacted |-> <<"other", "local">>]}
=============================================================================
