-------------------------- MODULE MCRedGreenReplay --------------------------
EXTENDS RedGreenReplay, TLC

CONSTANTS c0, c1, c2, t1, t2

\* A failed assertion and a stub.
Assertion == {"assertion"}
Stub == {"assertion", "todo"}

BehaviourAndStub == {Assertion, Stub}

TwoCounts == {0, 2}
Three == {3}

Symmetry == Permutations({t1, t2})
=============================================================================
