--------------------------- MODULE MCSessionTurns ---------------------------
\* A specialist's session and the session its replies are relayed to.
EXTENDS SessionTurns

CONSTANTS spec, other

TwoSessions  == {spec, other}
SpecOnly     == {spec}
RelayToOther == [s \in {spec, other} |-> IF s = spec THEN other ELSE None]
=============================================================================
