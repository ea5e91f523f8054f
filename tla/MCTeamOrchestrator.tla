------------------------- MODULE MCTeamOrchestrator -------------------------
\* The team on small instances: two tasks at most, the second one depending on
\* the first or not.
EXTENDS TeamOrchestrator

CONSTANTS t1, t2

NoDeps    == {{}}
ChainDeps == {{}, {t1}}
=============================================================================
