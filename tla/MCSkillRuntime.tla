--------------------------- MODULE MCSkillRuntime ---------------------------
\* A skill of two steps for TLC: the first is retried once and has a recovery
\* step, the second has neither.
EXTENDS SkillRuntime

CONSTANTS first, second

MCRetries == [s \in {first, second} |-> IF s = first THEN 1 ELSE 0]
MCRecoveryNext == [s \in {first, second} |-> IF s = first THEN second ELSE NoStep]
=============================================================================
