----------------------------- MODULE MCPhaseBatch -----------------------------
EXTENDS PhaseBatch

TwoGroups == <<{1}, {2}>>

Retries == [class \in AllClasses |-> IF class \in {"auth", "timeout"} THEN 0 ELSE 1]

Conditions == <<None, 1>>
=============================================================================
