-------------------------- MODULE ScenarioBatchMC --------------------------
EXTENDS ScenarioBatch

CONSTANTS a, b, c, d, f, g, x, y

\* a and b use one adapter, c and d another; the fixtures have no action step.
Shared ==
    [k \in {a, b, c, d, f, g} |->
        IF k \in {a, b} THEN {x} ELSE IF k \in {c, d} THEN {y} ELSE {}]
=============================================================================
