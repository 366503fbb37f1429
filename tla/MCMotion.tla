------------------------------ MODULE MCMotion ------------------------------
(* Motion on small instances: one score unit is one hysteresis. *)
EXTENDS Motion

C(p, m, h, a) == [threshold |-> <<p, m, h>>, auto |-> a]

\* Thresholds a margin apart from each other and from zero.
WideConfigs == {C(2, 4, 6, TRUE)}

\* A user retunes them, and closes the gaps, while windows are processed.
TwoConfigs == {C(2, 4, 6, TRUE), C(3, 4, 5, FALSE)}

\* The smallest legal presence threshold (0.01) is below the hysteresis
\* (0.05): on this grid they are equal.
LowPresence == {C(1, 4, 6, TRUE)}

=============================================================================
