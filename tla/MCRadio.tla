------------------------------ MODULE MCRadio -------------------------------
\* Two neighbours: one sends two long packets, the other one that is just
\* short enough for one frame, a long one, and one that is too long.
EXTENDS Radio, TLC

CONSTANTS n1, n2

MCProgram == (n1 :> <<6, 5>>) @@ (n2 :> <<4, 5, 9>>)
=============================================================================
