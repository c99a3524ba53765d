---------------------------- MODULE MCDirectory ----------------------------
EXTENDS Directory

CONSTANTS a1, a2, a3, a4, supervisor, account

\* Two actors of each type; a1 and a2 share a bucket too, but for the sign.
MCTypeOf == [a \in Actors |-> IF a \in {a1, a2} THEN supervisor ELSE account]
MCHashOf == [a \in Actors |-> CASE a = a1 -> -4 [] a = a2 -> 7 [] a = a3 -> 5 [] a = a4 -> 6]
=============================================================================
