-------------------------- MODULE MCSecondFactors ---------------------------
(* One account with two requests at a time. *)
EXTENDS SecondFactors, TLC

CONSTANTS r1, r2, s1, k1

Requests == {r1, r2}
Secrets == {s1}
Keys == {k1}
Symmetry == Permutations(Requests)
=============================================================================
