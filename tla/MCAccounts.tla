----------------------------- MODULE MCAccounts -----------------------------
(* Two requests at a time on a fresh box.                                  *)
EXTENDS Accounts, TLC

CONSTANTS q1, q2

TwoRequests == {q1, q2}
Requests == Permutations(TwoRequests)
=============================================================================
