---------------------------- MODULE MCMailCrypt -----------------------------
(* One account, encrypted or not, used from two sessions at once.  An      *)
(* account that two setups gave two root keys is not followed further.     *)
EXTENDS MailCrypt, TLC

CONSTANTS s1, s2

TwoSessions == {s1, s2}
Either == {FALSE, TRUE}
Sessions == Permutations(TwoSessions)

OneSetup == ~overlapped
=============================================================================
