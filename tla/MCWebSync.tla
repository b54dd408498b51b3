------------------------------ MODULE MCWebSync -----------------------------
(* Two site files, of which one can come out broken.                       *)
EXTENDS WebSync, TLC

CONSTANTS f1, f2

TwoFiles == {f1, f2}
TwoContents == {1, 2}
Broken == {2}
Names == Permutations(TwoFiles)
=============================================================================
