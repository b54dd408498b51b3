--------------------------- MODULE MCChecksEngine ---------------------------
(* Two processes, one domain.                                              *)
EXTENDS ChecksEngine, TLC

CONSTANTS h1, h2

TwoHolders == {h1, h2}
OneDomain == {"d"}
Findings == {"ok", "error"}
Processes == Permutations(TwoHolders)
=============================================================================
