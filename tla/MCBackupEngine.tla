--------------------------- MODULE MCBackupEngine ---------------------------
(* The backup engine on two process identities, for TLC. *)
EXTENDS BackupEngine, TLC

CONSTANTS h1, h2

MCHolder == {h1, h2}
MCOneHolder == {h1}
Replicas == Permutations(MCHolder)
=============================================================================
