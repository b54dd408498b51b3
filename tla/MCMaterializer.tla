--------------------------- MODULE MCMaterializer ---------------------------
(* One map beside the passwd-file; tables that change and change back.     *)
EXTENDS Materializer

OneMap == {"virtual-mailbox-maps"}
TwoValues == {"v0", "v1"}
=============================================================================
