---------------------------- MODULE MCRebuilder -----------------------------
(* Two replicas on one store, for TLC. *)
EXTENDS Rebuilder, TLC
CONSTANTS r1, r2
MCReplica == {r1, r2}
=============================================================================
