----------------------------- MODULE MCAcmeProv -----------------------------
EXTENDS AcmeProv

(* The hostname, and a domain with a site of its own. *)
TwoSites == {"box", "www"}
=============================================================================
