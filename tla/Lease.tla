------------------------------- MODULE Lease -------------------------------
(***************************************************************************)
(* The store's singleton leases (daemon/internal/store/lease.go): one row  *)
(* per lease name, claimed by compare-and-swap.  A lease is the row's two  *)
(* columns: who claimed it last, and until when.  Time is a natural        *)
(* number, the replicas' clocks are taken to agree.                        *)
(***************************************************************************)
EXTENDS Integers

CONSTANTS
    Holder,     \* the identities host:pid a process can have (processHolder)
    NoHolder    \* the empty holder of a row nobody ever claimed

ASSUME LeaseAssumption == NoHolder \notin Holder

LeaseRow == [holder : Holder \cup {NoHolder}, expires : Nat]

(* A row that was never claimed: AcquireLease materializes it with the     *)
(* empty holder and an expiry that has passed.                             *)
UnclaimedLease == [holder |-> NoHolder, expires |-> 0]

(* The WHERE clause of the compare-and-swap.  t is the clock as read       *)
(* before the two statements were sent, so it may be stale when the row is *)
(* examined.                                                               *)
Claimable(l, p, t) == l.expires <= t \/ l.holder = p

(* What a successful AcquireLease writes. *)
Claimed(p, t, ttl) == [holder |-> p, expires |-> t + ttl]

(* ReleaseLease: lapse p's own claim at time t, leave any other alone. *)
Released(l, p, t) == IF l.holder = p THEN [l EXCEPT !.expires = t] ELSE l

LeaseLive(l, t) == l.expires > t
=============================================================================
