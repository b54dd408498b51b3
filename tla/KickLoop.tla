------------------------------ MODULE KickLoop ------------------------------
(***************************************************************************)
(* The run-coalescing loop behind the mail, DNS and web appliers           *)
(* (daemon/internal/kickloop).  Its state in one process: the one-slot     *)
(* kick channel, whether Do is running, and the retry timers that failed   *)
(* runs have armed.  The modules of the appliers use these operators for   *)
(* their loop and add what Do itself does.                                 *)
(***************************************************************************)
EXTENDS Naturals

LoopState == [up : BOOLEAN, kick : BOOLEAN, doing : BOOLEAN, retries : Nat]

(* No process, no loop. *)
LoopDown == [up |-> FALSE, kick |-> FALSE, doing |-> FALSE, retries |-> 0]

(* managerd starts every loop and kicks it once. *)
LoopBooted == [LoopDown EXCEPT !.up = TRUE, !.kick = TRUE]

(* Kick never blocks: a full channel already holds the request. *)
Kicked(l) == IF l.up THEN [l EXCEPT !.kick = TRUE] ELSE l

(* The loop receives from the channel between two runs of Do. *)
CanTake(l) == l.up /\ l.kick /\ ~l.doing

Taken(l) == [l EXCEPT !.kick = FALSE, !.doing = TRUE]

(* Mutant: requests that came in during the run are dropped with it. *)
FinishedDraining(l) == [l EXCEPT !.doing = FALSE, !.kick = FALSE]

Finished(l) == [l EXCEPT !.doing = FALSE]

(* A failed run arms one timer that will Kick. *)
Failed(l) == [up |-> l.up, kick |-> l.kick, doing |-> FALSE, retries |-> l.retries + 1]

RetryFired(l) == [up |-> l.up, kick |-> TRUE, doing |-> l.doing, retries |-> l.retries - 1]

(* Nothing is running and nothing is going to run before the next tick. *)
LoopIdle(l) == l.up /\ ~l.kick /\ ~l.doing /\ l.retries = 0
=============================================================================
