--------------------------- MODULE BackupJournal ---------------------------
(***************************************************************************)
(* What the backup engines of a fleet promise together: the table of runs  *)
(* reads like the journal of a single process that runs one backup after   *)
(* the other and may die at any moment.                                    *)
(***************************************************************************)
EXTENDS Integers

CONSTANT Worker     \* who may run a backup

VARIABLES
    working,    \* the worker, while a backup tool runs
    journal,    \* the entries: id, started, status
    last        \* id of the latest entry

vars == <<working, journal, last>>

Init == working = {} /\ journal = {} /\ last = 0

(* A run begins when nobody works, with an entry of its own. *)
Begin(w) ==
    /\ working = {} /\ working' = {w}
    /\ last' = last + 1
    /\ \E e \in journal' : /\ e.id = last' /\ e.status = "running"
                           /\ journal' = journal \cup {e}

(* The work is over: done, failed or killed. *)
End(w) ==
    /\ working = {w} /\ working' = {}
    /\ UNCHANGED <<journal, last>>

(* The result of the latest run is recorded, once. *)
Record ==
    /\ working = {}
    /\ \E e \in journal, s \in {"ok", "error"} :
          /\ e.id = last /\ e.status = "running"
          /\ journal' = (journal \ {e}) \cup {[e EXCEPT !.status = s]}
    /\ UNCHANGED <<working, last>>

(* Runs that left no result are given up. *)
GiveUp ==
    /\ working = {}
    /\ journal' = {IF e.status = "running" THEN [e EXCEPT !.status = "error"] ELSE e
                   : e \in journal}
    /\ UNCHANGED <<working, last>>

(* Old entries go: some stay, none of them older than one that goes. *)
Trim ==
    /\ working = {}
    /\ journal' \subseteq journal /\ journal' # {}
    /\ \A e \in journal', old \in journal \ journal' : e.started >= old.started
    /\ UNCHANGED <<working, last>>

Next == (\E w \in Worker : Begin(w) \/ End(w)) \/ Record \/ GiveUp \/ Trim

Spec == Init /\ [][Next]_vars
=============================================================================
