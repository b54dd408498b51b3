----------------------------- MODULE Rebuilder ------------------------------
(***************************************************************************)
(* What the kick loop promises to the appliers built on it.  The store     *)
(* holds a version that API handlers advance; a handler first commits its  *)
(* change and then kicks the loop of its own process.  Do reads the store  *)
(* once and, when it succeeds, its process has built what it read.         *)
(* Replicas share the store and do not kick each other: the tick makes     *)
(* them converge.                                                          *)
(***************************************************************************)
EXTENDS KickLoop

CONSTANTS
    Replica,
    MaxVersion,     \* bound of the model: changes
    MaxFailures,    \* bound of the model: failed runs
    MaxCrashes      \* bound of the model: stops of a process

ASSUME RebuilderAssumption ==
    MaxVersion \in Nat /\ MaxFailures \in Nat /\ MaxCrashes \in Nat

VARIABLES
    version,    \* version of the store
    own,        \* newest version committed by a handler of each replica
    notifying,  \* handlers between their commit and their kick
    loop,       \* each replica's loop
    seen,       \* what the running Do has read, or Nothing
    built,      \* what the last successful Do of each replica has built
    failures, crashes

rebuilderVars == <<version, own, notifying, loop, seen, built, failures, crashes>>

(* Larger than every version: a Do that has not read yet will see them all.*)
Nothing == MaxVersion + 1

RebuilderTypeOK ==
    /\ version \in 0 .. MaxVersion
    /\ own \in [Replica -> 0 .. MaxVersion]
    /\ notifying \in [Replica -> Nat]
    /\ loop \in [Replica -> LoopState]
    /\ seen \in [Replica -> 0 .. Nothing]
    /\ built \in [Replica -> 0 .. MaxVersion]
    /\ failures \in Nat
    /\ crashes \in Nat

RebuilderInit ==
    /\ version = 0
    /\ own = [r \in Replica |-> 0]
    /\ notifying = [r \in Replica |-> 0]
    /\ loop = [r \in Replica |-> LoopDown]
    /\ seen = [r \in Replica |-> Nothing]
    /\ built = [r \in Replica |-> 0]
    /\ failures = 0
    /\ crashes = 0

Boot(r) ==
    /\ ~loop[r].up
    /\ loop' = [loop EXCEPT ![r] = LoopBooted]
    /\ UNCHANGED <<version, own, notifying, seen, built, failures, crashes>>

(* The process is gone, with the handlers that had not kicked yet; what    *)
(* was built stays on disk.                                                *)
Crash(r) ==
    /\ loop[r].up
    /\ crashes < MaxCrashes
    /\ crashes' = crashes + 1
    /\ loop' = [loop EXCEPT ![r] = LoopDown]
    /\ notifying' = [notifying EXCEPT ![r] = 0]
    /\ seen' = [seen EXCEPT ![r] = Nothing]
    /\ UNCHANGED <<version, own, built, failures>>

(* A handler commits, then notifies (mailDataChanged and its siblings). *)
Commit(r) ==
    /\ loop[r].up
    /\ version < MaxVersion
    /\ version' = version + 1
    /\ own' = [own EXCEPT ![r] = version + 1]
    /\ notifying' = [notifying EXCEPT ![r] = @ + 1]
    /\ UNCHANGED <<loop, seen, built, failures, crashes>>

Notify(r) ==
    /\ notifying[r] > 0
    /\ notifying' = [notifying EXCEPT ![r] = @ - 1]
    /\ loop' = [loop EXCEPT ![r] = Kicked(@)]
    /\ UNCHANGED <<version, own, seen, built, failures, crashes>>

TickFires(r) ==
    /\ loop[r].up
    /\ loop' = [loop EXCEPT ![r] = Kicked(@)]
    /\ UNCHANGED <<version, own, notifying, seen, built, failures, crashes>>

RetryFires(r) ==
    /\ loop[r].up /\ loop[r].retries > 0
    /\ loop' = [loop EXCEPT ![r] = RetryFired(@)]
    /\ UNCHANGED <<version, own, notifying, seen, built, failures, crashes>>

TakeKick(r) ==
    /\ CanTake(loop[r])
    /\ loop' = [loop EXCEPT ![r] = Taken(@)]
    /\ UNCHANGED <<version, own, notifying, seen, built, failures, crashes>>

(* Mutant: Do works from the changes of its own process. *)
DoReadsOwn(r) ==
    /\ loop[r].doing
    /\ seen[r] = Nothing
    /\ seen' = [seen EXCEPT ![r] = own[r]]
    /\ UNCHANGED <<version, own, notifying, loop, built, failures, crashes>>

(* Mutant: Do reads a lagging copy of the store. *)
DoReadsLagging(r) ==
    /\ loop[r].doing
    /\ seen[r] = Nothing
    /\ \E v \in 0 .. version : seen' = [seen EXCEPT ![r] = v]
    /\ UNCHANGED <<version, own, notifying, loop, built, failures, crashes>>

DoReads(r) ==
    /\ loop[r].doing
    /\ seen[r] = Nothing
    /\ seen' = [seen EXCEPT ![r] = version]
    /\ UNCHANGED <<version, own, notifying, loop, built, failures, crashes>>

DoSucceeds(r) ==
    /\ loop[r].doing
    /\ seen[r] # Nothing
    /\ built' = [built EXCEPT ![r] = seen[r]]
    /\ seen' = [seen EXCEPT ![r] = Nothing]
    /\ loop' = [loop EXCEPT ![r] = Finished(@)]
    /\ UNCHANGED <<version, own, notifying, failures, crashes>>

DoFails(r) ==
    /\ loop[r].doing
    /\ failures < MaxFailures
    /\ failures' = failures + 1
    /\ seen' = [seen EXCEPT ![r] = Nothing]
    /\ loop' = [loop EXCEPT ![r] = Failed(@)]
    /\ UNCHANGED <<version, own, notifying, built, crashes>>

Do(r) == DoReads(r) \/ DoSucceeds(r) \/ DoFails(r)

RebuilderNext ==
    \E r \in Replica :
        \/ Boot(r) \/ Crash(r) \/ Commit(r) \/ Notify(r)
        \/ TickFires(r) \/ RetryFires(r) \/ TakeKick(r) \/ Do(r)

(* The service manager restarts managerd, a handler that committed goes on *)
(* to kick, timers fire, and the loop's goroutine runs.                    *)
RebuilderFairness ==
    \A r \in Replica :
        /\ WF_rebuilderVars(Boot(r)) /\ WF_rebuilderVars(Notify(r))
        /\ WF_rebuilderVars(TickFires(r)) /\ WF_rebuilderVars(RetryFires(r))
        /\ WF_rebuilderVars(TakeKick(r)) /\ WF_rebuilderVars(Do(r))

RebuilderSpec == RebuilderInit /\ [][RebuilderNext]_rebuilderVars

RebuilderFairSpec == RebuilderSpec /\ RebuilderFairness

-----------------------------------------------------------------------------
(* Without waiting for the tick, no change a process made is ever          *)
(* forgotten by its own loop: it is built, or a run that will see it is    *)
(* requested, armed for a retry, or already under way and has not read the *)
(* store too early.  This is what the one-slot channel, emptied before Do  *)
(* reads, is for.                                                          *)
NoForgottenChange ==
    \A r \in Replica : loop[r].up =>
        \/ built[r] >= own[r]
        \/ loop[r].kick \/ loop[r].retries > 0 \/ notifying[r] > 0
        \/ loop[r].doing /\ seen[r] >= own[r]

(* What is on disk never goes back to an older version of the store: Do    *)
(* runs are serialized by the loop.                                        *)
NeverBuildsBackwards == [][\A r \in Replica : built'[r] >= built[r]]_rebuilderVars

(* "a replica that missed a mutation (another process handled the request) *)
(* still converges", and "a transient error heals": once changes, errors   *)
(* and crashes stop, every replica has built the last version.             *)
Converges == <>[](\A r \in Replica : built[r] = version)
=============================================================================
