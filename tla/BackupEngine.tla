---------------------------- MODULE BackupEngine ----------------------------
(***************************************************************************)
(* The backup engine of managerd (daemon/internal/backup/engine.go) on any *)
(* number of processes that share one store: the scheduler loop, manual    *)
(* requests, the lease that keeps two processes off the repository, the    *)
(* BackupRun rows, the startup reconciliation, and processes that stop at  *)
(* any point.                                                              *)
(*                                                                         *)
(* A process is its identity host:pid.  A restart on bare metal is another *)
(* identity; in a container it is the same one again.  Stop stands for a   *)
(* crash and for an orderly shutdown: shutdown cancels the context that    *)
(* complete and ReleaseLease use, so neither has an effect any more.       *)
(*                                                                         *)
(* Between the two clock readings of a step any amount of time may pass;   *)
(* what is bounded is named: a store statement reaches the store within    *)
(* StoreDelay of the clock reading it carries, and a tool process dies     *)
(* within KillDelay of the moment its context expires.  Any statement may  *)
(* be refused by the store: the engine logs that and goes on or gives up.  *)
(***************************************************************************)
EXTENDS Lease, FiniteSets

CONSTANTS
    RunTimeout,     \* runTimeout (12h)
    LeaseTTL,       \* runTimeout + 1h, the lease of a run
    ReconcileTTL,   \* one minute, the lease of the startup reconciliation
    CatchupAfter,   \* catchupAfter (26h)
    WindowGap,      \* 2h, the least distance of two nightly runs
    KeepRuns,       \* keepRuns
    StoreDelay,     \* bound on clock reading -> store write
    KillDelay,      \* bound on context expiry -> tool process gone
    MaxTime,        \* bound of the model: the clock stops here
    MaxRuns,        \* bound of the model: runs ever recorded
    MaxManual       \* bound of the model: manual requests per process life

ASSUME BackupAssumption ==
    /\ RunTimeout \in Nat /\ LeaseTTL \in Nat /\ ReconcileTTL \in Nat
    /\ StoreDelay \in Nat /\ KillDelay \in Nat
    /\ CatchupAfter \in Nat /\ WindowGap \in Nat
    /\ KeepRuns \in Nat \ {0}
    /\ MaxTime \in Nat /\ MaxRuns \in Nat /\ MaxManual \in Nat
    /\ RunTimeout + KillDelay < LeaseTTL
    /\ StoreDelay < ReconcileTTL

VARIABLES
    now,        \* wall clock
    lease,      \* the "backup" lease row
    enabled,    \* the backup setting: target type is not "off"
    runs,       \* the BackupRun table
    lastId,     \* its id sequence
    pc,         \* where each process's scheduler goroutine is
    stamp,      \* the clock reading its lease statement carries
    deadline,   \* when its run's context expires
    row,        \* id of the BackupRun row it writes
    taken,      \* what it will subtract from busy when the run ends
    manual,     \* e.manual
    busy,       \* e.busy
    kick,       \* the one-slot kick channel
    queued,     \* RunNow calls between manual.Add and busy.Add
    counted,    \* RunNow calls between busy.Add and the kick
    asked       \* RunNow calls of this process life (bounds the model)

storeVars == <<lease, enabled, runs, lastId>>
loopVars  == <<pc, stamp, deadline, row, taken>>
apiVars   == <<manual, busy, kick, queued, counted, asked>>
vars == <<now, storeVars, loopVars, apiVars>>

Status == {"running", "ok", "error"}
Run == [id : Nat, started : Nat, status : Status]

(* Phases in which a tool process may be touching the repository. *)
ToolPhase == {"prepare", "backup", "after"}
Phase == ToolPhase \cup
    {"down", "reconAcquire", "reconMark", "reconRelease", "select", "woken",
     "begin", "acquire", "create", "failed", "done", "prune", "release"}

Working(p) == pc[p] \in ToolPhase
CtxDead(p) == now >= deadline[p]

TypeOK ==
    /\ now \in Nat
    /\ lease \in LeaseRow
    /\ enabled \in BOOLEAN
    /\ runs \in SUBSET Run
    /\ lastId \in Nat
    /\ pc \in [Holder -> Phase]
    /\ stamp \in [Holder -> Nat]
    /\ deadline \in [Holder -> Nat]
    /\ row \in [Holder -> Nat]
    /\ taken \in [Holder -> Nat]
    /\ manual \in [Holder -> Nat]
    /\ busy \in [Holder -> Int]
    /\ kick \in [Holder -> BOOLEAN]
    /\ queued \in [Holder -> Nat]
    /\ counted \in [Holder -> Nat]
    /\ asked \in [Holder -> Nat]

Init ==
    /\ now = 0
    /\ lease = UnclaimedLease
    /\ enabled = TRUE
    /\ runs = {}
    /\ lastId = 0
    /\ pc = [p \in Holder |-> "down"]
    /\ stamp = [p \in Holder |-> 0]
    /\ deadline = [p \in Holder |-> 0]
    /\ row = [p \in Holder |-> 0]
    /\ taken = [p \in Holder |-> 0]
    /\ manual = [p \in Holder |-> 0]
    /\ busy = [p \in Holder |-> 0]
    /\ kick = [p \in Holder |-> FALSE]
    /\ queued = [p \in Holder |-> 0]
    /\ counted = [p \in Holder |-> 0]
    /\ asked = [p \in Holder |-> 0]

Goto(p, phase) == pc' = [pc EXCEPT ![p] = phase]

(* The locals of a function that returns are gone. *)
ForgetLocals(p) ==
    /\ stamp' = [stamp EXCEPT ![p] = 0]
    /\ deadline' = [deadline EXCEPT ![p] = 0]
    /\ row' = [row EXCEPT ![p] = 0]
    /\ taken' = [taken EXCEPT ![p] = 0]

-----------------------------------------------------------------------------
(* The environment: time, stops, the admin's configuration.                *)

(* Time passes, but no further than the two named delays allow. *)
Tick ==
    /\ now < MaxTime
    /\ \A p \in Holder :
        /\ Working(p) => now < deadline[p] + KillDelay
        /\ pc[p] \in {"reconAcquire", "reconMark", "acquire"} =>
               now < stamp[p] + StoreDelay
    /\ now' = now + 1
    /\ UNCHANGED <<storeVars, loopVars, apiVars>>

(* Crash or shutdown: the memory is gone, the store is not. *)
Stop(p) ==
    /\ pc[p] # "down"
    /\ Goto(p, "down")
    /\ ForgetLocals(p)
    /\ manual' = [manual EXCEPT ![p] = 0]
    /\ busy' = [busy EXCEPT ![p] = 0]
    /\ kick' = [kick EXCEPT ![p] = FALSE]
    /\ queued' = [queued EXCEPT ![p] = 0]
    /\ counted' = [counted EXCEPT ![p] = 0]
    /\ asked' = [asked EXCEPT ![p] = 0]
    /\ UNCHANGED <<now, storeVars>>

(* handleBackupConfigSet, as far as the engine can tell. *)
SetConfig ==
    /\ enabled' = ~enabled
    /\ UNCHANGED <<now, lease, runs, lastId, loopVars, apiVars>>

-----------------------------------------------------------------------------
(* Start and reconcileStaleRuns                                            *)

Start(p) ==
    /\ pc[p] = "down"
    /\ stamp' = [stamp EXCEPT ![p] = now]
    /\ Goto(p, "reconAcquire")
    /\ UNCHANGED <<now, storeVars, deadline, row, taken, apiVars>>

(* Mutant: the result of AcquireLease is ignored. *)
ReconcileAcquireUnchecked(p) ==
    /\ pc[p] = "reconAcquire"
    /\ lease' = IF Claimable(lease, p, stamp[p])
                THEN Claimed(p, stamp[p], ReconcileTTL) ELSE lease
    /\ Goto(p, "reconMark")
    /\ UNCHANGED <<now, enabled, runs, lastId, stamp, deadline, row, taken, apiVars>>

(* The lease as an "is anyone backing up" probe; held, or a store that     *)
(* fails, means skip.                                                      *)
ReconcileAcquire(p) ==
    /\ pc[p] = "reconAcquire"
    /\ \/ /\ Claimable(lease, p, stamp[p])
          /\ lease' = Claimed(p, stamp[p], ReconcileTTL)
          /\ Goto(p, "reconMark")
          /\ UNCHANGED <<stamp, deadline, row, taken>>
       \/ /\ UNCHANGED lease
          /\ Goto(p, "select")
          /\ ForgetLocals(p)
    /\ UNCHANGED <<now, enabled, runs, lastId, apiVars>>

(* One update of all the rows, or none when it fails: the deferred release *)
(* follows either way.                                                     *)
ReconcileMark(p) ==
    /\ pc[p] = "reconMark"
    /\ \/ runs' = {IF r.status = "running" THEN [r EXCEPT !.status = "error"] ELSE r
                   : r \in runs}
       \/ UNCHANGED runs
    /\ Goto(p, "reconRelease")
    /\ UNCHANGED <<now, lease, enabled, lastId, stamp, deadline, row, taken, apiVars>>

ReconcileRelease(p) ==
    /\ pc[p] = "reconRelease"
    /\ lease' \in {Released(lease, p, now), lease}
    /\ Goto(p, "select")
    /\ ForgetLocals(p)
    /\ UNCHANGED <<now, enabled, runs, lastId, apiVars>>

-----------------------------------------------------------------------------
(* RunNow, called by handleBackupRun when backups are enabled.  Its three  *)
(* statements interleave with the loop.                                    *)

RunNow(p) ==
    /\ pc[p] \notin {"down", "reconAcquire", "reconMark", "reconRelease"}
    /\ enabled
    /\ asked[p] < MaxManual
    /\ asked' = [asked EXCEPT ![p] = @ + 1]
    /\ manual' = [manual EXCEPT ![p] = @ + 1]
    /\ queued' = [queued EXCEPT ![p] = @ + 1]
    /\ UNCHANGED <<now, storeVars, loopVars, busy, kick, counted>>

RunNowBusy(p) ==
    /\ queued[p] > 0
    /\ busy' = [busy EXCEPT ![p] = @ + 1]
    /\ queued' = [queued EXCEPT ![p] = @ - 1]
    /\ counted' = [counted EXCEPT ![p] = @ + 1]
    /\ UNCHANGED <<now, storeVars, loopVars, manual, kick, asked>>

RunNowKick(p) ==
    /\ counted[p] > 0
    /\ kick' = [kick EXCEPT ![p] = TRUE]
    /\ counted' = [counted EXCEPT ![p] = @ - 1]
    /\ UNCHANGED <<now, storeVars, loopVars, manual, busy, queued, asked>>

-----------------------------------------------------------------------------
(* The scheduler loop                                                      *)

(* Whether the local time is in the nightly window is the environment's    *)
(* choice.                                                                 *)
Due(inWindow) ==
    /\ enabled
    /\ \A r \in runs :
        \/ now - r.started > CatchupAfter
        \/ inWindow /\ now - r.started > WindowGap

WakeOnTimer(p) ==
    /\ pc[p] = "select"
    /\ Goto(p, "woken")
    /\ UNCHANGED <<now, storeVars, stamp, deadline, row, taken, apiVars>>

WakeOnKick(p) ==
    /\ pc[p] = "select"
    /\ kick[p]
    /\ kick' = [kick EXCEPT ![p] = FALSE]
    /\ Goto(p, "woken")
    /\ UNCHANGED <<now, storeVars, stamp, deadline, row, taken, manual, busy, queued, counted, asked>>

(* Mutant: one unit of busy is settled for any number of requests. *)
TakeManualOne(p) ==
    /\ pc[p] = "woken"
    /\ manual[p] > 0
    /\ taken' = [taken EXCEPT ![p] = 1]
    /\ manual' = [manual EXCEPT ![p] = 0]
    /\ Goto(p, "begin")
    /\ UNCHANGED <<now, storeVars, stamp, deadline, row, busy, kick, queued, counted, asked>>

TakeManual(p) ==
    /\ pc[p] = "woken"
    /\ manual[p] > 0
    /\ taken' = [taken EXCEPT ![p] = manual[p]]
    /\ manual' = [manual EXCEPT ![p] = 0]
    /\ Goto(p, "begin")
    /\ UNCHANGED <<now, storeVars, stamp, deadline, row, busy, kick, queued, counted, asked>>

TakeScheduled(p, inWindow) ==
    /\ pc[p] = "woken"
    /\ manual[p] = 0
    /\ IF Due(inWindow)
       THEN /\ busy' = [busy EXCEPT ![p] = @ + 1]
            /\ taken' = [taken EXCEPT ![p] = 1]
            /\ Goto(p, "begin")
       ELSE /\ Goto(p, "select")
            /\ UNCHANGED <<busy, taken>>
    /\ UNCHANGED <<now, storeVars, stamp, deadline, row, manual, kick, queued, counted, asked>>

(* Mutant: busy is not settled. *)
EndRunLeaky(p) ==
    /\ Goto(p, "select")
    /\ ForgetLocals(p)
    /\ UNCHANGED <<busy, manual, kick, queued, counted, asked>>

(* runOnce returns to the loop, which settles busy. *)
EndRun(p) ==
    /\ Goto(p, "select")
    /\ busy' = [busy EXCEPT ![p] = @ - taken[p]]
    /\ ForgetLocals(p)
    /\ UNCHANGED <<manual, kick, queued, counted, asked>>

-----------------------------------------------------------------------------
(* runOnce                                                                 *)

(* Load the configuration; open the run's context and read the clock that  *)
(* AcquireLease will use.  Disabled backups, and a configuration that does *)
(* not load, end the run here.                                             *)
Begin(p) ==
    /\ pc[p] = "begin"
    /\ \/ /\ enabled
          /\ Goto(p, "acquire")
          /\ stamp' = [stamp EXCEPT ![p] = now]
          /\ deadline' = [deadline EXCEPT ![p] = now + RunTimeout]
          /\ UNCHANGED <<row, taken, apiVars>>
       \/ EndRun(p)
    /\ UNCHANGED <<now, storeVars>>

(* Mutant: the lease of a run is as short as the probe's. *)
AcquireShort(p) ==
    /\ pc[p] = "acquire"
    /\ IF ~CtxDead(p) /\ Claimable(lease, p, stamp[p])
       THEN /\ lease' = Claimed(p, stamp[p], ReconcileTTL)
            /\ Goto(p, "create")
            /\ UNCHANGED <<stamp, deadline, row, taken, apiVars>>
       ELSE UNCHANGED lease /\ EndRun(p)
    /\ UNCHANGED <<now, enabled, runs, lastId>>

(* A lease that is held, or a statement that fails, ends the run. *)
Acquire(p) ==
    /\ pc[p] = "acquire"
    /\ \/ /\ ~CtxDead(p) /\ Claimable(lease, p, stamp[p])
          /\ lease' = Claimed(p, stamp[p], LeaseTTL)
          /\ Goto(p, "create")
          /\ UNCHANGED <<stamp, deadline, row, taken, apiVars>>
       \/ UNCHANGED lease /\ EndRun(p)
    /\ UNCHANGED <<now, enabled, runs, lastId>>

(* Record the run.  The insert fails when the context is over (or the      *)
(* store refuses it): nothing was started, the deferred release runs.      *)
CreateRow(p) ==
    /\ pc[p] = "create"
    /\ ~CtxDead(p)
    /\ lastId < MaxRuns
    /\ lastId' = lastId + 1
    /\ runs' = runs \cup {[id |-> lastId + 1, started |-> now, status |-> "running"]}
    /\ row' = [row EXCEPT ![p] = lastId + 1]
    /\ Goto(p, "prepare")
    /\ UNCHANGED <<now, lease, enabled, stamp, deadline, taken, apiVars>>

CreateRowFails(p) ==
    /\ pc[p] = "create"
    /\ Goto(p, "release")
    /\ UNCHANGED <<now, storeVars, stamp, deadline, row, taken, apiVars>>

(* Key, adapter, Prepare, WAL checkpoint and before-backup hook, then      *)
(* Backup: any failure fails the run. *)
ToolSucceeds(p) ==
    /\ pc[p] \in {"prepare", "backup"}
    /\ ~CtxDead(p)
    /\ Goto(p, IF pc[p] = "prepare" THEN "backup" ELSE "after")
    /\ UNCHANGED <<now, storeVars, stamp, deadline, row, taken, apiVars>>

ToolFails(p) ==
    /\ pc[p] \in {"prepare", "backup"}
    /\ Goto(p, "failed")
    /\ UNCHANGED <<now, storeVars, stamp, deadline, row, taken, apiVars>>

(* Prune, Check, after-backup hook, snapshot listing: failures are only    *)
(* warnings.                                                               *)
AfterBackup(p) ==
    /\ pc[p] = "after"
    /\ Goto(p, "done")
    /\ UNCHANGED <<now, storeVars, stamp, deadline, row, taken, apiVars>>

SetStatus(id, s) ==
    runs' = {IF r.id = id THEN [r EXCEPT !.status = s] ELSE r : r \in runs}

(* Mutant: complete writes with a context of its own. *)
CompleteAnyway(p) ==
    /\ pc[p] \in {"failed", "done"}
    /\ SetStatus(row[p], IF pc[p] = "done" THEN "ok" ELSE "error")
    /\ Goto(p, IF pc[p] = "done" THEN "prune" ELSE "release")
    /\ UNCHANGED <<now, lease, enabled, lastId, stamp, deadline, row, taken, apiVars>>

(* complete writes with the run's context: once that is over, or when the  *)
(* update fails, the row keeps its old status.                             *)
Complete(p) ==
    /\ pc[p] \in {"failed", "done"}
    /\ \/ ~CtxDead(p) /\ SetStatus(row[p], IF pc[p] = "done" THEN "ok" ELSE "error")
       \/ UNCHANGED runs
    /\ Goto(p, IF pc[p] = "done" THEN "prune" ELSE "release")
    /\ UNCHANGED <<now, lease, enabled, lastId, stamp, deadline, row, taken, apiVars>>

(* The KeepRuns latest rows by start time are kept, the others deleted. *)
LatestKept ==
    \E keep \in SUBSET runs :
        /\ Cardinality(keep) = KeepRuns
        /\ \A k \in keep, r \in runs \ keep : k.started >= r.started
        /\ runs' = keep

(* Mutant: the rows are pruned with a context of its own. *)
PruneRunsAnyway(p) ==
    /\ pc[p] = "prune"
    /\ LatestKept \/ UNCHANGED runs
    /\ Goto(p, "release")
    /\ UNCHANGED <<now, lease, enabled, lastId, stamp, deadline, row, taken, apiVars>>

(* Nothing is deleted when there are no more rows than that, when the      *)
(* run's context is over and when a statement fails.                       *)
PruneRuns(p) ==
    /\ pc[p] = "prune"
    /\ \/ ~CtxDead(p) /\ LatestKept
       \/ UNCHANGED runs
    /\ Goto(p, "release")
    /\ UNCHANGED <<now, lease, enabled, lastId, stamp, deadline, row, taken, apiVars>>

(* The deferred release, with the run's context. *)
Release(p) ==
    /\ pc[p] = "release"
    /\ lease' \in {IF CtxDead(p) THEN lease ELSE Released(lease, p, now), lease}
    /\ EndRun(p)
    /\ UNCHANGED <<now, enabled, runs, lastId>>

-----------------------------------------------------------------------------
RunOnce(p) ==
    \/ Begin(p) \/ Acquire(p) \/ CreateRow(p) \/ CreateRowFails(p)
    \/ ToolSucceeds(p) \/ ToolFails(p) \/ AfterBackup(p)
    \/ Complete(p) \/ PruneRuns(p) \/ Release(p)

Loop(p) ==
    \/ WakeOnTimer(p) \/ WakeOnKick(p) \/ TakeManual(p)
    \/ \E inWindow \in BOOLEAN : TakeScheduled(p, inWindow)

Reconcile(p) == ReconcileAcquire(p) \/ ReconcileMark(p) \/ ReconcileRelease(p)

ApiCall(p) == RunNow(p) \/ RunNowBusy(p) \/ RunNowKick(p)

Next ==
    \/ Tick
    \/ SetConfig
    \/ \E p \in Holder :
        Start(p) \/ Stop(p) \/ Reconcile(p) \/ ApiCall(p) \/ Loop(p) \/ RunOnce(p)

(* A process that is up keeps running: its goroutine, its timer and a      *)
(* handler in the middle of RunNow are scheduled again and again, and a    *)
(* tool ends by itself or is killed at the run's deadline.                 *)
Fairness ==
    \A p \in Holder :
        /\ WF_vars(Reconcile(p))
        /\ WF_vars(RunNowBusy(p) \/ RunNowKick(p))
        /\ WF_vars(Loop(p))
        /\ WF_vars(RunOnce(p))

Spec == Init /\ [][Next]_vars

FairSpec == Spec /\ Fairness

-----------------------------------------------------------------------------
(* Properties                                                              *)

(* "concurrent restic/duplicity invocations never hit the repository       *)
(* together" (runOnce): at most one process of the fleet is in a phase in  *)
(* which a backup tool runs.                                               *)
ExclusiveRepository ==
    \A p, q \in Holder : Working(p) /\ Working(q) => p = q

(* A run in progress is on record as running: neither a reconciliation on  *)
(* another replica that starts now, nor pruneRuns, nor an earlier run's    *)
(* complete ever touches the row of a live run (reconcileStaleRuns:        *)
(* "must be left alone").                                                  *)
LiveRunRecorded ==
    \A p \in Holder : Working(p) =>
        \E r \in runs : r.id = row[p] /\ r.status = "running"

(* A BackupRun row that says ok or error is final: no late complete of a   *)
(* run that outlived its lease rewrites what the row says.                 *)
FinishedRunIsFinal ==
    [][\A r \in runs, s \in runs' :
         r.id = s.id /\ r.status # "running" => s.status = r.status]_vars

(* The busy counter, which the panel shows, is the work asked for and not  *)
(* yet settled: up to RunNow calls that have not counted themselves yet.   *)
BusyAccounts ==
    \A p \in Holder : busy[p] + queued[p] = manual[p] + taken[p]

(* RunNow never loses its wakeup: when the loop waits and requests are     *)
(* queued, a kick is in the channel or about to be sent.                   *)
NoLostWakeup ==
    \A p \in Holder : pc[p] = "select" /\ manual[p] > 0 =>
        kick[p] \/ queued[p] + counted[p] > 0

(* Every process that stays up serves its requests and reports idle again: *)
(* the panel's "running" indicator always goes out.                        *)
BusyClears == \A p \in Holder : busy[p] > 0 ~> busy[p] <= 0

(* The table of runs, with the tool invocations, is the journal that one   *)
(* process running backups one after the other would keep: no step of any  *)
(* process changes a row while another one works, a result is only ever    *)
(* recorded for the latest run, and what the reconciliation and pruneRuns  *)
(* do falls between two runs.                                              *)
Journal == INSTANCE BackupJournal
               WITH Worker <- Holder, working <- {p \in Holder : Working(p)},
                    journal <- runs, last <- lastId

ImplementsJournal == Journal!Spec

-----------------------------------------------------------------------------
(* The strengthening that makes the safety properties inductive.           *)

RowPhase == ToolPhase \cup {"failed", "done"}
RunPhase == RowPhase \cup {"create", "prune", "release"}

(* The clock readings statements carry are readings of the past, and the   *)
(* run's context was opened no later than the reading of its lease.        *)
StampsPast ==
    \A p \in Holder :
        /\ pc[p] \in {"reconAcquire", "reconMark", "acquire"} =>
               stamp[p] <= now /\ now <= stamp[p] + StoreDelay
        /\ pc[p] = "acquire" => deadline[p] = stamp[p] + RunTimeout

(* A tool process is gone KillDelay after its context expired. *)
ToolsKilled == \A p \in Holder : Working(p) => now <= deadline[p] + KillDelay

(* A run whose context is not long over still owns the lease it took. *)
RunOwnsLease ==
    \A p \in Holder :
        pc[p] \in RunPhase /\ now <= deadline[p] + KillDelay =>
            /\ lease.holder = p
            /\ lease.expires + RunTimeout = deadline[p] + LeaseTTL

(* So does a reconciliation that is about to mark rows. *)
ReconcilerOwnsLease ==
    \A p \in Holder : pc[p] = "reconMark" =>
        lease.holder = p /\ lease.expires = stamp[p] + ReconcileTTL

LeaseInv ==
    /\ TypeOK /\ StampsPast /\ ToolsKilled
    /\ RunOwnsLease /\ ReconcilerOwnsLease

RowsIdentified ==
    /\ \A r \in runs : r.id <= lastId
    /\ \A r, s \in runs : r.id = s.id => r = s

RunHasRow ==
    \A p \in Holder :
        pc[p] \in RowPhase /\ now <= deadline[p] + KillDelay =>
            /\ row[p] = lastId
            /\ \E r \in runs : r.id = row[p] /\ r.status = "running"

ExclusionInv == LeaseInv /\ RowsIdentified /\ RunHasRow

(* busy is settled by what the run took; outside a run nothing is taken.   *)
RequestInv ==
    /\ BusyAccounts
    /\ \A p \in Holder :
        /\ pc[p] \notin RunPhase \cup {"begin", "acquire"} => taken[p] = 0
        /\ pc[p] # "woken" /\ manual[p] > 0 =>
               kick[p] \/ queued[p] + counted[p] > 0
=============================================================================
