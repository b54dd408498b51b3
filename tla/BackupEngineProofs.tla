------------------------- MODULE BackupEngineProofs -------------------------
(***************************************************************************)
(* Proofs about the backup engine, for any set of processes and any        *)
(* timeouts that satisfy BackupAssumption.                                 *)
(***************************************************************************)
EXTENDS BackupEngine, FiniteSetTheorems, TLAPS

USE BackupAssumption, LeaseAssumption

(* The type invariant: every step of the engine keeps its state well-typed.*)
LEMMA TypeStep == TypeOK /\ [Next]_vars => TypeOK'
  <1> SUFFICES ASSUME TypeOK, [Next]_vars
               PROVE  TypeOK'
    OBVIOUS
  <1> USE DEF TypeOK, vars, storeVars, loopVars, apiVars, Phase, ToolPhase
  <1>1. CASE Tick
    BY <1>1 DEF Tick
  <1>2. CASE SetConfig
    BY <1>2 DEF SetConfig
  <1>3. ASSUME NEW p \in Holder, Start(p)
         PROVE  TypeOK'
    BY <1>3 DEF Start, Goto
  <1>4. ASSUME NEW p \in Holder, Stop(p)
         PROVE  TypeOK'
    BY <1>4 DEF Stop, Goto, ForgetLocals
  <1>5. ASSUME NEW p \in Holder, ReconcileAcquire(p)
         PROVE  TypeOK'
    BY <1>5 DEF ReconcileAcquire, Goto, ForgetLocals, Claimed, LeaseRow
  <1>6. ASSUME NEW p \in Holder, ReconcileMark(p)
         PROVE  TypeOK'
    BY <1>6 DEF ReconcileMark, Goto, Run, Status
  <1>7. ASSUME NEW p \in Holder, ReconcileRelease(p)
         PROVE  TypeOK'
    BY <1>7 DEF ReconcileRelease, Goto, ForgetLocals, Released, LeaseRow
  <1>8. ASSUME NEW p \in Holder, RunNow(p)
         PROVE  TypeOK'
    BY <1>8 DEF RunNow
  <1>9. ASSUME NEW p \in Holder, RunNowBusy(p)
         PROVE  TypeOK'
    BY <1>9 DEF RunNowBusy
  <1>10. ASSUME NEW p \in Holder, RunNowKick(p)
         PROVE  TypeOK'
    BY <1>10 DEF RunNowKick
  <1>11. ASSUME NEW p \in Holder, WakeOnTimer(p)
         PROVE  TypeOK'
    BY <1>11 DEF WakeOnTimer, Goto
  <1>12. ASSUME NEW p \in Holder, WakeOnKick(p)
         PROVE  TypeOK'
    BY <1>12 DEF WakeOnKick, Goto
  <1>13. ASSUME NEW p \in Holder, TakeManual(p)
         PROVE  TypeOK'
    BY <1>13 DEF TakeManual, Goto
  <1>14. ASSUME NEW p \in Holder, NEW w \in BOOLEAN, TakeScheduled(p, w)
         PROVE  TypeOK'
    BY <1>14 DEF TakeScheduled, Goto
  <1>15. ASSUME NEW p \in Holder, Begin(p)
         PROVE  TypeOK'
    BY <1>15 DEF Begin, Goto, EndRun, ForgetLocals
  <1>16. ASSUME NEW p \in Holder, Acquire(p)
         PROVE  TypeOK'
    BY <1>16 DEF Acquire, Goto, EndRun, ForgetLocals, Claimed, LeaseRow
  <1>17. ASSUME NEW p \in Holder, CreateRow(p)
         PROVE  TypeOK'
    BY <1>17 DEF CreateRow, Goto, Run, Status
  <1>18. ASSUME NEW p \in Holder, CreateRowFails(p)
         PROVE  TypeOK'
    BY <1>18 DEF CreateRowFails, Goto
  <1>19. ASSUME NEW p \in Holder, ToolSucceeds(p)
         PROVE  TypeOK'
    BY <1>19 DEF ToolSucceeds, Goto
  <1>20. ASSUME NEW p \in Holder, ToolFails(p)
         PROVE  TypeOK'
    BY <1>20 DEF ToolFails, Goto
  <1>21. ASSUME NEW p \in Holder, AfterBackup(p)
         PROVE  TypeOK'
    BY <1>21 DEF AfterBackup, Goto
  <1>22. ASSUME NEW p \in Holder, Complete(p)
         PROVE  TypeOK'
    BY <1>22 DEF Complete, Goto, SetStatus, Run, Status
  <1>23. ASSUME NEW p \in Holder, PruneRuns(p)
         PROVE  TypeOK'
    BY <1>23 DEF PruneRuns, LatestKept, Goto
  <1>24. ASSUME NEW p \in Holder, Release(p)
         PROVE  TypeOK'
    BY <1>24 DEF Release, Goto, EndRun, ForgetLocals, Released, LeaseRow
  <1>25. CASE UNCHANGED vars
    BY <1>25
  <1> QED
    BY <1>1, <1>2, <1>3, <1>4, <1>5, <1>6, <1>7, <1>8, <1>9, <1>10, <1>11, <1>12, <1>13, <1>14,
       <1>15, <1>16, <1>17, <1>18, <1>19, <1>20, <1>21, <1>22, <1>23, <1>24, <1>25
    DEF Next, Reconcile, ApiCall, Loop, RunOnce

(* Every action keeps who owns the lease and until when. *)
LEMMA LeaseStep ==
    LeaseInv /\ TypeOK' /\ [Next]_vars => LeaseInv'
  <1> SUFFICES ASSUME LeaseInv, TypeOK', [Next]_vars
               PROVE  LeaseInv'
    OBVIOUS
  <1> USE DEF LeaseInv, TypeOK, LeaseRow, StampsPast, ToolsKilled, RunOwnsLease,
              ReconcilerOwnsLease, Working, Phase, ToolPhase, RowPhase, RunPhase,
              vars, storeVars, loopVars, apiVars
  <1>1. CASE Tick
    BY <1>1 DEF Tick
  <1>2. CASE SetConfig
    BY <1>2 DEF SetConfig
  <1>3. ASSUME NEW p \in Holder, Start(p)
         PROVE  LeaseInv'
    BY <1>3 DEF Start, Goto
  <1>4. ASSUME NEW p \in Holder, Stop(p)
         PROVE  LeaseInv'
    BY <1>4 DEF Stop, Goto, ForgetLocals
  <1>5. ASSUME NEW p \in Holder, ReconcileAcquire(p)
         PROVE  LeaseInv'
    BY <1>5 DEF ReconcileAcquire, Goto, ForgetLocals, Claimed, Claimable
  <1>6. ASSUME NEW p \in Holder, ReconcileMark(p)
         PROVE  LeaseInv'
    BY <1>6 DEF ReconcileMark, Goto
  <1>7. ASSUME NEW p \in Holder, ReconcileRelease(p)
         PROVE  LeaseInv'
    BY <1>7 DEF ReconcileRelease, Goto, ForgetLocals, Released
  <1>8. ASSUME NEW p \in Holder, RunNow(p)
         PROVE  LeaseInv'
    BY <1>8 DEF RunNow
  <1>9. ASSUME NEW p \in Holder, RunNowBusy(p)
         PROVE  LeaseInv'
    BY <1>9 DEF RunNowBusy
  <1>10. ASSUME NEW p \in Holder, RunNowKick(p)
         PROVE  LeaseInv'
    BY <1>10 DEF RunNowKick
  <1>11. ASSUME NEW p \in Holder, WakeOnTimer(p)
         PROVE  LeaseInv'
    BY <1>11 DEF WakeOnTimer, Goto
  <1>12. ASSUME NEW p \in Holder, WakeOnKick(p)
         PROVE  LeaseInv'
    BY <1>12 DEF WakeOnKick, Goto
  <1>13. ASSUME NEW p \in Holder, TakeManual(p)
         PROVE  LeaseInv'
    BY <1>13 DEF TakeManual, Goto
  <1>14. ASSUME NEW p \in Holder, NEW w \in BOOLEAN, TakeScheduled(p, w)
         PROVE  LeaseInv'
    BY <1>14 DEF TakeScheduled, Goto
  <1>15. ASSUME NEW p \in Holder, Begin(p)
         PROVE  LeaseInv'
    <2>1. CASE Goto(p, "acquire")
      BY <1>15, <2>1 DEF Begin, EndRun, Goto
    <2>2. CASE EndRun(p)
      BY <1>15, <2>2 DEF Begin, EndRun, Goto, ForgetLocals
    <2> QED
      BY <1>15, <2>1, <2>2 DEF Begin
  <1>16. ASSUME NEW p \in Holder, Acquire(p)
         PROVE  LeaseInv'
    <2>1. CASE Goto(p, "create")
      <3>1. /\ lease' = Claimed(p, stamp[p], LeaseTTL)
            /\ pc' = [pc EXCEPT ![p] = "create"]
            /\ UNCHANGED <<now, stamp, deadline>>
            /\ deadline[p] = stamp[p] + RunTimeout
            /\ stamp[p] <= now
            /\ Claimable(lease, p, stamp[p])
        BY <1>16, <2>1 DEF Acquire, EndRun, Goto
      <3>2. \A q \in Holder \ {p} :
              /\ pc[q] \in RunPhase => ~(now <= deadline[q] + KillDelay)
              /\ pc[q] # "reconMark"
        BY <3>1 DEF Claimable
      <3>3. StampsPast' /\ ToolsKilled'
        BY <3>1
      <3>4. RunOwnsLease' /\ ReconcilerOwnsLease'
        BY <3>1, <3>2 DEF Claimed
      <3> QED
        BY <3>3, <3>4
    <2>2. CASE EndRun(p)
      BY <1>16, <2>2 DEF Acquire, EndRun, Goto, ForgetLocals
    <2> QED
      BY <1>16, <2>1, <2>2 DEF Acquire
  <1>17. ASSUME NEW p \in Holder, CreateRow(p)
         PROVE  LeaseInv'
    BY <1>17 DEF CreateRow, Goto, CtxDead
  <1>18. ASSUME NEW p \in Holder, CreateRowFails(p)
         PROVE  LeaseInv'
    BY <1>18 DEF CreateRowFails, Goto
  <1>19. ASSUME NEW p \in Holder, ToolSucceeds(p)
         PROVE  LeaseInv'
    BY <1>19 DEF ToolSucceeds, Goto, CtxDead
  <1>20. ASSUME NEW p \in Holder, ToolFails(p)
         PROVE  LeaseInv'
    BY <1>20 DEF ToolFails, Goto
  <1>21. ASSUME NEW p \in Holder, AfterBackup(p)
         PROVE  LeaseInv'
    BY <1>21 DEF AfterBackup, Goto
  <1>22. ASSUME NEW p \in Holder, Complete(p)
         PROVE  LeaseInv'
    BY <1>22 DEF Complete, Goto
  <1>23. ASSUME NEW p \in Holder, PruneRuns(p)
         PROVE  LeaseInv'
    BY <1>23 DEF PruneRuns, LatestKept, Goto
  <1>24. ASSUME NEW p \in Holder, Release(p)
         PROVE  LeaseInv'
    BY <1>24 DEF Release, Goto, ForgetLocals, EndRun, Released, CtxDead
  <1>25. CASE UNCHANGED vars
    BY <1>25
  <1> HIDE DEF LeaseInv, TypeOK, LeaseRow, StampsPast, ToolsKilled, RunOwnsLease,
              ReconcilerOwnsLease, Working, Phase, ToolPhase, RowPhase, RunPhase,
              vars, storeVars, loopVars, apiVars
  <1> QED
    BY <1>1, <1>2, <1>3, <1>4, <1>5, <1>6, <1>7, <1>8, <1>9, <1>10, <1>11, <1>12, <1>13, <1>14,
       <1>15, <1>16, <1>17, <1>18, <1>19, <1>20, <1>21, <1>22, <1>23, <1>24, <1>25
    DEF Next, Reconcile, ApiCall, Loop, RunOnce

(* The lease excludes: a run that is still within its time is the only     *)
(* one, and no reconciliation is marking rows beside it.                   *)
LEMMA OwnerAlone ==
    ASSUME LeaseInv, NEW p \in Holder,
           pc[p] \in RunPhase, now <= deadline[p] + KillDelay
    PROVE  /\ \A q \in Holder : pc[q] \in RunPhase /\ now <= deadline[q] + KillDelay => q = p
           /\ \A q \in Holder : pc[q] # "reconMark"
  BY DEF LeaseInv, RunOwnsLease, ReconcilerOwnsLease, RunPhase, RowPhase, ToolPhase

(* While the reconciler marks rows, no run is within its time. *)
LEMMA ReconcilerAlone ==
    ASSUME LeaseInv, NEW p \in Holder, pc[p] = "reconMark"
    PROVE  \A q \in Holder : pc[q] \in RunPhase => ~(now <= deadline[q] + KillDelay)
  BY OwnerAlone

(* Every action keeps ids apart and the row of a live run running. *)
LEMMA RowStep ==
    ExclusionInv /\ LeaseInv' /\ [Next]_vars => RowsIdentified' /\ RunHasRow'
  <1> SUFFICES ASSUME ExclusionInv, LeaseInv', [Next]_vars
               PROVE  RowsIdentified' /\ RunHasRow'
    OBVIOUS
  <1> USE DEF ExclusionInv, LeaseInv, TypeOK, RowsIdentified, RunHasRow, Working,
              Phase, ToolPhase, RowPhase, RunPhase, vars, storeVars, loopVars, apiVars
  <1>1. CASE Tick
    BY <1>1 DEF Tick
  <1>2. CASE SetConfig
    BY <1>2 DEF SetConfig
  <1>3. ASSUME NEW p \in Holder, Start(p)
         PROVE  RowsIdentified' /\ RunHasRow'
    BY <1>3 DEF Start, Goto
  <1>4. ASSUME NEW p \in Holder, Stop(p)
         PROVE  RowsIdentified' /\ RunHasRow'
    BY <1>4 DEF Stop, Goto, ForgetLocals
  <1>5. ASSUME NEW p \in Holder, ReconcileAcquire(p)
         PROVE  RowsIdentified' /\ RunHasRow'
    BY <1>5 DEF ReconcileAcquire, Goto, ForgetLocals
  <1>6. ASSUME NEW p \in Holder, ReconcileMark(p)
         PROVE  RowsIdentified' /\ RunHasRow'
    <2>1. \A q \in Holder : pc'[q] \in RowPhase => ~(now' <= deadline'[q] + KillDelay)
      BY <1>6, ReconcilerAlone DEF ReconcileMark, Goto
    <2>2. CASE runs' = runs
      BY <1>6, <2>1, <2>2 DEF ReconcileMark
    <2>3. CASE runs' # runs
      <3>1. \A s \in runs' : \E r \in runs : s.id = r.id /\
                s = IF r.status = "running" THEN [r EXCEPT !.status = "error"] ELSE r
        BY <1>6, <2>3 DEF ReconcileMark, Run
      <3>2. RowsIdentified'
        BY <1>6, <3>1 DEF ReconcileMark
      <3> QED
        BY <2>1, <3>2
    <2> QED
      BY <2>2, <2>3
  <1>7. ASSUME NEW p \in Holder, ReconcileRelease(p)
         PROVE  RowsIdentified' /\ RunHasRow'
    BY <1>7 DEF ReconcileRelease, Goto, ForgetLocals
  <1>8. ASSUME NEW p \in Holder, RunNow(p)
         PROVE  RowsIdentified' /\ RunHasRow'
    BY <1>8 DEF RunNow
  <1>9. ASSUME NEW p \in Holder, RunNowBusy(p)
         PROVE  RowsIdentified' /\ RunHasRow'
    BY <1>9 DEF RunNowBusy
  <1>10. ASSUME NEW p \in Holder, RunNowKick(p)
         PROVE  RowsIdentified' /\ RunHasRow'
    BY <1>10 DEF RunNowKick
  <1>11. ASSUME NEW p \in Holder, WakeOnTimer(p)
         PROVE  RowsIdentified' /\ RunHasRow'
    BY <1>11 DEF WakeOnTimer, Goto
  <1>12. ASSUME NEW p \in Holder, WakeOnKick(p)
         PROVE  RowsIdentified' /\ RunHasRow'
    BY <1>12 DEF WakeOnKick, Goto
  <1>13. ASSUME NEW p \in Holder, TakeManual(p)
         PROVE  RowsIdentified' /\ RunHasRow'
    BY <1>13 DEF TakeManual, Goto
  <1>14. ASSUME NEW p \in Holder, NEW w \in BOOLEAN, TakeScheduled(p, w)
         PROVE  RowsIdentified' /\ RunHasRow'
    BY <1>14 DEF TakeScheduled, Goto
  <1>15. ASSUME NEW p \in Holder, Begin(p)
         PROVE  RowsIdentified' /\ RunHasRow'
    BY <1>15 DEF Begin, Goto, ForgetLocals, EndRun
  <1>16. ASSUME NEW p \in Holder, Acquire(p)
         PROVE  RowsIdentified' /\ RunHasRow'
    BY <1>16 DEF Acquire, Goto, ForgetLocals, EndRun
  <1>17. ASSUME NEW p \in Holder, CreateRow(p)
         PROVE  RowsIdentified' /\ RunHasRow'
    <2> DEFINE new == [id |-> lastId + 1, started |-> now, status |-> "running"]
    <2>1. /\ runs' = runs \cup {new} /\ lastId' = lastId + 1
          /\ row' = [row EXCEPT ![p] = lastId + 1]
          /\ pc' = [pc EXCEPT ![p] = "prepare"]
          /\ UNCHANGED <<now, deadline>>
      BY <1>17 DEF CreateRow, Goto
    <2>2. RowsIdentified'
      <3>1. \A r \in runs : r.id \in Nat /\ r.id # new.id
        BY DEF Run
      <3> QED
        BY <2>1, <3>1
    <2>3. RunHasRow'
      <3>1. new \in runs' /\ new.id = row'[p] /\ new.status = "running"
        BY <2>1
      <3>2. \A q \in Holder \ {p} : pc'[q] = pc[q] /\ row'[q] = row[q]
        BY <2>1
      <3>3. \A r \in runs : r \in runs'
        BY <2>1
      <3>4. \A q \in Holder \ {p} : pc[q] \in RowPhase => ~(now <= deadline[q] + KillDelay)
        BY <1>17, OwnerAlone DEF CreateRow, CtxDead
      <3> HIDE DEF new
      <3> QED
        BY <2>1, <3>1, <3>2, <3>3, <3>4
    <2> QED
      BY <2>2, <2>3
  <1>18. ASSUME NEW p \in Holder, CreateRowFails(p)
         PROVE  RowsIdentified' /\ RunHasRow'
    BY <1>18 DEF CreateRowFails, Goto
  <1>19. ASSUME NEW p \in Holder, ToolSucceeds(p)
         PROVE  RowsIdentified' /\ RunHasRow'
    BY <1>19 DEF ToolSucceeds, Goto
  <1>20. ASSUME NEW p \in Holder, ToolFails(p)
         PROVE  RowsIdentified' /\ RunHasRow'
    BY <1>20 DEF ToolFails, Goto
  <1>21. ASSUME NEW p \in Holder, AfterBackup(p)
         PROVE  RowsIdentified' /\ RunHasRow'
    BY <1>21 DEF AfterBackup, Goto
  <1>22. ASSUME NEW p \in Holder, Complete(p)
         PROVE  RowsIdentified' /\ RunHasRow'
    <2>1. CASE UNCHANGED runs
      BY <1>22, <2>1 DEF Complete, Goto
    <2>2. CASE ~CtxDead(p) /\ SetStatus(row[p], IF pc[p] = "done" THEN "ok" ELSE "error")
      <3> DEFINE st == IF pc[p] = "done" THEN "ok" ELSE "error"
      <3>1. runs' = {IF r.id = row[p] THEN [r EXCEPT !.status = st] ELSE r : r \in runs}
        BY <2>2 DEF SetStatus
      <3>2. UNCHANGED <<now, lastId, deadline, row>>
        BY <1>22 DEF Complete
      <3>3. \A q \in Holder : pc'[q] \in RowPhase => ~(now' <= deadline'[q] + KillDelay)
        BY <1>22, <2>2, OwnerAlone DEF Complete, Goto, CtxDead
      <3>4. \A s \in runs' : \E r \in runs : s.id = r.id /\
              s = IF r.id = row[p] THEN [r EXCEPT !.status = st] ELSE r
        BY <3>1 DEF Run
      <3>5. RowsIdentified'
        BY <3>2, <3>4
      <3> QED
        BY <3>3, <3>5
    <2> QED
      BY <1>22, <2>1, <2>2 DEF Complete
  <1>23. ASSUME NEW p \in Holder, PruneRuns(p)
         PROVE  RowsIdentified' /\ RunHasRow'
    <2>1. CASE UNCHANGED runs
      BY <1>23, <2>1 DEF PruneRuns, Goto
    <2>2. CASE ~CtxDead(p) /\ LatestKept
      <3>1. runs' \subseteq runs /\ UNCHANGED <<now, lastId, deadline, row>>
        BY <1>23, <2>2 DEF PruneRuns, LatestKept
      <3>2. \A q \in Holder : pc'[q] \in RowPhase => ~(now' <= deadline'[q] + KillDelay)
        BY <1>23, <2>2, OwnerAlone DEF PruneRuns, Goto, CtxDead
      <3> QED
        BY <3>1, <3>2
    <2> QED
      BY <1>23, <2>1, <2>2 DEF PruneRuns
  <1>24. ASSUME NEW p \in Holder, Release(p)
         PROVE  RowsIdentified' /\ RunHasRow'
    BY <1>24 DEF Release, Goto, ForgetLocals, EndRun
  <1>25. CASE UNCHANGED vars
    BY <1>25
  <1> QED
    BY <1>1, <1>2, <1>3, <1>4, <1>5, <1>6, <1>7, <1>8, <1>9, <1>10, <1>11, <1>12, <1>13, <1>14,
       <1>15, <1>16, <1>17, <1>18, <1>19, <1>20, <1>21, <1>22, <1>23, <1>24, <1>25
    DEF Next, Reconcile, ApiCall, Loop, RunOnce

(* Every reachable state satisfies the strengthened invariant. *)
THEOREM ExclusionInvariant == Spec => []ExclusionInv
  <1>1. Init => ExclusionInv
    BY DEF Init, ExclusionInv, LeaseInv, TypeOK, LeaseRow, UnclaimedLease, StampsPast,
           ToolsKilled, RunOwnsLease, ReconcilerOwnsLease, RowsIdentified, RunHasRow,
           Working, Phase, ToolPhase, RowPhase, RunPhase
  <1>2. ExclusionInv /\ [Next]_vars => ExclusionInv'
    BY TypeStep, LeaseStep, RowStep DEF ExclusionInv, LeaseInv
  <1> QED
    BY <1>1, <1>2, PTL DEF Spec

(* The state stays well-typed (TypeOK), whatever stops and restarts. *)
THEOREM TypeCorrect == Spec => []TypeOK
  <1>1. ExclusionInv => TypeOK
    BY DEF ExclusionInv, LeaseInv
  <1> QED
    BY <1>1, ExclusionInvariant, PTL

(* Two workers would both own the lease. *)
LEMMA ExclusionInvExcludes == ExclusionInv => ExclusiveRepository
  BY OwnerAlone DEF ExclusionInv, LeaseInv, ExclusiveRepository, ToolsKilled, Working,
                    ToolPhase, RowPhase, RunPhase

(* Two processes never run a backup tool against the repository at once    *)
(* (ExclusiveRepository), for any fleet and any timeouts with              *)
(* RunTimeout + KillDelay < LeaseTTL.                                      *)
THEOREM RepositoryExclusion == Spec => []ExclusiveRepository
  BY ExclusionInvariant, ExclusionInvExcludes, PTL

(* The row of a run in progress says running (LiveRunRecorded). *)
THEOREM LiveRunsRecorded == Spec => []LiveRunRecorded
  <1>1. ExclusionInv => LiveRunRecorded
    BY DEF ExclusionInv, LeaseInv, LiveRunRecorded, RunHasRow, ToolsKilled, Working,
           ToolPhase, RowPhase
  <1> QED
    BY <1>1, ExclusionInvariant, PTL

(* The end of a run gives back what it took from busy. *)
LEMMA EndRunSettles ==
    ASSUME TypeOK, RequestInv, NEW p \in Holder, EndRun(p), pc[p] # "woken"
    PROVE  RequestInv'
  <1>1. /\ pc' = [pc EXCEPT ![p] = "select"]
        /\ busy' = [busy EXCEPT ![p] = busy[p] - taken[p]]
        /\ taken' = [taken EXCEPT ![p] = 0]
        /\ UNCHANGED <<manual, kick, queued, counted>>
    BY DEF EndRun, Goto, ForgetLocals
  <1>2. BusyAccounts'
    <2>1. \A q \in Holder : /\ busy[q] \in Int /\ queued[q] \in Nat
                             /\ manual[q] \in Nat /\ taken[q] \in Nat
                             /\ busy[q] + queued[q] = manual[q] + taken[q]
      BY DEF TypeOK, RequestInv, BusyAccounts
    <2>2. busy \in [Holder -> Int] /\ taken \in [Holder -> Nat]
      BY DEF TypeOK
    <2>3. busy'[p] = busy[p] - taken[p] /\ taken'[p] = 0
      BY <1>1, <2>2
    <2>4. \A q \in Holder : q # p => busy'[q] = busy[q] /\ taken'[q] = taken[q]
      BY <1>1, <2>2
    <2>5. busy'[p] + queued'[p] = manual'[p] + taken'[p]
      BY <1>1, <2>1, <2>3
    <2>6. \A q \in Holder : q # p => busy'[q] + queued'[q] = manual'[q] + taken'[q]
      BY <1>1, <2>1, <2>4
    <2> QED
      BY <2>5, <2>6, Zenon DEF BusyAccounts
  <1>3. \A q \in Holder :
          /\ pc'[q] \notin RunPhase \cup {"begin", "acquire"} => taken'[q] = 0
          /\ pc'[q] # "woken" => pc[q] # "woken"
    BY <1>1 DEF TypeOK, RequestInv
  <1>4. \A q \in Holder : pc'[q] # "woken" /\ manual'[q] > 0 =>
          kick'[q] \/ queued'[q] + counted'[q] > 0
    <2>1. manual' = manual /\ kick' = kick /\ queued' = queued /\ counted' = counted
      BY <1>1
    <2>2. \A q \in Holder : pc[q] # "woken" /\ manual[q] > 0 =>
            kick[q] \/ queued[q] + counted[q] > 0
      BY DEF RequestInv
    <2> QED
      BY <1>3, <2>1, <2>2, Zenon
  <1> QED
    BY <1>2, <1>3, <1>4, Zenon DEF RequestInv

(* Every action keeps the accounts of the requests. *)
LEMMA RequestStep == TypeOK /\ RequestInv /\ [Next]_vars => RequestInv'
  <1> SUFFICES ASSUME TypeOK, RequestInv, [Next]_vars
               PROVE  RequestInv'
    OBVIOUS
  <1> USE DEF TypeOK, RequestInv, BusyAccounts, Phase, ToolPhase, RowPhase, RunPhase,
              vars, storeVars, loopVars, apiVars
  <1>1. CASE Tick
    BY <1>1 DEF Tick
  <1>2. CASE SetConfig
    BY <1>2 DEF SetConfig
  <1>3. ASSUME NEW p \in Holder, Start(p)
         PROVE  RequestInv'
    BY <1>3 DEF Start, Goto
  <1>4. ASSUME NEW p \in Holder, Stop(p)
         PROVE  RequestInv'
    BY <1>4 DEF Stop, Goto, ForgetLocals
  <1>5. ASSUME NEW p \in Holder, ReconcileAcquire(p)
         PROVE  RequestInv'
    BY <1>5 DEF ReconcileAcquire, Goto, ForgetLocals
  <1>6. ASSUME NEW p \in Holder, ReconcileMark(p)
         PROVE  RequestInv'
    BY <1>6 DEF ReconcileMark, Goto
  <1>7. ASSUME NEW p \in Holder, ReconcileRelease(p)
         PROVE  RequestInv'
    BY <1>7 DEF ReconcileRelease, Goto, ForgetLocals
  <1>8. ASSUME NEW p \in Holder, RunNow(p)
         PROVE  RequestInv'
    <2>1. BusyAccounts'
      BY <1>8 DEF RunNow
    <2>2. \A q \in Holder : queued'[q] \in Nat /\ counted'[q] \in Nat
      BY <1>8 DEF RunNow
    <2>3. queued'[p] + counted'[p] > 0
      BY <1>8 DEF RunNow
    <2>4. \A q \in Holder \ {p} : manual'[q] = manual[q] /\ queued'[q] = queued[q]
      BY <1>8 DEF RunNow
    <2>5. UNCHANGED <<pc, taken, kick, counted>>
      BY <1>8 DEF RunNow
    <2> QED
      BY <2>1, <2>2, <2>3, <2>4, <2>5
  <1>9. ASSUME NEW p \in Holder, RunNowBusy(p)
         PROVE  RequestInv'
    BY <1>9 DEF RunNowBusy
  <1>10. ASSUME NEW p \in Holder, RunNowKick(p)
         PROVE  RequestInv'
    BY <1>10 DEF RunNowKick
  <1>11. ASSUME NEW p \in Holder, WakeOnTimer(p)
         PROVE  RequestInv'
    BY <1>11 DEF WakeOnTimer, Goto
  <1>12. ASSUME NEW p \in Holder, WakeOnKick(p)
         PROVE  RequestInv'
    BY <1>12 DEF WakeOnKick, Goto
  <1>13. ASSUME NEW p \in Holder, TakeManual(p)
         PROVE  RequestInv'
    BY <1>13 DEF TakeManual, Goto
  <1>14. ASSUME NEW p \in Holder, NEW w \in BOOLEAN, TakeScheduled(p, w)
         PROVE  RequestInv'
    <2>1. CASE Due(w)
      <3>1. /\ pc' = [pc EXCEPT ![p] = "begin"]
            /\ busy' = [busy EXCEPT ![p] = busy[p] + 1]
            /\ taken' = [taken EXCEPT ![p] = 1]
            /\ taken[p] = 0 /\ manual[p] = 0
            /\ UNCHANGED <<manual, kick, queued, counted>>
        BY <1>14, <2>1 DEF TakeScheduled, Goto
      <3>2. BusyAccounts'
        BY <3>1
      <3>3. \A q \in Holder :
              /\ pc'[q] \notin RunPhase \cup {"begin", "acquire"} => taken'[q] = 0
              /\ pc'[q] # "woken" => pc[q] # "woken" \/ manual[q] = 0
        BY <3>1
      <3>4. \A q \in Holder : pc'[q] # "woken" /\ manual'[q] > 0 =>
              kick'[q] \/ queued'[q] + counted'[q] > 0
        <4>1. ~(manual[p] > 0)
          BY <3>1
        <4>2. \A q \in Holder : q # p => pc'[q] = pc[q]
          BY <3>1
        <4> QED
          BY <3>1, <4>1, <4>2, Zenon
      <3> QED
        BY <3>2, <3>3, <3>4, Zenon
    <2>2. CASE ~Due(w)
      BY <1>14, <2>2 DEF TakeScheduled, Goto
    <2> QED
      BY <2>1, <2>2
  <1>15. ASSUME NEW p \in Holder, Begin(p)
         PROVE  RequestInv'
    <2>1. CASE Goto(p, "acquire")
      BY <1>15, <2>1 DEF Begin, EndRun, Goto
    <2>2. CASE EndRun(p)
      <3>1. pc[p] = "begin"
        BY <1>15 DEF Begin
      <3> QED
        BY <2>2, <3>1, EndRunSettles
    <2> QED
      BY <1>15, <2>1, <2>2 DEF Begin
  <1>16. ASSUME NEW p \in Holder, Acquire(p)
         PROVE  RequestInv'
    <2>1. CASE Goto(p, "create")
      BY <1>16, <2>1 DEF Acquire, EndRun, Goto
    <2>2. CASE EndRun(p)
      <3>1. pc[p] = "acquire"
        BY <1>16 DEF Acquire
      <3> QED
        BY <2>2, <3>1, EndRunSettles
    <2> QED
      BY <1>16, <2>1, <2>2 DEF Acquire
  <1>17. ASSUME NEW p \in Holder, CreateRow(p)
         PROVE  RequestInv'
    BY <1>17 DEF CreateRow, Goto
  <1>18. ASSUME NEW p \in Holder, CreateRowFails(p)
         PROVE  RequestInv'
    BY <1>18 DEF CreateRowFails, Goto
  <1>19. ASSUME NEW p \in Holder, ToolSucceeds(p)
         PROVE  RequestInv'
    BY <1>19 DEF ToolSucceeds, Goto
  <1>20. ASSUME NEW p \in Holder, ToolFails(p)
         PROVE  RequestInv'
    BY <1>20 DEF ToolFails, Goto
  <1>21. ASSUME NEW p \in Holder, AfterBackup(p)
         PROVE  RequestInv'
    BY <1>21 DEF AfterBackup, Goto
  <1>22. ASSUME NEW p \in Holder, Complete(p)
         PROVE  RequestInv'
    BY <1>22 DEF Complete, Goto
  <1>23. ASSUME NEW p \in Holder, PruneRuns(p)
         PROVE  RequestInv'
    BY <1>23 DEF PruneRuns, LatestKept, Goto
  <1>24. ASSUME NEW p \in Holder, Release(p)
         PROVE  RequestInv'
    BY <1>24 DEF Release, Goto, ForgetLocals, EndRun
  <1>25. CASE UNCHANGED vars
    BY <1>25
  <1> QED
    BY <1>1, <1>2, <1>3, <1>4, <1>5, <1>6, <1>7, <1>8, <1>9, <1>10, <1>11, <1>12, <1>13, <1>14,
       <1>15, <1>16, <1>17, <1>18, <1>19, <1>20, <1>21, <1>22, <1>23, <1>24, <1>25
    DEF Next, Reconcile, ApiCall, Loop, RunOnce

(* The requests' bookkeeping: busy always accounts for what was asked and  *)
(* not settled (BusyAccounts), and no queued request is without a wakeup   *)
(* (NoLostWakeup).                                                         *)
THEOREM RequestsAccounted == Spec => [](BusyAccounts /\ NoLostWakeup)
  <1> DEFINE IInv == TypeOK /\ RequestInv
  <1>1. Init => IInv
    BY DEF Init, TypeOK, LeaseRow, UnclaimedLease, Phase, ToolPhase, RowPhase, RunPhase,
           RequestInv, BusyAccounts
  <1>2. IInv /\ [Next]_vars => IInv'
    BY TypeStep, RequestStep
  <1>3. IInv => BusyAccounts /\ NoLostWakeup
    BY DEF RequestInv, NoLostWakeup
  <1> QED
    BY <1>1, <1>2, <1>3, PTL DEF Spec

(* A finished run's status is final (FinishedRunIsFinal). *)
THEOREM FinishedRunsFinal == Spec => FinishedRunIsFinal
  <1> DEFINE Final == \A r \in runs, s \in runs' :
                        r.id = s.id /\ r.status # "running" => s.status = r.status
  <1>1. ExclusionInv /\ [Next]_vars => [Final]_vars
    <2> SUFFICES ASSUME ExclusionInv, [Next]_vars
                 PROVE  Final
      OBVIOUS
    <2> USE DEF ExclusionInv, LeaseInv, TypeOK, RowsIdentified
    <2>1. CASE runs' \subseteq runs
      BY <2>1
    <2>2. ASSUME NEW p \in Holder, ReconcileMark(p)
          PROVE  Final
      BY <2>2 DEF ReconcileMark, Run
    <2>3. ASSUME NEW p \in Holder, CreateRow(p)
          PROVE  Final
      BY <2>3 DEF CreateRow, Run
    <2>4. ASSUME NEW p \in Holder, Complete(p), runs' # runs
          PROVE  Final
      <3>1. \E r \in runs : r.id = row[p] /\ r.status = "running"
        BY <2>4 DEF Complete, RunHasRow, RowPhase, CtxDead
      <3>2. \A s \in runs' : s \in runs \/ s.id = row[p]
        BY <2>4 DEF Complete, SetStatus, Run
      <3> QED
        BY <3>1, <3>2
    <2> QED
      BY <2>1, <2>2, <2>3, <2>4
      DEF Next, Tick, SetConfig, Start, Stop, Reconcile, ReconcileAcquire,
          ReconcileRelease, ApiCall, RunNow, RunNowBusy, RunNowKick, Loop, WakeOnTimer,
          WakeOnKick, TakeManual, TakeScheduled, RunOnce, Begin, Acquire,
          CreateRowFails, ToolSucceeds, ToolFails, AfterBackup, Complete, PruneRuns,
          LatestKept, Release, vars, storeVars, loopVars, apiVars
  <1> QED
    BY <1>1, ExclusionInvariant, PTL DEF Spec, FinishedRunIsFinal

(* A process that owns the lease without a tool running has the repository *)
(* to itself.                                                              *)
LEMMA NobodyWorks ==
    ASSUME LeaseInv, NEW p \in Holder,
           \/ pc[p] = "reconMark"
           \/ pc[p] \in RunPhase \ ToolPhase /\ ~CtxDead(p)
    PROVE  {q \in Holder : Working(q)} = {}
  <1> SUFFICES ASSUME NEW q \in Holder, Working(q)
               PROVE  FALSE
    OBVIOUS
  <1>1. pc[q] \in RunPhase /\ now <= deadline[q] + KillDelay
    BY DEF LeaseInv, ToolsKilled, Working, RunPhase, RowPhase
  <1>2. CASE pc[p] = "reconMark"
    BY <1>1, <1>2, ReconcilerAlone
  <1>3. CASE pc[p] \in RunPhase \ ToolPhase /\ ~CtxDead(p)
    <2>1. now <= deadline[p] + KillDelay
      BY <1>3 DEF CtxDead, LeaseInv, TypeOK
    <2> QED
      BY <1>1, <1>3, <2>1, OwnerAlone DEF Working
  <1> QED
    BY <1>2, <1>3

(* The fleet keeps the journal of a single process (ImplementsJournal):    *)
(* CreateRow begins an entry when nobody works, and a row is completed,    *)
(* given up or deleted only by a process that owns the lease while no tool *)
(* runs; a late one finds its context over.                                *)
THEOREM RefinesJournal == Spec => ImplementsJournal
  <1> DEFINE W == {p \in Holder : Working(p)}
  <1>1. Init => Journal!Init
    BY DEF Init, Journal!Init, Working, ToolPhase
  <1>2. /\ ExclusionInv /\ ExclusionInv'
        /\ ExclusiveRepository /\ ExclusiveRepository'
        /\ [Next]_vars
        => [Journal!Next]_<<W, runs, lastId>>
    <2> SUFFICES ASSUME ExclusionInv, ExclusionInv', ExclusiveRepository,
                        ExclusiveRepository', [Next]_vars
                 PROVE  [Journal!Next]_<<W, runs, lastId>>
      OBVIOUS
    <2>1. /\ pc \in [Holder -> Phase] /\ pc' \in [Holder -> Phase]
          /\ runs \in SUBSET Run /\ lastId \in Nat
          /\ LeaseInv /\ RowsIdentified /\ RunHasRow
      BY DEF ExclusionInv, LeaseInv, TypeOK
    <2>2. ExclusiveRepository /\ ExclusiveRepository'
      OBVIOUS
    <2>3. ASSUME pc' = pc
          PROVE  W' = W
      BY <2>3 DEF Working
    <2>4. ASSUME NEW p \in Holder, NEW ph \in Phase, pc' = [pc EXCEPT ![p] = ph],
                 ph \in ToolPhase <=> pc[p] \in ToolPhase
          PROVE  W' = W
      BY <2>1, <2>4 DEF Working
    <2>5. ASSUME NEW p \in Holder, NEW ph \in Phase \ ToolPhase,
                 pc' = [pc EXCEPT ![p] = ph], pc[p] \in ToolPhase,
                 UNCHANGED <<runs, lastId>>
          PROVE  Journal!End(p)
      BY <2>1, <2>2, <2>5 DEF Journal!End, ExclusiveRepository, Working
    <2>6. ASSUME NEW p \in Holder, CreateRow(p)
          PROVE  Journal!Begin(p)
      <3>1. pc[p] = "create" /\ ~CtxDead(p) /\ pc' = [pc EXCEPT ![p] = "prepare"]
        BY <2>6 DEF CreateRow, Goto
      <3>2. W = {}
        BY <2>1, <3>1, NobodyWorks DEF RunPhase, ToolPhase
      <3>3. W' = {p}
        BY <2>1, <3>1, <3>2 DEF Working, ToolPhase
      <3> QED
        BY <2>6, <3>2, <3>3 DEF CreateRow, Journal!Begin
    <2>7. ASSUME NEW p \in Holder, ReconcileMark(p)
          PROVE  UNCHANGED <<W, runs, lastId>> \/ Journal!GiveUp
      <3>1. W = {}
        BY <2>1, <2>7, NobodyWorks DEF ReconcileMark
      <3>2. W' = W
        BY <2>4, <2>7 DEF ReconcileMark, Goto, Phase, ToolPhase
      <3> QED
        BY <2>7, <3>1, <3>2 DEF ReconcileMark, Journal!GiveUp
    <2>8. ASSUME NEW p \in Holder, Complete(p)
          PROVE  UNCHANGED <<W, runs, lastId>> \/ Journal!Record
      <3> DEFINE st == IF pc[p] = "done" THEN "ok" ELSE "error"
      <3>1. pc[p] \in {"failed", "done"} /\ W' = W /\ lastId' = lastId
        BY <2>4, <2>8 DEF Complete, Goto, Phase, ToolPhase
      <3>2. CASE UNCHANGED runs
        BY <3>1, <3>2
      <3>3. CASE ~CtxDead(p) /\ SetStatus(row[p], st)
        <4>1. W = {}
          BY <2>1, <3>1, <3>3, NobodyWorks DEF RunPhase, RowPhase, ToolPhase
        <4>2. PICK e \in runs : e.id = row[p] /\ e.status = "running"
          BY <2>1, <3>1, <3>3 DEF RunHasRow, RowPhase, CtxDead, LeaseInv, TypeOK
        <4>3. row[p] = lastId
          BY <2>1, <3>1, <3>3 DEF RunHasRow, RowPhase, CtxDead, LeaseInv, TypeOK
        <4>4. \A r \in runs : r.id = row[p] <=> r = e
          BY <2>1, <4>2 DEF RowsIdentified
        <4>5. runs' = (runs \ {e}) \cup {[e EXCEPT !.status = st]}
          BY <3>3, <4>4 DEF SetStatus
        <4>6. st \in {"ok", "error"}
          OBVIOUS
        <4> HIDE DEF st
        <4> QED
          BY <3>1, <4>1, <4>2, <4>3, <4>5, <4>6 DEF Journal!Record
      <3> QED
        BY <2>8, <3>2, <3>3 DEF Complete
    <2>9. ASSUME NEW p \in Holder, PruneRuns(p)
          PROVE  UNCHANGED <<W, runs, lastId>> \/ Journal!Trim
      <3>1. pc[p] = "prune" /\ W' = W /\ lastId' = lastId
        BY <2>4, <2>9 DEF PruneRuns, Goto, Phase, ToolPhase
      <3>2. CASE UNCHANGED runs
        BY <3>1, <3>2
      <3>3. CASE ~CtxDead(p) /\ LatestKept
        <4>1. W = {}
          BY <2>1, <3>1, <3>3, NobodyWorks DEF RunPhase, ToolPhase
        <4>2. runs' # {}
          BY <3>3, FS_EmptySet DEF LatestKept
        <4> QED
          BY <3>1, <3>3, <4>1, <4>2 DEF LatestKept, Journal!Trim
      <3> QED
        BY <2>9, <3>2, <3>3 DEF PruneRuns
    <2> HIDE DEF W
    <2> USE DEF Goto, Phase, ToolPhase, storeVars, loopVars, apiVars
    <2>10. CASE Tick \/ SetConfig \/ UNCHANGED vars
      BY <2>3, <2>10 DEF Tick, SetConfig, vars
    <2>11. ASSUME NEW p \in Holder, ApiCall(p)
           PROVE  UNCHANGED <<W, runs, lastId>>
      BY <2>3, <2>11 DEF ApiCall, RunNow, RunNowBusy, RunNowKick
    <2>12. ASSUME NEW p \in Holder,
                  \/ Start(p) \/ ReconcileAcquire(p) \/ ReconcileRelease(p) \/ Loop(p)
                  \/ Begin(p) \/ Acquire(p) \/ CreateRowFails(p) \/ Release(p)
           PROVE  UNCHANGED <<W, runs, lastId>>
      <3>1. /\ \E ph \in Phase \ ToolPhase :
                  pc' = [pc EXCEPT ![p] = ph] /\ pc[p] \notin ToolPhase
            /\ UNCHANGED <<runs, lastId>>
        BY <2>12 DEF Start, ReconcileAcquire, ReconcileRelease, Loop, WakeOnTimer,
           WakeOnKick, TakeManual, TakeScheduled, Begin, Acquire, CreateRowFails, Release,
           EndRun
      <3> QED
        BY <2>4, <3>1
    <2>13. ASSUME NEW p \in Holder, ToolSucceeds(p)
           PROVE  UNCHANGED <<W, runs, lastId>>
      BY <2>4, <2>13 DEF ToolSucceeds
    <2>14. ASSUME NEW p \in Holder, Stop(p)
           PROVE  UNCHANGED <<W, runs, lastId>> \/ Journal!End(p)
      BY <2>4, <2>5, <2>14 DEF Stop
    <2>15. ASSUME NEW p \in Holder, ToolFails(p) \/ AfterBackup(p)
           PROVE  Journal!End(p)
      BY <2>5, <2>15 DEF ToolFails, AfterBackup
    <2> HIDE DEF Goto, Phase, ToolPhase, storeVars, loopVars, apiVars
    <2> QED
      BY <2>6, <2>7, <2>8, <2>9, <2>10, <2>11, <2>12, <2>13, <2>14, <2>15
      DEF Next, Reconcile, RunOnce, Journal!Next
  <1> QED
    BY <1>1, <1>2, ExclusionInvariant, RepositoryExclusion, PTL
    DEF Spec, ImplementsJournal, Journal!Spec, Journal!vars
=============================================================================
