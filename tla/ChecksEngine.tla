---------------------------- MODULE ChecksEngine ----------------------------
(***************************************************************************)
(* The status check engine (checks/engine.go, checks/report.go): each      *)
(* managerd process runs a loop that serves manual requests, and, under    *)
(* the "checks" lease, runs the checks that are due and mails the digest.  *)
(*                                                                         *)
(* The module follows one per-domain check; what its dependencies and its  *)
(* probes report is the environment's choice.  Rows are keyed by domain,   *)
(* and "" is the key of the check as a whole.  A statement against the     *)
(* store is a step; steps of several processes interleave, and time may    *)
(* pass between any two.                                                   *)
(***************************************************************************)
EXTENDS Lease, Sequences, FiniteSets

CONSTANTS
    Domain,         \* domains a check can fan out to
    Outcome,        \* what an execution of the check can find
    LeaseTTL, CheckEvery, ReportEvery,
    MaxTime,        \* bound of the model: clock
    MaxEvents       \* bound of the model: requests, changes of domains and configuration,
                    \* stops, failed passes and passes that outlive their lease

ASSUME ChecksAssumption ==
    /\ "" \notin Domain
    /\ Outcome \subseteq {"ok", "warning", "error", "skipped"}
    /\ LeaseTTL \in Nat \ {0} /\ CheckEvery \in Nat /\ ReportEvery \in Nat
    /\ MaxTime \in Nat \ {0} /\ MaxEvents \in Nat

VARIABLES
    now,
    lease,          \* the row of the lease "checks"
    rows,           \* CheckResult rows of the check, by domain
    reported,       \* the setting status_checks_report_sent, 0 for no row
    enabled,        \* the administrator's switch of the check
    listed,         \* the domains the check fans out to now
    proc,           \* the engine of each process
    job,            \* what its loop is working on
    streak,         \* history: by row, when the failing saves in a row began
    lapsed,         \* history: a pass outlived its lease
    crossed,        \* history: a manual run overlapped another process's work
    mailed,         \* history: how many digests were sent, and the clock of the last
    unmarked,       \* history: a digest was sent and not recorded
    events

store == <<lease, rows, reported, enabled, listed>>
history == <<streak, lapsed, crossed, mailed, unmarked>>
vars == <<now, lease, rows, reported, enabled, listed, proc, job, streak, lapsed, crossed,
          mailed, unmarked, events>>

Key == Domain \cup {""}
Time == 0 .. MaxTime

NoRow == [status |-> "none", ranAt |-> 0, since |-> 0]
Failing == {"warning", "error"}

Row == [status : {"none", "ok", "warning", "error", "skipped", "disabled"}, ranAt : Time, since : Time]

(* A request names nothing (all checks), the check, or one of its domains. *)
Request == {"all", "check"} \cup Domain

Down == [pc |-> "down", kick |-> FALSE, asking |-> FALSE, pending |-> <<>>, busy |-> 0, first |-> TRUE]

NoJob == [kind |-> "none", todo |-> {}, keep |-> {}, prune |-> FALSE, verdict |-> "run",
          key |-> "", status |-> "none", ranAt |-> 0, prev |-> NoRow]

Passing == {"begin", "next", "write", "clear", "report", "send", "sent", "release"}

TypeOK ==
    /\ now \in Time
    /\ lease \in LeaseRow
    /\ rows \in [Key -> Row]
    /\ reported \in Time /\ mailed \in [count : Nat, at : Time]
    /\ enabled \in BOOLEAN /\ listed \subseteq Domain
    /\ \A h \in Holder :
          /\ proc[h].pc \in Passing \cup {"down", "wait", "drain", "due"}
          /\ proc[h].pending \in Seq(Request) /\ proc[h].busy \in Nat
          /\ proc[h].kick \in BOOLEAN /\ proc[h].asking \in BOOLEAN /\ proc[h].first \in BOOLEAN
          /\ job[h].kind \in {"none", "manual", "due", "disable"}
          /\ job[h].todo \subseteq Key /\ job[h].keep \subseteq Key
          /\ job[h].prev \in Row
    /\ streak \in [Key -> Time]
    /\ lapsed \in BOOLEAN /\ crossed \in BOOLEAN /\ unmarked \in BOOLEAN

Init ==
    /\ now = 1
    /\ lease = UnclaimedLease
    /\ rows = [k \in Key |-> NoRow]
    /\ reported = 0
    /\ enabled = TRUE
    /\ listed = Domain
    /\ proc = [h \in Holder |-> Down]
    /\ job = [h \in Holder |-> NoJob]
    /\ streak = [k \in Key |-> 0]
    /\ lapsed = FALSE /\ crossed = FALSE /\ unmarked = FALSE
    /\ mailed = [count |-> 0, at |-> 0]
    /\ events = 0

At(h, label) == proc[h].pc = label
Go(h, label) == proc' = [proc EXCEPT ![h].pc = label]

(* In a pass under the lease; a manual job holds none. *)
InPass(h) == proc[h].pc \in Passing /\ job[h].kind # "manual"

(* Between the start of a job and its last save. *)
Saving(h) == proc[h].pc \in {"next", "write"}

-----------------------------------------------------------------------------
(* The environment *)

(* Something that may happen at any time, a bounded number of times. *)
Event == events < MaxEvents /\ events' = events + 1

(* Nothing bounds a batch: time may pass until the lease has lapsed under  *)
(* the pass that holds it.                                                 *)
Tick ==
    /\ now < MaxTime
    /\ now' = now + 1
    /\ IF ~lapsed /\ \E h \in Holder : InPass(h) /\ ~LeaseLive(lease, now + 1)
       THEN Event /\ lapsed' = TRUE
       ELSE UNCHANGED <<events, lapsed>>
    /\ UNCHANGED <<store, proc, job, streak, crossed, mailed, unmarked>>

Start(h) ==
    /\ At(h, "down")
    /\ proc' = [proc EXCEPT ![h] = [Down EXCEPT !.pc = "wait"]]
    /\ UNCHANGED <<now, store, job, history, events>>

(* The process stops: a cancelled context also keeps the release from      *)
(* reaching the store.                                                     *)
Stop(h) ==
    /\ ~At(h, "down")
    /\ Event
    /\ proc' = [proc EXCEPT ![h] = Down]
    /\ job' = [job EXCEPT ![h] = NoJob]
    /\ unmarked' = (unmarked \/ At(h, "sent"))
    /\ UNCHANGED <<now, store, streak, lapsed, crossed, mailed>>

(* handleChecksConfigSet, and accounts or aliases that add and remove domains. *)
Configure ==
    /\ Event
    /\ \/ enabled' = ~enabled /\ UNCHANGED listed
       \/ \E D \in SUBSET Domain : listed' = D /\ D # listed /\ UNCHANGED enabled
    /\ UNCHANGED <<now, lease, rows, reported, proc, job, history>>

-----------------------------------------------------------------------------
(* RunNow, under the mutex it shares with drain and not with the pass *)

RunNow(h) ==
    /\ ~At(h, "down") /\ ~proc[h].asking
    /\ Event
    /\ proc' = [proc EXCEPT ![h].asking = (proc[h].busy = 0)]
    /\ UNCHANGED <<now, store, job, history>>

RunNowAccepted(h) ==
    /\ proc[h].asking
    /\ \E q \in Request :
          proc' = [proc EXCEPT ![h] = [@ EXCEPT !.asking = FALSE, !.pending = Append(proc[h].pending, q),
                                                !.busy = proc[h].busy + 1, !.kick = TRUE]]
    /\ UNCHANGED <<now, store, job, history, events>>

-----------------------------------------------------------------------------
(* The loop *)

Wake(h) ==
    /\ At(h, "wait")
    /\ \/ proc' = [proc EXCEPT ![h].pc = "drain"]
       \/ proc[h].kick /\ proc' = [proc EXCEPT ![h] = [@ EXCEPT !.pc = "drain", !.kick = FALSE]]
    /\ UNCHANGED <<now, store, job, history, events>>

(* runManual: filters by check and domain, prunes only when unfiltered. *)
ManualJob(q) ==
    [NoJob EXCEPT !.kind = "manual", !.prune = (q = "all"),
                  !.keep = IF q \in Domain THEN {q} ELSE Domain]

Drain(h) ==
    /\ At(h, "drain") /\ ~proc[h].asking
    /\ IF proc[h].pending = <<>>
       THEN Go(h, "due") /\ UNCHANGED job
       ELSE /\ proc' = [proc EXCEPT ![h] = [@ EXCEPT !.pc = "begin", !.pending = <<>>]]
            /\ job' = [job EXCEPT ![h] = ManualJob(Head(proc[h].pending))]
    /\ UNCHANGED <<now, store, history, events>>

(* newestRuns: the latest of the check's rows. *)
Newest == {rows[k].ranAt : k \in {x \in Key : rows[x].status # "none"}}

DueNow(h) == proc[h].first \/ \A t \in Newest : now - t >= CheckEvery

(* What LoadConfig and newestRuns decide for the check. *)
StartPass(h) ==
    IF enabled
    THEN IF DueNow(h)
         THEN /\ proc' = [proc EXCEPT ![h] = [@ EXCEPT !.pc = "begin", !.busy = proc[h].busy + 1]]
              /\ job' = [job EXCEPT ![h] = [NoJob EXCEPT !.kind = "due", !.keep = Domain, !.prune = TRUE]]
         ELSE Go(h, "report") /\ UNCHANGED job
    ELSE IF rows[""].status = "disabled"
         THEN Go(h, "report") /\ UNCHANGED job
         ELSE Go(h, "clear") /\ job' = [job EXCEPT ![h] = [NoJob EXCEPT !.kind = "disable"]]

(* Mutant: the pass goes ahead whoever holds the lease. *)
RunDueAlways(h) ==
    /\ At(h, "due")
    /\ lease' = Claimed(h, now, LeaseTTL)
    /\ StartPass(h)
    /\ UNCHANGED <<now, rows, reported, enabled, listed, history, events>>

(* runDue up to its decision: the pass of another process is left to it. *)
RunDue(h) ==
    /\ At(h, "due")
    /\ IF Claimable(lease, h, now)
       THEN lease' = Claimed(h, now, LeaseTTL) /\ StartPass(h)
       ELSE /\ proc' = [proc EXCEPT ![h] = [@ EXCEPT !.pc = "wait", !.first = FALSE]]
            /\ UNCHANGED <<lease, job>>
    /\ UNCHANGED <<now, rows, reported, enabled, listed, history, events>>

(* Overlap of a manual run with anyone else's saves. *)
Crosses(h) == \E g \in Holder \ {h} : Saving(g) /\ (job[g].kind = "manual" \/ job[h].kind = "manual")

(* saveDisabled: the per-domain rows go, then one row is saved. *)
ClearDomains(h) ==
    /\ At(h, "clear")
    /\ rows' = [k \in Key |-> IF k \in Domain THEN NoRow ELSE rows[k]]
    /\ streak' = [k \in Key |-> IF k \in Domain THEN 0 ELSE streak[k]]
    /\ job' = [job EXCEPT ![h] = [@ EXCEPT !.todo = {""}, !.verdict = "disabled"]]
    /\ crossed' = (crossed \/ Crosses(h))
    /\ Go(h, "next")
    /\ UNCHANGED <<now, lease, reported, enabled, listed, lapsed, mailed, unmarked, events>>

(* runBatch on the check: it fans out over its domains (runOne), fails to  *)
(* list them, or is skipped for a failed dependency (skipForDependency).   *)
BeginBatch(h) ==
    /\ At(h, "begin")
    /\ LET targets == listed \cap job[h].keep
           filtered == job[h].keep # Domain
       IN \/ job' = [job EXCEPT ![h] = [@ EXCEPT !.todo = targets, !.keep = targets,
                                                 !.prune = job[h].prune /\ ~filtered]]
          \/ job' = [job EXCEPT ![h] = [@ EXCEPT !.todo = {""}, !.prune = FALSE, !.verdict = "error"]]
          \/ \E T \in {targets, {""}} :
                job' = [job EXCEPT ![h] = [@ EXCEPT !.todo = T, !.prune = FALSE, !.verdict = "skipped"]]
    /\ crossed' = (crossed \/ Crosses(h))
    /\ Go(h, "next")
    /\ UNCHANGED <<now, store, streak, lapsed, mailed, unmarked, events>>

(* execute, whose result carries the time, and the query of the previous   *)
(* row with which saveResult begins.                                       *)
ExecuteAndRead(h) ==
    /\ At(h, "next")
    /\ \E k \in job[h].todo, s \in IF job[h].verdict = "run" THEN Outcome ELSE {job[h].verdict} :
          job' = [job EXCEPT ![h] = [@ EXCEPT !.todo = job[h].todo \ {k}, !.key = k, !.status = s,
                                              !.ranAt = now, !.prev = rows[k]]]
    /\ Go(h, "write")
    /\ UNCHANGED <<now, store, history, events>>

(* first_failed_at: cleared, kept from the row, or set to this run. *)
Since(j) ==
    IF j.status \notin Failing THEN 0
    ELSE IF j.prev.since # 0 /\ j.prev.status \in Failing THEN rows[j.key].since
    ELSE j.ranAt

SaveWrites(h) ==
    /\ At(h, "write")
    /\ LET j == job[h]
           lost == (j.prev = NoRow) # (rows[j.key] = NoRow)  \* duplicate key, or row gone
       IN IF lost THEN UNCHANGED <<rows, streak>>
          ELSE /\ rows' = [rows EXCEPT ![j.key] = [status |-> j.status, ranAt |-> j.ranAt, since |-> Since(j)]]
               /\ streak' = [streak EXCEPT ![j.key] = IF j.status \notin Failing THEN 0
                                                      ELSE IF @ = 0 THEN j.ranAt ELSE @]
    /\ job' = [job EXCEPT ![h] = [@ EXCEPT !.key = "", !.status = "none", !.ranAt = 0, !.prev = NoRow]]
    /\ Go(h, "next")
    /\ UNCHANGED <<now, lease, reported, enabled, listed, lapsed, crossed, mailed, unmarked, events>>

(* Mutant: a scheduled batch leaves its count behind. *)
EndBatchCounting(h) ==
    /\ At(h, "next") /\ job[h].todo = {}
    /\ LET gone == IF job[h].prune THEN Key \ job[h].keep ELSE {}
       IN /\ rows' = [k \in Key |-> IF k \in gone THEN NoRow ELSE rows[k]]
          /\ streak' = [k \in Key |-> IF k \in gone THEN 0 ELSE streak[k]]
    /\ proc' = [proc EXCEPT ![h] = [@ EXCEPT !.pc = IF job[h].kind = "manual" THEN "due" ELSE "report",
                                             !.busy = IF job[h].kind = "manual" THEN proc[h].busy - 1
                                                      ELSE proc[h].busy]]
    /\ job' = [job EXCEPT ![h] = NoJob]
    /\ UNCHANGED <<now, lease, reported, enabled, listed, lapsed, crossed, mailed, unmarked, events>>

(* After the last save of a complete fan-out the rows of other domains go; *)
(* the batch is over.                                                      *)
EndBatch(h) ==
    /\ At(h, "next") /\ job[h].todo = {}
    /\ LET gone == IF job[h].prune THEN Key \ job[h].keep ELSE {}
       IN /\ rows' = [k \in Key |-> IF k \in gone THEN NoRow ELSE rows[k]]
          /\ streak' = [k \in Key |-> IF k \in gone THEN 0 ELSE streak[k]]
    /\ proc' = [proc EXCEPT ![h] = [@ EXCEPT !.pc = IF job[h].kind = "manual" THEN "due" ELSE "report",
                                             !.busy = IF job[h].kind = "disable" THEN proc[h].busy
                                                      ELSE proc[h].busy - 1]]
    /\ job' = [job EXCEPT ![h] = NoJob]
    /\ UNCHANGED <<now, lease, reported, enabled, listed, lapsed, crossed, mailed, unmarked, events>>

-----------------------------------------------------------------------------
(* maybeReport and the end of the pass *)

(* Mutant: the digest is due however recently one was sent. *)
ReportReadsAlways(h) ==
    /\ At(h, "report")
    /\ IF \E k \in Key : rows[k].status \in Failing
       THEN Go(h, "send") /\ job' = [job EXCEPT ![h].ranAt = now] /\ UNCHANGED reported
       ELSE Go(h, "release") /\ reported' = now /\ UNCHANGED job
    /\ UNCHANGED <<now, lease, rows, enabled, listed, history, events>>

(* The first pass only notes the time; later a digest is due after the     *)
(* interval, and goes out when there is a problem to tell.                 *)
ReportReads(h) ==
    /\ At(h, "report")
    /\ LET early == reported # 0 /\ now - reported < ReportEvery
           problems == \E k \in Key : rows[k].status \in Failing
       IN IF ~early /\ reported # 0 /\ problems
          THEN Go(h, "send") /\ job' = [job EXCEPT ![h].ranAt = now] /\ UNCHANGED reported
          ELSE Go(h, "release") /\ reported' = (IF early THEN reported ELSE now) /\ UNCHANGED job
    /\ UNCHANGED <<now, lease, rows, enabled, listed, history, events>>

SendMail(h) ==
    /\ At(h, "send")
    /\ mailed' = [count |-> mailed.count + 1, at |-> job[h].ranAt]
    /\ Go(h, "sent")
    /\ UNCHANGED <<now, store, job, streak, lapsed, crossed, unmarked, events>>

MarkReported(h) ==
    /\ At(h, "sent")
    /\ reported' = job[h].ranAt
    /\ job' = [job EXCEPT ![h] = NoJob]
    /\ Go(h, "release")
    /\ UNCHANGED <<now, lease, rows, enabled, listed, history, events>>

Release(h) ==
    /\ At(h, "release")
    /\ lease' = Released(lease, h, now)
    /\ proc' = [proc EXCEPT ![h] = [@ EXCEPT !.pc = "wait", !.first = FALSE]]
    /\ UNCHANGED <<now, rows, reported, enabled, listed, job, history, events>>

(* A statement of the pass outside its batch, or the mail, fails: runDue   *)
(* returns through the release.                                            *)
PassFails(h) ==
    /\ proc[h].pc \in {"report", "send", "sent"}
    /\ Event
    /\ unmarked' = (unmarked \/ At(h, "sent"))
    /\ job' = [job EXCEPT ![h] = NoJob]
    /\ Go(h, "release")
    /\ UNCHANGED <<now, store, streak, lapsed, crossed, mailed>>

Loop(h) ==
    \/ Wake(h) \/ Drain(h) \/ RunDue(h) \/ ClearDomains(h)
    \/ BeginBatch(h) \/ ExecuteAndRead(h) \/ SaveWrites(h) \/ EndBatch(h)
    \/ ReportReads(h) \/ SendMail(h) \/ MarkReported(h) \/ Release(h)

Next ==
    \/ Tick \/ Configure
    \/ \E h \in Holder : Start(h) \/ Stop(h) \/ RunNow(h) \/ RunNowAccepted(h) \/ Loop(h) \/ PassFails(h)

Spec == Init /\ [][Next]_vars

-----------------------------------------------------------------------------
(* first_failed_at is "set on entering warning/error, preserved while      *)
(* failing, cleared on recovery": the onset stored in a row is the first   *)
(* of the failing results saved in a row since.  saveResult reads the old  *)
(* row and writes the new one separately, and it is the lease that keeps   *)
(* processes apart; a manual run that overlaps another process's work, and *)
(* a pass longer than its lease, are outside of what it can do.            *)
OnsetsKept == lapsed \/ crossed \/ \A k \in Key : rows[k].since = streak[k]

(* "replicas do not double-send": two digests are an interval apart,       *)
(* whoever sends them and whatever restarts in between, unless one was     *)
(* sent and could not be recorded, or a pass outlived its lease.           *)
DigestsSpaced ==
    [][mailed' # mailed => \/ mailed.count = 0
                           \/ mailed'.at - mailed.at >= ReportEvery
                           \/ lapsed \/ unmarked]_vars

(* busy is the queued request, the request in hand and the scheduled batch *)
(* together, although the pass counts without the mutex RunNow holds; at   *)
(* most one request is queued, and it has a kick or a loop on its way to   *)
(* the queue, so that a request RunNow accepted is not left waiting.       *)
RunsAccountedFor ==
    \A h \in Holder :
        /\ proc[h].busy = Len(proc[h].pending) + IF job[h].kind \in {"manual", "due"} THEN 1 ELSE 0
        /\ Len(proc[h].pending) <= 1
        /\ proc[h].pending # <<>> => proc[h].kick \/ At(h, "drain")

=============================================================================
