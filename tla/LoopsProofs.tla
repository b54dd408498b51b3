---------------------------- MODULE LoopsProofs -----------------------------
(***************************************************************************)
(* Proofs about the loops behind the panel: the status check engine, for   *)
(* any number of processes, domains and requests and any intervals, and    *)
(* what the kick loop promises to the appliers built on it (Rebuilder),    *)
(* for any number of replicas and changes.                                 *)
(***************************************************************************)
EXTENDS ChecksEngine, Rebuilder, SequenceTheorems, TLAPS

Status == {"none", "ok", "warning", "error", "skipped", "disabled"}

Procs == [pc : Passing \cup {"down", "wait", "drain", "due"}, kick : BOOLEAN, asking : BOOLEAN,
          pending : Seq(Request), busy : Nat, first : BOOLEAN]

Jobs == [kind : {"none", "manual", "due", "disable"}, todo : SUBSET Key, keep : SUBSET Key,
         prune : BOOLEAN, verdict : {"run", "error", "skipped", "disabled"}, key : Key,
         status : Status, ranAt : Time, prev : Row]

TypeInv ==
    /\ now \in Time
    /\ lease \in LeaseRow
    /\ rows \in [Key -> Row]
    /\ reported \in Time /\ mailed \in [count : Nat, at : Time]
    /\ enabled \in BOOLEAN /\ listed \subseteq Domain
    /\ proc \in [Holder -> Procs] /\ job \in [Holder -> Jobs]
    /\ streak \in [Key -> Time]
    /\ lapsed \in BOOLEAN /\ crossed \in BOOLEAN /\ unmarked \in BOOLEAN

(* A job is in hand from its start to its last save, and of its kind. *)
InHand(p, j) ==
    /\ p.pc = "begin" => j.kind \in {"manual", "due"}
    /\ p.pc = "clear" => j.kind = "disable"
    /\ p.pc \in {"next", "write"} => j.kind # "none"
    /\ p.pc \notin {"begin", "clear", "next", "write"} => j.kind = "none"

(* What a job in hand adds to busy. *)
Units(j) == IF j.kind \in {"manual", "due"} THEN 1 ELSE 0

(* What RunsAccountedFor says of one process; and RunNow holds the mutex   *)
(* that drain takes too, so that the queue is empty for as long as it is   *)
(* asking, whatever the pass adds to busy meanwhile.                       *)
Counted(p, j) ==
    /\ p.busy = Len(p.pending) + Units(j)
    /\ Len(p.pending) <= 1
    /\ p.pending # <<>> => p.kick \/ p.pc = "drain"
    /\ p.asking => p.pending = <<>>

LoopInv == \A h \in Holder : InHand(proc[h], job[h]) /\ Counted(proc[h], job[h])

(* A pass has the lease, until it outlives it. *)
LeaseInv ==
    lapsed \/ \A h \in Holder : InPass(h) => lease.holder = h /\ LeaseLive(lease, now)

(* Nothing is dated in the future. *)
TimesInv == mailed.at <= now /\ reported <= now /\ \A h \in Holder : job[h].ranAt <= now

(* The last digest is recorded, unless its sender is about to, and what is *)
(* about to be sent is an interval away from the record.                   *)
DigestInv ==
    \/ lapsed \/ unmarked
    \/ /\ \A h \in Holder :
             /\ At(h, "send") => reported # 0 /\ job[h].ranAt - reported >= ReportEvery
             /\ At(h, "sent") => job[h].ranAt = mailed.at
       /\ mailed.count = 0 \/ mailed.at <= reported \/ \E h \in Holder : At(h, "sent")

(* A row that does not fail has no onset. *)
RowsInv == \A k \in Key : rows[k].status \notin Failing => rows[k].since = 0

(* One process saves at a time, and the row it read is the row it is going *)
(* to write, unless the history says otherwise.                            *)
SaveInv ==
    \/ lapsed \/ crossed
    \/ /\ \A g, h \in Holder : Saving(g) /\ Saving(h) => g = h
       /\ \A h \in Holder : At(h, "write") => job[h].prev = rows[job[h].key]
       /\ \A k \in Key : rows[k].since = streak[k]

IInv == TypeInv /\ LoopInv /\ LeaseInv /\ TimesInv /\ DigestInv /\ RowsInv /\ SaveInv

(* A step of one process h to the label l, with its queue as it was or     *)
(* not; and a step that gives it the job j.                                *)
Moves(h, l) ==
    /\ proc' \in [Holder -> Procs]
    /\ proc'[h].pc = l
    /\ \A g \in Holder \ {h} : proc'[g] = proc[g]

SameQueue(h) ==
    /\ proc'[h].pending = proc[h].pending /\ proc'[h].busy = proc[h].busy
    /\ (proc'[h].kick <=> proc[h].kick) /\ (proc'[h].asking <=> proc[h].asking)

Takes(h, j) == job' \in [Holder -> Jobs] /\ job'[h] = j /\ \A g \in Holder \ {h} : job'[g] = job[g]

(* What the proofs use of the intervals and the clock's bound. *)
LEMMA Bounds ==
    /\ 0 \in Time /\ 1 \in Time /\ Time \subseteq Nat
    /\ LeaseTTL \in Nat /\ LeaseTTL > 0 /\ ReportEvery \in Nat /\ MaxTime \in Nat
  <1>1. LeaseTTL \in Nat \ {0} /\ ReportEvery \in Nat /\ MaxTime \in Nat \ {0}
    BY ChecksAssumption, Zenon
  <1> QED
    BY <1>1 DEF Time

(* A check finds what a row can hold. *)
LEMMA Outcomes == Outcome \subseteq Status
  <1>1. Outcome \subseteq {"ok", "warning", "error", "skipped"}
    BY ChecksAssumption, Zenon
  <1> QED
    BY <1>1 DEF Status

(* A change of label alone moves the process and leaves its queue alone. *)
LEMMA GoMoves ==
    ASSUME TypeInv, NEW h \in Holder, NEW l \in Passing \cup {"down", "wait", "drain", "due"}, Go(h, l)
    PROVE  Moves(h, l) /\ SameQueue(h)
  BY DEF TypeInv, Go, Moves, SameQueue, Procs

(* Writing the record of one process moves that process only. *)
LEMMA MovesAny ==
    ASSUME TypeInv, NEW h \in Holder, NEW p \in Procs, proc' = [proc EXCEPT ![h] = p]
    PROVE  Moves(h, p.pc) /\ proc'[h] = p
  BY DEF TypeInv, Moves

(* Writing the job of one process gives a job to that process only. *)
LEMMA TakesAny ==
    ASSUME TypeInv, NEW h \in Holder, NEW j \in Jobs, job' = [job EXCEPT ![h] = j]
    PROVE  Takes(h, j)
  BY DEF TypeInv, Takes

(* The values that stand for nothing are of their types. *)
LEMMA Empty == NoRow \in Row /\ NoJob \in Jobs /\ Down \in Procs /\ NoJob.kind = "none"
               /\ NoJob.ranAt = 0
               /\ Down.pc = "down" /\ Down.pending = <<>> /\ Down.busy = 0 /\ ~Down.asking
  <1>1. NoRow \in Row
    BY Bounds DEF NoRow, Row
  <1>2. NoJob \in Jobs /\ NoJob.kind = "none" /\ NoJob.ranAt = 0
    BY <1>1, Bounds DEF NoJob, Jobs, Status, Key
  <1>3. Down \in Procs /\ Down.pc = "down" /\ Down.pending = <<>> /\ Down.busy = 0 /\ ~Down.asking
    BY DEF Down, Procs
  <1> QED
    BY <1>1, <1>2, <1>3

(* The process comes up with an empty queue. *)
LEMMA StartMoves ==
    ASSUME TypeInv, NEW h \in Holder, Start(h)
    PROVE  /\ Moves(h, "wait") /\ proc'[h].pending = <<>> /\ proc'[h].busy = 0 /\ ~proc'[h].asking
           /\ UNCHANGED job
  <1>1. [Down EXCEPT !.pc = "wait"] \in Procs /\ [Down EXCEPT !.pc = "wait"].pc = "wait"
        /\ [Down EXCEPT !.pc = "wait"].pending = <<>> /\ [Down EXCEPT !.pc = "wait"].busy = 0
        /\ ~[Down EXCEPT !.pc = "wait"].asking
    BY Empty DEF Down, Procs
  <1> QED
    BY <1>1 DEF Start, TypeInv, Moves

(* The process goes down with its queue and its job. *)
LEMMA StopMoves ==
    ASSUME TypeInv, NEW h \in Holder, Stop(h)
    PROVE  /\ Moves(h, "down") /\ proc'[h].pending = <<>> /\ proc'[h].busy = 0 /\ ~proc'[h].asking
           /\ Takes(h, NoJob)
  BY Empty DEF Stop, TypeInv, Moves, Takes

(* RunNow takes the mutex when it has seen nothing running. *)
LEMMA RunNowMoves ==
    ASSUME TypeInv, NEW h \in Holder, RunNow(h)
    PROVE  /\ Moves(h, proc[h].pc) /\ proc'[h].pending = proc[h].pending
           /\ proc'[h].busy = proc[h].busy /\ (proc'[h].kick <=> proc[h].kick)
           /\ (proc'[h].asking <=> proc[h].busy = 0)
           /\ UNCHANGED job
  <1> DEFINE p == [proc[h] EXCEPT !.asking = (proc[h].busy = 0)]
  <1>1. proc[h] \in Procs
    BY DEF TypeInv
  <1>2. /\ p \in Procs /\ p.pc = proc[h].pc /\ p.pending = proc[h].pending
        /\ p.busy = proc[h].busy /\ (p.kick <=> proc[h].kick) /\ (p.asking <=> proc[h].busy = 0)
    BY <1>1 DEF Procs
  <1>3. proc' = [proc EXCEPT ![h] = p] /\ UNCHANGED job
    BY DEF RunNow
  <1> HIDE DEF p
  <1>4. Moves(h, p.pc) /\ proc'[h] = p
    BY <1>2, <1>3, MovesAny
  <1> QED
    BY <1>2, <1>3, <1>4

(* RunNow queues the request, counts it and kicks the loop. *)
LEMMA AcceptedMoves ==
    ASSUME TypeInv, NEW h \in Holder, RunNowAccepted(h)
    PROVE  /\ Moves(h, proc[h].pc) /\ proc'[h].busy = proc[h].busy + 1
           /\ \E q \in Request : proc'[h].pending = Append(proc[h].pending, q)
           /\ proc'[h].kick /\ ~proc'[h].asking
           /\ UNCHANGED job
  <1>1. PICK q \in Request :
           proc' = [proc EXCEPT ![h] = [@ EXCEPT !.asking = FALSE, !.pending = Append(proc[h].pending, q),
                                                 !.busy = proc[h].busy + 1, !.kick = TRUE]]
    BY DEF RunNowAccepted
  <1>2. proc[h] \in Procs
    BY DEF TypeInv
  <1>3. Append(proc[h].pending, q) \in Seq(Request) /\ proc[h].busy + 1 \in Nat
    BY <1>2 DEF Procs
  <1> DEFINE p == [proc[h] EXCEPT !.asking = FALSE, !.pending = Append(proc[h].pending, q),
                              !.busy = proc[h].busy + 1, !.kick = TRUE]
  <1>4. p \in Procs /\ p.pc = proc[h].pc /\ p.busy = proc[h].busy + 1
        /\ p.pending = Append(proc[h].pending, q) /\ p.kick /\ ~p.asking
    BY <1>2, <1>3 DEF Procs
  <1>5. proc' = [proc EXCEPT ![h] = p]
    BY <1>1
  <1> HIDE DEF p
  <1>6. Moves(h, p.pc) /\ proc'[h] = p
    BY <1>4, <1>5, MovesAny
  <1> QED
    BY <1>4, <1>6 DEF RunNowAccepted

(* The loop goes to the queue, with the kick or without. *)
LEMMA WakeMoves ==
    ASSUME TypeInv, NEW h \in Holder, Wake(h)
    PROVE  /\ Moves(h, "drain") /\ proc'[h].pending = proc[h].pending
           /\ proc'[h].busy = proc[h].busy /\ (proc'[h].asking <=> proc[h].asking)
           /\ UNCHANGED job
  <1>1. proc[h] \in Procs
    BY DEF TypeInv
  <1>2. CASE proc' = [proc EXCEPT ![h].pc = "drain"]
    BY <1>2, GoMoves DEF Go, SameQueue, Wake
  <1>3. CASE proc' = [proc EXCEPT ![h] = [@ EXCEPT !.pc = "drain", !.kick = FALSE]]
    <2> DEFINE p == [proc[h] EXCEPT !.pc = "drain", !.kick = FALSE]
    <2>1. p \in Procs /\ p.pc = "drain" /\ p.pending = proc[h].pending /\ p.busy = proc[h].busy
          /\ (p.asking <=> proc[h].asking)
      BY <1>1 DEF Procs
    <2>2. proc' = [proc EXCEPT ![h] = p]
      BY <1>3, Zenon
    <2> HIDE DEF p
    <2> QED
      BY <2>1, <2>2, MovesAny DEF Wake
  <1> QED
    BY <1>2, <1>3 DEF Wake

(* drain takes what is queued as a manual job, under the mutex. *)
LEMMA DrainMoves ==
    ASSUME TypeInv, NEW h \in Holder, Drain(h)
    PROVE  /\ ~proc[h].asking
           /\ \/ proc[h].pending = <<>> /\ Moves(h, "due") /\ SameQueue(h) /\ UNCHANGED job
              \/ /\ proc[h].pending # <<>> /\ Moves(h, "begin") /\ proc'[h].pending = <<>>
                 /\ proc'[h].busy = proc[h].busy /\ ~proc'[h].asking
                 /\ \E j \in Jobs : Takes(h, j) /\ j.kind = "manual" /\ j.ranAt = 0
  <1>1. CASE proc[h].pending = <<>>
    BY <1>1, GoMoves DEF Drain
  <1>2. CASE proc[h].pending # <<>>
    <2>1. proc' = [proc EXCEPT ![h] = [@ EXCEPT !.pc = "begin", !.pending = <<>>]]
      BY <1>2 DEF Drain
    <2>2. Moves(h, "begin") /\ proc'[h].pending = <<>> /\ proc'[h].busy = proc[h].busy
          /\ ~proc'[h].asking
      <3> DEFINE p == [proc[h] EXCEPT !.pc = "begin", !.pending = <<>>]
      <3>1. proc[h] \in Procs
        BY DEF TypeInv
      <3>2. p \in Procs /\ p.pc = "begin" /\ p.pending = <<>> /\ p.busy = proc[h].busy
            /\ (p.asking <=> proc[h].asking)
        <4>1. <<>> \in Seq(Request) /\ "begin" \in Passing
          BY DEF Passing
        <4> QED
          BY <3>1, <4>1 DEF Procs
      <3>3. proc' = [proc EXCEPT ![h] = p]
        BY <2>1, Zenon
      <3>4. ~proc[h].asking
        BY <1>2 DEF Drain
      <3> HIDE DEF p
      <3>5. Moves(h, p.pc) /\ proc'[h] = p
        BY <3>2, <3>3, MovesAny
      <3> QED
        BY <3>2, <3>4, <3>5
    <2>3. ASSUME NEW q \in Request
          PROVE  ManualJob(q) \in Jobs /\ ManualJob(q).kind = "manual" /\ ManualJob(q).ranAt = 0
      <3>1. (IF q \in Domain THEN {q} ELSE Domain) \in SUBSET Key /\ (q = "all") \in BOOLEAN
        BY DEF Key
      <3> QED
        BY <3>1, Empty DEF ManualJob, NoJob, Jobs
    <2>4. Head(proc[h].pending) \in Request
      BY <1>2 DEF TypeInv, Procs
    <2>5. job' = [job EXCEPT ![h] = ManualJob(Head(proc[h].pending))]
      BY <1>2 DEF Drain
    <2> QED
      BY <1>2, <2>2, <2>3, <2>4, <2>5, TakesAny DEF Drain
  <1> QED
    BY <1>1, <1>2

(* A step that keeps the kind of the job in hand, and leaves it time t. *)
Works(h, t) == \E j \in Jobs : Takes(h, j) /\ j.kind = job[h].kind /\ j.ranAt = t

(* runDue leaves the pass to its holder, or claims the lease and starts one. *)
LEMMA RunDueMoves ==
    ASSUME TypeInv, NEW h \in Holder, RunDue(h)
    PROVE  /\ proc'[h].pending = proc[h].pending
           /\ (proc'[h].kick <=> proc[h].kick) /\ (proc'[h].asking <=> proc[h].asking)
           /\ \/ Moves(h, "wait") /\ proc'[h].busy = proc[h].busy /\ UNCHANGED <<lease, job>>
              \/ /\ Claimable(lease, h, now) /\ lease' = Claimed(h, now, LeaseTTL)
                 /\ \/ Moves(h, "report") /\ proc'[h].busy = proc[h].busy /\ UNCHANGED job
                    \/ /\ Moves(h, "begin") /\ proc'[h].busy = proc[h].busy + 1
                       /\ \E j \in Jobs : Takes(h, j) /\ j.kind = "due" /\ j.ranAt = 0
                    \/ /\ Moves(h, "clear") /\ proc'[h].busy = proc[h].busy
                       /\ \E j \in Jobs : Takes(h, j) /\ j.kind = "disable" /\ j.ranAt = 0
  <1>0. proc[h] \in Procs
    BY DEF TypeInv
  <1>1. CASE ~Claimable(lease, h, now)
    <2> DEFINE p == [proc[h] EXCEPT !.pc = "wait", !.first = FALSE]
    <2>1. p \in Procs /\ p.pc = "wait" /\ p.pending = proc[h].pending /\ p.busy = proc[h].busy
          /\ (p.kick <=> proc[h].kick) /\ (p.asking <=> proc[h].asking)
      BY <1>0 DEF Procs
    <2>2. proc' = [proc EXCEPT ![h] = p] /\ UNCHANGED <<lease, job>>
      BY <1>1, Zenon DEF RunDue
    <2> HIDE DEF p
    <2> QED
      BY <2>1, <2>2, MovesAny
  <1>2. CASE Claimable(lease, h, now)
    <2>1. lease' = Claimed(h, now, LeaseTTL) /\ StartPass(h)
      BY <1>2 DEF RunDue
    <2>2. CASE Go(h, "report") /\ UNCHANGED job
      BY <1>2, <2>1, <2>2, GoMoves DEF SameQueue, Passing
    <2>3. CASE /\ proc' = [proc EXCEPT ![h] = [@ EXCEPT !.pc = "begin", !.busy = proc[h].busy + 1]]
               /\ job' = [job EXCEPT ![h] = [NoJob EXCEPT !.kind = "due", !.keep = Domain, !.prune = TRUE]]
      <3> DEFINE p == [proc[h] EXCEPT !.pc = "begin", !.busy = proc[h].busy + 1]
                 j == [NoJob EXCEPT !.kind = "due", !.keep = Domain, !.prune = TRUE]
      <3>1. proc[h].busy + 1 \in Nat /\ "begin" \in Passing
        BY <1>0 DEF Procs, Passing
      <3>2. p \in Procs /\ p.pc = "begin" /\ p.pending = proc[h].pending /\ p.busy = proc[h].busy + 1
            /\ (p.kick <=> proc[h].kick) /\ (p.asking <=> proc[h].asking)
        BY <1>0, <3>1 DEF Procs
      <3>3. Domain \in SUBSET Key
        BY DEF Key
      <3>4. j \in Jobs /\ j.kind = "due" /\ j.ranAt = 0
        BY <3>3, Empty DEF NoJob, Jobs
      <3>5. proc' = [proc EXCEPT ![h] = p] /\ job' = [job EXCEPT ![h] = j]
        BY <2>3, Zenon
      <3> HIDE DEF p, j
      <3>6. Moves(h, "begin") /\ proc'[h] = p
        BY <3>2, <3>5, MovesAny
      <3>7. Takes(h, j)
        BY <3>4, <3>5, TakesAny
      <3> QED
        BY <1>2, <2>1, <3>2, <3>4, <3>6, <3>7
    <2>4. CASE Go(h, "clear") /\ job' = [job EXCEPT ![h] = [NoJob EXCEPT !.kind = "disable"]]
      <3> DEFINE j == [NoJob EXCEPT !.kind = "disable"]
      <3>1. j \in Jobs /\ j.kind = "disable" /\ j.ranAt = 0
        BY Empty DEF NoJob, Jobs
      <3>2. job' = [job EXCEPT ![h] = j]
        BY <2>4, Zenon
      <3>3. "clear" \in Passing
        BY DEF Passing
      <3> HIDE DEF j
      <3>4. Takes(h, j)
        BY <3>1, <3>2, TakesAny
      <3>5. Moves(h, "clear") /\ SameQueue(h)
        BY <2>4, <3>3, GoMoves
      <3> QED
        BY <1>2, <2>1, <3>1, <3>4, <3>5 DEF SameQueue
    <2> QED
      BY <2>1, <2>2, <2>3, <2>4 DEF StartPass
  <1> QED
    BY <1>1, <1>2

(* A batch begins with the job it was given. *)
LEMMA BeginMoves ==
    ASSUME TypeInv, NEW h \in Holder, ClearDomains(h) \/ BeginBatch(h)
    PROVE  Moves(h, "next") /\ SameQueue(h) /\ Works(h, job[h].ranAt)
  <1>1. Go(h, "next") /\ "next" \in Passing
    BY DEF ClearDomains, BeginBatch, Passing
  <1>2. Moves(h, "next") /\ SameQueue(h)
    BY <1>1, GoMoves
  <1>3. job[h] \in Jobs /\ {""} \in SUBSET Key
    BY DEF TypeInv, Key
  <1>4. CASE ClearDomains(h)
    <2> DEFINE j == [job[h] EXCEPT !.todo = {""}, !.verdict = "disabled"]
    <2>1. j \in Jobs /\ j.kind = job[h].kind /\ j.ranAt = job[h].ranAt
      BY <1>3 DEF Jobs
    <2>2. job' = [job EXCEPT ![h] = j]
      BY <1>4, Zenon DEF ClearDomains
    <2> HIDE DEF j
    <2> QED
      BY <1>2, <2>1, <2>2, TakesAny DEF Works
  <1>5. CASE BeginBatch(h)
    <2> DEFINE targets == listed \cap job[h].keep
               filtered == job[h].keep # Domain
               j1 == [job[h] EXCEPT !.todo = targets, !.keep = targets,
                                    !.prune = job[h].prune /\ ~filtered]
               j2 == [job[h] EXCEPT !.todo = {""}, !.prune = FALSE, !.verdict = "error"]
               j3(T) == [job[h] EXCEPT !.todo = T, !.prune = FALSE, !.verdict = "skipped"]
    <2>1. targets \in SUBSET Key /\ (job[h].prune /\ ~filtered) \in BOOLEAN
      BY DEF TypeInv, Key
    <2>2. j1 \in Jobs /\ j1.kind = job[h].kind /\ j1.ranAt = job[h].ranAt
      <3> HIDE DEF targets, filtered
      <3> QED
        BY <1>3, <2>1 DEF Jobs
    <2>3. j2 \in Jobs /\ j2.kind = job[h].kind /\ j2.ranAt = job[h].ranAt
      BY <1>3 DEF Jobs
    <2>4. ASSUME NEW T \in {targets, {""}}
          PROVE  j3(T) \in Jobs /\ j3(T).kind = job[h].kind /\ j3(T).ranAt = job[h].ranAt
      <3>1. T \in SUBSET Key
        BY <1>3, <2>1, <2>4
      <3> HIDE DEF targets, filtered
      <3> QED
        BY <1>3, <3>1 DEF Jobs
    <2>5. \/ job' = [job EXCEPT ![h] = j1]
          \/ job' = [job EXCEPT ![h] = j2]
          \/ \E T \in {targets, {""}} : job' = [job EXCEPT ![h] = j3(T)]
      BY <1>5, Zenon DEF BeginBatch
    <2> HIDE DEF targets, filtered, j1, j2, j3
    <2> QED
      BY <1>2, <2>2, <2>3, <2>4, <2>5, TakesAny DEF Works
  <1> QED
    BY <1>4, <1>5

(* An execution carries the time and the row it is going to replace. *)
LEMMA ExecuteMoves ==
    ASSUME TypeInv, NEW h \in Holder, ExecuteAndRead(h)
    PROVE  /\ Moves(h, "write") /\ SameQueue(h)
           /\ \E j \in Jobs : /\ Takes(h, j) /\ j.kind = job[h].kind /\ j.ranAt = now
                              /\ j.key \in Key /\ j.prev = rows[j.key]
  <1>1. Moves(h, "write") /\ SameQueue(h)
    <2>1. "write" \in Passing
      BY DEF Passing
    <2> QED
      BY <2>1, GoMoves DEF ExecuteAndRead
  <1>2. job[h] \in Jobs
    BY DEF TypeInv
  <1> DEFINE S == IF job[h].verdict = "run" THEN Outcome ELSE {job[h].verdict}
             J(k, s) == [job[h] EXCEPT !.todo = job[h].todo \ {k}, !.key = k, !.status = s,
                                       !.ranAt = now, !.prev = rows[k]]
  <1>3. S \subseteq Status
    BY <1>2, Outcomes DEF Jobs, Status
  <1>4. PICK k \in job[h].todo, s \in S : job' = [job EXCEPT ![h] = J(k, s)]
    BY Zenon DEF ExecuteAndRead
  <1>5. k \in Key /\ s \in Status /\ job[h].todo \ {k} \in SUBSET Key /\ rows[k] \in Row /\ now \in Time
    BY <1>2, <1>3 DEF TypeInv, Jobs
  <1> HIDE DEF S
  <1>6. J(k, s) \in Jobs /\ J(k, s).kind = job[h].kind /\ J(k, s).ranAt = now
        /\ J(k, s).key = k /\ J(k, s).prev = rows[k]
    BY <1>2, <1>5 DEF Jobs
  <1> HIDE DEF J
  <1>7. Takes(h, J(k, s))
    BY <1>4, <1>6, TakesAny
  <1> QED
    BY <1>1, <1>5, <1>6, <1>7

(* A save ends the execution and keeps the job. *)
LEMMA SaveMoves ==
    ASSUME TypeInv, NEW h \in Holder, SaveWrites(h)
    PROVE  Moves(h, "next") /\ SameQueue(h) /\ Works(h, 0)
  <1>1. Moves(h, "next") /\ SameQueue(h)
    <2>1. "next" \in Passing
      BY DEF Passing
    <2> QED
      BY <2>1, GoMoves DEF SaveWrites
  <1> DEFINE j == [job[h] EXCEPT !.key = "", !.status = "none", !.ranAt = 0, !.prev = NoRow]
  <1>2. job[h] \in Jobs
    BY DEF TypeInv
  <1>3. "" \in Key /\ "none" \in Status
    BY DEF Key, Status
  <1>4. j \in Jobs /\ j.kind = job[h].kind /\ j.ranAt = 0
    BY <1>2, <1>3, Empty, Bounds DEF Jobs
  <1>5. job' = [job EXCEPT ![h] = j]
    BY Zenon DEF SaveWrites
  <1> HIDE DEF j
  <1> QED
    BY <1>1, <1>4, <1>5, TakesAny DEF Works

(* The end of a batch takes the job off the count it was in. *)
LEMMA EndMoves ==
    ASSUME TypeInv, LoopInv, NEW h \in Holder, EndBatch(h)
    PROVE  /\ Moves(h, IF job[h].kind = "manual" THEN "due" ELSE "report")
           /\ proc'[h].pending = proc[h].pending
           /\ proc'[h].busy = (IF job[h].kind = "disable" THEN proc[h].busy ELSE proc[h].busy - 1)
           /\ (proc'[h].kick <=> proc[h].kick) /\ (proc'[h].asking <=> proc[h].asking)
           /\ Takes(h, NoJob)
  <1>1. proc[h] \in Procs /\ job[h] \in Jobs
    BY DEF TypeInv
  <1> DEFINE l == IF job[h].kind = "manual" THEN "due" ELSE "report"
             b == IF job[h].kind = "disable" THEN proc[h].busy ELSE proc[h].busy - 1
             p == [proc[h] EXCEPT !.pc = l, !.busy = b]
  <1>2. l \in Passing \cup {"down", "wait", "drain", "due"}
    BY DEF Passing
  <1>3. b \in Nat
    <2>1. CASE job[h].kind = "disable"
      BY <1>1, <2>1 DEF Procs
    <2>2. CASE job[h].kind # "disable"
      <3>1. job[h].kind \in {"manual", "due"}
        BY <1>1, <2>2 DEF EndBatch, At, LoopInv, InHand, Jobs
      <3>2. proc[h].busy = Len(proc[h].pending) + 1 /\ Len(proc[h].pending) \in Nat
        <4>1. Len(proc[h].pending) \in Nat
          BY <1>1 DEF Procs
        <4>2. proc[h].busy = Len(proc[h].pending) + Units(job[h])
          BY Zenon DEF LoopInv, Counted
        <4> QED
          BY <3>1, <4>1, <4>2 DEF Units
      <3> QED
        BY <2>2, <3>2
    <2> QED
      BY <2>1, <2>2
  <1>4. proc' = [proc EXCEPT ![h] = p] /\ job' = [job EXCEPT ![h] = NoJob]
    BY DEF EndBatch
  <1> HIDE DEF l, b
  <1>5. p \in Procs /\ p.pc = l /\ p.busy = b /\ p.pending = proc[h].pending
        /\ (p.kick <=> proc[h].kick) /\ (p.asking <=> proc[h].asking)
    BY <1>1, <1>2, <1>3 DEF Procs
  <1> HIDE DEF p
  <1>6. Moves(h, l) /\ proc'[h] = p
    BY <1>4, <1>5, MovesAny
  <1>7. Takes(h, NoJob)
    BY <1>4, Empty, TakesAny
  <1> QED
    BY <1>5, <1>6, <1>7 DEF l, b

(* maybeReport starts a digest when one is due, or is done. *)
LEMMA ReportMoves ==
    ASSUME TypeInv, NEW h \in Holder, ReportReads(h)
    PROVE  /\ SameQueue(h)
           /\ \/ Moves(h, "send") /\ Works(h, now) /\ UNCHANGED reported
                 /\ reported # 0 /\ ~(now - reported < ReportEvery)
              \/ Moves(h, "release") /\ UNCHANGED job /\ reported' \in {reported, now}
  <1>1. "send" \in Passing /\ "release" \in Passing
    BY DEF Passing
  <1>2. CASE Go(h, "release") /\ reported' \in {reported, now} /\ UNCHANGED job
    BY <1>1, <1>2, GoMoves
  <1>3. CASE /\ Go(h, "send") /\ job' = [job EXCEPT ![h].ranAt = now] /\ UNCHANGED reported
             /\ reported # 0 /\ ~(now - reported < ReportEvery)
    <2> DEFINE j == [job[h] EXCEPT !.ranAt = now]
    <2>1. j \in Jobs /\ j.kind = job[h].kind /\ j.ranAt = now
      BY DEF TypeInv, Jobs
    <2>2. job' = [job EXCEPT ![h] = j]
      BY <1>3, Zenon
    <2> HIDE DEF j
    <2>3. Works(h, now)
      BY <2>1, <2>2, TakesAny DEF Works
    <2> QED
      BY <1>1, <1>3, <2>3, GoMoves
  <1> QED
    BY <1>2, <1>3 DEF ReportReads

(* The rest of the pass, step by step. *)
LEMMA TailMoves ==
    ASSUME TypeInv, NEW h \in Holder
    PROVE  /\ SendMail(h) => Moves(h, "sent") /\ SameQueue(h) /\ UNCHANGED job
           /\ MarkReported(h) => Moves(h, "release") /\ SameQueue(h) /\ Takes(h, NoJob)
           /\ Release(h) => Moves(h, "wait") /\ SameQueue(h) /\ UNCHANGED job
           /\ PassFails(h) => Moves(h, "release") /\ SameQueue(h) /\ Takes(h, NoJob)
  <1>1. "sent" \in Passing /\ "release" \in Passing
    BY DEF Passing
  <1>2. SendMail(h) => Moves(h, "sent") /\ SameQueue(h) /\ UNCHANGED job
    BY <1>1, GoMoves DEF SendMail
  <1>3. MarkReported(h) \/ PassFails(h) => Moves(h, "release") /\ SameQueue(h) /\ Takes(h, NoJob)
    BY <1>1, GoMoves, TakesAny, Empty DEF MarkReported, PassFails
  <1>4. ASSUME Release(h)
        PROVE  Moves(h, "wait") /\ SameQueue(h) /\ UNCHANGED job
    <2> DEFINE p == [proc[h] EXCEPT !.pc = "wait", !.first = FALSE]
    <2>1. p \in Procs /\ p.pc = "wait" /\ p.pending = proc[h].pending /\ p.busy = proc[h].busy
          /\ (p.kick <=> proc[h].kick) /\ (p.asking <=> proc[h].asking)
      BY DEF Procs, TypeInv
    <2>2. proc' = [proc EXCEPT ![h] = p] /\ UNCHANGED job
      BY <1>4, Zenon DEF Release
    <2> HIDE DEF p
    <2> QED
      BY <2>1, <2>2, MovesAny DEF SameQueue
  <1> QED
    BY <1>2, <1>3, <1>4

(* The actions that write the rows leave rows and streaks that are ones. *)
LEMMA RowsTyped ==
    ASSUME TypeInv, NEW h \in Holder, ClearDomains(h) \/ SaveWrites(h) \/ EndBatch(h)
    PROVE  rows' \in [Key -> Row] /\ streak' \in [Key -> Time]
  <1>1. CASE ClearDomains(h)
    BY <1>1, Empty, Bounds DEF ClearDomains, TypeInv
  <1>2. CASE EndBatch(h)
    <2> DEFINE gone == IF job[h].prune THEN Key \ job[h].keep ELSE {}
    <2>1. /\ rows' = [k \in Key |-> IF k \in gone THEN NoRow ELSE rows[k]]
          /\ streak' = [k \in Key |-> IF k \in gone THEN 0 ELSE streak[k]]
      BY <1>2, Zenon DEF EndBatch
    <2> HIDE DEF gone
    <2> QED
      BY <2>1, Empty, Bounds DEF TypeInv
  <1>3. CASE SaveWrites(h)
    <2> DEFINE j == job[h]
    <2>1. j \in Jobs
      BY DEF TypeInv
    <2>2. j.key \in Key /\ j.status \in Status /\ j.ranAt \in Time /\ rows[j.key] \in Row
          /\ streak[j.key] \in Time
      BY <2>1 DEF TypeInv, Jobs
    <2>3. Since(j) \in Time
      BY <2>2, Bounds DEF Since, Row
    <2>4. CASE UNCHANGED <<rows, streak>>
      BY <2>4 DEF TypeInv
    <2>5. CASE /\ rows' = [rows EXCEPT ![j.key] = [status |-> j.status, ranAt |-> j.ranAt, since |-> Since(j)]]
               /\ streak' = [streak EXCEPT ![j.key] = IF j.status \notin Failing THEN 0
                                                      ELSE IF @ = 0 THEN j.ranAt ELSE @]
      <3>1. [status |-> j.status, ranAt |-> j.ranAt, since |-> Since(j)] \in Row
        BY <2>2, <2>3 DEF Row, Status
      <3>2. (IF j.status \notin Failing THEN 0 ELSE IF streak[j.key] = 0 THEN j.ranAt ELSE streak[j.key]) \in Time
        BY <2>2, Bounds
      <3> HIDE DEF j
      <3> QED
        BY <2>2, <2>5, <3>1, <3>2 DEF TypeInv
    <2> QED
      BY <1>3, <2>4, <2>5 DEF SaveWrites
  <1> QED
    BY <1>1, <1>2, <1>3

(* What a claim or a release writes is a lease row. *)
LEMMA LeasesTyped ==
    ASSUME TypeInv, NEW h \in Holder
    PROVE  Claimed(h, now, LeaseTTL) \in LeaseRow /\ Released(lease, h, now) \in LeaseRow
  <1>1. now + LeaseTTL \in Nat /\ now \in Nat
    BY Bounds DEF TypeInv
  <1> QED
    BY <1>1 DEF Claimed, Released, LeaseRow, TypeInv

(* What any step leaves, as long as the processes and their jobs are some. *)
LEMMA TypesStep ==
    ASSUME TypeInv, LoopInv, Next
    PROVE  TypeInv'
  <1>0. CASE Tick
    <2>1. now' \in Time
      BY <1>0, Bounds DEF Tick, TypeInv, Time
    <2>2. lapsed' \in BOOLEAN
      BY <1>0 DEF Tick, TypeInv
    <2> QED
      BY <1>0, <2>1, <2>2 DEF Tick, TypeInv, store
  <1>1. CASE Configure
    <2>1. enabled' \in BOOLEAN /\ listed' \subseteq Domain
      BY <1>1 DEF Configure, TypeInv
    <2> QED
      BY <1>1, <2>1 DEF Configure, TypeInv, history
  <1>2. ASSUME NEW h \in Holder, Start(h) \/ Stop(h) \/ RunNow(h) \/ RunNowAccepted(h)
                                 \/ Wake(h) \/ Drain(h)
        PROVE  TypeInv'
    <2>1. proc' \in [Holder -> Procs]
      BY <1>2, StartMoves, StopMoves, RunNowMoves, AcceptedMoves, WakeMoves, DrainMoves DEF Moves
    <2>2. job' \in [Holder -> Jobs]
      BY <1>2, StartMoves, StopMoves, RunNowMoves, AcceptedMoves, WakeMoves, DrainMoves
      DEF Takes, TypeInv
    <2>3. unmarked' \in BOOLEAN
      BY <1>2 DEF Start, Stop, RunNow, RunNowAccepted, Wake, Drain, history, TypeInv
    <2> QED
      BY <1>2, <2>1, <2>2, <2>3
      DEF Start, Stop, RunNow, RunNowAccepted, Wake, Drain, store, history, TypeInv
  <1>3. ASSUME NEW h \in Holder, RunDue(h)
        PROVE  TypeInv'
    <2>1. proc' \in [Holder -> Procs]
      BY <1>3, RunDueMoves DEF Moves
    <2>2. job' \in [Holder -> Jobs]
      BY <1>3, RunDueMoves DEF Takes, TypeInv
    <2>3. lease' \in LeaseRow
      BY <1>3, RunDueMoves, LeasesTyped DEF TypeInv
    <2> QED
      BY <1>3, <2>1, <2>2, <2>3 DEF RunDue, history, TypeInv
  <1>4. ASSUME NEW h \in Holder, ClearDomains(h) \/ SaveWrites(h) \/ EndBatch(h)
        PROVE  TypeInv'
    <2>1. proc' \in [Holder -> Procs]
      BY <1>4, BeginMoves, SaveMoves, EndMoves DEF Moves
    <2>2. job' \in [Holder -> Jobs]
      BY <1>4, BeginMoves, SaveMoves, EndMoves DEF Works, Takes
    <2>3. crossed' \in BOOLEAN
      BY <1>4 DEF ClearDomains, SaveWrites, EndBatch, TypeInv
    <2> QED
      BY <1>4, <2>1, <2>2, <2>3, RowsTyped DEF ClearDomains, SaveWrites, EndBatch, TypeInv
  <1>5. ASSUME NEW h \in Holder, BeginBatch(h) \/ ExecuteAndRead(h)
        PROVE  TypeInv'
    <2>1. proc' \in [Holder -> Procs]
      BY <1>5, BeginMoves, ExecuteMoves DEF Moves
    <2>2. job' \in [Holder -> Jobs]
      BY <1>5, BeginMoves, ExecuteMoves DEF Works, Takes
    <2>3. crossed' \in BOOLEAN
      BY <1>5 DEF BeginBatch, ExecuteAndRead, history, TypeInv
    <2> QED
      BY <1>5, <2>1, <2>2, <2>3 DEF BeginBatch, ExecuteAndRead, store, history, TypeInv
  <1>6. ASSUME NEW h \in Holder, ReportReads(h)
        PROVE  TypeInv'
    <2>1. proc' \in [Holder -> Procs] /\ job' \in [Holder -> Jobs]
      BY <1>6, ReportMoves DEF Moves, Works, Takes, TypeInv
    <2>2. reported' \in Time
      BY <1>6, ReportMoves DEF TypeInv
    <2> QED
      BY <1>6, <2>1, <2>2 DEF ReportReads, history, TypeInv
  <1>7. ASSUME NEW h \in Holder, SendMail(h) \/ MarkReported(h) \/ Release(h) \/ PassFails(h)
        PROVE  TypeInv'
    <2>1. proc' \in [Holder -> Procs] /\ job' \in [Holder -> Jobs]
      BY <1>7, TailMoves DEF Moves, Takes, TypeInv
    <2>2. job[h].ranAt \in Time
      BY DEF TypeInv, Jobs
    <2>3. mailed' \in [count : Nat, at : Time]
      <3>1. CASE SendMail(h)
        BY <2>2, <3>1 DEF SendMail, TypeInv
      <3> QED
        BY <1>7, <3>1 DEF MarkReported, Release, PassFails, history, TypeInv
    <2>4. reported' \in Time /\ lease' \in LeaseRow
      BY <1>7, <2>2, LeasesTyped DEF SendMail, MarkReported, Release, PassFails, store, TypeInv
    <2>5. unmarked' \in BOOLEAN
      BY <1>7 DEF SendMail, MarkReported, Release, PassFails, history, TypeInv
    <2> QED
      BY <1>7, <2>1, <2>3, <2>4, <2>5
      DEF SendMail, MarkReported, Release, PassFails, store, history, TypeInv
  <1> QED
    BY <1>0, <1>1, <1>2, <1>3, <1>4, <1>5, <1>6, <1>7 DEF Next, Loop

(* A step of process h. *)
Steps(h) == Start(h) \/ Stop(h) \/ RunNow(h) \/ RunNowAccepted(h) \/ Loop(h) \/ PassFails(h)

(* A process works on its own loop and job only. *)
LEMMA OthersKept ==
    ASSUME TypeInv, LoopInv, NEW h \in Holder, Steps(h), NEW g \in Holder, g # h
    PROVE  proc'[g] = proc[g] /\ job'[g] = job[g]
  <1>1. \E l : Moves(h, l)
    <2>1. CASE Start(h) \/ Stop(h) \/ RunNow(h) \/ RunNowAccepted(h) \/ Wake(h) \/ Drain(h)
      BY <2>1, StartMoves, StopMoves, RunNowMoves, AcceptedMoves, WakeMoves, DrainMoves
    <2>2. CASE RunDue(h) \/ ClearDomains(h) \/ BeginBatch(h) \/ ExecuteAndRead(h) \/ SaveWrites(h)
      BY <2>2, RunDueMoves, BeginMoves, ExecuteMoves, SaveMoves
    <2>3. CASE EndBatch(h) \/ ReportReads(h) \/ SendMail(h) \/ MarkReported(h) \/ Release(h) \/ PassFails(h)
      BY <2>3, EndMoves, ReportMoves, TailMoves
    <2> QED
      BY <2>1, <2>2, <2>3 DEF Steps, Loop
  <1>2. UNCHANGED job \/ \E j : Takes(h, j)
    <2>1. CASE Start(h) \/ Stop(h) \/ RunNow(h) \/ RunNowAccepted(h) \/ Wake(h) \/ Drain(h)
      BY <2>1, StartMoves, StopMoves, RunNowMoves, AcceptedMoves, WakeMoves, DrainMoves
    <2>2. CASE RunDue(h) \/ ClearDomains(h) \/ BeginBatch(h) \/ ExecuteAndRead(h) \/ SaveWrites(h)
      BY <2>2, RunDueMoves, BeginMoves, ExecuteMoves, SaveMoves DEF Works
    <2>3. CASE EndBatch(h) \/ ReportReads(h) \/ SendMail(h) \/ MarkReported(h) \/ Release(h) \/ PassFails(h)
      BY <2>3, EndMoves, ReportMoves, TailMoves DEF Works
    <2> QED
      BY <2>1, <2>2, <2>3 DEF Steps, Loop
  <1> QED
    BY <1>1, <1>2 DEF Moves, Takes

(* The count is right after a step that leaves queue and count alone and   *)
(* is not the loop's leaving a queue it has not emptied.                   *)
LEMMA CountKept ==
    ASSUME TypeInv, LoopInv, NEW h \in Holder, SameQueue(h), ~At(h, "drain") \/ proc[h].pending = <<>>,
           (job'[h].kind \in {"manual", "due"}) <=> (job[h].kind \in {"manual", "due"})
    PROVE  Counted(proc'[h], job'[h])
  <1>1. Counted(proc[h], job[h])
    BY DEF LoopInv
  <1>2. Units(job'[h]) = Units(job[h])
    BY DEF Units
  <1> QED
    BY <1>1, <1>2, Zenon DEF Counted, SameQueue, At

(* Any step keeps job, queue and count of every process together. *)
LEMMA LoopStep ==
    ASSUME TypeInv, LoopInv, Next
    PROVE  LoopInv'
  <1>0. CASE Tick \/ Configure
    BY <1>0 DEF Tick, Configure, LoopInv
  <1>1. SUFFICES ASSUME NEW h \in Holder, Steps(h)
                 PROVE  InHand(proc'[h], job'[h]) /\ Counted(proc'[h], job'[h])
    BY <1>0, OthersKept DEF Next, Steps, LoopInv
  <1>2. /\ proc[h] \in Procs /\ job[h] \in Jobs
        /\ InHand(proc[h], job[h]) /\ Counted(proc[h], job[h])
    BY DEF TypeInv, LoopInv
  <1>3. proc[h].pending \in Seq(Request) /\ Len(proc[h].pending) \in Nat /\ proc[h].busy \in Nat
    BY <1>2 DEF Procs
  <1>a. Len(<<>>) = 0
    OBVIOUS
  <1>b. Len(proc[h].pending) \in Nat /\ proc[h].busy \in Nat
    BY <1>3
  <1>4. CASE Start(h) \/ Stop(h)
    <2>1. /\ proc'[h].pc \in {"wait", "down"} /\ proc'[h].pending = <<>> /\ proc'[h].busy = 0
          /\ ~proc'[h].asking
      BY <1>4, StartMoves, StopMoves DEF Moves
    <2>2. job'[h].kind = "none"
      <3>1. CASE Start(h)
        BY <1>2, <3>1, StartMoves DEF Start, At, InHand
      <3>2. CASE Stop(h)
        BY <3>2, StopMoves, Empty DEF Takes
      <3> QED
        BY <1>4, <3>1, <3>2
    <2> QED
      BY <2>1, <2>2, <1>a DEF InHand, Counted, Units
  <1>5. CASE RunNow(h)
    <2>1. /\ proc'[h].pc = proc[h].pc /\ proc'[h].pending = proc[h].pending
          /\ proc'[h].busy = proc[h].busy /\ (proc'[h].kick <=> proc[h].kick)
          /\ (proc'[h].asking <=> proc[h].busy = 0) /\ job' = job
      BY <1>5, RunNowMoves DEF Moves
    <2>2. proc[h].busy = 0 => proc[h].pending = <<>>
      <3>1. proc[h].busy = Len(proc[h].pending) + Units(job[h])
        BY <1>2, Zenon DEF Counted
      <3>2. proc[h].busy = 0 => Len(proc[h].pending) = 0
        <4>1. Units(job[h]) \in {0, 1}
          BY DEF Units
        <4> QED
          BY <1>b, <3>1, <4>1
      <3> QED
        BY <1>3, <3>2, EmptySeq
    <2> QED
      BY <1>2, <2>1, <2>2, Zenon DEF InHand, Counted
  <1>6. CASE RunNowAccepted(h)
    <2>1. PICK q \in Request :
             /\ proc'[h].pc = proc[h].pc /\ proc'[h].busy = proc[h].busy + 1
             /\ proc'[h].pending = Append(proc[h].pending, q) /\ proc'[h].kick /\ ~proc'[h].asking
             /\ job' = job
      BY <1>6, AcceptedMoves DEF Moves
    <2>2. proc[h].pending = <<>>
      BY <1>2, <1>6, Zenon DEF RunNowAccepted, Counted
    <2>3. Len(proc'[h].pending) = 1 /\ Len(proc[h].pending) = 0
      BY <2>1, <2>2
    <2>4. proc[h].busy = Len(proc[h].pending) + Units(job[h])
      BY <1>2, Zenon DEF Counted
    <2>5. proc'[h].busy = Len(proc'[h].pending) + Units(job'[h])
      BY <2>1, <2>3, <2>4 DEF Units
    <2>6. Len(proc'[h].pending) <= 1
      BY <2>3
    <2> QED
      BY <1>2, <2>1, <2>5, <2>6, Zenon DEF InHand, Counted
  <1>7. CASE Wake(h)
    <2>1. /\ proc'[h].pc = "drain" /\ proc'[h].pending = proc[h].pending
          /\ proc'[h].busy = proc[h].busy /\ (proc'[h].asking <=> proc[h].asking)
          /\ job' = job /\ job[h].kind = "none"
      BY <1>2, <1>7, WakeMoves DEF Moves, Wake, At, InHand
    <2>2. Counted(proc'[h], job'[h])
      BY <1>2, <2>1, Zenon DEF Counted
    <2> QED
      BY <2>1, <2>2 DEF InHand
  <1>8. CASE Drain(h)
    <2>0. At(h, "drain") /\ job[h].kind = "none"
      BY <1>2, <1>8 DEF Drain, At, InHand
    <2>1. CASE proc[h].pending = <<>> /\ Moves(h, "due") /\ SameQueue(h) /\ UNCHANGED job
      BY <2>0, <2>1, CountKept DEF Moves, InHand
    <2>2. CASE /\ proc[h].pending # <<>> /\ Moves(h, "begin") /\ proc'[h].pending = <<>>
               /\ proc'[h].busy = proc[h].busy /\ ~proc'[h].asking
               /\ \E j \in Jobs : Takes(h, j) /\ j.kind = "manual" /\ j.ranAt = 0
      <3>1. job'[h].kind = "manual" /\ proc'[h].pc = "begin"
        BY <2>2 DEF Takes, Moves
      <3>2. Len(proc[h].pending) <= 1 /\ proc[h].busy = Len(proc[h].pending) + Units(job[h])
        BY <1>2, Zenon DEF Counted
      <3>3. Len(proc[h].pending) # 0
        BY <1>3, <2>2, EmptySeq
      <3>4. proc[h].busy = 1
        <4>1. Units(job[h]) = 0
          BY <2>0 DEF Units
        <4>2. Len(proc[h].pending) <= 1
          BY <3>2
        <4>3. \A n \in Nat : n # 0 /\ n <= 1 => n = 1
          OBVIOUS
        <4>4. Len(proc[h].pending) = 1
          BY <1>b, <3>3, <4>2, <4>3, Zenon
        <4> QED
          BY <3>2, <4>1, <4>4
      <3> QED
        BY <2>2, <3>1, <3>4, <1>a DEF InHand, Counted, Units
    <2> QED
      BY <1>8, <2>1, <2>2, DrainMoves
  <1>9. CASE RunDue(h)
    <2>0. proc[h].pc = "due" /\ job[h].kind = "none"
      BY <1>2, <1>9 DEF RunDue, At, InHand
    <2>1. CASE proc'[h].busy = proc[h].busy
      <3>1. SameQueue(h) /\ ~At(h, "drain")
        BY <1>9, <2>0, <2>1, RunDueMoves DEF SameQueue, At
      <3>2. \/ proc'[h].pc \in {"wait", "report"} /\ job' = job
            \/ proc'[h].pc = "clear" /\ job'[h].kind = "disable"
            \/ proc'[h].busy = proc[h].busy + 1
        BY <1>9, RunDueMoves DEF Moves, Takes
      <3>3. proc[h].busy # proc[h].busy + 1
        BY <1>3
      <3>4. job'[h].kind \notin {"manual", "due"} /\ InHand(proc'[h], job'[h])
        BY <2>0, <2>1, <3>2, <3>3 DEF InHand
      <3> QED
        BY <2>0, <3>1, <3>4, CountKept
    <2>2. CASE proc'[h].busy # proc[h].busy
      <3>1. /\ proc'[h].pc = "begin" /\ proc'[h].busy = proc[h].busy + 1 /\ job'[h].kind = "due"
            /\ proc'[h].pending = proc[h].pending
            /\ (proc'[h].kick <=> proc[h].kick) /\ (proc'[h].asking <=> proc[h].asking)
        BY <1>9, <2>2, RunDueMoves DEF Moves, Takes
      <3>2. proc[h].busy = Len(proc[h].pending) + Units(job[h])
        BY <1>2, Zenon DEF Counted
      <3>3. proc'[h].busy = Len(proc'[h].pending) + Units(job'[h])
        <4>1. Units(job[h]) = 0 /\ Units(job'[h]) = 1
          BY <2>0, <3>1 DEF Units
        <4> QED
          BY <1>3, <3>1, <3>2, <4>1
      <3> QED
        BY <1>2, <2>0, <3>1, <3>3 DEF InHand, Counted
    <2> QED
      BY <2>1, <2>2
  <1>10. CASE ClearDomains(h) \/ BeginBatch(h) \/ ExecuteAndRead(h) \/ SaveWrites(h)
    <2>1. /\ SameQueue(h) /\ proc'[h].pc \in {"next", "write"} /\ job'[h].kind = job[h].kind
      BY <1>10, BeginMoves, ExecuteMoves, SaveMoves DEF Moves, Works, Takes
    <2>2. proc[h].pc \in {"clear", "begin", "next", "write"} /\ job[h].kind # "none"
      BY <1>2, <1>10 DEF ClearDomains, BeginBatch, ExecuteAndRead, SaveWrites, At, InHand
    <2> QED
      BY <2>1, <2>2, CountKept DEF InHand, At
  <1>11. CASE EndBatch(h)
    <2>1. /\ proc'[h].pc \in {"due", "report"} /\ job'[h].kind = "none"
          /\ proc'[h].pending = proc[h].pending
          /\ proc'[h].busy = (IF job[h].kind = "disable" THEN proc[h].busy ELSE proc[h].busy - 1)
          /\ (proc'[h].kick <=> proc[h].kick) /\ (proc'[h].asking <=> proc[h].asking)
      BY <1>11, EndMoves, Empty DEF Moves, Takes
    <2>2. proc[h].pc = "next" /\ job[h].kind \in {"manual", "due", "disable"}
      BY <1>2, <1>11 DEF EndBatch, At, InHand, Jobs
    <2>3. proc[h].busy = Len(proc[h].pending) + Units(job[h])
      BY <1>2, Zenon DEF Counted
    <2>4. proc'[h].busy = Len(proc'[h].pending) + Units(job'[h])
      <3>1. Units(job'[h]) = 0 /\ proc'[h].pending = proc[h].pending
        BY <2>1 DEF Units
      <3>2. CASE job[h].kind = "disable"
        <4>1. Units(job[h]) = 0 /\ proc'[h].busy = proc[h].busy
          BY <2>1, <3>2 DEF Units
        <4> QED
          BY <1>b, <2>3, <3>1, <4>1
      <3>3. CASE job[h].kind \in {"manual", "due"}
        <4>1. Units(job[h]) = 1 /\ proc'[h].busy = proc[h].busy - 1
          BY <2>1, <3>3 DEF Units
        <4> QED
          BY <1>b, <2>3, <3>1, <4>1
      <3> QED
        BY <2>2, <3>2, <3>3
    <2> QED
      BY <1>2, <2>1, <2>2, <2>4 DEF InHand, Counted
  <1>12. CASE ReportReads(h) \/ SendMail(h) \/ MarkReported(h) \/ Release(h) \/ PassFails(h)
    <2>1. SameQueue(h) /\ proc'[h].pc \in {"send", "sent", "release", "wait"}
      BY <1>12, ReportMoves, TailMoves DEF Moves
    <2>2. proc[h].pc \in {"report", "send", "sent", "release"} /\ job[h].kind = "none"
      BY <1>2, <1>12 DEF ReportReads, SendMail, MarkReported, Release, PassFails, At, InHand
    <2>3. job'[h].kind = "none"
      BY <1>12, <2>2, ReportMoves, TailMoves, Empty DEF Works, Takes
    <2> QED
      BY <2>1, <2>2, <2>3, CountKept DEF InHand, At
  <1> QED
    BY <1>1, <1>4, <1>5, <1>6, <1>7, <1>8, <1>9, <1>10, <1>11, <1>12 DEF Steps, Loop

(* A process is in a pass only if it was, or has claimed the lease. *)
LEMMA Entering ==
    ASSUME TypeInv, LoopInv, NEW h \in Holder, Steps(h), InPass(h)'
    PROVE  InPass(h) \/ (RunDue(h) /\ lease' = Claimed(h, now, LeaseTTL))
  <1>1. proc'[h].pc \in Passing /\ job'[h].kind # "manual"
    BY DEF InPass
  <1>2. job[h] \in Jobs /\ InHand(proc[h], job[h])
    BY DEF TypeInv, LoopInv
  <1>3. CASE Start(h) \/ Stop(h) \/ Wake(h)
    <2>1. proc'[h].pc \in {"wait", "down", "drain"}
      BY <1>3, StartMoves, StopMoves, WakeMoves DEF Moves
    <2> QED
      BY <1>1, <2>1 DEF Passing
  <1>4. CASE RunNow(h) \/ RunNowAccepted(h)
    <2>1. proc'[h].pc = proc[h].pc /\ job' = job
      BY <1>4, RunNowMoves, AcceptedMoves DEF Moves
    <2> QED
      BY <1>1, <2>1 DEF InPass
  <1>5. CASE Drain(h)
    <2>1. proc'[h].pc = "due" \/ job'[h].kind = "manual"
      BY <1>5, DrainMoves DEF Moves, Takes
    <2> QED
      BY <1>1, <2>1 DEF Passing
  <1>6. CASE RunDue(h)
    <2>1. proc'[h].pc = "wait" \/ lease' = Claimed(h, now, LeaseTTL)
      BY <1>6, RunDueMoves DEF Moves
    <2> QED
      BY <1>1, <1>6, <2>1 DEF Passing
  <1>7. CASE ClearDomains(h) \/ BeginBatch(h) \/ ExecuteAndRead(h) \/ SaveWrites(h)
    <2>1. job'[h].kind = job[h].kind
      BY <1>7, BeginMoves, ExecuteMoves, SaveMoves DEF Works, Takes
    <2>2. proc[h].pc \in Passing
      BY <1>7 DEF ClearDomains, BeginBatch, ExecuteAndRead, SaveWrites, At, Passing
    <2> QED
      BY <1>1, <2>1, <2>2 DEF InPass
  <1>8. CASE EndBatch(h)
    <2>1. job[h].kind # "manual"
      BY <1>1, <1>8, EndMoves DEF Moves, Passing
    <2> QED
      BY <1>8, <2>1 DEF InPass, EndBatch, At, Passing
  <1>9. CASE ReportReads(h) \/ SendMail(h) \/ MarkReported(h) \/ Release(h) \/ PassFails(h)
    <2>1. proc[h].pc \in {"report", "send", "sent", "release"}
      BY <1>9 DEF ReportReads, SendMail, MarkReported, Release, PassFails, At
    <2> QED
      BY <1>2, <2>1 DEF InPass, InHand, Passing
  <1> QED
    BY <1>3, <1>4, <1>5, <1>6, <1>7, <1>8, <1>9 DEF Steps, Loop

(* What a step of a process does to the lease, the clock and the flag. *)
LEMMA LeaseMoves ==
    ASSUME TypeInv, NEW h \in Holder, Steps(h)
    PROVE  /\ UNCHANGED <<now, lapsed>>
           /\ \/ UNCHANGED lease
              \/ RunDue(h) /\ Claimable(lease, h, now) /\ lease' = Claimed(h, now, LeaseTTL)
              \/ Release(h) /\ lease' = Released(lease, h, now)
  <1>1. CASE Start(h) \/ Stop(h) \/ RunNow(h) \/ RunNowAccepted(h) \/ Wake(h) \/ Drain(h)
    BY <1>1 DEF Start, Stop, RunNow, RunNowAccepted, Wake, Drain, store, history
  <1>2. CASE RunDue(h)
    BY <1>2, RunDueMoves DEF RunDue, history
  <1>3. CASE ClearDomains(h) \/ BeginBatch(h) \/ ExecuteAndRead(h) \/ SaveWrites(h) \/ EndBatch(h)
    BY <1>3 DEF ClearDomains, BeginBatch, ExecuteAndRead, SaveWrites, EndBatch, store, history
  <1>4. CASE ReportReads(h) \/ SendMail(h) \/ MarkReported(h) \/ Release(h) \/ PassFails(h)
    BY <1>4 DEF ReportReads, SendMail, MarkReported, Release, PassFails, store, history
  <1> QED
    BY <1>1, <1>2, <1>3, <1>4 DEF Steps, Loop

(* Any step keeps the lease with the pass, or says it has lapsed. *)
LEMMA LeaseStep ==
    ASSUME TypeInv, LoopInv, LeaseInv, Next
    PROVE  LeaseInv'
  <1>1. CASE Tick
    <2>1. UNCHANGED <<lease, proc, job>> /\ now' = now + 1
      BY <1>1 DEF Tick, store
    <2>2. lapsed' \/ \A h \in Holder : InPass(h) => LeaseLive(lease, now + 1)
      BY <1>1 DEF Tick, TypeInv
    <2>3. lapsed => lapsed'
      BY <1>1 DEF Tick
    <2> QED
      BY <2>1, <2>2, <2>3 DEF LeaseInv, InPass
  <1>2. CASE Configure
    BY <1>2 DEF Configure, LeaseInv, InPass, history
  <1>3. SUFFICES ASSUME NEW h \in Holder, Steps(h), ~lapsed', NEW g \in Holder, InPass(g)'
                 PROVE  lease'.holder = g /\ LeaseLive(lease', now')
    BY <1>1, <1>2 DEF Next, Steps, LeaseInv
  <1>4. /\ UNCHANGED <<now, lapsed>> /\ ~lapsed
        /\ \A f \in Holder : InPass(f) => lease.holder = f /\ LeaseLive(lease, now)
    BY <1>3, LeaseMoves DEF LeaseInv
  <1>n. now \in Nat /\ lease \in LeaseRow
    BY Bounds DEF TypeInv
  <1>c. /\ Claimed(h, now, LeaseTTL).holder = h /\ LeaseLive(Claimed(h, now, LeaseTTL), now)
    BY Bounds, <1>n DEF Claimed, LeaseLive
  <1>5. CASE g = h
    <2>1. CASE lease' = Claimed(h, now, LeaseTTL)
      BY <1>4, <1>5, <1>c, <2>1
    <2>2. CASE ~(RunDue(h) /\ lease' = Claimed(h, now, LeaseTTL))
      <3>1. InPass(h)
        BY <1>3, <1>5, <2>2, Entering
      <3>2. ~Release(h)
        <4>1. Release(h) => proc'[h].pc = "wait"
          BY TailMoves DEF Moves
        <4> QED
          BY <1>3, <1>5, <4>1 DEF InPass, Passing
      <3> QED
        BY <1>3, <1>4, <1>5, <2>2, <3>1, <3>2, LeaseMoves
    <2> QED
      BY <2>1, <2>2
  <1>6. CASE g # h
    <2>1. InPass(g)
      BY <1>3, <1>6, OthersKept DEF InPass
    <2>2. lease.holder = g /\ LeaseLive(lease, now)
      BY <1>4, <2>1
    <2>3. ~Claimable(lease, h, now) /\ Released(lease, h, now) = lease
      BY <1>6, <1>n, <2>2 DEF Claimable, Released, LeaseLive, LeaseRow
    <2>4. lease' = lease
      BY <1>3, <2>3, LeaseMoves
    <2> QED
      BY <1>4, <2>2, <2>4
  <1> QED
    BY <1>5, <1>6

(* While no pass has outlived its lease there is one pass. *)
LEMMA OnePass ==
    ASSUME LeaseInv, ~lapsed, NEW g \in Holder, NEW h \in Holder, InPass(g), InPass(h)
    PROVE  g = h
  BY DEF LeaseInv

(* What is past the batch is a pass. *)
LEMMA Reporting ==
    ASSUME LoopInv, NEW h \in Holder, proc[h].pc \in {"report", "send", "sent", "release"}
    PROVE  InPass(h)
  BY DEF LoopInv, InHand, InPass, Passing

(* A job is dated when it starts an execution or a digest. *)
LEMMA JobTimes ==
    ASSUME TypeInv, LoopInv, NEW h \in Holder, Steps(h)
    PROVE  job'[h].ranAt \in {0, now, job[h].ranAt}
  <1>1. CASE Start(h) \/ Stop(h) \/ RunNow(h) \/ RunNowAccepted(h) \/ Wake(h) \/ Drain(h)
    BY <1>1, StartMoves, StopMoves, RunNowMoves, AcceptedMoves, WakeMoves, DrainMoves, Empty
    DEF Takes
  <1>2. CASE RunDue(h) \/ ClearDomains(h) \/ BeginBatch(h) \/ ExecuteAndRead(h) \/ SaveWrites(h)
    BY <1>2, RunDueMoves, BeginMoves, ExecuteMoves, SaveMoves DEF Works, Takes
  <1>3. CASE EndBatch(h) \/ ReportReads(h) \/ SendMail(h) \/ MarkReported(h) \/ Release(h) \/ PassFails(h)
    BY <1>3, EndMoves, ReportMoves, TailMoves, Empty DEF Works, Takes
  <1> QED
    BY <1>1, <1>2, <1>3 DEF Steps, Loop

(* Only the end of a pass touches what is known of digests; the other      *)
(* steps of a process keep its place, or take it from one that has sent    *)
(* nothing to one that will send nothing next, or leave the digest         *)
(* unrecorded.                                                             *)
LEMMA QuietSteps ==
    ASSUME TypeInv, LoopInv, NEW h \in Holder, Steps(h),
           ~ReportReads(h), ~SendMail(h), ~MarkReported(h)
    PROVE  /\ UNCHANGED <<mailed, reported>> /\ (unmarked => unmarked')
           /\ \/ proc'[h].pc = proc[h].pc /\ job' = job
              \/ /\ proc'[h].pc \notin {"send", "sent"}
                 /\ proc[h].pc # "sent" \/ unmarked'
  <1>1. CASE Start(h) \/ Stop(h) \/ Wake(h) \/ Drain(h)
    <2>1. proc'[h].pc \in {"wait", "down", "drain", "due", "begin"}
      BY <1>1, StartMoves, StopMoves, WakeMoves, DrainMoves DEF Moves
    <2>2. proc[h].pc # "sent" \/ unmarked'
      BY <1>1 DEF Start, Stop, Wake, Drain, At
    <2>3. UNCHANGED <<mailed, reported>>
      BY <1>1 DEF Start, Stop, Wake, Drain, store, history
    <2>4. unmarked => unmarked'
      BY <1>1 DEF Start, Stop, Wake, Drain, history
    <2> QED
      BY <2>1, <2>2, <2>3, <2>4
  <1>2. CASE RunNow(h) \/ RunNowAccepted(h)
    <2>1. proc'[h].pc = proc[h].pc /\ job' = job
      BY <1>2, RunNowMoves, AcceptedMoves DEF Moves
    <2>3. UNCHANGED <<mailed, reported>>
      BY <1>2 DEF RunNow, RunNowAccepted, store, history
    <2>4. unmarked => unmarked'
      BY <1>2 DEF RunNow, RunNowAccepted, history
    <2> QED
      BY <2>1, <2>3, <2>4
  <1>3. CASE RunDue(h) \/ ClearDomains(h) \/ BeginBatch(h) \/ ExecuteAndRead(h) \/ SaveWrites(h)
    <2>1. proc'[h].pc \in {"wait", "report", "begin", "clear", "next", "write"}
      BY <1>3, RunDueMoves, BeginMoves, ExecuteMoves, SaveMoves DEF Moves
    <2>2. proc[h].pc \in {"due", "clear", "begin", "next", "write"}
      BY <1>3 DEF RunDue, ClearDomains, BeginBatch, ExecuteAndRead, SaveWrites, At
    <2>3. UNCHANGED <<mailed, reported>>
      BY <1>3 DEF RunDue, ClearDomains, BeginBatch, ExecuteAndRead, SaveWrites, store, history
    <2>4. unmarked => unmarked'
      BY <1>3 DEF RunDue, ClearDomains, BeginBatch, ExecuteAndRead, SaveWrites, history
    <2> QED
      BY <2>1, <2>2, <2>3, <2>4
  <1>4. CASE EndBatch(h) \/ Release(h) \/ PassFails(h)
    <2>1. proc'[h].pc \in {"due", "report", "wait", "release"}
      BY <1>4, EndMoves, TailMoves DEF Moves
    <2>2. proc[h].pc # "sent" \/ unmarked'
      BY <1>4 DEF EndBatch, Release, PassFails, At
    <2>3. UNCHANGED <<mailed, reported>>
      BY <1>4 DEF EndBatch, Release, PassFails, store, history
    <2>4. unmarked => unmarked'
      BY <1>4 DEF EndBatch, Release, PassFails, history
    <2> QED
      BY <2>1, <2>2, <2>3, <2>4
  <1> QED
    BY <1>1, <1>2, <1>3, <1>4 DEF Steps, Loop

(* No step dates anything in the future. *)
LEMMA TimesStep ==
    ASSUME TypeInv, LoopInv, TimesInv, Next
    PROVE  TimesInv'
  <1>0. /\ now \in Nat /\ reported \in Nat /\ mailed.at \in Nat
        /\ \A h \in Holder : job[h].ranAt \in Nat
    BY Bounds DEF TypeInv, Jobs
  <1>1. CASE Tick
    <2>1. now' = now + 1 /\ UNCHANGED <<mailed, reported, job>>
      BY <1>1 DEF Tick, store
    <2> QED
      BY <1>0, <2>1 DEF TimesInv
  <1>2. CASE Configure
    BY <1>2 DEF Configure, TimesInv, history
  <1>3. SUFFICES ASSUME NEW h \in Holder, Steps(h)
                 PROVE  TimesInv'
    BY <1>1, <1>2 DEF Next, Steps
  <1>4. now' = now
    BY <1>3, LeaseMoves
  <1>5. \A g \in Holder : job'[g].ranAt <= now
    <2>1. job'[h].ranAt <= now
      BY <1>0, <1>3, JobTimes DEF TimesInv
    <2> QED
      BY <1>3, <2>1, OthersKept DEF TimesInv
  <1>6. mailed'.at <= now /\ reported' <= now
    <2>1. CASE SendMail(h)
      BY <1>0, <2>1 DEF SendMail, store, TimesInv
    <2>2. CASE MarkReported(h)
      BY <1>0, <2>2 DEF MarkReported, history, TimesInv
    <2>3. CASE ReportReads(h)
      BY <1>0, <2>3, ReportMoves DEF ReportReads, history, TimesInv
    <2>4. CASE ~ReportReads(h) /\ ~SendMail(h) /\ ~MarkReported(h)
      BY <1>3, <2>4, QuietSteps DEF TimesInv
    <2> QED
      BY <2>1, <2>2, <2>3, <2>4
  <1> QED
    BY <1>4, <1>5, <1>6 DEF TimesInv

(* Any step keeps the record of digests in order. *)
LEMMA DigestStep ==
    ASSUME TypeInv, LoopInv, LeaseInv, TimesInv, DigestInv, Next
    PROVE  DigestInv'
  <1>0. CASE Tick \/ Configure
    <2>1. UNCHANGED <<proc, job, mailed, reported, unmarked>> /\ (lapsed => lapsed')
      BY <1>0 DEF Tick, Configure, store, history
    <2> QED
      BY <2>1 DEF DigestInv, At
  <1>1. SUFFICES ASSUME NEW h \in Holder, Steps(h), ~lapsed', ~unmarked'
                 PROVE  DigestInv'
    BY <1>0 DEF Next, Steps, DigestInv
  <1>2. /\ ~lapsed /\ now' = now
        /\ \A g \in Holder : g # h => proc'[g] = proc[g] /\ job'[g] = job[g]
    BY <1>1, LeaseMoves, OthersKept
  <1>3. now \in Nat /\ reported \in Nat /\ ReportEvery \in Nat /\ mailed.at \in Nat /\ mailed.count \in Nat
        /\ \A g \in Holder : job[g].ranAt \in Nat
    BY Bounds DEF TypeInv, Jobs
  <1>4. CASE ~ReportReads(h) /\ ~SendMail(h) /\ ~MarkReported(h)
    <2>1. /\ UNCHANGED <<mailed, reported>> /\ ~unmarked
          /\ \/ proc'[h].pc = proc[h].pc /\ job' = job
             \/ proc'[h].pc \notin {"send", "sent"} /\ proc[h].pc # "sent"
      BY <1>1, <1>4, QuietSteps
    <2>2. CASE proc'[h].pc = proc[h].pc /\ job' = job
      <3>1. \A g \in Holder : proc'[g].pc = proc[g].pc
        BY <1>2, <2>2
      <3> QED
        BY <1>2, <2>1, <2>2, <3>1 DEF DigestInv, At
    <2>3. CASE proc'[h].pc \notin {"send", "sent"} /\ proc[h].pc # "sent"
      <3>1. \A g \in Holder : At(g, "send")' => At(g, "send") /\ job'[g] = job[g]
        BY <1>2, <2>3 DEF At
      <3>2. \A g \in Holder : /\ At(g, "sent")' => At(g, "sent") /\ job'[g] = job[g]
                              /\ At(g, "sent") => At(g, "sent")'
        BY <1>2, <2>3 DEF At
      <3> QED
        BY <1>2, <2>1, <3>1, <3>2 DEF DigestInv
    <2> QED
      BY <2>1, <2>2, <2>3
  <1>5. CASE ReportReads(h) \/ SendMail(h) \/ MarkReported(h)
    <2>0. ~unmarked
      BY <1>1, <1>5 DEF ReportReads, SendMail, MarkReported, history
    <2>1. \A g \in Holder : g # h => ~At(g, "send") /\ ~At(g, "sent")
      <3>1. InPass(h)
        BY <1>5, Reporting DEF ReportReads, SendMail, MarkReported, At
      <3> QED
        BY <1>2, <3>1, Reporting, OnePass DEF At
    <2>2. \A g \in Holder : g # h => ~At(g, "send")' /\ ~At(g, "sent")'
      BY <1>2, <2>1 DEF At
    <2>3. /\ At(h, "send") => reported # 0 /\ job[h].ranAt - reported >= ReportEvery
          /\ At(h, "sent") => job[h].ranAt = mailed.at
          /\ mailed.count = 0 \/ mailed.at <= reported \/ At(h, "sent")
      BY <1>2, <2>0, <2>1 DEF DigestInv
    <2>4. CASE ReportReads(h)
      <3>0. At(h, "report") /\ UNCHANGED mailed /\ mailed.at <= now
        BY <2>4 DEF ReportReads, history, TimesInv
      <3>a. mailed.count = 0 \/ mailed.at <= reported
        BY <2>3, <3>0 DEF At
      <3>1. CASE /\ Moves(h, "send") /\ Works(h, now) /\ UNCHANGED reported
                 /\ reported # 0 /\ ~(now - reported < ReportEvery)
        <4>1. proc'[h].pc = "send" /\ job'[h].ranAt = now
          BY <3>1 DEF Moves, Works, Takes
        <4>2. job'[h].ranAt - reported' >= ReportEvery /\ reported' # 0
          BY <1>3, <3>1, <4>1
        <4> QED
          BY <2>2, <3>0, <3>1, <3>a, <4>1, <4>2 DEF DigestInv, At
      <3>2. CASE Moves(h, "release") /\ UNCHANGED job /\ reported' \in {reported, now}
        <4>1. proc'[h].pc = "release"
          BY <3>2 DEF Moves
        <4>2. mailed'.count = 0 \/ mailed'.at <= reported'
          BY <3>0, <3>2, <3>a
        <4> QED
          BY <2>2, <4>1, <4>2 DEF DigestInv, At
      <3> QED
        BY <2>4, <3>1, <3>2, ReportMoves
    <2>5. CASE SendMail(h)
      <3>1. proc'[h].pc = "sent" /\ job' = job /\ mailed'.at = job[h].ranAt
        BY <2>5, TailMoves DEF SendMail, Moves
      <3> QED
        BY <2>2, <3>1 DEF DigestInv, At
    <2>6. CASE MarkReported(h)
      <3>1. proc'[h].pc = "release" /\ reported' = job[h].ranAt /\ UNCHANGED mailed /\ At(h, "sent")
        BY <2>6, TailMoves DEF MarkReported, Moves, history
      <3>2. mailed'.at <= reported'
        BY <1>3, <2>3, <3>1
      <3> QED
        BY <2>2, <3>1, <3>2 DEF DigestInv, At
    <2> QED
      BY <1>5, <2>4, <2>5, <2>6
  <1> QED
    BY <1>4, <1>5

(* Only three actions write rows; the other steps of a process do not      *)
(* begin a save, but for the start of the batch and its executions.        *)
LEMMA RowsKept ==
    ASSUME TypeInv, LoopInv, NEW h \in Holder, Steps(h),
           ~ClearDomains(h), ~SaveWrites(h), ~EndBatch(h)
    PROVE  /\ UNCHANGED <<rows, streak>>
           /\ \/ BeginBatch(h)
              \/ ExecuteAndRead(h)
              \/ UNCHANGED crossed /\ proc'[h].pc = proc[h].pc /\ job' = job
              \/ UNCHANGED crossed /\ proc'[h].pc \notin {"next", "write"}
  <1>1. CASE Start(h) \/ Stop(h) \/ Wake(h) \/ Drain(h)
    <2>1. proc'[h].pc \in {"wait", "down", "drain", "due", "begin"}
      BY <1>1, StartMoves, StopMoves, WakeMoves, DrainMoves DEF Moves
    <2> QED
      BY <1>1, <2>1 DEF Start, Stop, Wake, Drain, store, history
  <1>2. CASE RunNow(h) \/ RunNowAccepted(h)
    <2>1. proc'[h].pc = proc[h].pc /\ job' = job
      BY <1>2, RunNowMoves, AcceptedMoves DEF Moves
    <2> QED
      BY <1>2, <2>1 DEF RunNow, RunNowAccepted, store, history
  <1>3. CASE RunDue(h)
    <2>1. proc'[h].pc \in {"wait", "report", "begin", "clear"}
      BY <1>3, RunDueMoves DEF Moves
    <2> QED
      BY <1>3, <2>1 DEF RunDue, history
  <1>4. CASE BeginBatch(h) \/ ExecuteAndRead(h)
    BY <1>4 DEF BeginBatch, ExecuteAndRead, store, history
  <1>5. CASE ReportReads(h) \/ SendMail(h) \/ MarkReported(h) \/ Release(h) \/ PassFails(h)
    <2>1. proc'[h].pc \in {"send", "sent", "release", "wait"}
      BY <1>5, ReportMoves, TailMoves DEF Moves
    <2> QED
      BY <1>5, <2>1 DEF ReportReads, SendMail, MarkReported, Release, PassFails, store, history
  <1> QED
    BY <1>1, <1>2, <1>3, <1>4, <1>5 DEF Steps, Loop

(* The actions that write rows, on one row.  A save is lost when the row   *)
(* it read has come or gone meanwhile.                                     *)
LEMMA RowWritten ==
    ASSUME TypeInv, NEW h \in Holder, NEW k \in Key
    PROVE  /\ ClearDomains(h) \/ EndBatch(h) => \/ rows'[k] = rows[k] /\ streak'[k] = streak[k]
                                                \/ rows'[k] = NoRow /\ streak'[k] = 0
           /\ SaveWrites(h) =>
                \/ /\ rows'[k] = rows[k] /\ streak'[k] = streak[k]
                   /\ job[h].prev = rows[job[h].key] => k # job[h].key
                \/ /\ k = job[h].key /\ rows'[k].status = job[h].status
                   /\ rows'[k].since = Since(job[h])
                   /\ streak'[k] = IF job[h].status \notin Failing THEN 0
                                   ELSE IF streak[k] = 0 THEN job[h].ranAt ELSE streak[k]
  <1>1. ASSUME ClearDomains(h)
        PROVE  \/ rows'[k] = rows[k] /\ streak'[k] = streak[k]
               \/ rows'[k] = NoRow /\ streak'[k] = 0
    BY <1>1 DEF ClearDomains
  <1>2. ASSUME EndBatch(h)
        PROVE  \/ rows'[k] = rows[k] /\ streak'[k] = streak[k]
               \/ rows'[k] = NoRow /\ streak'[k] = 0
    <2> DEFINE gone == IF job[h].prune THEN Key \ job[h].keep ELSE {}
    <2>1. /\ rows' = [x \in Key |-> IF x \in gone THEN NoRow ELSE rows[x]]
          /\ streak' = [x \in Key |-> IF x \in gone THEN 0 ELSE streak[x]]
      BY <1>2, Zenon DEF EndBatch
    <2> HIDE DEF gone
    <2> QED
      BY <2>1
  <1>3. ASSUME SaveWrites(h)
        PROVE  \/ /\ rows'[k] = rows[k] /\ streak'[k] = streak[k]
                  /\ job[h].prev = rows[job[h].key] => k # job[h].key
               \/ /\ k = job[h].key /\ rows'[k].status = job[h].status
                  /\ rows'[k].since = Since(job[h])
                  /\ streak'[k] = IF job[h].status \notin Failing THEN 0
                                  ELSE IF streak[k] = 0 THEN job[h].ranAt ELSE streak[k]
    <2> DEFINE j == job[h]
               lost == (j.prev = NoRow) # (rows[j.key] = NoRow)
               row == [status |-> j.status, ranAt |-> j.ranAt, since |-> Since(j)]
               new == IF j.status \notin Failing THEN 0
                      ELSE IF streak[j.key] = 0 THEN j.ranAt ELSE streak[j.key]
    <2>1. CASE lost
      <3>1. UNCHANGED <<rows, streak>>
        BY <1>3, <2>1, Zenon DEF SaveWrites
      <3>2. j.prev # rows[j.key]
        BY <2>1
      <3> QED
        BY <3>1, <3>2
    <2>2. CASE ~lost
      <3>1. rows' = [rows EXCEPT ![j.key] = row] /\ streak' = [streak EXCEPT ![j.key] = new]
        BY <1>3, <2>2 DEF SaveWrites
      <3>2. row.status = j.status /\ row.since = Since(j)
        OBVIOUS
      <3> HIDE DEF row, new, lost
      <3>3. CASE k # j.key
        <4>1. rows'[k] = rows[k] /\ streak'[k] = streak[k]
          BY <3>1, <3>3 DEF TypeInv
        <4> QED
          BY <3>3, <4>1
      <3>4. CASE k = j.key
        <4>1. rows'[k] = row /\ streak'[k] = new
          BY <3>1, <3>4 DEF TypeInv
        <4> QED
          BY <3>2, <3>4, <4>1 DEF new
      <3> QED
        BY <3>3, <3>4
    <2> QED
      BY <2>1, <2>2
  <1> QED
    BY <1>1, <1>2, <1>3

(* No step leaves an onset in a row that does not fail. *)
LEMMA RowsStep ==
    ASSUME TypeInv, LoopInv, RowsInv, Next
    PROVE  RowsInv'
  <1>1. CASE Tick \/ Configure
    BY <1>1 DEF Tick, Configure, RowsInv, store
  <1>2. SUFFICES ASSUME NEW h \in Holder, Steps(h)
                 PROVE  RowsInv'
    BY <1>1 DEF Next, Steps
  <1>3. CASE ~ClearDomains(h) /\ ~SaveWrites(h) /\ ~EndBatch(h)
    BY <1>2, <1>3, RowsKept DEF RowsInv
  <1>4. CASE ClearDomains(h) \/ SaveWrites(h) \/ EndBatch(h)
    <2>1. SUFFICES ASSUME NEW k \in Key, rows'[k].status \notin Failing
                   PROVE  rows'[k].since = 0
      BY DEF RowsInv
    <2>2. CASE rows'[k] = rows[k]
      BY <2>1, <2>2 DEF RowsInv
    <2>3. CASE rows'[k] = NoRow
      BY <2>3 DEF NoRow
    <2>4. CASE rows'[k].status = job[h].status /\ rows'[k].since = Since(job[h])
      BY <2>1, <2>4 DEF Since
    <2> QED
      BY <1>4, <2>2, <2>3, <2>4, RowWritten
  <1> QED
    BY <1>3, <1>4

(* Who starts a batch is alone with it, or the history says so. *)
LEMMA StartsAlone ==
    ASSUME LoopInv, LeaseInv, ~lapsed, NEW h \in Holder, ClearDomains(h) \/ BeginBatch(h), ~crossed',
           NEW g \in Holder, Saving(g)
    PROVE  g = h
  <1>1. ~Crosses(h)
    BY DEF ClearDomains, BeginBatch
  <1>2. CASE g # h
    <2>1. job[g].kind # "manual" /\ job[h].kind # "manual"
      BY <1>1, <1>2 DEF Crosses
    <2>2. InPass(g) /\ InPass(h)
      BY <2>1 DEF InPass, Saving, Passing, ClearDomains, BeginBatch, At
    <2> QED
      BY <2>2, OnePass
  <1> QED
    BY <1>2

(* Any step keeps the saves apart, or says they have crossed. *)
LEMMA SaveStep ==
    ASSUME TypeInv, LoopInv, LeaseInv, RowsInv, SaveInv, Next
    PROVE  SaveInv'
  <1>0. CASE Tick \/ Configure
    <2>1. UNCHANGED <<proc, job, rows, streak, crossed>> /\ (lapsed => lapsed')
      BY <1>0 DEF Tick, Configure, store, history
    <2> QED
      BY <2>1 DEF SaveInv, Saving, At
  <1>1. SUFFICES ASSUME NEW h \in Holder, Steps(h), ~lapsed', ~crossed'
                 PROVE  SaveInv'
    BY <1>0 DEF Next, Steps, SaveInv
  <1>2. /\ ~lapsed
        /\ \A g \in Holder : g # h => proc'[g] = proc[g] /\ job'[g] = job[g]
    BY <1>1, LeaseMoves, OthersKept
  <1>3. ~crossed
    <2>1. CASE ClearDomains(h) \/ BeginBatch(h)
      BY <1>1, <2>1 DEF ClearDomains, BeginBatch
    <2>2. CASE SaveWrites(h) \/ EndBatch(h) \/ ExecuteAndRead(h)
      BY <1>1, <2>2 DEF SaveWrites, EndBatch, ExecuteAndRead, history
    <2> QED
      BY <1>1, <2>1, <2>2, RowsKept
  <1>4. /\ \A f, g \in Holder : Saving(f) /\ Saving(g) => f = g
        /\ \A g \in Holder : At(g, "write") => job[g].prev = rows[job[g].key]
        /\ \A k \in Key : rows[k].since = streak[k]
    BY <1>2, <1>3 DEF SaveInv
  <1>5. ASSUME \A g \in Holder : Saving(g) => g = h, proc'[h].pc = "next" \/ ~Saving(h)',
               \A k \in Key : rows'[k].since = streak'[k]
        PROVE  SaveInv'
    <2>1. \A g \in Holder : Saving(g)' => g = h
      BY <1>2, <1>5 DEF Saving
    <2>2. \A g \in Holder : ~At(g, "write")'
      BY <1>2, <1>5, <2>1 DEF Saving, At
    <2> QED
      BY <1>5, <2>1, <2>2 DEF SaveInv
  <1>6. CASE ClearDomains(h)
    <2>1. \A g \in Holder : Saving(g) => g = h
      BY <1>1, <1>2, <1>6, StartsAlone
    <2>2. \A k \in Key : rows'[k].since = streak'[k]
      BY <1>4, <1>6, RowWritten DEF NoRow
    <2>3. proc'[h].pc = "next"
      BY <1>6, BeginMoves DEF Moves
    <2> QED
      BY <1>5, <2>1, <2>2, <2>3
  <1>7. CASE BeginBatch(h)
    <2>1. \A g \in Holder : Saving(g) => g = h
      BY <1>1, <1>2, <1>7, StartsAlone
    <2>2. \A k \in Key : rows'[k].since = streak'[k]
      BY <1>4, <1>7 DEF BeginBatch, store
    <2>3. proc'[h].pc = "next"
      BY <1>7, BeginMoves DEF Moves
    <2> QED
      BY <1>5, <2>1, <2>2, <2>3
  <1>8. CASE EndBatch(h)
    <2>1. \A g \in Holder : Saving(g) => g = h
      BY <1>4, <1>8 DEF EndBatch, Saving, At
    <2>2. \A k \in Key : rows'[k].since = streak'[k]
      BY <1>4, <1>8, RowWritten DEF NoRow
    <2>3. ~Saving(h)'
      BY <1>8, EndMoves DEF Moves, Saving
    <2> QED
      BY <1>5, <2>1, <2>2, <2>3
  <1>9. CASE SaveWrites(h)
    <2>1. \A g \in Holder : Saving(g) => g = h
      BY <1>4, <1>9 DEF SaveWrites, Saving, At
    <2>2. job[h].prev = rows[job[h].key]
      BY <1>4, <1>9 DEF SaveWrites
    <2>3. ASSUME NEW k \in Key
          PROVE  rows'[k].since = streak'[k]
      <3>1. CASE rows'[k] = rows[k] /\ streak'[k] = streak[k]
        BY <1>4, <3>1
      <3>2. CASE /\ k = job[h].key /\ rows'[k].since = Since(job[h])
                 /\ streak'[k] = IF job[h].status \notin Failing THEN 0
                                 ELSE IF streak[k] = 0 THEN job[h].ranAt ELSE streak[k]
        <4>1. rows[k].since = streak[k] /\ (rows[k].status \notin Failing => rows[k].since = 0)
          BY <1>4 DEF RowsInv
        <4>2. Since(job[h]) = IF job[h].status \notin Failing THEN 0
                              ELSE IF rows[k].since # 0 /\ rows[k].status \in Failing THEN rows[k].since
                              ELSE job[h].ranAt
          BY <2>2, <3>2 DEF Since
        <4> QED
          BY <3>2, <4>1, <4>2
      <3> QED
        BY <1>9, <3>1, <3>2, RowWritten
    <2>4. proc'[h].pc = "next"
      BY <1>9, SaveMoves DEF Moves
    <2> QED
      BY <1>5, <2>1, <2>3, <2>4
  <1>10. CASE ExecuteAndRead(h)
    <2>1. UNCHANGED <<rows, streak>> /\ proc[h].pc = "next"
      BY <1>10 DEF ExecuteAndRead, store, history, At
    <2>2. proc'[h].pc = "write" /\ job'[h].prev = rows[job'[h].key]
      BY <1>10, ExecuteMoves DEF Moves, Takes
    <2>3. \A g \in Holder : Saving(g)' => Saving(g)
      BY <1>2, <2>1, <2>2 DEF Saving
    <2>4. \A g \in Holder : At(g, "write")' => job'[g].prev = rows'[job'[g].key]
      BY <1>2, <1>4, <2>1, <2>2 DEF At
    <2> QED
      BY <1>4, <2>1, <2>3, <2>4 DEF SaveInv
  <1>11. CASE ~ClearDomains(h) /\ ~SaveWrites(h) /\ ~EndBatch(h) /\ ~BeginBatch(h) /\ ~ExecuteAndRead(h)
    <2>1. /\ UNCHANGED <<rows, streak>>
          /\ (proc'[h].pc = proc[h].pc /\ job' = job) \/ proc'[h].pc \notin {"next", "write"}
      BY <1>1, <1>11, RowsKept
    <2>2. \A g \in Holder : Saving(g)' => Saving(g)
      BY <1>2, <2>1 DEF Saving
    <2>3. \A g \in Holder : At(g, "write")' => At(g, "write") /\ job'[g] = job[g]
      BY <1>2, <2>1 DEF At
    <2> QED
      BY <1>4, <2>1, <2>2, <2>3 DEF SaveInv
  <1> QED
    BY <1>6, <1>7, <1>8, <1>9, <1>10, <1>11

-----------------------------------------------------------------------------

(* The invariant holds when all processes are down. *)
LEMMA InvInit == Init => IInv
  <1> SUFFICES ASSUME Init
               PROVE  IInv
    OBVIOUS
  <1>1. TypeInv
    <2>1. lease \in LeaseRow
      BY DEF Init, UnclaimedLease, LeaseRow
    <2>2. now \in Time /\ reported \in Time /\ mailed \in [count : Nat, at : Time]
      BY Bounds DEF Init
    <2>3. rows \in [Key -> Row] /\ streak \in [Key -> Time]
      BY Bounds, Empty DEF Init
    <2>4. proc \in [Holder -> Procs] /\ job \in [Holder -> Jobs]
      BY Empty DEF Init
    <2> QED
      BY <2>1, <2>2, <2>3, <2>4 DEF Init, TypeInv
  <1>2. \A h \in Holder : proc[h] = Down /\ job[h] = NoJob
    BY DEF Init
  <1>3. LoopInv
    <2>1. Units(NoJob) = 0 /\ Len(<<>>) = 0
      BY Empty DEF Units
    <2> QED
      <3>1. InHand(Down, NoJob)
        BY Empty DEF InHand
      <3>2. Counted(Down, NoJob)
        <4>1. Down.busy = Len(Down.pending) + Units(NoJob) /\ Len(Down.pending) <= 1
          BY <2>1, Empty
        <4> QED
          BY <4>1, Empty, Zenon DEF Counted
      <3> QED
        BY <1>2, <3>1, <3>2 DEF LoopInv
  <1>4. LeaseInv /\ DigestInv
    BY <1>2, Empty DEF LeaseInv, DigestInv, InPass, Passing, At, Init
  <1>5. TimesInv
    BY <1>2, Empty DEF TimesInv, Init
  <1>6. RowsInv /\ SaveInv
    <2>1. \A k \in Key : rows[k].since = 0 /\ streak[k] = 0
      BY DEF Init, NoRow
    <2>2. \A h \in Holder : ~Saving(h) /\ ~At(h, "write")
      BY <1>2, Empty DEF Saving, At
    <2> QED
      BY <2>1, <2>2 DEF RowsInv, SaveInv
  <1> QED
    BY <1>1, <1>3, <1>4, <1>5, <1>6 DEF IInv

(* Every step preserves the invariant. *)
LEMMA InvStep == IInv /\ [Next]_vars => IInv'
  <1>1. ASSUME IInv, Next
        PROVE  IInv'
    BY <1>1, TypesStep, LoopStep, LeaseStep, TimesStep, DigestStep, RowsStep, SaveStep DEF IInv
  <1>2. ASSUME IInv, UNCHANGED vars
        PROVE  IInv'
    BY <1>2 DEF IInv, vars, TypeInv, LoopInv, LeaseInv, TimesInv, DigestInv, RowsInv, SaveInv,
                InPass, Saving, At
  <1> QED
    BY <1>1, <1>2

(* The invariant holds throughout. *)
LEMMA Invariance == Spec => []IInv
  BY InvInit, InvStep, PTL DEF Spec

(* Every variable of the engines keeps its type. *)
THEOREM TypesCorrect == Spec => []TypeOK
  <1>1. IInv => TypeOK
    BY DEF IInv, TypeInv, TypeOK, Procs, Jobs
  <1> QED
    BY <1>1, Invariance, PTL

(* However requests, passes, stops and ticks interleave, busy counts the   *)
(* queued request and the job in hand, at most one request is queued, and  *)
(* the loop is on its way to it.                                           *)
THEOREM RunsSafe == Spec => []RunsAccountedFor
  <1>1. IInv => RunsAccountedFor
    BY DEF IInv, LoopInv, Counted, Units, RunsAccountedFor, At
  <1> QED
    BY <1>1, Invariance, PTL

(* While no pass outlives its lease and no manual run overlaps, the onset  *)
(* stored in every row is that of the failing results saved since.         *)
THEOREM OnsetsSafe == Spec => []OnsetsKept
  <1>1. IInv => OnsetsKept
    BY DEF IInv, SaveInv, OnsetsKept
  <1> QED
    BY <1>1, Invariance, PTL

(* Two digests are an interval apart whatever process sends them, unless   *)
(* one went unrecorded or a pass outlived its lease.                       *)
THEOREM DigestsSafe == Spec => DigestsSpaced
  <1>1. ASSUME IInv, Next, mailed' # mailed, ~lapsed, ~unmarked
        PROVE  mailed.count = 0 \/ mailed'.at - mailed.at >= ReportEvery
    <2>0. TypeInv /\ LoopInv /\ LeaseInv /\ DigestInv
      BY <1>1 DEF IInv
    <2>1. PICK h \in Holder : SendMail(h)
      <3>1. ~Tick /\ ~Configure
        BY <1>1 DEF Tick, Configure, history
      <3>2. PICK h \in Holder : Steps(h)
        BY <1>1, <3>1 DEF Next, Steps
      <3>3. ~MarkReported(h) /\ ~ReportReads(h)
        BY <1>1 DEF MarkReported, ReportReads, history
      <3> QED
        BY <1>1, <2>0, <3>2, <3>3, QuietSteps
    <2>2. InPass(h) /\ At(h, "send") /\ mailed'.at = job[h].ranAt
      BY <2>0, <2>1, Reporting DEF SendMail, At
    <2>3. \A g \in Holder : ~At(g, "sent")
      BY <1>1, <2>0, <2>2, Reporting, OnePass DEF At
    <2>4. mailed.count = 0 \/ mailed.at <= reported
      BY <1>1, <2>0, <2>3 DEF DigestInv
    <2>5. job[h].ranAt - reported >= ReportEvery
      BY <1>1, <2>0, <2>2 DEF DigestInv
    <2>6. job[h].ranAt \in Nat /\ reported \in Nat /\ mailed.at \in Nat /\ ReportEvery \in Nat
      BY <2>0, Bounds DEF TypeInv, Jobs
    <2> QED
      BY <2>2, <2>4, <2>5, <2>6
  <1>2. IInv /\ [Next]_vars => [mailed' # mailed => \/ mailed.count = 0
                                                   \/ mailed'.at - mailed.at >= ReportEvery
                                                   \/ lapsed \/ unmarked]_vars
    BY <1>1
  <1> QED
    BY <1>2, Invariance, PTL DEF Spec, DigestsSpaced

-----------------------------------------------------------------------------
USE RebuilderAssumption

(* The reading of a run is bracketed by what its replica has built and     *)
(* what the store holds; outside a run there is no reading.                *)
ReadingInv ==
    \A r \in Replica :
        /\ own[r] <= version /\ built[r] <= version
        /\ seen[r] # Nothing => /\ loop[r].doing /\ loop[r].up
                                /\ built[r] <= seen[r] /\ seen[r] <= version
        /\ loop[r].doing => loop[r].up

PromiseInv == RebuilderTypeOK /\ ReadingInv /\ NoForgottenChange

(* The loop's record operators, one by one. *)
LEMMA LoopOps ==
    ASSUME NEW l \in LoopState
    PROVE  /\ LoopDown \in LoopState /\ LoopBooted \in LoopState
           /\ ~LoopDown.up /\ ~LoopDown.doing
           /\ LoopBooted.up /\ LoopBooted.kick /\ ~LoopBooted.doing
           /\ Kicked(l) \in LoopState /\ Kicked(l).up = l.up
           /\ Kicked(l).doing = l.doing /\ Kicked(l).retries = l.retries
           /\ l.up => Kicked(l).kick
           /\ Taken(l) \in LoopState /\ Taken(l).up = l.up /\ Taken(l).doing
           /\ Finished(l) \in LoopState /\ Finished(l).up = l.up /\ ~Finished(l).doing
           /\ Finished(l).kick = l.kick /\ Finished(l).retries = l.retries
           /\ Failed(l) \in LoopState /\ Failed(l).up = l.up /\ ~Failed(l).doing
           /\ Failed(l).retries > 0
           /\ l.retries > 0 => RetryFired(l) \in LoopState
           /\ RetryFired(l).kick /\ RetryFired(l).up = l.up
           /\ RetryFired(l).doing = l.doing
  <1> USE DEF LoopState
  <1>1. /\ LoopDown \in LoopState /\ LoopBooted \in LoopState
        /\ ~LoopDown.up /\ ~LoopDown.doing
        /\ LoopBooted.up /\ LoopBooted.kick /\ ~LoopBooted.doing
    BY DEF LoopDown, LoopBooted
  <1>2. /\ Kicked(l) \in LoopState /\ Kicked(l).up = l.up
        /\ Kicked(l).doing = l.doing /\ Kicked(l).retries = l.retries
        /\ l.up => Kicked(l).kick
    <2>1. CASE l.up
      BY <2>1 DEF Kicked
    <2>2. CASE ~l.up
      BY <2>2 DEF Kicked
    <2> QED
      BY <2>1, <2>2
  <1>3. Taken(l) \in LoopState /\ Taken(l).up = l.up /\ Taken(l).doing
    BY DEF Taken
  <1>4. /\ Finished(l) \in LoopState /\ Finished(l).up = l.up /\ ~Finished(l).doing
        /\ Finished(l).kick = l.kick /\ Finished(l).retries = l.retries
    BY DEF Finished
  <1>5. /\ Failed(l) \in LoopState /\ Failed(l).up = l.up /\ ~Failed(l).doing
        /\ Failed(l).retries > 0
    <2>a. /\ l.up \in BOOLEAN /\ l.kick \in BOOLEAN /\ l.retries \in Nat
      OBVIOUS
    <2>b. l.retries + 1 \in Nat
      BY <2>a
    <2>1. Failed(l) \in LoopState
      BY <2>a, <2>b, SMT DEF Failed
    <2>2. Failed(l).up = l.up
      BY DEF Failed
    <2>3. ~Failed(l).doing
      BY DEF Failed
    <2>4. Failed(l).retries > 0
      <3>1. Failed(l).retries = l.retries + 1
        BY DEF Failed
      <3>2. l.retries \in Nat
        OBVIOUS
      <3> QED
        BY <3>1, <3>2
    <2> HIDE DEF LoopState
    <2> QED
      BY <2>1, <2>2, <2>3, <2>4, Zenon
  <1>6. /\ l.retries > 0 => RetryFired(l) \in LoopState
        /\ RetryFired(l).kick /\ RetryFired(l).up = l.up
        /\ RetryFired(l).doing = l.doing
    <2>a. l.up \in BOOLEAN /\ l.doing \in BOOLEAN /\ l.retries \in Nat
      OBVIOUS
    <2>b. l.retries > 0 => l.retries - 1 \in Nat
      BY <2>a
    <2>1. l.retries > 0 => RetryFired(l) \in LoopState
      BY <2>a, <2>b, SMT DEF RetryFired
    <2>2. RetryFired(l).kick
      BY DEF RetryFired
    <2>3. RetryFired(l).up = l.up
      BY DEF RetryFired
    <2>4. RetryFired(l).doing = l.doing
      BY DEF RetryFired
    <2> HIDE DEF LoopState
    <2> QED
      BY <2>1, <2>2, <2>3, <2>4, Zenon
  <1> HIDE DEF LoopState
  <1> QED
    BY <1>1, <1>2, <1>3, <1>4, <1>5, <1>6, Zenon

(* Every action keeps the invariant. *)
LEMMA PromiseStep == PromiseInv /\ [RebuilderNext]_rebuilderVars => PromiseInv'
  <1> SUFFICES ASSUME PromiseInv, [RebuilderNext]_rebuilderVars
               PROVE  PromiseInv'
    OBVIOUS
  <1> USE DEF PromiseInv, RebuilderTypeOK, ReadingInv, NoForgottenChange, Nothing
  <1>1. ASSUME NEW r \in Replica, Boot(r)
        PROVE  PromiseInv'
    BY <1>1, LoopOps DEF Boot
  <1>2. ASSUME NEW r \in Replica, Crash(r)
        PROVE  PromiseInv'
    BY <1>2, LoopOps DEF Crash
  <1>3. ASSUME NEW r \in Replica, Commit(r)
        PROVE  PromiseInv'
    BY <1>3 DEF Commit
  <1>4. ASSUME NEW r \in Replica, Notify(r)
        PROVE  PromiseInv'
    BY <1>4, LoopOps DEF Notify
  <1>5. ASSUME NEW r \in Replica, TickFires(r)
        PROVE  PromiseInv'
    BY <1>5, LoopOps DEF TickFires
  <1>6. ASSUME NEW r \in Replica, RetryFires(r)
        PROVE  PromiseInv'
    BY <1>6, LoopOps DEF RetryFires
  <1>7. ASSUME NEW r \in Replica, TakeKick(r)
        PROVE  PromiseInv'
    BY <1>7, LoopOps DEF TakeKick, CanTake
  <1>8. ASSUME NEW r \in Replica, DoReads(r)
        PROVE  PromiseInv'
    BY <1>8 DEF DoReads
  <1>9. ASSUME NEW r \in Replica, DoSucceeds(r)
        PROVE  PromiseInv'
    BY <1>9, LoopOps DEF DoSucceeds
  <1>10. ASSUME NEW r \in Replica, DoFails(r)
         PROVE  PromiseInv'
    BY <1>10, LoopOps DEF DoFails
  <1>11. CASE UNCHANGED rebuilderVars
    BY <1>11 DEF rebuilderVars
  <1> QED
    BY <1>1, <1>2, <1>3, <1>4, <1>5, <1>6, <1>7, <1>8, <1>9, <1>10, <1>11 DEF RebuilderNext, Do

(* It holds before any replica has booted. *)
LEMMA PromiseStart == RebuilderInit => PromiseInv
  BY LoopOps DEF RebuilderInit, PromiseInv, RebuilderTypeOK, ReadingInv, NoForgottenChange, Nothing, LoopDown,
                 LoopState

(* A change is never forgotten by the loop of the process that made it     *)
(* (NoForgottenChange), whatever runs fail and whichever processes stop.   *)
THEOREM NothingForgotten == RebuilderSpec => []NoForgottenChange
  <1>1. PromiseInv => NoForgottenChange
    BY DEF PromiseInv
  <1> QED
    BY <1>1, PromiseStart, PromiseStep, PTL DEF RebuilderSpec

(* Built versions only grow (NeverBuildsBackwards). *)
THEOREM BuildsForward == RebuilderSpec => NeverBuildsBackwards
  <1> DEFINE Forward == \A r \in Replica : built'[r] >= built[r]
  <1>1. PromiseInv /\ [RebuilderNext]_rebuilderVars => [Forward]_rebuilderVars
    <2> SUFFICES ASSUME PromiseInv, [RebuilderNext]_rebuilderVars
                 PROVE  Forward
      OBVIOUS
    <2> USE DEF PromiseInv, RebuilderTypeOK, ReadingInv
    <2>1. CASE built' = built
      BY <2>1
    <2>2. ASSUME NEW r \in Replica, DoSucceeds(r)
          PROVE  Forward
      BY <2>2 DEF DoSucceeds
    <2> QED
      BY <2>1, <2>2 DEF RebuilderNext, Do, Boot, Crash, Commit, Notify, TickFires, RetryFires,
                        TakeKick, DoReads, DoFails, rebuilderVars
  <1> QED
    BY <1>1, PromiseStart, PromiseStep, PTL DEF RebuilderSpec, NeverBuildsBackwards
=============================================================================
