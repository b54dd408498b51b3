--------------------------- MODULE DnsApplyProofs ---------------------------
(***************************************************************************)
(* Proofs about the DNS applier, for any zones, contents and lengths of    *)
(* signatures, and any number of days, commits, failures and crashes, on a *)
(* box with one managerd.                                                  *)
(***************************************************************************)
EXTENDS DnsApply, TLAPS

(* The loop's record operators, one by one. *)
LEMMA LoopOps ==
    ASSUME NEW l \in LoopState
    PROVE  /\ LoopDown \in LoopState /\ LoopBooted \in LoopState
           /\ ~LoopDown.up /\ ~LoopDown.doing
           /\ LoopBooted.up /\ LoopBooted.kick /\ ~LoopBooted.doing
           /\ Kicked(l) \in LoopState /\ Kicked(l).up = l.up
           /\ Kicked(l).doing = l.doing /\ Kicked(l).retries = l.retries
           /\ l.up => Kicked(l).kick
           /\ Taken(l) \in LoopState /\ Taken(l).up = l.up /\ Taken(l).doing
           /\ Finished(l) \in LoopState /\ Finished(l).up = l.up /\ ~Finished(l).doing
           /\ Finished(l).kick = l.kick /\ Finished(l).retries = l.retries
           /\ Failed(l) \in LoopState /\ Failed(l).up = l.up /\ ~Failed(l).doing
           /\ Failed(l).retries > 0
           /\ l.retries > 0 => RetryFired(l) \in LoopState
           /\ RetryFired(l).kick /\ RetryFired(l).up = l.up
           /\ RetryFired(l).doing = l.doing
  <1> USE DEF LoopState
  <1>1. /\ LoopDown \in LoopState /\ LoopBooted \in LoopState
        /\ ~LoopDown.up /\ ~LoopDown.doing
        /\ LoopBooted.up /\ LoopBooted.kick /\ ~LoopBooted.doing
    BY DEF LoopDown, LoopBooted
  <1>2. /\ Kicked(l) \in LoopState /\ Kicked(l).up = l.up
        /\ Kicked(l).doing = l.doing /\ Kicked(l).retries = l.retries
        /\ l.up => Kicked(l).kick
    <2>1. CASE l.up
      BY <2>1 DEF Kicked
    <2>2. CASE ~l.up
      BY <2>2 DEF Kicked
    <2> QED
      BY <2>1, <2>2
  <1>3. Taken(l) \in LoopState /\ Taken(l).up = l.up /\ Taken(l).doing
    BY DEF Taken
  <1>4. /\ Finished(l) \in LoopState /\ Finished(l).up = l.up /\ ~Finished(l).doing
        /\ Finished(l).kick = l.kick /\ Finished(l).retries = l.retries
    BY DEF Finished
  <1>5. /\ Failed(l) \in LoopState /\ Failed(l).up = l.up /\ ~Failed(l).doing
        /\ Failed(l).retries > 0
    <2>a. /\ l.up \in BOOLEAN /\ l.kick \in BOOLEAN /\ l.retries \in Nat
      OBVIOUS
    <2>b. l.retries + 1 \in Nat
      BY <2>a
    <2>1. Failed(l) \in LoopState
      BY <2>a, <2>b, SMT DEF Failed
    <2>2. Failed(l).up = l.up
      BY DEF Failed
    <2>3. ~Failed(l).doing
      BY DEF Failed
    <2>4. Failed(l).retries > 0
      <3>1. Failed(l).retries = l.retries + 1
        BY DEF Failed
      <3>2. l.retries \in Nat
        OBVIOUS
      <3> QED
        BY <3>1, <3>2
    <2> HIDE DEF LoopState
    <2> QED
      BY <2>1, <2>2, <2>3, <2>4, Zenon
  <1>6. /\ l.retries > 0 => RetryFired(l) \in LoopState
        /\ RetryFired(l).kick /\ RetryFired(l).up = l.up
        /\ RetryFired(l).doing = l.doing
    <2>a. l.up \in BOOLEAN /\ l.doing \in BOOLEAN /\ l.retries \in Nat
      OBVIOUS
    <2>b. l.retries > 0 => l.retries - 1 \in Nat
      BY <2>a
    <2>1. l.retries > 0 => RetryFired(l) \in LoopState
      BY <2>a, <2>b, SMT DEF RetryFired
    <2>2. RetryFired(l).kick
      BY DEF RetryFired
    <2>3. RetryFired(l).up = l.up
      BY DEF RetryFired
    <2>4. RetryFired(l).doing = l.doing
      BY DEF RetryFired
    <2> HIDE DEF LoopState
    <2> QED
      BY <2>1, <2>2, <2>3, <2>4, Zenon
  <1> HIDE DEF LoopState
  <1> QED
    BY <1>1, <1>2, <1>3, <1>4, <1>5, <1>6, Zenon

-----------------------------------------------------------------------------
USE DnsApplyAssumption

(* One managerd: replicas share the rows, and not the zone files. *)
OneManagerd == \A r, s \in Replica : r = s

Job == [pc : {"load", "zones", "write", "save", "nsd", "unbound", "dkim", "opendkim"},
        input : [Zone -> Value \cup {0}], sec : Value \cup {0},
        left : SUBSET Zone, zone : SUBSET Zone, serial : Nat, changed : BOOLEAN]

(* TypeOK, with the fields of a job and the counters. *)
TypeInv ==
    /\ TypeOK
    /\ job \in [Replica -> Job]
    /\ changes \in Nat /\ failures \in Nat /\ crashes \in Nat

(* The zone file that r has written and whose row it has not saved. *)
Between(r, z) == job[r].pc = "save" /\ z \in job[r].zone

(* Where Rebuild is, and what it has in hand there. *)
JobInv(r) ==
    /\ loop[r].doing => loop[r].up
    /\ ~loop[r].doing => job[r] = NoJob
    /\ job[r].pc = "load" => job[r] = NoJob
    /\ IF job[r].pc \in {"write", "save"}
       THEN \E z \in job[r].left : job[r].zone = {z}
       ELSE job[r].zone = {}
    /\ job[r].pc \in {"nsd", "unbound", "dkim", "opendkim"} => job[r].left = {}
    /\ job[r].pc \in {"unbound", "dkim", "opendkim"} => ~job[r].changed

(* Row and file of a zone: the file is ahead only between the two writes,  *)
(* or after a run was cut off there; at equal serials they agree.          *)
RowInv(r) ==
    \A z \in Zone :
        /\ rows[z].serial <= served[r][z].serial
        /\ rows[z].serial = served[r][z].serial => rows[z].hash = served[r][z].hash
        /\ z \notin unsaved /\ ~Between(r, z) => rows[z].serial = served[r][z].serial
        /\ job[r].pc = "write" /\ z \in job[r].zone => job[r].serial > rows[z].serial
        /\ Between(r, z) => /\ served[r][z].serial = job[r].serial
                            /\ served[r][z].hash = job[r].input[z]
                            /\ served[r][z].serial > rows[z].serial

(* What nsd serves of a zone is its file or has a smaller serial. *)
SerialInv(r) ==
    \A z \in Zone \ unsaved :
        nsd[r].zones[z] = served[r][z] \/ nsd[r].zones[z].serial < served[r][z].serial

(* The services have loaded what is on disk, unless a reload lies ahead or *)
(* was missed.                                                             *)
LoadedInv(r) ==
    /\ <<r, "nsd">> \notin missed /\ job[r].pc # "nsd" =>
          /\ nsd[r].conf = conf[r]
          /\ ~job[r].changed => \A z \in Zone \ unsaved :
                Between(r, z) \/ nsd[r].zones[z] = served[r][z]
    /\ <<r, "opendkim">> \notin missed /\ job[r].pc # "opendkim" => opendkim[r] = tables[r]

(* What a run has done so far it has done for what it has read, which is   *)
(* the store unless there is a kick; a settled loop has done it all.       *)
CurrentInv(r) ==
    /\ job[r].pc # "load" =>
          /\ ~loop[r].kick => job[r].input = content /\ job[r].sec = secondaries
          /\ \A z \in Zone \ job[r].left :
                rows[z].hash = job[r].input[z] /\ served[r][z] # NoFile
          /\ job[r].pc \in {"nsd", "unbound", "dkim", "opendkim"} => conf[r].setting = job[r].sec
          /\ job[r].pc = "opendkim" => \A z \in MailZone : tables[r][z] = job[r].input[z]
    /\ Settled(r) =>
          /\ conf[r].setting = secondaries
          /\ \A z \in Zone : rows[z].hash = content[z] /\ served[r][z] # NoFile
          /\ \A z \in MailZone : tables[r][z] = content[z]

(* The signatures of the files outlast the day, and by the margin once the *)
(* day's run has been over them; what nsd has loaded outlasts the day.     *)
SignedInv(r) ==
    /\ ticked[r] <= day
    /\ \A z \in SignedZone :
          /\ served[r][z] # NoFile => served[r][z].expires > day
          /\ \/ job[r].pc # "load" /\ z \notin job[r].left
             \/ Between(r, z)
             \/ Settled(r) /\ ticked[r] = day
             => served[r][z].expires >= day + Margin
          /\ z \notin unsaved /\ nsd[r].zones[z] # NoFile /\ <<r, "nsd">> \notin missed
             => nsd[r].zones[z].expires > day

Inv(r) ==
    JobInv(r) /\ RowInv(r) /\ SerialInv(r) /\ LoadedInv(r) /\ CurrentInv(r) /\ SignedInv(r)

IInv == TypeInv /\ \A r \in Replica : Inv(r)

(* A job that has not begun. *)
LEMMA NoJobFields ==
    /\ NoJob \in Job
    /\ NoJob.pc = "load" /\ NoJob.zone = {} /\ NoJob.left = {} /\ ~NoJob.changed
  <1>1. NoJob \in Job
    BY DEF NoJob, Job
  <1>2. NoJob.pc = "load" /\ NoJob.zone = {} /\ NoJob.left = {} /\ ~NoJob.changed
    BY DEF NoJob
  <1> QED
    BY <1>1, <1>2

(* No row and no file. *)
LEMMA NoFileFields ==
    /\ NoFile \in File /\ NoFile.serial = 0 /\ NoFile.hash = 0 /\ NoFile.expires = 0
    /\ NoRow \in [serial : Nat, hash : Value \cup {0}] /\ NoRow.serial = 0 /\ NoRow.hash = 0
  BY DEF NoFile, File, NoRow

(* The next serial is larger than the one in use, on any day. *)
LEMMA SerialGrows ==
    ASSUME NEW n \in Nat, NEW d \in Nat
    PROVE  NextSerial(n, d) \in Nat /\ NextSerial(n, d) > n
  <1> DEFINE today == 1 + PerDay * d
  <1>1. today \in Nat
    OBVIOUS
  <1> HIDE DEF today
  <1>2. NextSerial(n, d) = IF n >= today THEN n + 1 ELSE today
    BY Zenon DEF NextSerial, today
  <1> QED
    BY <1>1, <1>2

(* Every action keeps the types. *)
LEMMA Typing == TypeInv /\ [Next]_vars => TypeInv'
  <1> SUFFICES ASSUME TypeInv, [Next]_vars
               PROVE  TypeInv'
    OBVIOUS
  <1> USE DEF store, disk, dkim
  <1>a. loop \in [Replica -> LoopState]
    BY DEF TypeInv, TypeOK
  <1>b. ticked \in [Replica -> 0 .. MaxDay] /\ day \in 0 .. MaxDay
    BY DEF TypeInv, TypeOK
  <1>c. job \in [Replica -> Job]
    BY DEF TypeInv, TypeOK
  <1>d. missed \subseteq Replica \X {"nsd", "opendkim"} /\ unsaved \subseteq Zone
    BY DEF TypeInv, TypeOK
  <1>e. nsd \in [Replica -> [zones : [Zone -> File], conf : Conf]]
    BY DEF TypeInv, TypeOK
  <1>f. content \in [Zone -> Value] /\ secondaries \in Value
    BY DEF TypeInv, TypeOK
  <1>g. served \in [Replica -> [Zone -> File]]
    BY DEF TypeInv, TypeOK
  <1>h. rows \in [Zone -> [serial : Nat, hash : Value \cup {0}]]
    BY DEF TypeInv, TypeOK
  <1>i. conf \in [Replica -> Conf]
    BY DEF TypeInv, TypeOK
  <1>j. tables \in [Replica -> [MailZone -> Value \cup {0}]]
    BY DEF TypeInv, TypeOK
  <1>k. opendkim \in [Replica -> [MailZone -> Value \cup {0}]]
    BY DEF TypeInv, TypeOK
  <1>z. ASSUME NEW f \in [Replica -> Job]
        PROVE  \A r \in Replica :
                  /\ f[r].pc \in {"load", "zones", "write", "save", "nsd", "unbound",
                                  "dkim", "opendkim"}
                  /\ f[r].left \subseteq Zone /\ f[r].zone \subseteq Zone
                  /\ f[r].serial \in Nat
    BY <1>z DEF Job
  <1>1. CASE DayPasses
    BY <1>1 DEF DayPasses, TypeInv, TypeOK
  <1>2. ASSUME NEW r \in Replica, Boot(r)
        PROVE  TypeInv'
    <2>1. loop' \in [Replica -> LoopState]
      BY <1>2, <1>a, LoopOps DEF Boot
    <2> QED
      BY <1>2, <2>1 DEF Boot, TypeInv, TypeOK
  <1>3. ASSUME NEW r \in Replica, Crash(r)
        PROVE  TypeInv'
    <2>1. loop' \in [Replica -> LoopState]
      BY <1>3, <1>a, LoopOps DEF Crash
    <2>2. job' \in [Replica -> Job]
      BY <1>3, <1>c, NoJobFields DEF Crash
    <2>3. missed' \subseteq Replica \X {"nsd", "opendkim"} /\ unsaved' \subseteq Zone
      BY <1>3, <1>d, <1>c DEF Crash, Missed, Unsaved, Job
    <2>4. \A s \in Replica :
            /\ job'[s].pc \in {"load", "zones", "write", "save", "nsd", "unbound",
                               "dkim", "opendkim"}
            /\ job'[s].left \subseteq Zone /\ job'[s].zone \subseteq Zone
            /\ job'[s].serial \in Nat
      BY <2>2, <1>z
    <2> QED
      BY <1>3, <2>1, <2>2, <2>3, <2>4 DEF Crash, TypeInv, TypeOK
  <1>4. ASSUME NEW r \in Replica, NsdRestarts(r)
        PROVE  TypeInv'
    <2>1. nsd' \in [Replica -> [zones : [Zone -> File], conf : Conf]]
      BY <1>4, <1>e, <1>g, <1>i DEF NsdRestarts
    <2> QED
      BY <1>4, <2>1 DEF NsdRestarts, TypeInv, TypeOK
  <1>5. ASSUME NEW r \in Replica, Commit(r)
        PROVE  TypeInv'
    <2>1. loop' \in [Replica -> LoopState]
      BY <1>5, <1>a, LoopOps DEF Commit
    <2>2. content' \in [Zone -> Value] /\ secondaries' \in Value
      BY <1>5, <1>f DEF Commit
    <2> QED
      BY <1>5, <2>1, <2>2 DEF Commit, TypeInv, TypeOK
  <1>6. ASSUME NEW r \in Replica, TickFires(r)
        PROVE  TypeInv'
    <2>1. loop' \in [Replica -> LoopState]
      BY <1>6, <1>a, LoopOps DEF TickFires
    <2>2. ticked' \in [Replica -> 0 .. MaxDay] /\ day' \in 0 .. MaxDay
      BY <1>6, <1>b DEF TickFires
    <2> QED
      BY <1>6, <2>1, <2>2 DEF TickFires, TypeInv, TypeOK
  <1>7. ASSUME NEW r \in Replica, RetryFires(r)
        PROVE  TypeInv'
    <2>1. loop' \in [Replica -> LoopState]
      BY <1>7, <1>a, LoopOps DEF RetryFires
    <2> QED
      BY <1>7, <2>1 DEF RetryFires, TypeInv, TypeOK
  <1>8. ASSUME NEW r \in Replica, TakeKick(r)
        PROVE  TypeInv'
    <2>1. loop' \in [Replica -> LoopState]
      BY <1>8, <1>a, LoopOps DEF TakeKick
    <2>2. job' \in [Replica -> Job]
      BY <1>8, <1>c, NoJobFields DEF TakeKick
    <2>3. \A s \in Replica :
            /\ job'[s].pc \in {"load", "zones", "write", "save", "nsd", "unbound",
                               "dkim", "opendkim"}
            /\ job'[s].left \subseteq Zone /\ job'[s].zone \subseteq Zone
            /\ job'[s].serial \in Nat
      BY <2>2, <1>z
    <2> QED
      BY <1>8, <2>1, <2>2, <2>3 DEF TakeKick, TypeInv, TypeOK
  <1>9. ASSUME NEW r \in Replica, LoadInput(r)
        PROVE  TypeInv'
    <2>1. job' \in [Replica -> Job]
      <3>1. job[r] \in Job
        BY <1>c
      <3>2. [job[r] EXCEPT !.pc = "zones", !.input = content, !.sec = secondaries,
              !.left = Zone] \in Job
        BY <3>1, <1>f DEF Job
      <3> QED
        BY <1>9, <1>c, <3>2 DEF LoadInput
    <2>2. \A s \in Replica :
            /\ job'[s].pc \in {"load", "zones", "write", "save", "nsd", "unbound",
                               "dkim", "opendkim"}
            /\ job'[s].left \subseteq Zone /\ job'[s].zone \subseteq Zone
            /\ job'[s].serial \in Nat
      BY <2>1, <1>z
    <2> QED
      BY <1>9, <2>1, <2>2 DEF LoadInput, TypeInv, TypeOK
  <1>10. ASSUME NEW r \in Replica, NEW z \in Zone, SkipZone(r, z)
         PROVE  TypeInv'
    <2>1. job' \in [Replica -> Job]
      <3>1. job[r] \in Job
        BY <1>c
      <3>2. [job[r] EXCEPT !.left = job[r].left \ {z}] \in Job
        BY <3>1 DEF Job
      <3> QED
        BY <1>10, <1>c, <3>2 DEF SkipZone
    <2>2. \A s \in Replica :
            /\ job'[s].pc \in {"load", "zones", "write", "save", "nsd", "unbound",
                               "dkim", "opendkim"}
            /\ job'[s].left \subseteq Zone /\ job'[s].zone \subseteq Zone
            /\ job'[s].serial \in Nat
      BY <2>1, <1>z
    <2> QED
      BY <1>10, <2>1, <2>2 DEF SkipZone, TypeInv, TypeOK
  <1>11. ASSUME NEW r \in Replica, NEW z \in Zone, PickSerial(r, z)
         PROVE  TypeInv'
    <2>1. NextSerial(rows[z].serial, day) \in Nat
      <3>1. rows[z].serial \in Nat /\ day \in Nat
        BY <1>h, <1>b
      <3> QED
        BY <3>1, SerialGrows
    <2>2. job' \in [Replica -> Job]
      <3>1. job[r] \in Job
        BY <1>c
      <3>2. [job[r] EXCEPT !.pc = "write", !.zone = {z},
                         !.serial = NextSerial(rows[z].serial, day)] \in Job
        BY <3>1, <2>1 DEF Job
      <3> QED
        BY <1>11, <1>c, <3>2 DEF PickSerial
    <2>3. \A s \in Replica :
            /\ job'[s].pc \in {"load", "zones", "write", "save", "nsd", "unbound",
                               "dkim", "opendkim"}
            /\ job'[s].left \subseteq Zone /\ job'[s].zone \subseteq Zone
            /\ job'[s].serial \in Nat
      BY <2>2, <1>z
    <2> QED
      BY <1>11, <2>2, <2>3 DEF PickSerial, TypeInv, TypeOK
  <1>12. ASSUME NEW r \in Replica, NEW z \in Zone, WriteZone(r, z)
         PROVE  TypeInv'
    <2>1. served' \in [Replica -> [Zone -> File]]
      BY <1>12, <1>g, <1>c, <1>b DEF WriteZone, File, Job
    <2>2. job' \in [Replica -> Job]
      BY <1>12, <1>c DEF WriteZone, Job
    <2>3. \A s \in Replica :
            /\ job'[s].pc \in {"load", "zones", "write", "save", "nsd", "unbound",
                               "dkim", "opendkim"}
            /\ job'[s].left \subseteq Zone /\ job'[s].zone \subseteq Zone
            /\ job'[s].serial \in Nat
      BY <2>2, <1>z
    <2> QED
      BY <1>12, <2>1, <2>2, <2>3 DEF WriteZone, TypeInv, TypeOK
  <1>13. ASSUME NEW r \in Replica, NEW z \in Zone, SaveRow(r, z)
         PROVE  TypeInv'
    <2>1. rows' \in [Zone -> [serial : Nat, hash : Value \cup {0}]]
      BY <1>13, <1>h, <1>c DEF SaveRow, Job
    <2>2. job' \in [Replica -> Job]
      <3>1. job[r] \in Job
        BY <1>c
      <3>2. [job[r] EXCEPT !.pc = "zones", !.zone = {}, !.left = job[r].left \ {z},
                         !.changed = TRUE] \in Job
        BY <3>1 DEF Job
      <3> QED
        BY <1>13, <1>c, <3>2 DEF SaveRow
    <2>3. \A s \in Replica :
            /\ job'[s].pc \in {"load", "zones", "write", "save", "nsd", "unbound",
                               "dkim", "opendkim"}
            /\ job'[s].left \subseteq Zone /\ job'[s].zone \subseteq Zone
            /\ job'[s].serial \in Nat
      BY <2>2, <1>z
    <2> QED
      BY <1>13, <2>1, <2>2, <2>3 DEF SaveRow, TypeInv, TypeOK
  <1>14. ASSUME NEW r \in Replica, WriteConf(r)
         PROVE  TypeInv'
    <2>1. conf' \in [Replica -> Conf]
      <3>1. job[r].sec \in Value \cup {0}
        BY <1>c DEF Job
      <3>2. \A b \in BOOLEAN : [setting |-> job[r].sec, resolved |-> b] \in Conf
        BY <3>1 DEF Conf
      <3> QED
        BY <1>14, <1>i, <3>2 DEF WriteConf
    <2>2. job' \in [Replica -> Job]
      <3>1. job[r] \in Job
        BY <1>c
      <3>2. [job[r] EXCEPT !.pc = "nsd"] \in Job
        BY <3>1 DEF Job
      <3>3. [job[r] EXCEPT !.pc = "dkim"] \in Job
        BY <3>1 DEF Job
      <3> QED
        BY <1>14, <1>c, <3>2, <3>3 DEF WriteConf
    <2>3. \A s \in Replica :
            /\ job'[s].pc \in {"load", "zones", "write", "save", "nsd", "unbound",
                               "dkim", "opendkim"}
            /\ job'[s].left \subseteq Zone /\ job'[s].zone \subseteq Zone
            /\ job'[s].serial \in Nat
      BY <2>2, <1>z
    <2> QED
      BY <1>14, <2>1, <2>2, <2>3 DEF WriteConf, TypeInv, TypeOK
  <1>15. ASSUME NEW r \in Replica, ReloadNsd(r)
         PROVE  TypeInv'
    <2>1. nsd' \in [Replica -> [zones : [Zone -> File], conf : Conf]]
      BY <1>15, <1>e, <1>g, <1>i DEF ReloadNsd
    <2>2. job' \in [Replica -> Job]
      <3>1. job[r] \in Job
        BY <1>c
      <3>2. [job[r] EXCEPT !.pc = "unbound", !.changed = FALSE] \in Job
        BY <3>1 DEF Job
      <3> QED
        BY <1>15, <1>c, <3>2 DEF ReloadNsd
    <2>3. missed' \subseteq Replica \X {"nsd", "opendkim"} /\ unsaved' \subseteq Zone
      BY <1>15, <1>d, <1>c DEF ReloadNsd, Missed, Unsaved, Job
    <2>4. \A s \in Replica :
            /\ job'[s].pc \in {"load", "zones", "write", "save", "nsd", "unbound",
                               "dkim", "opendkim"}
            /\ job'[s].left \subseteq Zone /\ job'[s].zone \subseteq Zone
            /\ job'[s].serial \in Nat
      BY <2>2, <1>z
    <2> QED
      BY <1>15, <2>1, <2>2, <2>3, <2>4 DEF ReloadNsd, TypeInv, TypeOK
  <1>16. ASSUME NEW r \in Replica, ReloadUnbound(r)
         PROVE  TypeInv'
    <2>1. job' \in [Replica -> Job]
      BY <1>16, <1>c DEF ReloadUnbound, Job
    <2>2. \A s \in Replica :
            /\ job'[s].pc \in {"load", "zones", "write", "save", "nsd", "unbound",
                               "dkim", "opendkim"}
            /\ job'[s].left \subseteq Zone /\ job'[s].zone \subseteq Zone
            /\ job'[s].serial \in Nat
      BY <2>1, <1>z
    <2> QED
      BY <1>16, <2>1, <2>2 DEF ReloadUnbound, TypeInv, TypeOK
  <1>17. ASSUME NEW r \in Replica, WriteDkim(r)
         PROVE  TypeInv'
    <2>1. tables' \in [Replica -> [MailZone -> Value \cup {0}]]
      BY <1>17, <1>j, <1>c DEF WriteDkim, Job
    <2>2. loop' \in [Replica -> LoopState]
      <3>1. loop' = loop \/ loop' = [loop EXCEPT ![r] = Finished(loop[r])]
        BY <1>17 DEF WriteDkim
      <3> QED
        BY <3>1, <1>a, LoopOps
    <2>3. job' \in [Replica -> Job]
      <3>1. \/ job' = [job EXCEPT ![r] = [job[r] EXCEPT !.pc = "opendkim"]]
            \/ job' = [job EXCEPT ![r] = NoJob]
        BY <1>17 DEF WriteDkim
      <3>2. job[r] \in Job
        BY <1>c
      <3>3. [job[r] EXCEPT !.pc = "opendkim"] \in Job
        BY <3>2 DEF Job
      <3> QED
        BY <3>1, <3>3, <1>c, NoJobFields
    <2>4. \A s \in Replica :
            /\ job'[s].pc \in {"load", "zones", "write", "save", "nsd", "unbound",
                               "dkim", "opendkim"}
            /\ job'[s].left \subseteq Zone /\ job'[s].zone \subseteq Zone
            /\ job'[s].serial \in Nat
      BY <2>3, <1>z
    <2> QED
      BY <1>17, <2>1, <2>2, <2>3, <2>4 DEF WriteDkim, TypeInv, TypeOK
  <1>18. ASSUME NEW r \in Replica, ReloadOpendkim(r)
         PROVE  TypeInv'
    <2>1. opendkim' \in [Replica -> [MailZone -> Value \cup {0}]]
      BY <1>18, <1>k, <1>j DEF ReloadOpendkim
    <2>2. loop' \in [Replica -> LoopState]
      BY <1>18, <1>a, LoopOps DEF ReloadOpendkim
    <2>3. job' \in [Replica -> Job]
      BY <1>18, <1>c, NoJobFields DEF ReloadOpendkim
    <2>4. missed' \subseteq Replica \X {"nsd", "opendkim"} /\ unsaved' \subseteq Zone
      BY <1>18, <1>d, <1>c DEF ReloadOpendkim, Missed, Unsaved, Job
    <2>5. \A s \in Replica :
            /\ job'[s].pc \in {"load", "zones", "write", "save", "nsd", "unbound",
                               "dkim", "opendkim"}
            /\ job'[s].left \subseteq Zone /\ job'[s].zone \subseteq Zone
            /\ job'[s].serial \in Nat
      BY <2>3, <1>z
    <2> QED
      BY <1>18, <2>1, <2>2, <2>3, <2>4, <2>5 DEF ReloadOpendkim, TypeInv, TypeOK
  <1>19. ASSUME NEW r \in Replica, RunFails(r)
         PROVE  TypeInv'
    <2>1. loop' \in [Replica -> LoopState]
      BY <1>19, <1>a, LoopOps DEF RunFails
    <2>2. job' \in [Replica -> Job]
      BY <1>19, <1>c, NoJobFields DEF RunFails
    <2>3. missed' \subseteq Replica \X {"nsd", "opendkim"} /\ unsaved' \subseteq Zone
      BY <1>19, <1>d, <1>c DEF RunFails, Missed, Unsaved, Job
    <2>4. \A s \in Replica :
            /\ job'[s].pc \in {"load", "zones", "write", "save", "nsd", "unbound",
                               "dkim", "opendkim"}
            /\ job'[s].left \subseteq Zone /\ job'[s].zone \subseteq Zone
            /\ job'[s].serial \in Nat
      BY <2>2, <1>z
    <2> QED
      BY <1>19, <2>1, <2>2, <2>3, <2>4 DEF RunFails, TypeInv, TypeOK
  <1>20. CASE UNCHANGED vars
    BY <1>20 DEF vars, TypeInv, TypeOK
  <1> QED
    BY <1>1, <1>2, <1>3, <1>4, <1>5, <1>6, <1>7, <1>8, <1>9, <1>10, <1>11, <1>12, <1>13, <1>14,
       <1>15, <1>16, <1>17, <1>18, <1>19, <1>20 DEF Next, Work

(* What TypeInv says of one replica. *)
LEMMA Typed ==
    ASSUME TypeInv, NEW r \in Replica
    PROVE  /\ loop[r] \in LoopState /\ job[r] \in Job /\ ticked[r] \in Nat
           /\ day \in Nat /\ conf[r] \in Conf
           /\ \A z \in Zone : /\ rows[z].serial \in Nat
                              /\ served[r][z] \in File /\ nsd[r].zones[z] \in File
           /\ unsaved \subseteq Zone
  BY DEF TypeInv, TypeOK

(* The fields of a job and of a file. *)
LEMMA Fields ==
    /\ \A j \in Job :
          /\ j.pc \in {"load", "zones", "write", "save", "nsd", "unbound", "dkim", "opendkim"}
          /\ j.input \in [Zone -> Value \cup {0}] /\ j.sec \in Value \cup {0}
          /\ j.left \subseteq Zone /\ j.zone \subseteq Zone
          /\ j.serial \in Nat /\ j.changed \in BOOLEAN
    /\ \A f \in File : f.serial \in Nat /\ f.expires \in Nat
    /\ \A l \in LoopState : /\ l.up \in BOOLEAN /\ l.kick \in BOOLEAN
                             /\ l.doing \in BOOLEAN /\ l.retries \in Nat
  BY DEF Job, File, LoopState

(* A process starts with a kick. *)
LEMMA BootStep ==
    ASSUME TypeInv, TypeInv', NEW r \in Replica, Inv(r), Boot(r)
    PROVE  Inv(r)'
  <1>1. /\ loop'[r].up /\ loop'[r].kick /\ ~loop'[r].doing
        /\ ~loop[r].up
    BY Typed, LoopOps, Fields DEF Boot, CanTake, TypeInv, TypeOK
  <1>2. UNCHANGED <<day, content, secondaries, rows, ticked, job, served, conf, nsd, tables,
                    opendkim, missed, unsaved>>
    BY DEF Boot, store, disk, dkim
  <1>3. JobInv(r)'
    BY <1>1, <1>2, Typed, Fields, NoJobFields DEF Inv, JobInv
  <1>4. RowInv(r)'
    BY <1>1, <1>2, Typed, Fields, NoJobFields DEF Inv, RowInv, Between
  <1>5. SerialInv(r)'
    BY <1>1, <1>2, Typed, Fields, NoJobFields DEF Inv, SerialInv
  <1>6. LoadedInv(r)'
    BY <1>1, <1>2, Typed, Fields, NoJobFields DEF Inv, LoadedInv, Between
  <1>7. CurrentInv(r)'
    BY <1>1, <1>2, Typed, Fields, NoJobFields DEF Inv, CurrentInv, Settled, LoopIdle
  <1>8. SignedInv(r)'
    BY <1>1, <1>2, Typed, Fields, NoJobFields DEF Inv, SignedInv, Between, Settled, LoopIdle
  <1> QED
    BY <1>3, <1>4, <1>5, <1>6, <1>7, <1>8 DEF Inv

(* The tick of a loop. *)
LEMMA TickFiresStep ==
    ASSUME TypeInv, TypeInv', NEW r \in Replica, Inv(r), TickFires(r)
    PROVE  Inv(r)'
  <1>1. /\ loop'[r].up /\ loop'[r].kick /\ loop'[r].doing = loop[r].doing
        /\ ticked'[r] = day
    BY Typed, LoopOps, Fields DEF TickFires, CanTake, TypeInv, TypeOK
  <1>2. UNCHANGED <<day, content, secondaries, rows, job, served, conf, nsd, tables, opendkim,
                    missed, unsaved>>
    BY DEF TickFires, store, disk, dkim
  <1>3. JobInv(r)'
    BY <1>1, <1>2, Typed, Fields, NoJobFields DEF Inv, JobInv
  <1>4. RowInv(r)'
    BY <1>1, <1>2, Typed, Fields, NoJobFields DEF Inv, RowInv, Between
  <1>5. SerialInv(r)'
    BY <1>1, <1>2, Typed, Fields, NoJobFields DEF Inv, SerialInv
  <1>6. LoadedInv(r)'
    BY <1>1, <1>2, Typed, Fields, NoJobFields DEF Inv, LoadedInv, Between
  <1>7. CurrentInv(r)'
    BY <1>1, <1>2, Typed, Fields, NoJobFields DEF Inv, CurrentInv, Settled, LoopIdle
  <1>8. SignedInv(r)'
    BY <1>1, <1>2, Typed, Fields, NoJobFields DEF Inv, SignedInv, Between, Settled, LoopIdle
  <1> QED
    BY <1>3, <1>4, <1>5, <1>6, <1>7, <1>8 DEF Inv

(* A retry of a loop. *)
LEMMA RetryFiresStep ==
    ASSUME TypeInv, TypeInv', NEW r \in Replica, Inv(r), RetryFires(r)
    PROVE  Inv(r)'
  <1>1. /\ loop'[r].up /\ loop'[r].kick /\ loop'[r].doing = loop[r].doing
    BY Typed, LoopOps, Fields DEF RetryFires, CanTake, TypeInv, TypeOK
  <1>2. UNCHANGED <<day, content, secondaries, rows, ticked, job, served, conf, nsd, tables,
                    opendkim, missed, unsaved>>
    BY DEF RetryFires, store, disk, dkim
  <1>3. JobInv(r)'
    BY <1>1, <1>2, Typed, Fields, NoJobFields DEF Inv, JobInv
  <1>4. RowInv(r)'
    BY <1>1, <1>2, Typed, Fields, NoJobFields DEF Inv, RowInv, Between
  <1>5. SerialInv(r)'
    BY <1>1, <1>2, Typed, Fields, NoJobFields DEF Inv, SerialInv
  <1>6. LoadedInv(r)'
    BY <1>1, <1>2, Typed, Fields, NoJobFields DEF Inv, LoadedInv, Between
  <1>7. CurrentInv(r)'
    BY <1>1, <1>2, Typed, Fields, NoJobFields DEF Inv, CurrentInv, Settled, LoopIdle
  <1>8. SignedInv(r)'
    BY <1>1, <1>2, Typed, Fields, NoJobFields DEF Inv, SignedInv, Between, Settled, LoopIdle
  <1> QED
    BY <1>3, <1>4, <1>5, <1>6, <1>7, <1>8 DEF Inv

(* A commit, kicked at once. *)
LEMMA CommitStep ==
    ASSUME TypeInv, TypeInv', NEW r \in Replica, Inv(r), Commit(r)
    PROVE  Inv(r)'
  <1>1. /\ loop'[r].up /\ loop'[r].kick /\ loop'[r].doing = loop[r].doing
    BY Typed, LoopOps, Fields DEF Commit, CanTake, TypeInv, TypeOK
  <1>2. UNCHANGED <<day, rows, ticked, job, served, conf, nsd, tables, opendkim, missed, unsaved>>
    BY DEF Commit, store, disk, dkim
  <1>3. JobInv(r)'
    BY <1>1, <1>2, Typed, Fields, NoJobFields DEF Inv, JobInv
  <1>4. RowInv(r)'
    BY <1>1, <1>2, Typed, Fields, NoJobFields DEF Inv, RowInv, Between
  <1>5. SerialInv(r)'
    BY <1>1, <1>2, Typed, Fields, NoJobFields DEF Inv, SerialInv
  <1>6. LoadedInv(r)'
    BY <1>1, <1>2, Typed, Fields, NoJobFields DEF Inv, LoadedInv, Between
  <1>7. CurrentInv(r)'
    BY <1>1, <1>2, Typed, Fields, NoJobFields DEF Inv, CurrentInv, Settled, LoopIdle
  <1>8. SignedInv(r)'
    BY <1>1, <1>2, Typed, Fields, NoJobFields DEF Inv, SignedInv, Between, Settled, LoopIdle
  <1> QED
    BY <1>3, <1>4, <1>5, <1>6, <1>7, <1>8 DEF Inv

(* A run begins. *)
LEMMA TakeKickStep ==
    ASSUME TypeInv, TypeInv', NEW r \in Replica, Inv(r), TakeKick(r)
    PROVE  Inv(r)'
  <1>1. /\ loop'[r].up /\ loop'[r].doing
        /\ job'[r] = NoJob
        /\ ~loop[r].doing
    BY Typed, LoopOps, Fields DEF TakeKick, CanTake, TypeInv, TypeOK
  <1>2. UNCHANGED <<day, content, secondaries, rows, ticked, served, conf, nsd, tables,
                    opendkim, missed, unsaved>>
    BY DEF TakeKick, store, disk, dkim
  <1>3. JobInv(r)'
    BY <1>1, <1>2, Typed, Fields, NoJobFields DEF Inv, JobInv
  <1>4. RowInv(r)'
    <2>1. job[r] = NoJob
      BY <1>1 DEF Inv, JobInv
    <2> QED
      BY <1>1, <1>2, <2>1, Typed, Fields, NoJobFields DEF Inv, RowInv, Between
  <1>5. SerialInv(r)'
    BY <1>1, <1>2, Typed, Fields, NoJobFields DEF Inv, SerialInv
  <1>6. LoadedInv(r)'
    <2>1. job[r] = NoJob
      BY <1>1 DEF Inv, JobInv
    <2> QED
      BY <1>1, <1>2, <2>1, Typed, Fields, NoJobFields DEF Inv, LoadedInv, Between
  <1>7. CurrentInv(r)'
    BY <1>1, <1>2, Typed, Fields, NoJobFields DEF Inv, CurrentInv, Settled, LoopIdle
  <1>8. SignedInv(r)'
    BY <1>1, <1>2, Typed, Fields, NoJobFields DEF Inv, SignedInv, Between, Settled, LoopIdle
  <1> QED
    BY <1>3, <1>4, <1>5, <1>6, <1>7, <1>8 DEF Inv

(* A restart of nsd. *)
LEMMA NsdRestartsStep ==
    ASSUME TypeInv, TypeInv', NEW r \in Replica, Inv(r), NsdRestarts(r)
    PROVE  Inv(r)'
  <1>1. /\ nsd'[r].zones = served[r] /\ nsd'[r].conf = conf[r]
    BY Typed, LoopOps, Fields DEF NsdRestarts, CanTake, TypeInv, TypeOK
  <1>2. UNCHANGED <<day, content, secondaries, rows, ticked, loop, job, served, conf, tables,
                    opendkim, missed, unsaved>>
    BY DEF NsdRestarts, store, disk, dkim
  <1>3. JobInv(r)'
    BY <1>1, <1>2, Typed, Fields, NoJobFields DEF Inv, JobInv
  <1>4. RowInv(r)'
    BY <1>1, <1>2, Typed, Fields, NoJobFields DEF Inv, RowInv, Between
  <1>5. SerialInv(r)'
    BY <1>1, <1>2, Typed, Fields, NoJobFields DEF Inv, SerialInv
  <1>6. LoadedInv(r)'
    BY <1>1, <1>2, Typed, Fields, NoJobFields DEF Inv, LoadedInv, Between
  <1>7. CurrentInv(r)'
    BY <1>1, <1>2, Typed, Fields, NoJobFields DEF Inv, CurrentInv, Settled, LoopIdle
  <1>8. SignedInv(r)'
    BY <1>1, <1>2, Typed, Fields, NoJobFields DEF Inv, SignedInv, Between, Settled, LoopIdle
  <1> QED
    BY <1>3, <1>4, <1>5, <1>6, <1>7, <1>8 DEF Inv

(* A process stops, and its run with it. *)
LEMMA CrashStep ==
    ASSUME TypeInv, TypeInv', NEW r \in Replica, Inv(r), Crash(r)
    PROVE  Inv(r)'
  <1>1. /\ ~loop'[r].up /\ ~loop'[r].doing
        /\ job'[r] = NoJob
        /\ missed \subseteq missed'
        /\ job[r].pc = "nsd" \/ job[r].changed => <<r, "nsd">> \in missed'
        /\ job[r].pc = "opendkim" => <<r, "opendkim">> \in missed'
        /\ unsaved \subseteq unsaved' /\ (job[r].pc = "save" => job[r].zone \subseteq unsaved')
    BY Typed, LoopOps, Fields DEF Crash, Missed, Unsaved, TypeInv, TypeOK
  <1>2. UNCHANGED <<day, content, secondaries, rows, ticked, served, conf, nsd, tables, opendkim>>
    BY DEF Crash, store, disk, dkim
  <1>3. JobInv(r)'
    BY <1>1, <1>2, Typed, Fields, NoJobFields DEF Inv, JobInv
  <1>4. RowInv(r)'
    BY <1>1, <1>2, Typed, Fields, NoJobFields DEF Inv, RowInv, Between
  <1>5. SerialInv(r)'
    BY <1>1, <1>2, Typed, Fields, NoJobFields DEF Inv, SerialInv
  <1>6. LoadedInv(r)'
    BY <1>1, <1>2, Typed, Fields, NoJobFields DEF Inv, LoadedInv, Between
  <1>7. CurrentInv(r)'
    BY <1>1, <1>2, Typed, Fields, NoJobFields DEF Inv, CurrentInv, Settled, LoopIdle
  <1>8. SignedInv(r)'
    BY <1>1, <1>2, Typed, Fields, NoJobFields DEF Inv, SignedInv, Between, Settled, LoopIdle
  <1> QED
    BY <1>3, <1>4, <1>5, <1>6, <1>7, <1>8 DEF Inv

(* A run fails. *)
LEMMA RunFailsStep ==
    ASSUME TypeInv, TypeInv', NEW r \in Replica, Inv(r), RunFails(r)
    PROVE  Inv(r)'
  <1>1. /\ loop'[r].up = loop[r].up /\ ~loop'[r].doing /\ loop'[r].retries > 0
        /\ job'[r] = NoJob
        /\ missed \subseteq missed'
        /\ job[r].pc = "nsd" \/ job[r].changed => <<r, "nsd">> \in missed'
        /\ job[r].pc = "opendkim" => <<r, "opendkim">> \in missed'
        /\ unsaved \subseteq unsaved' /\ (job[r].pc = "save" => job[r].zone \subseteq unsaved')
    BY Typed, LoopOps, Fields DEF RunFails, Missed, Unsaved, TypeInv, TypeOK
  <1>2. UNCHANGED <<day, content, secondaries, rows, ticked, served, conf, nsd, tables, opendkim>>
    BY DEF RunFails, store, disk, dkim
  <1>3. JobInv(r)'
    BY <1>1, <1>2, Typed, Fields, NoJobFields DEF Inv, JobInv
  <1>4. RowInv(r)'
    BY <1>1, <1>2, Typed, Fields, NoJobFields DEF Inv, RowInv, Between
  <1>5. SerialInv(r)'
    BY <1>1, <1>2, Typed, Fields, NoJobFields DEF Inv, SerialInv
  <1>6. LoadedInv(r)'
    BY <1>1, <1>2, Typed, Fields, NoJobFields DEF Inv, LoadedInv, Between
  <1>7. CurrentInv(r)'
    BY <1>1, <1>2, Typed, Fields, NoJobFields DEF Inv, CurrentInv, Settled, LoopIdle
  <1>8. SignedInv(r)'
    BY <1>1, <1>2, Typed, Fields, NoJobFields DEF Inv, SignedInv, Between, Settled, LoopIdle
  <1> QED
    BY <1>3, <1>4, <1>5, <1>6, <1>7, <1>8 DEF Inv

(* Rebuild reads the store. *)
LEMMA LoadInputStep ==
    ASSUME TypeInv, TypeInv', NEW r \in Replica, Inv(r), LoadInput(r)
    PROVE  Inv(r)'
  <1>1. /\ job[r].pc = "load" /\ loop[r].doing
        /\ job'[r].pc = "zones" /\ job'[r].input = content /\ job'[r].sec = secondaries
        /\ job'[r].left = Zone
        /\ job'[r].zone = job[r].zone /\ job'[r].serial = job[r].serial
           /\ job'[r].changed = job[r].changed
    BY Typed, LoopOps, Fields DEF LoadInput, CanTake, TypeInv, TypeOK
  <1>2. UNCHANGED <<day, content, secondaries, rows, ticked, loop, served, conf, nsd, tables,
                    opendkim, missed, unsaved>>
    BY DEF LoadInput, store, disk, dkim
  <1>3. JobInv(r)'
    BY <1>1, <1>2, Typed, Fields, NoJobFields DEF Inv, JobInv
  <1>4. RowInv(r)'
    BY <1>1, <1>2, Typed, Fields, NoJobFields DEF Inv, RowInv, Between
  <1>5. SerialInv(r)'
    BY <1>1, <1>2, Typed, Fields, NoJobFields DEF Inv, SerialInv
  <1>6. LoadedInv(r)'
    BY <1>1, <1>2, Typed, Fields, NoJobFields DEF Inv, LoadedInv, Between
  <1>7. CurrentInv(r)'
    BY <1>1, <1>2, Typed, Fields, NoJobFields DEF Inv, CurrentInv, Settled, LoopIdle
  <1>8. SignedInv(r)'
    BY <1>1, <1>2, Typed, Fields, NoJobFields DEF Inv, SignedInv, Between, Settled, LoopIdle
  <1> QED
    BY <1>3, <1>4, <1>5, <1>6, <1>7, <1>8 DEF Inv

(* A zone that is up to date. *)
LEMMA SkipZoneStep ==
    ASSUME TypeInv, TypeInv', NEW r \in Replica, NEW z \in Zone, Inv(r), SkipZone(r, z)
    PROVE  Inv(r)'
  <1>1. /\ job[r].pc = "zones" /\ loop[r].doing /\ z \in job[r].left
        /\ rows[z].hash = job[r].input[z] /\ served[r][z] # NoFile
        /\ z \in SignedZone => served[r][z].expires >= day + Margin
        /\ job'[r].left = job[r].left \ {z}
        /\ job'[r].pc = job[r].pc /\ job'[r].input = job[r].input /\ job'[r].sec = job[r].sec
        /\ job'[r].zone = job[r].zone /\ job'[r].serial = job[r].serial
           /\ job'[r].changed = job[r].changed
    BY Typed, LoopOps, Fields DEF SkipZone, UpToDate, SignatureNeedsRenewal, TypeInv, TypeOK
  <1>2. UNCHANGED <<day, content, secondaries, rows, ticked, loop, served, conf, nsd, tables,
                    opendkim, missed, unsaved>>
    BY DEF SkipZone, store, disk, dkim
  <1>3. JobInv(r)'
    BY <1>1, <1>2, Typed, Fields, NoJobFields DEF Inv, JobInv
  <1>4. RowInv(r)'
    BY <1>1, <1>2, Typed, Fields, NoJobFields DEF Inv, RowInv, Between
  <1>5. SerialInv(r)'
    BY <1>1, <1>2, Typed, Fields, NoJobFields DEF Inv, SerialInv
  <1>6. LoadedInv(r)'
    BY <1>1, <1>2, Typed, Fields, NoJobFields DEF Inv, LoadedInv, Between
  <1>7. CurrentInv(r)'
    BY <1>1, <1>2, Typed, Fields, NoJobFields DEF Inv, CurrentInv, Settled, LoopIdle
  <1>8. SignedInv(r)'
    BY <1>1, <1>2, Typed, Fields, NoJobFields DEF Inv, SignedInv, Between, Settled, LoopIdle
  <1> QED
    BY <1>3, <1>4, <1>5, <1>6, <1>7, <1>8 DEF Inv

(* A zone that is not, and its new serial. *)
LEMMA PickSerialStep ==
    ASSUME TypeInv, TypeInv', NEW r \in Replica, NEW z \in Zone, Inv(r), PickSerial(r, z)
    PROVE  Inv(r)'
  <1>1. /\ job[r].pc = "zones" /\ loop[r].doing /\ z \in job[r].left
        /\ job'[r].pc = "write" /\ job'[r].zone = {z} /\ job'[r].serial > rows[z].serial
        /\ job'[r].input = job[r].input /\ job'[r].sec = job[r].sec
           /\ job'[r].left = job[r].left /\ job'[r].changed = job[r].changed
    BY Typed, LoopOps, Fields, SerialGrows DEF PickSerial, CanTake, TypeInv, TypeOK
  <1>2. UNCHANGED <<day, content, secondaries, rows, ticked, loop, served, conf, nsd, tables,
                    opendkim, missed, unsaved>>
    BY DEF PickSerial, store, disk, dkim
  <1>3. JobInv(r)'
    BY <1>1, <1>2, Typed, Fields, NoJobFields DEF Inv, JobInv
  <1>4. RowInv(r)'
    BY <1>1, <1>2, Typed, Fields, NoJobFields DEF Inv, RowInv, Between
  <1>5. SerialInv(r)'
    BY <1>1, <1>2, Typed, Fields, NoJobFields DEF Inv, SerialInv
  <1>6. LoadedInv(r)'
    BY <1>1, <1>2, Typed, Fields, NoJobFields DEF Inv, LoadedInv, Between
  <1>7. CurrentInv(r)'
    BY <1>1, <1>2, Typed, Fields, NoJobFields DEF Inv, CurrentInv, Settled, LoopIdle
  <1>8. SignedInv(r)'
    BY <1>1, <1>2, Typed, Fields, NoJobFields DEF Inv, SignedInv, Between, Settled, LoopIdle
  <1> QED
    BY <1>3, <1>4, <1>5, <1>6, <1>7, <1>8 DEF Inv

(* The zone file is written and signed. *)
LEMMA WriteZoneStep ==
    ASSUME TypeInv, TypeInv', NEW r \in Replica, NEW z \in Zone, Inv(r), WriteZone(r, z)
    PROVE  Inv(r)'
  <1>1. /\ job[r].pc = "write" /\ loop[r].doing /\ z \in job[r].zone
        /\ job'[r].pc = "save"
        /\ job'[r].input = job[r].input /\ job'[r].sec = job[r].sec /\ job'[r].left = job[r].left
        /\ job'[r].zone = job[r].zone /\ job'[r].serial = job[r].serial
           /\ job'[r].changed = job[r].changed
        /\ served'[r][z].serial = job[r].serial /\ served'[r][z].hash = job[r].input[z]
        /\ z \in SignedZone => served'[r][z].expires = day + Validity
        /\ \A y \in Zone \ {z} : served'[r][y] = served[r][y]
    BY Typed, LoopOps, Fields DEF WriteZone, CanTake, TypeInv, TypeOK
  <1>2. UNCHANGED <<day, content, secondaries, rows, ticked, loop, conf, nsd, tables, opendkim,
                    missed, unsaved>>
    BY DEF WriteZone, store, disk, dkim
  <1>3. job[r].zone = {z} /\ z \in job[r].left
    BY <1>1 DEF Inv, JobInv
  <1>4. JobInv(r)'
    BY <1>1, <1>2, <1>3, Typed, Fields, NoJobFields DEF Inv, JobInv
  <1>5. RowInv(r)'
    BY <1>1, <1>2, <1>3, Typed, Fields, NoJobFields DEF Inv, RowInv, Between
  <1>6. SerialInv(r)'
    BY <1>1, <1>2, <1>3, Typed, Fields, NoJobFields DEF Inv, SerialInv, RowInv, Between
  <1>7. LoadedInv(r)'
    BY <1>1, <1>2, <1>3, Typed, Fields, NoJobFields DEF Inv, LoadedInv, Between
  <1>8. CurrentInv(r)'
    BY <1>1, <1>2, <1>3, Typed, Fields, NoJobFields DEF Inv, CurrentInv, Settled, LoopIdle
  <1>9. SignedInv(r)'
    BY <1>1, <1>2, <1>3, Typed, Fields, NoJobFields DEF Inv, SignedInv, Between, Settled, LoopIdle
  <1> QED
    BY <1>4, <1>5, <1>6, <1>7, <1>8, <1>9 DEF Inv

(* Its row is saved. *)
LEMMA SaveRowStep ==
    ASSUME TypeInv, TypeInv', NEW r \in Replica, NEW z \in Zone, Inv(r), SaveRow(r, z)
    PROVE  Inv(r)'
  <1>1. /\ job[r].pc = "save" /\ loop[r].doing /\ z \in job[r].zone
        /\ job'[r].pc = "zones" /\ job'[r].zone = {} /\ job'[r].left = job[r].left \ {z}
        /\ job'[r].changed
        /\ job'[r].input = job[r].input /\ job'[r].sec = job[r].sec
        /\ rows'[z].serial = job[r].serial /\ rows'[z].hash = job[r].input[z]
        /\ \A y \in Zone \ {z} : rows'[y] = rows[y]
    BY Typed, LoopOps, Fields DEF SaveRow, CanTake, TypeInv, TypeOK
  <1>2. UNCHANGED <<day, content, secondaries, ticked, loop, served, conf, nsd, tables,
                    opendkim, missed, unsaved>>
    BY DEF SaveRow, store, disk, dkim
  <1>3. job[r].zone = {z} /\ z \in job[r].left
    BY <1>1 DEF Inv, JobInv
  <1>4. JobInv(r)'
    BY <1>1, <1>2, <1>3, Typed, Fields, NoJobFields DEF Inv, JobInv
  <1>5. RowInv(r)'
    BY <1>1, <1>2, <1>3, Typed, Fields, NoJobFields DEF Inv, RowInv, Between
  <1>6. SerialInv(r)'
    BY <1>1, <1>2, <1>3, Typed, Fields, NoJobFields DEF Inv, SerialInv
  <1>7. LoadedInv(r)'
    BY <1>1, <1>2, <1>3, Typed, Fields, NoJobFields DEF Inv, LoadedInv, Between
  <1>8. CurrentInv(r)'
    <2>1. served[r][z] # NoFile
      BY <1>1, Typed, Fields, NoFileFields DEF Inv, RowInv, Between
    <2> QED
      BY <1>1, <1>2, <1>3, <2>1, Typed, Fields DEF Inv, CurrentInv, Settled, LoopIdle
  <1>9. SignedInv(r)'
    BY <1>1, <1>2, <1>3, Typed, Fields, NoJobFields DEF Inv, SignedInv, Between, Settled, LoopIdle
  <1> QED
    BY <1>4, <1>5, <1>6, <1>7, <1>8, <1>9 DEF Inv

(* The configuration of nsd. *)
LEMMA WriteConfStep ==
    ASSUME TypeInv, TypeInv', NEW r \in Replica, Inv(r), WriteConf(r)
    PROVE  Inv(r)'
  <1>0. PICK b \in BOOLEAN : WriteConf(r)!(b)
    BY DEF WriteConf
  <1> DEFINE new == [setting |-> job[r].sec, resolved |-> b]
  <1>1. /\ job[r].pc = "zones" /\ loop[r].doing /\ job[r].left = {}
        /\ conf'[r].setting = job[r].sec
        /\ \/ job'[r].pc = "nsd"
           \/ job'[r].pc = "dkim" /\ ~job[r].changed /\ conf'[r] = conf[r]
        /\ job'[r].input = job[r].input /\ job'[r].sec = job[r].sec /\ job'[r].left = job[r].left
        /\ job'[r].zone = job[r].zone /\ job'[r].serial = job[r].serial
           /\ job'[r].changed = job[r].changed
    <2>1. job[r] \in Job /\ job \in [Replica -> Job] /\ conf \in [Replica -> Conf]
      BY DEF TypeInv, TypeOK
    <2>2. /\ job[r].pc = "zones" /\ loop[r].doing /\ job[r].left = {}
          /\ conf'[r] = new /\ new.setting = job[r].sec
      BY <1>0, <2>1
    <2>3. CASE job[r].changed \/ conf[r] # new
      <3>1. job' = [job EXCEPT ![r] = [job[r] EXCEPT !.pc = "nsd"]]
        BY <1>0, <2>3
      <3> QED
        BY <2>1, <2>2, <3>1, Fields
    <2>4. CASE ~(job[r].changed \/ conf[r] # new)
      <3>1. job' = [job EXCEPT ![r] = [job[r] EXCEPT !.pc = "dkim"]]
        BY <1>0, <2>4
      <3> QED
        BY <2>1, <2>2, <2>4, <3>1, Fields
    <2> QED
      BY <2>3, <2>4
  <1>2. UNCHANGED <<day, content, secondaries, rows, ticked, loop, served, nsd, tables,
                    opendkim, missed, unsaved>>
    BY DEF WriteConf, store, disk, dkim
  <1>3. JobInv(r)'
    BY <1>1, <1>2, Typed, Fields, NoJobFields DEF Inv, JobInv
  <1>4. RowInv(r)'
    BY <1>1, <1>2, Typed, Fields, NoJobFields DEF Inv, RowInv, Between
  <1>5. SerialInv(r)'
    BY <1>1, <1>2, Typed, Fields, NoJobFields DEF Inv, SerialInv
  <1>6. LoadedInv(r)'
    BY <1>1, <1>2, Typed, Fields, NoJobFields DEF Inv, LoadedInv, Between
  <1>7. CurrentInv(r)'
    BY <1>1, <1>2, Typed, Fields, NoJobFields DEF Inv, CurrentInv, Settled, LoopIdle
  <1>8. SignedInv(r)'
    BY <1>1, <1>2, Typed, Fields, NoJobFields DEF Inv, SignedInv, Between, Settled, LoopIdle
  <1> QED
    BY <1>3, <1>4, <1>5, <1>6, <1>7, <1>8 DEF Inv

(* nsd is reloaded. *)
LEMMA ReloadNsdStep ==
    ASSUME TypeInv, TypeInv', NEW r \in Replica, Inv(r), ReloadNsd(r)
    PROVE  Inv(r)'
  <1>1. /\ job[r].pc = "nsd" /\ loop[r].doing
        /\ job'[r].pc = "unbound" /\ ~job'[r].changed
        /\ job'[r].input = job[r].input /\ job'[r].sec = job[r].sec
           /\ job'[r].left = job[r].left /\ job'[r].zone = job[r].zone
              /\ job'[r].serial = job[r].serial
        /\ nsd'[r].zones = served[r] /\ nsd'[r].conf = conf[r]
        /\ <<r, "opendkim">> \in missed => <<r, "opendkim">> \in missed'
        /\ unsaved' = {z \in unsaved : rows[z].serial # served[r][z].serial}
    BY Typed, LoopOps, Fields DEF ReloadNsd, CanTake, TypeInv, TypeOK
  <1>2. UNCHANGED <<day, content, secondaries, rows, ticked, loop, served, conf, tables,
                    opendkim>>
    BY DEF ReloadNsd, store, disk, dkim
  <1>3. JobInv(r)'
    BY <1>1, <1>2, Typed, Fields, NoJobFields DEF Inv, JobInv
  <1>4. RowInv(r)'
    BY <1>1, <1>2, Typed, Fields, NoJobFields DEF Inv, RowInv, Between
  <1>5. SerialInv(r)'
    BY <1>1, <1>2, Typed, Fields, NoJobFields DEF Inv, SerialInv
  <1>6. LoadedInv(r)'
    BY <1>1, <1>2, Typed, Fields, NoJobFields DEF Inv, LoadedInv, Between
  <1>7. CurrentInv(r)'
    BY <1>1, <1>2, Typed, Fields, NoJobFields DEF Inv, CurrentInv, Settled, LoopIdle
  <1>8. SignedInv(r)'
    BY <1>1, <1>2, Typed, Fields, NoJobFields DEF Inv, SignedInv, Between, Settled, LoopIdle
  <1> QED
    BY <1>3, <1>4, <1>5, <1>6, <1>7, <1>8 DEF Inv

(* unbound is reloaded. *)
LEMMA ReloadUnboundStep ==
    ASSUME TypeInv, TypeInv', NEW r \in Replica, Inv(r), ReloadUnbound(r)
    PROVE  Inv(r)'
  <1>1. /\ job[r].pc = "unbound" /\ loop[r].doing
        /\ job'[r].pc = "dkim"
        /\ job'[r].input = job[r].input /\ job'[r].sec = job[r].sec /\ job'[r].left = job[r].left
        /\ job'[r].zone = job[r].zone /\ job'[r].serial = job[r].serial
           /\ job'[r].changed = job[r].changed
    BY Typed, LoopOps, Fields DEF ReloadUnbound, CanTake, TypeInv, TypeOK
  <1>2. UNCHANGED <<day, content, secondaries, rows, ticked, loop, served, conf, nsd, tables,
                    opendkim, missed, unsaved>>
    BY DEF ReloadUnbound, store, disk, dkim
  <1>3. JobInv(r)'
    BY <1>1, <1>2, Typed, Fields, NoJobFields DEF Inv, JobInv
  <1>4. RowInv(r)'
    BY <1>1, <1>2, Typed, Fields, NoJobFields DEF Inv, RowInv, Between
  <1>5. SerialInv(r)'
    BY <1>1, <1>2, Typed, Fields, NoJobFields DEF Inv, SerialInv
  <1>6. LoadedInv(r)'
    BY <1>1, <1>2, Typed, Fields, NoJobFields DEF Inv, LoadedInv, Between
  <1>7. CurrentInv(r)'
    BY <1>1, <1>2, Typed, Fields, NoJobFields DEF Inv, CurrentInv, Settled, LoopIdle
  <1>8. SignedInv(r)'
    BY <1>1, <1>2, Typed, Fields, NoJobFields DEF Inv, SignedInv, Between, Settled, LoopIdle
  <1> QED
    BY <1>3, <1>4, <1>5, <1>6, <1>7, <1>8 DEF Inv

(* The tables of opendkim, and the end of a run that leaves them as they are. *)
LEMMA WriteDkimStep ==
    ASSUME TypeInv, TypeInv', NEW r \in Replica, Inv(r), WriteDkim(r)
    PROVE  Inv(r)'
  <1>1. /\ job[r].pc = "dkim" /\ loop[r].doing
        /\ \A z \in MailZone : tables'[r][z] = job[r].input[z]
        /\ \/ /\ job'[r].pc = "opendkim" /\ loop'[r] = loop[r]
              /\ job'[r].input = job[r].input /\ job'[r].sec = job[r].sec
                 /\ job'[r].left = job[r].left
              /\ job'[r].zone = job[r].zone /\ job'[r].serial = job[r].serial
                 /\ job'[r].changed = job[r].changed
           \/ /\ job'[r] = NoJob /\ tables'[r] = tables[r]
              /\ loop'[r].up = loop[r].up /\ loop'[r].kick = loop[r].kick /\ ~loop'[r].doing
    <2>1. /\ job[r] \in Job /\ job \in [Replica -> Job] /\ loop \in [Replica -> LoopState]
          /\ tables \in [Replica -> [MailZone -> Value \cup {0}]]
      BY DEF TypeInv, TypeOK
    <2>2. /\ job[r].pc = "dkim" /\ loop[r].doing
          /\ \A z \in MailZone : tables'[r][z] = job[r].input[z]
      BY <2>1 DEF WriteDkim
    <2>3. CASE tables'[r] # tables[r]
      <3>1. job' = [job EXCEPT ![r] = [job[r] EXCEPT !.pc = "opendkim"]] /\ loop' = loop
        BY <2>3 DEF WriteDkim
      <3> QED
        BY <2>1, <2>2, <3>1, Fields
    <2>4. CASE ~(tables'[r] # tables[r])
      <3>1. job' = [job EXCEPT ![r] = NoJob] /\ loop' = [loop EXCEPT ![r] = Finished(loop[r])]
        BY <2>4 DEF WriteDkim
      <3> QED
        BY <2>1, <2>2, <2>4, <3>1, LoopOps
    <2> QED
      BY <2>3, <2>4
  <1>2. UNCHANGED <<day, content, secondaries, rows, ticked, served, conf, nsd, opendkim,
                    missed, unsaved>>
    BY DEF WriteDkim, store, disk, dkim
  <1>3. job[r].zone = {} /\ job[r].left = {} /\ ~job[r].changed /\ loop[r].up
    BY <1>1 DEF Inv, JobInv
  <1>4. JobInv(r)'
    BY <1>1, <1>2, <1>3, Typed, Fields, NoJobFields DEF Inv, JobInv
  <1>5. RowInv(r)'
    BY <1>1, <1>2, <1>3, Typed, Fields, NoJobFields DEF Inv, RowInv, Between
  <1>6. SerialInv(r)'
    BY <1>1, <1>2, <1>3, Typed, Fields, NoJobFields DEF Inv, SerialInv
  <1>7. LoadedInv(r)'
    BY <1>1, <1>2, <1>3, Typed, Fields, NoJobFields DEF Inv, LoadedInv, Between
  <1>8. CurrentInv(r)'
    <2>1. CASE job'[r].pc = "opendkim"
      <3>1. /\ loop'[r] = loop[r] /\ job'[r].input = job[r].input /\ job'[r].sec = job[r].sec
            /\ job'[r].left = {} /\ loop[r].doing
            /\ \A z \in MailZone : tables'[r][z] = job[r].input[z]
        BY <1>1, <1>3, <2>1, NoJobFields
      <3>2. /\ ~loop[r].kick => job[r].input = content /\ job[r].sec = secondaries
            /\ conf[r].setting = job[r].sec
            /\ \A z \in Zone : rows[z].hash = job[r].input[z] /\ served[r][z] # NoFile
        BY <1>1, <1>3 DEF Inv, CurrentInv
      <3> QED
        BY <1>2, <3>1, <3>2 DEF CurrentInv, Settled, LoopIdle
    <2>2. CASE job'[r] = NoJob
      <3>1. /\ ~loop'[r].kick => job[r].input = content /\ job[r].sec = secondaries
            /\ conf[r].setting = job[r].sec
            /\ \A z \in Zone : rows[z].hash = job[r].input[z] /\ served[r][z] # NoFile
            /\ \A z \in MailZone : tables'[r][z] = job[r].input[z]
        BY <1>1, <1>3, <2>2, NoJobFields DEF Inv, CurrentInv
      <3> QED
        BY <1>2, <2>2, <3>1, NoJobFields DEF CurrentInv, Settled, LoopIdle
    <2> QED
      BY <1>1, <2>1, <2>2
  <1>9. SignedInv(r)'
    BY <1>1, <1>2, <1>3, Typed, Fields, NoJobFields DEF Inv, SignedInv, Between, Settled, LoopIdle
  <1> QED
    BY <1>4, <1>5, <1>6, <1>7, <1>8, <1>9 DEF Inv

(* opendkim is reloaded, the end of a run. *)
LEMMA ReloadOpendkimStep ==
    ASSUME TypeInv, TypeInv', NEW r \in Replica, Inv(r), ReloadOpendkim(r)
    PROVE  Inv(r)'
  <1>1. /\ job[r].pc = "opendkim" /\ loop[r].doing
        /\ job'[r] = NoJob
        /\ opendkim'[r] = tables[r]
        /\ loop'[r].up = loop[r].up /\ loop'[r].kick = loop[r].kick /\ ~loop'[r].doing
        /\ <<r, "nsd">> \in missed => <<r, "nsd">> \in missed'
    BY Typed, LoopOps, Fields DEF ReloadOpendkim, CanTake, TypeInv, TypeOK
  <1>2. UNCHANGED <<day, content, secondaries, rows, ticked, served, conf, nsd, tables, unsaved>>
    BY DEF ReloadOpendkim, store, disk, dkim
  <1>3. job[r].zone = {} /\ job[r].left = {} /\ ~job[r].changed /\ loop[r].up
    BY <1>1 DEF Inv, JobInv
  <1>4. JobInv(r)'
    BY <1>1, <1>2, <1>3, Typed, Fields, NoJobFields DEF Inv, JobInv
  <1>5. RowInv(r)'
    BY <1>1, <1>2, <1>3, Typed, Fields, NoJobFields DEF Inv, RowInv, Between
  <1>6. SerialInv(r)'
    BY <1>1, <1>2, <1>3, Typed, Fields, NoJobFields DEF Inv, SerialInv
  <1>7. LoadedInv(r)'
    BY <1>1, <1>2, <1>3, Typed, Fields, NoJobFields DEF Inv, LoadedInv, Between
  <1>8. CurrentInv(r)'
    BY <1>1, <1>2, <1>3, Typed, Fields, NoJobFields DEF Inv, CurrentInv, Settled, LoopIdle
  <1>9. SignedInv(r)'
    BY <1>1, <1>2, <1>3, Typed, Fields, NoJobFields DEF Inv, SignedInv, Between, Settled, LoopIdle
  <1> QED
    BY <1>4, <1>5, <1>6, <1>7, <1>8, <1>9 DEF Inv

(* A day passes when every loop has settled after its tick: the files      *)
(* outlast the new day, and nsd has loaded them.                           *)
LEMMA DayPassesStep ==
    ASSUME TypeInv, TypeInv', NEW r \in Replica, Inv(r), DayPasses
    PROVE  Inv(r)'
  <1>1. Settled(r) /\ ticked[r] = day /\ day' = day + 1
    BY DEF DayPasses
  <1>2. UNCHANGED <<content, secondaries, rows, ticked, loop, job, served, conf, nsd, tables,
                    opendkim, missed, unsaved>>
    BY DEF DayPasses, store, disk, dkim
  <1>3. job[r] = NoJob
    BY <1>1 DEF Inv, JobInv, Settled, LoopIdle
  <1>4. JobInv(r)' /\ RowInv(r)' /\ SerialInv(r)' /\ LoadedInv(r)' /\ CurrentInv(r)'
    BY <1>2 DEF Inv, JobInv, RowInv, SerialInv, LoadedInv, CurrentInv, Between, Settled, LoopIdle
  <1>5. SignedInv(r)'
    <2>1. ASSUME NEW z \in SignedZone
          PROVE  served[r][z].expires > day'
      BY <1>1, Typed, Fields DEF Inv, SignedInv
    <2>2. ASSUME NEW z \in SignedZone, z \notin unsaved, <<r, "nsd">> \notin missed
          PROVE  nsd[r].zones[z] = served[r][z]
      BY <1>3, <2>2, NoJobFields DEF Inv, LoadedInv, Between
    <2>3. ticked[r] <= day /\ ticked[r] # day' /\ ticked[r] <= day'
      BY <1>1, Typed DEF Inv, SignedInv
    <2> QED
      BY <1>1, <1>2, <1>3, <2>1, <2>2, <2>3, NoJobFields DEF SignedInv, Between
  <1> QED
    BY <1>4, <1>5 DEF Inv

(* Every action keeps the invariant. *)
LEMMA Step == OneManagerd /\ IInv /\ [Next]_vars => IInv'
  <1> SUFFICES ASSUME OneManagerd, IInv, [Next]_vars
               PROVE  IInv'
    OBVIOUS
  <1>1. TypeInv /\ TypeInv' /\ \A r \in Replica : Inv(r)
    BY Typing DEF IInv
  <1>2. ASSUME NEW r \in Replica, Inv(r)'
        PROVE  IInv'
    BY <1>1, <1>2 DEF IInv, OneManagerd
  <1>3. CASE DayPasses
    BY <1>1, <1>3, DayPassesStep DEF IInv
  <1>4. ASSUME NEW r \in Replica, Boot(r) \/ Crash(r) \/ NsdRestarts(r) \/ Commit(r)
        PROVE  Inv(r)'
    BY <1>1, <1>4, BootStep, CrashStep, NsdRestartsStep, CommitStep
  <1>5. ASSUME NEW r \in Replica, TickFires(r) \/ RetryFires(r) \/ TakeKick(r)
        PROVE  Inv(r)'
    BY <1>1, <1>5, TickFiresStep, RetryFiresStep, TakeKickStep
  <1>6. ASSUME NEW r \in Replica, NEW z \in Zone,
               SkipZone(r, z) \/ PickSerial(r, z) \/ WriteZone(r, z) \/ SaveRow(r, z)
        PROVE  Inv(r)'
    BY <1>1, <1>6, SkipZoneStep, PickSerialStep, WriteZoneStep, SaveRowStep
  <1>7. ASSUME NEW r \in Replica,
               \/ LoadInput(r) \/ WriteConf(r) \/ ReloadNsd(r) \/ ReloadUnbound(r)
               \/ WriteDkim(r) \/ ReloadOpendkim(r) \/ RunFails(r)
        PROVE  Inv(r)'
    BY <1>1, <1>7, LoadInputStep, WriteConfStep, ReloadNsdStep, ReloadUnboundStep,
       WriteDkimStep, ReloadOpendkimStep, RunFailsStep
  <1>8. CASE UNCHANGED vars
    <2>1. UNCHANGED <<day, content, secondaries, rows, ticked, loop, job, served, conf, nsd,
                      tables, opendkim, missed, unsaved>>
      BY <1>8 DEF vars, store, disk, dkim
    <2>2. ASSUME NEW r \in Replica
          PROVE  Inv(r)'
      <3>1. JobInv(r)' /\ RowInv(r)' /\ SerialInv(r)'
        BY <1>1, <2>1 DEF Inv, JobInv, RowInv, SerialInv, Between
      <3>2. LoadedInv(r)' /\ CurrentInv(r)' /\ SignedInv(r)'
        BY <1>1, <2>1 DEF Inv, LoadedInv, CurrentInv, SignedInv, Between, Settled, LoopIdle
      <3> QED
        BY <3>1, <3>2 DEF Inv
    <2> QED
      BY <1>1, <2>2 DEF IInv
  <1> QED
    BY <1>2, <1>3, <1>4, <1>5, <1>6, <1>7, <1>8 DEF Next, Work

(* It holds before managerd has ever run. *)
LEMMA Start == Init => IInv
  <1> SUFFICES ASSUME Init
               PROVE  IInv
    OBVIOUS
  <1>1. (CHOOSE v \in Value : TRUE) \in Value
    OBVIOUS
  <1>2. LoopDown \in LoopState /\ ~LoopDown.up /\ ~LoopDown.doing
    BY DEF LoopDown, LoopState
  <1>3. TypeInv
    <2>1. job \in [Replica -> Job]
      BY NoJobFields DEF Init
    <2>2. \A r \in Replica :
              /\ job[r].pc \in {"load", "zones", "write", "save", "nsd", "unbound",
                                "dkim", "opendkim"}
              /\ job[r].left \subseteq Zone /\ job[r].zone \subseteq Zone
              /\ job[r].serial \in Nat
      BY <2>1, Fields
    <2>3. NoConf \in Conf
      BY DEF NoConf, Conf
    <2> QED
      BY <1>1, <1>2, <2>1, <2>2, <2>3, NoFileFields DEF Init, TypeInv, TypeOK
  <1>4. ASSUME NEW r \in Replica
        PROVE  Inv(r)
    <2>1. /\ job[r] = NoJob /\ ~loop[r].up /\ ~loop[r].doing /\ ticked[r] = 0 /\ day = 0
          /\ nsd[r].conf = conf[r] /\ opendkim[r] = tables[r] /\ unsaved = {} /\ missed = {}
          /\ \A z \in Zone : /\ rows[z] = NoRow /\ served[r][z] = NoFile
                             /\ nsd[r].zones[z] = NoFile
      BY <1>2 DEF Init
    <2>2. JobInv(r) /\ RowInv(r) /\ SerialInv(r) /\ LoadedInv(r) /\ CurrentInv(r)
      BY <2>1, NoJobFields, NoFileFields DEF JobInv, RowInv, SerialInv, LoadedInv, CurrentInv,
                                             Between, Settled, LoopIdle
    <2>3. SignedInv(r)
      BY <2>1, NoJobFields, NoFileFields DEF SignedInv, Between, Settled, LoopIdle
    <2> QED
      BY <2>2, <2>3 DEF Inv
  <1> QED
    BY <1>3, <1>4 DEF IInv

-----------------------------------------------------------------------------
(* The types, on any number of replicas (TypeOK). *)
THEOREM TypesCorrect == Spec => []TypeOK
  <1>1. Init => TypeInv
    BY Start DEF IInv
  <1>2. TypeInv => TypeOK
    BY DEF TypeInv
  <1> QED
    BY <1>1, <1>2, Typing, PTL DEF Spec

(* With one managerd, a settled loop means that nsd serves and opendkim    *)
(* signs what the store says, but for the runs that were cut short         *)
(* (SettledIsServed).                                                      *)
THEOREM SettledSafe ==
    ASSUME OneManagerd
    PROVE  Spec => []SettledIsServed
  <1>1. IInv => SettledIsServed
    <2> SUFFICES ASSUME IInv, NEW r \in Replica, Settled(r)
                 PROVE  /\ <<r, "nsd">> \notin missed =>
                              /\ nsd[r].conf = conf[r] /\ conf[r].setting = secondaries
                              /\ \A z \in Zone \ unsaved : nsd[r].zones[z].hash = content[z]
                        /\ <<r, "opendkim">> \notin missed =>
                              \A z \in MailZone : opendkim[r][z] = content[z]
      BY DEF SettledIsServed
    <2>1. job[r] = NoJob /\ Inv(r)
      BY DEF IInv, Inv, JobInv, Settled, LoopIdle
    <2>2. /\ conf[r].setting = secondaries
          /\ \A z \in Zone : rows[z].hash = content[z]
          /\ \A z \in MailZone : tables[r][z] = content[z]
      BY <2>1 DEF Inv, CurrentInv
    <2>3. \A z \in Zone \ unsaved : served[r][z].hash = rows[z].hash
      BY <2>1, NoJobFields DEF Inv, RowInv, Between
    <2> QED
      BY <2>1, <2>2, <2>3, NoJobFields DEF Inv, LoadedInv, Between
  <1>2. IInv /\ [Next]_vars => IInv'
    BY Step
  <1> QED
    BY <1>1, <1>2, Start, PTL DEF Spec

(* The signatures nsd hands out never expire there, but for runs that were *)
(* cut short (SignaturesValid).                                            *)
THEOREM SignaturesSafe ==
    ASSUME OneManagerd
    PROVE  Spec => []SignaturesValid
  <1>1. IInv => SignaturesValid
    BY DEF IInv, Inv, SignedInv, SignaturesValid
  <1>2. IInv /\ [Next]_vars => IInv'
    BY Step
  <1> QED
    BY <1>1, <1>2, Start, PTL DEF Spec

(* Secondaries never miss a change: what nsd serves of a zone changes only *)
(* to a larger serial (ServedChangeGrowsSerial).                           *)
THEOREM SerialsSafe ==
    ASSUME OneManagerd
    PROVE  Spec => ServedChangeGrowsSerial
  <1> DEFINE Grows == \A r \in Replica, z \in Zone \ unsaved :
                         nsd'[r].zones[z].hash # nsd[r].zones[z].hash
                             => nsd'[r].zones[z].serial > nsd[r].zones[z].serial
  <1>1. IInv /\ [Next]_vars => [Grows]_vars
    <2> SUFFICES ASSUME IInv, [Next]_vars
                 PROVE  Grows
      OBVIOUS
    <2>1. CASE nsd' = nsd
      BY <2>1
    <2>2. ASSUME NEW s \in Replica, ReloadNsd(s) \/ NsdRestarts(s)
          PROVE  Grows
      <3>1. \A r \in Replica : nsd'[r] = nsd[r] \/ nsd'[r].zones = served[r]
        BY <2>2 DEF ReloadNsd, NsdRestarts, IInv, TypeInv, TypeOK
      <3>2. \A r \in Replica : SerialInv(r)
        BY DEF IInv, Inv
      <3>3. \A r \in Replica, z \in Zone :
                served[r][z].serial \in Nat /\ nsd[r].zones[z].serial \in Nat
        BY Typed, Fields DEF IInv
      <3> QED
        BY <3>1, <3>2, <3>3 DEF SerialInv
    <2>3. ASSUME NEW s \in Replica, Work(s)
          PROVE  nsd' = nsd \/ ReloadNsd(s)
      BY <2>3 DEF Work, LoadInput, WriteConf, ReloadUnbound, WriteDkim, ReloadOpendkim,
                  RunFails, SkipZone, PickSerial, WriteZone, SaveRow
    <2> QED
      BY <2>1, <2>2, <2>3 DEF Next, DayPasses, Boot, Crash, Commit, TickFires, RetryFires,
                        TakeKick, vars
  <1>2. IInv /\ [Next]_vars => IInv'
    BY Step
  <1> QED
    BY <1>1, <1>2, Start, PTL DEF Spec, ServedChangeGrowsSerial
=============================================================================
