------------------------------ MODULE DnsApply ------------------------------
(***************************************************************************)
(* The DNS applier of managerd (daemon/internal/dnsapply): a kick loop     *)
(* whose Do builds the zones from the store, writes and signs the zone     *)
(* files that changed, and has the helper reload the services.  Serials    *)
(* and the hashes that decide what changed live in ZoneSerial rows of the  *)
(* store, which the replicas share; zone files and nsd are each replica's  *)
(* own.                                                                    *)
(*                                                                         *)
(* A handler's commit and its kick are one step here; the gap between them *)
(* is the subject of Rebuilder.  loadInput is one step.                    *)
(***************************************************************************)
EXTENDS KickLoop, FiniteSets

CONSTANTS
    Replica, Zone,
    SignedZone,     \* the zones for which there are signing keys
    MailZone,       \* the zones with mail domains, which opendkim signs for
    Value,          \* what a zone, or the list of secondaries, may hold
    PerDay,         \* serials of one day (00 to 99 in the code)
    Validity,       \* for how long ldns-signzone signs
    Margin,         \* renewal is due when less than this is left
    MaxDay, MaxChanges, MaxFailures, MaxCrashes     \* bounds of the model

ASSUME DnsApplyAssumption ==
    /\ SignedZone \subseteq Zone /\ MailZone \subseteq Zone
    /\ Value # {} /\ 0 \notin Value
    /\ PerDay \in Nat \ {0}
    /\ Margin \in Nat /\ Validity \in Nat /\ 1 < Margin /\ Margin < Validity
    /\ MaxDay \in Nat /\ MaxChanges \in Nat /\ MaxFailures \in Nat /\ MaxCrashes \in Nat

VARIABLES
    day,            \* the clock
    content,        \* the zones BuildZones makes of the store
    secondaries,    \* the secondary nameservers setting
    rows,           \* ZoneSerial rows: serial and content hash
    loop,           \* each replica's kick loop
    ticked,         \* the last day on which each loop has ticked
    job,            \* the local state of each replica's Rebuild
    served,         \* each replica's zone files
    conf,           \* each replica's nsd.conf
    nsd,            \* what each replica's nsd has loaded
    tables,         \* each replica's opendkim tables
    opendkim,       \* the tables each replica's opendkim has loaded
    missed,         \* history: services that missed a written change
    unsaved,        \* history: zones with a file whose row was not saved
    changes, failures, crashes

store == <<content, secondaries, rows>>
disk == <<served, conf>>
dkim == <<tables, opendkim>>
vars == <<day, store, loop, ticked, job, disk, nsd, dkim, missed, unsaved, changes, failures, crashes>>

(* No row, or no file. *)
NoRow == [serial |-> 0, hash |-> 0]
NoFile == [serial |-> 0, hash |-> 0, expires |-> 0]

File == [serial : Nat, hash : Value \cup {0}, expires : Nat]

(* nsd.conf: the setting it was rendered from, and whether every secondary *)
(* resolved, or one was left out of the transfer permissions.              *)
Conf == [setting : Value \cup {0}, resolved : BOOLEAN]
NoConf == [setting |-> 0, resolved |-> TRUE]

NoJob == [pc |-> "load", input |-> [z \in Zone |-> 0], sec |-> 0, left |-> {}, zone |-> {},
          serial |-> 0, changed |-> FALSE]

TypeOK ==
    /\ day \in 0 .. MaxDay
    /\ content \in [Zone -> Value]
    /\ secondaries \in Value
    /\ rows \in [Zone -> [serial : Nat, hash : Value \cup {0}]]
    /\ loop \in [Replica -> LoopState]
    /\ ticked \in [Replica -> 0 .. MaxDay]
    /\ \A r \in Replica :
          /\ job[r].pc \in {"load", "zones", "write", "save", "nsd", "unbound",
                            "dkim", "opendkim"}
          /\ job[r].left \subseteq Zone /\ job[r].zone \subseteq Zone
          /\ job[r].serial \in Nat
    /\ served \in [Replica -> [Zone -> File]]
    /\ conf \in [Replica -> Conf]
    /\ nsd \in [Replica -> [zones : [Zone -> File], conf : Conf]]
    /\ tables \in [Replica -> [MailZone -> Value \cup {0}]]
    /\ opendkim \in [Replica -> [MailZone -> Value \cup {0}]]
    /\ missed \subseteq Replica \X {"nsd", "opendkim"} /\ unsaved \subseteq Zone

Init ==
    /\ day = 0
    /\ content = [z \in Zone |-> CHOOSE v \in Value : TRUE]
    /\ secondaries = CHOOSE v \in Value : TRUE
    /\ rows = [z \in Zone |-> NoRow]
    /\ loop = [r \in Replica |-> LoopDown]
    /\ ticked = [r \in Replica |-> 0]
    /\ job = [r \in Replica |-> NoJob]
    /\ served = [r \in Replica |-> [z \in Zone |-> NoFile]]
    /\ conf = [r \in Replica |-> NoConf]
    /\ nsd = [r \in Replica |-> [zones |-> [z \in Zone |-> NoFile], conf |-> NoConf]]
    /\ tables = [r \in Replica |-> [z \in MailZone |-> 0]]
    /\ opendkim = tables
    /\ missed = {} /\ unsaved = {}
    /\ changes = 0 /\ failures = 0 /\ crashes = 0

-----------------------------------------------------------------------------
(* The world around the loops. *)

Settled(r) == LoopIdle(loop[r])

(* A day is long: every loop has ticked, and got to the end of its run. *)
DayPasses ==
    /\ day < MaxDay
    /\ \A r \in Replica : Settled(r) /\ ticked[r] = day
    /\ day' = day + 1
    /\ UNCHANGED <<store, loop, ticked, job, disk, nsd, dkim, missed, unsaved, changes, failures, crashes>>

Commit(r) ==
    /\ loop[r].up
    /\ changes < MaxChanges
    /\ changes' = changes + 1
    /\ \/ /\ \E z \in Zone, v \in Value : content[z] # v /\ content' = [content EXCEPT ![z] = v]
          /\ UNCHANGED secondaries
       \/ /\ \E v \in Value : secondaries # v /\ secondaries' = v
          /\ UNCHANGED content
    /\ loop' = [loop EXCEPT ![r] = Kicked(@)]
    /\ UNCHANGED <<day, rows, ticked, job, disk, nsd, dkim, missed, unsaved, failures, crashes>>

Boot(r) ==
    /\ ~loop[r].up
    /\ loop' = [loop EXCEPT ![r] = LoopBooted]
    /\ UNCHANGED <<day, store, ticked, job, disk, nsd, dkim, missed, unsaved, changes, failures, crashes>>

TickFires(r) ==
    /\ loop[r].up
    /\ loop' = [loop EXCEPT ![r] = Kicked(@)]
    /\ ticked' = [ticked EXCEPT ![r] = day]
    /\ UNCHANGED <<day, store, job, disk, nsd, dkim, missed, unsaved, changes, failures, crashes>>

RetryFires(r) ==
    /\ loop[r].up /\ loop[r].retries > 0
    /\ loop' = [loop EXCEPT ![r] = RetryFired(@)]
    /\ UNCHANGED <<day, store, ticked, job, disk, nsd, dkim, missed, unsaved, changes, failures, crashes>>

(* A run that ends before a service was reloaded although a file of this   *)
(* replica has changed: no later run will find that file changed.          *)
Missed(r) ==
    missed \cup (IF job[r].pc = "nsd" \/ job[r].changed THEN {<<r, "nsd">>} ELSE {})
           \cup (IF job[r].pc = "opendkim" THEN {<<r, "opendkim">>} ELSE {})

(* A run that ends between a zone file and its row. *)
Unsaved(r) == unsaved \cup IF job[r].pc = "save" THEN job[r].zone ELSE {}

Crash(r) ==
    /\ loop[r].up
    /\ crashes < MaxCrashes
    /\ crashes' = crashes + 1
    /\ loop' = [loop EXCEPT ![r] = LoopDown]
    /\ job' = [job EXCEPT ![r] = NoJob]
    /\ missed' = Missed(r) /\ unsaved' = Unsaved(r)
    /\ UNCHANGED <<day, store, ticked, disk, nsd, dkim, changes, failures>>

(* nsd by itself reads the files again when it is restarted. *)
NsdRestarts(r) ==
    /\ crashes < MaxCrashes
    /\ crashes' = crashes + 1
    /\ nsd' = [nsd EXCEPT ![r] = [zones |-> served[r], conf |-> conf[r]]]
    /\ UNCHANGED <<day, store, loop, ticked, job, disk, dkim, missed, unsaved, changes, failures>>

-----------------------------------------------------------------------------
(* Rebuild *)

TakeKick(r) ==
    /\ CanTake(loop[r])
    /\ loop' = [loop EXCEPT ![r] = Taken(@)]
    /\ job' = [job EXCEPT ![r] = NoJob]
    /\ UNCHANGED <<day, store, ticked, disk, nsd, dkim, missed, unsaved, changes, failures, crashes>>

LoadInput(r) ==
    /\ loop[r].doing /\ job[r].pc = "load"
    /\ job' = [job EXCEPT ![r] = [job[r] EXCEPT !.pc = "zones", !.input = content,
                                                !.sec = secondaries, !.left = Zone]]
    /\ UNCHANGED <<day, store, loop, ticked, disk, nsd, dkim, missed, unsaved, changes, failures, crashes>>

(* Mutant: every change of a day gets the day's first serial. *)
NextSerialByDate(current, d) == 1 + PerDay * d

(* Today's date-based serial, or the next one when that is already used. *)
NextSerial(current, d) ==
    LET today == 1 + PerDay * d
    IN  IF current >= today THEN current + 1 ELSE today

(* Mutant: signatures are renewed once they have expired. *)
SignatureNeedsRenewalLate(f) == f.expires < day

SignatureNeedsRenewal(f) == f.expires < day + Margin

(* Unchanged content, served file present, signatures fresh. *)
UpToDate(r, z) ==
    /\ rows[z].hash = job[r].input[z]
    /\ served[r][z] # NoFile
    /\ z \in SignedZone => ~SignatureNeedsRenewal(served[r][z])

SkipZone(r, z) ==
    /\ loop[r].doing /\ job[r].pc = "zones" /\ z \in job[r].left
    /\ UpToDate(r, z)
    /\ job' = [job EXCEPT ![r] = [job[r] EXCEPT !.left = job[r].left \ {z}]]
    /\ UNCHANGED <<day, store, loop, ticked, disk, nsd, dkim, missed, unsaved, changes, failures, crashes>>

(* The serial derives from the row as it was read. *)
PickSerial(r, z) ==
    /\ loop[r].doing /\ job[r].pc = "zones" /\ z \in job[r].left
    /\ ~UpToDate(r, z)
    /\ job' = [job EXCEPT ![r] = [job[r] EXCEPT !.pc = "write", !.zone = {z},
                                                !.serial = NextSerial(rows[z].serial, day)]]
    /\ UNCHANGED <<day, store, loop, ticked, disk, nsd, dkim, missed, unsaved, changes, failures, crashes>>

(* WriteSync, and signZone when there are keys: the served file is new. *)
WriteZone(r, z) ==
    /\ loop[r].doing /\ job[r].pc = "write" /\ z \in job[r].zone
    /\ served' = [served EXCEPT ![r][z] =
                     [serial |-> job[r].serial, hash |-> job[r].input[z],
                      expires |-> IF z \in SignedZone THEN day + Validity ELSE 0]]
    /\ job' = [job EXCEPT ![r] = [job[r] EXCEPT !.pc = "save"]]
    /\ UNCHANGED <<day, store, loop, ticked, conf, nsd, dkim, missed, unsaved, changes, failures, crashes>>

(* Mutant: the last zone decides whether there is anything to reload. *)
SaveRowForgetting(r, z) ==
    /\ loop[r].doing /\ job[r].pc = "save" /\ z \in job[r].zone
    /\ rows' = [rows EXCEPT ![z] = [serial |-> job[r].serial, hash |-> job[r].input[z]]]
    /\ job' = [job EXCEPT ![r] = [job[r] EXCEPT !.pc = "zones", !.zone = {},
                                                !.left = job[r].left \ {z},
                                                !.changed = (job[r].left = {z})]]
    /\ UNCHANGED <<day, content, secondaries, loop, ticked, disk, nsd, dkim, missed, unsaved, changes,
                   failures, crashes>>

SaveRow(r, z) ==
    /\ loop[r].doing /\ job[r].pc = "save" /\ z \in job[r].zone
    /\ rows' = [rows EXCEPT ![z] = [serial |-> job[r].serial, hash |-> job[r].input[z]]]
    /\ job' = [job EXCEPT ![r] = [job[r] EXCEPT !.pc = "zones", !.zone = {},
                                                !.left = job[r].left \ {z},
                                                !.changed = TRUE]]
    /\ UNCHANGED <<day, content, secondaries, loop, ticked, disk, nsd, dkim, missed, unsaved, changes,
                   failures, crashes>>

(* applyNSDConf writes the conf if it changed; only a change is reloaded.  *)
(* transferAddresses leaves out a secondary whose name does not resolve,   *)
(* and the run goes on.                                                    *)
WriteConf(r) ==
    \E resolved \in BOOLEAN :
        LET new == [setting |-> job[r].sec, resolved |-> resolved] IN
        /\ loop[r].doing /\ job[r].pc = "zones" /\ job[r].left = {}
        /\ resolved \/ failures < MaxFailures
        /\ failures' = IF resolved THEN failures ELSE failures + 1
        /\ conf' = [conf EXCEPT ![r] = new]
        /\ IF job[r].changed \/ conf[r] # new
           THEN job' = [job EXCEPT ![r] = [job[r] EXCEPT !.pc = "nsd"]]
           ELSE job' = [job EXCEPT ![r] = [job[r] EXCEPT !.pc = "dkim"]]
        /\ UNCHANGED <<day, store, loop, ticked, served, nsd, dkim, missed, unsaved, changes, crashes>>

(* The helper reloads nsd, which reads every zone file and the conf. *)
ReloadNsd(r) ==
    /\ loop[r].doing /\ job[r].pc = "nsd"
    /\ nsd' = [nsd EXCEPT ![r] = [zones |-> served[r], conf |-> conf[r]]]
    /\ missed' = missed \ {<<r, "nsd">>}
    /\ unsaved' = {z \in unsaved : rows[z].serial # served[r][z].serial}
    /\ job' = [job EXCEPT ![r] = [job[r] EXCEPT !.pc = "unbound", !.changed = FALSE]]
    /\ UNCHANGED <<day, store, loop, ticked, disk, dkim, changes, failures, crashes>>

ReloadUnbound(r) ==
    /\ loop[r].doing /\ job[r].pc = "unbound"
    /\ job' = [job EXCEPT ![r] = [job[r] EXCEPT !.pc = "dkim"]]
    /\ UNCHANGED <<day, store, loop, ticked, disk, nsd, dkim, missed, unsaved, changes, failures, crashes>>

(* applyOpenDKIM, and the end of a run that finds its tables unchanged. *)
WriteDkim(r) ==
    /\ loop[r].doing /\ job[r].pc = "dkim"
    /\ tables' = [tables EXCEPT ![r] = [z \in MailZone |-> job[r].input[z]]]
    /\ IF tables'[r] # tables[r]
       THEN /\ job' = [job EXCEPT ![r] = [job[r] EXCEPT !.pc = "opendkim"]]
            /\ UNCHANGED loop
       ELSE /\ job' = [job EXCEPT ![r] = NoJob]
            /\ loop' = [loop EXCEPT ![r] = Finished(@)]
    /\ UNCHANGED <<day, store, ticked, disk, nsd, opendkim, missed, unsaved, changes, failures, crashes>>

ReloadOpendkim(r) ==
    /\ loop[r].doing /\ job[r].pc = "opendkim"
    /\ opendkim' = [opendkim EXCEPT ![r] = tables[r]]
    /\ missed' = missed \ {<<r, "opendkim">>}
    /\ job' = [job EXCEPT ![r] = NoJob]
    /\ loop' = [loop EXCEPT ![r] = Finished(@)]
    /\ UNCHANGED <<day, store, ticked, disk, nsd, tables, unsaved, changes, failures, crashes>>

(* A query, a write, the signer or a reload fails and ends the run. *)
RunFails(r) ==
    /\ loop[r].doing
    /\ failures < MaxFailures
    /\ failures' = failures + 1
    /\ loop' = [loop EXCEPT ![r] = Failed(@)]
    /\ job' = [job EXCEPT ![r] = NoJob]
    /\ missed' = Missed(r) /\ unsaved' = Unsaved(r)
    /\ UNCHANGED <<day, store, ticked, disk, nsd, dkim, changes, crashes>>

Work(r) ==
    \/ LoadInput(r) \/ WriteConf(r) \/ ReloadNsd(r) \/ ReloadUnbound(r)
    \/ WriteDkim(r) \/ ReloadOpendkim(r) \/ RunFails(r)
    \/ \E z \in Zone : SkipZone(r, z) \/ PickSerial(r, z) \/ WriteZone(r, z) \/ SaveRow(r, z)

Next ==
    \/ DayPasses
    \/ \E r \in Replica :
          \/ Boot(r) \/ Crash(r) \/ NsdRestarts(r) \/ Commit(r) \/ TickFires(r) \/ RetryFires(r)
          \/ TakeKick(r) \/ Work(r)

Spec == Init /\ [][Next]_vars

-----------------------------------------------------------------------------
(* Secondaries transfer a zone when its serial has grown: whenever nsd     *)
(* begins to serve another content for a zone, it has a larger serial, on  *)
(* a box with one managerd, unless a run was cut short between a zone file *)
(* and its row.                                                            *)
ServedChangeGrowsSerial ==
    [][\A r \in Replica, z \in Zone \ unsaved :
          nsd'[r].zones[z].hash # nsd[r].zones[z].hash
              => nsd'[r].zones[z].serial > nsd[r].zones[z].serial]_vars

(* With the loop settled, nsd serves what the store says, to the           *)
(* secondaries of the setting whose names resolved in the last run, and    *)
(* opendkim signs for its domains, unless a run was cut short after it had *)
(* written a file of theirs.                                               *)
SettledIsServed ==
    \A r \in Replica : Settled(r) =>
        /\ <<r, "nsd">> \notin missed =>
              /\ nsd[r].conf = conf[r] /\ conf[r].setting = secondaries
              /\ \A z \in Zone \ unsaved : nsd[r].zones[z].hash = content[z]
        /\ <<r, "opendkim">> \notin missed =>
              \A z \in MailZone : opendkim[r][z] = content[z]

(* The signatures nsd hands out are valid: the tick renews them in time,   *)
(* with no change to any record, unless a run was cut short.               *)
SignaturesValid ==
    \A r \in Replica, z \in SignedZone \ unsaved :
        nsd[r].zones[z] # NoFile /\ <<r, "nsd">> \notin missed
            => nsd[r].zones[z].expires > day
=============================================================================
