---------------------------- MODULE Materializer ----------------------------
(***************************************************************************)
(* The mail materializer (daemon/internal/materialize): Rebuild loads the  *)
(* mail tables of the store, renders the Postfix maps and the Dovecot      *)
(* passwd-file, and swaps in what changed.  It is the Do of a kick loop of *)
(* managerd, and boxctl recover password calls it in a process of its own, *)
(* in the same directory and with the same scratch names; nothing keeps    *)
(* the two apart.                                                          *)
(*                                                                         *)
(* A table is its current value; a file is the values of the tables it is  *)
(* rendered from.  The tables are read by separate queries, so others may  *)
(* commit in between.  Files survive a crash of the process.               *)
(***************************************************************************)
EXTENDS KickLoop, Sequences, FiniteSets

CONSTANTS
    Map,            \* the Postfix maps
    Value,          \* what a table may hold
    MaxChanges,     \* bound of the model: commits that are no recovery
    MaxRecoveries,  \* bound of the model: boxctl recover password
    MaxTroubles     \* bound of the model: failed runs, stops of managerd and
                    \* .db files removed by an operator

PostfixMaps ==
    {"virtual-mailbox-domains", "virtual-mailbox-maps",
     "virtual-alias-maps", "sender-login-maps"}

ASSUME MaterializerAssumption ==
    /\ Map \subseteq PostfixMaps
    /\ Value # {}
    /\ MaxChanges \in Nat /\ MaxRecoveries \in Nat /\ MaxTroubles \in Nat

Table == {"users", "slots", "aliases"}

PasswdFile == "dovecot-users"

File == Map \cup {PasswdFile}

Process == {"managerd", "boxctl"}

Other(p) == IF p = "managerd" THEN "boxctl" ELSE "managerd"

(* The order of loadSnapshot's queries. *)
Queries == <<"users", "slots", "aliases">>

(* The tables each file is rendered from.  System routes are aliases that  *)
(* are derived from users and aliases.                                     *)
Inputs(f) ==
    CASE f = "virtual-mailbox-maps" -> {"users"}
      [] f = "dovecot-users" -> {"users", "slots"}
      [] OTHER -> {"users", "aliases"}

(* What is no file; and what a postmap that died, or two writers of one    *)
(* file at the same time, leave behind.                                    *)
Absent == [absent |-> TRUE]
Partial == [partial |-> TRUE]

NoFile == "none"

Render(f, tables) == [t \in Inputs(f) |-> tables[t]]

Content(f) == [Inputs(f) -> Value]

(* A call of Rebuild: where it is, the tables it has read, how many of the *)
(* queries are done, the files it still has to look at, the map it is      *)
(* rebuilding.                                                             *)
Job == [pc : {"idle", "load", "files", "postmap", "swapDb", "swapText"},
        snap : [Table -> Value], reads : 0 .. Len(Queries),
        todo : SUBSET File, cur : Map \cup {NoFile}]

(* The tables of a new installation. *)
Empty == [t \in Table |-> CHOOSE v \in Value : TRUE]

NoJob == [pc |-> "idle", snap |-> Empty, reads |-> 0, todo |-> {}, cur |-> NoFile]

VARIABLES
    store,          \* the tables, as committed
    notifying,      \* handlers between their commit and mailDataChanged
    loop,           \* the kick loop of managerd
    job,            \* the Rebuild of each process
    text,           \* the installed file, for a map its text
    db,             \* the installed compiled file of each map
    scratch,        \* the text under the scratch name of each map
    scratchDb,      \* the compiled file under the scratch name
    interrupted,    \* history: maps whose .db went in and whose text did not
    alone,          \* history: the process no other one rebuilt beside
    crossed,        \* history: files written beside another process's run
    unheard,        \* history: tables changed behind managerd's back
    changes, recoveries, troubles

histories == <<interrupted, alone, crossed, unheard>>
bounds == <<changes, recoveries, troubles>>
files == <<text, db, scratch, scratchDb>>
vars == <<store, notifying, loop, job, files, histories, bounds>>

TypeOK ==
    /\ store \in [Table -> Value]
    /\ notifying \in Nat
    /\ loop \in LoopState
    /\ job \in [Process -> Job]
    /\ \A f \in File : text[f] \in Content(f) \cup {Absent, Partial}
    /\ \A m \in Map : /\ db[m] \in Content(m) \cup {Absent, Partial}
                      /\ scratch[m] \in Content(m) \cup {Absent}
                      /\ scratchDb[m] \in Content(m) \cup {Absent, Partial}
    /\ interrupted \subseteq Map
    /\ alone \in Process \cup {"nobody"}
    /\ crossed \subseteq File
    /\ unheard \subseteq Table

Init ==
    /\ store = Empty
    /\ notifying = 0
    /\ loop = LoopDown
    /\ job = [p \in Process |-> NoJob]
    /\ text = [f \in File |-> Absent]
    /\ db = [m \in Map |-> Absent]
    /\ scratch = [m \in Map |-> Absent]
    /\ scratchDb = [m \in Map |-> Absent]
    /\ interrupted = {} /\ alone = "nobody" /\ crossed = {} /\ unheard = {}
    /\ changes = 0 /\ recoveries = 0 /\ troubles = 0

Rebuilding(p) == job[p].pc # "idle"

-----------------------------------------------------------------------------
(* The world around the loop. *)

Boot ==
    /\ ~loop.up
    /\ loop' = LoopBooted
    /\ UNCHANGED <<store, notifying, job, files, histories, bounds>>

(* A row may be created and deleted again: values come back. *)
Changed(t) == \E v \in Value \ {store[t]} : store' = [store EXCEPT ![t] = v]

(* A handler of managerd changes a table, then notifies the loop. *)
Commit(t) ==
    /\ loop.up
    /\ changes < MaxChanges
    /\ changes' = changes + 1
    /\ Changed(t)
    /\ notifying' = notifying + 1
    /\ UNCHANGED <<loop, job, files, histories, recoveries, troubles>>

Notify ==
    /\ notifying > 0
    /\ notifying' = notifying - 1
    /\ loop' = Kicked(loop)
    /\ UNCHANGED <<store, job, files, histories, bounds>>

(* A change nobody tells the loop of: the handlers of encryption insert    *)
(* and delete key slots without mailDataChanged, and the other commands of *)
(* boxctl recover (roles, key slots) only write the store.                 *)
CommitUnheard(t) ==
    /\ changes < MaxChanges
    /\ changes' = changes + 1
    /\ Changed(t)
    /\ unheard' = unheard \cup {t}
    /\ UNCHANGED <<notifying, loop, job, files, interrupted, alone, crossed, recoveries,
                   troubles>>

DbDeleted(m) ==
    /\ troubles < MaxTroubles
    /\ db[m] # Absent
    /\ troubles' = troubles + 1
    /\ db' = [db EXCEPT ![m] = Absent]
    /\ UNCHANGED <<store, notifying, loop, job, text, scratch, scratchDb, histories, changes,
                   recoveries>>

TickFires ==
    /\ loop.up
    /\ loop' = Kicked(loop)
    /\ UNCHANGED <<store, notifying, job, files, histories, bounds>>

RetryFires ==
    /\ loop.up /\ loop.retries > 0
    /\ loop' = RetryFired(loop)
    /\ UNCHANGED <<store, notifying, job, files, histories, bounds>>

-----------------------------------------------------------------------------
(* Beginning and end of a Rebuild. *)

(* p begins, and is alone until the other process begins, too.  What the   *)
(* other one has in hand already is marked.                                *)
Begins(p) ==
    /\ job' = [job EXCEPT ![p] = [NoJob EXCEPT !.pc = "load"]]
    /\ alone' = IF Rebuilding(Other(p)) THEN "nobody" ELSE p
    /\ crossed' = crossed \cup ({job[Other(p)].cur} \cap Map)

TakeKick ==
    /\ CanTake(loop)
    /\ loop' = Taken(loop)
    /\ Begins("managerd")
    /\ UNCHANGED <<store, notifying, files, interrupted, unheard, bounds>>

(* boxctl recover password: SetPassword commits the new hash, and the      *)
(* command rebuilds by itself.                                             *)
Recover ==
    /\ ~Rebuilding("boxctl")
    /\ recoveries < MaxRecoveries
    /\ recoveries' = recoveries + 1
    /\ Changed("users")
    /\ unheard' = unheard \cup {"users"}
    /\ Begins("boxctl")
    /\ UNCHANGED <<notifying, loop, files, interrupted, changes, troubles>>

(* A run that ends between the two renames leaves the .db ahead of the     *)
(* text; postmap that dies leaves part of a file under the scratch name.   *)
Abandoned(p) ==
    /\ job' = [job EXCEPT ![p] = NoJob]
    /\ alone' = IF alone = p THEN "nobody" ELSE alone
    /\ interrupted' = interrupted \cup IF job[p].pc = "swapText" THEN {job[p].cur} ELSE {}
    /\ scratchDb' = IF job[p].pc = "postmap"
                    THEN [scratchDb EXCEPT ![job[p].cur] = Partial] ELSE scratchDb

Crash ==
    /\ loop.up
    /\ troubles < MaxTroubles
    /\ troubles' = troubles + 1
    /\ loop' = LoopDown
    /\ notifying' = 0
    /\ Abandoned("managerd")
    /\ UNCHANGED <<store, text, db, scratch, crossed, unheard, changes, recoveries>>

(* The other process has renamed away what p is about to compile or to     *)
(* rename itself.                                                          *)
Gone(p) ==
    \/ job[p].pc \in {"postmap", "swapText"} /\ scratch[job[p].cur] = Absent
    \/ job[p].pc = "swapDb" /\ scratchDb[job[p].cur] = Absent

(* Any of the steps may fail; the loop arms a retry, boxctl exits. *)
RunFails(p) ==
    /\ Rebuilding(p)
    /\ \/ troubles < MaxTroubles /\ troubles' = troubles + 1
       \/ Gone(p) /\ UNCHANGED troubles
    /\ loop' = IF p = "managerd" THEN Failed(loop) ELSE loop
    /\ Abandoned(p)
    /\ UNCHANGED <<store, notifying, text, db, scratch, crossed, unheard, changes, recoveries>>

-----------------------------------------------------------------------------
(* Rebuild, one step per query and per change of a file. *)

(* loadSnapshot: one query per table, no transaction; then the files are   *)
(* rendered.                                                               *)
LoadTable(p) ==
    LET t == Queries[job[p].reads + 1] IN
    /\ job[p].pc = "load" /\ job[p].reads < Len(Queries)
    /\ job' = IF job[p].reads + 1 < Len(Queries)
              THEN [job EXCEPT ![p].reads = @ + 1, ![p].snap[t] = store[t]]
              ELSE [job EXCEPT ![p].reads = @ + 1, ![p].snap[t] = store[t],
                               ![p].pc = "files", ![p].todo = File]
    /\ unheard' = IF p = "managerd" THEN unheard \ {t} ELSE unheard
    /\ UNCHANGED <<store, notifying, loop, files, interrupted, alone, crossed, bounds>>

(* What p comes to install under a name: beside another process's run the  *)
(* file of that content may be half written by the other one, which uses   *)
(* the same scratch names.                                                 *)
Outcome(p, content) == IF alone = p THEN {content} ELSE {content, Partial}

(* A file written beside another process's run is marked, until a process  *)
(* installs it alone.                                                      *)
Marked(p, f) == IF alone = p THEN crossed ELSE crossed \cup {f}
Installed(p, f) == IF alone = p THEN crossed \ {f} ELSE crossed \cup {f}

(* Mutant: the text alone decides whether a map is up to date. *)
UpToDateByText(p, m) == text[m] = Render(m, job[p].snap)

UpToDate(p, m) == text[m] = Render(m, job[p].snap) /\ db[m] # Absent

(* The maps are visited in the random order of a Go map. *)
SkipMap(p, m) ==
    /\ job[p].pc = "files" /\ m \in job[p].todo
    /\ UpToDate(p, m)
    /\ job' = [job EXCEPT ![p].todo = @ \ {m}]
    /\ UNCHANGED <<store, notifying, loop, files, histories, bounds>>

(* Mutant: the new text goes straight to its final name. *)
WriteInPlace(p, m) ==
    /\ job[p].pc = "files" /\ m \in job[p].todo
    /\ ~UpToDate(p, m)
    /\ job' = [job EXCEPT ![p].pc = "postmap", ![p].cur = m]
    /\ scratch' = [scratch EXCEPT ![m] = Render(m, job[p].snap)]
    /\ text' = [text EXCEPT ![m] = Render(m, job[p].snap)]
    /\ crossed' = Marked(p, m)
    /\ UNCHANGED <<store, notifying, loop, db, scratchDb, interrupted, alone, unheard, bounds>>

WriteScratch(p, m) ==
    /\ job[p].pc = "files" /\ m \in job[p].todo
    /\ ~UpToDate(p, m)
    /\ job' = [job EXCEPT ![p].pc = "postmap", ![p].cur = m]
    /\ scratch' = [scratch EXCEPT ![m] = Render(m, job[p].snap)]
    /\ crossed' = Marked(p, m)
    /\ UNCHANGED <<store, notifying, loop, text, db, scratchDb, interrupted, alone, unheard,
                   bounds>>

Postmap(p) ==
    LET m == job[p].cur IN
    /\ job[p].pc = "postmap" /\ ~Gone(p)
    /\ job' = [job EXCEPT ![p].pc = "swapDb"]
    /\ scratchDb' = [scratchDb EXCEPT ![m] = scratch[m]]
    /\ crossed' = Marked(p, m)
    /\ UNCHANGED <<store, notifying, loop, text, db, scratch, interrupted, alone, unheard,
                   bounds>>

RenameDb(p) ==
    LET m == job[p].cur IN
    /\ job[p].pc = "swapDb" /\ ~Gone(p)
    /\ job' = [job EXCEPT ![p].pc = "swapText"]
    /\ \E c \in Outcome(p, scratchDb[m]) : db' = [db EXCEPT ![m] = c]
    /\ scratchDb' = [scratchDb EXCEPT ![m] = Absent]
    /\ crossed' = Marked(p, m)
    /\ UNCHANGED <<store, notifying, loop, text, scratch, interrupted, alone, unheard, bounds>>

RenameText(p) ==
    LET m == job[p].cur IN
    /\ job[p].pc = "swapText" /\ ~Gone(p)
    /\ job' = [job EXCEPT ![p].pc = "files", ![p].cur = NoFile, ![p].todo = @ \ {m}]
    /\ \E c \in Outcome(p, scratch[m]) : text' = [text EXCEPT ![m] = c]
    /\ scratch' = [scratch EXCEPT ![m] = Absent]
    /\ interrupted' = interrupted \ {m}
    /\ crossed' = Installed(p, m)
    /\ UNCHANGED <<store, notifying, loop, db, scratchDb, alone, unheard, bounds>>

(* The passwd-file is last and ends the run; one process alone writes it   *)
(* atomically, through a name of its own.  When boxctl was alone all along *)
(* managerd need not hear of what it has read.                             *)
WritePasswdFile(p) ==
    LET snap == job[p].snap IN
    /\ job[p].pc = "files" /\ job[p].todo = {PasswdFile}
    /\ job' = [job EXCEPT ![p] = NoJob]
    /\ alone' = "nobody"
    /\ \E c \in Outcome(p, Render(PasswdFile, snap)) :
          text' = [text EXCEPT ![PasswdFile] = c]
    /\ loop' = IF p = "managerd" THEN Finished(loop) ELSE loop
    /\ crossed' = Installed(p, PasswdFile)
    /\ unheard' = IF p = "boxctl" /\ alone = p THEN {t \in unheard : snap[t] # store[t]}
                  ELSE unheard
    /\ UNCHANGED <<store, notifying, db, scratch, scratchDb, interrupted, bounds>>

Work(p) ==
    \/ LoadTable(p)
    \/ \E m \in Map : SkipMap(p, m) \/ WriteScratch(p, m)
    \/ Postmap(p) \/ RenameDb(p) \/ RenameText(p) \/ WritePasswdFile(p) \/ RunFails(p)

Next ==
    \/ Boot \/ Crash \/ Notify \/ TickFires \/ RetryFires \/ TakeKick \/ Recover
    \/ \E p \in Process : Work(p)
    \/ \E t \in UNION {Inputs(f) : f \in File} : Commit(t)
    \/ \E t \in {"users", "slots"} : CommitUnheard(t)
    \/ \E m \in Map : DbDeleted(m)

(* systemd restarts managerd, a handler that has committed goes on to      *)
(* notify, timers fire, goroutines and commands run.                       *)
Fairness ==
    /\ WF_vars(Boot) /\ WF_vars(Notify) /\ WF_vars(TickFires) /\ WF_vars(RetryFires)
    /\ WF_vars(TakeKick) /\ \A p \in Process : WF_vars(Work(p))

Spec == Init /\ [][Next]_vars

FairSpec == Spec /\ Fairness

-----------------------------------------------------------------------------
(* Nothing is running, nothing is going to run before the next tick, and   *)
(* no handler is about to ask for a run.                                   *)
Settled == LoopIdle(loop) /\ notifying = 0

(* "Readers see the old complete map or the new complete map, never a      *)
(* partial one", and where no run was cut short between the two renames,   *)
(* it is the compilation of the text beside it, if it is there.  This is   *)
(* what entitles rebuildPostfixMap to skip a map by looking at its text.   *)
(* A map that a run of managerd and a run of boxctl wrote side by side is  *)
(* excepted, until it is written again by one of them alone.               *)
TextSpeaksForDb ==
    \A m \in Map \ crossed :
        /\ db[m] # Partial
        /\ \/ m \in interrupted
           \/ \E p \in Process : job[p].pc = "swapText" /\ job[p].cur = m
           \/ db[m] \in {text[m], Absent}

(* With the loop settled, every file is what the committed tables render   *)
(* to, in spite of queries that straddled commits, failed runs and         *)
(* crashes, and in spite of a recovery whose run no other one crossed,     *)
(* from the moment it ends.  Excepted are the files of a table that        *)
(* changed without a kick (the next tick finds them), the files two        *)
(* processes wrote side by side, a removed .db, which waits for the next   *)
(* tick, and a map whose last run was cut short between its renames.       *)
SettledIsCurrent ==
    Settled =>
        \A f \in File \ crossed :
            Inputs(f) \cap unheard = {} =>
                /\ text[f] = Render(f, store)
                /\ f \in Map => f \in interrupted \/ db[f] \in {Render(f, store), Absent}

(* Once commits, recoveries, failures, crashes and removals stop, Postfix  *)
(* and Dovecot get to read the committed tables for good.                  *)
EventuallyCurrent ==
    <>[](/\ \A m \in Map : db[m] = Render(m, store) \/ m \in interrupted \cup crossed
         /\ text[PasswdFile] = Render(PasswdFile, store))
=============================================================================
