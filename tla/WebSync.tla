------------------------------- MODULE WebSync ------------------------------
(***************************************************************************)
(* The web tier: managerd's applier (webapply/apply.go) sends the routing  *)
(* model to helperd, which renders it, reconciles the sites directory,     *)
(* tests the result and reloads nginx (helper/websync.go) one request at a *)
(* time (helper/server.go).                                                *)
(*                                                                         *)
(* A site file is a number, its contents; Absent means no file and User a  *)
(* file without the managed mark.  Rendering is a function of the model    *)
(* sent, so a model is the files it renders to.  helperd and managerd stop *)
(* and start at any point; the operator edits files at any point.          *)
(***************************************************************************)
EXTENDS KickLoop, FiniteSets

CONSTANTS
    File,           \* names in the sites directory
    Content,        \* contents a managed file can have
    Bad,            \* contents that nginx -t rejects
    Absent, User,
    MaxChanges,     \* bound of the model: changes of the routing model
    MaxEvents       \* bound of the model: stops, failing commands and edits

ASSUME WebSyncAssumption ==
    /\ Bad \subseteq Content
    /\ Absent # User /\ Absent \notin Content /\ User \notin Content
    /\ MaxChanges \in Nat /\ MaxEvents \in Nat

VARIABLES
    model,          \* the model in the store, as the files it renders to
    notifying,      \* a handler is between its commit and its kick
    loop,           \* the applier's kick loop
    waiting,        \* requests that helperd has accepted and not begun
    disk,           \* the sites directory
    running,        \* the files nginx runs with
    sync,           \* the sync helperd executes
    torn,           \* history: helperd stopped in a sync or left one half rolled back, and
                    \* none has passed the test since
    unreloaded,     \* history: files are on disk that nginx was not told of
    overtaken,      \* history: an abandoned request ran after a newer one
    unkicked,       \* history: half a reset was committed, and no run has read the store since
    edited,         \* history: files the operator edited and nginx has not loaded since
    raced,          \* history: those edited after the last sync had looked at them
    changes, events

webVars == <<model, notifying, loop, waiting, disk, running, sync, torn, unreloaded, overtaken,
          unkicked, edited, raced, changes, events>>

Files == [File -> Content \cup {Absent}]
Directory == [File -> Content \cup {Absent, User}]

NoFiles == [f \in File |-> Absent]

(* awaited: the applier still waits for the answer.  late: abandoned, and  *)
(* a newer request has been carried out since.                             *)
Request == [files : Files, awaited : BOOLEAN, late : BOOLEAN]

NoSync == [pc |-> "idle", awaited |-> FALSE, files |-> NoFiles, prior |-> NoFiles, foreign |-> {},
           changed |-> FALSE]

WebTypeOK ==
    /\ model \in Files
    /\ notifying \in BOOLEAN
    /\ loop \in LoopState
    /\ waiting \subseteq Request
    /\ disk \in Directory /\ running \in Directory
    /\ sync.pc \in {"down", "idle", "write", "test", "rollback", "reload"}
    /\ sync.files \in Files /\ sync.prior \in Files /\ sync.foreign \subseteq File
    /\ torn \in BOOLEAN /\ unreloaded \in BOOLEAN /\ overtaken \in BOOLEAN /\ unkicked \in BOOLEAN
    /\ edited \subseteq File /\ raced \subseteq File

WebInit ==
    /\ model \in Files /\ \A f \in File : model[f] \notin Bad
    /\ notifying = FALSE
    /\ loop = LoopBooted
    /\ waiting = {}
    /\ disk = NoFiles /\ running = NoFiles
    /\ sync = NoSync
    /\ torn = FALSE /\ unreloaded = FALSE /\ overtaken = FALSE /\ unkicked = FALSE
    /\ edited = {} /\ raced = {}
    /\ changes = 0 /\ events = 0

webHistory == <<torn, unreloaded, overtaken, unkicked, edited, raced>>
Event == events < MaxEvents /\ events' = events + 1

(* The applier waits for an answer that is still to come. *)
Awaiting == sync.awaited \/ \E q \in waiting : q.awaited

-----------------------------------------------------------------------------
(* managerd *)

(* A handler commits a change of the model, then kicks. *)
Commit ==
    /\ loop.up /\ ~notifying
    /\ changes < MaxChanges
    /\ changes' = changes + 1
    /\ model' \in Files \ {model}
    /\ notifying' = TRUE
    /\ UNCHANGED <<loop, waiting, disk, running, sync, webHistory, events>>

(* handleWebDomainReset deletes the rules and then the row; when the       *)
(* second statement fails, the first stands and nothing is kicked.         *)
ResetFails ==
    /\ loop.up /\ changes < MaxChanges
    /\ Event
    /\ changes' = changes + 1
    /\ model' \in Files \ {model}
    /\ unkicked' = TRUE
    /\ UNCHANGED <<notifying, loop, waiting, disk, running, sync, torn, unreloaded, overtaken, edited, raced>>

Notify ==
    /\ notifying
    /\ notifying' = FALSE
    /\ loop' = Kicked(loop)
    /\ UNCHANGED <<model, waiting, disk, running, sync, webHistory, changes, events>>

(* The timer of a failed run, or, when none is armed, the hourly tick. *)
TickFires ==
    /\ loop.up /\ ~loop.kick
    /\ loop' = IF loop.retries > 0 THEN RetryFired(loop) ELSE Kicked(loop)
    /\ UNCHANGED <<model, notifying, waiting, disk, running, sync, webHistory, changes, events>>

(* Rebuild: reads the store and sends the model. *)
Rebuild ==
    /\ CanTake(loop)
    /\ loop' = Taken(loop)
    /\ IF sync.pc = "down"
       THEN UNCHANGED waiting
       ELSE waiting' = waiting \cup {[files |-> model, awaited |-> TRUE, late |-> FALSE]}
    /\ unkicked' = FALSE
    /\ UNCHANGED <<model, notifying, disk, running, sync, torn, unreloaded, overtaken, edited, raced,
                   changes, events>>

(* The connection is refused or cut: Call fails, and the loop retries. *)
CallFails ==
    /\ loop.doing /\ ~Awaiting
    /\ loop' = Failed(loop)
    /\ UNCHANGED <<model, notifying, waiting, disk, running, sync, webHistory, changes, events>>

(* managerd stops; a request it has sent stays with helperd. *)
ManagerStops ==
    /\ loop.up
    /\ Event
    /\ loop' = LoopDown
    /\ notifying' = FALSE
    /\ waiting' = {[q EXCEPT !.awaited = FALSE] : q \in waiting}
    /\ sync' = [sync EXCEPT !.awaited = FALSE]
    /\ UNCHANGED <<model, disk, running, webHistory, changes>>

ManagerStarts ==
    /\ ~loop.up
    /\ loop' = LoopBooted
    /\ UNCHANGED <<model, notifying, waiting, disk, running, sync, webHistory, changes, events>>

-----------------------------------------------------------------------------
(* The operator ejects a site, writes one, or deletes a file of their own. *)

Edit ==
    /\ Event
    /\ \E f \in File : /\ disk' = [disk EXCEPT ![f] = IF @ = User THEN Absent ELSE User]
                       /\ edited' = edited \cup {f}
                       /\ raced' = raced \cup {f}
    /\ UNCHANGED <<model, notifying, loop, waiting, running, sync, torn, unreloaded, overtaken, unkicked, changes>>

-----------------------------------------------------------------------------
(* helperd: execMu admits one request at a time, in no particular order *)

(* reconcile begins: what is on disk is classified. *)
Take ==
    /\ sync.pc = "idle"
    /\ \E q \in waiting :
          /\ waiting' = waiting \ {q}
          /\ sync' = [pc |-> "write", awaited |-> q.awaited, files |-> q.files,
                      prior |-> [f \in File |-> IF disk[f] = User THEN Absent ELSE disk[f]],
                      foreign |-> {f \in File : disk[f] = User}, changed |-> FALSE]
          /\ overtaken' = (q.late \/ (overtaken /\ ~q.awaited))
    /\ raced' = {}
    /\ UNCHANGED <<model, notifying, loop, disk, running, torn, unreloaded, unkicked, edited, changes, events>>

(* Mutant: a name is written although the operator's file has it. *)
ToWriteAll == {f \in File : sync.files[f] # Absent /\ sync.prior[f] # sync.files[f]
                            /\ disk[f] # sync.files[f]}

(* The files that the loop over the new set still has to write. *)
ToWrite == {f \in File \ sync.foreign : sync.files[f] # Absent /\ sync.prior[f] # sync.files[f]
                                        /\ disk[f] # sync.files[f]}

ToDelete == {f \in File : sync.prior[f] # Absent /\ sync.files[f] = Absent /\ disk[f] # Absent}

Put(f, c) ==
    /\ disk' = [disk EXCEPT ![f] = c]
    /\ sync' = [sync EXCEPT !.changed = TRUE]
    /\ UNCHANGED <<model, notifying, loop, waiting, running, webHistory, changes, events>>

WriteOne == sync.pc = "write" /\ \E f \in ToWrite : Put(f, sync.files[f])

DeleteOne == sync.pc = "write" /\ ToWrite = {} /\ \E f \in ToDelete : Put(f, Absent)

WriteFails ==
    /\ sync.pc = "write" /\ ToWrite \cup ToDelete # {}
    /\ Event
    /\ sync' = [sync EXCEPT !.pc = "rollback"]
    /\ UNCHANGED <<model, notifying, loop, waiting, disk, running, webHistory, changes>>

(* The request is answered: the loop goes on, if it still waits for it. *)
Answer(ok) ==
    /\ sync' = NoSync
    /\ IF sync.awaited
       THEN /\ loop' = IF ok THEN Finished(loop) ELSE Failed(loop)
            /\ waiting' = {[q EXCEPT !.late = TRUE] : q \in waiting}
       ELSE UNCHANGED <<loop, waiting>>

(* Nothing to write, nothing to delete: a no-op, or on to the test. *)
Written ==
    /\ sync.pc = "write" /\ ToWrite \cup ToDelete = {}
    /\ IF sync.changed
       THEN sync' = [sync EXCEPT !.pc = "test"] /\ UNCHANGED <<waiting, loop>>
       ELSE Answer(TRUE)
    /\ UNCHANGED <<model, notifying, disk, running, webHistory, changes, events>>

Bootable(d) == \A f \in File : d[f] \notin Bad

TestPasses ==
    /\ sync.pc = "test"
    /\ Bootable(disk)
    /\ sync' = [sync EXCEPT !.pc = "reload"]
    /\ torn' = FALSE
    /\ UNCHANGED <<model, notifying, loop, waiting, disk, running, unreloaded, overtaken, unkicked, edited, raced,
                   changes, events>>

(* Mutant: the failure is reported and the files stay. *)
TestFailsKeeping ==
    /\ sync.pc = "test"
    /\ IF Bootable(disk) THEN Event ELSE UNCHANGED events
    /\ Answer(FALSE)
    /\ UNCHANGED <<model, notifying, disk, running, webHistory, changes>>

(* nginx -t rejects the files, or cannot be run to its end. *)
TestFails ==
    /\ sync.pc = "test"
    /\ IF Bootable(disk) THEN Event ELSE UNCHANGED events
    /\ sync' = [sync EXCEPT !.pc = "rollback"]
    /\ UNCHANGED <<model, notifying, loop, waiting, disk, running, webHistory, changes>>

(* Mutant: what was deleted is not put back. *)
ToRestoreWritten == {f \in File \ sync.foreign : sync.files[f] # Absent /\ disk[f] # sync.prior[f]}

(* Every name of the new set and of the old one that is not foreign. *)
ToRestore == {f \in File \ sync.foreign : (sync.files[f] # Absent \/ sync.prior[f] # Absent)
                                          /\ disk[f] # sync.prior[f]}

RollBackOne ==
    /\ sync.pc = "rollback"
    /\ \E f \in ToRestore : disk' = [disk EXCEPT ![f] = sync.prior[f]]
    /\ UNCHANGED <<model, notifying, loop, waiting, running, sync, webHistory, changes, events>>

RolledBack ==
    /\ sync.pc = "rollback" /\ ToRestore = {}
    /\ Answer(FALSE)
    /\ UNCHANGED <<model, notifying, disk, running, webHistory, changes, events>>

(* The errors of the rollback's writes and removals are ignored: it ends   *)
(* with a file that was not put back.                                      *)
RollBackLeaves ==
    /\ sync.pc = "rollback" /\ ToRestore # {}
    /\ Event
    /\ torn' = TRUE /\ unreloaded' = TRUE
    /\ Answer(FALSE)
    /\ UNCHANGED <<model, notifying, disk, running, overtaken, unkicked, edited, raced, changes>>

Reload ==
    /\ sync.pc = "reload"
    /\ running' = disk
    /\ unreloaded' = FALSE
    /\ edited' = raced
    /\ Answer(TRUE)
    /\ UNCHANGED <<model, notifying, disk, torn, overtaken, unkicked, raced, changes, events>>

(* "The config on disk is valid ... Surface the failure, keep the files." *)
ReloadFails ==
    /\ sync.pc = "reload"
    /\ Event
    /\ unreloaded' = TRUE
    /\ Answer(FALSE)
    /\ UNCHANGED <<model, notifying, disk, running, torn, overtaken, unkicked, edited, raced, changes>>

(* helperd stops; every connection is cut. *)
HelperStops ==
    /\ sync.pc # "down"
    /\ Event
    /\ sync' = [NoSync EXCEPT !.pc = "down"]
    /\ waiting' = {}
    /\ torn' = (torn \/ sync.changed)
    /\ unreloaded' = (unreloaded \/ sync.changed)
    /\ UNCHANGED <<model, notifying, loop, disk, running, overtaken, unkicked, edited, raced, changes>>

HelperStarts ==
    /\ sync.pc = "down"
    /\ sync' = NoSync
    /\ UNCHANGED <<model, notifying, loop, waiting, disk, running, webHistory, changes, events>>

Helper ==
    \/ Take \/ WriteOne \/ DeleteOne \/ Written \/ TestPasses \/ TestFails
    \/ RollBackOne \/ RolledBack \/ Reload

WebNext ==
    \/ Commit \/ ResetFails \/ Notify \/ TickFires \/ Rebuild \/ CallFails \/ ManagerStops \/ ManagerStarts
    \/ Edit \/ Helper \/ WriteFails \/ RollBackLeaves \/ ReloadFails \/ HelperStops \/ HelperStarts

WebSpec == WebInit /\ [][WebNext]_webVars

-----------------------------------------------------------------------------
(* "disk always holds a config nginx can boot from": whenever helperd is   *)
(* not in the middle of a sync, whatever was tested, refused and rolled    *)
(* back before, unless it stopped in one or could not put a file back      *)
(* (then the next sync takes the untested files for the state to return    *)
(* to).                                                                    *)
DiskBootable == sync.pc \in {"idle", "down"} => torn \/ Bootable(disk)

(* Files without the managed mark "are never written or deleted", not even *)
(* by a rollback, unless the operator put them there in the middle of it.  *)
UserFilesKept ==
    [][\A f \in File : disk[f] = User /\ disk'[f] # User => events' = events + 1 \/ f \in raced]_webVars

(* When the applier is at rest, its last run a success, and helperd has    *)
(* nothing left to do, the directory is the rendered model around the      *)
(* operator's files, and nginx runs it.  A failed reload, a stop of        *)
(* helperd and a file that was not put back end this until a later sync    *)
(* reloads nginx, as the retry may find the files in place; an abandoned   *)
(* request that comes late, and a reset that fails half way, end it until  *)
(* the tick.  What the operator edits is not watched.                      *)
SettledIsLoaded ==
    LoopIdle(loop) /\ ~notifying /\ waiting = {} /\ sync.pc = "idle" =>
        \/ torn \/ unreloaded \/ overtaken \/ unkicked
        \/ \A f \in File \ edited : disk[f] \in {model[f], User} /\ running[f] = disk[f]
=============================================================================
