--------------------------- MODULE WebTierProofs ----------------------------
(***************************************************************************)
(* Proofs about the web tier and its certificates.  First WebSync, for any *)
(* sites directory, any contents and any number of changes, stops,         *)
(* failures and edits: what nginx can boot from and runs with.  Then       *)
(* AcmeProv, for any sites, terms and days, and any number of requests,    *)
(* failures and stops of managerd: the link resolves, mail serves the best *)
(* certificate, and a site that has a certificate of the authority keeps   *)
(* one until long before it expires.                                       *)
(***************************************************************************)
EXTENDS WebSync, AcmeProv, TLAPS

USE WebSyncAssumption

Syncs == [pc : {"down", "idle", "write", "test", "rollback", "reload"}, awaited : BOOLEAN,
          files : Files, prior : Files, foreign : SUBSET File, changed : BOOLEAN]

WebTypeInv ==
    /\ model \in Files
    /\ loop \in LoopState
    /\ waiting \subseteq Request
    /\ disk \in Directory /\ running \in Directory
    /\ sync \in Syncs
    /\ edited \subseteq File /\ raced \subseteq File
    /\ notifying \in BOOLEAN /\ torn \in BOOLEAN /\ unreloaded \in BOOLEAN
    /\ overtaken \in BOOLEAN /\ unkicked \in BOOLEAN

InSync == sync.pc \in {"write", "test", "rollback", "reload"}
Returning == sync.pc \in {"write", "test", "rollback"}

(* What helperd knows of the directory in a sync.  Outside the names the   *)
(* operator edits behind it, a foreign name holds the operator's file and  *)
(* any other its old or its new contents; before the first write, the old, *)
(* and once the writing is over, the new.                                  *)
KnownFiles ==
    InSync => \A f \in File \ raced :
        IF f \in sync.foreign
        THEN disk[f] = User
        ELSE /\ disk[f] \in {sync.prior[f], sync.files[f]}
             /\ ~sync.changed => disk[f] = sync.prior[f]
             /\ sync.pc \in {"test", "reload"} => disk[f] = sync.files[f]

SyncInv ==
    /\ KnownFiles
    /\ \A f \in sync.foreign : sync.prior[f] = Absent
    /\ sync.pc \in {"test", "reload"} => sync.changed
    /\ sync.pc \in {"idle", "down"} => ~sync.changed
    /\ raced \subseteq edited

(* The state that a sync would return to can be booted from, and what is   *)
(* broken on disk is what was there or what this sync wrote.               *)
BootInv ==
    /\ DiskBootable
    /\ sync.pc = "reload" => Bootable(disk)
    /\ Returning => /\ torn \/ Bootable(sync.prior)
                    /\ ~sync.changed => torn \/ Bootable(disk)
                    /\ \A f \in File : disk[f] \in Bad =>
                          \/ disk[f] = sync.prior[f]
                          \/ f \notin sync.foreign /\ disk[f] = sync.files[f]

(* nginx runs with what is on disk or what a sync would return to. *)
LoadedInv ==
    /\ torn => unreloaded
    /\ sync.pc = "reload" => ~torn
    /\ sync.pc \in {"idle", "down"} =>
          unreloaded \/ \A f \in File \ edited : running[f] = disk[f]
    /\ Returning =>
          unreloaded \/ \A f \in File \ edited :
              running[f] = IF f \in sync.foreign THEN User ELSE sync.prior[f]

(* The applier waits for one answer at a time, and only in a run. *)
AwaitInv ==
    /\ Awaiting => loop.up /\ loop.doing
    /\ loop.doing => loop.up
    /\ sync.awaited => InSync /\ \A q \in waiting : ~q.awaited
    /\ \A p, q \in waiting : p.awaited /\ q.awaited => p = q

(* No change was committed since the applier last read the store. *)
Read == loop.up /\ ~loop.kick /\ ~notifying /\ ~unkicked

(* The last run was a success. *)
Succeeded == ~loop.doing /\ loop.retries = 0

(* What the applier sent in its last run is the model, and if the run was  *)
(* a success that is on disk, until an abandoned request overtakes it.     *)
CurrentInv ==
    Read =>
        /\ sync.awaited => sync.files = model
        /\ \A q \in waiting : q.awaited => q.files = model
        /\ Succeeded =>
              /\ \A q \in waiting : q.late
              /\ InSync => overtaken
              /\ ~InSync => \/ overtaken \/ unreloaded
                            \/ \A f \in File \ edited : disk[f] \in {model[f], User}

IInv == WebTypeInv /\ SyncInv /\ BootInv /\ LoadedInv /\ AwaitInv /\ CurrentInv

(* The sync's record, step by step. *)
LEMMA SyncOps ==
    /\ NoSync \in Syncs /\ [NoSync EXCEPT !.pc = "down"] \in Syncs
    /\ \A s \in Syncs :
          /\ [s EXCEPT !.changed = TRUE] \in Syncs /\ [s EXCEPT !.awaited = FALSE] \in Syncs
          /\ [s EXCEPT !.pc = "rollback"] \in Syncs /\ [s EXCEPT !.pc = "test"] \in Syncs
          /\ [s EXCEPT !.pc = "reload"] \in Syncs
  BY DEF Syncs, NoSync, NoFiles, Files

(* The loop's record, step by step. *)
LEMMA LoopOps ==
    /\ LoopDown \in LoopState /\ LoopBooted \in LoopState
    /\ \A l \in LoopState :
          /\ Kicked(l) \in LoopState /\ Taken(l) \in LoopState /\ Finished(l) \in LoopState
          /\ Failed(l) \in LoopState
          /\ l.retries > 0 => RetryFired(l) \in LoopState
  <1>1. LoopDown \in LoopState /\ LoopBooted \in LoopState
    BY DEF LoopState, LoopDown, LoopBooted
  <1>2. ASSUME NEW l \in LoopState
        PROVE  Kicked(l) \in LoopState /\ Taken(l) \in LoopState /\ Finished(l) \in LoopState
    BY DEF LoopState, Kicked, Taken, Finished
  <1>3. ASSUME NEW l \in LoopState PROVE Failed(l) \in LoopState
    <2>1. l.up \in BOOLEAN /\ l.kick \in BOOLEAN /\ l.retries + 1 \in Nat
      BY DEF LoopState
    <2> QED
      BY <2>1 DEF LoopState, Failed
  <1>4. ASSUME NEW l \in LoopState, l.retries > 0 PROVE RetryFired(l) \in LoopState
    <2>1. l.up \in BOOLEAN /\ l.doing \in BOOLEAN /\ l.retries - 1 \in Nat
      BY <1>4 DEF LoopState
    <2> QED
      BY <2>1 DEF LoopState, RetryFired
  <1> QED
    BY <1>1, <1>2, <1>3, <1>4

(* A request's record. *)
LEMMA RequestOps ==
    /\ \A q \in Request : /\ [q EXCEPT !.awaited = FALSE] \in Request
                          /\ [q EXCEPT !.late = TRUE] \in Request
    /\ \A m \in Files : [files |-> m, awaited |-> TRUE, late |-> FALSE] \in Request
  BY DEF Request

(* An answer leaves the types alone. *)
LEMMA AnswerTypes ==
    ASSUME WebTypeInv, NEW ok, Answer(ok)
    PROVE  sync' \in Syncs /\ loop' \in LoopState /\ waiting' \subseteq Request
  <1>1. sync' \in Syncs
    BY SyncOps DEF Answer
  <1>2. loop' \in LoopState
    BY LoopOps DEF WebTypeInv, Answer
  <1>3. waiting' \subseteq Request
    <2>1. ASSUME NEW q \in waiting PROVE q \in Request /\ [q EXCEPT !.late = TRUE] \in Request
      BY RequestOps DEF WebTypeInv
    <2>2. waiting' = {[q EXCEPT !.late = TRUE] : q \in waiting} \/ waiting' = waiting
      BY DEF Answer
    <2>3. CASE waiting' = {[q EXCEPT !.late = TRUE] : q \in waiting}
      BY <2>1, <2>3, Zenon
    <2>4. CASE waiting' = waiting
      BY <2>1, <2>4
    <2> QED
      BY <2>2, <2>3, <2>4
  <1> QED
    BY <1>1, <1>2, <1>3

(* Types are kept by every step. *)
LEMMA WebTypeStep == WebTypeInv /\ [WebNext]_webVars => WebTypeInv'
  <1> SUFFICES ASSUME WebTypeInv, [WebNext]_webVars PROVE WebTypeInv'
    OBVIOUS
  <1> USE DEF WebTypeInv, webHistory, Event
  <1>1. CASE Commit
    BY <1>1 DEF Commit
  <1>2. CASE ResetFails
    BY <1>2 DEF ResetFails
  <1>3. CASE Notify
    BY <1>3, LoopOps DEF Notify
  <1>4. CASE TickFires
    BY <1>4, LoopOps DEF TickFires
  <1>5. CASE Rebuild
    <2>1. loop' \in LoopState
      BY <1>5, LoopOps DEF Rebuild
    <2>2. waiting' \subseteq Request
      <3>1. [files |-> model, awaited |-> TRUE, late |-> FALSE] \in Request
        BY RequestOps
      <3> QED
        BY <1>5, <3>1 DEF Rebuild
    <2> QED
      BY <1>5, <2>1, <2>2 DEF Rebuild
  <1>6. CASE CallFails
    BY <1>6, LoopOps DEF CallFails
  <1>7. CASE ManagerStops
    BY <1>7, LoopOps, RequestOps, SyncOps DEF ManagerStops
  <1>8. CASE ManagerStarts
    BY <1>8, LoopOps DEF ManagerStarts
  <1>9. CASE Edit
    BY <1>9 DEF Edit, Directory
  <1>10. CASE Take
    <2>1. PICK q \in waiting :
             /\ waiting' = waiting \ {q}
             /\ sync' = [pc |-> "write", awaited |-> q.awaited, files |-> q.files,
                         prior |-> [f \in File |-> IF disk[f] = User THEN Absent ELSE disk[f]],
                         foreign |-> {f \in File : disk[f] = User}, changed |-> FALSE]
             /\ overtaken' = (q.late \/ (overtaken /\ ~q.awaited))
      BY <1>10 DEF Take
    <2>2. q.awaited \in BOOLEAN /\ q.files \in Files /\ q.late \in BOOLEAN
      BY DEF Request
    <2>3. [f \in File |-> IF disk[f] = User THEN Absent ELSE disk[f]] \in Files
      BY DEF Directory, Files
    <2>4. sync' \in Syncs
      BY <2>1, <2>2, <2>3 DEF Syncs
    <2> QED
      BY <1>10, <2>1, <2>2, <2>4 DEF Take
  <1>11. CASE WriteOne
    <2>1. PICK f \in ToWrite : Put(f, sync.files[f])
      BY <1>11 DEF WriteOne
    <2>2. f \in File /\ sync.files[f] \in Content \cup {Absent, User}
      BY DEF ToWrite, Syncs, Files
    <2>3. disk' \in Directory
      BY <2>1, <2>2 DEF Put, Directory
    <2>4. sync' \in Syncs
      BY <2>1, SyncOps DEF Put
    <2> QED
      BY <2>1, <2>3, <2>4 DEF Put
  <1>12. CASE DeleteOne
    <2>1. PICK f \in ToDelete : Put(f, Absent)
      BY <1>12 DEF DeleteOne
    <2>2. disk' \in Directory
      BY <2>1 DEF Put, Directory, ToDelete
    <2>3. sync' \in Syncs
      BY <2>1, SyncOps DEF Put
    <2> QED
      BY <2>1, <2>2, <2>3 DEF Put
  <1>13. CASE Written
    BY <1>13, AnswerTypes, SyncOps DEF Written
  <1>14. CASE TestPasses
    BY <1>14, SyncOps DEF TestPasses
  <1>15. CASE TestFails
    BY <1>15, SyncOps DEF TestFails
  <1>16. CASE RollBackOne
    BY <1>16 DEF RollBackOne, Directory, Files, Syncs, ToRestore
  <1>17. CASE RolledBack
    BY <1>17, AnswerTypes DEF RolledBack
  <1>18. CASE Reload
    BY <1>18, AnswerTypes DEF Reload
  <1>19. CASE WriteFails
    BY <1>19, SyncOps DEF WriteFails
  <1>20. CASE ReloadFails
    BY <1>20, AnswerTypes DEF ReloadFails
  <1>21. CASE HelperStops
    BY <1>21, SyncOps DEF HelperStops
  <1>22. CASE HelperStarts
    BY <1>22, SyncOps DEF HelperStarts
  <1>23. CASE UNCHANGED webVars
    BY <1>23 DEF webVars
  <1>24. CASE RollBackLeaves
    BY <1>24, AnswerTypes DEF RollBackLeaves
  <1> HIDE DEF WebTypeInv
  <1> QED
    BY <1>1, <1>2, <1>3, <1>4, <1>5, <1>6, <1>7, <1>8, <1>9, <1>10, <1>11, <1>12, <1>13, <1>14,
       <1>15, <1>16, <1>17, <1>18, <1>19, <1>20, <1>21, <1>22, <1>23, <1>24 DEF WebNext, Helper

(* What a step does to the fields of the sync. *)
SameSync(s, t) ==
    /\ t.files = s.files /\ t.prior = s.prior /\ t.foreign = s.foreign

(* What each change of the sync's record leaves of its other fields. *)
LEMMA SyncFields ==
    /\ \A s \in Syncs :
          /\ LET t == [s EXCEPT !.changed = TRUE] IN
             SameSync(s, t) /\ t.pc = s.pc /\ t.changed /\ (t.awaited <=> s.awaited)
          /\ LET t == [s EXCEPT !.awaited = FALSE] IN
             SameSync(s, t) /\ t.pc = s.pc /\ (t.changed <=> s.changed) /\ ~t.awaited
          /\ LET t == [s EXCEPT !.pc = "rollback"] IN
             SameSync(s, t) /\ t.pc = "rollback" /\ (t.changed <=> s.changed)
             /\ (t.awaited <=> s.awaited)
          /\ LET t == [s EXCEPT !.pc = "test"] IN
             SameSync(s, t) /\ t.pc = "test" /\ (t.changed <=> s.changed)
             /\ (t.awaited <=> s.awaited)
          /\ LET t == [s EXCEPT !.pc = "reload"] IN
             SameSync(s, t) /\ t.pc = "reload" /\ (t.changed <=> s.changed)
             /\ (t.awaited <=> s.awaited)
    /\ NoSync.pc = "idle" /\ ~NoSync.changed /\ NoSync.foreign = {} /\ ~NoSync.awaited
    /\ LET t == [NoSync EXCEPT !.pc = "down"] IN
       t.pc = "down" /\ ~t.changed /\ t.foreign = {} /\ ~t.awaited
  BY DEF Syncs, SameSync, NoSync

(* The end of the writing: on to the test if anything was written. *)
LEMMA WrittenMoves ==
    ASSUME WebTypeInv, Written
    PROVE  /\ sync.pc = "write"
           /\ UNCHANGED <<model, notifying, disk, running, webHistory, changes, events>>
           /\ sync.changed => /\ SameSync(sync, sync') /\ sync'.pc = "test" /\ sync'.changed
                              /\ (sync'.awaited <=> sync.awaited) /\ UNCHANGED <<waiting, loop>>
           /\ ~sync.changed => Answer(TRUE)
  <1>1. /\ sync.pc = "write"
        /\ UNCHANGED <<model, notifying, disk, running, webHistory, changes, events>>
        /\ sync.changed => sync' = [sync EXCEPT !.pc = "test"] /\ UNCHANGED <<waiting, loop>>
        /\ ~sync.changed => Answer(TRUE)
    BY DEF Written
  <1>2. sync.changed => /\ SameSync(sync, sync') /\ sync'.pc = "test" /\ sync'.changed
                        /\ (sync'.awaited <=> sync.awaited)
    BY <1>1 DEF WebTypeInv, Syncs, SameSync
  <1> QED
    BY <1>1, <1>2

(* When nothing is left to write or to delete, what helperd knows of is    *)
(* the new set of files.                                                   *)
LEMMA WrittenFiles ==
    ASSUME WebTypeInv, SyncInv, Written
    PROVE  \A f \in File \ raced : f \notin sync.foreign => disk[f] = sync.files[f]
  <1> SUFFICES ASSUME NEW f \in File \ raced, f \notin sync.foreign
               PROVE  disk[f] = sync.files[f]
    OBVIOUS
  <1>1. disk[f] \in {sync.prior[f], sync.files[f]}
    BY DEF SyncInv, KnownFiles, InSync, Written
  <1>2. f \notin ToWrite /\ f \notin ToDelete
    BY DEF Written
  <1> QED
    BY <1>1, <1>2 DEF ToWrite, ToDelete

(* What helperd knows of the directory stays true in every step. *)
LEMMA SyncStep == WebTypeInv /\ SyncInv /\ [WebNext]_webVars => SyncInv'
  <1> SUFFICES ASSUME WebTypeInv, SyncInv, [WebNext]_webVars PROVE SyncInv'
    OBVIOUS
  <1> USE DEF webHistory
  <1>a. ASSUME UNCHANGED <<disk, sync, edited, raced>> PROVE SyncInv'
    BY <1>a DEF SyncInv, KnownFiles, InSync
  <1>1. CASE Commit
    BY <1>1, <1>a DEF Commit
  <1>2. CASE ResetFails
    BY <1>2, <1>a DEF ResetFails
  <1>3. CASE Notify
    BY <1>3, <1>a DEF Notify
  <1>4. CASE TickFires
    BY <1>4, <1>a DEF TickFires
  <1>5. CASE Rebuild
    BY <1>5, <1>a DEF Rebuild
  <1>6. CASE CallFails
    BY <1>6, <1>a DEF CallFails
  <1>7. CASE ManagerStarts
    BY <1>7, <1>a DEF ManagerStarts
  <1>8. CASE ManagerStops
    BY <1>8, SyncFields DEF ManagerStops, SyncInv, KnownFiles, InSync, SameSync, WebTypeInv
  <1>9. CASE Edit
    BY <1>9 DEF Edit, SyncInv, KnownFiles, InSync, WebTypeInv, Directory
  <1>10. CASE Take
    BY <1>10 DEF Take, SyncInv, KnownFiles, InSync, WebTypeInv, Directory
  <1>11. CASE WriteOne
    BY <1>11, SyncFields
    DEF WriteOne, Put, ToWrite, SyncInv, KnownFiles, InSync, SameSync, WebTypeInv, Directory
  <1>12. CASE DeleteOne
    BY <1>12, SyncFields
    DEF DeleteOne, Put, ToDelete, SyncInv, KnownFiles, InSync, SameSync, WebTypeInv, Directory
  <1>13. CASE Written
    <2>1. CASE sync.changed
      BY <1>13, <2>1, WrittenFiles, WrittenMoves, SyncFields
      DEF Answer, SyncInv, KnownFiles, InSync, SameSync, WebTypeInv
    <2>2. CASE ~sync.changed
      BY <1>13, <2>2, WrittenFiles, WrittenMoves, SyncFields
      DEF Answer, SyncInv, KnownFiles, InSync, SameSync, WebTypeInv
    <2> QED
      BY <2>1, <2>2
  <1>14. CASE TestPasses
    BY <1>14, SyncFields DEF TestPasses, Event, SyncInv, KnownFiles, InSync, SameSync, WebTypeInv
  <1>15. CASE TestFails
    BY <1>15, SyncFields DEF TestFails, Event, SyncInv, KnownFiles, InSync, SameSync, WebTypeInv
  <1>16. CASE WriteFails
    BY <1>16, SyncFields DEF WriteFails, Event, SyncInv, KnownFiles, InSync, SameSync, WebTypeInv
  <1>17. CASE HelperStops
    BY <1>17, SyncFields DEF HelperStops, Event, SyncInv, KnownFiles, InSync, SameSync, WebTypeInv
  <1>18. CASE HelperStarts
    BY <1>18, SyncFields DEF HelperStarts, Event, SyncInv, KnownFiles, InSync, SameSync, WebTypeInv
  <1>19. CASE RollBackOne
    BY <1>19 DEF RollBackOne, ToRestore, SyncInv, KnownFiles, InSync, WebTypeInv, Directory
  <1>20. CASE RolledBack
    BY <1>20, SyncFields DEF RolledBack, Answer, SyncInv, KnownFiles, InSync, SameSync, WebTypeInv
  <1>21. CASE Reload
    BY <1>21, SyncFields DEF Reload, Answer, SyncInv, KnownFiles, InSync, SameSync, WebTypeInv
  <1>22. CASE ReloadFails
    BY <1>22, SyncFields DEF ReloadFails, Answer, SyncInv, KnownFiles, InSync, SameSync, WebTypeInv
  <1>23. CASE UNCHANGED webVars
    BY <1>23, <1>a DEF webVars
  <1>24. CASE RollBackLeaves
    BY <1>24, SyncFields DEF RollBackLeaves, Answer, SyncInv, KnownFiles, InSync, SameSync, WebTypeInv
  <1> QED
    BY <1>1, <1>2, <1>3, <1>4, <1>5, <1>6, <1>7, <1>8, <1>9, <1>10, <1>11, <1>12, <1>13, <1>14,
       <1>15, <1>16, <1>17, <1>18, <1>19, <1>20, <1>21, <1>22, <1>23, <1>24 DEF WebNext, Helper

(* Every step leaves a directory that can be booted from, or the way back  *)
(* to one.                                                                 *)
LEMMA BootStep == WebTypeInv /\ SyncInv /\ BootInv /\ [WebNext]_webVars => BootInv'
  <1> SUFFICES ASSUME WebTypeInv, SyncInv, BootInv, [WebNext]_webVars PROVE BootInv'
    OBVIOUS
  <1> USE DEF webHistory
  <1>a. ASSUME UNCHANGED <<disk, sync, torn>> PROVE BootInv'
    BY <1>a DEF BootInv, DiskBootable, Bootable, Returning
  <1>1. CASE Commit
    BY <1>1, <1>a DEF Commit
  <1>2. CASE ResetFails
    BY <1>2, <1>a DEF ResetFails
  <1>3. CASE Notify
    BY <1>3, <1>a DEF Notify
  <1>4. CASE TickFires
    BY <1>4, <1>a DEF TickFires
  <1>5. CASE Rebuild
    BY <1>5, <1>a DEF Rebuild
  <1>6. CASE CallFails
    BY <1>6, <1>a DEF CallFails
  <1>7. CASE ManagerStarts
    BY <1>7, <1>a DEF ManagerStarts
  <1>8. CASE ManagerStops
    BY <1>8, SyncFields
    DEF ManagerStops, BootInv, DiskBootable, Bootable, Returning, SameSync, WebTypeInv
  <1>9. CASE Edit
    BY <1>9 DEF Edit, BootInv, DiskBootable, Bootable, Returning, WebTypeInv, Directory
  <1>10. CASE Take
    BY <1>10 DEF Take, BootInv, DiskBootable, Bootable, Returning, WebTypeInv, Directory
  <1>11. CASE WriteOne
    BY <1>11, SyncFields DEF WriteOne, Put, ToWrite, BootInv, DiskBootable, Bootable, Returning,
       SameSync, WebTypeInv, Directory
  <1>12. CASE DeleteOne
    BY <1>12, SyncFields DEF DeleteOne, Put, ToDelete, BootInv, DiskBootable, Bootable, Returning,
       SameSync, WebTypeInv, Directory
  <1>13. CASE Written
    <2>1. CASE sync.changed
      BY <1>13, <2>1, WrittenMoves, SyncFields
      DEF Answer, BootInv, DiskBootable, Bootable, Returning, SameSync, WebTypeInv
    <2>2. CASE ~sync.changed
      BY <1>13, <2>2, WrittenMoves, SyncFields
      DEF Answer, BootInv, DiskBootable, Bootable, Returning, SameSync, WebTypeInv
    <2> QED
      BY <2>1, <2>2
  <1>14. CASE TestPasses
    BY <1>14, SyncFields
    DEF TestPasses, Event, BootInv, DiskBootable, Bootable, Returning, SyncInv, SameSync, WebTypeInv
  <1>15. CASE TestFails
    BY <1>15, SyncFields
    DEF TestFails, Event, BootInv, DiskBootable, Bootable, Returning, SyncInv, SameSync, WebTypeInv
  <1>16. CASE WriteFails
    BY <1>16, SyncFields
    DEF WriteFails, Event, BootInv, DiskBootable, Bootable, Returning, SyncInv, SameSync, WebTypeInv
  <1>17. CASE HelperStarts
    BY <1>17, SyncFields
    DEF HelperStarts, Event, BootInv, DiskBootable, Bootable, Returning, SyncInv, SameSync, WebTypeInv
  <1>18. CASE HelperStops
    <2>1. CASE sync.changed
      BY <1>18, <2>1, SyncFields
      DEF HelperStops, BootInv, DiskBootable, Bootable, Returning, SyncInv, WebTypeInv, Syncs
    <2>2. CASE ~sync.changed
      BY <1>18, <2>2, SyncFields
      DEF HelperStops, BootInv, DiskBootable, Bootable, Returning, SyncInv, WebTypeInv, Syncs
    <2> QED
      BY <2>1, <2>2
  <1>19. CASE RollBackOne
    BY <1>19 DEF RollBackOne, ToRestore, BootInv, DiskBootable, Bootable, Returning, WebTypeInv,
       Directory
  <1>20. CASE RolledBack
    BY <1>20, SyncFields
    DEF RolledBack, Answer, ToRestore, BootInv, DiskBootable, Bootable, Returning, SameSync, WebTypeInv
  <1>21. CASE Reload
    BY <1>21, SyncFields
    DEF Reload, Answer, BootInv, DiskBootable, Bootable, Returning, SameSync, WebTypeInv
  <1>22. CASE ReloadFails
    BY <1>22, SyncFields
    DEF ReloadFails, Answer, BootInv, DiskBootable, Bootable, Returning, SameSync, WebTypeInv
  <1>23. CASE UNCHANGED webVars
    BY <1>23, <1>a DEF webVars
  <1>24. CASE RollBackLeaves
    BY <1>24, SyncFields
    DEF RollBackLeaves, Answer, BootInv, DiskBootable, Bootable, Returning, SameSync, WebTypeInv
  <1> QED
    BY <1>1, <1>2, <1>3, <1>4, <1>5, <1>6, <1>7, <1>8, <1>9, <1>10, <1>11, <1>12, <1>13, <1>14,
       <1>15, <1>16, <1>17, <1>18, <1>19, <1>20, <1>21, <1>22, <1>23, <1>24 DEF WebNext, Helper

(* What nginx runs with stays accounted for in every step. *)
LEMMA LoadedStep == WebTypeInv /\ SyncInv /\ LoadedInv /\ [WebNext]_webVars => LoadedInv'
  <1> SUFFICES ASSUME WebTypeInv, SyncInv, LoadedInv, [WebNext]_webVars PROVE LoadedInv'
    OBVIOUS
  <1> USE DEF webHistory
  <1>a. ASSUME UNCHANGED <<disk, running, sync, torn, unreloaded, edited>> PROVE LoadedInv'
    BY <1>a DEF LoadedInv, Returning
  <1>1. CASE Commit
    BY <1>1, <1>a DEF Commit
  <1>2. CASE ResetFails
    BY <1>2, <1>a DEF ResetFails
  <1>3. CASE Notify
    BY <1>3, <1>a DEF Notify
  <1>4. CASE TickFires
    BY <1>4, <1>a DEF TickFires
  <1>5. CASE Rebuild
    BY <1>5, <1>a DEF Rebuild
  <1>6. CASE CallFails
    BY <1>6, <1>a DEF CallFails
  <1>7. CASE ManagerStarts
    BY <1>7, <1>a DEF ManagerStarts
  <1>8. CASE ManagerStops
    BY <1>8, SyncFields DEF ManagerStops, LoadedInv, Returning, SameSync, WebTypeInv
  <1>9. CASE Edit
    BY <1>9 DEF Edit, LoadedInv, Returning, WebTypeInv, Directory
  <1>10. CASE Take
    BY <1>10 DEF Take, LoadedInv, Returning, WebTypeInv, Directory
  <1>11. CASE WriteOne
    BY <1>11, SyncFields DEF WriteOne, Put, LoadedInv, Returning, SameSync, WebTypeInv
  <1>12. CASE DeleteOne
    BY <1>12, SyncFields DEF DeleteOne, Put, LoadedInv, Returning, SameSync, WebTypeInv
  <1>13. CASE Written
    <2>1. CASE sync.changed
      BY <1>13, <2>1, WrittenMoves, SyncFields
      DEF Answer, LoadedInv, Returning, SyncInv, KnownFiles, InSync, SameSync, WebTypeInv
    <2>2. CASE ~sync.changed
      BY <1>13, <2>2, WrittenMoves, SyncFields
      DEF Answer, LoadedInv, Returning, SyncInv, KnownFiles, InSync, SameSync, WebTypeInv
    <2> QED
      BY <2>1, <2>2
  <1>14. CASE TestPasses
    BY <1>14, SyncFields DEF TestPasses, Event, LoadedInv, Returning, SameSync, WebTypeInv
  <1>15. CASE TestFails
    BY <1>15, SyncFields DEF TestFails, Event, LoadedInv, Returning, SameSync, WebTypeInv
  <1>16. CASE WriteFails
    BY <1>16, SyncFields DEF WriteFails, Event, LoadedInv, Returning, SameSync, WebTypeInv
  <1>17. CASE HelperStops
    BY <1>17, SyncFields DEF HelperStops, Event, LoadedInv, Returning, SyncInv, KnownFiles,
       InSync, SameSync, WebTypeInv, Syncs
  <1>18. CASE HelperStarts
    BY <1>18, SyncFields DEF HelperStarts, Event, LoadedInv, Returning, SyncInv, KnownFiles,
       InSync, SameSync, WebTypeInv, Syncs
  <1>19. CASE RollBackOne
    BY <1>19 DEF RollBackOne, LoadedInv, Returning, WebTypeInv, Directory
  <1>20. CASE RolledBack
    BY <1>20, SyncFields DEF RolledBack, Answer, ToRestore, LoadedInv, Returning, SyncInv,
       KnownFiles, InSync, SameSync, WebTypeInv
  <1>21. CASE Reload
    BY <1>21, SyncFields DEF Reload, Answer, LoadedInv, Returning, SyncInv, SameSync, WebTypeInv
  <1>22. CASE ReloadFails
    BY <1>22, SyncFields DEF ReloadFails, Answer, LoadedInv, Returning, SyncInv, SameSync, WebTypeInv
  <1>23. CASE UNCHANGED webVars
    BY <1>23, <1>a DEF webVars
  <1>24. CASE RollBackLeaves
    BY <1>24, SyncFields DEF RollBackLeaves, Answer, LoadedInv, Returning, SyncInv, SameSync, WebTypeInv
  <1> QED
    BY <1>1, <1>2, <1>3, <1>4, <1>5, <1>6, <1>7, <1>8, <1>9, <1>10, <1>11, <1>12, <1>13, <1>14,
       <1>15, <1>16, <1>17, <1>18, <1>19, <1>20, <1>21, <1>22, <1>23, <1>24 DEF WebNext, Helper

(* The loop's fields, operation by operation. *)
LEMMA LoopFields ==
    ASSUME NEW l \in LoopState
    PROVE  /\ ~LoopDown.up /\ ~LoopDown.doing
           /\ LoopBooted.up /\ LoopBooted.kick /\ ~LoopBooted.doing
           /\ (Kicked(l).up <=> l.up) /\ (Kicked(l).doing <=> l.doing)
           /\ l.up => Kicked(l).kick
           /\ (Taken(l).up <=> l.up) /\ ~Taken(l).kick /\ Taken(l).doing
           /\ (Finished(l).up <=> l.up) /\ (Finished(l).kick <=> l.kick) /\ ~Finished(l).doing
           /\ (Failed(l).up <=> l.up) /\ (Failed(l).kick <=> l.kick) /\ ~Failed(l).doing
           /\ Failed(l).retries # 0
           /\ (RetryFired(l).up <=> l.up) /\ RetryFired(l).kick
           /\ (RetryFired(l).doing <=> l.doing)
  <1>1. /\ ~LoopDown.up /\ ~LoopDown.doing
        /\ LoopBooted.up /\ LoopBooted.kick /\ ~LoopBooted.doing
    BY DEF LoopDown, LoopBooted
  <1>2. /\ (Kicked(l).up <=> l.up) /\ (Kicked(l).doing <=> l.doing)
        /\ l.up => Kicked(l).kick
    BY DEF Kicked, LoopState
  <1>3. (Taken(l).up <=> l.up) /\ ~Taken(l).kick /\ Taken(l).doing
    BY DEF Taken, LoopState
  <1>4. (Finished(l).up <=> l.up) /\ (Finished(l).kick <=> l.kick) /\ ~Finished(l).doing
    BY DEF Finished, LoopState
  <1>5. (Failed(l).up <=> l.up) /\ (Failed(l).kick <=> l.kick) /\ ~Failed(l).doing
    BY DEF Failed, LoopState
  <1>6. Failed(l).retries # 0
    <2>1. Failed(l).retries = l.retries + 1 /\ l.retries \in Nat
      BY DEF Failed, LoopState
    <2> QED
      BY <2>1
  <1>7. /\ (RetryFired(l).up <=> l.up) /\ RetryFired(l).kick
        /\ (RetryFired(l).doing <=> l.doing)
    BY DEF RetryFired, LoopState
  <1> QED
    BY <1>1, <1>2, <1>3, <1>4, <1>5, <1>6, <1>7

(* An answer ends the sync, and the run that waits for it. *)
LEMMA AnswerMoves ==
    ASSUME WebTypeInv, NEW ok \in BOOLEAN, Answer(ok)
    PROVE  /\ sync'.pc = "idle" /\ ~sync'.awaited
           /\ ~sync.awaited => UNCHANGED <<loop, waiting>>
           /\ sync.awaited => /\ (loop'.up <=> loop.up) /\ (loop'.kick <=> loop.kick)
                              /\ ~loop'.doing /\ (~ok => loop'.retries # 0)
                              /\ \A p \in waiting' :
                                    p.late /\ \E q \in waiting : (p.awaited <=> q.awaited)
  <1>1. sync'.pc = "idle" /\ ~sync'.awaited
    BY SyncFields DEF Answer
  <1>2. ~sync.awaited => UNCHANGED <<loop, waiting>>
    BY DEF Answer
  <1>3. ASSUME sync.awaited
        PROVE  /\ (loop'.up <=> loop.up) /\ (loop'.kick <=> loop.kick)
               /\ ~loop'.doing /\ (~ok => loop'.retries # 0)
    BY <1>3, LoopFields DEF Answer, WebTypeInv
  <1>4. ASSUME sync.awaited, NEW p \in waiting'
        PROVE  p.late /\ \E q \in waiting : (p.awaited <=> q.awaited)
    <2>1. PICK q \in waiting : p = [q EXCEPT !.late = TRUE]
      BY <1>4 DEF Answer
    <2>2. q \in Request
      BY DEF WebTypeInv
    <2> QED
      BY <2>1, <2>2 DEF Request
  <1> QED
    BY <1>1, <1>2, <1>3, <1>4

(* The applier keeps waiting for one answer at a time. *)
LEMMA AwaitStep == WebTypeInv /\ WebTypeInv' /\ AwaitInv /\ [WebNext]_webVars => AwaitInv'
  <1> SUFFICES ASSUME WebTypeInv, WebTypeInv', AwaitInv, [WebNext]_webVars PROVE AwaitInv'
    OBVIOUS
  <1> USE DEF webHistory
  <1>a. ASSUME UNCHANGED <<loop, waiting, sync>> PROVE AwaitInv'
    BY <1>a DEF AwaitInv, Awaiting, InSync
  <1>b. ASSUME NEW ok \in BOOLEAN, Answer(ok) PROVE AwaitInv'
    <2>1. CASE sync.awaited
      BY <1>b, <2>1, AnswerMoves DEF AwaitInv, Awaiting
    <2>2. CASE ~sync.awaited
      BY <1>b, <2>2, AnswerMoves DEF AwaitInv, Awaiting
    <2> QED
      BY <2>1, <2>2
  <1>1. CASE Commit
    BY <1>1, <1>a DEF Commit
  <1>2. CASE ResetFails
    BY <1>2, <1>a DEF ResetFails
  <1>3. CASE Edit
    BY <1>3, <1>a DEF Edit
  <1>4. CASE RollBackOne
    BY <1>4, <1>a DEF RollBackOne
  <1>5. CASE Notify
    BY <1>5, LoopFields DEF Notify, AwaitInv, Awaiting, InSync, WebTypeInv
  <1>6. CASE TickFires
    BY <1>6, LoopFields DEF TickFires, AwaitInv, Awaiting, InSync, WebTypeInv
  <1>7. CASE ManagerStarts
    BY <1>7, LoopFields DEF ManagerStarts, AwaitInv, Awaiting, InSync, WebTypeInv
  <1>8. CASE Rebuild
    <2>1. ~loop.doing /\ loop'.doing /\ loop'.up /\ sync' = sync
      BY <1>8, LoopFields DEF Rebuild, CanTake, WebTypeInv
    <2>2. ~sync.awaited /\ \A q \in waiting : ~q.awaited
      BY <2>1 DEF AwaitInv, Awaiting
    <2>3. \A p, q \in waiting' : p.awaited /\ q.awaited => p = q
      BY <1>8, <2>2 DEF Rebuild
    <2> QED
      BY <2>1, <2>2, <2>3 DEF AwaitInv
  <1>9. CASE CallFails
    BY <1>9, LoopFields DEF CallFails, AwaitInv, Awaiting, InSync, WebTypeInv
  <1>10. CASE ManagerStops
    <2>1. ~loop'.doing /\ ~sync'.awaited
      BY <1>10, LoopFields, SyncFields DEF ManagerStops, WebTypeInv
    <2>2. ASSUME NEW p \in waiting' PROVE ~p.awaited
      <3>1. PICK q \in waiting : p = [q EXCEPT !.awaited = FALSE]
        BY <1>10 DEF ManagerStops
      <3>2. q \in Request
        BY DEF WebTypeInv
      <3> QED
        BY <3>1, <3>2 DEF Request
    <2> QED
      BY <2>1, <2>2 DEF AwaitInv, Awaiting
  <1>11. CASE Take
    BY <1>11 DEF Take, AwaitInv, Awaiting, InSync
  <1>12. CASE WriteOne
    BY <1>12, SyncFields DEF WriteOne, Put, AwaitInv, Awaiting, InSync, WebTypeInv
  <1>13. CASE DeleteOne
    BY <1>13, SyncFields DEF DeleteOne, Put, AwaitInv, Awaiting, InSync, WebTypeInv
  <1>14. CASE Written
    <2>1. CASE sync.changed
      BY <1>14, <2>1, WrittenMoves DEF AwaitInv, Awaiting, InSync
    <2>2. CASE ~sync.changed
      BY <1>14, <2>2, <1>b, WrittenMoves
    <2> QED
      BY <2>1, <2>2
  <1>15. CASE TestPasses
    BY <1>15, SyncFields DEF TestPasses, AwaitInv, Awaiting, InSync, WebTypeInv
  <1>16. CASE TestFails
    BY <1>16, SyncFields DEF TestFails, AwaitInv, Awaiting, InSync, WebTypeInv
  <1>17. CASE WriteFails
    BY <1>17, SyncFields DEF WriteFails, AwaitInv, Awaiting, InSync, WebTypeInv
  <1>18. CASE HelperStops
    BY <1>18, SyncFields DEF HelperStops, AwaitInv, Awaiting, InSync, WebTypeInv
  <1>19. CASE HelperStarts
    BY <1>19, SyncFields DEF HelperStarts, AwaitInv, Awaiting, InSync, WebTypeInv
  <1>20. CASE RolledBack
    BY <1>20, <1>b DEF RolledBack
  <1>21. CASE Reload
    BY <1>21, <1>b DEF Reload
  <1>22. CASE ReloadFails
    BY <1>22, <1>b DEF ReloadFails
  <1>23. CASE UNCHANGED webVars
    BY <1>23, <1>a DEF webVars
  <1>24. CASE RollBackLeaves
    BY <1>24, <1>b DEF RollBackLeaves
  <1> QED
    BY <1>1, <1>2, <1>3, <1>4, <1>5, <1>6, <1>7, <1>8, <1>9, <1>10, <1>11, <1>12, <1>13, <1>14,
       <1>15, <1>16, <1>17, <1>18, <1>19, <1>20, <1>21, <1>22, <1>23, <1>24 DEF WebNext, Helper

(* What is on disk after a success stays the model, or is marked. *)
LEMMA CurrentStep ==
    WebTypeInv /\ SyncInv /\ AwaitInv /\ CurrentInv /\ [WebNext]_webVars => CurrentInv'
  <1> SUFFICES ASSUME WebTypeInv, SyncInv, AwaitInv, CurrentInv, [WebNext]_webVars PROVE CurrentInv'
    OBVIOUS
  <1> USE DEF webHistory
  <1>a. ASSUME UNCHANGED <<model, notifying, loop, waiting, disk, sync, unreloaded, overtaken,
                           unkicked, edited>>
        PROVE  CurrentInv'
    BY <1>a DEF CurrentInv, Read, Succeeded, InSync
  <1>b. ASSUME NEW ok \in BOOLEAN, Answer(ok), InSync,
               UNCHANGED <<model, notifying, disk, overtaken, unkicked>>,
               sync.awaited => \/ ~ok
                               \/ \A f \in File \ edited' : disk[f] \in {sync.files[f], User}
        PROVE  CurrentInv'
    <2>1. CASE sync.awaited
      <3>1. /\ \A q \in waiting' : ~q.awaited /\ q.late
            /\ sync'.pc = "idle" /\ ~sync'.awaited
            /\ (Read' <=> Read) /\ (Succeeded' => ok)
        <4>1. \A q \in waiting : ~q.awaited
          BY <2>1 DEF AwaitInv
        <4> QED
          BY <1>b, <2>1, <4>1, AnswerMoves DEF Read, Succeeded
      <3>2. Read => sync.files = model
        BY <2>1 DEF CurrentInv
      <3> QED
        BY <1>b, <2>1, <3>1, <3>2 DEF CurrentInv, InSync
    <2>2. CASE ~sync.awaited
      <3>1. /\ sync'.pc = "idle" /\ ~sync'.awaited /\ UNCHANGED <<loop, waiting>>
        BY <1>b, <2>2, AnswerMoves
      <3> QED
        BY <1>b, <3>1 DEF CurrentInv, Read, Succeeded, InSync
    <2> QED
      BY <2>1, <2>2
  <1>1. CASE Commit
    BY <1>1 DEF Commit, CurrentInv, Read
  <1>2. CASE ResetFails
    BY <1>2 DEF ResetFails, CurrentInv, Read
  <1>3. CASE Notify
    BY <1>3, LoopFields DEF Notify, CurrentInv, Read, WebTypeInv
  <1>4. CASE TickFires
    BY <1>4, LoopFields DEF TickFires, CurrentInv, Read, WebTypeInv
  <1>5. CASE ManagerStops
    BY <1>5, LoopFields DEF ManagerStops, CurrentInv, Read, WebTypeInv
  <1>6. CASE ManagerStarts
    BY <1>6, LoopFields DEF ManagerStarts, CurrentInv, Read, WebTypeInv
  <1>7. CASE Rebuild
    <2>1. ~loop.doing /\ loop'.doing /\ sync' = sync /\ model' = model
      BY <1>7, LoopFields DEF Rebuild, CanTake, WebTypeInv
    <2>2. ~sync.awaited /\ \A q \in waiting : ~q.awaited
      BY <2>1 DEF AwaitInv, Awaiting
    <2>3. \A q \in waiting' : q.awaited => q.files = model
      BY <1>7, <2>2 DEF Rebuild
    <2> QED
      BY <2>1, <2>2, <2>3 DEF CurrentInv, Succeeded
  <1>8. CASE CallFails
    BY <1>8, LoopFields DEF CallFails, CurrentInv, Read, Succeeded, InSync, WebTypeInv
  <1>9. CASE Edit
    BY <1>9 DEF Edit, CurrentInv, Read, Succeeded, InSync, WebTypeInv, Directory
  <1>10. CASE Take
    <2>1. PICK q \in waiting :
             /\ waiting' = waiting \ {q}
             /\ sync'.pc = "write" /\ sync'.awaited = q.awaited /\ sync'.files = q.files
             /\ overtaken' = (q.late \/ (overtaken /\ ~q.awaited))
      BY <1>10 DEF Take
    <2>2. UNCHANGED <<model, notifying, loop, unkicked>>
      BY <1>10 DEF Take
    <2>3. Read' => Read /\ (Succeeded' => Succeeded)
      BY <2>2 DEF Read, Succeeded
    <2> QED
      BY <2>1, <2>2, <2>3 DEF CurrentInv, InSync
  <1>11. CASE WriteOne
    BY <1>11, SyncFields DEF WriteOne, Put, SameSync, CurrentInv, Read, Succeeded, InSync, WebTypeInv
  <1>12. CASE DeleteOne
    BY <1>12, SyncFields DEF DeleteOne, Put, SameSync, CurrentInv, Read, Succeeded, InSync, WebTypeInv
  <1>13. CASE Written
    <2>1. CASE sync.changed
      BY <1>13, <2>1, WrittenMoves DEF CurrentInv, Read, Succeeded, InSync, SameSync
    <2>2. CASE ~sync.changed
      <3>1. \A f \in File \ edited : disk[f] \in {sync.files[f], User}
        BY <1>13, WrittenFiles, WrittenMoves DEF SyncInv, KnownFiles, InSync
      <3> QED
        BY <1>13, <2>2, <3>1, <1>b, WrittenMoves DEF InSync
    <2> QED
      BY <2>1, <2>2
  <1>14. CASE TestPasses
    BY <1>14, SyncFields DEF TestPasses, SameSync, CurrentInv, Read, Succeeded, InSync, WebTypeInv
  <1>15. CASE TestFails
    BY <1>15, SyncFields DEF TestFails, SameSync, CurrentInv, Read, Succeeded, InSync, WebTypeInv
  <1>16. CASE WriteFails
    BY <1>16, SyncFields DEF WriteFails, SameSync, CurrentInv, Read, Succeeded, InSync, WebTypeInv
  <1>17. CASE RollBackOne
    BY <1>17 DEF RollBackOne, CurrentInv, Read, Succeeded, InSync
  <1>18. CASE RolledBack
    BY <1>18, <1>b DEF RolledBack, InSync
  <1>19. CASE Reload
    <2>1. \A f \in File \ raced : disk[f] \in {sync.files[f], User}
      BY <1>19 DEF Reload, SyncInv, KnownFiles, InSync
    <2> QED
      BY <1>19, <2>1, <1>b DEF Reload, InSync
  <1>20. CASE ReloadFails
    BY <1>20, <1>b DEF ReloadFails, InSync
  <1>21. CASE HelperStops
    BY <1>21, SyncFields DEF HelperStops, CurrentInv, Read, Succeeded, InSync, WebTypeInv, Syncs
  <1>22. CASE HelperStarts
    BY <1>22, SyncFields DEF HelperStarts, CurrentInv, Read, Succeeded, InSync, WebTypeInv, Syncs
  <1>23. CASE UNCHANGED webVars
    BY <1>23, <1>a DEF webVars
  <1>24. CASE RollBackLeaves
    BY <1>24, <1>b DEF RollBackLeaves, InSync
  <1> QED
    BY <1>1, <1>2, <1>3, <1>4, <1>5, <1>6, <1>7, <1>8, <1>9, <1>10, <1>11, <1>12, <1>13, <1>14,
       <1>15, <1>16, <1>17, <1>18, <1>19, <1>20, <1>21, <1>22, <1>23, <1>24 DEF WebNext, Helper

(* A box whose managerd has just started, and nothing rendered yet. *)
LEMMA Start == WebInit => IInv
  <1> SUFFICES ASSUME WebInit PROVE IInv
    OBVIOUS
  <1>1. WebTypeInv
    BY SyncOps, LoopOps DEF WebInit, WebTypeInv, NoFiles, Directory
  <1>2. SyncInv
    BY SyncFields DEF WebInit, SyncInv, KnownFiles, InSync
  <1>3. BootInv
    BY SyncFields DEF WebInit, BootInv, DiskBootable, Bootable, Returning, NoFiles
  <1>4. LoadedInv
    BY SyncFields DEF WebInit, LoadedInv, Returning
  <1>5. AwaitInv
    BY SyncFields, LoopFields, LoopOps DEF WebInit, AwaitInv, Awaiting
  <1>6. CurrentInv
    BY LoopFields, LoopOps DEF WebInit, CurrentInv, Read
  <1> QED
    BY <1>1, <1>2, <1>3, <1>4, <1>5, <1>6 DEF IInv

(* The invariant of the web tier is inductive. *)
LEMMA Step == IInv /\ [WebNext]_webVars => IInv'
  BY WebTypeStep, SyncStep, BootStep, LoadedStep, AwaitStep, CurrentStep DEF IInv

(* It holds in every state the web tier can reach. *)
LEMMA Invariance == WebSpec => []IInv
  BY Start, Step, PTL DEF WebSpec

(* Every variable keeps its type. *)
THEOREM WebTypesCorrect == WebSpec => []WebTypeOK
  <1>1. IInv => WebTypeOK
    BY DEF IInv, WebTypeInv, WebTypeOK, Syncs
  <1> QED
    BY <1>1, Invariance, PTL

(* Outside a sync, "disk always holds a config nginx can boot from"        *)
(* (reconcile), whatever was written, refused and rolled back, unless      *)
(* helperd stopped in a sync or a file could not be put back, which the    *)
(* rollback does not notice, and no sync has passed the test since.        *)
THEOREM BootableOnDisk == WebSpec => []DiskBootable
  <1>1. IInv => DiskBootable
    BY DEF IInv, BootInv
  <1> QED
    BY <1>1, Invariance, PTL

(* A sync and its rollback leave the files without the managed mark as     *)
(* they are, unless the operator put them there behind the sync's back.    *)
THEOREM UserFilesSafe == WebSpec => UserFilesKept
  <1>1. IInv /\ [WebNext]_webVars =>
           [\A f \in File : disk[f] = User /\ disk'[f] # User
                => events' = events + 1 \/ f \in raced]_webVars
    <2> SUFFICES ASSUME IInv, WebNext, NEW f \in File, disk[f] = User, disk'[f] # User
                 PROVE  events' = events + 1 \/ f \in raced
      OBVIOUS
    <2> USE DEF webHistory
    <2>1. CASE Edit
      BY <2>1 DEF Edit, Event
    <2>2. CASE WriteOne \/ DeleteOne \/ RollBackOne
      <3>1. InSync /\ f \notin sync.foreign
        <4>1. CASE WriteOne
          BY <4>1 DEF WriteOne, Put, ToWrite, InSync, IInv, WebTypeInv, Directory
        <4>2. CASE DeleteOne
          BY <4>2 DEF DeleteOne, Put, ToDelete, InSync, IInv, WebTypeInv, Directory, SyncInv
        <4>3. CASE RollBackOne
          BY <4>3 DEF RollBackOne, ToRestore, InSync, IInv, WebTypeInv, Directory
        <4> QED
          BY <2>2, <4>1, <4>2, <4>3
      <3>2. sync.prior[f] # User /\ sync.files[f] # User
        BY DEF IInv, WebTypeInv, Syncs, Files
      <3> QED
        BY <3>1, <3>2 DEF IInv, SyncInv, KnownFiles
    <2>3. CASE UNCHANGED disk
      BY <2>3
    <2>4. Edit \/ WriteOne \/ DeleteOne \/ RollBackOne \/ UNCHANGED disk
      BY DEF WebNext, Helper, Commit, ResetFails, Notify, TickFires, Rebuild, CallFails, ManagerStops,
             ManagerStarts, Take, Written, TestPasses, TestFails, RolledBack, Reload, WriteFails,
             RollBackLeaves, ReloadFails, HelperStops, HelperStarts
    <2> QED
      BY <2>1, <2>2, <2>3, <2>4
  <1> QED
    BY <1>1, Invariance, PTL DEF WebSpec, UserFilesKept

(* An applier at rest after a success has the model on disk and nginx      *)
(* running it (Rebuild, reconcile), outside what the operator edited and   *)
(* the listed ways to miss a change.                                       *)
THEOREM SettledSafe == WebSpec => []SettledIsLoaded
  <1>1. IInv => SettledIsLoaded
    BY DEF IInv, SettledIsLoaded, LoopIdle, LoadedInv, CurrentInv, Read, Succeeded, InSync
  <1> QED
    BY <1>1, Invariance, PTL

-----------------------------------------------------------------------------
(* What a name, the steps of a run and a run can be. *)
Name == [at : {"final", "scratch", "tmp"}, cert : Cert, of : Thread \cup {"none"}]
Steps == {"idle", "lock", "order", "write", "rescan", "remove", "symlink", "rename", "restart"}
State == [pc : Steps, todo : SUBSET Site, cert : Cert, got : BOOLEAN, target : Name]

USE AcmeProvAssumption

TypeInv ==
    /\ day \in Int /\ due \in BOOLEAN
    /\ lease \in {"free", "ours", "dead"}
    /\ files \subseteq Cert /\ temps \subseteq Name
    /\ tmp \in [target : Name, there : BOOLEAN] /\ link \in Name
    /\ serving \in Cert
    /\ thread \in [Thread -> State]
    /\ requests \in Nat /\ failures \in Nat /\ crashes \in Nat
    /\ aged \subseteq Thread \cup {"tmp"}
    /\ unlinked \in BOOLEAN /\ unrestarted \in BOOLEAN
    /\ scratched \in BOOLEAN /\ stale \in BOOLEAN

(* A scratch name belongs to the run that is writing it or, after a crash, *)
(* to none; a run that writes has its scratch name, and a certificate that *)
(* is still valid.                                                         *)
TempsInv ==
    /\ \A n \in temps : /\ n.at = "scratch"
                        /\ n.of # "none" => thread[n.of].pc = "write"
                           /\ n.cert = thread[n.of].cert
    /\ \A t \in Thread : thread[t].pc = "write" =>
          /\ Scratch(thread[t].cert, t) \in temps
          /\ thread[t].cert.by # "self" /\ thread[t].cert.expires >= day
          /\ t = "install" => ~thread[t].got
    /\ ~tmp.there => tmp = NoTmp

(* A final name that the link or a run holds is there, and of the primary  *)
(* site: certificates are replaced and never removed.                      *)
Resolved(n) ==
    /\ n.at = "final" => n.of = "none" /\ n.cert \in files /\ n.cert.site = Primary
    /\ n.at = "tmp" => n = TmpName

LinkInv ==
    /\ Resolved(link) /\ Resolved(tmp.target)
    /\ \A t \in Thread : Resolved(thread[t].target)
    /\ scratched \/ link.at = "final"

(* Mail serves what the link leads to, or a run is about to restart it. *)
ServingInv ==
    unrestarted \/ scratched \/ serving = link.cert \/ \E t \in Thread : thread[t].pc = "restart"

(* The names that stay, whatever the runs do next. *)
Stable == {Final(c) : c \in files} \cup {n \in temps : n.of = "none"}

(* On day d, name m with certificate a goes before n with b: a valid one   *)
(* before an expired one, the authority's before a self-signed one, then   *)
(* the longer, then the name.                                              *)
Outranks(d, m, a, n, b) ==
    IF (d <= a.expires) # (d <= b.expires) THEN d <= a.expires
    ELSE IF (a.by = "self") # (b.by = "self") THEN b.by = "self"
    ELSE IF a.expires # b.expires THEN a.expires > b.expires
    ELSE NameLater(m, n)

BestAmong(d, S, m) ==
    \A n \in S : n.cert.site = Primary /\ n # m => Outranks(d, m, m.cert, n, n.cert)

NoneValid(d, S) ==
    \A n \in S : n.cert.site = Primary /\ n.cert.by # "self" => ~(d <= n.cert.expires)

(* A name one run put at ssl_certificate.pem.tmp waits for the rename. *)
Renaming == \E u \in Thread : thread[u].pc = "rename"

(* The link leads to the best certificate there is, and what was left      *)
(* under the temporary name of the link does not beat it.                  *)
Good ==
    /\ BestAmong(day, Stable, link)
    /\ tmp.there /\ ~Renaming /\ tmp.target \in Stable /\ tmp.target.cert.site = Primary =>
          Outranks(day, link, link.cert, TmpName, tmp.target.cert)

(* There is nothing to do about the link, or the next run has to. *)
Settled == unlinked \/ stale \/ scratched \/ Good \/ NoneValid(day, Stable)

(* A run that will look for the best certificate again. *)
Pending(u) == \/ thread[u].pc = "rescan"
              \/ thread[u].pc \in {"order", "write"} /\ thread[u].got

(* A link that is not the best is in the hands of a run; one that will     *)
(* fail, because another took the temporary name from it or put one in its *)
(* way, is not the only one.                                               *)
BestInv ==
    /\ Settled \/ \E u \in Thread : Pending(u) \/ thread[u].pc \in Relinking
    /\ \A t \in Thread : thread[t].pc = "symlink" /\ tmp.there =>
          Settled \/ \E u \in Thread \ {t} : Pending(u) \/ thread[u].pc \in {"remove", "rename"}
    /\ \A t \in Thread : thread[t].pc = "rename" /\ ~tmp.there =>
          Settled \/ \E u \in Thread \ {t} : Pending(u) \/ thread[u].pc \in {"remove", "symlink"}

(* What a run chose is still the best, unless a day or a certificate came  *)
(* between its choice and its rename (aged).                               *)
ChosenInv ==
    /\ \A t \in Thread :
          thread[t].pc \in Relinking /\ t \notin aged /\ thread[t].target.at = "final" =>
              BestAmong(day, Stable, thread[t].target)
    /\ Renaming /\ tmp.there /\ "tmp" \notin aged /\ tmp.target.at = "final" =>
          BestAmong(day, Stable, tmp.target)

(* The authority's certificates of a site, and one that lasts until a day. *)
RealIn(S, s) == {n \in S : n.cert.site = s /\ n.cert.by # "self"}
Lasts(S, s, d) == \E n \in RealIn(S, s) : n.cert.expires >= d

(* The loop's renewal pass will order for a site that needs it. *)
Expected(s) ==
    \/ due \/ thread["loop"].pc = "lock"
    \/ thread["loop"].pc \in {"order", "write"} /\ s \in thread["loop"].todo
    \/ thread["loop"].pc = "write" /\ thread["loop"].cert.site = s

(* An operator's certificate for a site is being written. *)
Installing(s) == thread["install"].pc = "write" /\ thread["install"].cert.site = s

(* A certificate being written lasts longer than the window, and a pass    *)
(* that waits for the lease is for every site.                             *)
LongInv ==
    /\ \A t \in Thread : thread[t].pc = "write" => thread[t].cert.expires > day + RenewBefore
    /\ thread["loop"].pc = "lock" => thread["loop"].todo = Site

(* A site with a certificate of the authority keeps one for the window of  *)
(* RenewBefore days, less one day for every failed order and every stop    *)
(* so far, and a full day more unless an order or an installation for it   *)
(* is under way: what each day takes, a pass, a failure or a stop pays.    *)
RenewInv ==
    \A s \in Site : RealIn(Stable, s) # {} =>
        /\ Lasts(Stable, s, day + RenewBefore - (failures + crashes))
        /\ \/ Expected(s) /\ lease # "dead"
           \/ Lasts(Stable, s, day + RenewBefore + 1 - (failures + crashes))
           \/ Installing(s)

-----------------------------------------------------------------------------
(* A name that is there leads to its certificate; ssl_certificate.pem.tmp  *)
(* leads where it points.                                                  *)
LEMMA NameLeads ==
    ASSUME NEW n, Exists(n)
    PROVE  Follow(n) = {n.cert} /\ CertAt(n) = n.cert
  <1>1. Follow(n) = {n.cert}
    BY DEF Follow
  <1> QED
    BY <1>1 DEF CertAt

LEMMA TmpLeads ==
    ASSUME TempsInv
    PROVE  /\ Exists(tmp.target) => /\ Follow(TmpName) = {tmp.target.cert}
                                    /\ CertAt(TmpName) = tmp.target.cert
           /\ ~Exists(tmp.target) => Follow(TmpName) = {}
  <1>1. ~Exists(TmpName)
    BY DEF Exists, TempsInv, TmpName
  <1>2. ASSUME Exists(tmp.target) PROVE Follow(TmpName) = {tmp.target.cert}
    BY <1>1, <1>2 DEF Follow
  <1>3. ASSUME Exists(tmp.target) PROVE CertAt(TmpName) = tmp.target.cert
    BY <1>2, <1>3 DEF CertAt
  <1>4. ASSUME ~Exists(tmp.target) PROVE Follow(TmpName) = {}
    BY <1>1, <1>4 DEF Follow
  <1> QED
    BY <1>2, <1>3, <1>4

(* What a scan finds for a site. *)
LEMMA ScanFinds ==
    ASSUME TempsInv, NEW s, NEW n
    PROVE  n \in Scan(s) <=> \/ \E c \in files : n = Final(c) /\ c.site = s
                             \/ n \in temps /\ n.cert.site = s
                             \/ n = TmpName /\ Exists(tmp.target) /\ tmp.target.cert.site = s
  <1>1. ASSUME NEW c \in files, n = Final(c) PROVE Follow(n) = {c}
    <2>1. Exists(n) /\ n.cert = c
      BY <1>1 DEF Exists, Final
    <2> QED
      BY <2>1, NameLeads
  <1>2. ASSUME n \in temps PROVE Follow(n) = {n.cert}
    BY <1>2, NameLeads DEF Exists
  <1>3. n \in Scan(s) <=> /\ (\E c \in files : n = Final(c)) \/ n \in temps \/ n = TmpName
                          /\ \E c \in Follow(n) : c.site = s
    BY DEF Scan
  <1>4. CASE \E c \in files : n = Final(c)
    <2>1. PICK c \in files : n = Final(c)
      BY <1>4
    <2>2. Follow(n) = {c} /\ n # TmpName
      BY <1>1, <2>1 DEF Final, TmpName
    <2>3. \A d \in files : n = Final(d) => d = c
      BY <2>1 DEF Final
    <2>4. n \notin temps
      BY <2>1 DEF Final, TempsInv
    <2> QED
      BY <1>3, <2>1, <2>2, <2>3, <2>4
  <1>5. CASE n \in temps
    <2>1. n # TmpName /\ \A c \in files : n # Final(c)
      BY <1>5 DEF TempsInv, TmpName, Final
    <2> QED
      BY <1>2, <1>3, <1>5, <2>1
  <1>6. CASE n = TmpName
    <2>1. n \notin temps /\ \A c \in files : n # Final(c)
      BY <1>6 DEF TempsInv, TmpName, Final
    <2> QED
      BY <1>3, <1>6, <2>1, TmpLeads
  <1> QED
    BY <1>3, <1>4, <1>5, <1>6

(* The names of the directory that lead to a certificate. *)
LEMMA ScanLeads ==
    ASSUME TempsInv, NEW s, NEW n \in Scan(s)
    PROVE  /\ CertAt(n).site = s
           /\ n # TmpName => Exists(n) /\ CertAt(n) = n.cert
           /\ n = TmpName => Exists(tmp.target) /\ CertAt(n) = tmp.target.cert
  <1>1. \/ \E c \in files : n = Final(c) /\ c.site = s
        \/ n \in temps /\ n.cert.site = s
        \/ n = TmpName /\ Exists(tmp.target) /\ tmp.target.cert.site = s
    BY ScanFinds
  <1>2. CASE n = TmpName
    BY <1>1, <1>2, TmpLeads DEF TmpName, Final, TempsInv
  <1>3. CASE n # TmpName
    <2>1. Exists(n) /\ n.cert.site = s
      BY <1>1, <1>3 DEF Exists, Final
    <2> QED
      BY <1>3, <2>1, NameLeads
  <1> QED
    BY <1>2, <1>3

-----------------------------------------------------------------------------
(* Types. *)
LEMMA Constants ==
    /\ SelfSigned \in Cert /\ NoCert \in Cert
    /\ TmpName \in Name /\ Idle \in State /\ NoTmp \in [target : Name, there : BOOLEAN]
    /\ \A c \in Cert : Final(c) \in Name
    /\ \A c \in Cert, t \in Thread : Scratch(c, t) \in Name
    /\ \A n \in Name : [n EXCEPT !.of = "none"] \in Name
  BY DEF SelfSigned, NoCert, Cert, TmpName, Name, Idle, State, Steps, NoTmp, Final, Scratch

LEMMA Updates ==
    ASSUME NEW x \in State
    PROVE  /\ \A p \in Steps : [x EXCEPT !.pc = p] \in State
           /\ \A p \in Steps, g \in BOOLEAN : [x EXCEPT !.pc = p, !.got = g] \in State
           /\ \A T \in SUBSET Site : [x EXCEPT !.todo = T] \in State
           /\ \A p \in Steps, T \in SUBSET Site : [x EXCEPT !.pc = p, !.todo = T] \in State
           /\ \A p \in Steps, T \in SUBSET Site, c \in Cert :
                 [x EXCEPT !.pc = p, !.todo = T, !.cert = c] \in State
           /\ \A p \in Steps, c \in Cert : [x EXCEPT !.pc = p, !.cert = c] \in State
           /\ \A p \in Steps, n \in Name : [x EXCEPT !.pc = p, !.target = n] \in State
  BY DEF State

LEMMA PutState ==
    ASSUME thread \in [Thread -> State], NEW t \in Thread, NEW x \in State, Goto(t, x)
    PROVE  thread' \in [Thread -> State]
  BY DEF Goto

LEMMA FinishType ==
    ASSUME TypeInv, NEW t \in Thread, Finish(t)
    PROVE  thread' \in [Thread -> State] /\ lease' \in {"free", "ours", "dead"}
  BY Constants, PutState DEF TypeInv, Finish

LEMMA TypeStep ==
    ASSUME TypeInv, TempsInv, [Next]_vars
    PROVE  TypeInv'
  <1> USE DEF dir, budget, history
  <1>0. thread \in [Thread -> State] /\ {"loop", "run", "install"} = Thread
    BY DEF TypeInv, Thread
  <1>a. day \in Int /\ failures \in Nat /\ crashes \in Nat /\ requests \in Nat
    BY DEF TypeInv
  <1>1. CASE UNCHANGED vars
    BY <1>1 DEF TypeInv, vars
  <1>2. CASE DayPasses
    BY <1>2 DEF TypeInv, DayPasses
  <1>3. CASE LeaseLapses
    BY <1>3 DEF TypeInv, LeaseLapses
  <1>4. CASE Kick
    BY <1>4 DEF TypeInv, Kick, Ask
  <1>5. CASE RenewalPass
    <2>1. [Idle EXCEPT !.pc = "lock", !.todo = Site] \in State
      BY Constants, Updates DEF Steps
    <2>2. thread' \in [Thread -> State]
      BY <1>0, <1>5, <2>1, PutState DEF RenewalPass, Thread
    <2> QED
      BY <1>5, <2>2 DEF TypeInv, RenewalPass
  <1>6. CASE StartRun
    <2>1. \A limit \in SUBSET Site : [Idle EXCEPT !.pc = "lock", !.todo = limit] \in State
      BY Constants, Updates DEF Steps
    <2>2. thread' \in [Thread -> State]
      BY <1>0, <1>6, <2>1, PutState DEF StartRun, Thread
    <2> QED
      BY <1>6, <2>2 DEF TypeInv, StartRun, Ask
  <1>7. CASE InstallManual
    <2>1. PICK s \in Site, term \in Terms :
            LET c == [site |-> s, expires |-> day + term, by |-> "operator"] IN
            /\ temps' = temps \cup {Scratch(c, "install")}
            /\ Goto("install", [Idle EXCEPT !.pc = "write", !.cert = c])
      BY <1>7 DEF InstallManual
    <2> DEFINE c == [site |-> s, expires |-> day + term, by |-> "operator"]
    <2>2. c \in Cert
      BY <1>a DEF Cert
    <2> HIDE DEF c
    <2>3. [Idle EXCEPT !.pc = "write", !.cert = c] \in State /\ Scratch(c, "install") \in Name
      BY <2>2, Constants, Updates DEF Steps, Thread
    <2>4. temps' = temps \cup {Scratch(c, "install")}
            /\ Goto("install", [Idle EXCEPT !.pc = "write", !.cert = c])
      BY <2>1 DEF c
    <2>5. thread' \in [Thread -> State]
      BY <1>0, <2>3, <2>4, PutState DEF Thread
    <2> QED
      BY <1>7, <2>3, <2>4, <2>5 DEF TypeInv, InstallManual, Ask
  <1>8. CASE Crash
    <2>1. \A n \in Name : Orphan(n) \in Name
      BY Constants DEF Orphan
    <2>2. temps' \subseteq Name /\ link' \in Name
      BY <1>8, <2>1 DEF Crash, TypeInv
    <2>3. tmp' \in [target : Name, there : BOOLEAN]
      BY <1>8, <2>1 DEF Crash, TypeInv
    <2>4. thread' \in [Thread -> State]
      BY <1>8, Constants DEF Crash
    <2>5. lease' \in {"free", "ours", "dead"}
      BY <1>8 DEF Crash, TypeInv
    <2> QED
      BY <1>8, <2>2, <2>3, <2>4, <2>5 DEF TypeInv, Crash
  <1>9. ASSUME NEW t \in Thread, Run(t) PROVE TypeInv'
    <2>0. thread[t] \in State /\ thread[t].todo \in SUBSET Site
      BY <1>0 DEF State
    <2>1. CASE Provision(t)
      <3>1. [thread[t] EXCEPT !.pc = "order",
              !.todo = {s \in thread[t].todo : Needs(s)}] \in State
        BY <2>0, Updates DEF Steps
      <3>2. thread' \in [Thread -> State]
        BY <1>0, <2>1, <3>1, PutState DEF Provision
      <3> QED
        BY <2>1, <3>2 DEF TypeInv, Provision
    <2>2. CASE ScanFails(t)
      BY <2>2, FinishType DEF TypeInv, ScanFails, Fail
    <2>3. CASE Order(t)
      <3>1. PICK s \in thread[t].todo :
              LET c == [site |-> s, expires |-> day + Validity, by |-> "acme"] IN
              /\ temps' = temps \cup {Scratch(c, t)}
              /\ Goto(t, [thread[t] EXCEPT !.pc = "write", !.todo = thread[t].todo \ {s},
                 !.cert = c])
        BY <2>3 DEF Order
      <3> DEFINE c == [site |-> s, expires |-> day + Validity, by |-> "acme"]
      <3>2. c \in Cert
        BY <1>a, <2>0 DEF Cert
      <3> HIDE DEF c
      <3>3. /\ [thread[t] EXCEPT !.pc = "write", !.todo = thread[t].todo \ {s},
               !.cert = c] \in State
            /\ Scratch(c, t) \in Name
        BY <2>0, <3>2, Constants, Updates DEF Steps
      <3>4. /\ temps' = temps \cup {Scratch(c, t)}
            /\ Goto(t, [thread[t] EXCEPT !.pc = "write", !.todo = thread[t].todo \ {s},
               !.cert = c])
        BY <3>1 DEF c
      <3>5. thread' \in [Thread -> State]
        BY <1>0, <3>3, <3>4, PutState
      <3> QED
        BY <2>3, <3>3, <3>4, <3>5 DEF TypeInv, Order
    <2>4. CASE OrderFails(t)
      <3>1. \A given_up : [thread[t] EXCEPT !.todo = thread[t].todo \ given_up] \in State
        BY <2>0, Updates
      <3>2. thread' \in [Thread -> State]
        BY <1>0, <2>4, <3>1, PutState DEF OrderFails
      <3> QED
        BY <2>4, <3>2 DEF TypeInv, OrderFails, Fail
    <2>5. CASE SitesDone(t)
      <3>1. [thread[t] EXCEPT !.pc = "rescan"] \in State
        BY <2>0, Updates DEF Steps
      <3>2. thread' \in [Thread -> State] /\ lease' \in {"free", "ours", "dead"}
        BY <1>0, <2>5, <3>1, PutState, FinishType DEF SitesDone, TypeInv
      <3> QED
        BY <2>5, <3>2 DEF TypeInv, SitesDone
    <2> QED
      BY <1>9, <2>1, <2>2, <2>3, <2>4, <2>5 DEF Run
  <1>10. ASSUME NEW t \in Thread, InstallCert(t) \/ InstallFails(t) PROVE TypeInv'
    <2>0. thread[t] \in State /\ thread[t].cert \in Cert /\ thread[t].got \in BOOLEAN
      BY <1>0 DEF State
    <2>1. \A got \in BOOLEAN : AfterWrite(t, got) \in State
      BY <2>0, Updates DEF AfterWrite, Steps
    <2>2. thread' \in [Thread -> State]
      BY <1>0, <1>10, <2>0, <2>1, Constants, PutState DEF InstallCert, InstallFails
    <2>3. CASE InstallCert(t)
      BY <2>0, <2>2, <2>3 DEF InstallCert, Chosen, TypeInv
    <2>4. CASE InstallFails(t)
      BY <2>2, <2>4 DEF InstallFails, Fail, TypeInv
    <2> QED
      BY <1>10, <2>3, <2>4
  <1>11. ASSUME NEW t \in Thread, PostInstall(t) PROVE TypeInv'
    <2>0. thread[t] \in State /\ thread[t].target \in Name
      BY <1>0 DEF State
    <2>1. CASE Rescan(t)
      <3>1. \A m \in Best(Primary) : m \in Name
        BY ScanFinds, Constants DEF Best, TypeInv
      <3>2. \A m \in Best(Primary) : [thread[t] EXCEPT !.pc = "remove", !.target = m] \in State
        BY <2>0, <3>1, Updates DEF Steps
      <3>3. thread' \in [Thread -> State] /\ lease' \in {"free", "ours", "dead"}
        BY <1>0, <2>1, <3>2, PutState, FinishType DEF Rescan, TypeInv
      <3> QED
        BY <2>1, <3>3 DEF TypeInv, Rescan
    <2>2. CASE RelinkFails(t)
      BY <2>2, FinishType DEF TypeInv, RelinkFails, Fail
    <2>3. CASE RemoveTmp(t)
      <3>1. [thread[t] EXCEPT !.pc = "symlink"] \in State
        BY <2>0, Updates DEF Steps
      <3>2. thread' \in [Thread -> State]
        BY <1>0, <2>3, <3>1, PutState DEF RemoveTmp
      <3> QED
        BY <2>3, <3>2, Constants DEF TypeInv, RemoveTmp
    <2>4. CASE SymlinkTmp(t)
      <3>1. [thread[t] EXCEPT !.pc = "rename"] \in State
        BY <2>0, Updates DEF Steps
      <3>2. thread' \in [Thread -> State] /\ lease' \in {"free", "ours", "dead"}
        BY <1>0, <2>4, <3>1, PutState, FinishType DEF SymlinkTmp, TypeInv
      <3>3. tmp' \in [target : Name, there : BOOLEAN] /\ aged' \subseteq Thread \cup {"tmp"}
        <4>1. CASE tmp = NoTmp
          <5>1. tmp' = [target |-> thread[t].target, there |-> TRUE]
            BY <2>4, <4>1 DEF SymlinkTmp
          <5>2. aged' = aged \/ aged' = aged \cup {"tmp"}
            BY <2>4, <4>1 DEF SymlinkTmp
          <5> QED
            BY <2>0, <5>1, <5>2 DEF TypeInv
        <4>2. CASE tmp # NoTmp
          BY <2>4, <4>2 DEF SymlinkTmp, TypeInv
        <4> QED
          BY <4>1, <4>2
      <3> QED
        BY <2>4, <3>2, <3>3 DEF TypeInv, SymlinkTmp
    <2>5. CASE RenameTmp(t)
      <3>1. [thread[t] EXCEPT !.pc = "restart"] \in State
        BY <2>0, Updates DEF Steps
      <3>2. thread' \in [Thread -> State] /\ lease' \in {"free", "ours", "dead"}
        BY <1>0, <2>5, <3>1, PutState, FinishType DEF RenameTmp, TypeInv
      <3>3. CASE tmp = NoTmp
        BY <2>5, <3>2, <3>3 DEF TypeInv, RenameTmp
      <3>4. CASE tmp # NoTmp
        <4>1. /\ tmp' \in [target : Name, there : BOOLEAN] /\ link' \in Name
              /\ aged' \subseteq Thread \cup {"tmp"}
          BY <2>5, <3>4, Constants DEF TypeInv, RenameTmp
        <4>2. unlinked' \in BOOLEAN /\ scratched' \in BOOLEAN /\ stale' \in BOOLEAN
          <5>1. /\ unlinked' = FALSE
                /\ scratched' = (tmp.target.at # "final") /\ stale' = ("tmp" \in aged)
            BY <2>5, <3>4 DEF RenameTmp
          <5>2. scratched' \in BOOLEAN
            BY <5>1
          <5>3. stale' \in BOOLEAN
            BY <5>1
          <5> QED
            BY <5>1, <5>2, <5>3
        <4> QED
          BY <2>5, <3>2, <4>1, <4>2 DEF TypeInv, RenameTmp
      <3> QED
        BY <3>3, <3>4
    <2>6. CASE Restart(t)
      <3>1. serving' \in Cert
        <4>1. CASE Exists(link)
          BY <2>6, <4>1, NameLeads, Constants DEF Restart, TypeInv, Name
        <4>2. CASE ~Exists(link) /\ link = TmpName /\ Exists(tmp.target)
          BY <2>6, <4>2, TmpLeads, Constants DEF Restart, TypeInv, Name
        <4>3. CASE ~Exists(link) /\ ~(link = TmpName /\ Exists(tmp.target))
          BY <2>6, <4>3, Constants DEF Restart, Follow
        <4> QED
          BY <4>1, <4>2, <4>3
      <3> QED
        BY <2>6, <3>1, FinishType DEF TypeInv, Restart
    <2>7. CASE RestartFails(t)
      BY <2>7, FinishType DEF TypeInv, RestartFails, Fail
    <2> QED
      BY <1>11, <2>1, <2>2, <2>3, <2>4, <2>5, <2>6, <2>7 DEF PostInstall
  <1> QED
    BY <1>0, <1>1, <1>2, <1>3, <1>4, <1>5, <1>6, <1>7, <1>8, <1>9, <1>10, <1>11 DEF Next, Thread

(* A step of one thread leaves the others where they are. *)
LEMMA ThreadPut ==
    ASSUME thread \in [Thread -> State], NEW t \in Thread, NEW x, Goto(t, x)
    PROVE  thread'[t] = x /\ \A u \in Thread \ {t} : thread'[u] = thread[u]
  BY DEF Goto

(* What every step of a thread does to it. *)
Others(t) == \A u \in Thread \ {t} : thread'[u] = thread[u]

LEMMA Moved ==
    ASSUME thread \in [Thread -> State], NEW t \in Thread, NEW p,
           Goto(t, [thread[t] EXCEPT !.pc = p])
    PROVE  /\ Others(t) /\ thread'[t].pc = p
           /\ thread'[t].todo = thread[t].todo /\ thread'[t].cert = thread[t].cert
           /\ thread'[t].got = thread[t].got /\ thread'[t].target = thread[t].target
  <1>1. thread[t] \in State
    OBVIOUS
  <1>2. Others(t) /\ thread'[t] = [thread[t] EXCEPT !.pc = p]
    BY ThreadPut DEF Others
  <1> QED
    BY <1>1, <1>2 DEF State

LEMMA MovedStarting ==
    ASSUME thread \in [Thread -> State]
    PROVE  /\ RenewalPass /\ lease # "dead" =>
                /\ Others("loop") /\ thread'["loop"].pc = "lock" /\ thread'["loop"].todo = Site
                /\ thread'["loop"].got = FALSE /\ thread'["loop"].target = TmpName
           /\ StartRun => /\ Others("run") /\ thread'["run"].pc = "lock"
                          /\ thread'["run"].got = FALSE /\ thread'["run"].target = TmpName
  <1> DEFINE Starts(limit) == [Idle EXCEPT !.pc = "lock", !.todo = limit]
  <1>0. "loop" \in Thread /\ "run" \in Thread
    BY DEF Thread
  <1>1. ASSUME NEW limit
        PROVE  /\ Starts(limit).pc = "lock" /\ Starts(limit).todo = limit
               /\ Starts(limit).got = FALSE /\ Starts(limit).target = TmpName
    BY DEF Idle
  <1>2. ASSUME RenewalPass, lease # "dead"
        PROVE  Others("loop") /\ thread'["loop"] = Starts(Site)
    <2>1. Goto("loop", Starts(Site))
      BY <1>2 DEF RenewalPass
    <2> HIDE DEF Starts
    <2> QED
      BY <1>0, <2>1, ThreadPut DEF Others
  <1>3. ASSUME StartRun
        PROVE  Others("run") /\ \E limit : thread'["run"] = Starts(limit)
    <2>1. PICK limit : Goto("run", Starts(limit))
      BY <1>3 DEF StartRun
    <2> HIDE DEF Starts
    <2> QED
      BY <1>0, <2>1, ThreadPut DEF Others
  <1> HIDE DEF Starts
  <1> QED
    BY <1>1, <1>2, <1>3

LEMMA MovedInstalling ==
    ASSUME thread \in [Thread -> State], InstallManual
    PROVE  \E s \in Site, term \in Terms :
              LET c == [site |-> s, expires |-> day + term, by |-> "operator"] IN
              /\ temps' = temps \cup {Scratch(c, "install")}
              /\ Others("install") /\ thread'["install"].pc = "write" /\ thread'["install"].cert = c
              /\ thread'["install"].got = FALSE /\ thread'["install"].target = TmpName
  <1>1. PICK s \in Site, term \in Terms :
            LET c == [site |-> s, expires |-> day + term, by |-> "operator"] IN
            /\ temps' = temps \cup {Scratch(c, "install")}
            /\ Goto("install", [Idle EXCEPT !.pc = "write", !.cert = c])
    BY DEF InstallManual
  <1> DEFINE c == [site |-> s, expires |-> day + term, by |-> "operator"]
  <1>2. temps' = temps \cup {Scratch(c, "install")}
          /\ Goto("install", [Idle EXCEPT !.pc = "write", !.cert = c])
    BY <1>1
  <1>3. /\ Others("install") /\ thread'["install"].pc = "write" /\ thread'["install"].cert = c
        /\ thread'["install"].got = FALSE /\ thread'["install"].target = TmpName
    <2> HIDE DEF c
    <2> QED
      BY <1>2 DEF Goto, Others, Idle, Thread
  <1> QED
    BY <1>2, <1>3

LEMMA MovedProvision ==
    ASSUME thread \in [Thread -> State], NEW t \in Thread, Provision(t)
    PROVE  /\ Others(t) /\ thread'[t].pc = "order"
           /\ thread'[t].todo = {s \in thread[t].todo : Needs(s)}
              /\ thread'[t].cert = thread[t].cert
           /\ thread'[t].got = thread[t].got /\ thread'[t].target = thread[t].target
  <1> DEFINE T == {s \in thread[t].todo : Needs(s)}
  <1>1. thread[t] \in State /\ Goto(t, [thread[t] EXCEPT !.pc = "order", !.todo = T])
    BY DEF Provision
  <1> HIDE DEF T
  <1>2. Others(t) /\ thread'[t] = [thread[t] EXCEPT !.pc = "order", !.todo = T]
    BY <1>1, ThreadPut DEF Others
  <1>3. /\ Others(t) /\ thread'[t].pc = "order"
        /\ thread'[t].todo = T /\ thread'[t].cert = thread[t].cert
        /\ thread'[t].got = thread[t].got /\ thread'[t].target = thread[t].target
    BY <1>1, <1>2 DEF State
  <1> QED
    BY <1>3 DEF T

LEMMA MovedOrder ==
    ASSUME thread \in [Thread -> State], NEW t \in Thread, Order(t)
    PROVE  \E s \in thread[t].todo :
              LET c == [site |-> s, expires |-> day + Validity, by |-> "acme"] IN
              /\ temps' = temps \cup {Scratch(c, t)}
              /\ Others(t) /\ thread'[t].pc = "write" /\ thread'[t].cert = c
              /\ thread'[t].todo = thread[t].todo \ {s}
              /\ thread'[t].got = thread[t].got /\ thread'[t].target = thread[t].target
  <1>1. PICK s \in thread[t].todo :
            LET c == [site |-> s, expires |-> day + Validity, by |-> "acme"] IN
            /\ temps' = temps \cup {Scratch(c, t)}
            /\ Goto(t, [thread[t] EXCEPT !.pc = "write", !.todo = thread[t].todo \ {s},
               !.cert = c])
    BY DEF Order
  <1> DEFINE c == [site |-> s, expires |-> day + Validity, by |-> "acme"]
  <1>2. /\ temps' = temps \cup {Scratch(c, t)}
        /\ Goto(t, [thread[t] EXCEPT !.pc = "write", !.todo = thread[t].todo \ {s}, !.cert = c])
    BY <1>1
  <1>3. /\ Others(t) /\ thread'[t].pc = "write" /\ thread'[t].cert = c
        /\ thread'[t].todo = thread[t].todo \ {s}
        /\ thread'[t].got = thread[t].got /\ thread'[t].target = thread[t].target
    <2> HIDE DEF c
    <2>1. /\ Others(t)
          /\ thread'[t] = [thread[t] EXCEPT !.pc = "write", !.todo = thread[t].todo \ {s},
                                            !.cert = c]
      BY <1>2, ThreadPut DEF Others
    <2>2. thread[t] \in State
      OBVIOUS
    <2> QED
      BY <2>1, <2>2 DEF State
  <1> QED
    BY <1>2, <1>3

LEMMA MovedOrderFails ==
    ASSUME thread \in [Thread -> State], NEW t \in Thread, OrderFails(t)
    PROVE  /\ Others(t) /\ thread'[t].pc = "order"
           /\ thread'[t].todo \subseteq thread[t].todo /\ thread'[t].cert = thread[t].cert
           /\ thread'[t].got = thread[t].got /\ thread'[t].target = thread[t].target
  <1>1. PICK given_up : Goto(t, [thread[t] EXCEPT !.todo = thread[t].todo \ given_up])
    BY DEF OrderFails
  <1>2. Others(t) /\ thread'[t] = [thread[t] EXCEPT !.todo = thread[t].todo \ given_up]
    BY <1>1, ThreadPut DEF Others
  <1>3. thread[t] \in State /\ thread[t].pc = "order"
    BY DEF OrderFails
  <1> QED
    BY <1>2, <1>3 DEF State

LEMMA MovedWritten ==
    ASSUME thread \in [Thread -> State], NEW t \in Thread, NEW got, Goto(t, AfterWrite(t, got))
    PROVE  /\ Others(t) /\ thread'[t].pc = (IF t = "install" THEN "rescan" ELSE "order")
           /\ thread'[t].todo = thread[t].todo /\ thread'[t].got = got
           /\ thread'[t].target = thread[t].target
  <1>1. Others(t) /\ thread'[t] = AfterWrite(t, got)
    BY ThreadPut DEF Others
  <1>2. thread[t] \in State
    OBVIOUS
  <1> QED
    BY <1>1, <1>2 DEF State, AfterWrite

LEMMA MovedInstalled ==
    ASSUME thread \in [Thread -> State], NEW t \in Thread, InstallCert(t)
    PROVE  Others(t) /\ thread'[t].pc \in {"rescan", "order"} /\ thread'[t].got
  <1>1. Goto(t, AfterWrite(t, TRUE))
    BY Zenon DEF InstallCert
  <1>2. Others(t) /\ thread'[t] = AfterWrite(t, TRUE)
    BY <1>1, ThreadPut DEF Others
  <1>3. thread[t] \in State
    OBVIOUS
  <1>4. AfterWrite(t, TRUE).pc \in {"rescan", "order"} /\ AfterWrite(t, TRUE).got
    BY <1>3 DEF State, AfterWrite
  <1> QED
    BY <1>2, <1>4

LEMMA MovedChosen ==
    ASSUME thread \in [Thread -> State], NEW t \in Thread, NEW m,
           Goto(t, [thread[t] EXCEPT !.pc = "remove", !.target = m])
    PROVE  /\ Others(t) /\ thread'[t].pc = "remove" /\ thread'[t].target = m
           /\ thread'[t].todo = thread[t].todo /\ thread'[t].got = thread[t].got
  <1>1. Others(t) /\ thread'[t] = [thread[t] EXCEPT !.pc = "remove", !.target = m]
    BY ThreadPut DEF Others
  <1>2. thread[t] \in State
    OBVIOUS
  <1> QED
    BY <1>1, <1>2 DEF State

LEMMA MovedIdle ==
    ASSUME thread \in [Thread -> State], NEW t \in Thread, Goto(t, Idle)
    PROVE  /\ Others(t) /\ thread'[t].pc = "idle" /\ thread'[t].todo = {}
           /\ thread'[t].got = FALSE /\ thread'[t].target = TmpName
  BY ThreadPut DEF Others, Idle

LEMMA IdleFields ==
    /\ Idle.pc = "idle" /\ Idle.todo = {} /\ Idle.got = FALSE /\ Idle.target = TmpName
  BY DEF Idle

(* The scratch files. *)
LEMMA TempsKept ==
    ASSUME TypeInv, TempsInv, TypeInv', temps' = temps, day' = day, ~tmp'.there => tmp' = NoTmp,
           \A u \in Thread : /\ thread'[u].pc = "write" <=> thread[u].pc = "write"
                             /\ thread[u].pc = "write" => thread'[u] = thread[u]
    PROVE  TempsInv'
  <1>1. \A n \in temps : n.of # "none" => n.of \in Thread
    BY DEF TypeInv, Name
  <1>2. \A n \in temps : /\ n.at = "scratch"
                         /\ n.of # "none" => thread'[n.of].pc = "write"
                            /\ n.cert = thread'[n.of].cert
    BY <1>1 DEF TempsInv
  <1>3. ASSUME NEW t \in Thread, thread'[t].pc = "write"
        PROVE  /\ Scratch(thread'[t].cert, t) \in temps
               /\ thread'[t].cert.by # "self" /\ thread'[t].cert.expires >= day
               /\ t = "install" => ~thread'[t].got
    BY <1>3 DEF TempsInv
  <1> QED
    BY <1>2, <1>3 DEF TempsInv, Scratch

(* A file is put there by the thread that is about to write it ... *)
LEMMA TempsAdded ==
    ASSUME TypeInv, TempsInv, TypeInv', NEW t \in Thread, NEW c, Others(t), day' = day,
           tmp' = tmp,
           thread[t].pc # "write", temps' = temps \cup {Scratch(c, t)}, thread'[t].pc = "write",
           thread'[t].cert = c, c.by # "self", c.expires >= day, t = "install" => ~thread'[t].got
    PROVE  TempsInv'
  <1>1. \A n \in temps : n.of # "none" => n.of \in Thread
    BY DEF TypeInv, Name
  <1>2. \A u \in Thread \ {t} : thread'[u] = thread[u]
    BY DEF Others
  <1>3. \A n \in temps : n.at = "scratch" /\ (n.of # "none" => n.of # t
          /\ thread'[n.of] = thread[n.of])
    BY <1>1, <1>2 DEF TempsInv
  <1>4. \A n \in temps : n.of # "none" => thread'[n.of].pc = "write"
          /\ n.cert = thread'[n.of].cert
    BY <1>3 DEF TempsInv
  <1>5. Scratch(c, t).at = "scratch" /\ Scratch(c, t).of = t /\ Scratch(c, t).cert = c
    BY DEF Scratch
  <1>6. ASSUME NEW u \in Thread, thread'[u].pc = "write"
        PROVE  /\ Scratch(thread'[u].cert, u) \in temps'
               /\ thread'[u].cert.by # "self" /\ thread'[u].cert.expires >= day
               /\ u = "install" => ~thread'[u].got
    BY <1>2, <1>6 DEF TempsInv
  <1>7. \A n \in temps' : /\ n.at = "scratch"
                          /\ n.of # "none" => thread'[n.of].pc = "write"
                             /\ n.cert = thread'[n.of].cert
    BY <1>2, <1>3, <1>4, <1>5
  <1>8. ~tmp.there => tmp = NoTmp
    BY DEF TempsInv
  <1> QED
    BY <1>6, <1>7, <1>8 DEF TempsInv, Scratch, NoTmp, TmpName

(* ... and taken away when the writing is over. *)
LEMMA TempsTaken ==
    ASSUME TypeInv, TempsInv, TypeInv', NEW t \in Thread, Others(t), day' = day, tmp' = tmp,
           thread[t].pc = "write", temps' = temps \ {Scratch(thread[t].cert, t)},
             thread'[t].pc # "write"
    PROVE  TempsInv'
  <1>1. \A n \in temps : n.of # "none" => n.of \in Thread
    BY DEF TypeInv, Name
  <1>2. \A u \in Thread \ {t} : thread'[u] = thread[u]
    BY DEF Others
  <1>3. \A n \in temps : n.of = t => n = Scratch(thread[t].cert, t)
    <2> SUFFICES ASSUME NEW n \in temps, n.of = t PROVE n = Scratch(thread[t].cert, t)
      OBVIOUS
    <2>1. n.at = "scratch" /\ n.cert = thread[t].cert /\ n \in Name /\ t # "none"
      BY DEF TempsInv, TypeInv, Thread
    <2> QED
      BY <2>1 DEF Scratch, Name
  <1>4. \A n \in temps' : n.of # "none" => n.of \in Thread \ {t} /\ thread'[n.of] = thread[n.of]
    BY <1>1, <1>2, <1>3
  <1>5. \A n \in temps' : /\ n.at = "scratch"
                          /\ n.of # "none" => thread'[n.of].pc = "write"
                             /\ n.cert = thread'[n.of].cert
    BY <1>4 DEF TempsInv
  <1>6. ASSUME NEW u \in Thread, thread'[u].pc = "write"
        PROVE  /\ Scratch(thread'[u].cert, u) \in temps'
               /\ thread'[u].cert.by # "self" /\ thread'[u].cert.expires >= day
               /\ u = "install" => ~thread'[u].got
    <2>1. u # t /\ thread'[u] = thread[u]
      BY <1>2, <1>6
    <2>2. Scratch(thread[u].cert, u) # Scratch(thread[t].cert, t)
      BY <2>1 DEF Scratch
    <2> QED
      BY <1>6, <2>1, <2>2 DEF TempsInv
  <1>8. ~tmp.there => tmp = NoTmp
    BY DEF TempsInv
  <1> QED
    BY <1>5, <1>6, <1>8 DEF TempsInv, Scratch, NoTmp, TmpName

(* Whatever a run or postInstall does outside the two steps on a scratch   *)
(* file, nobody begins or ends writing one.                                *)
Quiet == \A u \in Thread : /\ thread'[u].pc = "write" <=> thread[u].pc = "write"
                           /\ thread[u].pc = "write" => thread'[u] = thread[u]

LEMMA QuietMoved ==
    ASSUME NEW t \in Thread, Others(t), thread[t].pc # "write", thread'[t].pc # "write"
    PROVE  Quiet
  BY DEF Others, Quiet

LEMMA QuietFinish ==
    ASSUME TypeInv, NEW t \in Thread, Finish(t), thread[t].pc # "write"
    PROVE  Quiet
  BY MovedIdle, QuietMoved DEF Finish, TypeInv

(* The steps that only move a thread, keep its place or give it up. *)
LEMMA QuietRun ==
    ASSUME TypeInv, NEW t \in Thread,
           Provision(t) \/ ScanFails(t) \/ OrderFails(t) \/ SitesDone(t) \/ PostInstall(t)
    PROVE  Quiet
  <1>0. thread \in [Thread -> State]
    BY DEF TypeInv
  <1>1. CASE Provision(t)
    BY <1>0, <1>1, MovedProvision, QuietMoved DEF Provision
  <1>2. CASE ScanFails(t)
    BY <1>2, QuietFinish DEF ScanFails
  <1>3. CASE OrderFails(t)
    BY <1>0, <1>3, MovedOrderFails, QuietMoved DEF OrderFails
  <1>4. CASE SitesDone(t)
    BY <1>0, <1>4, Moved, QuietMoved, QuietFinish DEF SitesDone
  <1>5. CASE Rescan(t)
    <2>1. CASE link \in Best(Primary)
      BY <1>5, <2>1, QuietFinish DEF Rescan
    <2>2. CASE link \notin Best(Primary)
      <3>1. PICK m : Goto(t, [thread[t] EXCEPT !.pc = "remove", !.target = m])
        BY <1>5, <2>2 DEF Rescan
      <3> QED
        BY <1>0, <1>5, <3>1, MovedChosen, QuietMoved DEF Rescan
    <2> QED
      BY <2>1, <2>2
  <1>6. CASE RelinkFails(t)
    BY <1>6, QuietFinish DEF RelinkFails, Relinking
  <1>7. CASE RemoveTmp(t)
    BY <1>0, <1>7, Moved, QuietMoved DEF RemoveTmp
  <1>8. CASE SymlinkTmp(t)
    BY <1>0, <1>8, Moved, QuietMoved, QuietFinish DEF SymlinkTmp
  <1>9. CASE RenameTmp(t)
    <2>1. CASE Finish(t)
      BY <1>9, <2>1, QuietFinish DEF RenameTmp
    <2>2. CASE Goto(t, [thread[t] EXCEPT !.pc = "restart"])
      BY <1>0, <1>9, <2>2, Moved, QuietMoved DEF RenameTmp
    <2> QED
      BY <1>9, <2>1, <2>2 DEF RenameTmp
  <1>10. CASE Restart(t)
    BY <1>10, QuietFinish DEF Restart
  <1>11. CASE RestartFails(t)
    BY <1>11, QuietFinish DEF RestartFails
  <1> QED
    BY <1>1, <1>2, <1>3, <1>4, <1>5, <1>6, <1>7, <1>8, <1>9, <1>10, <1>11 DEF PostInstall

LEMMA TempsStep ==
    ASSUME TypeInv, TempsInv, TypeInv', [Next]_vars
    PROVE  TempsInv'
  <1> USE DEF dir, budget, history
  <1>0. thread \in [Thread -> State] /\ {"loop", "run", "install"} = Thread
    BY DEF TypeInv, Thread
  <1>a. day \in Int /\ (~tmp.there => tmp = NoTmp)
    BY DEF TypeInv, TempsInv
  <1>b. ~NoTmp.there
    BY DEF NoTmp
  <1>c. ASSUME Quiet, temps' = temps, day' = day, ~tmp'.there => tmp' = NoTmp PROVE TempsInv'
    BY <1>c, TempsKept DEF Quiet
  <1>f. ASSUME UNCHANGED thread PROVE Quiet
    BY <1>f DEF Quiet
  <1>1. CASE UNCHANGED vars
    BY <1>1, <1>a, <1>c, <1>f DEF vars
  <1>2. CASE DayPasses
    <2>1. \A t \in Thread : thread[t].pc # "write" /\ thread'[t].pc # "write"
      BY <1>2 DEF DayPasses
    <2>2. \A n \in temps : n.of # "none" => n.of \in Thread
      BY DEF TypeInv, Name
    <2>3. \A n \in temps : n.at = "scratch" /\ n.of = "none"
      BY <2>1, <2>2 DEF TempsInv
    <2>4. temps' = temps /\ tmp' = tmp
      BY <1>2 DEF DayPasses
    <2> QED
      BY <1>a, <2>1, <2>3, <2>4 DEF TempsInv, NoTmp, TmpName
  <1>3. CASE LeaseLapses
    BY <1>3, <1>a, <1>c, <1>f DEF LeaseLapses
  <1>4. CASE Kick
    BY <1>4, <1>a, <1>c, <1>f DEF Kick
  <1>5. CASE RenewalPass
    <2>1. Quiet
      BY <1>0, <1>5, <1>f, MovedStarting, QuietMoved DEF RenewalPass
    <2> QED
      BY <1>5, <1>a, <1>c, <2>1 DEF RenewalPass
  <1>6. CASE StartRun
    <2>1. Quiet
      BY <1>0, <1>6, MovedStarting, QuietMoved DEF StartRun
    <2> QED
      BY <1>6, <1>a, <1>c, <2>1 DEF StartRun
  <1>7. CASE InstallManual
    <2>1. PICK s \in Site, term \in Terms :
            LET c == [site |-> s, expires |-> day + term, by |-> "operator"] IN
            /\ temps' = temps \cup {Scratch(c, "install")}
            /\ Others("install") /\ thread'["install"].pc = "write" /\ thread'["install"].cert = c
            /\ thread'["install"].got = FALSE /\ thread'["install"].target = TmpName
      BY <1>0, <1>7, MovedInstalling
    <2> DEFINE c == [site |-> s, expires |-> day + term, by |-> "operator"]
    <2>2. c.by # "self" /\ c.expires >= day
      BY <1>a
    <2>3. /\ temps' = temps \cup {Scratch(c, "install")}
          /\ Others("install") /\ thread'["install"].pc = "write" /\ thread'["install"].cert = c
          /\ ~thread'["install"].got
      BY <2>1
    <2> HIDE DEF c
    <2>4. "install" \in Thread /\ thread["install"].pc # "write" /\ day' = day /\ tmp' = tmp
      BY <1>0, <1>7 DEF InstallManual
    <2> QED
      BY <2>2, <2>3, <2>4, TempsAdded
  <1>8. CASE Crash
    <2>1. \A t \in Thread : thread'[t].pc # "write"
      BY <1>8 DEF Crash, Idle
    <2>2. \A n \in temps : Orphan(n).at = "scratch" /\ Orphan(n).of = "none"
      BY DEF Orphan, TempsInv, TypeInv, Name
    <2>3. \A n \in temps' : n.at = "scratch" /\ n.of = "none"
      BY <1>8, <2>2 DEF Crash
    <2>4. ~tmp'.there => tmp' = NoTmp
      <3>1. tmp' = [tmp EXCEPT !.target = Orphan(tmp.target)]
              /\ tmp \in [target : Name, there : BOOLEAN]
        BY <1>8 DEF Crash, TypeInv
      <3>2. Orphan(TmpName) = TmpName
        BY DEF Orphan, TempsInv, TmpName
      <3>3. CASE tmp.there
        BY <3>1, <3>3
      <3>4. CASE ~tmp.there
        <4>1. tmp = [target |-> TmpName, there |-> FALSE]
          BY <1>a, <3>4 DEF NoTmp
        <4>2. tmp' = [tmp EXCEPT !.target = TmpName]
          BY <3>1, <3>2, <4>1
        <4> QED
          BY <4>1, <4>2 DEF NoTmp
      <3> QED
        BY <3>3, <3>4
    <2> QED
      BY <2>1, <2>3, <2>4 DEF TempsInv, NoTmp, TmpName
  <1>9. ASSUME NEW t \in Thread,
               Provision(t) \/ ScanFails(t) \/ OrderFails(t) \/ SitesDone(t) \/ PostInstall(t)
        PROVE  TempsInv'
    <2>1. temps' = temps /\ day' = day
      BY <1>9 DEF Provision, ScanFails, OrderFails, SitesDone, PostInstall, Rescan, RelinkFails,
         RemoveTmp,
                  SymlinkTmp, RenameTmp, Restart, RestartFails
    <2>2. tmp' = tmp \/ tmp' = NoTmp \/ tmp' = [target |-> thread[t].target, there |-> TRUE]
      BY <1>9 DEF Provision, ScanFails, OrderFails, SitesDone, PostInstall, Rescan, RelinkFails,
         RemoveTmp,
                  SymlinkTmp, RenameTmp, Restart, RestartFails
    <2>3. ~tmp'.there => tmp' = NoTmp
      BY <1>a, <2>2
    <2> QED
      BY <1>9, <1>c, <2>1, <2>3, QuietRun
  <1>10. ASSUME NEW t \in Thread, t # "install", Order(t) PROVE TempsInv'
    <2>1. PICK s \in thread[t].todo :
            LET c == [site |-> s, expires |-> day + Validity, by |-> "acme"] IN
            /\ temps' = temps \cup {Scratch(c, t)}
            /\ Others(t) /\ thread'[t].pc = "write" /\ thread'[t].cert = c
            /\ thread'[t].todo = thread[t].todo \ {s}
            /\ thread'[t].got = thread[t].got /\ thread'[t].target = thread[t].target
      BY <1>0, <1>10, MovedOrder
    <2> DEFINE c == [site |-> s, expires |-> day + Validity, by |-> "acme"]
    <2>2. c.by # "self" /\ c.expires >= day
      BY <1>a
    <2>3. /\ temps' = temps \cup {Scratch(c, t)}
          /\ Others(t) /\ thread'[t].pc = "write" /\ thread'[t].cert = c
      BY <2>1
    <2> HIDE DEF c
    <2>4. thread[t].pc # "write" /\ day' = day /\ tmp' = tmp
      BY <1>10 DEF Order
    <2> QED
      BY <1>10, <2>2, <2>3, <2>4, TempsAdded
  <1>11. ASSUME NEW t \in Thread, InstallCert(t) \/ InstallFails(t) PROVE TempsInv'
    <2>1. Others(t) /\ thread'[t].pc # "write"
      BY <1>0, <1>11, MovedWritten, MovedIdle DEF InstallCert, InstallFails
    <2>2. /\ thread[t].pc = "write" /\ day' = day /\ tmp' = tmp
          /\ temps' = temps \ {Scratch(thread[t].cert, t)}
      BY <1>11 DEF InstallCert, InstallFails
    <2> QED
      BY <2>1, <2>2, TempsTaken
  <1> QED
    BY <1>0, <1>1, <1>2, <1>3, <1>4, <1>5, <1>6, <1>7, <1>8, <1>9, <1>10, <1>11 DEF Next, Run

-----------------------------------------------------------------------------
(* The symlink and the names it may be pointed at. *)
LEMMA BestResolves ==
    ASSUME TypeInv, TempsInv, NEW m \in Best(Primary)
    PROVE  Resolved(m)
  <1>1. \/ \E c \in files : m = Final(c) /\ c.site = Primary
        \/ m \in temps
        \/ m = TmpName
    BY ScanFinds DEF Best
  <1> QED
    BY <1>1 DEF Resolved, Final, TmpName, TempsInv

LEMMA TmpNameResolves == Resolved(TmpName)
  BY DEF Resolved, TmpName

LEMMA ResolvedStays ==
    ASSUME NEW n, Resolved(n), files \subseteq files'
    PROVE  Resolved(n)'
  BY DEF Resolved, TmpName, NoCert

LEMMA LinkStep ==
    ASSUME TypeInv, TempsInv, LinkInv, [Next]_vars
    PROVE  LinkInv'
  <1> USE DEF dir, budget, history
  <1>0. thread \in [Thread -> State] /\ {"loop", "run", "install"} = Thread
    BY DEF TypeInv, Thread
  <1>a. /\ Resolved(link) /\ Resolved(tmp.target)
        /\ \A t \in Thread : Resolved(thread[t].target)
        /\ scratched \/ link.at = "final"
    BY DEF LinkInv
  <1> DEFINE Kept == \A u \in Thread : thread'[u].target = thread[u].target
        \/ thread'[u].target = TmpName
  <1>b. ASSUME Kept, files \subseteq files', link' = link, tmp' = tmp, scratched' = scratched
        PROVE  LinkInv'
    <2>1. \A u \in Thread : Resolved(thread'[u].target)
      BY <1>a, <1>b, TmpNameResolves
    <2>2. \A n : Resolved(n) => Resolved(n)'
      BY <1>b, ResolvedStays
    <2>3. \A u \in Thread : Resolved(thread[u].target)'
      BY <2>1, <1>b DEF Resolved
    <2> QED
      BY <1>a, <1>b, <2>3 DEF LinkInv, Resolved
  <1>c. ASSUME UNCHANGED thread PROVE Kept
    BY <1>c
  <1>d. ASSUME NEW t \in Thread, Others(t), thread'[t].target \in {thread[t].target, TmpName}
        PROVE  Kept
    BY <1>d DEF Others
  <1>e. ASSUME NEW t \in Thread, Finish(t) PROVE Kept
    BY <1>0, <1>e, <1>d, MovedIdle DEF Finish
  <1> HIDE DEF Kept
  <1>1. CASE UNCHANGED vars
    BY <1>1, <1>b, <1>c DEF vars
  <1>2. CASE DayPasses
    BY <1>2, <1>b, <1>c DEF DayPasses
  <1>3. CASE LeaseLapses
    BY <1>3, <1>b, <1>c DEF LeaseLapses
  <1>4. CASE Kick
    BY <1>4, <1>b, <1>c DEF Kick
  <1>5. CASE RenewalPass
    <2>1. Kept
      BY <1>0, <1>5, <1>c, <1>d, MovedStarting DEF RenewalPass
    <2> QED
      BY <1>5, <1>b, <2>1 DEF RenewalPass
  <1>6. CASE StartRun
    <2>1. Kept
      BY <1>0, <1>6, <1>d, MovedStarting DEF StartRun
    <2> QED
      BY <1>6, <1>b, <2>1 DEF StartRun
  <1>7. CASE InstallManual
    <2>1. Others("install") /\ thread'["install"].target = TmpName
      BY <1>0, <1>7, MovedInstalling
    <2>2. Kept
      BY <1>0, <1>d, <2>1
    <2> QED
      BY <1>7, <1>b, <2>2 DEF InstallManual
  <1>8. CASE Crash
    <2>1. \A n : Resolved(n) => Resolved(Orphan(n))
      BY DEF Resolved, Orphan, TempsInv, TypeInv, Name
    <2>2. Orphan(link).at = link.at
      BY DEF Orphan, TypeInv, Name
    <2>3. /\ tmp'.target = Orphan(tmp.target) /\ link' = Orphan(link)
          /\ files' = files /\ scratched' = scratched
      BY <1>8 DEF Crash, TypeInv
    <2>4. \A u \in Thread : thread'[u].target = TmpName
      BY <1>8 DEF Crash, Idle
    <2>5. Resolved(link') /\ Resolved(tmp'.target) /\ \A u \in Thread : Resolved(thread'[u].target)
      BY <1>a, <2>1, <2>3, <2>4, TmpNameResolves
    <2> QED
      BY <1>a, <2>2, <2>3, <2>5 DEF LinkInv, Resolved
  <1>9. ASSUME NEW t \in Thread, Run(t) PROVE LinkInv'
    <2>1. Kept
      <3>1. CASE Provision(t)
        BY <1>0, <1>d, <3>1, MovedProvision
      <3>2. CASE ScanFails(t)
        BY <1>e, <3>2 DEF ScanFails
      <3>3. CASE Order(t)
        <4>1. Others(t) /\ thread'[t].target = thread[t].target
          BY <1>0, <3>3, MovedOrder
        <4> QED
          BY <1>d, <4>1
      <3>4. CASE OrderFails(t)
        BY <1>0, <1>d, <3>4, MovedOrderFails
      <3>5. CASE SitesDone(t)
        BY <1>0, <1>d, <1>e, <3>5, Moved DEF SitesDone
      <3> QED
        BY <1>9, <3>1, <3>2, <3>3, <3>4, <3>5 DEF Run
    <2>2. UNCHANGED <<files, link, tmp, scratched>>
      BY <1>9 DEF Run, Provision, ScanFails, Order, OrderFails, SitesDone
    <2> QED
      BY <1>b, <2>1, <2>2
  <1>10. ASSUME NEW t \in Thread, InstallCert(t) \/ InstallFails(t) PROVE LinkInv'
    <2>1. Kept
      BY <1>0, <1>10, <1>d, MovedWritten, MovedIdle DEF InstallCert, InstallFails
    <2>2. files \subseteq files' /\ UNCHANGED <<link, tmp, scratched>>
      BY <1>10 DEF InstallCert, InstallFails
    <2> QED
      BY <1>b, <2>1, <2>2
  <1>11. ASSUME NEW t \in Thread, PostInstall(t) PROVE LinkInv'
    <2>1. CASE Rescan(t)
      <3>0. UNCHANGED <<files, link, tmp, scratched>>
        BY <2>1 DEF Rescan
      <3>1. CASE link \in Best(Primary)
        BY <1>b, <1>e, <2>1, <3>0, <3>1 DEF Rescan
      <3>2. CASE link \notin Best(Primary)
        <4>1. PICK m \in Best(Primary) : Goto(t, [thread[t] EXCEPT !.pc = "remove", !.target = m])
          BY <2>1, <3>2 DEF Rescan
        <4>2. Resolved(m)
          BY BestResolves
        <4>3. \A u \in Thread : Resolved(thread'[u].target)
          <5>1. Others(t) /\ thread'[t].target = m
            BY <1>0, <4>1, MovedChosen
          <5> QED
            BY <1>a, <4>2, <5>1 DEF Others
        <4> QED
          BY <1>a, <3>0, <4>3 DEF LinkInv, Resolved
      <3> QED
        BY <3>1, <3>2
    <2>2. CASE RelinkFails(t)
      BY <1>b, <1>e, <2>2 DEF RelinkFails
    <2>3. CASE RemoveTmp(t)
      <3>1. Kept
        BY <1>0, <1>d, <2>3, Moved DEF RemoveTmp
      <3>2. tmp'.target = TmpName /\ UNCHANGED <<files, link, scratched>>
        BY <2>3 DEF RemoveTmp, NoTmp
      <3> QED
        BY <1>a, <3>1, <3>2, TmpNameResolves DEF LinkInv, Resolved, Kept
    <2>4. CASE SymlinkTmp(t)
      <3>1. Kept
        BY <1>0, <1>d, <1>e, <2>4, Moved DEF SymlinkTmp
      <3>2. tmp'.target \in {tmp.target, thread[t].target} /\ UNCHANGED <<files, link, scratched>>
        BY <2>4 DEF SymlinkTmp
      <3> QED
        BY <1>a, <3>1, <3>2, TmpNameResolves DEF LinkInv, Resolved, Kept
    <2>5. CASE RenameTmp(t)
      <3>1. CASE tmp = NoTmp
        <4>1. Kept
          BY <1>e, <2>5, <3>1 DEF RenameTmp
        <4> QED
          BY <1>b, <2>5, <3>1, <4>1 DEF RenameTmp
      <3>2. CASE tmp # NoTmp
        <4>1. Kept
          BY <1>0, <1>d, <2>5, <3>2, Moved DEF RenameTmp
        <4>2. /\ link' = tmp.target /\ tmp'.target = TmpName /\ files' = files
              /\ scratched' = (tmp.target.at # "final")
          BY <2>5, <3>2 DEF RenameTmp, NoTmp
        <4>3. scratched' \/ link'.at = "final"
          BY <4>2
        <4>4. /\ Resolved(link') /\ Resolved(tmp'.target)
              /\ \A u \in Thread : Resolved(thread'[u].target)
          BY <1>a, <4>1, <4>2, TmpNameResolves DEF Kept
        <4> QED
          BY <4>2, <4>3, <4>4 DEF LinkInv, Resolved
      <3> QED
        BY <3>1, <3>2
    <2>6. CASE Restart(t)
      BY <1>b, <1>e, <2>6 DEF Restart
    <2>7. CASE RestartFails(t)
      BY <1>b, <1>e, <2>7 DEF RestartFails
    <2> QED
      BY <1>11, <2>1, <2>2, <2>3, <2>4, <2>5, <2>6, <2>7 DEF PostInstall
  <1> QED
    BY <1>0, <1>1, <1>2, <1>3, <1>4, <1>5, <1>6, <1>7, <1>8, <1>9, <1>10, <1>11 DEF Next

(* Initially. *)
LEMMA StartsResolved == Init => TypeInv /\ TempsInv /\ LinkInv
  <1> SUFFICES ASSUME Init PROVE TypeInv /\ TempsInv /\ LinkInv
    OBVIOUS
  <1>1. Final(SelfSigned) \in Name /\ SelfSigned \in Cert
    BY Constants
  <1>2. TypeInv
    <2>1. thread \in [Thread -> State]
      BY Constants DEF Init
    <2>2. link \in Name /\ tmp \in [target : Name, there : BOOLEAN]
      BY <1>1, Constants DEF Init
    <2>3. files \subseteq Cert /\ temps \subseteq Name /\ serving \in Cert
      BY <1>1 DEF Init
    <2>4. /\ day \in Int /\ due \in BOOLEAN /\ lease \in {"free", "ours", "dead"}
          /\ requests \in Nat /\ failures \in Nat /\ crashes \in Nat
      BY DEF Init
    <2>5. aged \subseteq Thread \cup {"tmp"}
      BY DEF Init
    <2>6. /\ unlinked \in BOOLEAN /\ unrestarted \in BOOLEAN
          /\ scratched \in BOOLEAN /\ stale \in BOOLEAN
      BY DEF Init
    <2> QED
      BY <2>1, <2>2, <2>3, <2>4, <2>5, <2>6 DEF TypeInv
  <1>3. TempsInv
    BY DEF Init, TempsInv, Idle
  <1>4. Resolved(Final(SelfSigned))
    BY DEF Init, Resolved, Final, SelfSigned
  <1>5. LinkInv
    BY <1>4, TmpNameResolves DEF Init, LinkInv, NoTmp, Idle, Final
  <1> QED
    BY <1>2, <1>3, <1>5

(* The services and the certificate they were started with. *)
LEMMA ServingStep ==
    ASSUME TypeInv, TempsInv, LinkInv, ServingInv, [Next]_vars
    PROVE  ServingInv'
  <1> USE DEF dir, budget, history
  <1>0. thread \in [Thread -> State] /\ {"loop", "run", "install"} = Thread
    BY DEF TypeInv, Thread
  <1>a. unrestarted \/ scratched \/ serving = link.cert
          \/ \E t \in Thread : thread[t].pc = "restart"
    BY DEF ServingInv
  <1>b. ASSUME \A u \in Thread : thread[u].pc = "restart" => thread'[u].pc = "restart",
               UNCHANGED <<unrestarted, scratched, serving, link>>
        PROVE  ServingInv'
    BY <1>a, <1>b DEF ServingInv
  <1>c. ASSUME NEW t \in Thread, Others(t), thread[t].pc # "restart",
               UNCHANGED <<unrestarted, scratched, serving, link>>
        PROVE  ServingInv'
    BY <1>b, <1>c DEF Others
  <1>d. ASSUME NEW t \in Thread, Finish(t), thread[t].pc # "restart",
               UNCHANGED <<unrestarted, scratched, serving, link>>
        PROVE  ServingInv'
    BY <1>0, <1>c, <1>d, MovedIdle DEF Finish
  <1>1. CASE UNCHANGED vars
    BY <1>1, <1>b DEF vars
  <1>2. CASE DayPasses
    BY <1>2, <1>b DEF DayPasses
  <1>3. CASE LeaseLapses
    BY <1>3, <1>b DEF LeaseLapses
  <1>4. CASE Kick
    BY <1>4, <1>b DEF Kick
  <1>5. CASE RenewalPass
    <2>1. UNCHANGED <<unrestarted, scratched, serving, link>> /\ thread["loop"].pc # "restart"
      BY <1>5 DEF RenewalPass
    <2> QED
      BY <1>0, <1>5, <1>b, <1>c, <2>1, MovedStarting DEF RenewalPass
  <1>6. CASE StartRun
    BY <1>0, <1>6, <1>c, MovedStarting DEF StartRun
  <1>7. CASE InstallManual
    <2>1. Others("install")
      BY <1>0, <1>7, MovedInstalling
    <2> QED
      BY <1>0, <1>7, <1>c, <2>1 DEF InstallManual
  <1>8. CASE Crash
    <2>1. /\ unrestarted' = (unrestarted \/ \E t \in Thread : thread[t].pc = "restart")
          /\ scratched' = scratched /\ serving' = serving /\ link' = Orphan(link)
      BY <1>8 DEF Crash
    <2>2. Orphan(link).cert = link.cert
      BY DEF Orphan, TypeInv, Name
    <2>3. CASE \E t \in Thread : thread[t].pc = "restart"
      BY <2>1, <2>3 DEF ServingInv
    <2>4. CASE ~\E t \in Thread : thread[t].pc = "restart"
      BY <1>a, <2>1, <2>2, <2>4 DEF ServingInv
    <2> QED
      BY <2>3, <2>4
  <1>9. ASSUME NEW t \in Thread, Run(t) PROVE ServingInv'
    <2>1. UNCHANGED <<unrestarted, scratched, serving, link>> /\ thread[t].pc # "restart"
      BY <1>9 DEF Run, Provision, ScanFails, Order, OrderFails, SitesDone
    <2>2. CASE Provision(t)
      BY <1>0, <1>c, <2>1, <2>2, MovedProvision
    <2>3. CASE ScanFails(t)
      BY <1>d, <2>1, <2>3 DEF ScanFails
    <2>4. CASE Order(t)
      <3>1. Others(t)
        BY <1>0, <2>4, MovedOrder
      <3> QED
        BY <1>c, <2>1, <3>1
    <2>5. CASE OrderFails(t)
      BY <1>0, <1>c, <2>1, <2>5, MovedOrderFails
    <2>6. CASE SitesDone(t)
      BY <1>0, <1>c, <1>d, <2>1, <2>6, Moved DEF SitesDone
    <2> QED
      BY <1>9, <2>2, <2>3, <2>4, <2>5, <2>6 DEF Run
  <1>10. ASSUME NEW t \in Thread, InstallCert(t) \/ InstallFails(t) PROVE ServingInv'
    <2>1. Others(t)
      BY <1>0, <1>10, MovedWritten, MovedIdle DEF InstallCert, InstallFails
    <2>2. UNCHANGED <<unrestarted, scratched, serving, link>> /\ thread[t].pc # "restart"
      BY <1>10 DEF InstallCert, InstallFails
    <2> QED
      BY <1>c, <2>1, <2>2
  <1>11. ASSUME NEW t \in Thread, PostInstall(t) PROVE ServingInv'
    <2>1. CASE Rescan(t)
      <3>0. UNCHANGED <<unrestarted, scratched, serving, link>> /\ thread[t].pc # "restart"
        BY <2>1 DEF Rescan
      <3>1. CASE link \in Best(Primary)
        BY <1>d, <2>1, <3>0, <3>1 DEF Rescan
      <3>2. CASE link \notin Best(Primary)
        <4>1. PICK m : Goto(t, [thread[t] EXCEPT !.pc = "remove", !.target = m])
          BY <2>1, <3>2 DEF Rescan
        <4>2. Others(t)
          BY <1>0, <4>1, MovedChosen
        <4> QED
          BY <1>c, <3>0, <4>2
      <3> QED
        BY <3>1, <3>2
    <2>2. CASE RelinkFails(t)
      BY <1>d, <2>2 DEF RelinkFails, Relinking
    <2>3. CASE RemoveTmp(t)
      BY <1>0, <1>c, <2>3, Moved DEF RemoveTmp
    <2>4. CASE SymlinkTmp(t)
      <3>1. UNCHANGED <<unrestarted, scratched, serving, link>> /\ thread[t].pc # "restart"
        BY <2>4 DEF SymlinkTmp
      <3>2. Finish(t) \/ Goto(t, [thread[t] EXCEPT !.pc = "rename"])
        BY <2>4 DEF SymlinkTmp
      <3> QED
        BY <1>0, <1>c, <1>d, <3>1, <3>2, Moved
    <2>5. CASE RenameTmp(t)
      <3>1. CASE tmp = NoTmp
        BY <1>d, <2>5, <3>1 DEF RenameTmp
      <3>2. CASE tmp # NoTmp
        <4>1. Goto(t, [thread[t] EXCEPT !.pc = "restart"])
          BY <2>5, <3>2 DEF RenameTmp
        <4>2. thread'[t].pc = "restart"
          BY <1>0, <4>1, Moved
        <4> QED
          BY <4>2 DEF ServingInv
      <3> QED
        BY <3>1, <3>2
    <2>6. CASE Restart(t)
      <3>1. /\ serving' = (IF Follow(link) = {} THEN NoCert ELSE CertAt(link))
            /\ scratched' = scratched /\ link' = link
        BY <2>6 DEF Restart
      <3>2. CASE scratched
        BY <3>1, <3>2 DEF ServingInv
      <3>3. CASE ~scratched
        <4>1. Exists(link)
          BY <3>3 DEF LinkInv, Resolved, Exists
        <4>2. Follow(link) = {link.cert} /\ CertAt(link) = link.cert
          BY <4>1, NameLeads
        <4>3. serving' = link'.cert
          BY <3>1, <4>2
        <4> QED
          BY <4>3 DEF ServingInv
      <3> QED
        BY <3>2, <3>3
    <2>7. CASE RestartFails(t)
      BY <2>7 DEF RestartFails, ServingInv
    <2> QED
      BY <1>11, <2>1, <2>2, <2>3, <2>4, <2>5, <2>6, <2>7 DEF PostInstall
  <1> QED
    BY <1>0, <1>1, <1>2, <1>3, <1>4, <1>5, <1>6, <1>7, <1>8, <1>9, <1>10, <1>11 DEF Next

(* The path of the mail services always leads to a certificate of the      *)
(* primary hostname, also between the calls of replaceSymlink, unless a    *)
(* scratch name or ssl_certificate.pem.tmp was chosen for it.              *)
THEOREM PathResolves == Spec => []LinkResolves
  <1> DEFINE Inv == TypeInv /\ TempsInv /\ LinkInv
  <1>1. Init => Inv
    BY StartsResolved
  <1>2. Inv /\ [Next]_vars => Inv'
    BY TypeStep, TempsStep, LinkStep
  <1>3. Inv => LinkResolves
    <2> SUFFICES ASSUME LinkInv, ~scratched PROVE \E c \in Follow(link) : c.site = Primary
      BY DEF LinkResolves
    <2>1. Exists(link) /\ link.cert.site = Primary
      BY DEF LinkInv, Resolved, Exists
    <2> QED
      BY <2>1, NameLeads
  <1> QED
    BY <1>1, <1>2, <1>3, PTL DEF Spec

-----------------------------------------------------------------------------
(* The best certificate.  Calm is what the steps outside postInstall and   *)
(* writeCertFile have in common: the certificates, the symlinks and the    *)
(* threads between a scan and the rename stay, and what is pending stays   *)
(* pending.                                                                *)
Calm ==
    /\ day' = day /\ Stable' = Stable
    /\ UNCHANGED <<link, tmp, unlinked, scratched, aged, stale>>
    /\ \A u \in Thread : /\ thread[u].pc \in Relinking => thread'[u] = thread[u]
                         /\ thread'[u].pc \in Relinking => thread'[u] = thread[u]
                         /\ Pending(u) => Pending(u)'

LEMMA SettledKept ==
    ASSUME Settled, day' = day, Stable' = Stable, UNCHANGED <<link, tmp>>,
           unlinked => unlinked', stale => stale', scratched => scratched',
           Renaming => Renaming' \/ ~tmp.there
    PROVE  Settled'
  <1>1. CASE unlinked \/ stale \/ scratched
    BY <1>1 DEF Settled
  <1>2. CASE Good
    BY <1>2 DEF Settled, Good
  <1>3. CASE NoneValid(day, Stable)
    BY <1>3 DEF Settled
  <1> QED
    BY <1>1, <1>2, <1>3 DEF Settled

LEMMA CalmKeeps ==
    ASSUME Calm, ChosenInv, BestInv
    PROVE  ChosenInv' /\ BestInv'
  <1>1. Renaming <=> Renaming'
    BY DEF Calm, Renaming, Relinking
  <1>2. Settled => Settled'
    BY <1>1, SettledKept DEF Calm
  <1>3. ChosenInv'
    <2>1. ASSUME NEW t \in Thread, thread'[t].pc \in Relinking, t \notin aged',
                 thread'[t].target.at = "final"
          PROVE  BestAmong(day', Stable', thread'[t].target)
      BY <2>1 DEF Calm, ChosenInv
    <2>2. ASSUME Renaming', tmp'.there, "tmp" \notin aged', tmp'.target.at = "final"
          PROVE  BestAmong(day', Stable', tmp'.target)
      BY <1>1, <2>2 DEF Calm, ChosenInv
    <2> QED
      BY <2>1, <2>2 DEF ChosenInv, Relinking
  <1>4. \A u \in Thread : /\ Pending(u) => Pending(u)'
                          /\ thread[u].pc \in Relinking => thread'[u].pc = thread[u].pc
                          /\ thread'[u].pc \in Relinking => thread'[u].pc = thread[u].pc
    BY DEF Calm
  <1>5. tmp' = tmp
    BY DEF Calm
  <1>6. BestInv'
    <2>1. Settled' \/ \E u \in Thread : Pending(u)' \/ thread'[u].pc \in Relinking
      BY <1>2, <1>4 DEF BestInv
    <2>2. ASSUME NEW t \in Thread, thread'[t].pc = "symlink", tmp'.there
          PROVE  Settled' \/ \E u \in Thread \ {t} : Pending(u)'
                 \/ thread'[u].pc \in {"remove", "rename"}
      <3>1. thread[t].pc = "symlink" /\ tmp.there
        BY <1>4, <1>5, <2>2 DEF Relinking
      <3>2. Settled \/ \E u \in Thread \ {t} : Pending(u) \/ thread[u].pc \in {"remove", "rename"}
        BY <3>1 DEF BestInv
      <3> QED
        BY <1>2, <1>4, <3>2 DEF Relinking
    <2>3. ASSUME NEW t \in Thread, thread'[t].pc = "rename", ~tmp'.there
          PROVE  Settled' \/ \E u \in Thread \ {t} : Pending(u)'
                 \/ thread'[u].pc \in {"remove", "symlink"}
      <3>1. thread[t].pc = "rename" /\ ~tmp.there
        BY <1>4, <1>5, <2>3 DEF Relinking
      <3>2. Settled \/ \E u \in Thread \ {t} : Pending(u) \/ thread[u].pc \in {"remove", "symlink"}
        BY <3>1 DEF BestInv
      <3> QED
        BY <1>2, <1>4, <3>2 DEF Relinking
    <2> QED
      BY <2>1, <2>2, <2>3 DEF BestInv, Relinking
  <1> QED
    BY <1>3, <1>6

(* A scratch file in use is not among the stable names. *)
LEMMA StableSame ==
    ASSUME files' = files, NEW n, n.of # "none",
           temps' = temps \/ temps' = temps \cup {n} \/ temps' = temps \ {n}
    PROVE  Stable' = Stable
  BY DEF Stable

LEMMA CalmMoved ==
    ASSUME day' = day, Stable' = Stable,
           UNCHANGED <<link, tmp, unlinked, scratched, aged, stale>>,
           NEW t \in Thread, Others(t), thread[t].pc \notin Relinking,
             thread'[t].pc \notin Relinking,
           Pending(t) => Pending(t)'
    PROVE  Calm
  BY DEF Calm, Others, Pending

LEMMA CalmSteps ==
    ASSUME TypeInv, TempsInv,
           \/ UNCHANGED vars \/ LeaseLapses \/ Kick \/ RenewalPass \/ StartRun \/ InstallManual
           \/ \E t \in Thread : \/ t # "install" /\ Run(t)
                                \/ InstallFails(t) \/ Restart(t) \/ RestartFails(t)
    PROVE  Calm
  <1> USE DEF dir, budget, history
  <1>0. thread \in [Thread -> State] /\ {"loop", "run", "install"} = Thread
    BY DEF TypeInv, Thread
  <1> DEFINE Rest == /\ day' = day /\ Stable' = Stable
                     /\ UNCHANGED <<link, tmp, unlinked, scratched, aged, stale>>
  <1>a. ASSUME UNCHANGED <<files, temps>> PROVE Stable' = Stable
    BY <1>a DEF Stable
  <1>b. ASSUME Rest, UNCHANGED thread PROVE Calm
    BY <1>b DEF Calm, Pending
  <1>c. ASSUME Rest, NEW t \in Thread, Finish(t), thread[t].pc \notin Relinking, ~Pending(t)
        PROVE  Calm
    <2>1. Others(t) /\ thread'[t].pc = "idle"
      BY <1>0, <1>c, MovedIdle DEF Finish
    <2> QED
      BY <1>c, <2>1, CalmMoved DEF Relinking
  <1>1. CASE UNCHANGED vars
    BY <1>1, <1>a, <1>b DEF vars
  <1>3. CASE LeaseLapses
    BY <1>3, <1>a, <1>b DEF LeaseLapses
  <1>4. CASE Kick
    BY <1>4, <1>a, <1>b DEF Kick
  <1>5. CASE RenewalPass
    <2>1. Rest /\ thread["loop"].pc = "idle"
      BY <1>5, <1>a DEF RenewalPass
    <2>2. CASE lease = "dead"
      BY <1>5, <1>b, <2>1, <2>2 DEF RenewalPass
    <2>3. CASE lease # "dead"
      <3>1. Others("loop") /\ thread'["loop"].pc = "lock"
        BY <1>0, <1>5, <2>3, MovedStarting
      <3> QED
        BY <1>0, <2>1, <3>1, CalmMoved DEF Relinking, Pending
    <2> QED
      BY <2>2, <2>3
  <1>6. CASE StartRun
    <2>1. Rest /\ thread["run"].pc = "idle"
      BY <1>6, <1>a DEF StartRun
    <2>2. Others("run") /\ thread'["run"].pc = "lock"
      BY <1>0, <1>6, MovedStarting
    <2> QED
      BY <1>0, <2>1, <2>2, CalmMoved DEF Relinking, Pending
  <1>7. CASE InstallManual
    <2>1. PICK c : /\ temps' = temps \cup {Scratch(c, "install")}
                   /\ Others("install") /\ thread'["install"].pc = "write"
      BY <1>0, <1>7, MovedInstalling
    <2>2. Scratch(c, "install").of # "none" /\ files' = files
      BY <1>7 DEF Scratch, InstallManual
    <2>3. Stable' = Stable
      BY <2>1, <2>2, StableSame
    <2>4. Rest /\ thread["install"].pc = "idle"
      BY <1>7, <2>3 DEF InstallManual
    <2> QED
      BY <1>0, <2>1, <2>4, CalmMoved DEF Relinking, Pending
  <1>8. ASSUME NEW t \in Thread, t # "install", Run(t) PROVE Calm
    <2>1. CASE Provision(t)
      <3>1. Rest /\ thread[t].pc = "lock"
        BY <2>1, <1>a DEF Provision
      <3>2. Others(t) /\ thread'[t].pc = "order"
        BY <1>0, <2>1, MovedProvision
      <3> QED
        BY <3>1, <3>2, CalmMoved DEF Relinking, Pending
    <2>2. CASE ScanFails(t)
      <3>1. Rest /\ thread[t].pc = "lock" /\ Finish(t)
        BY <2>2, <1>a DEF ScanFails
      <3> QED
        BY <1>c, <3>1 DEF Relinking, Pending
    <2>3. CASE Order(t)
      <3>1. PICK c : /\ temps' = temps \cup {Scratch(c, t)}
                     /\ Others(t) /\ thread'[t].pc = "write" /\ thread'[t].got = thread[t].got
        BY <1>0, <2>3, MovedOrder
      <3>2. Scratch(c, t).of # "none" /\ files' = files
        BY <2>3 DEF Scratch, Order, Thread
      <3>3. Stable' = Stable
        BY <3>1, <3>2, StableSame
      <3>4. Rest /\ thread[t].pc = "order"
        BY <2>3, <3>3 DEF Order
      <3> QED
        BY <3>1, <3>4, CalmMoved DEF Relinking, Pending
    <2>4. CASE OrderFails(t)
      <3>1. Rest /\ thread[t].pc = "order"
        BY <2>4, <1>a DEF OrderFails
      <3>2. Others(t) /\ thread'[t].pc = "order" /\ thread'[t].got = thread[t].got
        BY <1>0, <2>4, MovedOrderFails
      <3> QED
        BY <3>1, <3>2, CalmMoved DEF Relinking, Pending
    <2>5. CASE SitesDone(t)
      <3>1. Rest /\ thread[t].pc = "order"
        BY <2>5, <1>a DEF SitesDone
      <3>2. CASE thread[t].got
        <4>1. Others(t) /\ thread'[t].pc = "rescan"
          BY <1>0, <2>5, <3>2, Moved DEF SitesDone
        <4> QED
          BY <3>1, <4>1, CalmMoved DEF Relinking, Pending
      <3>3. CASE ~thread[t].got
        BY <1>c, <2>5, <3>1, <3>3 DEF SitesDone, Relinking, Pending
      <3> QED
        BY <3>2, <3>3
    <2> QED
      BY <1>8, <2>1, <2>2, <2>3, <2>4, <2>5 DEF Run
  <1>9. ASSUME NEW t \in Thread, InstallFails(t) PROVE Calm
    <2>1. /\ temps' = temps \ {Scratch(thread[t].cert, t)} /\ files' = files
             /\ thread[t].pc = "write"
          /\ Goto(t, IF t = "install" THEN Idle ELSE AfterWrite(t, thread[t].got))
      BY <1>9 DEF InstallFails
    <2>2. Scratch(thread[t].cert, t).of # "none"
      BY DEF Scratch, Thread
    <2>3. Stable' = Stable
      BY <2>1, <2>2, StableSame
    <2>4. Rest
      BY <1>9, <2>3 DEF InstallFails
    <2>5. CASE t = "install"
      <3>1. Others(t) /\ thread'[t].pc = "idle"
        BY <1>0, <2>1, <2>5, MovedIdle
      <3>2. ~Pending(t)
        BY <2>1, <2>5 DEF TempsInv, Pending
      <3> QED
        BY <2>1, <2>4, <3>1, <3>2, CalmMoved DEF Relinking
    <2>6. CASE t # "install"
      <3>1. Others(t) /\ thread'[t].pc = "order" /\ thread'[t].got = thread[t].got
        BY <1>0, <2>1, <2>6, MovedWritten
      <3> QED
        BY <2>1, <2>4, <3>1, CalmMoved DEF Relinking, Pending
    <2> QED
      BY <2>5, <2>6
  <1>10. ASSUME NEW t \in Thread, Restart(t) \/ RestartFails(t) PROVE Calm
    <2>1. Rest /\ thread[t].pc = "restart" /\ Finish(t)
      BY <1>10, <1>a DEF Restart, RestartFails
    <2> QED
      BY <1>c, <2>1 DEF Relinking, Pending
  <1> QED
    BY <1>1, <1>3, <1>4, <1>5, <1>6, <1>7, <1>8, <1>9, <1>10

(* The ranking of sslcert.better, read off the certificates. *)
LEMMA RanksByCert ==
    ASSUME NEW m, NEW n
    PROVE  better(m, n) <=> Outranks(day, m, CertAt(m), n, CertAt(n))
  BY DEF better, Outranks, Valid

LEMMA StableFound ==
    ASSUME TempsInv, NEW n \in Stable
    PROVE  Exists(n) /\ n # TmpName /\ n \in Scan(n.cert.site) /\ CertAt(n) = n.cert
  <1>1. CASE \E c \in files : n = Final(c)
    <2>1. Exists(n) /\ n # TmpName
      BY <1>1 DEF Exists, Final, TmpName
    <2>2. n \in Scan(n.cert.site)
      BY <1>1, ScanFinds DEF Final
    <2> QED
      BY <2>1, <2>2, NameLeads
  <1>2. CASE n \in temps
    <2>1. Exists(n) /\ n # TmpName
      BY <1>2 DEF Exists, TempsInv, TmpName
    <2>2. n \in Scan(n.cert.site)
      BY <1>2, ScanFinds
    <2> QED
      BY <2>1, <2>2, NameLeads
  <1> QED
    BY <1>1, <1>2 DEF Stable

LEMMA BestRanksFirst ==
    ASSUME TempsInv, NEW m \in Best(Primary), m # TmpName
    PROVE  /\ BestAmong(day, Stable, m)
           /\ tmp.target \in Stable /\ tmp.target.cert.site = Primary =>
                 Outranks(day, m, m.cert, TmpName, tmp.target.cert)
  <1>1. m \in Scan(Primary) /\ \A n \in Scan(Primary) \ {m} : better(m, n)
    BY DEF Best
  <1>2. CertAt(m) = m.cert
    BY <1>1, ScanLeads
  <1>3. ASSUME NEW n \in Stable, n.cert.site = Primary, n # m
        PROVE  Outranks(day, m, m.cert, n, n.cert)
    BY <1>1, <1>2, <1>3, StableFound, RanksByCert
  <1>4. ASSUME tmp.target \in Stable, tmp.target.cert.site = Primary
        PROVE  Outranks(day, m, m.cert, TmpName, tmp.target.cert)
    <2>1. Exists(tmp.target)
      BY <1>4, StableFound
    <2>2. CertAt(TmpName) = tmp.target.cert /\ TmpName \in Scan(Primary)
      BY <1>4, <2>1, TmpLeads, ScanFinds
    <2>3. better(m, TmpName)
      BY <1>1, <2>2
    <2> QED
      BY <1>2, <2>2, <2>3, RanksByCert
  <1> QED
    BY <1>3, <1>4 DEF BestAmong

(* What a step of one thread in Relinking leaves of ChosenInv: the others. *)
LEMMA ChosenOthers ==
    ASSUME ChosenInv, day' = day, Stable' = Stable, NEW t \in Thread, Others(t),
           aged \ {t, "tmp"} \subseteq aged',
           thread'[t].pc \in Relinking /\ t \notin aged' /\ thread'[t].target.at = "final" =>
              BestAmong(day, Stable, thread'[t].target)
    PROVE  \A u \in Thread : thread'[u].pc \in Relinking /\ u \notin aged'
           /\ thread'[u].target.at = "final" =>
              BestAmong(day', Stable', thread'[u].target)
  <1> SUFFICES ASSUME NEW u \in Thread, thread'[u].pc \in Relinking, u \notin aged',
                      thread'[u].target.at = "final"
               PROVE  BestAmong(day, Stable, thread'[u].target)
    OBVIOUS
  <1>1. CASE u = t
    BY <1>1
  <1>2. CASE u # t
    <2>1. thread'[u] = thread[u] /\ u \notin aged
      BY <1>2 DEF Others, Thread
    <2> QED
      BY <2>1 DEF ChosenInv
  <1> QED
    BY <1>1, <1>2

LEMMA ChosenStep ==
    ASSUME TypeInv, TempsInv, LinkInv, ChosenInv, BestInv, [Next]_vars
    PROVE  ChosenInv'
  <1> USE DEF dir, budget, history
  <1>0. thread \in [Thread -> State] /\ {"loop", "run", "install"} = Thread
    BY DEF TypeInv, Thread
  <1>a. ASSUME UNCHANGED <<files, temps>> PROVE Stable' = Stable
    BY <1>a DEF Stable
  <1>b. \A u \in Thread : u # "tmp"
    BY DEF Thread
  <1>c. ASSUME \A u \in Thread : thread'[u].pc \notin Relinking PROVE ChosenInv'
    BY <1>c DEF ChosenInv, Renaming, Relinking
  <1>d. ASSUME \A u \in Thread : thread'[u].pc \in Relinking /\ u \notin aged'
               /\ thread'[u].target.at = "final"
                                   => BestAmong(day', Stable', thread'[u].target),
               Renaming' /\ tmp'.there /\ "tmp" \notin aged' /\ tmp'.target.at = "final"
                  => BestAmong(day', Stable', tmp'.target)
        PROVE  ChosenInv'
    BY <1>d DEF ChosenInv, Relinking
  <1>e. ASSUME day' = day, Stable' = Stable, NEW t \in Thread, Others(t),
               thread'[t].pc # "rename",
               tmp' = tmp, "tmp" \in aged <=> "tmp" \in aged'
        PROVE  Renaming' /\ tmp'.there /\ "tmp" \notin aged' /\ tmp'.target.at = "final"
                  => BestAmong(day', Stable', tmp'.target)
    <2>1. Renaming' => Renaming
      BY <1>e DEF Renaming, Others
    <2> QED
      BY <1>e, <2>1 DEF ChosenInv
  <1>1. ASSUME \/ UNCHANGED vars \/ LeaseLapses \/ Kick \/ RenewalPass \/ StartRun
               \/ InstallManual
               \/ \E t \in Thread : \/ t # "install" /\ Run(t)
                                    \/ InstallFails(t) \/ Restart(t) \/ RestartFails(t)
        PROVE  ChosenInv'
    <2>1. Calm
      BY <1>1, CalmSteps
    <2> QED
      BY <2>1, CalmKeeps
  <1>2. CASE DayPasses
    BY <1>2, <1>c DEF DayPasses, Relinking
  <1>3. CASE Crash
    BY <1>3, <1>c DEF Crash, Idle, Relinking
  <1>4. ASSUME NEW t \in Thread, InstallCert(t) PROVE ChosenInv'
    <2>1. Others(t) /\ thread'[t].pc \notin Relinking
      BY <1>0, <1>4, MovedWritten DEF InstallCert, Relinking
    <2>2. aged' = aged \cup Chosen \cup (IF tmp.there THEN {"tmp"} ELSE {}) /\ tmp' = tmp
      BY <1>4 DEF InstallCert
    <2>3. \A u \in Thread : thread'[u].pc \in Relinking => u \in aged'
      BY <2>1, <2>2 DEF Others, Chosen
    <2> QED
      BY <1>d, <2>2, <2>3
  <1>5. ASSUME NEW t \in Thread, Rescan(t) PROVE ChosenInv'
    <2>1. day' = day /\ Stable' = Stable /\ tmp' = tmp /\ aged' = aged \ {t} /\ t # "tmp"
      BY <1>5, <1>a, <1>b DEF Rescan
    <2>2. CASE link \in Best(Primary)
      <3>1. Others(t) /\ thread'[t].pc = "idle"
        BY <1>0, <1>5, <2>2, MovedIdle DEF Rescan, Finish
      <3> QED
        BY <1>d, <1>e, <2>1, <3>1, ChosenOthers DEF Relinking
    <2>3. CASE link \notin Best(Primary)
      <3>1. PICK m \in Best(Primary) : Goto(t, [thread[t] EXCEPT !.pc = "remove", !.target = m])
        BY <1>5, <2>3 DEF Rescan
      <3>2. Others(t) /\ thread'[t].pc = "remove" /\ thread'[t].target = m
        BY <1>0, <3>1, MovedChosen
      <3>3. m.at = "final" => BestAmong(day, Stable, m)
        BY BestRanksFirst DEF TmpName
      <3> QED
        BY <1>d, <1>e, <2>1, <3>2, <3>3, ChosenOthers
    <2> QED
      BY <2>2, <2>3
  <1>6. ASSUME NEW t \in Thread, RelinkFails(t) PROVE ChosenInv'
    <2>1. day' = day /\ Stable' = Stable /\ tmp' = tmp /\ aged' = aged /\ Finish(t)
      BY <1>6, <1>a DEF RelinkFails
    <2>2. Others(t) /\ thread'[t].pc = "idle"
      BY <1>0, <2>1, MovedIdle DEF Finish
    <2> QED
      BY <1>d, <1>e, <2>1, <2>2, ChosenOthers DEF Relinking
  <1>7. ASSUME NEW t \in Thread, RemoveTmp(t) PROVE ChosenInv'
    <2>1. /\ day' = day /\ Stable' = Stable /\ ~tmp'.there /\ aged' = aged \ {"tmp"}
          /\ thread[t].pc = "remove"
      BY <1>7, <1>a DEF RemoveTmp, NoTmp
    <2>2. Others(t) /\ thread'[t].target = thread[t].target
      BY <1>0, <1>7, Moved DEF RemoveTmp
    <2>3. t \notin aged' /\ thread'[t].target.at = "final" =>
            BestAmong(day, Stable, thread'[t].target)
      BY <1>b, <2>1, <2>2 DEF ChosenInv, Relinking
    <2> QED
      BY <1>d, <2>1, <2>2, <2>3, ChosenOthers
  <1>8. ASSUME NEW t \in Thread, SymlinkTmp(t) PROVE ChosenInv'
    <2>1. day' = day /\ Stable' = Stable /\ thread[t].pc = "symlink"
      BY <1>8, <1>a DEF SymlinkTmp
    <2>2. CASE tmp = NoTmp
      <3>1. /\ tmp'.target = thread[t].target
            /\ aged' = IF t \in aged THEN aged \cup {"tmp"} ELSE aged
        BY <1>8, <2>2 DEF SymlinkTmp
      <3>2. Others(t) /\ thread'[t].target = thread[t].target
        BY <1>0, <1>8, <2>2, Moved DEF SymlinkTmp
      <3>3. t \notin aged /\ thread[t].target.at = "final" =>
              BestAmong(day, Stable, thread[t].target)
        BY <2>1 DEF ChosenInv, Relinking
      <3>4. \A u \in aged : u \in aged'
        BY <3>1
      <3> QED
        BY <1>d, <2>1, <3>1, <3>2, <3>3, <3>4, ChosenOthers
    <2>3. CASE tmp # NoTmp
      <3>1. tmp' = tmp /\ aged' = aged /\ Finish(t)
        BY <1>8, <2>3 DEF SymlinkTmp
      <3>2. Others(t) /\ thread'[t].pc = "idle"
        BY <1>0, <3>1, MovedIdle DEF Finish
      <3> QED
        BY <1>d, <1>e, <2>1, <3>1, <3>2, ChosenOthers DEF Relinking
    <2> QED
      BY <2>2, <2>3
  <1>9. ASSUME NEW t \in Thread, RenameTmp(t) PROVE ChosenInv'
    <2>1. day' = day /\ Stable' = Stable
      BY <1>9, <1>a DEF RenameTmp
    <2>2. CASE tmp = NoTmp
      <3>1. tmp' = tmp /\ aged' = aged /\ Finish(t)
        BY <1>9, <2>2 DEF RenameTmp
      <3>2. Others(t) /\ thread'[t].pc = "idle"
        BY <1>0, <3>1, MovedIdle DEF Finish
      <3> QED
        BY <1>d, <1>e, <2>1, <3>1, <3>2, ChosenOthers DEF Relinking
    <2>3. CASE tmp # NoTmp
      <3>1. ~tmp'.there /\ aged' = aged \ {"tmp"}
        BY <1>9, <2>3 DEF RenameTmp, NoTmp
      <3>2. Others(t) /\ thread'[t].pc = "restart"
        BY <1>0, <1>9, <2>3, Moved DEF RenameTmp
      <3> QED
        BY <1>d, <2>1, <3>1, <3>2, ChosenOthers DEF Relinking
    <2> QED
      BY <2>2, <2>3
  <1> QED
    BY <1>0, <1>1, <1>2, <1>3, <1>4, <1>5, <1>6, <1>7, <1>8, <1>9 DEF Next, PostInstall

(* A day later the best certificate is still the best, as long as a real   *)
(* one is valid.                                                           *)
LEMMA BestTomorrow ==
    ASSUME NEW d \in Int, NEW m, NEW a \in Cert, NEW n, NEW b \in Cert, Outranks(d, m, a, n, b),
           a.by # "self", d + 1 <= a.expires
    PROVE  Outranks(d + 1, m, a, n, b)
  <1>1. a.expires \in Int /\ b.expires \in Int
    BY DEF Cert
  <1>2. d <= a.expires
    BY <1>1
  <1>3. CASE d + 1 <= b.expires
    <2>1. d <= b.expires
      BY <1>1, <1>3
    <2> QED
      BY <1>2, <1>3, <2>1 DEF Outranks
  <1>4. CASE ~(d + 1 <= b.expires)
    BY <1>4 DEF Outranks
  <1> QED
    BY <1>3, <1>4

LEMMA BestIsValid ==
    ASSUME NEW d \in Int, NEW m, NEW a \in Cert, NEW n, NEW b \in Cert, Outranks(d, m, a, n, b),
           b.by # "self", d + 1 <= b.expires
    PROVE  a.by # "self" /\ d + 1 <= a.expires
  <1>1. a.expires \in Int /\ b.expires \in Int
    BY DEF Cert
  <1>2. d <= b.expires
    BY <1>1
  <1>3. d <= a.expires
    BY <1>2 DEF Outranks
  <1>4. a.by # "self"
    BY <1>2, <1>3 DEF Outranks
  <1>5. a.expires >= b.expires
    BY <1>1, <1>2, <1>3, <1>4 DEF Outranks
  <1> QED
    BY <1>1, <1>4, <1>5

LEMMA SettledTomorrow ==
    ASSUME TypeInv, Settled, DayPasses
    PROVE  Settled'
  <1> USE DEF dir, budget, history
  <1>1. /\ day' = day + 1 /\ UNCHANGED <<files, temps, tmp, link, unlinked, scratched, stale,
                                         thread>>
        /\ \A t \in Thread : thread[t].pc = "idle"
    BY DEF DayPasses
  <1>2. Stable' = Stable
    BY <1>1 DEF Stable
  <1>3. \A n \in Stable : n.cert \in Cert
    BY DEF Stable, TypeInv, Final, Name
  <1>4. link.cert \in Cert /\ tmp.target.cert \in Cert /\ day \in Int
    BY DEF TypeInv, Name
  <1>5. CASE unlinked \/ stale \/ scratched
    BY <1>1, <1>5 DEF Settled
  <1>6. CASE NoneValid(day + 1, Stable)
    BY <1>1, <1>2, <1>6 DEF Settled
  <1>7. CASE Good /\ ~NoneValid(day + 1, Stable)
    <2>1. PICK r \in Stable : r.cert.site = Primary /\ r.cert.by # "self"
               /\ day + 1 <= r.cert.expires
      BY <1>7 DEF NoneValid
    <2>2. BestAmong(day, Stable, link)
      BY <1>7 DEF Good
    <2>3. link.cert.by # "self" /\ day + 1 <= link.cert.expires
      <3>1. CASE r = link
        BY <2>1, <3>1
      <3>2. CASE r # link
        <4>1. Outranks(day, link, link.cert, r, r.cert)
          BY <2>1, <2>2, <3>2 DEF BestAmong
        <4> QED
          BY <1>3, <1>4, <2>1, <4>1, BestIsValid
      <3> QED
        BY <3>1, <3>2
    <2>4. BestAmong(day + 1, Stable, link)
      BY <1>3, <1>4, <2>2, <2>3, BestTomorrow DEF BestAmong
    <2>5. ASSUME tmp.there, tmp.target \in Stable, tmp.target.cert.site = Primary
          PROVE  Outranks(day + 1, link, link.cert, TmpName, tmp.target.cert)
      <3>1. ~Renaming
        BY <1>1 DEF Renaming
      <3>2. Outranks(day, link, link.cert, TmpName, tmp.target.cert)
        BY <1>7, <2>5, <3>1 DEF Good
      <3> QED
        BY <1>4, <2>3, <3>2, BestTomorrow
    <2>6. Good'
      BY <1>1, <1>2, <2>4, <2>5 DEF Good
    <2> QED
      BY <2>6 DEF Settled
  <1>8. CASE NoneValid(day, Stable)
    <2>1. NoneValid(day + 1, Stable)
      BY <1>3, <1>4, <1>8 DEF NoneValid, Cert
    <2> QED
      BY <1>1, <1>2, <2>1 DEF Settled
  <1> QED
    BY <1>5, <1>6, <1>7, <1>8 DEF Settled

LEMMA BestStep ==
    ASSUME TypeInv, TempsInv, LinkInv, ChosenInv, BestInv, [Next]_vars
    PROVE  BestInv'
  <1> USE DEF dir, budget, history
  <1>0. thread \in [Thread -> State] /\ {"loop", "run", "install"} = Thread
    BY DEF TypeInv, Thread
  <1>a. ASSUME UNCHANGED <<files, temps>> PROVE Stable' = Stable
    BY <1>a DEF Stable
  <1>b. ASSUME Settled' PROVE BestInv'
    BY <1>b DEF BestInv
  <1>c. ASSUME NEW t \in Thread, Others(t)
        PROVE  \A u \in Thread \ {t} : Pending(u)' <=> Pending(u)
    BY <1>c DEF Others, Pending
  <1>d. ASSUME Settled' \/ \E u \in Thread : Pending(u)' \/ thread'[u].pc \in Relinking,
               \A v \in Thread : thread'[v].pc = "symlink" /\ tmp'.there =>
                  Settled' \/ \E u \in Thread \ {v} : Pending(u)'
                    \/ thread'[u].pc \in {"remove", "rename"},
               \A v \in Thread : thread'[v].pc = "rename" /\ ~tmp'.there =>
                  Settled' \/ \E u \in Thread \ {v} : Pending(u)'
                    \/ thread'[u].pc \in {"remove", "symlink"}
        PROVE  BestInv'
    BY <1>d DEF BestInv, Relinking
  <1>1. ASSUME \/ UNCHANGED vars \/ LeaseLapses \/ Kick \/ RenewalPass \/ StartRun
               \/ InstallManual
               \/ \E t \in Thread : \/ t # "install" /\ Run(t)
                                    \/ InstallFails(t) \/ Restart(t) \/ RestartFails(t)
        PROVE  BestInv'
    <2>1. Calm
      BY <1>1, CalmSteps
    <2> QED
      BY <2>1, CalmKeeps
  <1>2. CASE DayPasses
    <2>1. \A u \in Thread : ~Pending(u) /\ thread[u].pc \notin Relinking
      BY <1>2 DEF DayPasses, Pending, Relinking
    <2>2. Settled
      BY <2>1 DEF BestInv
    <2> QED
      BY <1>2, <1>b, <2>2, SettledTomorrow
  <1>3. CASE Crash
    <2>1. /\ unlinked' = (unlinked \/ \E t \in Thread :
                             thread[t].got \/ thread[t].pc \in {"write", "rescan"} \cup Relinking)
          /\ scratched' = scratched /\ stale' = stale /\ files' = files /\ day' = day
          /\ temps' = {Orphan(n) : n \in temps} /\ link' = Orphan(link)
          /\ tmp' = [tmp EXCEPT !.target = Orphan(tmp.target)]
      BY <1>3 DEF Crash
    <2>2. CASE unlinked' \/ scratched
      BY <1>b, <2>1, <2>2 DEF Settled
    <2>3. CASE ~unlinked' /\ ~scratched
      <3>1. \A t \in Thread :
                  ~thread[t].got /\ thread[t].pc \notin {"write", "rescan"} \cup Relinking
        BY <2>1, <2>3
      <3>2. \A t \in Thread : ~Pending(t)
        BY <3>1 DEF Pending
      <3>3. Settled
        BY <3>1, <3>2 DEF BestInv
      <3>4. \A n \in temps : n.of = "none"
        BY <3>1 DEF TempsInv, TypeInv, Name
      <3>5. \A n \in Name : Orphan(n) = n
        BY <3>4 DEF Orphan, Name
      <3>6. temps' = temps /\ link' = link /\ tmp' = tmp
        BY <2>1, <3>5 DEF TypeInv
      <3>7. ~Renaming
        BY <3>1 DEF Renaming, Relinking
      <3>8. Settled'
        BY <1>a, <2>1, <2>3, <3>3, <3>6, <3>7, SettledKept
      <3> QED
        BY <1>b, <3>8
    <2> QED
      BY <2>2, <2>3
  <1>4. ASSUME NEW t \in Thread, InstallCert(t) PROVE BestInv'
    <2>1. Others(t) /\ thread'[t].pc \in {"rescan", "order"} /\ thread'[t].got
      BY <1>0, <1>4, MovedInstalled
    <2>2. Pending(t)'
      BY <2>1 DEF Pending
    <2> QED
      BY <1>d, <2>1, <2>2
  <1>5. ASSUME NEW t \in Thread, Rescan(t) PROVE BestInv'
    <2>1. day' = day /\ Stable' = Stable /\ tmp' = tmp /\ link' = link /\ scratched' = scratched
      BY <1>5, <1>a DEF Rescan
    <2>2. CASE link \in Best(Primary)
      <3>1. CASE scratched
        BY <1>b, <2>1, <3>1 DEF Settled
      <3>2. CASE ~scratched
        <4>1. link # TmpName
          BY <3>2 DEF LinkInv, TmpName
        <4>2. Good'
          BY <2>1, <2>2, <4>1, BestRanksFirst DEF Good
        <4> QED
          BY <1>b, <4>2 DEF Settled
      <3> QED
        BY <3>1, <3>2
    <2>3. CASE link \notin Best(Primary)
      <3>1. PICK m : Goto(t, [thread[t] EXCEPT !.pc = "remove", !.target = m])
        BY <1>5, <2>3 DEF Rescan
      <3>2. thread'[t].pc = "remove"
        BY <1>0, <3>1, MovedChosen
      <3> QED
        BY <1>d, <3>2 DEF Relinking
    <2> QED
      BY <2>2, <2>3
  <1>6. ASSUME NEW t \in Thread, RelinkFails(t) PROVE BestInv'
    BY <1>6, <1>b DEF RelinkFails, Settled
  <1>7. ASSUME NEW t \in Thread, RemoveTmp(t) PROVE BestInv'
    <2>1. ~tmp'.there
      BY <1>7 DEF RemoveTmp, NoTmp
    <2>2. thread'[t].pc = "symlink"
      BY <1>0, <1>7, Moved DEF RemoveTmp
    <2> QED
      BY <1>d, <2>1, <2>2 DEF Relinking
  <1>8. ASSUME NEW t \in Thread, SymlinkTmp(t) PROVE BestInv'
    <2>1. CASE tmp = NoTmp
      <3>1. tmp'.there
        BY <1>8, <2>1 DEF SymlinkTmp
      <3>2. thread'[t].pc = "rename"
        BY <1>0, <1>8, <2>1, Moved DEF SymlinkTmp
      <3> QED
        BY <1>d, <3>1, <3>2 DEF Relinking
    <2>2. CASE tmp # NoTmp
      <3>1. /\ UNCHANGED <<day, files, temps, link, tmp, unlinked, scratched, stale>>
            /\ Finish(t) /\ thread[t].pc = "symlink"
        BY <1>8, <2>2 DEF SymlinkTmp
      <3>2. Others(t) /\ thread'[t].pc = "idle"
        BY <1>0, <3>1, MovedIdle DEF Finish
      <3>3. tmp.there
        BY <2>2 DEF TempsInv
      <3>4. Renaming => Renaming'
        BY <3>1, <3>2 DEF Renaming, Others
      <3>5. Settled => Settled'
        BY <1>a, <3>1, <3>4, SettledKept
      <3>6. ~Pending(t)
        BY <3>1 DEF Pending
      <3>7. Settled \/ \E u \in Thread \ {t} : Pending(u) \/ thread[u].pc \in {"remove", "rename"}
        BY <3>1, <3>3 DEF BestInv
      <3>8. \A v \in Thread : thread'[v].pc = "symlink" =>
              \/ Settled
              \/ \E u \in Thread \ {v, t} : Pending(u) \/ thread[u].pc \in {"remove", "rename"}
        <4> SUFFICES ASSUME NEW v \in Thread, thread'[v].pc = "symlink"
                     PROVE  \/ Settled
                            \/ \E u \in Thread \ {v, t} :
                                  Pending(u) \/ thread[u].pc \in {"remove", "rename"}
          OBVIOUS
        <4>1. thread[v].pc = "symlink"
          BY <3>2 DEF Others
        <4>2. Settled \/ \E u \in Thread \ {v} : Pending(u) \/ thread[u].pc \in {"remove", "rename"}
          BY <3>3, <4>1 DEF BestInv
        <4> QED
          BY <3>1, <3>6, <4>2
      <3>9. \A u \in Thread \ {t} : thread'[u] = thread[u] /\ (Pending(u)' <=> Pending(u))
        BY <1>c, <3>2 DEF Others
      <3>10. tmp'.there
        BY <3>1, <3>3
      <3>11. Settled' \/ \E u \in Thread : Pending(u)' \/ thread'[u].pc \in Relinking
        BY <3>5, <3>7, <3>9 DEF Relinking
      <3>12. \A v \in Thread : thread'[v].pc = "symlink" /\ tmp'.there =>
               Settled' \/ \E u \in Thread \ {v} : Pending(u)'
                 \/ thread'[u].pc \in {"remove", "rename"}
        BY <3>5, <3>8, <3>9
      <3> QED
        BY <1>d, <3>10, <3>11, <3>12
    <2> QED
      BY <2>1, <2>2
  <1>9. ASSUME NEW t \in Thread, RenameTmp(t) PROVE BestInv'
    <2>1. CASE tmp = NoTmp
      <3>1. /\ UNCHANGED <<day, files, temps, link, tmp, unlinked, scratched, stale>>
            /\ Finish(t) /\ thread[t].pc = "rename"
        BY <1>9, <2>1 DEF RenameTmp
      <3>2. Others(t) /\ thread'[t].pc = "idle"
        BY <1>0, <3>1, MovedIdle DEF Finish
      <3>3. ~tmp.there
        BY <2>1 DEF NoTmp
      <3>5. Settled => Settled'
        BY <1>a, <3>1, <3>3, SettledKept
      <3>6. ~Pending(t)
        BY <3>1 DEF Pending
      <3>7. Settled \/ \E u \in Thread \ {t} : Pending(u) \/ thread[u].pc \in {"remove", "symlink"}
        BY <3>1, <3>3 DEF BestInv
      <3>8. \A v \in Thread : thread'[v].pc = "rename" =>
              \/ Settled
              \/ \E u \in Thread \ {v, t} : Pending(u) \/ thread[u].pc \in {"remove", "symlink"}
        <4> SUFFICES ASSUME NEW v \in Thread, thread'[v].pc = "rename"
                     PROVE  \/ Settled
                            \/ \E u \in Thread \ {v, t} :
                                  Pending(u) \/ thread[u].pc \in {"remove", "symlink"}
          OBVIOUS
        <4>1. thread[v].pc = "rename"
          BY <3>2 DEF Others
        <4>2. \/ Settled
              \/ \E u \in Thread \ {v} : Pending(u) \/ thread[u].pc \in {"remove", "symlink"}
          BY <3>3, <4>1 DEF BestInv
        <4> QED
          BY <3>1, <3>6, <4>2
      <3>9. \A u \in Thread \ {t} : thread'[u] = thread[u] /\ (Pending(u)' <=> Pending(u))
        BY <1>c, <3>2 DEF Others
      <3>10. ~tmp'.there
        BY <3>1, <3>3
      <3>11. Settled' \/ \E u \in Thread : Pending(u)' \/ thread'[u].pc \in Relinking
        BY <3>5, <3>7, <3>9 DEF Relinking
      <3>12. \A v \in Thread : thread'[v].pc = "rename" /\ ~tmp'.there =>
               Settled' \/ \E u \in Thread \ {v} : Pending(u)'
                 \/ thread'[u].pc \in {"remove", "symlink"}
        BY <3>5, <3>8, <3>9
      <3> QED
        BY <1>d, <3>10, <3>11, <3>12
    <2>2. CASE tmp # NoTmp
      <3>1. /\ day' = day /\ Stable' = Stable /\ link' = tmp.target /\ ~tmp'.there
            /\ scratched' = (tmp.target.at # "final") /\ stale' = ("tmp" \in aged)
            /\ thread[t].pc = "rename"
        BY <1>9, <1>a, <2>2 DEF RenameTmp, NoTmp
      <3>2. CASE tmp.target.at # "final"
        BY <1>b, <3>1, <3>2 DEF Settled
      <3>3. CASE "tmp" \in aged
        BY <1>b, <3>1, <3>3 DEF Settled
      <3>4. CASE tmp.target.at = "final" /\ "tmp" \notin aged
        <4>1. Renaming /\ tmp.there
          BY <2>2, <3>1 DEF Renaming, TempsInv
        <4>2. BestAmong(day, Stable, tmp.target)
          BY <3>4, <4>1 DEF ChosenInv
        <4>3. Good'
          BY <3>1, <4>2 DEF Good
        <4> QED
          BY <1>b, <4>3 DEF Settled
      <3> QED
        BY <3>2, <3>3, <3>4
    <2> QED
      BY <2>1, <2>2
  <1> QED
    BY <1>0, <1>1, <1>2, <1>3, <1>4, <1>5, <1>6, <1>7, <1>8, <1>9 DEF Next, PostInstall

(* At rest only the stable names lead to certificates. *)
LEMMA RestScan ==
    ASSUME TypeInv, TempsInv, LinkInv, \A t \in Thread : thread[t].pc = "idle", NEW s,
           NEW n \in Scan(s)
    PROVE  /\ n # TmpName => n \in Stable /\ n.cert.site = s /\ CertAt(n) = n.cert
           /\ n = TmpName => /\ tmp.target \in Stable /\ tmp.target.cert.site = s
                             /\ CertAt(n) = tmp.target.cert /\ tmp.there
  <1>1. \A m \in temps : m.of = "none"
    BY DEF TempsInv, TypeInv, Name
  <1>2. ASSUME NEW m \in Name, Exists(m), m.at = "final" => m.of = "none" PROVE m \in Stable
    <2>1. CASE m \in temps
      BY <1>1, <2>1 DEF Stable
    <2>2. CASE m.at = "final" /\ m.cert \in files
      <3>1. m = Final(m.cert)
        BY <1>2, <2>2 DEF Name, Final
      <3> QED
        BY <2>2, <3>1 DEF Stable
    <2> QED
      BY <1>2, <2>1, <2>2 DEF Exists
  <1>3. CASE n # TmpName
    <2>1. CertAt(n) = n.cert /\ n.cert.site = s
      BY <1>3, ScanLeads
    <2>2. (\E c \in files : n = Final(c)) \/ n \in temps
      BY <1>3, ScanFinds
    <2> QED
      BY <1>1, <1>3, <2>1, <2>2 DEF Stable
  <1>4. CASE n = TmpName
    <2>1. Exists(tmp.target) /\ CertAt(n) = tmp.target.cert /\ CertAt(n).site = s
      BY <1>4, ScanLeads
    <2>2. tmp.there
      BY <2>1 DEF TempsInv, NoTmp, TmpName, Exists
    <2>3. tmp.target \in Name /\ (tmp.target.at = "final" => tmp.target.of = "none")
      BY DEF TypeInv, LinkInv, Resolved
    <2>4. tmp.target \in Stable
      BY <1>2, <2>1, <2>3
    <2> QED
      BY <1>4, <2>1, <2>2, <2>4
  <1> QED
    BY <1>3, <1>4

LEMMA ServesBest ==
    ASSUME TypeInv, TempsInv, LinkInv, ServingInv, BestInv
    PROVE  MailServesBest
  <1> SUFFICES ASSUME \A t \in Thread : thread[t].pc = "idle"
               PROVE  /\ \/ unlinked \/ stale \/ scratched
                         \/ link \in Best(Primary)
                         \/ ~\E c \in Real(Primary) : Valid(c)
                      /\ unrestarted \/ scratched \/ Follow(link) = {serving}
    BY DEF MailServesBest
  <1>1. ~scratched => /\ Exists(link) /\ link # TmpName /\ link.cert.site = Primary
                      /\ link \in Scan(Primary)
                      /\ CertAt(link) = link.cert /\ Follow(link) = {link.cert}
    <2> SUFFICES ASSUME ~scratched
                 PROVE  /\ Exists(link) /\ link # TmpName /\ link.cert.site = Primary
                        /\ link \in Scan(Primary)
                      /\ CertAt(link) = link.cert /\ Follow(link) = {link.cert}
      OBVIOUS
    <2>1. /\ link.at = "final" /\ link.of = "none" /\ link.cert \in files
             /\ link.cert.site = Primary
          /\ link \in Name
      BY DEF LinkInv, Resolved, TypeInv
    <2>2. link = Final(link.cert)
      BY <2>1 DEF Name, Final
    <2>3. Exists(link) /\ link # TmpName
      BY <2>1 DEF Exists, TmpName
    <2>4. link \in Scan(Primary)
      BY <2>1, <2>2, ScanFinds
    <2> QED
      BY <2>1, <2>3, <2>4, NameLeads
  <1>2. unrestarted \/ scratched \/ Follow(link) = {serving}
    BY <1>1 DEF ServingInv
  <1>3. Settled
    BY DEF BestInv, Pending, Relinking
  <1>4. CASE unlinked \/ stale \/ scratched
    BY <1>2, <1>4
  <1>5. CASE Good /\ ~scratched
    <2>1. ASSUME NEW n \in Scan(Primary) \ {link} PROVE better(link, n)
      <3>1. CASE n # TmpName
        <4>1. n \in Stable /\ n.cert.site = Primary /\ CertAt(n) = n.cert
          BY <3>1, RestScan
        <4>2. Outranks(day, link, link.cert, n, n.cert)
          BY <1>5, <2>1, <4>1 DEF Good, BestAmong
        <4> QED
          BY <1>1, <1>5, <4>1, <4>2, RanksByCert
      <3>2. CASE n = TmpName
        <4>1. /\ tmp.target \in Stable /\ tmp.target.cert.site = Primary
              /\ CertAt(n) = tmp.target.cert /\ tmp.there
          BY <3>2, RestScan
        <4>2. ~Renaming
          BY DEF Renaming
        <4>3. Outranks(day, link, link.cert, TmpName, tmp.target.cert)
          BY <1>5, <4>1, <4>2 DEF Good
        <4> QED
          BY <1>1, <1>5, <3>2, <4>1, <4>3, RanksByCert
      <3> QED
        BY <3>1, <3>2
    <2>2. link \in Best(Primary)
      BY <1>1, <1>5, <2>1 DEF Best
    <2> QED
      BY <1>2, <2>2
  <1>6. CASE NoneValid(day, Stable)
    <2>1. ASSUME NEW c \in Real(Primary) PROVE ~Valid(c)
      <3>1. PICK n \in Scan(Primary) : c = CertAt(n)
        BY DEF Real
      <3>2. c.by # "self"
        BY DEF Real
      <3>3. PICK m \in Stable : m.cert = c /\ m.cert.site = Primary
        BY <3>1, RestScan
      <3> QED
        BY <1>6, <3>2, <3>3 DEF NoneValid, Valid
    <2> QED
      BY <1>2, <2>1
  <1> QED
    BY <1>3, <1>4, <1>5, <1>6 DEF Settled

LEMMA StartsBest == Init => ServingInv /\ ChosenInv /\ BestInv
  <1> SUFFICES ASSUME Init PROVE ServingInv /\ ChosenInv /\ BestInv
    OBVIOUS
  <1>1. ServingInv
    BY DEF Init, ServingInv, Final
  <1>2. ChosenInv
    BY DEF Init, ChosenInv, Relinking, Renaming, Idle
  <1>3. Stable = {Final(SelfSigned)}
    BY DEF Init, Stable
  <1>4. BestAmong(day, Stable, link) /\ ~tmp.there
    BY <1>3 DEF Init, BestAmong, NoTmp
  <1>5. Settled
    BY <1>4 DEF Settled, Good
  <1> QED
    BY <1>1, <1>2, <1>5 DEF BestInv

(* At rest the mail services have loaded the best certificate of the       *)
(* primary hostname and the symlink names its file, for any sites, terms   *)
(* and numbers of requests, failures and restarts, with the exceptions the *)
(* histories name.                                                         *)
THEOREM MailCertificateBest == Spec => []MailServesBest
  <1> DEFINE Inv == TypeInv /\ TempsInv /\ LinkInv /\ ServingInv /\ ChosenInv /\ BestInv
  <1>1. Init => Inv
    BY StartsResolved, StartsBest
  <1>2. Inv /\ [Next]_vars => Inv'
    BY TypeStep, TempsStep, LinkStep, ServingStep, ChosenStep, BestStep
  <1>3. Inv => MailServesBest
    BY ServesBest
  <1> QED
    BY <1>1, <1>2, <1>3, PTL DEF Spec

-----------------------------------------------------------------------------
(* Renewal, for certificates that last longer than the renewal window.     *)
LongLived == RenewBefore < Validity /\ \A term \in Terms : RenewBefore < term

(* Where a certificate that a scan finds comes from.                       *)
LEMMA ScanSources ==
    ASSUME TypeInv, TempsInv, LinkInv, NEW s, NEW n \in Scan(s)
    PROVE  \E m : /\ m.cert = CertAt(n) /\ m.cert.site = s
                  /\ \/ m \in Stable
                     \/ m \in temps /\ m.of \in Thread /\ thread[m.of].pc = "write"
                        /\ m.cert = thread[m.of].cert
  <1> DEFINE From(m) == \/ m \in Stable
                        \/ m \in temps /\ m.of \in Thread /\ thread[m.of].pc = "write"
                           /\ m.cert = thread[m.of].cert
  <1>1. ASSUME NEW m \in temps PROVE From(m)
    BY <1>1 DEF TempsInv, TypeInv, Name, Stable
  <1>2. ASSUME NEW c \in files PROVE From(Final(c))
    BY <1>2 DEF Stable
  <1>3. CASE n # TmpName
    <2>1. CertAt(n) = n.cert /\ n.cert.site = s
      BY <1>3, ScanLeads
    <2>2. (\E c \in files : n = Final(c)) \/ n \in temps
      BY <1>3, ScanFinds
    <2>3. From(n)
      BY <1>1, <1>2, <2>2
    <2> QED
      BY <2>1, <2>3
  <1>4. CASE n = TmpName
    <2>1. Exists(tmp.target) /\ CertAt(n) = tmp.target.cert /\ CertAt(n).site = s
      BY <1>4, ScanLeads
    <2>2. CASE tmp.target \in temps
      <3>1. From(tmp.target)
        BY <1>1, <2>2
      <3> QED
        BY <2>1, <3>1
    <2>3. CASE tmp.target.at = "final" /\ tmp.target.cert \in files
      <3>1. tmp.target \in Name /\ tmp.target.of = "none"
        BY <2>3 DEF TypeInv, LinkInv, Resolved
      <3>2. tmp.target = Final(tmp.target.cert)
        BY <2>3, <3>1 DEF Name, Final
      <3>3. From(tmp.target)
        BY <1>2, <2>3, <3>2
      <3> QED
        BY <2>1, <3>3
    <2> QED
      BY <2>1, <2>2, <2>3 DEF Exists
  <1> QED
    BY <1>3, <1>4

LEMMA StableCerts ==
    ASSUME TypeInv
    PROVE  \A n \in Stable : n.cert \in Cert /\ n.cert.expires \in Int
  BY DEF Stable, TypeInv, Final, Name, Cert

(* While the attempts suffice, a site that has a certificate has a valid one. *)
LEMMA StaysValid ==
    ASSUME TypeInv, TempsInv, LinkInv, RenewInv
    PROVE  CertificatesRenewed
  <1> SUFFICES ASSUME failures + crashes <= RenewBefore, NEW s \in Site, Real(s) # {}
               PROVE  \E c \in Real(s) : Valid(c)
    BY DEF CertificatesRenewed
  <1>0. day \in Int /\ failures \in Nat /\ crashes \in Nat
    BY DEF TypeInv
  <1>1. PICK n \in Scan(s) : CertAt(n) \in Real(s) /\ CertAt(n).by # "self"
    BY DEF Real
  <1>2. PICK m : /\ m.cert = CertAt(n) /\ m.cert.site = s
                 /\ \/ m \in Stable
                    \/ m \in temps /\ m.of \in Thread /\ thread[m.of].pc = "write"
                       /\ m.cert = thread[m.of].cert
    BY ScanSources
  <1>3. CASE m \in Stable
    <2>1. m \in RealIn(Stable, s)
      BY <1>1, <1>2, <1>3 DEF RealIn
    <2>2. PICK r \in RealIn(Stable, s) :
                  r.cert.expires >= day + RenewBefore - (failures + crashes)
      BY <2>1 DEF RenewInv, Lasts
    <2>3. r \in Stable /\ r.cert.site = s /\ r.cert.by # "self"
      BY DEF RealIn
    <2>4. r.cert.expires \in Int
      BY <2>3, StableCerts
    <2>5. day <= r.cert.expires
      BY <1>0, <2>2, <2>4
    <2>6. r.cert \in Real(s)
      BY <2>3, StableFound DEF Real
    <2> QED
      BY <2>5, <2>6 DEF Valid
  <1>4. CASE m \in temps /\ m.of \in Thread /\ thread[m.of].pc = "write"
             /\ m.cert = thread[m.of].cert
    <2>1. m.cert.expires >= day
      BY <1>4 DEF TempsInv
    <2>2. m.cert.expires \in Int
      BY <1>4 DEF TypeInv, Name, Cert
    <2>3. Valid(CertAt(n))
      BY <1>0, <1>2, <2>1, <2>2 DEF Valid
    <2> QED
      BY <1>1, <2>3
  <1> QED
    BY <1>2, <1>3, <1>4

LEMMA LongStep ==
    ASSUME LongLived, TypeInv, TempsInv, LongInv, [Next]_vars
    PROVE  LongInv'
  <1> USE DEF dir, budget, history
  <1>0. thread \in [Thread -> State] /\ {"loop", "run", "install"} = Thread
    BY DEF TypeInv, Thread
  <1>a. day \in Int
    BY DEF TypeInv
  <1>b. ASSUME UNCHANGED <<day, thread>> PROVE LongInv'
    BY <1>b DEF LongInv
  <1>c. ASSUME day' = day, NEW t \in Thread, Others(t),
               thread'[t].pc = "write" => thread'[t].cert.expires > day + RenewBefore,
               thread'[t].pc # "lock" \/ thread'[t].todo = Site \/ t # "loop"
        PROVE  LongInv'
    <2>1. ASSUME NEW u \in Thread, thread'[u].pc = "write"
          PROVE  thread'[u].cert.expires > day + RenewBefore
      BY <1>c, <2>1 DEF Others, LongInv
    <2>2. thread'["loop"].pc = "lock" => thread'["loop"].todo = Site
      BY <1>0, <1>c DEF Others, LongInv
    <2> QED
      BY <1>c, <2>1, <2>2 DEF LongInv
  <1>d. ASSUME day' = day, NEW t \in Thread, Finish(t) PROVE LongInv'
    <2>1. Others(t) /\ thread'[t].pc = "idle"
      BY <1>0, <1>d, MovedIdle DEF Finish
    <2> QED
      BY <1>c, <1>d, <2>1
  <1>1. CASE UNCHANGED vars
    BY <1>1, <1>b DEF vars
  <1>2. CASE DayPasses
    <2>1. \A u \in Thread : thread'[u].pc = "idle"
      BY <1>2 DEF DayPasses
    <2> QED
      BY <1>0, <2>1 DEF LongInv
  <1>3. CASE LeaseLapses
    BY <1>3, <1>b DEF LeaseLapses
  <1>4. CASE Kick
    BY <1>4, <1>b DEF Kick
  <1>5. CASE RenewalPass
    <2>1. CASE lease = "dead"
      BY <1>5, <1>b, <2>1 DEF RenewalPass
    <2>2. CASE lease # "dead"
      <3>1. Others("loop") /\ thread'["loop"].pc = "lock" /\ thread'["loop"].todo = Site
        BY <1>0, <1>5, <2>2, MovedStarting
      <3>2. day' = day
        BY <1>5 DEF RenewalPass
      <3> QED
        BY <1>0, <1>c, <3>1, <3>2
    <2> QED
      BY <2>1, <2>2
  <1>6. CASE StartRun
    <2>1. Others("run") /\ thread'["run"].pc = "lock" /\ day' = day
      BY <1>0, <1>6, MovedStarting DEF StartRun
    <2> QED
      BY <1>0, <1>c, <2>1
  <1>7. CASE InstallManual
    <2>1. PICK term \in Terms : /\ Others("install") /\ thread'["install"].pc = "write"
                                /\ thread'["install"].cert.expires = day + term
      <3>1. PICK s \in Site, term \in Terms :
              LET c == [site |-> s, expires |-> day + term, by |-> "operator"] IN
              /\ temps' = temps \cup {Scratch(c, "install")}
              /\ Others("install") /\ thread'["install"].pc = "write" /\ thread'["install"].cert = c
              /\ thread'["install"].got = FALSE /\ thread'["install"].target = TmpName
        BY <1>0, <1>7, MovedInstalling
      <3>2. /\ Others("install") /\ thread'["install"].pc = "write"
            /\ thread'["install"].cert = [site |-> s, expires |-> day + term, by |-> "operator"]
        BY <3>1
      <3>3. thread'["install"].cert.expires = day + term
        BY <3>2
      <3> QED
        BY <3>2, <3>3
    <2>2. day + term > day + RenewBefore
      BY <1>a DEF LongLived
    <2>3. day' = day
      BY <1>7 DEF InstallManual
    <2> QED
      BY <1>0, <1>c, <2>1, <2>2, <2>3
  <1>8. CASE Crash
    <2>1. \A u \in Thread : thread'[u].pc = "idle"
      BY <1>8 DEF Crash, Idle
    <2> QED
      BY <1>0, <2>1 DEF LongInv
  <1>9. ASSUME NEW t \in Thread, Run(t) PROVE LongInv'
    <2>0. day' = day
      BY <1>9 DEF Run, Provision, ScanFails, Order, OrderFails, SitesDone
    <2>1. CASE Provision(t)
      BY <1>0, <1>c, <2>0, <2>1, MovedProvision
    <2>2. CASE ScanFails(t)
      BY <1>d, <2>0, <2>2 DEF ScanFails
    <2>3. CASE Order(t)
      <3>1. Others(t) /\ thread'[t].pc = "write" /\ thread'[t].cert.expires = day + Validity
        <4>1. PICK s \in thread[t].todo :
                LET c == [site |-> s, expires |-> day + Validity, by |-> "acme"] IN
                /\ temps' = temps \cup {Scratch(c, t)}
                /\ Others(t) /\ thread'[t].pc = "write" /\ thread'[t].cert = c
                /\ thread'[t].todo = thread[t].todo \ {s}
                /\ thread'[t].got = thread[t].got /\ thread'[t].target = thread[t].target
          BY <1>0, <2>3, MovedOrder
        <4> QED
          BY <4>1
      <3>2. day + Validity > day + RenewBefore
        BY <1>a DEF LongLived
      <3> QED
        BY <1>c, <2>0, <3>1, <3>2
    <2>4. CASE OrderFails(t)
      BY <1>0, <1>c, <2>0, <2>4, MovedOrderFails
    <2>5. CASE SitesDone(t)
      BY <1>0, <1>c, <1>d, <2>0, <2>5, Moved DEF SitesDone
    <2> QED
      BY <1>9, <2>1, <2>2, <2>3, <2>4, <2>5 DEF Run
  <1>10. ASSUME NEW t \in Thread, InstallCert(t) \/ InstallFails(t) PROVE LongInv'
    <2>1. Others(t) /\ thread'[t].pc \in {"idle", "order", "rescan"}
      BY <1>0, <1>10, MovedWritten, MovedIdle DEF InstallCert, InstallFails
    <2>2. day' = day
      BY <1>10 DEF InstallCert, InstallFails
    <2> QED
      BY <1>c, <2>1, <2>2
  <1>11. ASSUME NEW t \in Thread, PostInstall(t) PROVE LongInv'
    <2>1. day' = day
      BY <1>11 DEF PostInstall, Rescan, RelinkFails, RemoveTmp, SymlinkTmp, RenameTmp, Restart,
         RestartFails
    <2>2. \/ Finish(t) \/ \E m : Goto(t, [thread[t] EXCEPT !.pc = "remove", !.target = m])
          \/ \E p \in {"symlink", "rename", "restart"} : Goto(t, [thread[t] EXCEPT !.pc = p])
      BY <1>11 DEF PostInstall, Rescan, RelinkFails, RemoveTmp, SymlinkTmp, RenameTmp, Restart,
         RestartFails
    <2>3. CASE Finish(t)
      BY <1>d, <2>1, <2>3
    <2>4. ASSUME NEW m, Goto(t, [thread[t] EXCEPT !.pc = "remove", !.target = m]) PROVE LongInv'
      BY <1>0, <1>c, <2>1, <2>4, MovedChosen
    <2>5. ASSUME NEW p \in {"symlink", "rename", "restart"}, Goto(t, [thread[t] EXCEPT !.pc = p])
          PROVE  LongInv'
      BY <1>0, <1>c, <2>1, <2>5, Moved
    <2> QED
      BY <2>2, <2>3, <2>4, <2>5
  <1> QED
    BY <1>0, <1>1, <1>2, <1>3, <1>4, <1>5, <1>6, <1>7, <1>8, <1>9, <1>10, <1>11 DEF Next

(* A stable name stays, and so does what it lasts.                         *)
LEMMA LastsKept ==
    ASSUME NEW S, NEW T, S \subseteq T, NEW s, NEW d, Lasts(S, s, d)
    PROVE  Lasts(T, s, d)
  BY DEF Lasts, RealIn

LEMMA LastsLess ==
    ASSUME TypeInv, NEW s, NEW d \in Int, NEW e \in Int, e <= d, Lasts(Stable, s, d)
    PROVE  Lasts(Stable, s, e)
  <1>1. PICK n \in RealIn(Stable, s) : n.cert.expires >= d
    BY DEF Lasts
  <1>2. n.cert.expires \in Int
    BY <1>1, StableCerts DEF RealIn
  <1>3. n.cert.expires >= e
    BY <1>1, <1>2
  <1> QED
    BY <1>3 DEF Lasts

(* A step that fails nothing and installs nothing.                         *)
LEMMA RenewKept ==
    ASSUME RenewInv, day' = day, Stable' = Stable, UNCHANGED <<failures, crashes>>,
           \A s \in Site : Installing(s) => Installing(s)',
           \A s \in Site : Expected(s) /\ lease # "dead" =>
              \/ Expected(s)' /\ lease' # "dead"
              \/ Lasts(Stable, s, day + RenewBefore + 1 - (failures + crashes))
              \/ Installing(s)
    PROVE  RenewInv'
  BY DEF RenewInv

(* A failure costs one attempt and leaves the certificates as they are.    *)
LEMMA RenewFailed ==
    ASSUME TypeInv, RenewInv, day' = day, Stable' = Stable,
           failures' + crashes' = failures + crashes + 1
    PROVE  RenewInv'
  <1>0. day \in Int /\ failures \in Nat /\ crashes \in Nat /\ RenewBefore \in Nat
    BY DEF TypeInv
  <1> SUFFICES ASSUME NEW s \in Site, RealIn(Stable', s) # {}
               PROVE  /\ Lasts(Stable', s, day' + RenewBefore - (failures' + crashes'))
                      /\ Lasts(Stable', s, day' + RenewBefore + 1 - (failures' + crashes'))
    BY DEF RenewInv
  <1>1. Lasts(Stable, s, day + RenewBefore - (failures + crashes))
    BY DEF RenewInv
  <1>2. day' + RenewBefore + 1 - (failures' + crashes') = day + RenewBefore - (failures + crashes)
    BY <1>0
  <1>3. day' + RenewBefore - (failures' + crashes') = day + RenewBefore - (failures + crashes) - 1
    BY <1>0
  <1>4. Lasts(Stable, s, day + RenewBefore - (failures + crashes) - 1)
    BY <1>0, <1>1, LastsLess
  <1> QED
    BY <1>1, <1>2, <1>3, <1>4

(* provisionAll does not order for a site that has a certificate, stable   *)
(* or being installed, for longer than the window.                         *)
LEMMA SkippedLasts ==
    ASSUME TypeInv, TempsInv, LinkInv, RunMuFree, NEW s, ~Needs(s)
    PROVE  Lasts(Stable, s, day + RenewBefore + 1 - (failures + crashes)) \/ Installing(s)
  <1>0. day \in Int /\ failures \in Nat /\ crashes \in Nat /\ RenewBefore \in Nat
    BY DEF TypeInv
  <1>1. PICK n \in Scan(s) : CertAt(n).by # "self" /\ day + RenewBefore < CertAt(n).expires
    BY DEF Needs, Best
  <1>2. PICK m : /\ m.cert = CertAt(n) /\ m.cert.site = s
                 /\ \/ m \in Stable
                    \/ m \in temps /\ m.of \in Thread /\ thread[m.of].pc = "write"
                       /\ m.cert = thread[m.of].cert
    BY ScanSources
  <1>3. CASE m \in Stable
    <2>1. m \in RealIn(Stable, s) /\ m.cert.expires \in Int
      BY <1>1, <1>2, <1>3, StableCerts DEF RealIn
    <2>2. m.cert.expires >= day + RenewBefore + 1 - (failures + crashes)
      BY <1>0, <1>1, <1>2, <2>1
    <2> QED
      BY <2>1, <2>2 DEF Lasts
  <1>4. CASE m \in temps /\ m.of \in Thread /\ thread[m.of].pc = "write"
             /\ m.cert = thread[m.of].cert
    <2>1. m.of = "install"
      BY <1>4 DEF RunMuFree, Thread
    <2> QED
      BY <1>2, <1>4, <2>1 DEF Installing
  <1> QED
    BY <1>2, <1>3, <1>4

(* The new file of a thread that writes.                                   *)
LEMMA RenewInstalled ==
    ASSUME TypeInv, LongInv, TempsInv, RenewInv, NEW t \in Thread, InstallCert(t)
    PROVE  RenewInv'
  <1> USE DEF dir, budget, history
  <1>0. /\ day \in Int /\ failures \in Nat /\ crashes \in Nat /\ RenewBefore \in Nat
        /\ thread \in [Thread -> State] /\ thread[t].cert \in Cert
    BY DEF TypeInv, State
  <1> DEFINE c == thread[t].cert
             k == failures + crashes
  <1>1. /\ thread[t].pc = "write" /\ files' = files \cup {c} /\ temps' = temps \ {Scratch(c, t)}
        /\ UNCHANGED <<day, failures, crashes, due, lease>> /\ Goto(t, AfterWrite(t, TRUE))
    BY DEF InstallCert
  <1>2. Stable' = Stable \cup {Final(c)}
    <2>1. Scratch(c, t).of # "none"
      BY DEF Scratch, Thread
    <2> QED
      BY <1>1, <2>1 DEF Stable
  <1>3. c.by # "self" /\ c.expires > day + RenewBefore /\ c.expires \in Int
    BY <1>0, <1>1 DEF TempsInv, LongInv, Cert
  <1>4. /\ Others(t) /\ thread'[t].pc = (IF t = "install" THEN "rescan" ELSE "order")
        /\ thread'[t].todo = thread[t].todo
    BY <1>0, <1>1, MovedWritten
  <1> HIDE DEF c
  <1> SUFFICES ASSUME NEW s \in Site, RealIn(Stable', s) # {}
               PROVE  /\ Lasts(Stable', s, day + RenewBefore - k)
                      /\ \/ Expected(s)' /\ lease # "dead"
                         \/ Lasts(Stable', s, day + RenewBefore + 1 - k)
                         \/ Installing(s)'
    BY <1>1 DEF RenewInv
  <1>5. CASE s = c.site
    <2>1. Final(c) \in RealIn(Stable', s) /\ Final(c).cert = c
      BY <1>2, <1>3, <1>5 DEF RealIn, Final
    <2>2. c.expires >= day + RenewBefore + 1 - k /\ c.expires >= day + RenewBefore - k
      BY <1>0, <1>3
    <2> QED
      BY <2>1, <2>2 DEF Lasts
  <1>6. CASE s # c.site
    <2>1. RealIn(Stable', s) = RealIn(Stable, s)
      BY <1>2, <1>6 DEF RealIn, Final
    <2>2. /\ Lasts(Stable, s, day + RenewBefore - k)
          /\ \/ Expected(s) /\ lease # "dead"
             \/ Lasts(Stable, s, day + RenewBefore + 1 - k)
             \/ Installing(s)
      BY <2>1 DEF RenewInv
    <2>3. Expected(s) => Expected(s)'
      <3>1. CASE t = "loop"
        BY <1>1, <1>4, <1>6, <3>1 DEF Expected, c
      <3>2. CASE t # "loop"
        BY <1>1, <1>4, <3>2 DEF Expected, Others, Thread
      <3> QED
        BY <3>1, <3>2
    <2>4. Installing(s) => Installing(s)'
      <3>1. CASE t = "install"
        BY <1>6, <3>1 DEF Installing, c
      <3>2. CASE t # "install"
        BY <1>4, <3>2 DEF Installing, Others, Thread
      <3> QED
        BY <3>1, <3>2
    <2>5. \A d : Lasts(Stable, s, d) => Lasts(Stable', s, d)
      BY <2>1 DEF Lasts
    <2> QED
      BY <2>2, <2>3, <2>4, <2>5
  <1> QED
    BY <1>5, <1>6

(* What a crash leaves in the directory.                                   *)
LEMMA RenewCrashed ==
    ASSUME TypeInv, TempsInv, LongInv, RenewInv, Crash
    PROVE  RenewInv'
  <1>0. day \in Int /\ failures \in Nat /\ crashes \in Nat /\ RenewBefore \in Nat
    BY DEF TypeInv
  <1> DEFINE k == failures + crashes
  <1>1. /\ files' = files /\ temps' = {Orphan(n) : n \in temps} /\ day' = day
        /\ failures' + crashes' = k + 1
    BY <1>0 DEF Crash
  <1>2. Stable \subseteq Stable'
    <2>1. ASSUME NEW n \in temps, n.of = "none" PROVE n \in temps' /\ n.of = "none"
      <3>1. Orphan(n) = n
        BY <2>1 DEF Orphan, TypeInv, Name
      <3> QED
        BY <1>1, <2>1, <3>1
    <2> QED
      BY <1>1, <2>1 DEF Stable
  <1>3. \A n \in Stable' : n \in Stable \/ n.cert.expires >= day + RenewBefore + 1
    <2> SUFFICES ASSUME NEW n \in temps'
                 PROVE  n \in Stable \/ n.cert.expires >= day + RenewBefore + 1
      BY <1>1 DEF Stable
    <2>1. PICK m \in temps : n = Orphan(m)
      BY <1>1
    <2>2. n.cert = m.cert /\ m.cert.expires \in Int
      BY <2>1 DEF Orphan, TypeInv, Name, Cert
    <2>3. CASE m.of = "none"
      BY <2>1, <2>3 DEF Orphan, TypeInv, Name, Stable
    <2>4. CASE m.of # "none"
      <3>1. m.of \in Thread /\ thread[m.of].pc = "write" /\ m.cert = thread[m.of].cert
        BY <2>4 DEF TempsInv, TypeInv, Name
      <3>2. m.cert.expires > day + RenewBefore
        BY <3>1 DEF LongInv
      <3> QED
        BY <1>0, <2>2, <3>2
    <2> QED
      BY <2>3, <2>4
  <1> SUFFICES ASSUME NEW s \in Site, RealIn(Stable', s) # {}
               PROVE  /\ Lasts(Stable', s, day + RenewBefore - (k + 1))
                      /\ Lasts(Stable', s, day + RenewBefore + 1 - (k + 1))
    BY <1>1 DEF RenewInv
  <1>4. CASE RealIn(Stable, s) # {}
    <2>1. Lasts(Stable, s, day + RenewBefore - k)
      BY <1>4 DEF RenewInv
    <2>2. Lasts(Stable, s, day + RenewBefore - k - 1)
      BY <1>0, <2>1, LastsLess
    <2>3. /\ day + RenewBefore - (k + 1) = day + RenewBefore - k - 1
          /\ day + RenewBefore + 1 - (k + 1) = day + RenewBefore - k
      BY <1>0
    <2> QED
      BY <1>2, <2>1, <2>2, <2>3, LastsKept
  <1>5. CASE RealIn(Stable, s) = {}
    <2>1. PICK n \in RealIn(Stable', s) : TRUE
      OBVIOUS
    <2>2. n \in Stable' /\ n \notin Stable
      BY <1>5 DEF RealIn
    <2>3. n.cert.expires >= day + RenewBefore + 1
      BY <1>3, <2>2
    <2>4. n.cert.expires \in Int
      <3>1. n \in temps'
        BY <1>1, <2>2 DEF Stable
      <3>2. PICK m \in temps : n = Orphan(m)
        BY <1>1, <3>1
      <3> QED
        BY <3>2 DEF Orphan, TypeInv, Name, Cert
    <2>5. /\ n.cert.expires >= day + RenewBefore - (k + 1)
          /\ n.cert.expires >= day + RenewBefore + 1 - (k + 1)
      BY <1>0, <2>3, <2>4
    <2> QED
      BY <2>1, <2>5 DEF Lasts
  <1> QED
    BY <1>4, <1>5

LEMMA RenewStep ==
    ASSUME LongLived, TypeInv, TempsInv, LinkInv, LongInv, RenewInv, [Next]_vars
    PROVE  RenewInv'
  <1> USE DEF dir, budget, history
  <1>0. thread \in [Thread -> State] /\ {"loop", "run", "install"} = Thread
    BY DEF TypeInv, Thread
  <1>z. day \in Int /\ failures \in Nat /\ crashes \in Nat /\ RenewBefore \in Nat
    BY DEF TypeInv
  <1> DEFINE Spare(s) == Lasts(Stable, s, day + RenewBefore + 1 - (failures + crashes))
             Rest == day' = day /\ Stable' = Stable /\ UNCHANGED <<failures, crashes>>
  <1>a. ASSUME UNCHANGED <<files, temps>> PROVE Stable' = Stable
    BY <1>a DEF Stable
  <1>b. ASSUME Rest, UNCHANGED <<thread, due>>, lease # "dead" => lease' # "dead" PROVE RenewInv'
    BY <1>b, RenewKept DEF Expected, Installing
  <1>c. ASSUME Rest, lease # "dead" => lease' # "dead", due => due', NEW t \in Thread, Others(t),
               thread[t].pc = "write" => t = "loop",
               t = "loop" => \A s \in Site : Expected(s) /\ lease # "dead" =>
                                                Expected(s)' \/ Spare(s) \/ Installing(s)
        PROVE  RenewInv'
    <2>1. ASSUME NEW s \in Site, Installing(s) PROVE Installing(s)'
      BY <1>c, <2>1 DEF Installing, Others, Thread
    <2>2. ASSUME NEW s \in Site, Expected(s), lease # "dead"
          PROVE  Expected(s)' \/ Spare(s) \/ Installing(s)
      <3>1. CASE t = "loop"
        BY <1>c, <2>2, <3>1
      <3>2. CASE t # "loop"
        <4>1. thread'["loop"] = thread["loop"]
          BY <1>0, <1>c, <3>2 DEF Others
        <4> QED
          BY <1>c, <2>2, <4>1 DEF Expected
      <3> QED
        BY <3>1, <3>2
    <2> QED
      BY <1>c, <2>1, <2>2, RenewKept
  <1>d. ASSUME Rest, due' = due, lease' \in {lease, "free"}, NEW t \in Thread, Others(t),
               thread[t].pc \notin {"lock", "order", "write"}
        PROVE  RenewInv'
    <2>1. \A s \in Site : t = "loop" /\ Expected(s) => Expected(s)'
      BY <1>d DEF Expected
    <2> QED
      BY <1>c, <1>d, <2>1
  <1>e. ASSUME NEW t \in Thread, Finish(t) PROVE Others(t) /\ lease' \in {lease, "free"}
    BY <1>0, <1>e, MovedIdle DEF Finish
  <1>f. ASSUME Fail, day' = day, Stable' = Stable PROVE RenewInv'
    <2>1. failures' + crashes' = failures + crashes + 1
      BY <1>f, <1>z DEF Fail
    <2> QED
      BY <1>f, <2>1, RenewFailed
  <1>1. CASE UNCHANGED vars
    BY <1>1, <1>a, <1>b DEF vars
  <1>2. CASE DayPasses
    <2>1. /\ day' = day + 1 /\ due' /\ lease' # "dead" /\ ~due
             /\ UNCHANGED <<files, temps, failures, crashes>>
          /\ \A t \in Thread : thread[t].pc = "idle"
      BY <1>2 DEF DayPasses, TypeInv
    <2>2. Stable' = Stable
      BY <1>a, <2>1
    <2>3. ASSUME NEW s \in Site, RealIn(Stable', s) # {}
          PROVE  Lasts(Stable', s, day' + RenewBefore - (failures' + crashes')) /\ Expected(s)'
      <3>1. ~Expected(s) /\ ~Installing(s)
        BY <1>0, <2>1 DEF Expected, Installing
      <3>2. Lasts(Stable, s, day + RenewBefore + 1 - (failures + crashes))
        BY <2>2, <2>3, <3>1 DEF RenewInv
      <3>3. day' + RenewBefore - (failures' + crashes')
              = day + RenewBefore + 1 - (failures + crashes)
        BY <1>z, <2>1
      <3> QED
        BY <2>1, <2>2, <3>2, <3>3 DEF Expected
    <2> QED
      BY <2>1, <2>3 DEF RenewInv
  <1>3. CASE LeaseLapses
    BY <1>3, <1>a, <1>b DEF LeaseLapses
  <1>4. CASE Kick
    <2>1. Rest /\ due' /\ UNCHANGED <<thread, lease>>
      BY <1>4, <1>a DEF Kick, Ask
    <2> QED
      BY <2>1, RenewKept DEF Expected, Installing
  <1>5. CASE RenewalPass
    <2>1. Rest /\ thread["loop"].pc = "idle"
      BY <1>5, <1>a DEF RenewalPass
    <2>2. CASE lease = "dead"
      <3>1. UNCHANGED thread
        BY <1>5, <2>2 DEF RenewalPass
      <3> QED
        BY <2>1, <2>2, <3>1, RenewKept DEF Installing
    <2>3. CASE lease # "dead"
      <3>1. lease' = "ours" /\ Others("loop") /\ thread'["loop"].pc = "lock"
        BY <1>0, <1>5, <2>3, MovedStarting DEF RenewalPass
      <3>2. \A s \in Site : Expected(s)' /\ (Installing(s) => Installing(s)')
        BY <3>1 DEF Expected, Installing, Others, Thread
      <3> QED
        BY <2>1, <3>1, <3>2, RenewKept
    <2> QED
      BY <2>2, <2>3
  <1>6. CASE StartRun
    <2>1. Rest /\ UNCHANGED <<due, lease>> /\ thread["run"].pc = "idle"
      BY <1>6, <1>a DEF StartRun, Ask
    <2>2. Others("run")
      BY <1>0, <1>6, MovedStarting
    <2> QED
      BY <1>0, <1>c, <2>1, <2>2
  <1>7. CASE InstallManual
    <2>1. PICK c : temps' = temps \cup {Scratch(c, "install")} /\ Others("install")
      BY <1>0, <1>7, MovedInstalling
    <2>2. Scratch(c, "install").of # "none" /\ files' = files
      BY <1>7 DEF Scratch, InstallManual
    <2>3. Stable' = Stable
      BY <2>1, <2>2, StableSame
    <2>4. Rest /\ UNCHANGED <<due, lease>> /\ thread["install"].pc = "idle"
      BY <1>7, <2>3 DEF InstallManual, Ask
    <2> QED
      BY <1>0, <1>c, <2>1, <2>4
  <1>8. CASE Crash
    BY <1>8, RenewCrashed
  <1>9. ASSUME NEW t \in Thread, t # "install", Run(t) PROVE RenewInv'
    <2>1. CASE Provision(t)
      <3>1. Rest /\ UNCHANGED <<due, lease>> /\ thread[t].pc = "lock" /\ RunMuFree
        BY <2>1, <1>a DEF Provision
      <3>2. /\ Others(t) /\ thread'[t].pc = "order"
            /\ thread'[t].todo = {s \in thread[t].todo : Needs(s)}
        BY <1>0, <2>1, MovedProvision
      <3>3. ASSUME t = "loop", NEW s \in Site PROVE Expected(s)' \/ Spare(s) \/ Installing(s)
        <4>1. CASE Needs(s)
          <5>1. s \in thread'["loop"].todo
            BY <3>1, <3>2, <3>3, <4>1 DEF LongInv
          <5> QED
            BY <3>2, <3>3, <5>1 DEF Expected
        <4>2. CASE ~Needs(s)
          BY <3>1, <4>2, SkippedLasts
        <4> QED
          BY <4>1, <4>2
      <3> QED
        BY <1>c, <3>1, <3>2, <3>3
    <2>2. CASE ScanFails(t)
      BY <2>2, <1>a, <1>f DEF ScanFails
    <2>3. CASE Order(t)
      <3>1. PICK s \in thread[t].todo :
              LET c == [site |-> s, expires |-> day + Validity, by |-> "acme"] IN
              /\ temps' = temps \cup {Scratch(c, t)}
              /\ Others(t) /\ thread'[t].pc = "write" /\ thread'[t].cert = c
              /\ thread'[t].todo = thread[t].todo \ {s}
              /\ thread'[t].got = thread[t].got /\ thread'[t].target = thread[t].target
        BY <1>0, <2>3, MovedOrder
      <3> DEFINE c == [site |-> s, expires |-> day + Validity, by |-> "acme"]
      <3>2. /\ temps' = temps \cup {Scratch(c, t)}
            /\ Others(t) /\ thread'[t].pc = "write" /\ thread'[t].cert = c
            /\ thread'[t].todo = thread[t].todo \ {s}
        BY <3>1
      <3>3. c.site = s
        OBVIOUS
      <3> HIDE DEF c
      <3>4. Scratch(c, t).of # "none" /\ files' = files
        BY <2>3 DEF Scratch, Order, Thread
      <3>5. Stable' = Stable
        BY <3>2, <3>4, StableSame
      <3>6. Rest /\ UNCHANGED <<due, lease>> /\ thread[t].pc = "order"
        BY <2>3, <3>5 DEF Order
      <3>7. ASSUME t = "loop", NEW r \in Site, Expected(r) PROVE Expected(r)'
        <4>1. CASE due
          BY <3>6, <4>1 DEF Expected
        <4>2. CASE r \in thread["loop"].todo
          <5>1. r \in thread'["loop"].todo \/ r = s
            BY <3>2, <3>7, <4>2
          <5> QED
            BY <3>2, <3>3, <3>7, <5>1 DEF Expected
        <4> QED
          BY <3>6, <3>7, <4>1, <4>2 DEF Expected
      <3> QED
        BY <1>c, <3>2, <3>6, <3>7
    <2>4. CASE OrderFails(t)
      BY <2>4, <1>a, <1>f DEF OrderFails
    <2>5. CASE SitesDone(t)
      <3>1. Rest /\ due' = due /\ thread[t].pc = "order" /\ thread[t].todo = {}
        BY <2>5, <1>a DEF SitesDone
      <3>2. Others(t) /\ lease' \in {lease, "free"}
        BY <1>0, <1>e, <2>5, Moved DEF SitesDone
      <3>3. \A s \in Site : t = "loop" /\ Expected(s) => Expected(s)'
        BY <3>1 DEF Expected
      <3> QED
        BY <1>c, <3>1, <3>2, <3>3
    <2> QED
      BY <1>9, <2>1, <2>2, <2>3, <2>4, <2>5 DEF Run
  <1>10. ASSUME NEW t \in Thread, InstallCert(t) PROVE RenewInv'
    BY <1>10, RenewInstalled
  <1>11. ASSUME NEW t \in Thread, InstallFails(t) PROVE RenewInv'
    <2>1. temps' = temps \ {Scratch(thread[t].cert, t)} /\ files' = files /\ Fail /\ day' = day
      BY <1>11 DEF InstallFails
    <2>2. Scratch(thread[t].cert, t).of # "none"
      BY DEF Scratch, Thread
    <2>3. Stable' = Stable
      BY <2>1, <2>2, StableSame
    <2> QED
      BY <1>f, <2>1, <2>3
  <1>12. ASSUME NEW t \in Thread, RelinkFails(t) \/ RestartFails(t) PROVE RenewInv'
    BY <1>12, <1>a, <1>f DEF RelinkFails, RestartFails
  <1>13. ASSUME NEW t \in Thread,
                Rescan(t) \/ RemoveTmp(t) \/ SymlinkTmp(t) \/ RenameTmp(t) \/ Restart(t)
         PROVE  RenewInv'
    <2>1. Rest /\ due' = due /\ thread[t].pc \notin {"lock", "order", "write"}
      BY <1>13, <1>a DEF Rescan, RemoveTmp, SymlinkTmp, RenameTmp, Restart
    <2>2. \/ Finish(t)
          \/ lease' = lease /\ \E m : Goto(t, [thread[t] EXCEPT !.pc = "remove", !.target = m])
          \/ /\ lease' = lease
             /\ \E p \in {"symlink", "rename", "restart"} : Goto(t, [thread[t] EXCEPT !.pc = p])
      BY <1>13 DEF Rescan, RemoveTmp, SymlinkTmp, RenameTmp, Restart
    <2>3. Others(t) /\ lease' \in {lease, "free"}
      <3>1. CASE Finish(t)
        BY <1>e, <3>1
      <3>2. ASSUME NEW m, Goto(t, [thread[t] EXCEPT !.pc = "remove", !.target = m])
            PROVE  Others(t)
        BY <1>0, <3>2, MovedChosen
      <3>3. ASSUME NEW p \in {"symlink", "rename", "restart"}, Goto(t, [thread[t] EXCEPT !.pc = p])
            PROVE  Others(t)
        BY <1>0, <3>3, Moved
      <3> QED
        BY <2>2, <3>1, <3>2, <3>3
    <2> QED
      BY <1>d, <2>1, <2>3
  <1> QED
    BY <1>0, <1>1, <1>2, <1>3, <1>4, <1>5, <1>6, <1>7, <1>8, <1>9, <1>10, <1>11, <1>12, <1>13
       DEF Next, PostInstall

(* A site that has had a certificate keeps a valid one while no more       *)
(* attempts are lost than the renewal window has days, for any sites, any  *)
(* window, any number of requests, failures and restarts, if certificates  *)
(* last longer than the window.                                            *)
THEOREM SitesKeepCertificates ==
    ASSUME LongLived
    PROVE  Spec => []CertificatesRenewed
  <1> DEFINE Inv == TypeInv /\ TempsInv /\ LinkInv /\ LongInv /\ RenewInv
  <1>1. Init => Inv
    <2> SUFFICES ASSUME Init PROVE LongInv /\ RenewInv
      BY StartsResolved
    <2>1. LongInv
      BY DEF Init, LongInv, Idle, Thread
    <2>2. Stable = {Final(SelfSigned)}
      BY DEF Init, Stable
    <2>3. \A s : RealIn(Stable, s) = {}
      BY <2>2 DEF RealIn, Final, SelfSigned
    <2> QED
      BY <2>1, <2>3 DEF RenewInv
  <1>2. Inv /\ [Next]_vars => Inv'
    BY TypeStep, TempsStep, LinkStep, LongStep, RenewStep
  <1>3. Inv => CertificatesRenewed
    BY StaysValid
  <1> QED
    BY <1>1, <1>2, <1>3, PTL DEF Spec
=============================================================================
