----------------------------- MODULE MailCrypt ------------------------------
(***************************************************************************)
(* Encryption at rest of one account: the setup, challenge, relink and     *)
(* rotation ceremonies (httpapi/encryption.go), the password changes that  *)
(* must keep the key slots usable (httpapi/users.go), the passkeys' slots  *)
(* (httpapi/encryption_prf.go) and the slot store (mailcrypt/slots.go).    *)
(*                                                                         *)
(* A root key and a set of recovery codes are numbers, fresh when they are *)
(* generated; wrapping pairs a secret with a root.  A request runs as a    *)
(* sequence of statements against the store; requests of several sessions  *)
(* interleave between statements, and a transaction is one step (the       *)
(* single SQLite connection).  Requests that are refused before they       *)
(* change anything are left out: the password a request carries is the one *)
(* that was current when its user row was loaded.                          *)
(***************************************************************************)
EXTENDS Naturals, FiniteSets

CONSTANTS
    Session,                \* concurrent requests to one account
    Enabled,                \* whether the account starts out encrypted: the cases
    MaxChallengeAttempts,   \* the code's limit of wrong codes, 3
    MaxIssued,              \* bound of the model: ceremonies begun
    MaxPasswords,           \* bound of the model: password changes
    MaxTroubles             \* bound of the model: failed statements and boxctl commands

ASSUME MailCryptAssumption ==
    /\ IsFiniteSet(Session)
    /\ Enabled \subseteq BOOLEAN
    /\ MaxChallengeAttempts \in Nat \ {0}
    /\ MaxIssued \in Nat /\ MaxPasswords \in Nat /\ MaxTroubles \in Nat

VARIABLES
    password,       \* the login password
    slots,          \* committed MailKeySlot rows
    pending,        \* EncryptionSetup rows
    keypair,        \* the root whose subkey protects Dovecot's keypair, 0 for none
    req,            \* the request each session is in
    issued,         \* root keys and code sets generated so far
    acknowledged,   \* an admin knowingly reset the password under the slot
    outdated,       \* history: a password change and a slot's commit crossed
    prepared,       \* history: setups that found the account without a slot
    overlapped,     \* history: two of those were committed
    repeated,       \* history: one was committed twice
    recovered,      \* history: boxctl set the password over a slot
    disabled,       \* history: boxctl removed the slots under a request that holds the key
    troubles

past == <<prepared, overlapped, repeated, recovered, disabled>>
vars == <<password, slots, pending, keypair, req, issued, acknowledged, outdated, prepared,
          overlapped, repeated, recovered, disabled, troubles>>

Slot == [id : Nat, kind : {"password", "recovery", "passkey_prf"}, secret : Nat \ {0}, root : Nat \ {0}]

Ceremony == [id : Nat, mode : {"setup", "rotation"}, pw : Nat, root : Nat \ {0}, attempts : Nat]

Idle == [op |-> "none", pw |-> 0, root |-> 0, row |-> 0, new |-> FALSE]

TypeOK ==
    /\ password \in 1 .. MaxPasswords + 1
    /\ slots \subseteq Slot
    /\ pending \subseteq Ceremony
    /\ keypair \in 0 .. MaxIssued + 1
    /\ \A s \in Session : /\ req[s].pw \in 0 .. MaxPasswords + 1
                          /\ req[s].root \in 0 .. MaxIssued + 1
                          /\ req[s].row \in 0 .. MaxIssued + 1
                          /\ req[s].new \in BOOLEAN
    /\ issued \in 0 .. MaxIssued + 1
    /\ acknowledged \in BOOLEAN /\ outdated \in BOOLEAN
    /\ prepared \subseteq 1 .. MaxIssued + 1 /\ overlapped \in BOOLEAN /\ repeated \in BOOLEAN
    /\ recovered \in BOOLEAN /\ disabled \in BOOLEAN
    /\ troubles \in 0 .. MaxTroubles

PasswordSlots == {k \in slots : k.kind = "password"}
RecoverySlots == {k \in slots : k.kind = "recovery"}
PRFSlots == {k \in slots : k.kind = "passkey_prf"}

(* The four codes of one ceremony are one secret; the id tells rows of the *)
(* same kind apart.                                                        *)
PasswordSlot(n, pw, root) == [id |-> n, kind |-> "password", secret |-> pw, root |-> root]
RecoverySlot(n, codes, root) == [id |-> n, kind |-> "recovery", secret |-> codes, root |-> root]

(* The account has one passkey, whose output is one secret. *)
PRFSlot(root) == [id |-> 1, kind |-> "passkey_prf", secret |-> 1, root |-> root]

Init ==
    /\ password = 1
    /\ \E on \in Enabled :
          /\ slots = IF on THEN {PasswordSlot(1, 1, 1), RecoverySlot(1, 1, 1)} ELSE {}
          /\ keypair = IF on THEN 1 ELSE 0
          /\ issued = IF on THEN 1 ELSE 0
    /\ pending = {}
    /\ req = [s \in Session |-> Idle]
    /\ acknowledged = FALSE
    /\ outdated = FALSE
    /\ prepared = {} /\ overlapped = FALSE /\ repeated = FALSE
    /\ recovered = FALSE /\ disabled = FALSE
    /\ troubles = 0

(* The session goes on to another step, or is done with its request. *)
Goto(s, step) == req' = [req EXCEPT ![s] = step]
Done(s) == Goto(s, Idle)

Trouble == troubles < MaxTroubles /\ troubles' = troubles + 1

(* Query().Only(): the one row, or an error when there are several. *)
TheOne(S, x) == S = {x}

-----------------------------------------------------------------------------
(* handleEncryptionSetup and the first half of handleEncryptionRotateRecovery *)

(* The user row is loaded and the password verified. *)
SetupBegin(s) ==
    /\ req[s].op = "none"
    /\ issued <= MaxIssued
    /\ Goto(s, [Idle EXCEPT !.op = "setup", !.pw = password])
    /\ UNCHANGED <<password, slots, pending, keypair, issued, acknowledged, outdated, troubles, past>>

(* Mutant: an account that is already encrypted may be set up again. *)
SetupPrepareAgain(s) ==
    /\ req[s].op = "setup"
    /\ issued <= MaxIssued
    /\ issued' = issued + 1
    /\ Goto(s, [req[s] EXCEPT !.op = "clear", !.root = issued + 1, !.row = issued + 1,
                              !.new = TRUE])
    /\ UNCHANGED <<password, slots, pending, keypair, acknowledged, outdated, troubles, past>>

(* HasSlot, then a root key and codes are generated and wrapped. *)
SetupPrepare(s) ==
    /\ req[s].op = "setup"
    /\ issued <= MaxIssued
    /\ IF PasswordSlots # {}
       THEN Done(s) /\ UNCHANGED <<issued, prepared>>
       ELSE /\ issued' = issued + 1
            /\ prepared' = prepared \cup {issued + 1}
            /\ Goto(s, [req[s] EXCEPT !.op = "clear", !.root = issued + 1, !.row = issued + 1,
                                      !.new = TRUE])
    /\ UNCHANGED <<password, slots, pending, keypair, acknowledged, outdated, overlapped, repeated,
                   recovered, disabled, troubles>>

(* Mutant: a rotation that begins takes the old codes out of service. *)
RotatePrepareDropping(s) ==
    /\ req[s].op = "none"
    /\ issued <= MaxIssued
    /\ \E k \in slots :
          /\ TheOne(PasswordSlots, k) /\ k.secret = password
          /\ issued' = issued + 1
          /\ Goto(s, [Idle EXCEPT !.op = "clear", !.root = k.root, !.row = issued + 1])
    /\ slots' = slots \ RecoverySlots
    /\ UNCHANGED <<password, pending, keypair, acknowledged, outdated, troubles, past>>

(* The password unwraps the root key, under which new codes are wrapped. *)
RotatePrepare(s) ==
    /\ req[s].op = "none"
    /\ issued <= MaxIssued
    /\ \E k \in slots :
          /\ TheOne(PasswordSlots, k) /\ k.secret = password
          /\ issued' = issued + 1
          /\ Goto(s, [Idle EXCEPT !.op = "clear", !.root = k.root, !.row = issued + 1])
    /\ UNCHANGED <<password, slots, pending, keypair, acknowledged, outdated, troubles, past>>

(* storePendingSetup: two statements, no transaction. *)
ClearPending(s) ==
    /\ req[s].op = "clear"
    /\ pending' = {}
    /\ Goto(s, [req[s] EXCEPT !.op = "store"])
    /\ UNCHANGED <<password, slots, keypair, issued, acknowledged, outdated, troubles, past>>

StorePending(s) ==
    /\ req[s].op = "store"
    /\ pending' = pending \cup
          {[id |-> req[s].row, mode |-> IF req[s].new THEN "setup" ELSE "rotation",
            pw |-> req[s].pw, root |-> req[s].root, attempts |-> 0]}
    /\ Done(s)
    /\ UNCHANGED <<password, slots, keypair, issued, acknowledged, outdated, troubles, past>>

-----------------------------------------------------------------------------
(* handleEncryptionChallenge and handleEncryptionRotateConfirm *)

(* pendingSetup finds the one row; a row of the other mode is refused. *)
PendingIs(c, mode) == TheOne(pending, c) /\ c.mode = mode

PendingExpires(s, mode) ==
    /\ req[s].op = "none"
    /\ \E c \in pending : PendingIs(c, mode) /\ pending' = {}
    /\ UNCHANGED <<password, slots, keypair, req, issued, acknowledged, outdated, troubles, past>>

(* Mutant: wrong codes are counted and never held against the row. *)
CodeChecksUncapped(s, mode) ==
    /\ req[s].op = "none"
    /\ \E c \in pending :
          /\ PendingIs(c, mode)
          /\ \E right \in BOOLEAN :
                Goto(s, [Idle EXCEPT !.op = IF ~right THEN "wrong"
                                            ELSE IF mode = "setup" THEN "keygen" ELSE "replace",
                                     !.pw = c.pw, !.root = c.root, !.row = c.id])
    /\ UNCHANGED <<password, slots, pending, keypair, issued, acknowledged, outdated, troubles, past>>

(* challengeVerify up to its verdict on the code: the attempts are those   *)
(* of the row as it was read.                                              *)
CodeChecks(s, mode) ==
    /\ req[s].op = "none"
    /\ \E c \in pending :
          /\ PendingIs(c, mode)
          /\ c.attempts < MaxChallengeAttempts
          /\ \E right \in BOOLEAN :
                Goto(s, [Idle EXCEPT !.op = IF ~right THEN "wrong"
                                            ELSE IF mode = "setup" THEN "keygen" ELSE "replace",
                                     !.pw = c.pw, !.root = c.root, !.row = c.id])
    /\ UNCHANGED <<password, slots, pending, keypair, issued, acknowledged, outdated, troubles, past>>

TooManyAttempts(s, mode) ==
    /\ req[s].op = "none"
    /\ \E c \in pending :
          /\ PendingIs(c, mode)
          /\ c.attempts >= MaxChallengeAttempts
          /\ pending' = pending \ {c}
    /\ UNCHANGED <<password, slots, keypair, req, issued, acknowledged, outdated, troubles, past>>

(* AddAttempts is one UPDATE of the row, if it still exists. *)
CountAttempt(s) ==
    /\ req[s].op = "wrong"
    /\ pending' = {IF c.id = req[s].row THEN [c EXCEPT !.attempts = @ + 1] ELSE c : c \in pending}
    /\ Done(s)
    /\ UNCHANGED <<password, slots, keypair, issued, acknowledged, outdated, troubles, past>>

(* helperd has doveadm generate a keypair; whether it replaces an existing *)
(* one is doveadm's affair.                                                *)
Keygen(s) ==
    /\ req[s].op = "keygen"
    /\ \/ keypair' = req[s].root
       \/ keypair # 0 /\ UNCHANGED keypair
    /\ Goto(s, [req[s] EXCEPT !.op = "insert"])
    /\ UNCHANGED <<password, slots, pending, issued, acknowledged, outdated, troubles, past>>

KeygenFails(s) ==
    /\ req[s].op = "keygen"
    /\ Trouble
    /\ pending' = {c \in pending : c.id # req[s].row}
    /\ Done(s)
    /\ UNCHANGED <<password, slots, keypair, issued, acknowledged, outdated, past>>

(* InsertSlots: the prepared set in one statement, whatever is there. *)
InsertSlots(s) ==
    /\ req[s].op = "insert"
    /\ slots' = slots \cup {PasswordSlot(Cardinality(PasswordSlots) + 1, req[s].pw, req[s].root),
                            RecoverySlot(Cardinality(RecoverySlots) + 1, req[s].row, req[s].root)}
    /\ Goto(s, [req[s] EXCEPT !.op = "finish"])
    /\ outdated' = (outdated \/ req[s].pw # password)
    /\ overlapped' = (overlapped \/ (req[s].row \in prepared /\ \E k \in slots : k.root # req[s].root))
    /\ repeated' = (repeated \/ \E k \in PasswordSlots : k.root = req[s].root)
    /\ UNCHANGED <<password, pending, keypair, issued, acknowledged, prepared, recovered, disabled,
                   troubles>>

(* ReplaceRecoverySlots, in a transaction. *)
ReplaceRecovery(s) ==
    /\ req[s].op = "replace"
    /\ slots' = (slots \ RecoverySlots) \cup {RecoverySlot(1, req[s].row, req[s].root)}
    /\ Goto(s, [req[s] EXCEPT !.op = "finish"])
    /\ UNCHANGED <<password, pending, keypair, issued, acknowledged, outdated, troubles, past>>

DeletePending(s) ==
    /\ req[s].op = "finish"
    /\ pending' = {c \in pending : c.id # req[s].row}
    /\ Done(s)
    /\ UNCHANGED <<password, slots, keypair, issued, acknowledged, outdated, troubles, past>>

(* The error of this last delete is not looked at; a crash does the same. *)
DeletePendingFails(s) ==
    /\ req[s].op = "finish"
    /\ Trouble
    /\ Done(s)
    /\ UNCHANGED <<password, slots, pending, keypair, issued, acknowledged, outdated, past>>

-----------------------------------------------------------------------------
(* handleEncryptionRelink: a recovery code unwraps the root key, and the   *)
(* password slot is replaced by one under the password just verified.      *)

RelinkUnwrap(s) ==
    /\ req[s].op = "none"
    /\ \E k \in RecoverySlots :
          Goto(s, [Idle EXCEPT !.op = "relink", !.pw = password, !.root = k.root])
    /\ UNCHANGED <<password, slots, pending, keypair, issued, acknowledged, outdated, troubles, past>>

(* Mutant: the old password slot is left in place. *)
WithPasswordSlotAdded(pw, root) == slots \cup {PasswordSlot(Cardinality(PasswordSlots) + 1, pw, root)}

(* ReplacePasswordSlot: delete and insert in a transaction. *)
WithPasswordSlot(pw, root) ==
    (slots \ PasswordSlots) \cup {PasswordSlot(1, pw, root)}

RelinkReplace(s) ==
    /\ req[s].op = "relink"
    /\ slots' = WithPasswordSlot(req[s].pw, req[s].root)
    /\ acknowledged' = FALSE /\ recovered' = FALSE
    /\ outdated' = (req[s].pw # password)
    /\ Done(s)
    /\ UNCHANGED <<password, pending, keypair, issued, troubles, prepared, overlapped, repeated, disabled>>

-----------------------------------------------------------------------------
(* handlePRFEnrollComplete: the password unwraps the root key, and the     *)
(* passkey's slot is put in or replaced.                                   *)
PRFEnrollUnwrap(s) ==
    /\ req[s].op = "none"
    /\ \E k \in slots :
          /\ TheOne(PasswordSlots, k) /\ k.secret = password
          /\ Goto(s, [Idle EXCEPT !.op = "prf", !.root = k.root])
    /\ UNCHANGED <<password, slots, pending, keypair, issued, acknowledged, outdated, troubles, past>>

InsertPRFSlot(s) ==
    /\ req[s].op = "prf"
    /\ slots' = (slots \ PRFSlots) \cup {PRFSlot(req[s].root)}
    /\ Done(s)
    /\ UNCHANGED <<password, pending, keypair, issued, acknowledged, outdated, troubles, past>>

(* handlePRFRelinkComplete: the passkey unwraps the root key; the password *)
(* slot is replaced as in a relink by recovery code.                       *)
PRFRelinkUnwrap(s) ==
    /\ req[s].op = "none"
    /\ \E k \in PRFSlots :
          Goto(s, [Idle EXCEPT !.op = "relink", !.pw = password, !.root = k.root])
    /\ UNCHANGED <<password, slots, pending, keypair, issued, acknowledged, outdated, troubles, past>>

(* The passkey is deleted, and its slot with it. *)
DeletePRFSlot(s) ==
    /\ req[s].op = "none"
    /\ PRFSlots # {}
    /\ slots' = slots \ PRFSlots
    /\ UNCHANGED <<password, pending, keypair, req, issued, acknowledged, outdated, troubles, past>>

-----------------------------------------------------------------------------
(* handleChangeOwnPassword: with a password slot that opens, a new slot is *)
(* prepared; with none, only the hash will change; a stranded slot refuses.*)
ChangeUnwrap(s) ==
    /\ req[s].op = "none"
    /\ password <= MaxPasswords
    /\ \/ /\ PasswordSlots = {}
          /\ Goto(s, [Idle EXCEPT !.op = "change"])
       \/ \E k \in slots :
             /\ TheOne(PasswordSlots, k) /\ k.secret = password
             /\ Goto(s, [Idle EXCEPT !.op = "change", !.root = k.root, !.new = TRUE])
    /\ UNCHANGED <<password, slots, pending, keypair, issued, acknowledged, outdated, troubles, past>>

(* Mutant: the hash changes and the new slot is not put in. *)
ChangeCommitsHash(s) ==
    /\ req[s].op = "change"
    /\ password <= MaxPasswords
    /\ password' = password + 1
    /\ Done(s)
    /\ UNCHANGED <<pending, keypair, issued, slots, acknowledged, outdated, troubles, past>>

(* The hash and the slot change in one transaction. *)
ChangeCommits(s) ==
    /\ req[s].op = "change"
    /\ password <= MaxPasswords
    /\ password' = password + 1
    /\ IF req[s].new
       THEN slots' = WithPasswordSlot(password + 1, req[s].root)
       ELSE UNCHANGED slots
    /\ outdated' = (outdated \/ (~req[s].new /\ PasswordSlots # {}))
    /\ Done(s)
    /\ UNCHANGED <<pending, keypair, issued, acknowledged, troubles, past>>

(* handleSetUserPassword: an admin resets the password.  With a password   *)
(* slot the admin has to acknowledge that it strands it.                   *)
ResetChecks(s) ==
    /\ req[s].op = "none"
    /\ password <= MaxPasswords
    /\ Goto(s, [Idle EXCEPT !.op = "reset", !.new = (PasswordSlots # {})])
    /\ UNCHANGED <<password, slots, pending, keypair, issued, acknowledged, outdated, troubles, past>>

ResetCommits(s) ==
    /\ req[s].op = "reset"
    /\ password <= MaxPasswords
    /\ password' = password + 1
    /\ acknowledged' = (acknowledged \/ req[s].new)
    /\ outdated' = (outdated \/ (~req[s].new /\ PasswordSlots # {}))
    /\ Done(s)
    /\ UNCHANGED <<slots, pending, keypair, issued, troubles, past>>

-----------------------------------------------------------------------------
(* boxctl, a process of its own beside managerd, on the same store *)

(* adminops.SetPassword, for boxctl recover password: the hash changes     *)
(* whether the account is encrypted or not, and nobody is asked.  The      *)
(* sessions it revokes afterwards are not part of this module; a request   *)
(* that is under way goes on.                                              *)
SetPassword ==
    /\ Trouble
    /\ password <= MaxPasswords
    /\ password' = password + 1
    /\ recovered' = (recovered \/ PasswordSlots # {})
    /\ UNCHANGED <<slots, pending, keypair, req, issued, acknowledged, outdated, prepared, overlapped,
                   repeated, disabled>>

(* A request that holds the root key it unwrapped from a slot. *)
OfSlot(r) ==
    \/ r.op \in {"relink", "prf", "replace"}
    \/ r.op = "change" /\ r.new
    \/ r.op \in {"clear", "store"} /\ ~r.new

(* adminops.EncryptionDisable, for boxctl recover encryption disable: all  *)
(* the slots go in one statement, the rows of ceremonies stay.             *)
EncryptionDisable ==
    /\ Trouble
    /\ slots # {}
    /\ slots' = {}
    /\ acknowledged' = FALSE /\ outdated' = FALSE /\ recovered' = FALSE
    /\ disabled' = (\/ disabled
                    \/ \E s \in Session : OfSlot(req[s])
                    \/ \E c \in pending : c.mode = "rotation")
    /\ UNCHANGED <<password, pending, keypair, req, issued, prepared, overlapped, repeated>>

-----------------------------------------------------------------------------
(* The client goes away, or a statement fails: the request ends there. *)
Abandon(s) ==
    /\ req[s].op \notin {"none", "finish"}
    /\ Done(s)
    /\ UNCHANGED <<password, slots, pending, keypair, issued, acknowledged, outdated, troubles, past>>

Next ==
    \/ SetPassword \/ EncryptionDisable
    \/ \E s \in Session :
           \/ SetupBegin(s) \/ SetupPrepare(s) \/ RotatePrepare(s)
           \/ ClearPending(s) \/ StorePending(s)
           \/ \E mode \in {"setup", "rotation"} :
                 PendingExpires(s, mode) \/ CodeChecks(s, mode) \/ TooManyAttempts(s, mode)
           \/ CountAttempt(s) \/ Keygen(s) \/ KeygenFails(s) \/ InsertSlots(s)
           \/ ReplaceRecovery(s) \/ DeletePending(s) \/ DeletePendingFails(s)
           \/ RelinkUnwrap(s) \/ RelinkReplace(s)
           \/ PRFEnrollUnwrap(s) \/ InsertPRFSlot(s) \/ PRFRelinkUnwrap(s) \/ DeletePRFSlot(s)
           \/ ChangeUnwrap(s) \/ ChangeCommits(s) \/ ResetChecks(s) \/ ResetCommits(s)
           \/ Abandon(s)

Spec == Init /\ [][Next]_vars

-----------------------------------------------------------------------------
(* "Any single slot unwraps the same root key": whichever secret the user  *)
(* still has, it opens the same mail.  Excepted are two setups that both   *)
(* found no slot and were both committed: HasSlot is not asked again; and  *)
(* slots that boxctl removed while a request was holding their key, which  *)
(* it puts back.                                                           *)
SameRoot == overlapped \/ disabled \/ \A k1, k2 \in slots : k1.root = k2.root

(* An account has one password slot: with a second one every lookup by     *)
(* Only() fails, and neither login nor a password change can use the key.  *)
(* Excepted are such setups, and a setup committed twice, by two requests  *)
(* that found its row or because the row stayed.                           *)
SinglePasswordSlot == overlapped \/ repeated \/ \A k1, k2 \in PasswordSlots : k1 = k2

(* "losing one credential never loses mail": an encrypted account always   *)
(* has recovery codes in service, also while they are being rotated,       *)
(* unless a request put a password slot back after boxctl had removed the  *)
(* slots.                                                                  *)
Recoverable == disabled \/ (PasswordSlots # {} => RecoverySlots # {})

(* Wrong codes against one ceremony are limited; the check is made on the  *)
(* row as it was read, so concurrent requests can overshoot the limit, by  *)
(* no more than their number.                                              *)
AttemptsBounded ==
    \A c \in pending : c.attempts <= MaxChallengeAttempts + Cardinality(Session) - 1

(* The password slot opens with the login password, unless an admin has    *)
(* reset the password and acknowledged what that does ("Never do that      *)
(* silently: the admin must acknowledge"), boxctl has set it without       *)
(* asking, or the change and the slot crossed: the slot was wrapped before *)
(* the password changed and committed after it, or came in after the       *)
(* change had seen that there was none.  A relink ends each of these.      *)
SlotOpensOrAcknowledged ==
    acknowledged \/ recovered \/ outdated \/ \A k \in PasswordSlots : k.secret = password
=============================================================================
