--------------------------- MODULE MailCryptProofs ---------------------------
(***************************************************************************)
(* Proofs about encryption at rest of one account, for any number of       *)
(* sessions, ceremonies, password changes, failed statements and boxctl commands.           *)
(***************************************************************************)
EXTENDS MailCrypt, FiniteSetTheorems, TLAPS

(* Root keys, code sets and rows are numbered alike. *)
Number == 1 .. MaxIssued + 1
Passwords == 1 .. MaxPasswords + 1

Slots == [id : Nat, kind : {"password", "recovery", "passkey_prf"}, secret : Nat \ {0}, root : Number]

Ceremonies == [id : Number, mode : {"setup", "rotation"}, pw : Passwords \cup {0}, root : Number,
               attempts : Nat]

Reqs == [op : {"none", "setup", "clear", "store", "wrong", "keygen", "replace", "insert", "finish",
               "relink", "prf", "change", "reset"},
         pw : Passwords \cup {0}, root : Number \cup {0}, row : Number \cup {0}, new : BOOLEAN]

TypeInv ==
    /\ password \in Passwords
    /\ slots \subseteq Slots /\ IsFiniteSet(slots)
    /\ pending \subseteq Ceremonies
    /\ keypair \in Number \cup {0}
    /\ req \in [Session -> Reqs]
    /\ issued \in 0 .. MaxIssued + 1
    /\ acknowledged \in BOOLEAN /\ outdated \in BOOLEAN
    /\ prepared \subseteq Number /\ overlapped \in BOOLEAN /\ repeated \in BOOLEAN
    /\ recovered \in BOOLEAN /\ disabled \in BOOLEAN
    /\ troubles \in 0 .. MaxTroubles

(* What a request carries to the store: the root key of a setup, wrapped   *)
(* under a password, or (OfSlot) the one it unwrapped from a slot.         *)
OfSetup(r) == r.op \in {"keygen", "insert"} \/ (r.op \in {"clear", "store"} /\ r.new)
(* A setup has found the account without a slot; whoever unwrapped a slot  *)
(* found an account with recovery codes, which are replaced and only ever  *)
(* removed by EncryptionDisable.                                           *)
Kept == disabled \/ RecoverySlots # {}

Founded(r, prep, kept) ==
    /\ OfSetup(r) => r.row \in prep /\ r.pw # 0
    /\ OfSlot(r) => kept
    /\ OfSetup(r) \/ OfSlot(r) => r.root # 0
    /\ r.op \in {"clear", "store", "keygen", "insert", "replace"} => r.row # 0
    /\ r.op \in {"setup", "relink"} => r.pw # 0

FoundedRow(c) ==
    IF c.mode = "setup" THEN c.id \in prepared /\ c.pw # 0 ELSE Kept

OriginInv ==
    /\ \A s \in Session : Founded(req[s], prepared, Kept)
    /\ \A c \in pending : FoundedRow(c)
    /\ slots # {} => Kept

(* Unless two setups were committed, or boxctl removed the slots under a   *)
(* request, what the slots, the requests and the rows wrap is one root key.*)
RootInv ==
    overlapped \/ disabled \/ \A k \in slots :
        /\ \A k2 \in slots : k2.root = k.root
        /\ \A s \in Session : OfSlot(req[s]) => req[s].root = k.root
        /\ \A c \in pending : c.mode = "rotation" => c.root = k.root

(* The requests that have seen a wrong code and not counted it yet. *)
Wrong(n) == {s \in Session : req[s].op = "wrong" /\ req[s].row = n}

AttemptsInv ==
    \A c \in pending : c.attempts + Cardinality(Wrong(c.id)) <= MaxChallengeAttempts + Cardinality(Session) - 1

IInv ==
    /\ TypeInv /\ OriginInv /\ RootInv /\ AttemptsInv
    /\ SinglePasswordSlot /\ SlotOpensOrAcknowledged

(* What the proofs use of the numbering. *)
LEMMA Numbers ==
    /\ Number \subseteq Nat \ {0} /\ 1 \in Number
    /\ Passwords \subseteq Nat \ {0} /\ 1 \in Passwords
    /\ 0 \in 0 .. MaxIssued + 1 /\ 1 \in 0 .. MaxIssued + 1
    /\ \A n \in 0 .. MaxIssued + 1 : n <= MaxIssued => n + 1 \in Number /\ n + 1 \in 0 .. MaxIssued + 1
    /\ \A p \in Passwords : p <= MaxPasswords => p + 1 \in Passwords
    /\ \A n \in 0 .. MaxTroubles : n < MaxTroubles => n + 1 \in 0 .. MaxTroubles
    /\ 0 \in 0 .. MaxTroubles
  <1>1. MaxIssued \in Nat /\ MaxPasswords \in Nat /\ MaxTroubles \in Nat
    BY MailCryptAssumption, Zenon
  <1> QED
    BY <1>1 DEF Number, Passwords

(* A step of one request. *)
LEMMA OneRequest ==
    ASSUME TypeInv, NEW s \in Session, NEW r \in Reqs, Goto(s, r)
    PROVE  /\ req' \in [Session -> Reqs] /\ req'[s] = r
           /\ \A t \in Session : t # s => req'[t] = req[t]
  BY DEF TypeInv, Goto

(* The idle request carries nothing. *)
LEMMA IdleRequest ==
    /\ Idle \in Reqs /\ Idle.op = "none" /\ ~OfSlot(Idle)
    /\ \A prep, kept : Founded(Idle, prep, kept)
  <1>1. Idle \in Reqs /\ Idle.op = "none"
    BY DEF Idle, Reqs
  <1> QED
    BY <1>1 DEF Founded, OfSetup, OfSlot

(* A step of request s that writes nothing but what is generated, and at   *)
(* most removes rows of ceremonies: the request r it goes on as has its    *)
(* foundation in what it has just read.                                    *)
Reads(s) ==
    /\ UNCHANGED <<password, slots, acknowledged, outdated, overlapped, repeated, recovered, disabled>>
    /\ pending' \subseteq pending
    /\ keypair' \in Number \cup {0} /\ issued' \in 0 .. MaxIssued + 1 /\ troubles' \in 0 .. MaxTroubles
    /\ prepared \subseteq prepared' /\ prepared' \subseteq Number
    /\ \E r \in Reqs :
          /\ Goto(s, r)
          /\ OfSetup(r) => r.row \in prepared' /\ r.pw # 0
          /\ OfSlot(r) => Kept
          /\ OfSetup(r) \/ OfSlot(r) => r.root # 0
          /\ r.op \in {"clear", "store", "keygen", "insert", "replace"} => r.row # 0
          /\ r.op \in {"setup", "relink"} => r.pw # 0
          /\ overlapped \/ disabled \/ \A k \in slots : OfSlot(r) => r.root = k.root
          /\ \A c \in pending' : r.op = "wrong" /\ r.row = c.id => c.attempts < MaxChallengeAttempts

(* A setup begins, and prepares a root key for an account without a slot. *)
LEMMA SetupReads ==
    ASSUME TypeInv, OriginInv, NEW s \in Session, SetupBegin(s) \/ SetupPrepare(s)
    PROVE  Reads(s)
  <1>1. req[s] \in Reqs /\ password \in Passwords /\ issued \in 0 .. MaxIssued + 1 /\ prepared \subseteq Number
        /\ keypair \in Number \cup {0} /\ troubles \in 0 .. MaxTroubles
    BY DEF TypeInv
  <1>2. CASE SetupBegin(s)
    <2> DEFINE r == [Idle EXCEPT !.op = "setup", !.pw = password]
    <2>1. r \in Reqs /\ r.op = "setup" /\ r.pw = password
      BY <1>1, IdleRequest DEF Idle, Reqs
    <2>2. Goto(s, r)
      BY <1>2, Zenon DEF SetupBegin
    <2> HIDE DEF r
    <2>3. ~OfSetup(r) /\ ~OfSlot(r) /\ r.pw # 0
      BY <1>1, <2>1, Numbers DEF OfSetup, OfSlot
    <2> QED
      BY <1>1, <1>2, <2>1, <2>2, <2>3 DEF SetupBegin, past, Reads
  <1>3. CASE SetupPrepare(s)
    <2>1. CASE Done(s) /\ UNCHANGED <<issued, prepared>>
      BY <1>1, <1>3, <2>1, IdleRequest DEF SetupPrepare, Done, Reads, Founded, OfSetup, OfSlot
    <2>2. CASE /\ issued' = issued + 1 /\ prepared' = prepared \cup {issued + 1}
               /\ Goto(s, [req[s] EXCEPT !.op = "clear", !.root = issued + 1, !.row = issued + 1, !.new = TRUE])
      <3> DEFINE r == [req[s] EXCEPT !.op = "clear", !.root = issued + 1, !.row = issued + 1, !.new = TRUE]
      <3>1. issued + 1 \in Number /\ issued + 1 \in 0 .. MaxIssued + 1
        BY <1>1, <1>3, Numbers DEF SetupPrepare
      <3>2. r \in Reqs /\ r.op = "clear" /\ r.root = issued + 1 /\ r.row = issued + 1 /\ r.new
            /\ r.pw = req[s].pw
        BY <1>1, <3>1 DEF Reqs
      <3>3. Goto(s, r)
        BY <2>2, Zenon
      <3>4. req[s].pw # 0
        BY <1>3 DEF SetupPrepare, OriginInv, Founded
      <3> HIDE DEF r
      <3>5. ~OfSlot(r) /\ r.row \in prepared' /\ r.root # 0 /\ r.row # 0
        BY <2>2, <3>1, <3>2, Numbers DEF OfSlot
      <3> QED
        BY <1>1, <1>3, <2>2, <3>1, <3>2, <3>3, <3>4, <3>5 DEF SetupPrepare, Reads
    <2> QED
      BY <1>3, <2>1, <2>2 DEF SetupPrepare
  <1> QED
    BY <1>2, <1>3

(* What a slot's root key is good for: an account with recovery codes. *)
LEMMA UnwrapReads ==
    ASSUME TypeInv, OriginInv, RootInv, NEW s \in Session, NEW k \in slots, NEW r \in Reqs, Goto(s, r),
           r.root = k.root, ~OfSetup(r), r.op # "wrong",
           r.op \in {"clear", "store", "keygen", "insert", "replace"} => r.row # 0,
           r.op \in {"setup", "relink"} => r.pw # 0,
           UNCHANGED <<password, slots, pending, keypair, acknowledged, outdated, past>>,
           issued' \in 0 .. MaxIssued + 1, UNCHANGED troubles
    PROVE  Reads(s)
  <1>1. Kept
    BY DEF OriginInv
  <1>2. r.root # 0
    BY Numbers DEF TypeInv, Slots
  <1>3. overlapped \/ disabled \/ \A x \in slots : r.root = x.root
    BY DEF RootInv
  <1>4. UNCHANGED <<prepared, overlapped, repeated, recovered, disabled>>
    BY DEF past
  <1> QED
    BY <1>1, <1>2, <1>3, <1>4 DEF Reads, TypeInv

(* A rotation prepares new codes for the root key it unwrapped. *)
LEMMA RotateReads ==
    ASSUME TypeInv, OriginInv, RootInv, NEW s \in Session, RotatePrepare(s)
    PROVE  Reads(s)
  <1>1. PICK k \in slots :
          /\ issued' = issued + 1
          /\ Goto(s, [Idle EXCEPT !.op = "clear", !.root = k.root, !.row = issued + 1])
    BY DEF RotatePrepare
  <1> DEFINE r == [Idle EXCEPT !.op = "clear", !.root = k.root, !.row = issued + 1]
  <1>2. issued + 1 \in Number /\ issued + 1 \in 0 .. MaxIssued + 1 /\ issued + 1 # 0
    BY Numbers DEF RotatePrepare, TypeInv
  <1>3. k.root \in Number
    BY DEF TypeInv, Slots
  <1>4. r \in Reqs /\ r.op = "clear" /\ r.root = k.root /\ r.row = issued + 1 /\ ~r.new
    BY <1>2, <1>3 DEF Idle, Reqs
  <1>5. Goto(s, r)
    BY <1>1, Zenon
  <1> HIDE DEF r
  <1>6. ~OfSetup(r)
    BY <1>4 DEF OfSetup
  <1> QED
    BY <1>1, <1>2, <1>4, <1>5, <1>6, UnwrapReads DEF RotatePrepare

(* A relink and a passkey's enrolment start from a root key a slot holds. *)
LEMMA RelinkReads ==
    ASSUME TypeInv, OriginInv, RootInv, NEW s \in Session,
           RelinkUnwrap(s) \/ PRFRelinkUnwrap(s) \/ PRFEnrollUnwrap(s)
    PROVE  Reads(s)
  <1>0. password \in Passwords \cup {0} /\ password # 0 /\ issued \in 0 .. MaxIssued + 1
    BY Numbers DEF TypeInv
  <1>1. CASE RelinkUnwrap(s) \/ PRFRelinkUnwrap(s)
    <2>1. PICK k \in slots : Goto(s, [Idle EXCEPT !.op = "relink", !.pw = password, !.root = k.root])
      BY <1>1, Zenon DEF RelinkUnwrap, PRFRelinkUnwrap, RecoverySlots, PRFSlots
    <2> DEFINE r == [Idle EXCEPT !.op = "relink", !.pw = password, !.root = k.root]
    <2>2. k.root \in Number
      BY DEF TypeInv, Slots
    <2>3. r \in Reqs /\ r.op = "relink" /\ r.root = k.root /\ r.pw = password
      BY <1>0, <2>2 DEF Idle, Reqs
    <2>4. Goto(s, r)
      BY <2>1, Zenon
    <2> HIDE DEF r
    <2>5. ~OfSetup(r)
      BY <2>3 DEF OfSetup
    <2>6. UNCHANGED <<password, slots, pending, keypair, acknowledged, outdated, past, troubles, issued>>
      BY <1>1 DEF RelinkUnwrap, PRFRelinkUnwrap
    <2> QED
      BY <1>0, <2>3, <2>4, <2>5, <2>6, UnwrapReads
  <1>2. CASE PRFEnrollUnwrap(s)
    <2>1. PICK k \in slots : Goto(s, [Idle EXCEPT !.op = "prf", !.root = k.root])
      BY <1>2, Zenon DEF PRFEnrollUnwrap
    <2> DEFINE r == [Idle EXCEPT !.op = "prf", !.root = k.root]
    <2>2. k.root \in Number
      BY DEF TypeInv, Slots
    <2>3. r \in Reqs /\ r.op = "prf" /\ r.root = k.root
      BY <2>2 DEF Idle, Reqs
    <2>4. Goto(s, r)
      BY <2>1, Zenon
    <2> HIDE DEF r
    <2>5. ~OfSetup(r)
      BY <2>3 DEF OfSetup
    <2> QED
      BY <1>0, <1>2, <2>3, <2>4, <2>5, UnwrapReads DEF PRFEnrollUnwrap
  <1> QED
    BY <1>1, <1>2

(* A password change unwraps the root key, or finds no slot; a reset only  *)
(* looks whether there is one.                                             *)
LEMMA ChangeReads ==
    ASSUME TypeInv, OriginInv, RootInv, NEW s \in Session, ChangeUnwrap(s) \/ ResetChecks(s)
    PROVE  Reads(s)
  <1>0. issued \in 0 .. MaxIssued + 1
    BY DEF TypeInv
  <1>1. UNCHANGED <<password, slots, pending, keypair, issued, acknowledged, outdated, troubles, past>>
    BY DEF ChangeUnwrap, ResetChecks
  <1>2. ASSUME NEW k \in slots, Goto(s, [Idle EXCEPT !.op = "change", !.root = k.root, !.new = TRUE])
        PROVE  Reads(s)
    <2> DEFINE r == [Idle EXCEPT !.op = "change", !.root = k.root, !.new = TRUE]
    <2>2. k.root \in Number
      BY DEF TypeInv, Slots
    <2>3. r \in Reqs /\ r.op = "change" /\ r.root = k.root
      BY <2>2 DEF Idle, Reqs
    <2>4. Goto(s, r)
      BY <1>2, Zenon
    <2> HIDE DEF r
    <2>5. ~OfSetup(r)
      BY <2>3 DEF OfSetup
    <2> QED
      BY <1>0, <1>1, <2>3, <2>4, <2>5, UnwrapReads
  <1>3. ASSUME NEW r \in Reqs, Goto(s, r), r.op \in {"change", "reset"}, r.op = "change" => ~r.new
        PROVE  Reads(s)
    <2>1. ~OfSetup(r) /\ ~OfSlot(r)
      BY <1>3 DEF OfSetup, OfSlot
    <2>2. UNCHANGED <<prepared, overlapped, repeated, recovered, disabled>>
      BY <1>1 DEF past
    <2> QED
      BY <1>1, <1>3, <2>1, <2>2 DEF Reads, TypeInv
  <1>4. [Idle EXCEPT !.op = "change"] \in Reqs /\ ~[Idle EXCEPT !.op = "change"].new
        /\ [Idle EXCEPT !.op = "change"].op = "change"
    BY DEF Idle, Reqs
  <1>5. [Idle EXCEPT !.op = "reset", !.new = (PasswordSlots # {})] \in Reqs
        /\ [Idle EXCEPT !.op = "reset", !.new = (PasswordSlots # {})].op = "reset"
    BY DEF Idle, Reqs
  <1> QED
    BY <1>2, <1>3, <1>4, <1>5, Zenon DEF ChangeUnwrap, ResetChecks

(* The request goes on with the row it has found, or counts a wrong code. *)
LEMMA CodeReads ==
    ASSUME TypeInv, OriginInv, RootInv, NEW s \in Session, NEW mode \in {"setup", "rotation"},
           CodeChecks(s, mode)
    PROVE  Reads(s)
  <1>1. UNCHANGED <<password, slots, pending, keypair, issued, acknowledged, outdated, troubles>>
        /\ UNCHANGED <<prepared, overlapped, repeated, recovered, disabled>>
    BY DEF CodeChecks, past
  <1> DEFINE o(right) == IF ~right THEN "wrong" ELSE IF mode = "setup" THEN "keygen" ELSE "replace"
             R(c, right) == [Idle EXCEPT !.op = o(right), !.pw = c.pw, !.root = c.root, !.row = c.id]
  <1>2. PICK c \in pending, right \in BOOLEAN :
           /\ PendingIs(c, mode) /\ c.attempts < MaxChallengeAttempts
           /\ Goto(s, R(c, right))
    BY Zenon DEF CodeChecks
  <1>3. c \in Ceremonies /\ c.mode = mode /\ \A d \in pending : d = c
    BY <1>2 DEF TypeInv, PendingIs, TheOne
  <1>4. c.pw \in Passwords \cup {0} /\ c.root \in Number /\ c.id \in Number
    BY <1>3 DEF Ceremonies
  <1>5. o(right) \in {"wrong", "keygen", "replace"} /\ (o(right) = "keygen" => mode = "setup")
        /\ (o(right) = "replace" => mode = "rotation")
    OBVIOUS
  <1> HIDE DEF o
  <1> DEFINE r == R(c, right)
  <1>6. r \in Reqs /\ r.op = o(right) /\ r.pw = c.pw /\ r.root = c.root /\ r.row = c.id
    BY <1>4, <1>5 DEF Idle, Reqs
  <1>7. Goto(s, r)
    BY <1>2
  <1> HIDE DEF r
  <1>8. FoundedRow(c) /\ (overlapped \/ disabled \/ \A k \in slots : c.mode = "rotation" => c.root = k.root)
    BY DEF OriginInv, RootInv
  <1>9. OfSetup(r) => r.row \in prepared /\ r.pw # 0
    BY <1>3, <1>5, <1>6, <1>8 DEF OfSetup, FoundedRow
  <1>10. OfSlot(r) => Kept /\ (overlapped \/ disabled \/ \A k \in slots : r.root = k.root)
    BY <1>3, <1>5, <1>6, <1>8 DEF OfSlot, FoundedRow
  <1>11. r.root # 0 /\ r.row # 0 /\ r.op \notin {"setup", "relink"}
    BY <1>4, <1>5, <1>6, Numbers
  <1>12. \A d \in pending : d.attempts < MaxChallengeAttempts
    BY <1>2, <1>3
  <1> QED
    BY <1>1, <1>6, <1>7, <1>9, <1>10, <1>11, <1>12 DEF Reads, TypeInv

(* A key generation goes on to the insert; what is given up is over. *)
LEMMA TailReads ==
    ASSUME TypeInv, OriginInv, NEW s \in Session, Keygen(s) \/ DeletePendingFails(s) \/ Abandon(s)
    PROVE  Reads(s)
  <1>1. CASE Keygen(s)
    <2> DEFINE r == [req[s] EXCEPT !.op = "insert"]
    <2>1. req[s] \in Reqs /\ Founded(req[s], prepared, Kept) /\ req[s].op = "keygen"
      BY <1>1 DEF TypeInv, OriginInv, Keygen
    <2>2. req[s].row \in prepared /\ req[s].pw # 0 /\ req[s].root # 0 /\ req[s].row # 0
      BY <2>1 DEF Founded, OfSetup
    <2>3. r \in Reqs /\ r.op = "insert" /\ r.row = req[s].row /\ r.pw = req[s].pw /\ r.root = req[s].root
      BY <2>1 DEF Reqs
    <2>4. Goto(s, r)
      BY <1>1, Zenon DEF Keygen
    <2> HIDE DEF r
    <2>5. ~OfSlot(r)
      BY <2>3 DEF OfSlot
    <2>6. keypair' \in Number \cup {0}
      BY <1>1, <2>1 DEF Keygen, TypeInv, Reqs
    <2>7. UNCHANGED <<password, slots, pending, issued, acknowledged, outdated, troubles>>
          /\ UNCHANGED <<prepared, overlapped, repeated, recovered, disabled>>
      BY <1>1 DEF Keygen, past
    <2> QED
      BY <2>2, <2>3, <2>4, <2>5, <2>6, <2>7 DEF Reads, TypeInv
  <1>2. CASE DeletePendingFails(s) \/ Abandon(s)
    <2>1. UNCHANGED <<password, slots, pending, keypair, issued, acknowledged, outdated>>
          /\ UNCHANGED <<prepared, overlapped, repeated, recovered, disabled>> /\ Goto(s, Idle)
      BY <1>2 DEF DeletePendingFails, Abandon, Done, past
    <2>2. troubles' \in 0 .. MaxTroubles
      BY <1>2, Numbers DEF DeletePendingFails, Abandon, Trouble, TypeInv
    <2>3. ~OfSetup(Idle)
      BY IdleRequest DEF OfSetup
    <2> QED
      BY <2>1, <2>2, <2>3, IdleRequest DEF Reads, TypeInv
  <1> QED
    BY <1>1, <1>2

(* A ceremony's row is dropped: the request goes on, or is over. *)
LEMMA DropReads ==
    ASSUME TypeInv, OriginInv, RootInv, NEW s \in Session,
           \/ ClearPending(s) \/ KeygenFails(s) \/ DeletePending(s)
           \/ \E mode \in {"setup", "rotation"} : PendingExpires(s, mode) \/ TooManyAttempts(s, mode)
    PROVE  Reads(s)
  <1>1. /\ UNCHANGED <<password, slots, keypair, issued, acknowledged, outdated>>
        /\ UNCHANGED <<prepared, overlapped, repeated, recovered, disabled>>
        /\ pending' \subseteq pending
    BY DEF ClearPending, KeygenFails, DeletePending, PendingExpires, TooManyAttempts, past
  <1>2. troubles' \in 0 .. MaxTroubles
    BY Numbers DEF ClearPending, KeygenFails, DeletePending, PendingExpires, TooManyAttempts,
       Trouble, TypeInv
  <1>3. ASSUME NEW r \in Reqs, Goto(s, r), Founded(r, prepared, Kept), r.op # "wrong",
               overlapped \/ disabled \/ \A k \in slots : OfSlot(r) => r.root = k.root
        PROVE  Reads(s)
    BY <1>1, <1>2, <1>3 DEF Reads, TypeInv, Founded
  <1>4. req[s] \in Reqs /\ Founded(req[s], prepared, Kept)
        /\ (overlapped \/ disabled \/ \A k \in slots : OfSlot(req[s]) => req[s].root = k.root)
    BY DEF TypeInv, OriginInv, RootInv
  <1>5. CASE ClearPending(s)
    <2> DEFINE r == [req[s] EXCEPT !.op = "store"]
    <2>1. r \in Reqs /\ r.op = "store" /\ r.row = req[s].row /\ r.pw = req[s].pw /\ r.root = req[s].root
          /\ (r.new <=> req[s].new)
      BY <1>4 DEF Reqs
    <2>2. Goto(s, r) /\ req[s].op = "clear"
      BY <1>5, Zenon DEF ClearPending
    <2> HIDE DEF r
    <2>3. (OfSetup(r) <=> OfSetup(req[s])) /\ (OfSlot(r) <=> OfSlot(req[s]))
      BY <2>1, <2>2 DEF OfSetup, OfSlot
    <2>4. Founded(r, prepared, Kept)
      BY <1>4, <2>1, <2>2, <2>3 DEF Founded
    <2> QED
      BY <1>3, <1>4, <2>1, <2>2, <2>3, <2>4
  <1>6. CASE KeygenFails(s) \/ DeletePending(s)
    BY <1>3, <1>6, IdleRequest DEF KeygenFails, DeletePending, Done
  <1>7. CASE req' = req /\ req[s].op = "none"
    <2>1. Goto(s, req[s])
      BY <1>7 DEF Goto, TypeInv
    <2> QED
      BY <1>3, <1>4, <1>7, <2>1
  <1> QED
    BY <1>5, <1>6, <1>7 DEF PendingExpires, TooManyAttempts

(* A count of sessions is a number, and no more than there are. *)
LEMMA WrongCounted ==
    ASSUME NEW T \in SUBSET Session
    PROVE  IsFiniteSet(T) /\ Cardinality(T) \in Nat /\ Cardinality(Session) \in Nat
           /\ Cardinality(T) <= Cardinality(Session) /\ MaxChallengeAttempts \in Nat /\ MaxChallengeAttempts >= 1
  <1>1. IsFiniteSet(Session) /\ MaxChallengeAttempts \in Nat \ {0}
    BY MailCryptAssumption, Zenon
  <1>2. IsFiniteSet(T) /\ Cardinality(T) <= Cardinality(Session)
    BY <1>1, FS_Subset
  <1> QED
    BY <1>1, <1>2, FS_CardinalityType

(* A request that does not come upon a wrong code adds to no count. *)
LEMMA AttemptsKept ==
    ASSUME TypeInv, NEW s \in Session, NEW r \in Reqs, Goto(s, r), r.op # "wrong", NEW n
    PROVE  /\ Wrong(n)' \subseteq Wrong(n) /\ Cardinality(Wrong(n)') <= Cardinality(Wrong(n))
           /\ Cardinality(Wrong(n)') \in Nat /\ Cardinality(Wrong(n)) \in Nat
  <1>1. Wrong(n)' \subseteq Wrong(n)
    BY OneRequest DEF Wrong
  <1>2. Wrong(n) \in SUBSET Session /\ Wrong(n)' \in SUBSET Session
    BY DEF Wrong
  <1>3. IsFiniteSet(Wrong(n))
    BY <1>2, WrongCounted
  <1>4. Cardinality(Wrong(n)') <= Cardinality(Wrong(n))
    BY <1>1, <1>3, FS_Subset
  <1> QED
    BY <1>1, <1>2, <1>4, WrongCounted

(* A step that only reads keeps the invariant. *)
LEMMA ReadsStep ==
    ASSUME IInv, NEW s \in Session, Reads(s)
    PROVE  IInv'
  <1>1. TypeInv /\ OriginInv /\ RootInv /\ AttemptsInv /\ SinglePasswordSlot /\ SlotOpensOrAcknowledged
    BY DEF IInv
  <1>2. PICK r \in Reqs :
          /\ Goto(s, r)
          /\ OfSetup(r) => r.row \in prepared' /\ r.pw # 0
          /\ OfSlot(r) => Kept
          /\ OfSetup(r) \/ OfSlot(r) => r.root # 0
          /\ r.op \in {"clear", "store", "keygen", "insert", "replace"} => r.row # 0
          /\ r.op \in {"setup", "relink"} => r.pw # 0
          /\ overlapped \/ disabled \/ \A k \in slots : OfSlot(r) => r.root = k.root
          /\ \A c \in pending' : r.op = "wrong" /\ r.row = c.id => c.attempts < MaxChallengeAttempts
    BY Zenon DEF Reads
  <1>3. /\ UNCHANGED <<password, slots, acknowledged, outdated, overlapped, repeated, recovered, disabled>>
        /\ pending' \subseteq pending /\ prepared \subseteq prepared'
        /\ RecoverySlots' = RecoverySlots /\ PasswordSlots' = PasswordSlots /\ Kept' = Kept
    BY DEF Reads, RecoverySlots, PasswordSlots, Kept
  <1>4. req' \in [Session -> Reqs] /\ req'[s] = r /\ \A t \in Session : t # s => req'[t] = req[t]
    BY <1>1, <1>2, OneRequest
  <1>5. TypeInv'
    BY <1>1, <1>3, <1>4 DEF TypeInv, Reads
  <1>6. OriginInv'
    <2>1. ASSUME NEW t \in Session
          PROVE  Founded(req'[t], prepared', Kept')
      <3>1. CASE t = s
        BY <1>2, <1>3, <1>4, <3>1 DEF Founded
      <3>2. CASE t # s
        <4>1. Founded(req[t], prepared, Kept) /\ req'[t] = req[t]
          BY <1>1, <1>4, <3>2 DEF OriginInv
        <4> QED
          BY <1>3, <4>1 DEF Founded
      <3> QED
        BY <3>1, <3>2
    <2>2. \A c \in pending' : FoundedRow(c)'
      BY <1>1, <1>3 DEF OriginInv, FoundedRow
    <2> QED
      BY <1>1, <1>3, <2>1, <2>2 DEF OriginInv
  <1>7. RootInv'
    BY <1>1, <1>2, <1>3, <1>4 DEF RootInv
  <1>8. AttemptsInv'
    <2>1. SUFFICES ASSUME NEW c \in pending'
                   PROVE  c.attempts + Cardinality(Wrong(c.id)') <= MaxChallengeAttempts + Cardinality(Session) - 1
      BY DEF AttemptsInv
    <2>2. c.attempts \in Nat
      BY <1>1, <1>3 DEF TypeInv, Ceremonies
    <2>3. Wrong(c.id) \in SUBSET Session /\ Wrong(c.id)' \in SUBSET Session
      BY DEF Wrong
    <2>4. c.attempts + Cardinality(Wrong(c.id)) <= MaxChallengeAttempts + Cardinality(Session) - 1
      BY <1>1, <1>3 DEF AttemptsInv
    <2>5. CASE r.op = "wrong" /\ r.row = c.id
      BY <1>2, <2>2, <2>3, <2>5, WrongCounted
    <2>6. CASE ~(r.op = "wrong" /\ r.row = c.id)
      <3>1. Wrong(c.id)' \subseteq Wrong(c.id)
        BY <1>4, <2>6 DEF Wrong
      <3>2. Cardinality(Wrong(c.id)') <= Cardinality(Wrong(c.id))
        BY <2>3, <3>1, WrongCounted, FS_Subset
      <3> QED
        BY <2>2, <2>3, <2>4, <3>2, WrongCounted
    <2> QED
      BY <2>5, <2>6
  <1>9. SinglePasswordSlot' /\ SlotOpensOrAcknowledged'
    BY <1>1, <1>3 DEF SinglePasswordSlot, SlotOpensOrAcknowledged
  <1> QED
    BY <1>5, <1>6, <1>7, <1>8, <1>9 DEF IInv

(* storePendingSetup puts in the row of the request, with no attempts. *)
LEMMA StoreStep ==
    ASSUME IInv, NEW s \in Session, StorePending(s)
    PROVE  IInv'
  <1>1. TypeInv /\ OriginInv /\ RootInv /\ AttemptsInv /\ SinglePasswordSlot /\ SlotOpensOrAcknowledged
    BY DEF IInv
  <1>2. /\ UNCHANGED <<password, slots, keypair, issued, acknowledged, outdated, troubles>>
        /\ UNCHANGED <<prepared, overlapped, repeated, recovered, disabled>>
        /\ RecoverySlots' = RecoverySlots /\ PasswordSlots' = PasswordSlots /\ Kept' = Kept
    BY DEF StorePending, past, RecoverySlots, PasswordSlots, Kept
  <1> DEFINE n == [id |-> req[s].row, mode |-> IF req[s].new THEN "setup" ELSE "rotation",
                   pw |-> req[s].pw, root |-> req[s].root, attempts |-> 0]
  <1>3. pending' = pending \cup {n} /\ Goto(s, Idle) /\ req[s].op = "store"
    BY DEF StorePending, Done
  <1>4. req' \in [Session -> Reqs] /\ req'[s] = Idle /\ \A t \in Session : t # s => req'[t] = req[t]
    BY <1>1, <1>3, IdleRequest, OneRequest
  <1>5. req[s] \in Reqs /\ Founded(req[s], prepared, Kept)
    BY <1>1 DEF TypeInv, OriginInv
  <1>6. req[s].root # 0 /\ req[s].row # 0
        /\ (IF req[s].new THEN OfSetup(req[s]) ELSE OfSlot(req[s]))
    BY <1>3, <1>5 DEF Founded, OfSetup, OfSlot
  <1>7. n \in Ceremonies /\ n.id = req[s].row /\ n.root = req[s].root /\ n.pw = req[s].pw /\ n.attempts = 0
        /\ n.mode = (IF req[s].new THEN "setup" ELSE "rotation")
    <2>1. req[s].row \in Number /\ req[s].root \in Number /\ req[s].pw \in Passwords \cup {0}
      BY <1>5, <1>6 DEF Reqs
    <2> QED
      BY <2>1 DEF Ceremonies
  <1> HIDE DEF n
  <1>8. FoundedRow(n)
    BY <1>5, <1>6, <1>7 DEF Founded, FoundedRow
  <1>9. TypeInv'
    BY <1>1, <1>2, <1>3, <1>4, <1>7 DEF TypeInv
  <1>10. OriginInv'
    <2>1. ASSUME NEW t \in Session
          PROVE  Founded(req'[t], prepared', Kept')
      <3>1. Founded(req'[t], prepared, Kept)
        BY <1>1, <1>4, IdleRequest DEF OriginInv
      <3> QED
        BY <1>2, <3>1 DEF Founded
    <2>2. \A c \in pending' : FoundedRow(c)'
      BY <1>1, <1>2, <1>3, <1>8 DEF OriginInv, FoundedRow
    <2> QED
      BY <1>1, <1>2, <2>1, <2>2 DEF OriginInv
  <1>11. RootInv'
    <2>1. overlapped \/ disabled \/ \A k \in slots : n.mode = "rotation" => n.root = k.root
      BY <1>1, <1>6, <1>7 DEF RootInv
    <2> QED
      BY <1>1, <1>2, <1>3, <1>4, <2>1, IdleRequest DEF RootInv
  <1>12. AttemptsInv'
    <2>1. SUFFICES ASSUME NEW c \in pending'
                   PROVE  c.attempts + Cardinality(Wrong(c.id)') <= MaxChallengeAttempts + Cardinality(Session) - 1
      BY DEF AttemptsInv
    <2>2. CASE c = n
      <3>1. Wrong(c.id)' \in SUBSET Session
        BY DEF Wrong
      <3> QED
        BY <1>7, <2>2, <3>1, WrongCounted
    <2>3. CASE c \in pending
      <3>1. c.attempts + Cardinality(Wrong(c.id)) <= MaxChallengeAttempts + Cardinality(Session) - 1
        BY <1>1, <2>3 DEF AttemptsInv
      <3>2. Cardinality(Wrong(c.id)') <= Cardinality(Wrong(c.id))
            /\ Cardinality(Wrong(c.id)') \in Nat /\ Cardinality(Wrong(c.id)) \in Nat
        BY <1>1, <1>3, IdleRequest, AttemptsKept
      <3>3. c.attempts \in Nat /\ MaxChallengeAttempts \in Nat /\ Cardinality(Session) \in Nat
        BY <1>1, <2>3, WrongCounted DEF TypeInv, Ceremonies
      <3> QED
        BY <3>1, <3>2, <3>3
    <2> QED
      BY <1>3, <2>2, <2>3
  <1>13. SinglePasswordSlot' /\ SlotOpensOrAcknowledged'
    BY <1>1, <1>2 DEF SinglePasswordSlot, SlotOpensOrAcknowledged
  <1> QED
    BY <1>9, <1>10, <1>11, <1>12, <1>13 DEF IInv

(* AddAttempts counts one wrong code, and one request fewer is about to. *)
LEMMA CountStep ==
    ASSUME IInv, NEW s \in Session, CountAttempt(s)
    PROVE  IInv'
  <1>1. TypeInv /\ OriginInv /\ RootInv /\ AttemptsInv /\ SinglePasswordSlot /\ SlotOpensOrAcknowledged
    BY DEF IInv
  <1>2. /\ UNCHANGED <<password, slots, keypair, issued, acknowledged, outdated, troubles>>
        /\ UNCHANGED <<prepared, overlapped, repeated, recovered, disabled>>
        /\ RecoverySlots' = RecoverySlots /\ PasswordSlots' = PasswordSlots /\ Kept' = Kept
    BY DEF CountAttempt, past, RecoverySlots, PasswordSlots, Kept
  <1>3. /\ pending' = {IF c.id = req[s].row THEN [c EXCEPT !.attempts = @ + 1] ELSE c : c \in pending}
        /\ Goto(s, Idle) /\ req[s].op = "wrong"
    BY DEF CountAttempt, Done
  <1>4. req' \in [Session -> Reqs] /\ req'[s] = Idle /\ \A t \in Session : t # s => req'[t] = req[t]
    BY <1>1, <1>3, IdleRequest, OneRequest
  <1>5. ASSUME NEW c \in pending'
        PROVE  \E d \in pending :
                  /\ c \in Ceremonies /\ c.id = d.id /\ c.mode = d.mode /\ c.pw = d.pw /\ c.root = d.root
                  /\ d.attempts \in Nat
                  /\ c.attempts = (IF d.id = req[s].row THEN d.attempts + 1 ELSE d.attempts)
    <2>1. PICK d \in pending : c = IF d.id = req[s].row THEN [d EXCEPT !.attempts = @ + 1] ELSE d
      BY <1>3
    <2>2. d \in Ceremonies
      BY <1>1 DEF TypeInv
    <2> QED
      BY <2>1, <2>2 DEF Ceremonies
  <1>9. TypeInv'
    BY <1>1, <1>2, <1>4, <1>5 DEF TypeInv
  <1>10. OriginInv'
    <2>1. ASSUME NEW t \in Session
          PROVE  Founded(req'[t], prepared', Kept')
      <3>1. Founded(req'[t], prepared, Kept)
        BY <1>1, <1>4, IdleRequest DEF OriginInv
      <3> QED
        BY <1>2, <3>1 DEF Founded
    <2>2. \A c \in pending' : FoundedRow(c)'
      BY <1>1, <1>2, <1>5 DEF OriginInv, FoundedRow
    <2> QED
      BY <1>1, <1>2, <2>1, <2>2 DEF OriginInv
  <1>11. RootInv'
    BY <1>1, <1>2, <1>4, <1>5, IdleRequest DEF RootInv
  <1>12. AttemptsInv'
    <2>1. SUFFICES ASSUME NEW c \in pending'
                   PROVE  c.attempts + Cardinality(Wrong(c.id)') <= MaxChallengeAttempts + Cardinality(Session) - 1
      BY DEF AttemptsInv
    <2>2. PICK d \in pending :
             /\ c.id = d.id /\ d.attempts \in Nat
             /\ c.attempts = (IF d.id = req[s].row THEN d.attempts + 1 ELSE d.attempts)
      BY <1>5
    <2>3. d.attempts + Cardinality(Wrong(d.id)) <= MaxChallengeAttempts + Cardinality(Session) - 1
      BY <1>1 DEF AttemptsInv
    <2>4. /\ Wrong(d.id)' \subseteq Wrong(d.id) /\ Cardinality(Wrong(d.id)') <= Cardinality(Wrong(d.id))
          /\ Cardinality(Wrong(d.id)') \in Nat /\ Cardinality(Wrong(d.id)) \in Nat
      BY <1>1, <1>3, IdleRequest, AttemptsKept
    <2>5. MaxChallengeAttempts \in Nat /\ Cardinality(Session) \in Nat
      BY WrongCounted
    <2>6. CASE d.id # req[s].row
      BY <2>2, <2>3, <2>4, <2>5, <2>6
    <2>7. CASE d.id = req[s].row
      <3>1. Wrong(d.id)' = Wrong(d.id) \ {s} /\ s \in Wrong(d.id)
        BY <1>3, <1>4, <2>7, IdleRequest DEF Wrong
      <3>2. Wrong(d.id) \in SUBSET Session
        BY DEF Wrong
      <3>3. Cardinality(Wrong(d.id)') = Cardinality(Wrong(d.id)) - 1
        BY <3>1, <3>2, WrongCounted, FS_RemoveElement
      <3> QED
        BY <2>2, <2>3, <2>4, <2>5, <2>7, <3>3
    <2> QED
      BY <2>6, <2>7
  <1>13. SinglePasswordSlot' /\ SlotOpensOrAcknowledged'
    BY <1>1, <1>2 DEF SinglePasswordSlot, SlotOpensOrAcknowledged
  <1> QED
    BY <1>9, <1>10, <1>11, <1>12, <1>13 DEF IInv

(* A step of request s that changes the slots, or the password over them:  *)
(* the request is done with the store, recovery codes stay in service, and *)
(* the slots wrap the root key they wrapped, or the first one.             *)
Writes(s) ==
    /\ UNCHANGED <<pending, keypair, issued, prepared, troubles, disabled>>
    /\ \E r \in Reqs : Goto(s, r) /\ r.op \in {"none", "finish"}
    /\ password' \in Passwords
    /\ slots' \subseteq Slots /\ IsFiniteSet(slots')
    /\ acknowledged' \in BOOLEAN /\ outdated' \in BOOLEAN
    /\ overlapped' \in BOOLEAN /\ repeated' \in BOOLEAN /\ recovered' \in BOOLEAN
    /\ Kept => Kept'
    /\ slots' # {} => Kept'
    /\ \/ overlapped' \/ disabled'
       \/ ~overlapped /\ \A k \in slots' : \E j \in slots : j.root = k.root
       \/ slots = {} /\ \A k, j \in slots' : j.root = k.root

(* Such a step keeps the invariant, if it keeps what is said of the        *)
(* password slot.                                                          *)
LEMMA WritesStep ==
    ASSUME IInv, NEW s \in Session, Writes(s), SinglePasswordSlot', SlotOpensOrAcknowledged'
    PROVE  IInv'
  <1>1. TypeInv /\ OriginInv /\ RootInv /\ AttemptsInv
    BY DEF IInv
  <1>2. PICK r \in Reqs : Goto(s, r) /\ r.op \in {"none", "finish"}
    BY DEF Writes
  <1>3. req' \in [Session -> Reqs] /\ req'[s] = r /\ \A t \in Session : t # s => req'[t] = req[t]
    BY <1>1, <1>2, OneRequest
  <1>4. ~OfSetup(r) /\ ~OfSlot(r)
    BY <1>2 DEF OfSetup, OfSlot
  <1>5. pending' = pending /\ prepared' = prepared
    BY DEF Writes
  <1>6. TypeInv'
    BY <1>1, <1>3 DEF TypeInv, Writes
  <1>7. OriginInv'
    <2>1. ASSUME NEW t \in Session
          PROVE  Founded(req'[t], prepared', Kept')
      <3>1. CASE t = s
        BY <1>2, <1>3, <1>4, <3>1 DEF Founded
      <3>2. CASE t # s
        <4>1. Founded(req[t], prepared, Kept) /\ req'[t] = req[t]
          BY <1>1, <1>3, <3>2 DEF OriginInv
        <4> QED
          BY <1>5, <4>1 DEF Founded, Writes
      <3> QED
        BY <3>1, <3>2
    <2>2. \A c \in pending' : FoundedRow(c)'
      BY <1>1, <1>5 DEF OriginInv, FoundedRow, Writes
    <2> QED
      BY <2>1, <2>2 DEF OriginInv, Writes
  <1>8. RootInv'
    <2>1. CASE overlapped' \/ disabled'
      BY <2>1 DEF RootInv
    <2> SUFFICES ASSUME ~disabled'
                 PROVE  RootInv'
      BY <2>1
    <2>0. ~disabled
      BY DEF Writes
    <2>2. CASE ~overlapped /\ \A k \in slots' : \E j \in slots : j.root = k.root
      <3>1. ASSUME NEW k \in slots'
            PROVE  /\ \A k2 \in slots' : k2.root = k.root
                   /\ \A t \in Session : OfSlot(req'[t]) => req'[t].root = k.root
                   /\ \A c \in pending' : c.mode = "rotation" => c.root = k.root
        <4>1. PICK j \in slots : j.root = k.root
          BY <2>2
        <4>2. /\ \A k2 \in slots : k2.root = j.root
              /\ \A t \in Session : OfSlot(req[t]) => req[t].root = j.root
              /\ \A c \in pending : c.mode = "rotation" => c.root = j.root
          BY <1>1, <2>0, <2>2 DEF RootInv
        <4> QED
          BY <1>3, <1>4, <1>5, <2>2, <4>1, <4>2
      <3> QED
        BY <3>1 DEF RootInv
    <2>3. CASE slots = {} /\ \A k, j \in slots' : j.root = k.root
      <3>1. ~Kept
        BY <2>0, <2>3 DEF RecoverySlots, Kept
      <3>2. \A t \in Session : ~OfSlot(req[t])
        BY <1>1, <3>1 DEF OriginInv, Founded
      <3>3. \A c \in pending : c.mode # "rotation"
        BY <1>1, <3>1 DEF OriginInv, FoundedRow
      <3> QED
        BY <1>3, <1>4, <1>5, <2>3, <3>2, <3>3 DEF RootInv
    <2> QED
      BY <2>1, <2>2, <2>3 DEF Writes
  <1>9. AttemptsInv'
    <2>1. SUFFICES ASSUME NEW c \in pending
                   PROVE  c.attempts + Cardinality(Wrong(c.id)') <= MaxChallengeAttempts + Cardinality(Session) - 1
      BY <1>5 DEF AttemptsInv
    <2>2. c.attempts + Cardinality(Wrong(c.id)) <= MaxChallengeAttempts + Cardinality(Session) - 1
      BY <1>1 DEF AttemptsInv
    <2>3. Cardinality(Wrong(c.id)') <= Cardinality(Wrong(c.id))
          /\ Cardinality(Wrong(c.id)') \in Nat /\ Cardinality(Wrong(c.id)) \in Nat
      BY <1>1, <1>2, AttemptsKept
    <2>4. c.attempts \in Nat /\ MaxChallengeAttempts \in Nat /\ Cardinality(Session) \in Nat
      BY <1>1, WrongCounted DEF TypeInv, Ceremonies
    <2> QED
      BY <2>2, <2>3, <2>4
  <1> QED
    BY <1>6, <1>7, <1>8, <1>9 DEF IInv

(* What the constructors of slots make. *)
LEMMA SlotFields ==
    ASSUME NEW n \in Nat, NEW x \in Nat \ {0}, NEW root \in Number
    PROVE  /\ PasswordSlot(n, x, root) \in Slots /\ PasswordSlot(n, x, root).kind = "password"
           /\ PasswordSlot(n, x, root).secret = x /\ PasswordSlot(n, x, root).root = root
           /\ RecoverySlot(n, x, root) \in Slots /\ RecoverySlot(n, x, root).kind = "recovery"
           /\ RecoverySlot(n, x, root).root = root
           /\ PRFSlot(root) \in Slots /\ PRFSlot(root).kind = "passkey_prf" /\ PRFSlot(root).root = root
  BY DEF PasswordSlot, RecoverySlot, PRFSlot, Slots

(* A slot is replaced by one for the root key that was unwrapped. *)
LEMMA Replaced ==
    ASSUME IInv, NEW s \in Session, OfSlot(req[s]), NEW D, NEW n \in Slots, n.root = req[s].root,
           slots' = (slots \ D) \cup {n}, UNCHANGED <<overlapped, disabled>>
    PROVE  /\ slots' \subseteq Slots /\ IsFiniteSet(slots')
           /\ Kept
           /\ \/ overlapped' \/ disabled'
              \/ ~overlapped /\ \A k \in slots' : \E j \in slots : j.root = k.root
  <1>1. TypeInv /\ OriginInv /\ RootInv
    BY DEF IInv
  <1>2. IsFiniteSet(slots \ D)
    BY <1>1, FS_Difference DEF TypeInv
  <1>3. IsFiniteSet(slots')
    BY <1>2, FS_AddElement
  <1>4. Kept
    BY <1>1 DEF OriginInv, Founded
  <1>5. ASSUME ~overlapped, ~disabled
        PROVE  \A k \in slots' : \E j \in slots : j.root = k.root
    <2>1. PICK k \in slots : TRUE
      BY <1>4, <1>5 DEF Kept, RecoverySlots
    <2>2. n.root = k.root
      BY <1>1, <1>5, <2>1 DEF RootInv
    <2> QED
      BY <2>1, <2>2
  <1>6. slots' \subseteq Slots
    BY <1>1 DEF TypeInv
  <1> QED
    BY <1>3, <1>4, <1>5, <1>6

(* A relink, by recovery code or by passkey. *)
LEMMA RelinkStep ==
    ASSUME IInv, NEW s \in Session, RelinkReplace(s)
    PROVE  IInv'
  <1> DEFINE n == PasswordSlot(1, req[s].pw, req[s].root)
  <1>1. TypeInv /\ OriginInv /\ req[s].op = "relink" /\ req[s] \in Reqs
    BY DEF IInv, TypeInv, RelinkReplace
  <1>2. OfSlot(req[s]) /\ req[s].pw \in Nat \ {0} /\ req[s].root \in Number
    <2>1. OfSlot(req[s])
      BY <1>1 DEF OfSlot
    <2>2. req[s].pw # 0 /\ req[s].root # 0
      BY <1>1, <2>1 DEF OriginInv, Founded
    <2> QED
      BY <1>1, <2>1, <2>2, Numbers DEF Reqs
  <1>3. n \in Slots /\ n.kind = "password" /\ n.secret = req[s].pw /\ n.root = req[s].root
    BY <1>2, SlotFields
  <1>4. slots' = (slots \ PasswordSlots) \cup {n}
    BY DEF RelinkReplace, WithPasswordSlot
  <1> HIDE DEF n
  <1>5. /\ acknowledged' = FALSE /\ recovered' = FALSE /\ outdated' = (req[s].pw # password)
        /\ Goto(s, Idle)
        /\ UNCHANGED <<password, pending, keypair, issued, troubles, prepared, overlapped, repeated, disabled>>
    BY DEF RelinkReplace, Done, past
  <1>6. RecoverySlots' = RecoverySlots /\ PasswordSlots' = {n} /\ Kept' = Kept
    BY <1>3, <1>4, <1>5 DEF RecoverySlots, PasswordSlots, Kept
  <1>7. Writes(s)
    BY <1>1, <1>2, <1>3, <1>4, <1>5, <1>6, Replaced, IdleRequest DEF Writes, TypeInv
  <1>8. SinglePasswordSlot' /\ SlotOpensOrAcknowledged'
    BY <1>3, <1>5, <1>6 DEF SinglePasswordSlot, SlotOpensOrAcknowledged
  <1> QED
    BY <1>7, <1>8, WritesStep

(* ReplaceRecoverySlots: the old codes go as the new ones come. *)
LEMMA ReplaceStep ==
    ASSUME IInv, NEW s \in Session, ReplaceRecovery(s)
    PROVE  IInv'
  <1> DEFINE n == RecoverySlot(1, req[s].row, req[s].root)
             r == [req[s] EXCEPT !.op = "finish"]
  <1>1. TypeInv /\ OriginInv /\ req[s].op = "replace" /\ req[s] \in Reqs
    BY DEF IInv, TypeInv, ReplaceRecovery
  <1>2. OfSlot(req[s]) /\ req[s].row \in Nat \ {0} /\ req[s].root \in Number
    <2>1. OfSlot(req[s])
      BY <1>1 DEF OfSlot
    <2>2. req[s].row # 0 /\ req[s].root # 0
      BY <1>1, <2>1 DEF OriginInv, Founded
    <2> QED
      BY <1>1, <2>1, <2>2, Numbers DEF Reqs
  <1>3. n \in Slots /\ n.kind = "recovery" /\ n.root = req[s].root
    BY <1>2, SlotFields
  <1>4. slots' = (slots \ RecoverySlots) \cup {n}
    BY DEF ReplaceRecovery
  <1>5. r \in Reqs /\ r.op = "finish"
    BY <1>1 DEF Reqs
  <1>6. Goto(s, r)
    BY Zenon DEF ReplaceRecovery
  <1> HIDE DEF n, r
  <1>7. UNCHANGED <<password, pending, keypair, issued, acknowledged, outdated, troubles>>
        /\ UNCHANGED <<prepared, overlapped, repeated, recovered, disabled>>
    BY DEF ReplaceRecovery, past
  <1>8. RecoverySlots' = {n} /\ PasswordSlots' = PasswordSlots /\ Kept'
    BY <1>3, <1>4 DEF RecoverySlots, PasswordSlots, Kept
  <1>9. Writes(s)
    BY <1>1, <1>2, <1>3, <1>4, <1>5, <1>6, <1>7, <1>8, Replaced DEF Writes, TypeInv
  <1>10. SinglePasswordSlot' /\ SlotOpensOrAcknowledged'
    BY <1>7, <1>8 DEF IInv, SinglePasswordSlot, SlotOpensOrAcknowledged
  <1> QED
    BY <1>9, <1>10, WritesStep

(* The passkey's slot comes, is replaced or goes. *)
LEMMA PRFStep ==
    ASSUME IInv, NEW s \in Session, InsertPRFSlot(s) \/ DeletePRFSlot(s)
    PROVE  IInv'
  <1>1. TypeInv /\ OriginInv /\ req[s] \in Reqs
    BY DEF IInv, TypeInv
  <1>2. UNCHANGED <<password, pending, keypair, issued, acknowledged, outdated, troubles>>
        /\ UNCHANGED <<prepared, overlapped, repeated, recovered, disabled>>
    BY DEF InsertPRFSlot, DeletePRFSlot, past
  <1>3. PasswordSlots' = PasswordSlots /\ Writes(s)
    <2>1. CASE InsertPRFSlot(s)
      <3> DEFINE n == PRFSlot(req[s].root)
      <3>1. OfSlot(req[s])
        BY <2>1 DEF OfSlot, InsertPRFSlot
      <3>2. req[s].root \in Number
        BY <1>1, <3>1 DEF OriginInv, Founded, Reqs
      <3>3. n \in Slots /\ n.kind = "passkey_prf" /\ n.root = req[s].root
        BY <3>2, Numbers, SlotFields
      <3>4. slots' = (slots \ PRFSlots) \cup {n} /\ Goto(s, Idle)
        BY <2>1 DEF InsertPRFSlot, Done
      <3> HIDE DEF n
      <3>5. PasswordSlots' = PasswordSlots /\ Kept' = Kept
        BY <1>2, <3>3, <3>4 DEF RecoverySlots, PasswordSlots, PRFSlots, Kept
      <3> QED
        BY <1>1, <1>2, <3>1, <3>3, <3>4, <3>5, Replaced, IdleRequest DEF Writes, TypeInv
    <2>2. CASE DeletePRFSlot(s)
      <3>1. slots' = slots \ PRFSlots /\ req' = req /\ req[s].op = "none"
        BY <2>2 DEF DeletePRFSlot
      <3>2. PasswordSlots' = PasswordSlots /\ Kept' = Kept
        BY <1>2, <3>1 DEF RecoverySlots, PasswordSlots, PRFSlots, Kept
      <3>3. IsFiniteSet(slots')
        BY <1>1, <3>1, FS_Difference DEF TypeInv
      <3>4. Goto(s, req[s])
        BY <1>1, <3>1 DEF Goto, TypeInv
      <3>5. slots' # {} => Kept
        BY <1>1, <3>1 DEF OriginInv
      <3>6. overlapped' \/ (~overlapped /\ \A k \in slots' : \E j \in slots : j.root = k.root)
        BY <1>1, <1>2, <3>1 DEF TypeInv
      <3> QED
        BY <1>1, <1>2, <3>1, <3>2, <3>3, <3>4, <3>5, <3>6 DEF Writes, TypeInv
    <2> QED
      BY <2>1, <2>2
  <1>4. SinglePasswordSlot' /\ SlotOpensOrAcknowledged'
    BY <1>2, <1>3 DEF IInv, SinglePasswordSlot, SlotOpensOrAcknowledged
  <1> QED
    BY <1>3, <1>4, WritesStep

(* A password change, with the slot or over it, and an admin's reset. *)
LEMMA PasswordStep ==
    ASSUME IInv, NEW s \in Session, ChangeCommits(s) \/ ResetCommits(s)
    PROVE  IInv'
  <1>1. TypeInv /\ OriginInv /\ RootInv /\ req[s] \in Reqs
    BY DEF IInv, TypeInv
  <1>2. /\ password' = password + 1 /\ Goto(s, Idle)
        /\ UNCHANGED <<pending, keypair, issued, troubles, prepared, overlapped, repeated, disabled>>
    BY DEF ChangeCommits, ResetCommits, Done, past
  <1>3. password' \in Passwords /\ password' \in Nat \ {0}
    BY <1>1, <1>2, Numbers DEF ChangeCommits, ResetCommits, TypeInv
  <1>4. acknowledged' \in BOOLEAN /\ outdated' \in BOOLEAN /\ overlapped' \in BOOLEAN /\ repeated' \in BOOLEAN
        /\ recovered' \in BOOLEAN
    BY <1>1, <1>2 DEF ChangeCommits, ResetCommits, TypeInv, Reqs, past
  <1>5. CASE ChangeCommits(s) /\ req[s].new
    <2> DEFINE n == PasswordSlot(1, password + 1, req[s].root)
    <2>1. OfSlot(req[s])
      BY <1>5 DEF OfSlot, ChangeCommits
    <2>2. req[s].root \in Number
      BY <1>1, <2>1 DEF OriginInv, Founded, Reqs
    <2>3. n \in Slots /\ n.kind = "password" /\ n.secret = password' /\ n.root = req[s].root
      BY <1>2, <1>3, <2>2, SlotFields
    <2>4. slots' = (slots \ PasswordSlots) \cup {n}
      BY <1>5 DEF ChangeCommits, WithPasswordSlot
    <2> HIDE DEF n
    <2>5. PasswordSlots' = {n} /\ Kept' = Kept
      BY <1>2, <2>3, <2>4 DEF RecoverySlots, PasswordSlots, Kept
    <2>6. Writes(s)
      BY <1>2, <1>3, <1>4, <2>1, <2>3, <2>4, <2>5, Replaced, IdleRequest DEF Writes
    <2>7. SinglePasswordSlot' /\ SlotOpensOrAcknowledged'
      BY <2>3, <2>5 DEF SinglePasswordSlot, SlotOpensOrAcknowledged
    <2> QED
      BY <2>6, <2>7, WritesStep
  <1>6. CASE ~(ChangeCommits(s) /\ req[s].new)
    <2>1. slots' = slots /\ PasswordSlots' = PasswordSlots /\ Kept' = Kept
      BY <1>2, <1>6 DEF ChangeCommits, ResetCommits, RecoverySlots, PasswordSlots, Kept
    <2>2. overlapped' \/ (~overlapped /\ \A k \in slots' : \E j \in slots : j.root = k.root)
      BY <1>1, <1>2, <2>1 DEF TypeInv
    <2>3. Writes(s)
      BY <1>1, <1>2, <1>3, <1>4, <2>1, <2>2, IdleRequest DEF Writes, TypeInv, OriginInv
    <2>4. acknowledged' \/ outdated' \/ PasswordSlots = {}
      BY <1>1, <1>6 DEF ChangeCommits, ResetCommits, Reqs
    <2>5. SinglePasswordSlot' /\ SlotOpensOrAcknowledged'
      BY <1>2, <2>1, <2>4 DEF IInv, SinglePasswordSlot, SlotOpensOrAcknowledged
    <2> QED
      BY <2>3, <2>5, WritesStep
  <1> QED
    BY <1>5, <1>6

(* InsertSlots: whatever is there, its commit is either the first, or of a *)
(* setup that was committed before, or the second of two.                  *)
LEMMA InsertStep ==
    ASSUME IInv, NEW s \in Session, InsertSlots(s)
    PROVE  IInv'
  <1> DEFINE p == PasswordSlot(Cardinality(PasswordSlots) + 1, req[s].pw, req[s].root)
             c == RecoverySlot(Cardinality(RecoverySlots) + 1, req[s].row, req[s].root)
             r == [req[s] EXCEPT !.op = "finish"]
  <1>1. TypeInv /\ OriginInv /\ RootInv /\ req[s] \in Reqs /\ req[s].op = "insert"
    BY DEF IInv, TypeInv, InsertSlots
  <1>2. /\ req[s].row \in prepared /\ req[s].row \in Nat \ {0}
        /\ req[s].pw \in Nat \ {0} /\ req[s].root \in Number
    <2>1. OfSetup(req[s])
      BY <1>1 DEF OfSetup
    <2>2. req[s].row \in prepared /\ req[s].row # 0 /\ req[s].pw # 0 /\ req[s].root # 0
      BY <1>1, <2>1 DEF OriginInv, Founded
    <2> QED
      BY <1>1, <2>2, Numbers DEF Reqs
  <1>3. Cardinality(PasswordSlots) + 1 \in Nat /\ Cardinality(RecoverySlots) + 1 \in Nat
    <2>1. PasswordSlots \subseteq slots /\ RecoverySlots \subseteq slots /\ IsFiniteSet(slots)
      BY <1>1 DEF PasswordSlots, RecoverySlots, TypeInv
    <2>2. IsFiniteSet(PasswordSlots) /\ IsFiniteSet(RecoverySlots)
      BY <2>1, FS_Subset
    <2> QED
      BY <2>2, FS_CardinalityType
  <1>4. /\ p \in Slots /\ p.kind = "password" /\ p.secret = req[s].pw /\ p.root = req[s].root
        /\ c \in Slots /\ c.kind = "recovery" /\ c.root = req[s].root
    BY <1>2, <1>3, SlotFields
  <1>5. slots' = slots \cup {p, c}
    BY DEF InsertSlots
  <1>6. r \in Reqs /\ r.op = "finish"
    BY <1>1 DEF Reqs
  <1>7. Goto(s, r)
    BY Zenon DEF InsertSlots
  <1> HIDE DEF p, c, r
  <1>8. /\ UNCHANGED <<password, pending, keypair, issued, acknowledged, prepared, troubles>>
        /\ UNCHANGED <<recovered, disabled>>
        /\ outdated' = (outdated \/ req[s].pw # password)
        /\ overlapped' = (overlapped \/ \E k \in slots : k.root # req[s].root)
        /\ repeated' = (repeated \/ \E k \in PasswordSlots : k.root = req[s].root)
    BY <1>2 DEF InsertSlots
  <1>9. PasswordSlots' = PasswordSlots \cup {p} /\ Kept'
    BY <1>4, <1>5 DEF PasswordSlots, RecoverySlots, Kept
  <1>10. slots' \subseteq Slots /\ IsFiniteSet(slots')
    <2>1. IsFiniteSet(slots \cup {p})
      BY <1>1, FS_AddElement DEF TypeInv
    <2>2. IsFiniteSet((slots \cup {p}) \cup {c})
      BY <2>1, FS_AddElement
    <2>3. slots' = (slots \cup {p}) \cup {c}
      BY <1>5
    <2>4. IsFiniteSet(slots')
      BY <2>2, <2>3
    <2> QED
      BY <1>1, <1>4, <1>5, <2>4 DEF TypeInv
  <1>11. \/ overlapped'
         \/ ~overlapped /\ \A k \in slots' : \E j \in slots : j.root = k.root
         \/ slots = {} /\ \A k, j \in slots' : j.root = k.root
    <2>1. CASE slots = {}
      BY <1>4, <1>5, <2>1
    <2>2. CASE slots # {} /\ ~overlapped'
      <3>1. PICK k \in slots : TRUE
        BY <2>2
      <3>2. ~overlapped /\ k.root = req[s].root
        BY <1>8, <2>2, <3>1
      <3> QED
        BY <1>4, <1>5, <3>1, <3>2
    <2> QED
      BY <2>1, <2>2
  <1>12. outdated' \in BOOLEAN /\ overlapped' \in BOOLEAN /\ repeated' \in BOOLEAN
    BY <1>1, <1>8, Zenon DEF TypeInv
  <1>13. Writes(s)
    BY <1>1, <1>6, <1>7, <1>8, <1>9, <1>10, <1>11, <1>12 DEF Writes, TypeInv
  <1>14. SinglePasswordSlot'
    <2>1. CASE PasswordSlots = {}
      BY <1>9, <2>1 DEF SinglePasswordSlot
    <2>2. CASE PasswordSlots # {}
      <3>1. PICK k \in PasswordSlots : TRUE
        BY <2>2
      <3>2. k \in slots
        BY <3>1 DEF PasswordSlots
      <3>3. overlapped' \/ repeated'
        BY <1>8, <3>1, <3>2
      <3> QED
        BY <3>3 DEF SinglePasswordSlot
    <2> QED
      BY <2>1, <2>2
  <1>15. SlotOpensOrAcknowledged'
    BY <1>4, <1>8, <1>9 DEF IInv, SlotOpensOrAcknowledged
  <1> QED
    BY <1>13, <1>14, <1>15, WritesStep

(* boxctl sets the password over the slots, or removes them all: a request *)
(* or a rotation that holds their key is then on record.                   *)
LEMMA BoxctlStep ==
    ASSUME IInv, SetPassword \/ EncryptionDisable
    PROVE  IInv'
  <1>1. TypeInv /\ OriginInv /\ RootInv /\ AttemptsInv /\ SinglePasswordSlot /\ SlotOpensOrAcknowledged
    BY DEF IInv
  <1>2. UNCHANGED <<pending, keypair, req, issued, prepared, overlapped, repeated>>
        /\ troubles' \in 0 .. MaxTroubles
    BY <1>1, Numbers DEF SetPassword, EncryptionDisable, Trouble, TypeInv
  <1>3. AttemptsInv'
    BY <1>1, <1>2 DEF AttemptsInv, Wrong
  <1>4. CASE SetPassword
    <2>1. /\ UNCHANGED <<slots, acknowledged, outdated, disabled>> /\ password' = password + 1
          /\ recovered' = (recovered \/ PasswordSlots # {})
      BY <1>4 DEF SetPassword
    <2>2. password' \in Passwords
      BY <1>1, <1>4, Numbers DEF SetPassword, TypeInv
    <2>3. PasswordSlots' = PasswordSlots /\ Kept' = Kept
      BY <2>1 DEF PasswordSlots, RecoverySlots, Kept
    <2>4. TypeInv'
      <3>1. recovered' \in BOOLEAN
        BY <1>1, <2>1, Zenon DEF TypeInv
      <3> QED
        BY <1>1, <1>2, <2>1, <2>2, <3>1 DEF TypeInv
    <2>5. OriginInv'
      BY <1>1, <1>2, <2>1, <2>3 DEF OriginInv, FoundedRow, Founded
    <2>6. RootInv'
      BY <1>1, <1>2, <2>1 DEF RootInv
    <2>7. SinglePasswordSlot' /\ SlotOpensOrAcknowledged'
      BY <1>1, <1>2, <2>1, <2>3 DEF SinglePasswordSlot, SlotOpensOrAcknowledged
    <2> QED
      BY <1>3, <2>4, <2>5, <2>6, <2>7 DEF IInv
  <1>5. CASE EncryptionDisable
    <2>1. /\ slots' = {} /\ password' = password
          /\ acknowledged' = FALSE /\ outdated' = FALSE /\ recovered' = FALSE
          /\ disabled' = (\/ disabled \/ (\E s \in Session : OfSlot(req[s]))
                          \/ \E c \in pending : c.mode = "rotation")
      BY <1>5 DEF EncryptionDisable
    <2>2. /\ disabled' \in BOOLEAN
          /\ \/ Kept'
             \/ /\ \A s \in Session : ~OfSlot(req[s])
                /\ \A c \in pending : c.mode # "rotation"
      BY <1>1, <2>1, Zenon DEF TypeInv, Kept
    <2>3. PasswordSlots' = {} /\ IsFiniteSet(slots')
      BY <2>1, FS_EmptySet DEF PasswordSlots
    <2>4. TypeInv'
      BY <1>1, <1>2, <2>1, <2>2, <2>3 DEF TypeInv
    <2>5. OriginInv'
      <3>1. \A s \in Session : Founded(req'[s], prepared', Kept')
        BY <1>1, <1>2, <2>2 DEF OriginInv, Founded
      <3>2. \A c \in pending' : FoundedRow(c)'
        BY <1>1, <1>2, <2>2 DEF OriginInv, FoundedRow, TypeInv, Ceremonies
      <3> QED
        BY <2>1, <3>1, <3>2 DEF OriginInv
    <2>6. RootInv'
      BY <2>1 DEF RootInv
    <2>7. SinglePasswordSlot' /\ SlotOpensOrAcknowledged'
      BY <2>3 DEF SinglePasswordSlot, SlotOpensOrAcknowledged
    <2> QED
      BY <1>3, <2>4, <2>5, <2>6, <2>7 DEF IInv
  <1> QED
    BY <1>4, <1>5

(* An account starts without encryption, or with the slots of one setup. *)
LEMMA InvInit == Init => IInv
  <1> SUFFICES ASSUME Init PROVE IInv
    OBVIOUS
  <1>1. PICK on \in Enabled :
          /\ slots = IF on THEN {PasswordSlot(1, 1, 1), RecoverySlot(1, 1, 1)} ELSE {}
          /\ keypair = IF on THEN 1 ELSE 0
          /\ issued = IF on THEN 1 ELSE 0
    BY DEF Init
  <1>2. /\ password = 1 /\ pending = {} /\ req = [s \in Session |-> Idle]
        /\ acknowledged = FALSE /\ outdated = FALSE /\ prepared = {} /\ overlapped = FALSE /\ repeated = FALSE
        /\ recovered = FALSE /\ disabled = FALSE /\ troubles = 0
    BY DEF Init
  <1> DEFINE p == PasswordSlot(1, 1, 1)
             c == RecoverySlot(1, 1, 1)
  <1>3. /\ p \in Slots /\ p.kind = "password" /\ p.secret = 1 /\ p.root = 1
        /\ c \in Slots /\ c.kind = "recovery" /\ c.root = 1
    BY SlotFields, Numbers
  <1>4. slots \in {{p, c}, {}}
    BY <1>1
  <1> HIDE DEF p, c
  <1>5. IsFiniteSet(slots)
    <2>1. IsFiniteSet({p} \cup {c}) /\ IsFiniteSet({})
      BY FS_EmptySet, FS_Singleton, FS_AddElement
    <2>2. {p, c} = {p} \cup {c}
      OBVIOUS
    <2> QED
      BY <1>4, <2>1, <2>2
  <1>6. TypeInv
    <2>1. keypair \in Number \cup {0} /\ issued \in 0 .. MaxIssued + 1
      BY <1>1, Numbers
    <2>2. slots \subseteq Slots
      BY <1>3, <1>4
    <2> QED
      BY <1>2, <1>5, <2>1, <2>2, Numbers, IdleRequest DEF TypeInv
  <1>7. OriginInv
    <2>1. slots # {} => Kept
      BY <1>3, <1>4 DEF RecoverySlots, Kept
    <2> QED
      BY <1>2, <2>1, IdleRequest DEF OriginInv
  <1>8. RootInv
    BY <1>2, <1>3, <1>4, IdleRequest DEF RootInv
  <1>9. AttemptsInv
    BY <1>2 DEF AttemptsInv
  <1>10. SinglePasswordSlot /\ SlotOpensOrAcknowledged
    BY <1>2, <1>3, <1>4 DEF SinglePasswordSlot, SlotOpensOrAcknowledged, PasswordSlots
  <1> QED
    BY <1>6, <1>7, <1>8, <1>9, <1>10 DEF IInv

(* Every action keeps the invariant. *)
LEMMA InvStep ==
    ASSUME IInv, [Next]_vars
    PROVE  IInv'
  <1>1. CASE UNCHANGED vars
    BY <1>1 DEF vars, IInv, TypeInv, OriginInv, Founded, FoundedRow, RootInv, AttemptsInv, Wrong,
                SinglePasswordSlot, SlotOpensOrAcknowledged, PasswordSlots, RecoverySlots, Kept
  <1>2. CASE SetPassword \/ EncryptionDisable
    BY <1>2, BoxctlStep
  <1>3. CASE Next /\ ~SetPassword /\ ~EncryptionDisable
    <2>1. PICK s \in Session :
        \/ SetupBegin(s) \/ SetupPrepare(s) \/ RotatePrepare(s)
        \/ ClearPending(s) \/ StorePending(s)
        \/ \E mode \in {"setup", "rotation"} :
              PendingExpires(s, mode) \/ CodeChecks(s, mode) \/ TooManyAttempts(s, mode)
        \/ CountAttempt(s) \/ Keygen(s) \/ KeygenFails(s) \/ InsertSlots(s)
        \/ ReplaceRecovery(s) \/ DeletePending(s) \/ DeletePendingFails(s)
        \/ RelinkUnwrap(s) \/ RelinkReplace(s)
        \/ PRFEnrollUnwrap(s) \/ InsertPRFSlot(s) \/ PRFRelinkUnwrap(s) \/ DeletePRFSlot(s)
        \/ ChangeUnwrap(s) \/ ChangeCommits(s) \/ ResetChecks(s) \/ ResetCommits(s)
        \/ Abandon(s)
      BY <1>3, Zenon DEF Next
    <2>2. TypeInv /\ OriginInv /\ RootInv
      BY DEF IInv
    <2>3. CASE SetupBegin(s) \/ SetupPrepare(s)
      BY <2>2, <2>3, SetupReads, ReadsStep
    <2>4. CASE RotatePrepare(s)
      BY <2>2, <2>4, RotateReads, ReadsStep
    <2>5. CASE RelinkUnwrap(s) \/ PRFRelinkUnwrap(s) \/ PRFEnrollUnwrap(s)
      BY <2>2, <2>5, RelinkReads, ReadsStep
    <2>6. CASE ChangeUnwrap(s) \/ ResetChecks(s)
      BY <2>2, <2>6, ChangeReads, ReadsStep
    <2>7. CASE \E mode \in {"setup", "rotation"} : CodeChecks(s, mode)
      BY <2>2, <2>7, CodeReads, ReadsStep
    <2>8. CASE Keygen(s) \/ DeletePendingFails(s) \/ Abandon(s)
      BY <2>2, <2>8, TailReads, ReadsStep
    <2>9. CASE \/ ClearPending(s) \/ KeygenFails(s) \/ DeletePending(s)
               \/ \E mode \in {"setup", "rotation"} : PendingExpires(s, mode) \/ TooManyAttempts(s, mode)
      BY <2>2, <2>9, DropReads, ReadsStep
    <2>10. CASE StorePending(s)
      BY <2>10, StoreStep
    <2>11. CASE CountAttempt(s)
      BY <2>11, CountStep
    <2>12. CASE InsertSlots(s)
      BY <2>12, InsertStep
    <2>13. CASE ReplaceRecovery(s)
      BY <2>13, ReplaceStep
    <2>14. CASE RelinkReplace(s)
      BY <2>14, RelinkStep
    <2>15. CASE InsertPRFSlot(s) \/ DeletePRFSlot(s)
      BY <2>15, PRFStep
    <2>16. CASE ChangeCommits(s) \/ ResetCommits(s)
      BY <2>16, PasswordStep
    <2> QED
      BY <2>1, <2>3, <2>4, <2>5, <2>6, <2>7, <2>8, <2>9, <2>10, <2>11, <2>12, <2>13, <2>14, <2>15,
         <2>16, Zenon
  <1> QED
    BY <1>1, <1>2, <1>3

(* The inductive invariant holds throughout. *)
LEMMA Invariance == Spec => []IInv
  BY InvInit, InvStep, PTL DEF Spec

(* The state of an account and of its requests stays well formed. *)
THEOREM TypesCorrect == Spec => []TypeOK
  <1>1. IInv => TypeOK
    <2> SUFFICES ASSUME TypeInv PROVE TypeOK
      BY DEF IInv
    <2>1. MaxIssued \in Nat /\ MaxPasswords \in Nat
      BY MailCryptAssumption, Zenon
    <2>2. Number \cup {0} \subseteq 0 .. MaxIssued + 1 /\ Passwords \cup {0} \subseteq 0 .. MaxPasswords + 1
      BY <2>1 DEF Number, Passwords
    <2>3. Slots \subseteq Slot
      BY Numbers DEF Slots, Slot
    <2>4. Ceremonies \subseteq Ceremony
      <3>1. Number \subseteq Nat /\ Number \subseteq Nat \ {0} /\ Passwords \cup {0} \subseteq Nat
        BY Numbers
      <3> QED
        BY <3>1, Zenon DEF Ceremonies, Ceremony
    <2>5. \A s \in Session : /\ req[s].pw \in 0 .. MaxPasswords + 1
                             /\ req[s].root \in 0 .. MaxIssued + 1
                             /\ req[s].row \in 0 .. MaxIssued + 1
                             /\ req[s].new \in BOOLEAN
      BY <2>2 DEF TypeInv, Reqs
    <2>6. password \in 1 .. MaxPasswords + 1 /\ keypair \in 0 .. MaxIssued + 1
          /\ prepared \subseteq 1 .. MaxIssued + 1
      BY <2>2 DEF TypeInv, Number, Passwords
    <2> QED
      BY <2>3, <2>4, <2>5, <2>6 DEF TypeInv, TypeOK
  <1> QED
    BY <1>1, Invariance, PTL

(* Any slot of an account unwraps the same root key, unless two setups     *)
(* that both found no slot were both committed (encryption.go's HasSlot    *)
(* is not asked again when InsertSlots runs), or boxctl removed the slots  *)
(* while a request was holding their key.                                  *)
THEOREM SameRootSafe == Spec => []SameRoot
  <1>1. IInv => SameRoot
    BY DEF IInv, RootInv, SameRoot
  <1> QED
    BY <1>1, Invariance, PTL

(* An account has one password slot, which Only() finds, unless setups     *)
(* overlapped or one was committed twice.                                  *)
THEOREM SingleSlotSafe == Spec => []SinglePasswordSlot
  <1>1. IInv => SinglePasswordSlot
    BY DEF IInv
  <1> QED
    BY <1>1, Invariance, PTL

(* An encrypted account has recovery codes in service at every moment:     *)
(* ReplaceRecoverySlots swaps them and only boxctl removes them, with the  *)
(* password slot, which a request under way may put back alone.            *)
THEOREM RecoverableSafe == Spec => []Recoverable
  <1>1. IInv => Recoverable
    BY DEF IInv, OriginInv, Recoverable, PasswordSlots, Kept
  <1> QED
    BY <1>1, Invariance, PTL

(* The wrong codes tried against a ceremony exceed the limit by no more    *)
(* than the other requests in flight (challengeVerify checks the row as    *)
(* it was read).                                                           *)
THEOREM AttemptsSafe == Spec => []AttemptsBounded
  <1>1. IInv => AttemptsBounded
    <2> SUFFICES ASSUME TypeInv, AttemptsInv, NEW c \in pending
                 PROVE  c.attempts <= MaxChallengeAttempts + Cardinality(Session) - 1
      BY DEF IInv, AttemptsBounded
    <2>1. c.attempts + Cardinality(Wrong(c.id)) <= MaxChallengeAttempts + Cardinality(Session) - 1
      BY DEF AttemptsInv
    <2>2. Wrong(c.id) \in SUBSET Session
      BY DEF Wrong
    <2>3. Cardinality(Wrong(c.id)) \in Nat /\ MaxChallengeAttempts \in Nat /\ Cardinality(Session) \in Nat
      BY <2>2, WrongCounted
    <2>4. c.attempts \in Nat
      BY DEF TypeInv, Ceremonies
    <2> QED
      BY <2>1, <2>3, <2>4
  <1> QED
    BY <1>1, Invariance, PTL

(* The login password opens the password slot, unless an admin has         *)
(* acknowledged that a reset strands it, boxctl has set the password, or a *)
(* change crossed a commit.                                                *)
THEOREM SlotSafe == Spec => []SlotOpensOrAcknowledged
  <1>1. IInv => SlotOpensOrAcknowledged
    BY DEF IInv
  <1> QED
    BY <1>1, Invariance, PTL
=============================================================================
