--------------------------- MODULE SecondFactors ----------------------------
(***************************************************************************)
(* The second factors of one account: TOTP enrolment and login             *)
(* (httpapi/mfa.go, auth/totp.go), passkey ceremonies (httpapi/            *)
(* webauthn.go) and the passkeys' encryption slots (httpapi/               *)
(* encryption_prf.go, mailcrypt/slots.go), with boxctl's `recover          *)
(* mfa-disable` (adminops.go), which removes them from outside.            *)
(*                                                                         *)
(* A code is the secret and the time step it was computed from; the clock  *)
(* counts time steps and serves for the challenges' expiry too.  A passkey *)
(* is its credential id, new with every registration.  A request runs as a *)
(* sequence of statements; requests interleave between them and may end at *)
(* any one, by an error or because the client went away; a boxctl command, *)
(* from a process of its own, is a request like the others.  The account is*)
(* encrypted, and requests with a wrong password, a malformed body or an   *)
(* assertion that does not verify change nothing and are left out.         *)
(***************************************************************************)
EXTENDS Integers, FiniteSets, Sequences

CONSTANTS
    Request,        \* concurrent requests to the account
    Secret,         \* TOTP secrets
    Key,            \* passkeys, by credential id
    ChallengeTTL,   \* how long a begun ceremony can be completed
    MaxStep,        \* bound of the model: the clock
    MaxEnrolled,    \* bound of the model: TOTP enrolments
    MaxChallenges,  \* bound of the model: ceremonies begun
    MaxRequests,    \* bound of the model: requests made
    MaxFailures     \* bound of the model: lookups that fail

ASSUME SecondFactorsAssumption ==
    /\ IsFiniteSet(Request) /\ IsFiniteSet(Secret) /\ IsFiniteSet(Key)
    /\ ChallengeTTL \in Nat \ {0}
    /\ MaxStep \in Nat /\ MaxEnrolled \in Nat /\ MaxChallenges \in Nat
    /\ MaxRequests \in Nat /\ MaxFailures \in Nat

VARIABLES
    now,
    totp,       \* TOTPCredential rows; mru is the step consumed last
    passkeys,   \* WebAuthnCredential rows
    prfslots,   \* the passkeys with a passkey_prf slot
    challenges, \* WebAuthnChallenge rows
    req,        \* the request each thread is in
    requests,   \* requests made
    failures,   \* lookups that failed
    uses,       \* history: how often a code was accepted, at enrolment or login
    enrolled,   \* history: the secret of each TOTP enrolment
    registered, \* history: the passkeys that were ever registered
    begun,      \* history: the purpose of each ceremony begun
    completed,  \* history: the purposes each ceremony was completed for
    crossed     \* history: passkeys deleted beside their enrolment, blindly or by boxctl

factors == <<totp, passkeys, prfslots>>
history == <<uses, enrolled, registered, begun, completed, crossed>>
budget == <<requests, failures>>
vars == <<now, totp, passkeys, prfslots, challenges, req, requests, failures,
          uses, enrolled, registered, begun, completed, crossed>>

Purpose == {"register", "login", "enroll", "relink"}

(* The challenge's kind: the two encryption ceremonies share one. *)
Kind(p) == IF p \in {"enroll", "relink"} THEN "prf" ELSE p

Steps == 0 .. MaxStep + 1
Code == Secret \X Steps

TOTPCredential == [id : 1 .. MaxEnrolled, secret : Secret, mru : Steps]
WebAuthnChallenge == [id : 1 .. MaxChallenges, purpose : Purpose, allowed : SUBSET Key,
                      expires : Nat]

Idle == [op |-> "none"]

TypeOK ==
    /\ now \in 0 .. MaxStep
    /\ totp \subseteq TOTPCredential
    /\ passkeys \subseteq Key /\ prfslots \subseteq Key
    /\ challenges \subseteq WebAuthnChallenge
    /\ \A r \in Request :
          req[r] \in [op : {"none", "count", "delkeys"}]
                     \cup [op : {"try"}, code : Code, left : SUBSET (1 .. MaxEnrolled)]
                     \cup [op : {"purge", "create"}, purpose : Purpose, allowed : SUBSET Key]
                     \cup [op : {"take"}, purpose : Purpose, challenge : WebAuthnChallenge]
                     \cup [op : {"verify"}, challenge : WebAuthnChallenge]
                     \cup [op : {"update", "insert"}, key : Key, id : 1 .. MaxChallenges]
                     \cup [op : {"delslot", "delkey"}, key : Key]
    /\ requests \in 0 .. MaxRequests /\ failures \in 0 .. MaxFailures

Init ==
    /\ now = 0
    /\ totp = {} /\ challenges = {}
    /\ passkeys \in SUBSET Key /\ prfslots \in SUBSET passkeys
    /\ req = [r \in Request |-> Idle]
    /\ requests = 0 /\ failures = 0
    /\ uses = [c \in Code |-> 0]
    /\ enrolled = <<>> /\ registered = passkeys /\ begun = <<>>
    /\ completed = [i \in 1 .. MaxChallenges |-> <<>>]
    /\ crossed = {}

Goto(r, step) == req' = [req EXCEPT ![r] = step]
Done(r) == Goto(r, Idle)

(* A request comes in. *)
Starts(r) ==
    /\ req[r].op = "none"
    /\ requests < MaxRequests
    /\ requests' = requests + 1

Tick ==
    /\ now < MaxStep
    /\ now' = now + 1
    /\ UNCHANGED <<factors, challenges, req, budget, history>>

-----------------------------------------------------------------------------
(* TOTP.  A code verifies for its own secret, with one step of skew either *)
(* way.                                                                    *)
VerifyTOTP(secret, code) == code[1] = secret /\ code[2] \in now - 1 .. now + 1

Used(code) == uses' = [uses EXCEPT ![code] = @ + 1]

(* Mutant: enrolment leaves the step of its own code unconsumed. *)
EnableTOTPUnconsumed(r) ==
    /\ Starts(r)
    /\ Len(enrolled) < MaxEnrolled
    /\ \E code \in Code :
          /\ VerifyTOTP(code[1], code)
          /\ totp' = totp \cup {[id |-> Len(enrolled) + 1, secret |-> code[1], mru |-> 0]}
          /\ enrolled' = Append(enrolled, code[1])
          /\ Used(code)
    /\ UNCHANGED <<now, passkeys, prfslots, challenges, req, failures, registered, begun,
                   completed, crossed>>

(* handleTOTPEnable: the secret is the client's, and one that is enrolled  *)
(* already can be enrolled again.                                          *)
EnableTOTP(r) ==
    /\ Starts(r)
    /\ Len(enrolled) < MaxEnrolled
    /\ \E code \in Code :
          /\ VerifyTOTP(code[1], code)
          /\ totp' = totp \cup {[id |-> Len(enrolled) + 1, secret |-> code[1], mru |-> code[2]]}
          /\ enrolled' = Append(enrolled, code[1])
          /\ Used(code)
    /\ UNCHANGED <<now, passkeys, prfslots, challenges, req, failures, registered, begun,
                   completed, crossed>>

(* handleMFADisable of a TOTP credential. *)
DisableTOTP(r) ==
    /\ Starts(r)
    /\ \E t \in totp : totp' = totp \ {t}
    /\ UNCHANGED <<now, passkeys, prfslots, challenges, req, failures, history>>

(* handleLogin with a right password, up to checkTOTP's read of the rows. *)
LoginReads(r) ==
    /\ Starts(r)
    /\ IF totp = {}
       THEN Goto(r, [op |-> "count"])
       ELSE \E code \in Code :
               Goto(r, [op |-> "try", code |-> code,
                        left |-> {t.id : t \in {u \in totp : u.secret = code[1]}}])
    /\ UNCHANGED <<now, factors, challenges, failures, history>>

(* Without TOTP: a session if there is no passkey, or a hint to use it. *)
CountPasskeys(r) ==
    /\ req[r].op = "count"
    /\ Done(r)
    /\ UNCHANGED <<now, factors, challenges, budget, history>>

(* The conditional update that consumes the step on one of the rows read.  *)
(* If it moved the row, the login succeeds; if not, the next row is tried. *)
ConsumeStep(r) ==
    /\ req[r].op = "try"
    /\ VerifyTOTP(req[r].code[1], req[r].code)
    /\ \E i \in req[r].left :
          LET moved == {t \in totp : t.id = i /\ t.mru < req[r].code[2]} IN
          /\ totp' = (totp \ moved) \cup {[t EXCEPT !.mru = req[r].code[2]] : t \in moved}
          /\ IF moved # {}
             THEN Used(req[r].code) /\ Done(r)
             ELSE UNCHANGED uses /\ Goto(r, [req[r] EXCEPT !.left = @ \ {i}])
    /\ UNCHANGED <<now, passkeys, prfslots, challenges, budget, enrolled, registered, begun,
                   completed, crossed>>

(* No row is left, or the code has gone out of its time. *)
LoginRefused(r) ==
    /\ req[r].op = "try"
    /\ req[r].left = {} \/ ~VerifyTOTP(req[r].code[1], req[r].code)
    /\ Done(r)
    /\ UNCHANGED <<now, factors, challenges, budget, history>>

-----------------------------------------------------------------------------
(* Passkey ceremonies.  The begin handlers read the passkeys, which a      *)
(* login or an encryption ceremony must have some of, and a relink also    *)
(* needs a slot; then expired challenges are purged and the new one is     *)
(* created.                                                                *)
Begin(r, p) ==
    /\ Starts(r)
    /\ Len(begun) < MaxChallenges
    /\ p # "register" => passkeys # {}
    /\ p = "relink" => prfslots # {}
    /\ Goto(r, [op |-> "purge", purpose |-> p, allowed |-> passkeys])
    /\ UNCHANGED <<now, factors, challenges, failures, history>>

PurgeExpired(r) ==
    /\ req[r].op = "purge"
    /\ challenges' = {c \in challenges : c.expires >= now}
    /\ Goto(r, [req[r] EXCEPT !.op = "create"])
    /\ UNCHANGED <<now, factors, budget, history>>

CreateChallenge(r) ==
    /\ req[r].op = "create"
    /\ Len(begun) < MaxChallenges
    /\ challenges' = challenges \cup
          {[id |-> Len(begun) + 1, purpose |-> req[r].purpose, allowed |-> req[r].allowed,
            expires |-> now + ChallengeTTL]}
    /\ begun' = Append(begun, req[r].purpose)
    /\ Done(r)
    /\ UNCHANGED <<now, factors, budget, uses, enrolled, registered, completed, crossed>>

(* takeRawChallenge: the row by its nonce, kind and expiry... *)
FindChallenge(r, p) ==
    /\ Starts(r)
    /\ \E c \in challenges :
          /\ Kind(c.purpose) = Kind(p) /\ c.expires > now
          /\ Goto(r, [op |-> "take", purpose |-> p, challenge |-> c])
    /\ UNCHANGED <<now, factors, challenges, failures, history>>

(* Mutant: the count of the delete is not looked at. *)
TakeChallengeUncounted(r) ==
    /\ req[r].op = "take"
    /\ LET c == req[r].challenge IN
       /\ challenges' = challenges \ {c}
       /\ IF c.purpose = req[r].purpose
          THEN Goto(r, [op |-> "verify", challenge |-> c])
          ELSE Done(r)
    /\ UNCHANGED <<now, factors, budget, history>>

(* ...and its delete, whose count decides between concurrent completions.  *)
(* A challenge for the other encryption ceremony is used up as well.       *)
TakeChallenge(r) ==
    /\ req[r].op = "take"
    /\ LET c == req[r].challenge IN
       /\ challenges' = challenges \ {c}
       /\ IF c \in challenges /\ c.purpose = req[r].purpose
          THEN Goto(r, [op |-> "verify", challenge |-> c])
          ELSE Done(r)
    /\ UNCHANGED <<now, factors, budget, history>>

Completes(i, p) == completed' = [completed EXCEPT ![i] = Append(@, p)]

(* handleWebAuthnRegisterComplete: the new credential is stored. *)
Register(r) ==
    /\ req[r].op = "verify"
    /\ req[r].challenge.purpose = "register"
    /\ \E k \in Key \ registered :
          /\ passkeys' = passkeys \cup {k}
          /\ registered' = registered \cup {k}
    /\ Completes(req[r].challenge.id, "register")
    /\ Done(r)
    /\ UNCHANGED <<now, totp, prfslots, challenges, budget, uses, enrolled, begun, crossed>>

(* An assertion verifies with a passkey that was allowed when the ceremony *)
(* began and is still there.                                               *)
Asserts(r, p, k) ==
    /\ req[r].op = "verify"
    /\ req[r].challenge.purpose = p
    /\ k \in passkeys /\ k \in req[r].challenge.allowed

(* Whether a deletion of the passkey is under way. *)
Deleting(k) == \E t \in Request : req[t].op \in {"delslot", "delkey"} /\ req[t].key = k

(* handleWebAuthnLoginComplete up to the verdict on the assertion... *)
LoginVerifies(r) ==
    /\ \E k \in Key :
          /\ Asserts(r, "login", k)
          /\ Goto(r, [op |-> "update", key |-> k, id |-> req[r].challenge.id])
    /\ UNCHANGED <<now, factors, challenges, budget, history>>

(* ...and the update of the credential, whose failure is ignored, with the *)
(* new session.                                                            *)
PasskeyLogin(r) ==
    /\ req[r].op = "update"
    /\ Completes(req[r].id, "login")
    /\ Done(r)
    /\ UNCHANGED <<now, factors, challenges, budget, uses, enrolled, registered, begun, crossed>>

(* handlePRFEnrollComplete: completePRF and the unwrapping by password... *)
EnrollVerifies(r) ==
    /\ \E k \in Key :
          /\ Asserts(r, "enroll", k)
          /\ crossed' = IF Deleting(k) THEN crossed \cup {k} ELSE crossed
          /\ Goto(r, [op |-> "insert", key |-> k, id |-> req[r].challenge.id])
    /\ UNCHANGED <<now, factors, challenges, budget, uses, enrolled, registered, begun, completed>>

(* ...and InsertPRFSlot, a transaction that replaces the passkey's slot. *)
InsertPRFSlot(r) ==
    /\ req[r].op = "insert"
    /\ prfslots' = prfslots \cup {req[r].key}
    /\ Completes(req[r].id, "enroll")
    /\ Done(r)
    /\ UNCHANGED <<now, totp, passkeys, challenges, budget, uses, enrolled, registered, begun,
                   crossed>>

(* handlePRFRelinkComplete: the slot of the passkey unwraps the root key;  *)
(* what becomes of the password slot is MailCrypt's.                       *)
PRFRelink(r) ==
    /\ \E k \in prfslots : Asserts(r, "relink", k)
    /\ Completes(req[r].challenge.id, "relink")
    /\ Done(r)
    /\ UNCHANGED <<now, factors, challenges, budget, uses, enrolled, registered, begun, crossed>>

-----------------------------------------------------------------------------
(* handleMFADisable of a passkey: the row is looked up, its slot deleted,  *)
(* then the row.  A lookup that fails is taken for one that found nothing. *)
Enrolling(k) == \E t \in Request : req[t].op = "insert" /\ req[t].key = k

DisableFindsKey(r) ==
    /\ Starts(r)
    /\ \E k \in passkeys :
          /\ Goto(r, [op |-> "delslot", key |-> k])
          /\ crossed' = IF Enrolling(k) THEN crossed \cup {k} ELSE crossed
    /\ UNCHANGED <<now, factors, challenges, failures, uses, enrolled, registered, begun, completed>>

DisableLookupFails(r) ==
    /\ Starts(r)
    /\ failures < MaxFailures
    /\ failures' = failures + 1
    /\ \E k \in passkeys :
          /\ Goto(r, [op |-> "delkey", key |-> k])
          /\ crossed' = crossed \cup {k}
    /\ UNCHANGED <<now, factors, challenges, uses, enrolled, registered, begun, completed>>

(* Mutant: the passkey is deleted and its slot is forgotten. *)
DeletePRFSlotSkipped(r) ==
    /\ req[r].op = "delslot"
    /\ Goto(r, [req[r] EXCEPT !.op = "delkey"])
    /\ UNCHANGED <<now, factors, challenges, budget, history>>

DeletePRFSlot(r) ==
    /\ req[r].op = "delslot"
    /\ prfslots' = prfslots \ {req[r].key}
    /\ Goto(r, [req[r] EXCEPT !.op = "delkey"])
    /\ UNCHANGED <<now, totp, passkeys, challenges, budget, history>>

DeletePasskey(r) ==
    /\ req[r].op = "delkey"
    /\ passkeys' = passkeys \ {req[r].key}
    /\ Done(r)
    /\ UNCHANGED <<now, totp, prfslots, challenges, budget, history>>

(* DisableMFA, boxctl's `recover mfa-disable`: every TOTP credential is    *)
(* deleted...                                                              *)
DisableMFA(r) ==
    /\ Starts(r)
    /\ totp' = {}
    /\ Goto(r, [op |-> "delkeys"])
    /\ UNCHANGED <<now, passkeys, prfslots, challenges, failures, history>>

(* ...and then every passkey, with no word of their slots: those that have *)
(* one, or are being enrolled, are noted.                                  *)
DeletePasskeys(r) ==
    /\ req[r].op = "delkeys"
    /\ passkeys' = {}
    /\ crossed' = crossed \cup {k \in passkeys : k \in prfslots \/ Enrolling(k)}
    /\ Done(r)
    /\ UNCHANGED <<now, totp, prfslots, challenges, budget, uses, enrolled, registered, begun,
                   completed>>

(* A statement fails, the assertion is refused or the client goes away. *)
Abandon(r) ==
    /\ req[r].op # "none"
    /\ Done(r)
    /\ UNCHANGED <<now, factors, challenges, budget, history>>

Next ==
    \/ Tick
    \/ \E r \in Request :
          \/ EnableTOTP(r) \/ DisableTOTP(r)
          \/ LoginReads(r) \/ CountPasskeys(r) \/ ConsumeStep(r) \/ LoginRefused(r)
          \/ \E p \in Purpose : Begin(r, p) \/ FindChallenge(r, p)
          \/ PurgeExpired(r) \/ CreateChallenge(r) \/ TakeChallenge(r)
          \/ Register(r) \/ LoginVerifies(r) \/ PasskeyLogin(r)
          \/ EnrollVerifies(r) \/ InsertPRFSlot(r) \/ PRFRelink(r)
          \/ DisableFindsKey(r) \/ DisableLookupFails(r) \/ DeletePRFSlot(r) \/ DeletePasskey(r)
          \/ DisableMFA(r) \/ DeletePasskeys(r)
          \/ Abandon(r)

Spec == Init /\ [][Next]_vars

-----------------------------------------------------------------------------
(* "a code is accepted once": whatever logins run at the same time or      *)
(* replay a code, with credentials deleted and enrolled between their      *)
(* statements, a code is accepted no more often than its secret has been   *)
(* enrolled, the enrolment included.                                       *)
OneUsePerCode ==
    \A c \in Code :
        uses[c] <= Cardinality({i \in DOMAIN enrolled : enrolled[i] = c[1]})

(* "a ceremony completes at most once", for the purpose it was begun for:  *)
(* "a prf nonce cannot mint a session".                                    *)
CeremonyCompletesOnce ==
    \A i \in DOMAIN begun : completed[i] \in {<<>>, <<begun[i]>>}

(* "A deleted passkey takes its encryption slot with it": a slot without   *)
(* its passkey is left only by a deletion that ran beside the passkey's    *)
(* enrolment or whose lookup failed, and by boxctl's, which deletes the    *)
(* passkeys alone.                                                         *)
SlotsHavePasskeys == prfslots \subseteq passkeys \cup crossed
=============================================================================
