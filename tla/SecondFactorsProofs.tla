------------------------- MODULE SecondFactorsProofs -------------------------
(***************************************************************************)
(* Proofs about the second factors of an account, for any number of        *)
(* concurrent requests, secrets, passkeys and ceremonies.                  *)
(***************************************************************************)
EXTENDS SecondFactors, FiniteSetTheorems, TLAPS

USE SecondFactorsAssumption

-----------------------------------------------------------------------------
(* The request records, by the statement the request is at. *)
TrySteps == [op : {"try"}, code : Code, left : SUBSET (1 .. MaxEnrolled)]
BeginSteps == [op : {"purge", "create"}, purpose : Purpose, allowed : SUBSET Key]
TakeSteps == [op : {"take"}, purpose : Purpose, challenge : WebAuthnChallenge]
VerifySteps == [op : {"verify"}, challenge : WebAuthnChallenge]
PasskeySteps == [op : {"update", "insert"}, key : Key, id : 1 .. MaxChallenges]
DeleteSteps == [op : {"delslot", "delkey"}, key : Key]

AnyStep == [op : {"none", "count", "delkeys"}] \cup TrySteps \cup BeginSteps \cup TakeSteps
           \cup VerifySteps \cup PasskeySteps \cup DeleteSteps

(* TypeOK with the types of the history variables. *)
TypeInv ==
    /\ now \in 0 .. MaxStep
    /\ totp \subseteq TOTPCredential
    /\ passkeys \subseteq Key /\ prfslots \subseteq Key
    /\ challenges \subseteq WebAuthnChallenge
    /\ req \in [Request -> AnyStep]
    /\ requests \in 0 .. MaxRequests /\ failures \in 0 .. MaxFailures
    /\ enrolled \in Seq(Secret) /\ Len(enrolled) <= MaxEnrolled
    /\ begun \in Seq(Purpose) /\ Len(begun) <= MaxChallenges
    /\ DOMAIN completed = 1 .. MaxChallenges
    /\ uses \in [Code -> Nat]

(* The statement tells the shape of the record. *)
LEMMA StepShapes ==
    ASSUME NEW q \in AnyStep
    PROVE  /\ q.op = "try" => q \in TrySteps
           /\ q.op \in {"purge", "create"} => q \in BeginSteps
           /\ q.op = "take" => q \in TakeSteps
           /\ q.op = "verify" => q \in VerifySteps
           /\ q.op \in {"update", "insert"} => q \in PasskeySteps
           /\ q.op \in {"delslot", "delkey"} => q \in DeleteSteps
  <1>1. CASE q \in [op : {"none", "count", "delkeys"}]
    BY <1>1
  <1>2. CASE q \in TrySteps
    BY <1>2 DEF TrySteps
  <1>3. CASE q \in BeginSteps
    BY <1>3 DEF BeginSteps
  <1>4. CASE q \in TakeSteps
    BY <1>4 DEF TakeSteps
  <1>5. CASE q \in VerifySteps
    BY <1>5 DEF VerifySteps
  <1>6. CASE q \in PasskeySteps
    BY <1>6 DEF PasskeySteps
  <1>7. CASE q \in DeleteSteps
    BY <1>7 DEF DeleteSteps
  <1> QED
    BY <1>1, <1>2, <1>3, <1>4, <1>5, <1>6, <1>7 DEF AnyStep

(* Where a request goes is a statement of its own shape. *)
LEMMA NewSteps ==
    /\ Idle \in AnyStep /\ [op |-> "count"] \in AnyStep /\ [op |-> "delkeys"] \in AnyStep
    /\ \A c \in Code, i \in SUBSET (1 .. MaxEnrolled) :
          [op |-> "try", code |-> c, left |-> i] \in AnyStep
    /\ \A p \in Purpose, a \in SUBSET Key :
          /\ [op |-> "purge", purpose |-> p, allowed |-> a] \in AnyStep
          /\ [op |-> "create", purpose |-> p, allowed |-> a] \in AnyStep
    /\ \A p \in Purpose, c \in WebAuthnChallenge :
          /\ [op |-> "take", purpose |-> p, challenge |-> c] \in AnyStep
          /\ [op |-> "verify", challenge |-> c] \in AnyStep
    /\ \A k \in Key, i \in 1 .. MaxChallenges :
          /\ [op |-> "update", key |-> k, id |-> i] \in AnyStep
          /\ [op |-> "insert", key |-> k, id |-> i] \in AnyStep
    /\ \A k \in Key : /\ [op |-> "delslot", key |-> k] \in AnyStep
                       /\ [op |-> "delkey", key |-> k] \in AnyStep
  <1>1. Idle \in AnyStep /\ [op |-> "count"] \in AnyStep /\ [op |-> "delkeys"] \in AnyStep
    BY DEF AnyStep, Idle
  <1>2. ASSUME NEW c \in Code, NEW i \in SUBSET (1 .. MaxEnrolled)
        PROVE  [op |-> "try", code |-> c, left |-> i] \in AnyStep
    BY DEF AnyStep, TrySteps
  <1>3. ASSUME NEW p \in Purpose, NEW a \in SUBSET Key
        PROVE  /\ [op |-> "purge", purpose |-> p, allowed |-> a] \in AnyStep
               /\ [op |-> "create", purpose |-> p, allowed |-> a] \in AnyStep
    BY DEF AnyStep, BeginSteps
  <1>4. ASSUME NEW p \in Purpose, NEW c \in WebAuthnChallenge
        PROVE  /\ [op |-> "take", purpose |-> p, challenge |-> c] \in AnyStep
               /\ [op |-> "verify", challenge |-> c] \in AnyStep
    BY DEF AnyStep, TakeSteps, VerifySteps
  <1>5. ASSUME NEW k \in Key, NEW i \in 1 .. MaxChallenges
        PROVE  /\ [op |-> "update", key |-> k, id |-> i] \in AnyStep
               /\ [op |-> "insert", key |-> k, id |-> i] \in AnyStep
    BY DEF AnyStep, PasskeySteps
  <1>6. ASSUME NEW k \in Key
        PROVE  /\ [op |-> "delslot", key |-> k] \in AnyStep
               /\ [op |-> "delkey", key |-> k] \in AnyStep
    BY DEF AnyStep, DeleteSteps
  <1> QED
    BY <1>1, <1>2, <1>3, <1>4, <1>5, <1>6

(* The account before its first request. *)
LEMMA TypeStart == Init => TypeInv
  BY NewSteps DEF Init, TypeInv, Code

(* Types are kept by every step. *)
LEMMA TypeStep == TypeInv /\ [Next]_vars => TypeInv'
  <1> SUFFICES ASSUME TypeInv, [Next]_vars PROVE TypeInv'
    OBVIOUS
  <1> USE DEF TypeInv, factors, history, budget, Done, Starts
  <1>a. ASSUME NEW r \in Request, NEW q \in AnyStep, Goto(r, q)
        PROVE  req' \in [Request -> AnyStep]
    BY <1>a DEF Goto
  <1>1. CASE Tick
    BY <1>1 DEF Tick
  <1>2. ASSUME NEW r \in Request, EnableTOTP(r) PROVE TypeInv'
    BY <1>2, NewSteps, <1>a DEF EnableTOTP, Used, TOTPCredential, Code
  <1>3. ASSUME NEW r \in Request, DisableTOTP(r) PROVE TypeInv'
    BY <1>3, NewSteps, <1>a DEF DisableTOTP
  <1>4. ASSUME NEW r \in Request, LoginReads(r) PROVE TypeInv'
    <2>1. req' \in [Request -> AnyStep]
      <3>1. CASE totp = {}
        BY <1>4, <3>1, <1>a, NewSteps DEF LoginReads
      <3>2. CASE totp # {}
        <4>1. PICK code \in Code :
                 Goto(r, [op |-> "try", code |-> code,
                          left |-> {t.id : t \in {u \in totp : u.secret = code[1]}}])
          BY <1>4, <3>2 DEF LoginReads
        <4>2. {t.id : t \in {u \in totp : u.secret = code[1]}} \in SUBSET (1 .. MaxEnrolled)
          BY DEF TOTPCredential
        <4> QED
          BY <4>1, <4>2, <1>a, NewSteps
      <3> QED
        BY <3>1, <3>2
    <2> QED
      BY <1>4, <2>1 DEF LoginReads
  <1>5. ASSUME NEW r \in Request, CountPasskeys(r) PROVE TypeInv'
    BY <1>5, NewSteps, <1>a DEF CountPasskeys
  <1>6. ASSUME NEW r \in Request, ConsumeStep(r) PROVE TypeInv'
    <2>a. req[r] \in TrySteps
      BY <1>6, StepShapes DEF ConsumeStep
    <2>b. req[r].code \in Code /\ req[r].code[2] \in Steps
      BY <2>a DEF TrySteps, Code
    <2>1. PICK i \in req[r].left :
             LET moved == {t \in totp : t.id = i /\ t.mru < req[r].code[2]} IN
             /\ totp' = (totp \ moved) \cup {[t EXCEPT !.mru = req[r].code[2]] : t \in moved}
             /\ IF moved # {}
                THEN Used(req[r].code) /\ Done(r)
                ELSE UNCHANGED uses /\ Goto(r, [req[r] EXCEPT !.left = @ \ {i}])
      BY <1>6 DEF ConsumeStep
    <2>2. req' \in [Request -> AnyStep]
      <3>1. [req[r] EXCEPT !.left = @ \ {i}] \in AnyStep
        BY <2>a DEF TrySteps, AnyStep
      <3> QED
        BY <2>1, <3>1, <1>a, NewSteps
    <2>3. totp' \subseteq TOTPCredential
      <3>1. ASSUME NEW t \in TOTPCredential
            PROVE  [t EXCEPT !.mru = req[r].code[2]] \in TOTPCredential
        BY <2>b DEF TOTPCredential
      <3> QED
        BY <2>1, <3>1
    <2>4. uses' \in [Code -> Nat]
      <3>1. uses' = uses \/ Used(req[r].code)
        BY <2>1
      <3>2. uses \in [Code -> Nat]
        BY DEF TypeInv
      <3>3. \A c \in Code : [uses EXCEPT ![c] = @ + 1] \in [Code -> Nat]
        BY <3>2
      <3> QED
        BY <2>b, <3>1, <3>2, <3>3 DEF Used
    <2> QED
      BY <1>6, <2>2, <2>3, <2>4 DEF ConsumeStep
  <1>7. ASSUME NEW r \in Request, LoginRefused(r) PROVE TypeInv'
    BY <1>7, NewSteps, <1>a DEF LoginRefused
  <1>8. ASSUME NEW r \in Request, PurgeExpired(r) PROVE TypeInv'
    <2>1. [req[r] EXCEPT !.op = "create"] \in AnyStep
      <3>1. req[r] \in BeginSteps
        BY <1>8, StepShapes DEF PurgeExpired
      <3> QED
        BY <3>1 DEF BeginSteps, AnyStep
    <2>2. req' \in [Request -> AnyStep]
      BY <1>8, <2>1, <1>a DEF PurgeExpired
    <2> QED
      BY <1>8, <2>2 DEF PurgeExpired
  <1>9. ASSUME NEW r \in Request, CreateChallenge(r) PROVE TypeInv'
    <2>1. req[r] \in BeginSteps
      BY <1>9, StepShapes DEF CreateChallenge
    <2>2. req[r].purpose \in Purpose /\ req[r].allowed \in SUBSET Key
      BY <2>1 DEF BeginSteps
    <2>3. req' \in [Request -> AnyStep]
      BY <1>9, <1>a, NewSteps DEF CreateChallenge
    <2>4. challenges' \subseteq WebAuthnChallenge
      BY <1>9, <2>2 DEF CreateChallenge, WebAuthnChallenge
    <2>5. begun' \in Seq(Purpose) /\ Len(begun') <= MaxChallenges
      BY <1>9, <2>2 DEF CreateChallenge
    <2> QED
      BY <1>9, <2>3, <2>4, <2>5 DEF CreateChallenge
  <1>10. ASSUME NEW r \in Request, TakeChallenge(r) PROVE TypeInv'
    <2>1. req[r].challenge \in WebAuthnChallenge
      BY <1>10, StepShapes DEF TakeChallenge, TakeSteps
    <2>2. req' \in [Request -> AnyStep]
      BY <1>10, <2>1, <1>a, NewSteps DEF TakeChallenge, Purpose
    <2> QED
      BY <1>10, <2>2 DEF TakeChallenge
  <1>11. ASSUME NEW r \in Request, Register(r) PROVE TypeInv'
    BY <1>11, NewSteps, <1>a DEF Register, Completes
  <1>12. ASSUME NEW r \in Request, LoginVerifies(r) PROVE TypeInv'
    <2>1. req[r].challenge.id \in 1 .. MaxChallenges
      BY <1>12, StepShapes DEF LoginVerifies, Asserts, VerifySteps, WebAuthnChallenge
    <2>2. req' \in [Request -> AnyStep]
      BY <1>12, <2>1, <1>a, NewSteps DEF LoginVerifies
    <2> QED
      BY <1>12, <2>2 DEF LoginVerifies
  <1>13. ASSUME NEW r \in Request, PasskeyLogin(r) PROVE TypeInv'
    BY <1>13, NewSteps, <1>a DEF PasskeyLogin, Completes
  <1>14. ASSUME NEW r \in Request, EnrollVerifies(r) PROVE TypeInv'
    <2>1. req[r].challenge.id \in 1 .. MaxChallenges
      BY <1>14, StepShapes DEF EnrollVerifies, Asserts, VerifySteps, WebAuthnChallenge
    <2>2. req' \in [Request -> AnyStep]
      BY <1>14, <2>1, <1>a, NewSteps DEF EnrollVerifies
    <2> QED
      BY <1>14, <2>2 DEF EnrollVerifies
  <1>15. ASSUME NEW r \in Request, InsertPRFSlot(r) PROVE TypeInv'
    <2>1. req[r].key \in Key
      BY <1>15, StepShapes DEF InsertPRFSlot, PasskeySteps
    <2>2. req' \in [Request -> AnyStep]
      BY <1>15, <1>a, NewSteps DEF InsertPRFSlot
    <2> QED
      BY <1>15, <2>1, <2>2 DEF InsertPRFSlot, Completes
  <1>16. ASSUME NEW r \in Request, PRFRelink(r) PROVE TypeInv'
    BY <1>16, NewSteps, <1>a DEF PRFRelink, Completes, Asserts
  <1>17. ASSUME NEW r \in Request, DisableFindsKey(r) PROVE TypeInv'
    <2>1. req' \in [Request -> AnyStep]
      BY <1>17, <1>a, NewSteps DEF DisableFindsKey
    <2> QED
      BY <1>17, <2>1 DEF DisableFindsKey
  <1>18. ASSUME NEW r \in Request, DisableLookupFails(r) PROVE TypeInv'
    <2>1. req' \in [Request -> AnyStep]
      BY <1>18, <1>a, NewSteps DEF DisableLookupFails
    <2> QED
      BY <1>18, <2>1 DEF DisableLookupFails
  <1>19. ASSUME NEW r \in Request, DeletePRFSlot(r) PROVE TypeInv'
    <2>1. [req[r] EXCEPT !.op = "delkey"] \in AnyStep
      <3>1. req[r] \in DeleteSteps
        BY <1>19, StepShapes DEF DeletePRFSlot
      <3> QED
        BY <3>1 DEF DeleteSteps, AnyStep
    <2>2. req' \in [Request -> AnyStep]
      BY <1>19, <2>1, <1>a DEF DeletePRFSlot
    <2> QED
      BY <1>19, <2>2 DEF DeletePRFSlot
  <1>20. ASSUME NEW r \in Request, DeletePasskey(r) PROVE TypeInv'
    BY <1>20, NewSteps, <1>a DEF DeletePasskey
  <1>21. ASSUME NEW r \in Request, Abandon(r) PROVE TypeInv'
    BY <1>21, NewSteps, <1>a DEF Abandon
  <1>22. ASSUME NEW r \in Request, NEW p \in Purpose, Begin(r, p) PROVE TypeInv'
    <2>1. req' \in [Request -> AnyStep]
      BY <1>22, <1>a, NewSteps DEF Begin
    <2> QED
      BY <1>22, <2>1 DEF Begin
  <1>23. ASSUME NEW r \in Request, NEW p \in Purpose, FindChallenge(r, p) PROVE TypeInv'
    <2>1. req' \in [Request -> AnyStep]
      BY <1>23, <1>a, NewSteps DEF FindChallenge
    <2> QED
      BY <1>23, <2>1 DEF FindChallenge
  <1>24. CASE UNCHANGED vars
    BY <1>24 DEF vars
  <1>25. ASSUME NEW r \in Request, DisableMFA(r) PROVE TypeInv'
    BY <1>25, NewSteps, <1>a DEF DisableMFA
  <1>26. ASSUME NEW r \in Request, DeletePasskeys(r) PROVE TypeInv'
    BY <1>26, NewSteps, <1>a DEF DeletePasskeys
  <1> HIDE DEF TypeInv
  <1> QED
    BY <1>1, <1>2, <1>3, <1>4, <1>5, <1>6, <1>7, <1>8, <1>9, <1>10, <1>11, <1>12, <1>13, <1>14,
       <1>15, <1>16, <1>17, <1>18, <1>19, <1>20, <1>21, <1>22, <1>23, <1>24, <1>25, <1>26 DEF Next

(* Every variable keeps its type, the requests' records included. *)
THEOREM TypesCorrect == Spec => []TypeOK
  <1>1. TypeInv => TypeOK
    BY DEF TypeInv, TypeOK, AnyStep, TrySteps, BeginSteps, TakeSteps, VerifySteps,
           PasskeySteps, DeleteSteps
  <1> QED
    BY <1>1, TypeStart, TypeStep, PTL DEF Spec

(* A login that tries its code stays at it or ends. *)
LEMMA TryingOn ==
    ASSUME TypeInv, NEW r \in Request, ConsumeStep(r)
    PROVE  req'[r].op \in {"none", "try"} /\ \A t \in Request \ {r} : req'[t] = req[t]
  <1>1. ASSUME NEW i PROVE [req[r] EXCEPT !.left = @ \ {i}].op = "try"
    <2>1. req[r] \in TrySteps
      BY StepShapes DEF ConsumeStep, TypeInv
    <2> QED
      BY <2>1 DEF TrySteps
  <1>2. Done(r) \/ \E i \in req[r].left : Goto(r, [req[r] EXCEPT !.left = @ \ {i}])
    BY Zenon DEF ConsumeStep
  <1>3. CASE Done(r)
    BY <1>3 DEF Done, Goto, Idle, TypeInv
  <1>4. ASSUME NEW i, Goto(r, [req[r] EXCEPT !.left = @ \ {i}])
        PROVE  req'[r].op = "try" /\ \A t \in Request \ {r} : req'[t] = req[t]
    <2> DEFINE q == [req[r] EXCEPT !.left = @ \ {i}]
    <2>1. Goto(r, q) /\ q.op = "try"
      BY <1>1, <1>4
    <2> HIDE DEF q
    <2> QED
      BY <2>1 DEF Goto, TypeInv
  <1> QED
    BY <1>2, <1>3, <1>4

-----------------------------------------------------------------------------
(* A passkey and its encryption slot.  What is about to be inserted still  *)
(* has its passkey, what is about to be deleted has lost its slot, and no  *)
(* passkey is in both hands, unless the two requests crossed.              *)
SlotsInv ==
    /\ DOMAIN req = Request
    /\ SlotsHavePasskeys
    /\ \A r \in Request :
          /\ req[r].op = "insert" => req[r].key \in passkeys \cup crossed
          /\ req[r].op = "delkey" => req[r].key \notin prfslots \/ req[r].key \in crossed
          /\ \A t \in Request :
                /\ req[r].op = "insert" /\ req[t].op \in {"delslot", "delkey"}
                /\ req[r].key = req[t].key
                => req[r].key \in crossed

(* The slots' invariant is kept by every step of the requests. *)
LEMMA SlotsStep == TypeInv /\ SlotsInv /\ [Next]_vars => SlotsInv'
  <1> SUFFICES ASSUME TypeInv, SlotsInv, [Next]_vars PROVE SlotsInv'
    OBVIOUS
  <1> USE DEF SlotsInv, SlotsHavePasskeys, factors, history, budget, Goto, Done, Starts, Idle
  <1>1. CASE Tick
    BY <1>1 DEF Tick
  <1>2. ASSUME NEW r \in Request, EnableTOTP(r) PROVE SlotsInv'
    BY <1>2 DEF EnableTOTP
  <1>3. ASSUME NEW r \in Request, DisableTOTP(r) PROVE SlotsInv'
    BY <1>3 DEF DisableTOTP
  <1>4. ASSUME NEW r \in Request, LoginReads(r) PROVE SlotsInv'
    BY <1>4 DEF LoginReads
  <1>5. ASSUME NEW r \in Request, CountPasskeys(r) PROVE SlotsInv'
    BY <1>5 DEF CountPasskeys
  <1>6. ASSUME NEW r \in Request, ConsumeStep(r) PROVE SlotsInv'
    BY <1>6, TryingOn DEF ConsumeStep
  <1>7. ASSUME NEW r \in Request, LoginRefused(r) PROVE SlotsInv'
    BY <1>7 DEF LoginRefused
  <1>8. ASSUME NEW r \in Request, PurgeExpired(r) PROVE SlotsInv'
    BY <1>8 DEF PurgeExpired
  <1>9. ASSUME NEW r \in Request, CreateChallenge(r) PROVE SlotsInv'
    BY <1>9 DEF CreateChallenge
  <1>10. ASSUME NEW r \in Request, TakeChallenge(r) PROVE SlotsInv'
    BY <1>10 DEF TakeChallenge
  <1>11. ASSUME NEW r \in Request, LoginVerifies(r) PROVE SlotsInv'
    BY <1>11 DEF LoginVerifies
  <1>12. ASSUME NEW r \in Request, PasskeyLogin(r) PROVE SlotsInv'
    BY <1>12 DEF PasskeyLogin
  <1>13. ASSUME NEW r \in Request, PRFRelink(r) PROVE SlotsInv'
    BY <1>13 DEF PRFRelink
  <1>14. ASSUME NEW r \in Request, Abandon(r) PROVE SlotsInv'
    BY <1>14 DEF Abandon
  <1>15. ASSUME NEW r \in Request, NEW p \in Purpose, Begin(r, p) \/ FindChallenge(r, p) PROVE SlotsInv'
    BY <1>15 DEF Begin, FindChallenge
  <1>16. ASSUME NEW r \in Request, Register(r) PROVE SlotsInv'
    BY <1>16 DEF Register
  <1>17. ASSUME NEW r \in Request, EnrollVerifies(r) PROVE SlotsInv'
    BY <1>17 DEF EnrollVerifies, Asserts, Deleting
  <1>18. ASSUME NEW r \in Request, InsertPRFSlot(r) PROVE SlotsInv'
    BY <1>18 DEF InsertPRFSlot
  <1>19. ASSUME NEW r \in Request, DisableFindsKey(r) PROVE SlotsInv'
    BY <1>19 DEF DisableFindsKey, Enrolling
  <1>20. ASSUME NEW r \in Request, DisableLookupFails(r) PROVE SlotsInv'
    BY <1>20 DEF DisableLookupFails
  <1>21. ASSUME NEW r \in Request, DeletePRFSlot(r) PROVE SlotsInv'
    BY <1>21 DEF DeletePRFSlot
  <1>22. ASSUME NEW r \in Request, DeletePasskey(r) PROVE SlotsInv'
    BY <1>22 DEF DeletePasskey
  <1>23. CASE UNCHANGED vars
    BY <1>23 DEF vars
  <1>24. ASSUME NEW r \in Request, DisableMFA(r) PROVE SlotsInv'
    BY <1>24 DEF DisableMFA
  <1>25. ASSUME NEW r \in Request, DeletePasskeys(r) PROVE SlotsInv'
    BY <1>25 DEF DeletePasskeys, Enrolling
  <1> HIDE DEF SlotsInv, SlotsHavePasskeys
  <1> QED
    BY <1>1, <1>2, <1>3, <1>4, <1>5, <1>6, <1>7, <1>8, <1>9, <1>10, <1>11, <1>12, <1>13, <1>14,
       <1>15, <1>16, <1>17, <1>18, <1>19, <1>20, <1>21, <1>22, <1>23, <1>24, <1>25 DEF Next

(* A deleted passkey takes its slot with it (handleMFADisable), whatever   *)
(* requests run beside the deletion, unless it crossed the enrolment of    *)
(* the same passkey or its lookup failed, or the deletion was boxctl's     *)
(* (DisableMFA), which leaves the slots of the passkeys it removes.        *)
THEOREM SlotsSafe == Spec => []SlotsHavePasskeys
  <1>1. Init => SlotsInv
    BY DEF Init, SlotsInv, SlotsHavePasskeys, Idle
  <1>2. SlotsInv => SlotsHavePasskeys
    BY DEF SlotsInv
  <1> QED
    BY <1>1, <1>2, TypeStart, TypeStep, SlotsStep, PTL DEF Spec

-----------------------------------------------------------------------------
(* A ceremony.  A request that took a challenge holds its id until it      *)
(* completes or abandons it.                                               *)
Holds(r) == req[r].op \in {"verify", "update", "insert"}
Held(r) == IF req[r].op = "verify" THEN req[r].challenge.id ELSE req[r].id

(* Open: begun, and not completed for anything yet. *)
Open(i, p) == i \in 1 .. Len(begun) /\ begun[i] = p /\ completed[i] = <<>>

ChallengesOpen ==
    /\ \A c \in challenges : Open(c.id, c.purpose)
    /\ \A c, d \in challenges : c.id = d.id => c = d

(* The challenge of a ceremony is a row or in the hands of one request. *)
HeldOnce ==
    \A r \in Request :
        Holds(r) => /\ \A c \in challenges : c.id # Held(r)
                    /\ \A t \in Request : Holds(t) /\ Held(t) = Held(r) => t = r

HeldOpen ==
    \A r \in Request :
        /\ req[r].op = "verify" => Open(Held(r), req[r].challenge.purpose)
        /\ req[r].op = "update" => Open(Held(r), "login")
        /\ req[r].op = "insert" => Open(Held(r), "enroll")

(* Completed for nothing but the purpose it was begun for, and that once;  *)
(* a ceremony that was not begun is not completed.                         *)
CompletedOnce ==
    \A i \in 1 .. MaxChallenges :
        completed[i] = <<>> \/ (i <= Len(begun) /\ completed[i] = <<begun[i]>>)

CeremonyInv == ChallengesOpen /\ HeldOnce /\ HeldOpen /\ CompletedOnce

(* A request that moves to a statement where it holds no challenge, with   *)
(* no row, ceremony or completion added, keeps the invariant.              *)
LEMMA LettingGo ==
    ASSUME TypeInv, CeremonyInv, NEW r \in Request,
           \A t \in Request \ {r} : req'[t] = req[t],
           req'[r].op \notin {"verify", "update", "insert"},
           challenges' \subseteq challenges, UNCHANGED <<begun, completed>>
    PROVE  CeremonyInv'
  BY DEF CeremonyInv, ChallengesOpen, HeldOnce, HeldOpen, CompletedOnce, Holds, Held, Open

(* A request that keeps the id it holds, its purpose known, does so too. *)
LEMMA HoldingOn ==
    ASSUME TypeInv, CeremonyInv, NEW r \in Request, NEW p \in {"login", "enroll"},
           \A t \in Request \ {r} : req'[t] = req[t],
           req[r].op = "verify", req[r].challenge.purpose = p,
           req'[r].op = IF p = "login" THEN "update" ELSE "insert",
           req'[r].id = req[r].challenge.id,
           UNCHANGED <<challenges, begun, completed>>
    PROVE  CeremonyInv'
  <1>1. \A t \in Request : /\ Holds(t)' <=> Holds(t)
                           /\ Holds(t) => Held(t)' = Held(t)
    BY DEF Holds, Held
  <1>2. ChallengesOpen'
    BY <1>1 DEF CeremonyInv, ChallengesOpen, Open
  <1>3. HeldOnce' /\ CompletedOnce'
    BY <1>1 DEF CeremonyInv, HeldOnce, CompletedOnce
  <1>4. HeldOpen'
    BY <1>1 DEF CeremonyInv, HeldOpen, Holds, Held, Open
  <1> QED
    BY <1>2, <1>3, <1>4 DEF CeremonyInv

(* Completing the ceremony one holds, for the purpose it was begun for. *)
LEMMA Completing ==
    ASSUME TypeInv, CeremonyInv, NEW r \in Request, NEW p, Holds(r), Open(Held(r), p),
           Completes(Held(r), p), Done(r), UNCHANGED <<challenges, begun>>
    PROVE  CeremonyInv'
  <1>1. /\ Held(r) \in DOMAIN completed /\ completed[Held(r)] = <<>>
        /\ begun[Held(r)] = p /\ Held(r) <= Len(begun)
    BY DEF TypeInv, Open
  <1>2. /\ completed'[Held(r)] = <<p>>
        /\ \A i \in DOMAIN completed \ {Held(r)} : completed'[i] = completed[i]
    <2>1. completed'[Held(r)] = Append(<<>>, p)
      BY <1>1 DEF Completes
    <2> QED
      BY <1>1, <2>1 DEF Completes
  <1>3. ~Holds(r)' /\ \A t \in Request \ {r} : req'[t] = req[t]
    BY DEF Done, Goto, Idle, Holds, TypeInv
  <1>4. CompletedOnce'
    BY <1>1, <1>2 DEF CeremonyInv, CompletedOnce, TypeInv
  <1>5. ASSUME NEW i, NEW q, Open(i, q), i # Held(r) PROVE Open(i, q)'
    BY <1>2, <1>5 DEF Open, TypeInv
  <1>6. ChallengesOpen'
    BY <1>5 DEF CeremonyInv, ChallengesOpen, HeldOnce
  <1>7. \A t \in Request \ {r} : /\ Held(t)' = Held(t) /\ (Holds(t)' <=> Holds(t))
                                /\ Holds(t) => Held(t) # Held(r)
    BY <1>3 DEF CeremonyInv, HeldOnce, Held, Holds
  <1>8. HeldOnce'
    BY <1>3 DEF CeremonyInv, HeldOnce, Held, Holds
  <1>9. HeldOpen'
    BY <1>2, <1>3, <1>7 DEF CeremonyInv, HeldOpen, Held, Holds, Open, TypeInv
  <1> QED
    BY <1>4, <1>6, <1>8, <1>9 DEF CeremonyInv

(* The ceremonies' invariant is kept by every step of the requests. *)
LEMMA CeremonyStep == TypeInv /\ CeremonyInv /\ [Next]_vars => CeremonyInv'
  <1> SUFFICES ASSUME TypeInv, CeremonyInv, [Next]_vars PROVE CeremonyInv'
    OBVIOUS
  <1> USE DEF factors, history, budget, Starts
  <1>a. ASSUME NEW r \in Request, NEW q, Goto(r, q)
        PROVE  req'[r] = q /\ \A t \in Request \ {r} : req'[t] = req[t]
    BY <1>a DEF Goto, TypeInv
  <1>b. ASSUME UNCHANGED <<req, challenges, begun, completed>> PROVE CeremonyInv'
    BY <1>b DEF CeremonyInv, ChallengesOpen, HeldOnce, HeldOpen, CompletedOnce, Holds, Held, Open
  <1>c. ASSUME NEW r \in Request, Done(r), challenges' \subseteq challenges,
               UNCHANGED <<begun, completed>>
        PROVE  CeremonyInv'
    BY <1>c, <1>a, LettingGo DEF Done, Idle
  <1>1. CASE Tick
    BY <1>1, <1>b DEF Tick
  <1>2. ASSUME NEW r \in Request, EnableTOTP(r) PROVE CeremonyInv'
    BY <1>2, <1>b DEF EnableTOTP
  <1>3. ASSUME NEW r \in Request, DisableTOTP(r) PROVE CeremonyInv'
    BY <1>3, <1>b DEF DisableTOTP
  <1>4. ASSUME NEW r \in Request, LoginReads(r) PROVE CeremonyInv'
    <2>1. CASE totp = {}
      BY <1>4, <2>1, <1>a, LettingGo DEF LoginReads
    <2>2. CASE totp # {}
      <3>1. PICK code \in Code :
               Goto(r, [op |-> "try", code |-> code,
                        left |-> {t.id : t \in {u \in totp : u.secret = code[1]}}])
        BY <1>4, <2>2 DEF LoginReads
      <3>2. req'[r].op = "try" /\ \A t \in Request \ {r} : req'[t] = req[t]
        BY <3>1, <1>a
      <3> QED
        BY <1>4, <3>2, LettingGo DEF LoginReads
    <2> QED
      BY <2>1, <2>2
  <1>5. ASSUME NEW r \in Request, CountPasskeys(r) PROVE CeremonyInv'
    BY <1>5, <1>c DEF CountPasskeys
  <1>6. ASSUME NEW r \in Request, LoginRefused(r) PROVE CeremonyInv'
    BY <1>6, <1>c DEF LoginRefused
  <1>7. ASSUME NEW r \in Request, DeletePasskey(r) PROVE CeremonyInv'
    BY <1>7, <1>c DEF DeletePasskey
  <1>8. ASSUME NEW r \in Request, Abandon(r) PROVE CeremonyInv'
    BY <1>8, <1>c DEF Abandon
  <1>9. ASSUME NEW r \in Request, ConsumeStep(r) PROVE CeremonyInv'
    BY <1>9, TryingOn, LettingGo DEF ConsumeStep
  <1>10. ASSUME NEW r \in Request, PurgeExpired(r) PROVE CeremonyInv'
    <2>1. [req[r] EXCEPT !.op = "create"].op = "create"
      BY <1>10, StepShapes DEF PurgeExpired, TypeInv, BeginSteps
    <2> QED
      BY <1>10, <2>1, <1>a, LettingGo DEF PurgeExpired
  <1>11. ASSUME NEW r \in Request, CreateChallenge(r) PROVE CeremonyInv'
    <2>0. PICK i : i = Len(begun) + 1
      OBVIOUS
    <2>1. req[r].purpose \in Purpose
      BY <1>11, StepShapes DEF CreateChallenge, TypeInv, BeginSteps
    <2>2. /\ begun' = Append(begun, req[r].purpose) /\ UNCHANGED completed
          /\ \A c \in challenges' :
                c \in challenges \/ (c.id = i /\ c.purpose = req[r].purpose)
          /\ \A c, d \in challenges' \ challenges : c = d
          /\ i \in 1 .. MaxChallenges
      BY <1>11, <2>0 DEF CreateChallenge, TypeInv
    <2>3. /\ i \in 1 .. Len(begun') /\ begun'[i] = req[r].purpose /\ Len(begun') = i
          /\ \A j \in 1 .. Len(begun) : begun'[j] = begun[j] /\ j \in 1 .. Len(begun')
          /\ i \notin 1 .. Len(begun)
      BY <2>0, <2>1, <2>2 DEF TypeInv
    <2>4. /\ req[r].op = "create" /\ req'[r].op = "none"
          /\ \A t \in Request \ {r} : req'[t] = req[t]
      BY <1>11, <1>a DEF CreateChallenge, Done, Idle
    <2>5. completed[i] = <<>>
      BY <2>2, <2>3 DEF CeremonyInv, CompletedOnce, TypeInv
    <2>6. ChallengesOpen'
      BY <2>2, <2>3, <2>5 DEF CeremonyInv, ChallengesOpen, Open
    <2>7. HeldOnce'
      BY <2>2, <2>3, <2>4 DEF CeremonyInv, HeldOnce, HeldOpen, Held, Holds, Open
    <2>8. HeldOpen'
      BY <2>2, <2>3, <2>4 DEF CeremonyInv, HeldOpen, Held, Open
    <2>9. CompletedOnce'
      BY <2>0, <2>2, <2>3 DEF CeremonyInv, CompletedOnce, TypeInv
    <2> QED
      BY <2>6, <2>7, <2>8, <2>9 DEF CeremonyInv
  <1>12. ASSUME NEW r \in Request, TakeChallenge(r) PROVE CeremonyInv'
    <2>1. CASE req[r].challenge \in challenges /\ req[r].challenge.purpose = req[r].purpose
      <3>0. PICK c : c = req[r].challenge
        OBVIOUS
      <3>1. /\ challenges' = challenges \ {c} /\ UNCHANGED <<begun, completed>>
            /\ req'[r] = [op |-> "verify", challenge |-> c]
            /\ \A t \in Request \ {r} : req'[t] = req[t]
        BY <1>12, <2>1, <3>0, <1>a DEF TakeChallenge
      <3>2. ChallengesOpen' /\ CompletedOnce'
        BY <3>1 DEF CeremonyInv, ChallengesOpen, CompletedOnce, Open
      <3>3. HeldOnce'
        BY <2>1, <3>0, <3>1 DEF CeremonyInv, HeldOnce, ChallengesOpen, Held, Holds
      <3>4. HeldOpen'
        <4>1. Open(c.id, c.purpose)'
          BY <2>1, <3>0, <3>1 DEF CeremonyInv, ChallengesOpen, Open
        <4> QED
          BY <3>1, <4>1 DEF CeremonyInv, HeldOpen, Open, Held
      <3> QED
        BY <3>2, <3>3, <3>4 DEF CeremonyInv
    <2>2. CASE ~(req[r].challenge \in challenges /\ req[r].challenge.purpose = req[r].purpose)
      BY <1>12, <2>2, <1>c DEF TakeChallenge
    <2> QED
      BY <2>1, <2>2
  <1>13. ASSUME NEW r \in Request, Register(r) PROVE CeremonyInv'
    <2>1. Holds(r) /\ Held(r) = req[r].challenge.id /\ Open(Held(r), "register")
      BY <1>13 DEF Register, Asserts, Holds, Held, CeremonyInv, HeldOpen
    <2> QED
      BY <1>13, <2>1, Completing DEF Register
  <1>14. ASSUME NEW r \in Request, PRFRelink(r) PROVE CeremonyInv'
    <2>1. Holds(r) /\ Held(r) = req[r].challenge.id /\ Open(Held(r), "relink")
      BY <1>14 DEF PRFRelink, Asserts, Holds, Held, CeremonyInv, HeldOpen
    <2> QED
      BY <1>14, <2>1, Completing DEF PRFRelink
  <1>15. ASSUME NEW r \in Request, PasskeyLogin(r) PROVE CeremonyInv'
    <2>1. Holds(r) /\ Held(r) = req[r].id /\ Open(Held(r), "login")
      BY <1>15 DEF PasskeyLogin, Holds, Held, CeremonyInv, HeldOpen
    <2> QED
      BY <1>15, <2>1, Completing DEF PasskeyLogin
  <1>16. ASSUME NEW r \in Request, InsertPRFSlot(r) PROVE CeremonyInv'
    <2>1. Holds(r) /\ Held(r) = req[r].id /\ Open(Held(r), "enroll")
      BY <1>16 DEF InsertPRFSlot, Holds, Held, CeremonyInv, HeldOpen
    <2> QED
      BY <1>16, <2>1, Completing DEF InsertPRFSlot
  <1>17. ASSUME NEW r \in Request, LoginVerifies(r) PROVE CeremonyInv'
    BY <1>17, <1>a, HoldingOn DEF LoginVerifies, Asserts
  <1>18. ASSUME NEW r \in Request, EnrollVerifies(r) PROVE CeremonyInv'
    BY <1>18, <1>a, HoldingOn DEF EnrollVerifies, Asserts
  <1>19. ASSUME NEW r \in Request, DisableFindsKey(r) PROVE CeremonyInv'
    BY <1>19, <1>a, LettingGo DEF DisableFindsKey
  <1>20. ASSUME NEW r \in Request, DisableLookupFails(r) PROVE CeremonyInv'
    BY <1>20, <1>a, LettingGo DEF DisableLookupFails
  <1>21. ASSUME NEW r \in Request, DeletePRFSlot(r) PROVE CeremonyInv'
    <2>1. [req[r] EXCEPT !.op = "delkey"].op = "delkey"
      BY <1>21, StepShapes DEF DeletePRFSlot, TypeInv, DeleteSteps
    <2> QED
      BY <1>21, <2>1, <1>a, LettingGo DEF DeletePRFSlot
  <1>22. ASSUME NEW r \in Request, NEW p \in Purpose, Begin(r, p) PROVE CeremonyInv'
    BY <1>22, <1>a, LettingGo DEF Begin
  <1>23. ASSUME NEW r \in Request, NEW p \in Purpose, FindChallenge(r, p) PROVE CeremonyInv'
    BY <1>23, <1>a, LettingGo DEF FindChallenge
  <1>24. CASE UNCHANGED vars
    BY <1>24, <1>b DEF vars
  <1>25. ASSUME NEW r \in Request, DisableMFA(r) PROVE CeremonyInv'
    BY <1>25, <1>a, LettingGo DEF DisableMFA
  <1>26. ASSUME NEW r \in Request, DeletePasskeys(r) PROVE CeremonyInv'
    BY <1>26, <1>c DEF DeletePasskeys
  <1> QED
    BY <1>1, <1>2, <1>3, <1>4, <1>5, <1>6, <1>7, <1>8, <1>9, <1>10, <1>11, <1>12, <1>13, <1>14,
       <1>15, <1>16, <1>17, <1>18, <1>19, <1>20, <1>21, <1>22, <1>23, <1>24, <1>25, <1>26 DEF Next

(* A ceremony completes at most once, and only for what it was begun for   *)
(* (takeRawChallenge): the delete whose row count decides keeps two        *)
(* completions of one nonce apart, however their statements interleave.    *)
THEOREM CeremoniesSafe == Spec => []CeremonyCompletesOnce
  <1>1. Init => CeremonyInv
    BY DEF Init, CeremonyInv, ChallengesOpen, HeldOnce, HeldOpen, CompletedOnce, Holds, Idle
  <1>2. TypeInv /\ CeremonyInv => CeremonyCompletesOnce
    <2>1. TypeInv => DOMAIN begun \subseteq 1 .. MaxChallenges
      BY DEF TypeInv
    <2> QED
      BY <2>1 DEF CeremonyInv, CompletedOnce, CeremonyCompletesOnce
  <1> QED
    BY <1>1, <1>2, TypeStart, TypeStep, CeremonyStep, PTL DEF Spec

-----------------------------------------------------------------------------
(* A TOTP code.  Spent: the enrolments of the code's secret whose row is   *)
(* gone or has consumed the code's step or a later one.  An acceptance     *)
(* spends an enrolment that was not spent before, and none is ever unspent.*)
Spent(c) == {i \in DOMAIN enrolled :
                /\ enrolled[i] = c[1]
                /\ \A t \in totp : t.id = i => t.mru >= c[2]}

(* The rows, and the ids a login has read, are enrolments of their secret. *)
RowsEnrolled ==
    /\ \A t \in totp : t.id \in DOMAIN enrolled /\ enrolled[t.id] = t.secret
    /\ \A r \in Request :
          req[r].op = "try" =>
             \A i \in req[r].left : i \in DOMAIN enrolled /\ enrolled[i] = req[r].code[1]

UsesSpent == \A c \in Code : uses[c] <= Cardinality(Spent(c))

TOTPInv == RowsEnrolled /\ UsesSpent

(* What Spent counts can be counted. *)
LEMMA SpentFinite ==
    ASSUME TypeInv, NEW c \in Code
    PROVE  IsFiniteSet(Spent(c)) /\ Cardinality(Spent(c)) \in Nat
  <1>1. IsFiniteSet(1 .. Len(enrolled))
    BY FS_Interval DEF TypeInv
  <1>2. Spent(c) \subseteq 1 .. Len(enrolled)
    BY DEF Spent, TypeInv
  <1> QED
    BY <1>1, <1>2, FS_Subset, FS_CardinalityType

(* A step that unspends nothing may accept a code that spends one more. *)
LEMMA SpentGrows ==
    ASSUME TypeInv, TypeInv', UsesSpent,
           NEW c \in Code, Spent(c) \subseteq Spent(c)',
           \/ uses'[c] = uses[c]
           \/ uses'[c] = uses[c] + 1 /\ \E i : i \in Spent(c)' \ Spent(c)
    PROVE  uses'[c] <= Cardinality(Spent(c))'
  <1>1. /\ IsFiniteSet(Spent(c)) /\ Cardinality(Spent(c)) \in Nat
        /\ IsFiniteSet(Spent(c)') /\ Cardinality(Spent(c)') \in Nat
    <2>1. IsFiniteSet(Spent(c)) /\ Cardinality(Spent(c)) \in Nat
      BY SpentFinite
    <2>2. IsFiniteSet(1 .. Len(enrolled'))
      BY FS_Interval DEF TypeInv
    <2>3. Spent(c)' \subseteq 1 .. Len(enrolled')
      BY DEF Spent, TypeInv
    <2> QED
      BY <2>1, <2>2, <2>3, FS_Subset, FS_CardinalityType
  <1>2. Cardinality(Spent(c)) <= Cardinality(Spent(c)')
    BY <1>1, FS_Subset
  <1>3. uses[c] \in Nat /\ uses[c] <= Cardinality(Spent(c))
    BY DEF TypeInv, UsesSpent
  <1>4. CASE uses'[c] = uses[c]
    BY <1>1, <1>2, <1>3, <1>4
  <1>5. ASSUME uses'[c] = uses[c] + 1, NEW i \in Spent(c)' \ Spent(c)
        PROVE  uses'[c] <= Cardinality(Spent(c)')
    <2>1. Cardinality(Spent(c) \cup {i}) = Cardinality(Spent(c)) + 1
      BY <1>1, <1>5, FS_AddElement
    <2>2. Cardinality(Spent(c) \cup {i}) <= Cardinality(Spent(c)')
      BY <1>1, <1>5, FS_Subset
    <2> QED
      BY <1>1, <1>3, <1>5, <2>1, <2>2
  <1> QED
    BY <1>4, <1>5

(* A request at another statement than the login's neither spends nor      *)
(* accepts a code.                                                         *)
LEMMA NotTrying ==
    ASSUME TOTPInv, NEW r \in Request, \A t \in Request \ {r} : req'[t] = req[t],
           req'[r].op # "try", UNCHANGED <<totp, uses, enrolled>>
    PROVE  TOTPInv'
  BY DEF TOTPInv, RowsEnrolled, UsesSpent, Spent

(* The codes' invariant is kept by every step of the requests. *)
LEMMA TOTPStep == TypeInv /\ TypeInv' /\ TOTPInv /\ [Next]_vars => TOTPInv'
  <1> SUFFICES ASSUME TypeInv, TypeInv', TOTPInv, [Next]_vars PROVE TOTPInv'
    OBVIOUS
  <1> USE DEF factors, history, budget, Starts
  <1>a. ASSUME NEW r \in Request, NEW q, Goto(r, q)
        PROVE  req'[r] = q /\ \A t \in Request \ {r} : req'[t] = req[t]
    BY <1>a DEF Goto, TypeInv
  <1>b. ASSUME UNCHANGED <<req, totp, uses, enrolled>> PROVE TOTPInv'
    BY <1>b DEF TOTPInv, RowsEnrolled, UsesSpent, Spent
  <1>c. ASSUME NEW r \in Request, Done(r), UNCHANGED <<totp, uses, enrolled>>
        PROVE  TOTPInv'
    BY <1>c, <1>a, NotTrying DEF Done, Idle
  <1>1. CASE Tick
    BY <1>1, <1>b DEF Tick
  <1>2. ASSUME NEW r \in Request, EnableTOTP(r) PROVE TOTPInv'
    <2>1. PICK code \in Code :
             /\ totp' = totp \cup {[id |-> Len(enrolled) + 1, secret |-> code[1],
                                   mru |-> code[2]]}
             /\ enrolled' = Append(enrolled, code[1])
             /\ uses' = [uses EXCEPT ![code] = @ + 1]
      BY <1>2 DEF EnableTOTP, Used
    <2>2. UNCHANGED req
      BY <1>2 DEF EnableTOTP
    <2>3. PICK new : new = Len(enrolled) + 1
      OBVIOUS
    <2>4. /\ code[1] \in Secret /\ code[2] \in Steps
          /\ new \in DOMAIN enrolled' /\ new \notin DOMAIN enrolled /\ enrolled'[new] = code[1]
          /\ \A j \in DOMAIN enrolled : j \in DOMAIN enrolled' /\ enrolled'[j] = enrolled[j]
      <3>1. code[1] \in Secret /\ code[2] \in Steps
        BY DEF Code
      <3>2. enrolled \in Seq(Secret)
        BY DEF TypeInv
      <3>3. /\ DOMAIN enrolled = 1 .. Len(enrolled) /\ Len(enrolled) \in Nat
            /\ DOMAIN enrolled' = 1 .. new /\ enrolled'[new] = code[1]
            /\ \A j \in 1 .. Len(enrolled) : enrolled'[j] = enrolled[j]
        BY <2>1, <2>3, <3>1, <3>2
      <3> QED
        BY <2>3, <3>1, <3>3
    <2>5. RowsEnrolled'
      BY <2>1, <2>2, <2>3, <2>4 DEF TOTPInv, RowsEnrolled
    <2>6. ASSUME NEW c \in Code PROVE Spent(c) \subseteq Spent(c)'
      BY <2>1, <2>3, <2>4 DEF Spent
    <2>7. new \in Spent(code)' \ Spent(code)
      <3>1. \A t \in totp : t.id # new
        BY <2>4 DEF TOTPInv, RowsEnrolled
      <3>2. code[2] \in Int
        BY <2>4 DEF Steps
      <3> QED
        BY <2>1, <2>3, <2>4, <3>1, <3>2 DEF Spent
    <2>8. UsesSpent'
      <3>1. ASSUME NEW c \in Code PROVE uses'[c] <= Cardinality(Spent(c))'
        <4>1. uses'[c] = IF c = code THEN uses[c] + 1 ELSE uses[c]
          BY <2>1 DEF TypeInv
        <4> QED
          BY <2>6, <2>7, <4>1, SpentGrows DEF TOTPInv
      <3> QED
        BY <3>1 DEF UsesSpent
    <2> QED
      BY <2>5, <2>8 DEF TOTPInv
  <1>3. ASSUME NEW r \in Request, DisableTOTP(r) PROVE TOTPInv'
    <2>1. totp' \subseteq totp /\ UNCHANGED <<req, uses, enrolled>>
      BY <1>3 DEF DisableTOTP
    <2>2. RowsEnrolled'
      BY <2>1 DEF TOTPInv, RowsEnrolled
    <2>3. ASSUME NEW c \in Code PROVE Spent(c) \subseteq Spent(c)'
      BY <2>1 DEF Spent
    <2>4. UsesSpent'
      BY <2>1, <2>3, SpentGrows DEF TOTPInv, UsesSpent
    <2> QED
      BY <2>2, <2>4 DEF TOTPInv
  <1>4. ASSUME NEW r \in Request, LoginReads(r) PROVE TOTPInv'
    <2>1. UNCHANGED <<totp, uses, enrolled>>
      BY <1>4 DEF LoginReads
    <2>2. CASE totp = {}
      BY <1>4, <2>1, <2>2, <1>a, NotTrying DEF LoginReads
    <2>3. CASE totp # {}
      <3>1. PICK code \in Code :
               Goto(r, [op |-> "try", code |-> code,
                        left |-> {t.id : t \in {u \in totp : u.secret = code[1]}}])
        BY <1>4, <2>3 DEF LoginReads
      <3>2. /\ req'[r].code = code
            /\ req'[r].left = {t.id : t \in {u \in totp : u.secret = code[1]}}
            /\ \A t \in Request \ {r} : req'[t] = req[t]
        BY <3>1, <1>a
      <3>3. RowsEnrolled'
        BY <2>1, <3>2 DEF TOTPInv, RowsEnrolled
      <3>4. UsesSpent'
        BY <2>1 DEF TOTPInv, UsesSpent, Spent
      <3> QED
        BY <3>3, <3>4 DEF TOTPInv
    <2> QED
      BY <2>2, <2>3
  <1>5. ASSUME NEW r \in Request, ConsumeStep(r) PROVE TOTPInv'
    <2>0. PICK code : code = req[r].code
      OBVIOUS
    <2>1. req[r] \in TrySteps
      BY <1>5, StepShapes DEF ConsumeStep, TypeInv
    <2>2. code \in Code /\ code[2] \in Int /\ req[r].op = "try"
      BY <1>5, <2>0, <2>1 DEF TrySteps, Code, Steps, ConsumeStep
    <2>3. PICK i \in req[r].left :
             LET moved == {t \in totp : t.id = i /\ t.mru < req[r].code[2]} IN
             /\ totp' = (totp \ moved) \cup {[t EXCEPT !.mru = req[r].code[2]] : t \in moved}
             /\ IF moved # {}
                THEN Used(req[r].code) /\ Done(r)
                ELSE UNCHANGED uses /\ Goto(r, [req[r] EXCEPT !.left = @ \ {i}])
      BY <1>5 DEF ConsumeStep
    <2> DEFINE moved == {t \in totp : t.id = i /\ t.mru < req[r].code[2]}
    <2>4. UNCHANGED enrolled
      BY <1>5 DEF ConsumeStep
    <2>5. \A t \in totp : t.mru \in Int
      BY DEF TypeInv, TOTPCredential, Steps
    <2>6. ASSUME NEW u \in totp'
          PROVE  \/ u \in totp /\ u \notin moved
                 \/ u.mru = code[2] /\ \E t \in moved : u.id = t.id /\ u.secret = t.secret
      <3>1. u \in totp \ moved \/ \E t \in moved : u = [t EXCEPT !.mru = req[r].code[2]]
        BY <2>3
      <3>2. ASSUME NEW t \in moved, u = [t EXCEPT !.mru = req[r].code[2]]
            PROVE  u.mru = code[2] /\ u.id = t.id /\ u.secret = t.secret
        <4>1. t \in TOTPCredential
          BY DEF TypeInv
        <4> QED
          BY <2>0, <3>2, <4>1 DEF TOTPCredential
      <3> QED
        BY <3>1, <3>2
    <2>7. \A t \in totp' : t.id \in DOMAIN enrolled /\ enrolled[t.id] = t.secret
      BY <2>6 DEF TOTPInv, RowsEnrolled
    <2>8. i \in DOMAIN enrolled /\ enrolled[i] = code[1]
      BY <2>0, <2>2, <2>3 DEF TOTPInv, RowsEnrolled
    <2>9. ASSUME NEW c \in Code PROVE Spent(c) \subseteq Spent(c)'
      <3>1. c[2] \in Int
        BY DEF Code, Steps
      <3>2. ASSUME NEW j \in Spent(c), NEW u \in totp', u.id = j PROVE u.mru >= c[2]
        BY <2>0, <2>2, <2>5, <2>6, <3>1, <3>2 DEF Spent
      <3> QED
        BY <2>4, <3>2 DEF Spent
    <2>10. RowsEnrolled'
      <3>1. ASSUME NEW t \in Request, req'[t].op = "try"
            PROVE  \A j \in req'[t].left :
                      j \in DOMAIN enrolled /\ enrolled[j] = req'[t].code[1]
        <4>1. CASE t # r
          BY <1>5, <3>1, <4>1, TryingOn DEF TOTPInv, RowsEnrolled
        <4>2. CASE t = r
          <5>1. PICK q : q = [req[r] EXCEPT !.left = @ \ {i}]
            OBVIOUS
          <5>2. q.code = code /\ q.left \subseteq req[r].left
            BY <2>0, <2>1, <5>1 DEF TrySteps
          <5>3. ~Done(r)
            BY <3>1, <4>2, <1>a DEF Done, Idle
          <5>4. Goto(r, q)
            BY <2>3, <5>1, <5>3
          <5> QED
            BY <2>0, <2>2, <4>2, <5>2, <5>4, <1>a DEF TOTPInv, RowsEnrolled
        <4> QED
          BY <4>1, <4>2
      <3> QED
        BY <2>4, <2>7, <3>1 DEF RowsEnrolled
    <2>11. UsesSpent'
      <3>1. CASE moved = {}
        BY <2>3, <2>9, <3>1, SpentGrows DEF TOTPInv, UsesSpent
      <3>2. CASE moved # {}
        <4>1. i \in Spent(code)' \ Spent(code)
          <5>1. i \notin Spent(code)
            BY <2>0, <2>2, <2>5, <3>2 DEF Spent
          <5>2. ASSUME NEW u \in totp', u.id = i PROVE u.mru >= code[2]
            BY <2>0, <2>2, <2>5, <2>6, <5>2
          <5> QED
            BY <2>4, <2>8, <5>1, <5>2 DEF Spent
        <4>2. ASSUME NEW c \in Code PROVE uses'[c] <= Cardinality(Spent(c))'
          <5>1. uses'[c] = IF c = code THEN uses[c] + 1 ELSE uses[c]
            BY <2>0, <2>2, <2>3, <3>2 DEF TypeInv, Used
          <5> QED
            BY <2>9, <4>1, <5>1, SpentGrows DEF TOTPInv
        <4> QED
          BY <4>2 DEF UsesSpent
      <3> QED
        BY <3>1, <3>2
    <2> QED
      BY <2>10, <2>11 DEF TOTPInv
  <1>6. ASSUME NEW r \in Request, CountPasskeys(r) PROVE TOTPInv'
    BY <1>6, <1>c DEF CountPasskeys
  <1>7. ASSUME NEW r \in Request, LoginRefused(r) PROVE TOTPInv'
    BY <1>7, <1>c DEF LoginRefused
  <1>8. ASSUME NEW r \in Request, CreateChallenge(r) PROVE TOTPInv'
    BY <1>8, <1>c DEF CreateChallenge
  <1>9. ASSUME NEW r \in Request, Register(r) PROVE TOTPInv'
    BY <1>9, <1>c DEF Register
  <1>10. ASSUME NEW r \in Request, PasskeyLogin(r) PROVE TOTPInv'
    BY <1>10, <1>c DEF PasskeyLogin
  <1>11. ASSUME NEW r \in Request, InsertPRFSlot(r) PROVE TOTPInv'
    BY <1>11, <1>c DEF InsertPRFSlot
  <1>12. ASSUME NEW r \in Request, PRFRelink(r) PROVE TOTPInv'
    BY <1>12, <1>c DEF PRFRelink
  <1>13. ASSUME NEW r \in Request, DeletePasskey(r) PROVE TOTPInv'
    BY <1>13, <1>c DEF DeletePasskey
  <1>14. ASSUME NEW r \in Request, Abandon(r) PROVE TOTPInv'
    BY <1>14, <1>c DEF Abandon
  <1>15. ASSUME NEW r \in Request, PurgeExpired(r) PROVE TOTPInv'
    <2>1. [req[r] EXCEPT !.op = "create"].op = "create"
      BY <1>15, StepShapes DEF PurgeExpired, TypeInv, BeginSteps
    <2> QED
      BY <1>15, <2>1, <1>a, NotTrying DEF PurgeExpired
  <1>16. ASSUME NEW r \in Request, TakeChallenge(r) PROVE TOTPInv'
    BY <1>16, <1>a, <1>c, NotTrying DEF TakeChallenge
  <1>17. ASSUME NEW r \in Request, LoginVerifies(r) PROVE TOTPInv'
    BY <1>17, <1>a, NotTrying DEF LoginVerifies
  <1>18. ASSUME NEW r \in Request, EnrollVerifies(r) PROVE TOTPInv'
    BY <1>18, <1>a, NotTrying DEF EnrollVerifies
  <1>19. ASSUME NEW r \in Request, DisableFindsKey(r) PROVE TOTPInv'
    BY <1>19, <1>a, NotTrying DEF DisableFindsKey
  <1>20. ASSUME NEW r \in Request, DisableLookupFails(r) PROVE TOTPInv'
    BY <1>20, <1>a, NotTrying DEF DisableLookupFails
  <1>21. ASSUME NEW r \in Request, DeletePRFSlot(r) PROVE TOTPInv'
    <2>1. [req[r] EXCEPT !.op = "delkey"].op = "delkey"
      BY <1>21, StepShapes DEF DeletePRFSlot, TypeInv, DeleteSteps
    <2> QED
      BY <1>21, <2>1, <1>a, NotTrying DEF DeletePRFSlot
  <1>22. ASSUME NEW r \in Request, NEW p \in Purpose, Begin(r, p) PROVE TOTPInv'
    BY <1>22, <1>a, NotTrying DEF Begin
  <1>23. ASSUME NEW r \in Request, NEW p \in Purpose, FindChallenge(r, p) PROVE TOTPInv'
    BY <1>23, <1>a, NotTrying DEF FindChallenge
  <1>24. CASE UNCHANGED vars
    BY <1>24, <1>b DEF vars
  <1>25. ASSUME NEW r \in Request, DisableMFA(r) PROVE TOTPInv'
    <2>1. /\ totp' = {} /\ UNCHANGED <<uses, enrolled>> /\ req'[r].op = "delkeys"
          /\ \A t \in Request \ {r} : req'[t] = req[t]
      BY <1>25, <1>a DEF DisableMFA
    <2>2. RowsEnrolled'
      BY <2>1 DEF TOTPInv, RowsEnrolled
    <2>3. ASSUME NEW c \in Code PROVE Spent(c) \subseteq Spent(c)'
      BY <2>1 DEF Spent
    <2>4. UsesSpent'
      BY <2>1, <2>3, SpentGrows DEF TOTPInv, UsesSpent
    <2> QED
      BY <2>2, <2>4 DEF TOTPInv
  <1>26. ASSUME NEW r \in Request, DeletePasskeys(r) PROVE TOTPInv'
    BY <1>26, <1>c DEF DeletePasskeys
  <1> QED
    BY <1>1, <1>2, <1>3, <1>4, <1>5, <1>6, <1>7, <1>8, <1>9, <1>10, <1>11, <1>12, <1>13, <1>14,
       <1>15, <1>16, <1>17, <1>18, <1>19, <1>20, <1>21, <1>22, <1>23, <1>24, <1>25, <1>26 DEF Next

(* A code is accepted no more often than its secret was enrolled           *)
(* (checkTOTP): the conditional update on most_recently_used_step decides  *)
(* between logins that replay a code, whatever is enrolled or deleted      *)
(* between their statements.                                               *)
THEOREM CodesSafe == Spec => []OneUsePerCode
  <1>1. Init => TOTPInv
    <2>1. ASSUME Init PROVE TOTPInv
      <3>1. RowsEnrolled
        BY <2>1 DEF Init, RowsEnrolled, Idle
      <3>2. ASSUME NEW c \in Code PROVE uses[c] <= Cardinality(Spent(c))
        <4>1. uses[c] = 0
          BY <2>1 DEF Init
        <4>2. Cardinality(Spent(c)) \in Nat
          BY <2>1, TypeStart, SpentFinite
        <4> QED
          BY <4>1, <4>2
      <3> QED
        BY <3>1, <3>2 DEF TOTPInv, UsesSpent
    <2> QED
      BY <2>1
  <1>2. TypeInv /\ TOTPInv => OneUsePerCode
    <2> SUFFICES ASSUME TypeInv, TOTPInv, NEW c \in Code
                 PROVE  uses[c] <= Cardinality({i \in DOMAIN enrolled : enrolled[i] = c[1]})
      BY DEF OneUsePerCode
    <2> DEFINE S == {i \in DOMAIN enrolled : enrolled[i] = c[1]}
    <2>1. IsFiniteSet(S) /\ Cardinality(S) \in Nat
      <3>1. IsFiniteSet(1 .. Len(enrolled))
        BY FS_Interval DEF TypeInv
      <3>2. S \subseteq 1 .. Len(enrolled)
        BY DEF TypeInv
      <3> QED
        BY <3>1, <3>2, FS_Subset, FS_CardinalityType
    <2>2. Cardinality(Spent(c)) <= Cardinality(S)
      <3>1. Spent(c) \subseteq S
        BY DEF Spent
      <3> QED
        BY <2>1, <3>1, FS_Subset
    <2>3. uses[c] <= Cardinality(Spent(c)) /\ uses[c] \in Nat /\ Cardinality(Spent(c)) \in Nat
      BY SpentFinite DEF TOTPInv, UsesSpent, TypeInv
    <2> QED
      BY <2>1, <2>2, <2>3
  <1> QED
    BY <1>1, <1>2, TypeStart, TypeStep, TOTPStep, PTL DEF Spec
=============================================================================
