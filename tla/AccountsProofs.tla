--------------------------- MODULE AccountsProofs ---------------------------
(***************************************************************************)
(* Proofs about the accounts of the panel, for any number of requests at a *)
(* time, users, setup codes, credentials and failed lookups.               *)
(***************************************************************************)
EXTENDS Accounts, FiniteSetTheorems, TLAPS

Tok == [code : 0 .. MaxMinted, attempts : 0 .. MaxAttempts]

Reqs == [op : Op, user : Nat, to : {"none", "user", "admin", "session", "token"},
         code : 0 .. MaxMinted, tok : Tok]

(* What a request carries at its steps, with n rows created so far. *)
Staged(r, n) ==
    /\ r.user <= n
    /\ r.op = "handler" => n > 0
    /\ r.op \in {"oldest", "consume"} => r.user # 0
    /\ r.op \in {"checkDemote", "revokeSessions", "revokeTokens"} => r.to = "user"
    /\ r.op = "saveRole" => r.to \in {"user", "admin"}

TypeInv ==
    /\ users \subseteq 1 .. lastId
    /\ admins \subseteq users
    /\ lastId \in 0 .. MaxUsers
    /\ creds \subseteq Cred
    /\ token \in Tok
    /\ minted \in 0 .. MaxMinted
    /\ guesses \in [1 .. MaxMinted -> Nat] /\ unwritten \in [1 .. MaxMinted -> Nat]
    /\ req \in [Request -> Reqs]
    /\ \A q \in Request : Staged(req[q], lastId)
    /\ welcomed \subseteq 1 .. lastId /\ crossed \subseteq 1 .. lastId
    /\ overlapped \in BOOLEAN
    /\ failures \in 0 .. MaxFailures

(* A code that is in force, in the file or in the hands of the one request *)
(* that burns an attempt of it, has been guessed at as often as it says    *)
(* and as often as a count was not written.                                *)
Counted(t, m, g, w) ==
    /\ t.code # 0 /\ t.code <= m
    /\ g[t.code] = t.attempts + w[t.code] /\ t.attempts < MaxAttempts

GuessInv ==
    /\ \A c \in 1 .. MaxMinted : /\ guesses[c] <= MaxAttempts + unwritten[c]
                                 /\ c > minted => guesses[c] = 0 /\ unwritten[c] = 0
    /\ token = NoToken \/ Counted(token, minted, guesses, unwritten)
    /\ \A q \in Request : req[q].op = "burn" => Counted(req[q].tok, minted, guesses, unwritten)
    /\ \A p, q \in Request : req[p].op = "burn" /\ req[q].op = "burn" => p = q

(* A request that has decided to take its user's role or row away. *)
Remover(r) ==
    \/ r.op \in {"revokeSessions", "revokeTokens", "delete", "selfDelete"}
    \/ r.op = "saveRole" /\ r.to = "user"

Untargeted(a, rq) == \A q \in Request : Remover(rq[q]) => rq[q].user # a

(* Some admin is out of everybody's reach: nobody is about to remove that  *)
(* one, nor is that one to lose to an older row.                           *)
AnchorInv ==
    \/ overlapped \/ failures > 0 \/ lastId = 0
    \/ \E a \in admins :
          /\ Untargeted(a, req)
          /\ \A q \in Request : req[q].op = "oldest" /\ req[q].user = a => \A x \in users : a <= x

(* The bootstraps that have won. *)
Winners == welcomed \cup {req[q].user : q \in {p \in Request : req[p].op = "consume"}}

(* Racing bootstraps each have a row nobody else removes, and once one has *)
(* won, an older admin than all the others' stays.                         *)
BootInv ==
    \/ overlapped
    \/ /\ \A q \in Request : req[q].op = "oldest" => req[q].user \in admins /\ Untargeted(req[q].user, req)
       /\ \A p, q \in Request :
             req[p].op = "oldest" /\ req[q].op = "oldest" /\ req[p].user = req[q].user => p = q
       /\ \A x, y \in Winners : x = y
       /\ Winners # {} =>
             \E a \in admins :
                /\ Untargeted(a, req)
                /\ \A q \in Request : req[q].op = "oldest" => a < req[q].user

(* A credential obtained as an admin, of a user and a kind that a demotion *)
(* has revoked, was issued across it.                                      *)
CredInv ==
    /\ CredentialsDieWithRole
    /\ \A q \in Request : req[q].op = "saveRole" /\ req[q].to = "user" =>
          \A c \in creds : c.admin /\ c.user = req[q].user => c.user \in crossed
    /\ \A q \in Request : req[q].op = "revokeTokens" =>
          \A c \in creds : c.admin /\ c.user = req[q].user /\ c.kind = "session" => c.user \in crossed

IInv == TypeInv /\ GuessInv /\ AnchorInv /\ BootInv /\ CredInv

(* What the proofs use of the bounds. *)
LEMMA Bounds ==
    /\ MaxAttempts \in Nat /\ MaxAttempts > 0
    /\ MaxUsers \in Nat /\ MaxMinted \in Nat /\ MaxFailures \in Nat
  <1>1. MaxAttempts \in Nat \ {0}
    BY AccountsAssumption, Zenon
  <1>2. MaxUsers \in Nat /\ MaxMinted \in Nat /\ MaxFailures \in Nat
    BY AccountsAssumption, Zenon
  <1> QED
    BY <1>1, <1>2

(* The idle request carries nothing. *)
LEMMA IdleRequest ==
    /\ Idle \in Reqs /\ Idle.op = "none" /\ Idle.user = 0 /\ Idle.to = "none"
    /\ NoToken \in Tok
  BY Bounds DEF Idle, NoToken, Reqs, Op, Tok

(* A step of one request. *)
LEMMA OneRequest ==
    ASSUME TypeInv, NEW q \in Request, NEW r \in Reqs, Goto(q, r)
    PROVE  /\ req' \in [Request -> Reqs] /\ req'[q] = r
           /\ \A t \in Request : t # q => req'[t] = req[t]
  BY DEF TypeInv, Goto

(* The counts are left alone by who neither touches the file nor begins to *)
(* burn an attempt.                                                        *)
LEMMA GuessKept ==
    ASSUME GuessInv, UNCHANGED setup,
           \A t \in Request : req'[t].op = "burn" => req'[t] = req[t]
    PROVE  GuessInv'
  <1>1. token' = token /\ minted' = minted /\ guesses' = guesses /\ unwritten' = unwritten
    BY DEF setup
  <1>3. ASSUME NEW t \in Request, req'[t].op = "burn"
        PROVE  Counted(req'[t].tok, minted', guesses', unwritten') /\ req[t].op = "burn"
    <2>1. req'[t] = req[t] /\ req[t].op = "burn"
      BY <1>3
    <2>2. Counted(req[t].tok, minted, guesses, unwritten)
      BY <2>1 DEF GuessInv
    <2> QED
      BY <1>1, <2>1, <2>2 DEF Counted
  <1> QED
    BY <1>1, <1>3 DEF GuessInv

(* A step that decides on no removal of an admin, enters no race and       *)
(* carries out at most what was decided.                                   *)
Calm ==
    /\ lastId' \in Nat /\ lastId <= lastId' /\ (lastId' > 0 => lastId > 0)
    /\ overlapped' = overlapped /\ failures' = failures
    /\ \A a \in admins : Untargeted(a, req) => a \in admins'
    /\ \A x \in users' : x \in users \/ (x \in Nat /\ x > lastId)
    /\ \A t \in Request : Remover(req'[t]) =>
          req'[t].user \notin admins \/ (Remover(req[t]) /\ req'[t].user = req[t].user)
    /\ \A t \in Request : req'[t].op = "oldest" => req'[t] = req[t]
    /\ Winners' \subseteq Winners

(* Such a step leaves the anchor and the race as they are. *)
LEMMA CalmStep ==
    ASSUME TypeInv, AnchorInv, BootInv, Calm
    PROVE  AnchorInv' /\ BootInv'
  <1>1. ASSUME NEW a \in admins, Untargeted(a, req)
        PROVE  a \in admins' /\ Untargeted(a, req')
    BY <1>1 DEF Calm, Untargeted
  <1>2. AnchorInv'
    <2>1. CASE overlapped \/ failures > 0 \/ lastId = 0
      BY <2>1 DEF AnchorInv, Calm, TypeInv
    <2>2. ASSUME NEW a \in admins, Untargeted(a, req),
                 \A q \in Request : req[q].op = "oldest" /\ req[q].user = a => \A x \in users : a <= x
          PROVE  AnchorInv'
      <3>1. ASSUME NEW q \in Request, req'[q].op = "oldest", req'[q].user = a, NEW x \in users'
            PROVE  a <= x
        <4>1. req[q].op = "oldest" /\ req[q].user = a
          BY <3>1 DEF Calm
        <4>2. CASE x \in users
          BY <2>2, <4>1, <4>2
        <4>3. CASE x \in Nat /\ x > lastId
          BY <4>3 DEF TypeInv
        <4> QED
          BY <4>2, <4>3 DEF Calm
      <3> QED
        BY <1>1, <2>2, <3>1 DEF AnchorInv
    <2> QED
      BY <2>1, <2>2 DEF AnchorInv
  <1>3. BootInv'
    <2>1. CASE overlapped
      BY <2>1 DEF BootInv, Calm
    <2>2. CASE ~overlapped
      <3>1. \A q \in Request : req'[q].op = "oldest" => req'[q].user \in admins' /\ Untargeted(req'[q].user, req')
        <4> SUFFICES ASSUME NEW q \in Request, req'[q].op = "oldest"
                     PROVE  req'[q].user \in admins' /\ Untargeted(req'[q].user, req')
          OBVIOUS
        <4>1. req'[q] = req[q] /\ req[q].op = "oldest"
          BY DEF Calm
        <4>2. req[q].user \in admins /\ Untargeted(req[q].user, req)
          BY <2>2, <4>1 DEF BootInv
        <4> QED
          BY <1>1, <4>1, <4>2
      <3>2. \A p, q \in Request :
             req'[p].op = "oldest" /\ req'[q].op = "oldest" /\ req'[p].user = req'[q].user => p = q
        <4> SUFFICES ASSUME NEW p \in Request, NEW q \in Request, req'[p].op = "oldest",
                            req'[q].op = "oldest", req'[p].user = req'[q].user
                     PROVE  p = q
          OBVIOUS
        <4>1. req'[p] = req[p] /\ req'[q] = req[q]
          BY DEF Calm
        <4> QED
          BY <2>2, <4>1 DEF BootInv
      <3>3. \A x, y \in Winners' : x = y
        BY <2>2 DEF BootInv, Calm
      <3>4. ASSUME Winners' # {}
            PROVE  \E a \in admins' :
                      Untargeted(a, req') /\ \A q \in Request : req'[q].op = "oldest" => a < req'[q].user
        <4>1. PICK a \in admins :
                 Untargeted(a, req) /\ \A q \in Request : req[q].op = "oldest" => a < req[q].user
          BY <2>2, <3>4 DEF BootInv, Calm
        <4> QED
          BY <1>1, <4>1 DEF Calm
      <3> QED
        BY <3>1, <3>2, <3>3, <3>4 DEF BootInv
    <2> QED
      BY <2>1, <2>2 DEF TypeInv
  <1> QED
    BY <1>2, <1>3

(* Who revokes, adds no credential and takes no role away. *)
LEMMA CredKept ==
    ASSUME CredInv, creds' \subseteq creds, admins \subseteq admins', UNCHANGED crossed,
           \A t \in Request :
              \/ req'[t].op = "revokeTokens" \/ (req'[t].op = "saveRole" /\ req'[t].to = "user")
              => req'[t] = req[t]
    PROVE  CredInv'
  BY DEF CredInv, CredentialsDieWithRole

(* A step that changes nothing but where request q is, decides on no       *)
(* removal of an admin, and enters none of the delicate stretches.         *)
Plain(q) ==
    /\ UNCHANGED <<accounts, setup, history>>
    /\ \E r \in Reqs :
          /\ Goto(q, r) /\ Staged(r, lastId)
          /\ r.op \notin {"burn", "oldest", "consume", "selfDelete", "revokeSessions", "revokeTokens"}
          /\ Remover(r) => r.user \notin admins

(* Such a step keeps the invariant. *)
LEMMA PlainStep ==
    ASSUME IInv, NEW q \in Request, Plain(q)
    PROVE  IInv'
  <1>1. TypeInv /\ GuessInv /\ AnchorInv /\ BootInv /\ CredInv
    BY DEF IInv
  <1>2. PICK r \in Reqs :
          /\ Goto(q, r) /\ Staged(r, lastId)
          /\ r.op \notin {"burn", "oldest", "consume", "selfDelete", "revokeSessions", "revokeTokens"}
          /\ Remover(r) => r.user \notin admins
    BY DEF Plain
  <1>3. req' \in [Request -> Reqs] /\ req'[q] = r /\ \A t \in Request : t # q => req'[t] = req[t]
    BY <1>1, <1>2, OneRequest
  <1>4. /\ UNCHANGED <<users, admins, lastId, creds>> /\ UNCHANGED setup
        /\ UNCHANGED <<token, minted, guesses, unwritten>> /\ UNCHANGED <<welcomed, overlapped, crossed, failures>>
    BY DEF Plain, accounts, setup, history
  <1>5. TypeInv'
    BY <1>1, <1>2, <1>3, <1>4 DEF TypeInv
  <1>6. GuessInv'
    BY <1>1, <1>2, <1>3, <1>4, GuessKept
  <1>7. AnchorInv' /\ BootInv'
    <2>1. Winners' \subseteq Winners
      BY <1>2, <1>3, <1>4 DEF Winners
    <2>2. lastId \in Nat
      BY <1>1 DEF TypeInv
    <2>3. Calm
      BY <1>2, <1>3, <1>4, <2>1, <2>2 DEF Calm
    <2> QED
      BY <1>1, <2>3, CalmStep
  <1>8. CredInv'
    <2>1. CASE r.op = "saveRole" /\ r.to = "user"
      <3>1. r.user \notin admins
        BY <1>2, <2>1 DEF Remover
      <3>2. \A c \in creds : c.admin /\ c.user = r.user => c.user \in crossed
        BY <1>1, <3>1 DEF CredInv, CredentialsDieWithRole
      <3> QED
        BY <1>1, <1>2, <1>3, <1>4, <2>1, <3>2 DEF CredInv, CredentialsDieWithRole
    <2>2. CASE ~(r.op = "saveRole" /\ r.to = "user")
      BY <1>1, <1>2, <1>3, <1>4, <2>2, CredKept
    <2> QED
      BY <2>1, <2>2
  <1> QED
    BY <1>5, <1>6, <1>7, <1>8 DEF IInv

(* A request is admitted, looks, is answered, or is given up. *)
LEMMA AuthPlain ==
    ASSUME IInv, NEW q \in Request,
           \/ \E kind \in {"session", "token"} : AdminAuth(q, kind)
           \/ BootstrapCount(q) \/ Abandon(q)
           \/ \E u \in users : LoginVerify(q, u) \/ TokenAuth(q, u)
    PROVE  Plain(q)
  <1>0. /\ lastId \in Nat /\ users \subseteq 1 .. lastId /\ admins \subseteq users
        /\ minted \in 0 .. MaxMinted /\ MaxMinted \in Nat
    BY Bounds DEF IInv, TypeInv
  <1>1. UNCHANGED <<accounts, setup, history>>
    BY DEF AdminAuth, BootstrapCount, Abandon, LoginVerify, TokenAuth
  <1>2. ASSUME NEW r \in Reqs, Goto(q, r), r.op \in {"none", "handler", "code", "session", "token"},
               r.user <= lastId, r.op = "handler" => lastId > 0
        PROVE  Plain(q)
    BY <1>1, <1>2 DEF Plain, Staged, Remover
  <1>3. ASSUME NEW kind \in {"session", "token"}, AdminAuth(q, kind)
        PROVE  Plain(q)
    <2> DEFINE r == [Idle EXCEPT !.op = "handler", !.to = kind]
    <2>1. r \in Reqs /\ r.op = "handler" /\ r.user = 0
      BY IdleRequest DEF Reqs, Op, Idle
    <2>2. Goto(q, r)
      BY <1>3, Zenon DEF AdminAuth
    <2>3. lastId > 0
      BY <1>0, <1>3 DEF AdminAuth
    <2> HIDE DEF r
    <2> QED
      BY <1>0, <1>2, <2>1, <2>2, <2>3
  <1>4. CASE BootstrapCount(q)
    <2>1. PICK c \in 0 .. minted : Goto(q, [Idle EXCEPT !.op = "code", !.code = c])
      BY <1>4 DEF BootstrapCount
    <2> DEFINE r == [Idle EXCEPT !.op = "code", !.code = c]
    <2>2. c \in 0 .. MaxMinted
      BY <1>0
    <2>3. r \in Reqs /\ r.op = "code" /\ r.user = 0
      BY <2>2, IdleRequest DEF Reqs, Op, Idle
    <2>4. Goto(q, r)
      BY <2>1, Zenon
    <2> HIDE DEF r
    <2> QED
      BY <1>0, <1>2, <2>3, <2>4
  <1>5. CASE Abandon(q)
    BY <1>0, <1>2, <1>5, IdleRequest DEF Abandon, Done
  <1>6. ASSUME NEW u \in users, LoginVerify(q, u) \/ TokenAuth(q, u)
        PROVE  Plain(q)
    <2>1. PICK op \in {"session", "token"} : Goto(q, [Idle EXCEPT !.op = op, !.user = u])
      BY <1>6, Zenon DEF LoginVerify, TokenAuth
    <2> DEFINE r == [Idle EXCEPT !.op = op, !.user = u]
    <2>2. u \in Nat /\ u <= lastId
      BY <1>0
    <2>3. r \in Reqs /\ r.op = op /\ r.user = u
      BY <2>2, IdleRequest DEF Reqs, Op, Idle
    <2>4. Goto(q, r)
      BY <2>1, Zenon
    <2> HIDE DEF r
    <2> QED
      BY <1>2, <2>2, <2>3, <2>4
  <1> QED
    BY <1>3, <1>4, <1>5, <1>6

(* The row is loaded; who is no admin then is not checked further. *)
LEMMA LoadPlain ==
    ASSUME IInv, NEW q \in Request, NEW u \in users,
           (\E to \in {"user", "admin"} : UpdateLoad(q, u, to)) \/ DeleteLoad(q, u)
    PROVE  Plain(q)
  <1>0. lastId \in Nat /\ u \in Nat /\ u <= lastId
    BY DEF IInv, TypeInv
  <1>1. UNCHANGED <<accounts, setup, history>>
    BY DEF UpdateLoad, DeleteLoad
  <1>2. ASSUME NEW to \in {"user", "admin"}, UpdateLoad(q, u, to)
        PROVE  Plain(q)
    <2> DEFINE o == IF u \in admins /\ to = "user" THEN "checkDemote" ELSE "saveRole"
               r == [Idle EXCEPT !.op = o, !.user = u, !.to = to]
    <2>1. o \in {"checkDemote", "saveRole"} /\ (o = "checkDemote" => to = "user")
          /\ (o = "saveRole" /\ to = "user" => u \notin admins)
      OBVIOUS
    <2>2. Goto(q, r)
      BY <1>2, Zenon DEF UpdateLoad
    <2> HIDE DEF o
    <2>3. r \in Reqs /\ r.op = o /\ r.user = u /\ r.to = to
      BY <1>0, <2>1, IdleRequest DEF Reqs, Op, Idle
    <2> HIDE DEF r
    <2>4. Staged(r, lastId) /\ (Remover(r) => r.user \notin admins)
      BY <1>0, <2>1, <2>3 DEF Staged, Remover
    <2> QED
      BY <1>1, <2>1, <2>2, <2>3, <2>4 DEF Plain
  <1>3. CASE DeleteLoad(q, u)
    <2> DEFINE o == IF u \in admins THEN "checkDelete" ELSE "delete"
               r == [Idle EXCEPT !.op = o, !.user = u]
    <2>1. o \in {"checkDelete", "delete"} /\ (o = "delete" => u \notin admins)
      OBVIOUS
    <2>2. Goto(q, r)
      BY <1>3, Zenon DEF DeleteLoad
    <2> HIDE DEF o
    <2>3. r \in Reqs /\ r.op = o /\ r.user = u
      BY <1>0, <2>1, IdleRequest DEF Reqs, Op, Idle
    <2> HIDE DEF r
    <2>4. Staged(r, lastId) /\ (Remover(r) => r.user \notin admins)
      BY <1>0, <2>1, <2>3 DEF Staged, Remover
    <2> QED
      BY <1>1, <2>1, <2>2, <2>3, <2>4 DEF Plain
  <1> QED
    BY <1>2, <1>3

(* bootstrapMu: one request at a time reads the file to burn an attempt,   *)
(* and what it has read stays the count until it is written back.          *)
LEMMA CheckCodeStep ==
    ASSUME IInv, NEW q \in Request, CheckCode(q)
    PROVE  IInv'
  <1>0. TypeInv /\ GuessInv /\ AnchorInv /\ BootInv /\ CredInv /\ req[q] \in Reqs /\ Staged(req[q], lastId)
        /\ lastId \in Nat /\ req[q].op = "code"
    BY DEF IInv, TypeInv, CheckCode
  <1>1. UNCHANGED <<accounts, setup, history>>
    BY DEF CheckCode
  <1>2. CASE Done(q)
    <2>1. Plain(q)
      BY <1>0, <1>1, <1>2, IdleRequest DEF Plain, Done, Staged, Remover
    <2> QED
      BY <2>1, PlainStep
  <1>3. CASE Goto(q, [req[q] EXCEPT !.op = "create"])
    <2> DEFINE r == [req[q] EXCEPT !.op = "create"]
    <2>1. r \in Reqs /\ r.op = "create" /\ r.user = req[q].user
      BY <1>0 DEF Reqs, Op
    <2>2. Goto(q, r)
      BY <1>3, Zenon
    <2> HIDE DEF r
    <2>3. Plain(q)
      BY <1>0, <1>1, <2>1, <2>2 DEF Plain, Staged, Remover
    <2> QED
      BY <2>3, PlainStep
  <1>4. CASE token # NoToken /\ Goto(q, [req[q] EXCEPT !.op = "burn", !.tok = token])
    <2> DEFINE r == [req[q] EXCEPT !.op = "burn", !.tok = token]
    <2>1. r \in Reqs /\ r.op = "burn" /\ r.user = req[q].user /\ r.tok = token
      BY <1>0 DEF Reqs, Op, TypeInv
    <2>2. Goto(q, r)
      BY <1>4, Zenon
    <2> HIDE DEF r
    <2>3. req' \in [Request -> Reqs] /\ req'[q] = r /\ \A t \in Request : t # q => req'[t] = req[t]
      BY <1>0, <2>1, <2>2, OneRequest
    <2>4. /\ UNCHANGED <<users, admins, lastId, creds>>
          /\ UNCHANGED <<token, minted, guesses, unwritten>> /\ UNCHANGED <<welcomed, overlapped, crossed, failures>>
      BY <1>1 DEF accounts, setup, history
    <2>5. TypeInv'
      <3>1. Staged(r, lastId)
        BY <1>0, <2>1 DEF Staged
      <3> QED
        BY <1>0, <2>3, <2>4, <3>1 DEF TypeInv
    <2>6. GuessInv'
      <3>1. \A t \in Request : req[t].op # "burn"
        BY DEF CheckCode, Locked
      <3>2. Counted(token, minted, guesses, unwritten)
        BY <1>0, <1>4 DEF GuessInv
      <3>3. \A t \in Request : req'[t].op = "burn" => t = q
        BY <2>3, <3>1
      <3>4. \A t \in Request : req'[t].op = "burn" => Counted(req'[t].tok, minted', guesses', unwritten')
        BY <2>1, <2>3, <2>4, <3>2, <3>3
      <3> QED
        BY <1>0, <2>4, <3>3, <3>4 DEF GuessInv
    <2>7. AnchorInv' /\ BootInv'
      <3>1. Winners' \subseteq Winners
        BY <2>1, <2>3, <2>4 DEF Winners
      <3>2. ~Remover(r)
        BY <2>1 DEF Remover
      <3>3. Calm
        BY <1>0, <2>1, <2>3, <2>4, <3>1, <3>2 DEF Calm
      <3> QED
        BY <1>0, <3>3, CalmStep
    <2>8. CredInv'
      BY <1>0, <2>1, <2>3, <2>4, CredKept
    <2> QED
      BY <2>5, <2>6, <2>7, <2>8 DEF IInv
  <1> QED
    BY <1>2, <1>3, <1>4 DEF CheckCode

(* What a request that is done leaves of the rest. *)
LEMMA DoneKept ==
    ASSUME TypeInv, NEW q \in Request, Done(q)
    PROVE  /\ req' \in [Request -> Reqs] /\ req'[q].op = "none" /\ req'[q].user = 0
           /\ \A t \in Request : t # q => req'[t] = req[t]
           /\ \A t \in Request : req'[t].op # "none" => t # q /\ req'[t] = req[t]
           /\ \A t \in Request : Remover(req'[t]) => Remover(req[t]) /\ req'[t] = req[t]
           /\ welcomed' = welcomed => Winners' \subseteq Winners
           /\ \A n \in Nat : lastId <= n => \A t \in Request : Staged(req'[t], n)
  <1>1. req' \in [Request -> Reqs] /\ req'[q] = Idle /\ \A t \in Request : t # q => req'[t] = req[t]
    BY IdleRequest, OneRequest DEF Done
  <1>2. \A t \in Request : req'[t].op # "none" => t # q /\ req'[t] = req[t]
    BY <1>1, IdleRequest
  <1>3. \A t \in Request : Remover(req'[t]) => Remover(req[t]) /\ req'[t] = req[t]
    BY <1>2 DEF Remover
  <1>4. welcomed' = welcomed => Winners' \subseteq Winners
    BY <1>2 DEF Winners
  <1>5. ASSUME NEW n \in Nat, lastId <= n, NEW t \in Request
        PROVE  Staged(req'[t], n)
    <2>1. CASE t = q
      BY <1>1, <1>5, <2>1, IdleRequest DEF Staged
    <2>2. CASE t # q
      <3>1. req'[t] = req[t] /\ Staged(req[t], lastId) /\ req[t].user \in Nat /\ lastId \in Nat
        BY <1>1, <2>2 DEF TypeInv, Reqs
      <3> QED
        BY <1>5, <3>1 DEF Staged
    <2> QED
      BY <2>1, <2>2
  <1> QED
    BY <1>1, <1>2, <1>3, <1>4, <1>5, IdleRequest

(* The attempt is counted in the history, and in the file or among those   *)
(* that were not written; nobody else holds a reading of the file.         *)
LEMMA BurnStep ==
    ASSUME IInv, NEW q \in Request, BurnAttempt(q) \/ BurnUnwritten(q)
    PROVE  IInv'
  <1>0. TypeInv /\ GuessInv /\ AnchorInv /\ BootInv /\ CredInv /\ req[q] \in Reqs /\ lastId \in Nat
    BY DEF IInv, TypeInv
  <1> DEFINE k == req[q].tok
  <1>1. k \in Tok /\ Counted(k, minted, guesses, unwritten) /\ req[q].op = "burn"
    BY <1>0 DEF Reqs, GuessInv, BurnAttempt, BurnUnwritten
  <1>2. /\ UNCHANGED <<users, admins, lastId, creds, minted>>
        /\ UNCHANGED <<welcomed, overlapped, crossed, failures>> /\ Done(q)
    BY DEF BurnAttempt, BurnUnwritten, accounts, history
  <1>3. /\ k.code \in 1 .. MaxMinted /\ k.attempts \in Nat /\ unwritten[k.code] \in Nat
        /\ guesses[k.code] = k.attempts + unwritten[k.code]
        /\ k.attempts < MaxAttempts /\ k.code <= minted
    BY <1>0, <1>1, Bounds DEF Tok, Counted, TypeInv
  <1>4. guesses' = [guesses EXCEPT ![k.code] = @ + 1]
    BY DEF BurnAttempt, BurnUnwritten
  <1>5. guesses' \in [1 .. MaxMinted -> Nat] /\ guesses'[k.code] = guesses[k.code] + 1
        /\ \A c \in 1 .. MaxMinted : c # k.code => guesses'[c] = guesses[c]
    BY <1>0, <1>3, <1>4 DEF TypeInv
  <1>w. /\ unwritten' \in [1 .. MaxMinted -> Nat]
        /\ \A c \in 1 .. MaxMinted : c # k.code => unwritten'[c] = unwritten[c]
        /\ unwritten'[k.code] = unwritten[k.code] \/ unwritten'[k.code] = unwritten[k.code] + 1
    <2>1. unwritten' = unwritten \/ unwritten' = [unwritten EXCEPT ![k.code] = @ + 1]
      BY DEF BurnAttempt, BurnUnwritten
    <2>2. k.code \in 1 .. MaxMinted /\ unwritten \in [1 .. MaxMinted -> Nat]
      BY <1>0, <1>3 DEF TypeInv
    <2> HIDE DEF k
    <2>3. CASE unwritten' = unwritten
      BY <2>2, <2>3
    <2>4. CASE unwritten' = [unwritten EXCEPT ![k.code] = @ + 1]
      BY <2>2, <2>4
    <2> QED
      BY <2>1, <2>3, <2>4
  <1>6. token' \in Tok /\ (token' = NoToken \/ Counted(token', minted', guesses', unwritten'))
    <2>1. CASE BurnAttempt(q)
      <3>0. /\ token' = IF k.attempts + 1 >= MaxAttempts THEN NoToken
                        ELSE [k EXCEPT !.attempts = @ + 1]
            /\ unwritten' = unwritten
        BY <2>1 DEF BurnAttempt
      <3> HIDE DEF k
      <3>1. CASE k.attempts + 1 >= MaxAttempts
        BY <3>0, <3>1, IdleRequest
      <3>2. CASE k.attempts + 1 < MaxAttempts
        <4>1. token' = [k EXCEPT !.attempts = k.attempts + 1]
          BY <1>3, <3>0, <3>2, Bounds
        <4>2. token' \in Tok /\ token'.code = k.code /\ token'.attempts = k.attempts + 1
          BY <1>1, <1>3, <3>2, <4>1, Bounds DEF Tok
        <4> QED
          BY <1>2, <1>3, <1>5, <3>0, <3>2, <4>2 DEF Counted
      <3> QED
        BY <1>3, <3>1, <3>2, Bounds
    <2>2. CASE BurnUnwritten(q)
      <3>1. /\ token' = token \/ token' = NoToken
            /\ unwritten' = [unwritten EXCEPT ![k.code] = @ + 1]
        BY <2>2 DEF BurnUnwritten
      <3> HIDE DEF k
      <3>2. unwritten'[k.code] = unwritten[k.code] + 1
        BY <1>0, <1>3, <3>1 DEF TypeInv
      <3>3. CASE token' = token /\ token # NoToken
        <4>1. token \in Tok /\ Counted(token, minted, guesses, unwritten)
          BY <1>0, <3>3 DEF TypeInv, GuessInv
        <4>2. token.code \in 1 .. MaxMinted /\ token.attempts \in Nat
              /\ guesses[token.code] \in Nat /\ unwritten[token.code] \in Nat
          BY <1>0, <4>1, Bounds DEF Tok, Counted, TypeInv
        <4>3. guesses'[token.code] = token.attempts + unwritten'[token.code]
          <5>1. guesses[token.code] = token.attempts + unwritten[token.code]
            BY <4>1 DEF Counted
          <5>2. CASE token.code = k.code
            BY <1>3, <1>5, <3>2, <4>2, <5>1, <5>2
          <5>3. CASE token.code # k.code
            BY <1>5, <1>w, <4>2, <5>1, <5>3
          <5> QED
            BY <5>2, <5>3
        <4> QED
          BY <1>2, <3>3, <4>1, <4>3 DEF Counted
      <3>4. CASE token' = NoToken
        BY <3>4, IdleRequest
      <3> QED
        BY <3>1, <3>3, <3>4
    <2> QED
      BY <2>1, <2>2
  <1> HIDE DEF k
  <1>7. TypeInv'
    BY <1>0, <1>2, <1>5, <1>w, <1>6, DoneKept DEF TypeInv
  <1>8. GuessInv'
    <2>1. \A t \in Request : req'[t].op # "burn"
      BY <1>0, <1>1, <1>2, DoneKept DEF GuessInv
    <2>2. ASSUME NEW c \in 1 .. MaxMinted
          PROVE  /\ guesses'[c] <= MaxAttempts + unwritten'[c]
                 /\ c > minted' => guesses'[c] = 0 /\ unwritten'[c] = 0
      <3>1. CASE c = k.code
        <4>1. guesses'[c] <= MaxAttempts + unwritten'[c]
          <5>1. guesses'[c] = k.attempts + unwritten[c] + 1
            BY <1>3, <1>5, <3>1
          <5>2. unwritten[c] \in Nat /\ unwritten'[c] \in Nat /\ unwritten[c] <= unwritten'[c]
            BY <1>3, <1>w, <3>1
          <5> QED
            BY <1>3, <5>1, <5>2, Bounds
        <4>2. ~(c > minted')
          BY <1>0, <1>2, <1>3, <3>1 DEF TypeInv
        <4> QED
          BY <4>1, <4>2
      <3>2. CASE c # k.code
        BY <1>0, <1>2, <1>5, <1>w, <3>2 DEF GuessInv
      <3> QED
        BY <3>1, <3>2
    <2> QED
      BY <1>6, <2>1, <2>2 DEF GuessInv
  <1>9. AnchorInv' /\ BootInv'
    <2>1. Calm
      BY <1>0, <1>2, DoneKept DEF Calm
    <2> QED
      BY <1>0, <2>1, CalmStep
  <1>10. CredInv'
    BY <1>0, <1>2, DoneKept, CredKept
  <1> QED
    BY <1>7, <1>8, <1>9, <1>10 DEF IInv

(* The oldest of some rows. *)
LEMMA Least ==
    ASSUME NEW S, S \subseteq Nat, S # {}
    PROVE  Min(S) \in S /\ \A y \in S : Min(S) <= y
  <1> DEFINE R == OpToRel(<, Nat)
  <1>1. IsWellFoundedOn(R, Nat)
    BY NatLessThanWellFounded, Zenon
  <1>2. \A x, y \in Nat : x < y => <<x, y>> \in R
    BY DEF OpToRel
  <1> HIDE DEF R
  <1>3. PICK x \in S : \A y \in S : ~(<<y, x>> \in R)
    BY <1>1, WFMin, Zenon
  <1>4. ASSUME NEW y \in S
        PROVE  x <= y
    <2>1. x \in Nat /\ y \in Nat /\ ~(<<y, x>> \in R)
      BY <1>3, Zenon
    <2>2. ~(y < x)
      BY <1>2, <2>1, Zenon
    <2> QED
      BY <2>1, <2>2
  <1> QED
    BY <1>4, Zenon DEF Min

(* boxctl bootstrap mints a code nobody has guessed at. *)
LEMMA MintStep ==
    ASSUME IInv, MintCode
    PROVE  IInv'
  <1>0. TypeInv /\ GuessInv /\ AnchorInv /\ BootInv /\ CredInv /\ lastId \in Nat
    BY DEF IInv, TypeInv
  <1>1. /\ minted < MaxMinted /\ minted' = minted + 1 /\ req' = req
        /\ UNCHANGED <<guesses, unwritten>>
        /\ UNCHANGED <<users, admins, lastId, creds>> /\ UNCHANGED <<welcomed, overlapped, crossed, failures>>
    BY DEF MintCode, accounts, history
  <1>2. minted \in Nat /\ minted + 1 \in 1 .. MaxMinted /\ minted' \in 0 .. MaxMinted
    BY <1>0, <1>1, Bounds DEF TypeInv
  <1>3. token' = [code |-> minted + 1, attempts |-> 0]
    BY DEF MintCode
  <1>4. token' \in Tok /\ token'.code = minted + 1 /\ token'.attempts = 0
    BY <1>2, <1>3, Bounds DEF Tok
  <1>5. TypeInv'
    BY <1>0, <1>1, <1>2, <1>4 DEF TypeInv
  <1>6. GuessInv'
    <2>1. Counted(token', minted', guesses', unwritten')
      BY <1>0, <1>1, <1>2, <1>4, Bounds DEF Counted, GuessInv
    <2>2. ASSUME NEW q \in Request, req'[q].op = "burn"
          PROVE  Counted(req'[q].tok, minted', guesses', unwritten')
      <3>1. Counted(req[q].tok, minted, guesses, unwritten) /\ req[q].tok.code \in Nat
        BY <1>0, <1>1, <2>2 DEF GuessInv, TypeInv, Reqs, Tok
      <3> QED
        BY <1>1, <1>2, <3>1 DEF Counted
    <2>3. \A c \in 1 .. MaxMinted : /\ guesses'[c] <= MaxAttempts + unwritten'[c]
                                    /\ c > minted' => guesses'[c] = 0 /\ unwritten'[c] = 0
      BY <1>0, <1>1, <1>2 DEF GuessInv
    <2> QED
      BY <1>0, <1>1, <2>1, <2>2, <2>3 DEF GuessInv
  <1>7. AnchorInv' /\ BootInv'
    <2>1. Winners' = Winners
      BY <1>1 DEF Winners
    <2>2. Calm
      BY <1>0, <1>1, <2>1 DEF Calm
    <2> QED
      BY <1>0, <2>2, CalmStep
  <1>8. CredInv'
    BY <1>0, <1>1, CredKept
  <1> QED
    BY <1>5, <1>6, <1>7, <1>8 DEF IInv

(* The winner is answered, with the file removed or, unnoticed, left. *)
LEMMA ConsumeStep ==
    ASSUME IInv, NEW q \in Request, ConsumeCode(q)
    PROVE  IInv'
  <1> DEFINE r == [req[q] EXCEPT !.op = "session"]
  <1>0. TypeInv /\ GuessInv /\ AnchorInv /\ BootInv /\ CredInv /\ lastId \in Nat /\ req[q] \in Reqs
        /\ Staged(req[q], lastId) /\ req[q].op = "consume"
    BY DEF IInv, TypeInv, ConsumeCode
  <1>1. /\ token' = NoToken \/ token' = token
        /\ welcomed' = welcomed \cup {req[q].user}
        /\ UNCHANGED <<users, admins, lastId, creds>> /\ UNCHANGED <<minted, guesses, unwritten>>
        /\ UNCHANGED <<overlapped, crossed, failures>>
    BY DEF ConsumeCode, accounts
  <1>2. r \in Reqs /\ r.op = "session" /\ r.user = req[q].user
    BY <1>0 DEF Reqs, Op
  <1>3. Goto(q, r)
    BY Zenon DEF ConsumeCode
  <1> HIDE DEF r
  <1>4. req' \in [Request -> Reqs] /\ req'[q] = r /\ \A t \in Request : t # q => req'[t] = req[t]
    BY <1>0, <1>2, <1>3, OneRequest
  <1>5. TypeInv'
    <2>1. Staged(r, lastId)
      BY <1>0, <1>2 DEF Staged
    <2>2. req[q].user \in 1 .. lastId
      BY <1>0 DEF Staged, Reqs
    <2> QED
      BY <1>0, <1>1, <1>4, <2>1, <2>2, IdleRequest DEF TypeInv
  <1>6. GuessInv'
    <2>1. \A t \in Request : req'[t].op = "burn" => req'[t] = req[t]
      BY <1>2, <1>4
    <2>2. ASSUME NEW t \in Request, req'[t].op = "burn"
          PROVE  Counted(req'[t].tok, minted', guesses', unwritten')
      BY <1>0, <1>1, <2>1, <2>2 DEF GuessInv
    <2> QED
      BY <1>0, <1>1, <2>1, <2>2 DEF GuessInv
  <1>7. AnchorInv' /\ BootInv'
    <2>1. Winners' \subseteq Winners
      <3>1. \A t \in Request : req'[t].op = "consume" => req'[t] = req[t]
        BY <1>2, <1>4
      <3> QED
        BY <1>0, <1>1, <3>1 DEF Winners
    <2>2. ~Remover(r) /\ r.op # "oldest"
      BY <1>2 DEF Remover
    <2>3. Calm
      BY <1>0, <1>1, <1>4, <2>1, <2>2 DEF Calm
    <2> QED
      BY <1>0, <2>3, CalmStep
  <1>8. CredInv'
    BY <1>0, <1>1, <1>2, <1>4, CredKept
  <1> QED
    BY <1>5, <1>6, <1>7, <1>8 DEF IInv

(* A bootstrap has put in its row, younger than all others. *)
LEMMA CreateFirstStep ==
    ASSUME IInv, NEW q \in Request, CreateFirst(q)
    PROVE  IInv'
  <1> DEFINE u == lastId + 1
             r == [req[q] EXCEPT !.op = "oldest", !.user = lastId + 1]
  <1>0. TypeInv /\ GuessInv /\ AnchorInv /\ BootInv /\ CredInv /\ lastId \in Nat /\ req[q] \in Reqs
        /\ req[q].op = "create" /\ users \subseteq 1 .. lastId /\ admins \subseteq users
    BY DEF IInv, TypeInv, CreateFirst
  <1>1. /\ lastId < MaxUsers /\ lastId' = u /\ users' = users \cup {u} /\ admins' = admins \cup {u}
        /\ creds' = creds /\ UNCHANGED setup
        /\ UNCHANGED <<token, minted, guesses, unwritten>> /\ UNCHANGED <<welcomed, overlapped, crossed, failures>>
    BY DEF CreateFirst, setup, history
  <1>2. u \in Nat /\ u > lastId /\ u \in 0 .. MaxUsers /\ 1 .. lastId \subseteq 1 .. u /\ u \in 1 .. u
    BY <1>0, <1>1, Bounds
  <1>3. r \in Reqs /\ r.op = "oldest" /\ r.user = u
    BY <1>0, <1>2 DEF Reqs, Op
  <1>4. Goto(q, r)
    BY Zenon DEF CreateFirst
  <1> HIDE DEF r, u
  <1>5. req' \in [Request -> Reqs] /\ req'[q] = r /\ \A t \in Request : t # q => req'[t] = req[t]
    BY <1>0, <1>3, <1>4, OneRequest
  <1>6. \A t \in Request : Staged(req[t], lastId) /\ req[t].user \in Nat
    BY <1>0 DEF TypeInv, Reqs
  <1>7. TypeInv'
    <2>1. \A t \in Request : Staged(req'[t], u)
      BY <1>0, <1>2, <1>3, <1>5, <1>6 DEF Staged
    <2> QED
      BY <1>0, <1>1, <1>2, <1>5, <2>1 DEF TypeInv
  <1>8. GuessInv'
    BY <1>0, <1>1, <1>3, <1>5, GuessKept
  <1>9. Untargeted(u, req')
    <2>1. \A t \in Request : t # q => req'[t].user # u
      BY <1>0, <1>2, <1>5, <1>6 DEF Staged
    <2> QED
      BY <1>3, <1>5, <2>1 DEF Untargeted, Remover
  <1>10. ASSUME NEW a \in admins, Untargeted(a, req)
         PROVE  a \in admins' /\ Untargeted(a, req') /\ a < u /\ a # u
    BY <1>0, <1>1, <1>2, <1>3, <1>5, <1>10 DEF Untargeted, Remover
  <1>11. AnchorInv'
    <2>1. CASE overlapped \/ failures > 0
      BY <1>1, <2>1 DEF AnchorInv
    <2>2. CASE lastId = 0
      <3>1. users' = {u}
        <4>1. 1 .. 0 = {}
          OBVIOUS
        <4> QED
          BY <1>0, <1>1, <2>2, <4>1
      <3>2. u \in admins' /\ \A x \in users' : u <= x
        BY <1>1, <1>2, <3>1
      <3> QED
        BY <1>9, <3>2 DEF AnchorInv
    <2>3. ASSUME NEW a \in admins, Untargeted(a, req),
                 \A t \in Request : req[t].op = "oldest" /\ req[t].user = a => \A x \in users : a <= x
          PROVE  AnchorInv'
      <3>1. a \in admins' /\ Untargeted(a, req') /\ a < u /\ a # u /\ a \in Nat
        BY <1>0, <1>10, <2>3
      <3>2. ASSUME NEW t \in Request, req'[t].op = "oldest", req'[t].user = a, NEW x \in users'
            PROVE  a <= x
        <4>1. t # q
          BY <1>3, <1>5, <3>1, <3>2
        <4> QED
          BY <1>1, <1>2, <1>5, <2>3, <3>1, <3>2, <4>1
      <3> QED
        BY <3>1, <3>2 DEF AnchorInv
    <2> QED
      BY <1>0, <2>1, <2>2, <2>3 DEF AnchorInv
  <1>12. BootInv'
    <2>1. CASE overlapped
      BY <1>1, <2>1 DEF BootInv
    <2>2. CASE ~overlapped
      <3>1. ASSUME NEW t \in Request, req'[t].op = "oldest"
            PROVE  req'[t].user \in admins' /\ Untargeted(req'[t].user, req')
        <4>1. CASE t = q
          BY <1>1, <1>3, <1>5, <1>9, <4>1
        <4>2. CASE t # q
          BY <1>0, <1>5, <1>10, <2>2, <3>1, <4>2 DEF BootInv
        <4> QED
          BY <4>1, <4>2
      <3>2. ASSUME NEW p \in Request, NEW t \in Request, req'[p].op = "oldest", req'[t].op = "oldest",
                   req'[p].user = req'[t].user
            PROVE  p = t
        <4>1. \A x \in Request : x # q => req'[x] = req[x] /\ req[x].user # u
          BY <1>0, <1>2, <1>5, <1>6 DEF Staged
        <4>2. req'[q].user = u
          BY <1>3, <1>5
        <4>3. CASE p = q \/ t = q
          BY <3>2, <4>1, <4>2, <4>3
        <4>4. CASE p # q /\ t # q
          BY <1>0, <2>2, <3>2, <4>1, <4>4 DEF BootInv
        <4> QED
          BY <4>3, <4>4
      <3>3. Winners' = Winners
        <4>1. {p \in Request : req'[p].op = "consume"} = {p \in Request : req[p].op = "consume"}
          BY <1>0, <1>3, <1>5
        <4>2. \A p \in Request : req[p].op = "consume" => req'[p] = req[p]
          BY <1>0, <1>5
        <4> QED
          BY <1>1, <4>1, <4>2 DEF Winners
      <3>4. ASSUME Winners' # {}
            PROVE  \E a \in admins' :
                      Untargeted(a, req') /\ \A t \in Request : req'[t].op = "oldest" => a < req'[t].user
        <4>1. PICK a \in admins :
                 Untargeted(a, req) /\ \A t \in Request : req[t].op = "oldest" => a < req[t].user
          BY <1>0, <2>2, <3>3, <3>4 DEF BootInv
        <4> QED
          BY <1>3, <1>5, <1>10, <4>1
      <3>5. \A x, y \in Winners' : x = y
        BY <1>0, <2>2, <3>3 DEF BootInv
      <3> QED
        BY <3>1, <3>2, <3>4, <3>5 DEF BootInv
    <2> QED
      BY <1>0, <2>1, <2>2 DEF TypeInv
  <1>13. CredInv'
    BY <1>0, <1>1, <1>3, <1>5, CredKept
  <1> QED
    BY <1>7, <1>8, <1>11, <1>12, <1>13 DEF IInv

(* "The oldest row wins": whoever goes is not the anchor, and whoever wins *)
(* is the first to.                                                        *)
LEMMA OldestStep ==
    ASSUME IInv, NEW q \in Request, Oldest(q) \/ OldestFails(q)
    PROVE  IInv'
  <1> DEFINE u == req[q].user
  <1>0. /\ TypeInv /\ GuessInv /\ AnchorInv /\ BootInv /\ CredInv
        /\ lastId \in Nat /\ req[q] \in Reqs /\ u \in Nat
        /\ Staged(req[q], lastId) /\ req[q].op = "oldest"
        /\ users \subseteq 1 .. lastId /\ users \subseteq Nat /\ admins \subseteq users
    BY DEF IInv, TypeInv, Reqs, Oldest, OldestFails
  <1>1. /\ UNCHANGED <<users, admins, lastId, creds>> /\ UNCHANGED setup
        /\ UNCHANGED <<token, minted, guesses, unwritten>> /\ UNCHANGED <<welcomed, overlapped, crossed>>
    BY DEF Oldest, OldestFails, accounts, setup, history
  <1>2. failures' \in 0 .. MaxFailures /\ (failures' = failures \/ failures' > 0)
    BY <1>0, Bounds DEF Oldest, OldestFails, history, TypeInv
  <1>3. PICK o \in {"consume", "selfDelete"} :
           /\ Goto(q, [req[q] EXCEPT !.op = o])
           /\ o = "consume" => users # {} /\ Min(users) = u
           /\ o = "selfDelete" => failures' > 0 \/ users = {} \/ Min(users) # u
    <2>1. CASE Oldest(q)
      <3> DEFINE p == IF users # {} /\ Min(users) = req[q].user THEN "consume" ELSE "selfDelete"
      <3>1. p \in {"consume", "selfDelete"} /\ (p = "consume" => users # {} /\ Min(users) = u)
            /\ (p = "selfDelete" => users = {} \/ Min(users) # u)
        OBVIOUS
      <3>2. Goto(q, [req[q] EXCEPT !.op = p])
        BY <2>1, Zenon DEF Oldest
      <3> HIDE DEF p
      <3> QED
        BY <3>1, <3>2
    <2>2. CASE OldestFails(q)
      <3>1. failures' > 0
        BY <1>0, <2>2, Bounds DEF OldestFails, TypeInv
      <3> QED
        BY <2>2, <3>1 DEF OldestFails
    <2> QED
      BY <2>1, <2>2
  <1> DEFINE r == [req[q] EXCEPT !.op = o]
  <1>4. r \in Reqs /\ r.op = o /\ r.user = u /\ r.to = req[q].to
    BY <1>0, <1>3 DEF Reqs, Op
  <1>5. req' \in [Request -> Reqs] /\ req'[q] = r /\ \A t \in Request : t # q => req'[t] = req[t]
    BY <1>0, <1>3, <1>4, OneRequest
  <1> HIDE DEF r
  <1>6. o = "consume" => u \in users /\ \A y \in users : u <= y
    BY <1>0, <1>3, Least
  <1>7. \A a \in users : (\A y \in users : a <= y) /\ o = "selfDelete" => a # u \/ failures' > 0
    <2> SUFFICES ASSUME NEW a \in users, \A y \in users : a <= y, o = "selfDelete", a = u, ~(failures' > 0)
                 PROVE  FALSE
      OBVIOUS
    <2>1. Min(users) \in users /\ Min(users) <= a /\ a <= Min(users) /\ Min(users) \in Nat /\ a \in Nat
      BY <1>0, Least
    <2> QED
      BY <1>3, <2>1
  <1>8. TypeInv'
    <2>1. Staged(r, lastId)
      BY <1>0, <1>4 DEF Staged
    <2> QED
      BY <1>0, <1>1, <1>2, <1>5, <2>1 DEF TypeInv
  <1>9. GuessInv'
    BY <1>0, <1>1, <1>4, <1>5, GuessKept
  <1>10. ASSUME NEW a, Untargeted(a, req), a # u \/ o = "consume"
         PROVE  Untargeted(a, req')
    BY <1>4, <1>5, <1>10 DEF Untargeted, Remover
  <1>11. \A t \in Request : req'[t].op = "oldest" => t # q /\ req'[t] = req[t] /\ req[t].op = "oldest"
    BY <1>4, <1>5
  <1>12. AnchorInv'
    <2>1. CASE overlapped \/ failures' > 0 \/ lastId = 0
      BY <1>1, <2>1 DEF AnchorInv
    <2>2. CASE ~(overlapped \/ failures' > 0 \/ lastId = 0)
      <3>1. PICK a \in admins :
              /\ Untargeted(a, req)
              /\ \A t \in Request : req[t].op = "oldest" /\ req[t].user = a => \A x \in users : a <= x
        BY <1>0, <1>2, <2>2 DEF AnchorInv
      <3>2. a # u \/ o = "consume"
        BY <1>0, <1>7, <2>2, <3>1
      <3>3. Untargeted(a, req')
        BY <1>10, <3>1, <3>2
      <3> QED
        BY <1>1, <1>11, <3>1, <3>3 DEF AnchorInv
    <2> QED
      BY <2>1, <2>2
  <1>13. BootInv'
    <2>1. CASE overlapped
      BY <1>1, <2>1 DEF BootInv
    <2>2. CASE ~overlapped
      <3>0. u \in admins /\ Untargeted(u, req)
        BY <1>0, <2>2 DEF BootInv
      <3>1. ASSUME NEW t \in Request, req'[t].op = "oldest"
            PROVE  req'[t].user \in admins' /\ Untargeted(req'[t].user, req') /\ req'[t].user # u
        <4>1. t # q /\ req'[t] = req[t] /\ req[t].op = "oldest"
          BY <1>11, <3>1
        <4>2. req[t].user \in admins /\ Untargeted(req[t].user, req) /\ req[t].user # u
          BY <1>0, <2>2, <4>1 DEF BootInv
        <4> QED
          BY <1>1, <1>10, <4>1, <4>2
      <3>2. ASSUME NEW p \in Request, NEW t \in Request, req'[p].op = "oldest", req'[t].op = "oldest",
                   req'[p].user = req'[t].user
            PROVE  p = t
        BY <1>0, <1>11, <2>2, <3>2 DEF BootInv
      <3>3. CASE o = "selfDelete"
        <4>1. Winners' \subseteq Winners
          <5>1. \A t \in Request : req'[t].op = "consume" => req'[t] = req[t]
            BY <1>4, <1>5, <3>3
          <5> QED
            BY <1>1, <5>1 DEF Winners
        <4>2. \A x, y \in Winners' : x = y
          BY <1>0, <2>2, <4>1 DEF BootInv
        <4>3. ASSUME Winners' # {}
              PROVE  \E a \in admins' :
                        Untargeted(a, req') /\ \A t \in Request : req'[t].op = "oldest" => a < req'[t].user
          <5>1. PICK a \in admins :
                   Untargeted(a, req) /\ \A t \in Request : req[t].op = "oldest" => a < req[t].user
            BY <1>0, <2>2, <4>1, <4>3 DEF BootInv
          <5>2. a < u /\ a \in Nat
            BY <1>0, <5>1
          <5>3. Untargeted(a, req')
            BY <1>0, <1>10, <5>1, <5>2
          <5> QED
            BY <1>1, <1>11, <5>1, <5>3
        <4> QED
          BY <3>1, <3>2, <4>2, <4>3 DEF BootInv
      <3>4. CASE o = "consume"
        <4>1. Winners = {}
          <5> SUFFICES ASSUME Winners # {} PROVE FALSE
            OBVIOUS
          <5>1. PICK a \in admins : \A t \in Request : req[t].op = "oldest" => a < req[t].user
            BY <1>0, <2>2 DEF BootInv
          <5>2. a < u /\ u <= a /\ a \in Nat
            BY <1>0, <1>6, <3>4, <5>1
          <5> QED
            BY <1>0, <5>2
        <4>2. \A x \in Winners' : x = u
          <5>1. welcomed = {} /\ \A t \in Request : req[t].op # "consume"
            BY <4>1 DEF Winners
          <5>2. \A t \in Request : req'[t].op = "consume" => t = q
            BY <1>5, <5>1
          <5> QED
            BY <1>1, <1>4, <1>5, <5>1, <5>2 DEF Winners
        <4>3. Untargeted(u, req')
          BY <1>10, <3>0, <3>4
        <4>4. ASSUME NEW t \in Request, req'[t].op = "oldest"
              PROVE  u < req'[t].user
          <5>1. req'[t].user \in users /\ req'[t].user # u /\ req'[t].user \in Nat
            BY <1>0, <1>1, <3>1, <4>4
          <5> QED
            BY <1>0, <1>6, <3>4, <5>1
        <4> QED
          BY <1>1, <3>0, <3>1, <3>2, <4>2, <4>3, <4>4 DEF BootInv
      <3> QED
        BY <3>3, <3>4
    <2> QED
      BY <1>0, <2>1, <2>2 DEF TypeInv
  <1>14. CredInv'
    BY <1>0, <1>1, <1>4, <1>5, CredKept
  <1> QED
    BY <1>8, <1>9, <1>12, <1>13, <1>14 DEF IInv

(* isLastAdmin: a removal is decided beside no other, and leaves somebody. *)
LEMMA CheckLastStep ==
    ASSUME IInv, NEW q \in Request, CheckLast(q)
    PROVE  IInv'
  <1> DEFINE u == req[q].user
             o == IF req[q].op = "checkDelete" THEN "delete" ELSE "revokeSessions"
             r == [req[q] EXCEPT !.op = o]
  <1>0. /\ TypeInv /\ GuessInv /\ AnchorInv /\ BootInv /\ CredInv
        /\ lastId \in Nat /\ req[q] \in Reqs /\ Staged(req[q], lastId)
        /\ req[q].op \in {"checkDemote", "checkDelete"}
    BY DEF IInv, TypeInv, CheckLast
  <1>1. /\ UNCHANGED <<users, admins, lastId, creds>> /\ UNCHANGED <<accounts, setup>>
        /\ UNCHANGED <<token, minted, guesses, unwritten>> /\ UNCHANGED <<welcomed, crossed, failures>>
    BY DEF CheckLast, accounts, setup
  <1>2. CASE Done(q) /\ UNCHANGED overlapped
    <2>1. Plain(q)
      BY <1>0, <1>1, <1>2, IdleRequest DEF Plain, Done, Staged, Remover, history
    <2> QED
      BY <2>1, PlainStep
  <1>3. CASE /\ ~LastAdmin(req[q].user) /\ Goto(q, r)
             /\ overlapped' = (overlapped \/ Removing(q))
    <2>1. o \in {"delete", "revokeSessions"} /\ (o = "revokeSessions" => req[q].op = "checkDemote")
      BY <1>0
    <2> HIDE DEF o
    <2>2. r \in Reqs /\ r.op = o /\ r.user = u /\ r.to = req[q].to
      BY <1>0, <2>1 DEF Reqs, Op
    <2> HIDE DEF r
    <2>3. req' \in [Request -> Reqs] /\ req'[q] = r /\ \A t \in Request : t # q => req'[t] = req[t]
      BY <1>0, <1>3, <2>2, OneRequest
    <2>4. TypeInv'
      <3>1. Staged(r, lastId)
        BY <1>0, <2>1, <2>2 DEF Staged
      <3>2. overlapped' \in BOOLEAN
        BY <1>0, <1>3, Zenon DEF TypeInv
      <3> QED
        BY <1>0, <1>1, <2>3, <3>1, <3>2 DEF TypeInv
    <2>5. GuessInv'
      BY <1>0, <1>1, <2>1, <2>2, <2>3, GuessKept
    <2>6. AnchorInv' /\ BootInv'
      <3>1. CASE overlapped'
        BY <3>1 DEF AnchorInv, BootInv
      <3>2. CASE ~overlapped'
        <4>1. ~overlapped /\ \A t \in Request : t # q => ~Remover(req[t]) /\ req[t].op # "oldest"
          BY <1>3, <3>2 DEF Removing, Remover
        <4>2. PICK b \in admins : b # u
          BY <1>3 DEF LastAdmin
        <4>3. Untargeted(b, req')
          BY <2>2, <2>3, <4>1, <4>2 DEF Untargeted
        <4>4. \A t \in Request : req'[t].op # "oldest"
          BY <2>1, <2>2, <2>3, <4>1
        <4>5. Winners' \subseteq Winners
          <5>1. \A t \in Request : req'[t].op = "consume" => req'[t] = req[t]
            BY <2>1, <2>2, <2>3
          <5> QED
            BY <1>1, <5>1 DEF Winners
        <4>6. \A x, y \in Winners' : x = y
          BY <1>0, <4>1, <4>5 DEF BootInv
        <4>7. b \in admins'
          BY <1>1
        <4>8. AnchorInv'
          BY <4>3, <4>4, <4>7 DEF AnchorInv
        <4>9. BootInv'
          BY <4>3, <4>4, <4>6, <4>7 DEF BootInv
        <4> QED
          BY <4>8, <4>9
      <3> QED
        BY <3>1, <3>2
    <2>7. CredInv'
      BY <1>0, <1>1, <2>1, <2>2, <2>3, CredKept
    <2> QED
      BY <2>4, <2>5, <2>6, <2>7 DEF IInv
  <1> QED
    BY <1>2, <1>3, Zenon DEF CheckLast

(* A row goes that was to go, with what belongs to it. *)
LEMMA DropStep ==
    ASSUME IInv, NEW q \in Request, SelfDelete(q) \/ DeleteUser(q)
    PROVE  IInv'
  <1> DEFINE u == req[q].user
  <1>0. TypeInv /\ GuessInv /\ AnchorInv /\ BootInv /\ CredInv /\ lastId \in Nat
    BY DEF IInv, TypeInv
  <1>1. /\ Done(q) /\ Remover(req[q])
        /\ users' = users \ {u} /\ admins' = admins \ {u} /\ creds' = {c \in creds : c.user # u}
        /\ lastId' = lastId /\ UNCHANGED setup
        /\ UNCHANGED <<token, minted, guesses, unwritten>> /\ UNCHANGED <<welcomed, overlapped, crossed, failures>>
    BY DEF SelfDelete, DeleteUser, DropUser, Remover, setup, history
  <1>2. TypeInv'
    <2>1. req' \in [Request -> Reqs] /\ \A t \in Request : Staged(req'[t], lastId')
      BY <1>0, <1>1, DoneKept
    <2> QED
      BY <1>0, <1>1, <2>1 DEF TypeInv
  <1>3. GuessInv'
    BY <1>0, <1>1, DoneKept, GuessKept
  <1>4. AnchorInv' /\ BootInv'
    <2>1. \A a \in admins : Untargeted(a, req) => a \in admins'
      BY <1>1 DEF Untargeted
    <2>2. Calm
      BY <1>0, <1>1, <2>1, DoneKept DEF Calm
    <2> QED
      BY <1>0, <2>2, CalmStep
  <1>5. CredInv'
    <2>1. \A t \in Request : req'[t].op \in {"saveRole", "revokeTokens"} => req'[t] = req[t]
      BY <1>0, <1>1, DoneKept
    <2> QED
      BY <1>0, <1>1, <2>1 DEF CredInv, CredentialsDieWithRole
  <1> QED
    BY <1>2, <1>3, <1>4, <1>5 DEF IInv

(* An admin's request adds a row. *)
LEMMA CreateUserStep ==
    ASSUME IInv, NEW q \in Request, NEW role \in {"user", "admin"}, CreateUser(q, role)
    PROVE  IInv'
  <1> DEFINE u == lastId + 1
  <1>0. TypeInv /\ GuessInv /\ AnchorInv /\ BootInv /\ CredInv /\ lastId \in Nat /\ Staged(req[q], lastId)
        /\ users \subseteq 1 .. lastId /\ admins \subseteq users
    BY DEF IInv, TypeInv
  <1>1. /\ Done(q) /\ lastId > 0 /\ lastId < MaxUsers /\ lastId' = u /\ users' = users \cup {u}
        /\ admins \subseteq admins' /\ admins' \subseteq admins \cup {u}
        /\ creds' = creds /\ UNCHANGED setup
        /\ UNCHANGED <<token, minted, guesses, unwritten>> /\ UNCHANGED <<welcomed, overlapped, crossed, failures>>
    BY <1>0 DEF CreateUser, MayGrant, Staged, setup, history
  <1>2. u \in Nat /\ u > lastId /\ u \in 0 .. MaxUsers /\ 1 .. lastId \subseteq 1 .. u /\ u \in 1 .. u
    BY <1>0, <1>1, Bounds
  <1> HIDE DEF u
  <1>3. TypeInv'
    <2>1. \A t \in Request : Staged(req'[t], lastId')
      BY <1>0, <1>1, <1>2, DoneKept
    <2> QED
      BY <1>0, <1>1, <1>2, <2>1, DoneKept DEF TypeInv
  <1>4. GuessInv'
    BY <1>0, <1>1, DoneKept, GuessKept
  <1>5. AnchorInv' /\ BootInv'
    <2>1. Calm
      BY <1>0, <1>1, <1>2, DoneKept DEF Calm
    <2> QED
      BY <1>0, <2>1, CalmStep
  <1>6. CredInv'
    BY <1>0, <1>1, DoneKept, CredKept
  <1> QED
    BY <1>3, <1>4, <1>5, <1>6 DEF IInv

(* boxctl grants the role, or an owner gives up a credential: no request   *)
(* moves.                                                                  *)
LEMMA OutsideStep ==
    ASSUME IInv, (\E u \in users : MakeAdmin(u)) \/ (\E c \in creds : DropCred(c))
    PROVE  IInv'
  <1>0. TypeInv /\ GuessInv /\ AnchorInv /\ BootInv /\ CredInv /\ lastId \in Nat
    BY DEF IInv, TypeInv
  <1>1. /\ req' = req /\ UNCHANGED <<users, lastId>> /\ admins \subseteq admins' /\ admins' \subseteq users
        /\ creds' \subseteq creds /\ UNCHANGED setup
        /\ UNCHANGED <<token, minted, guesses, unwritten>> /\ UNCHANGED <<welcomed, overlapped, crossed, failures>>
    BY <1>0 DEF MakeAdmin, DropCred, TypeInv, setup, history
  <1>2. TypeInv'
    BY <1>0, <1>1 DEF TypeInv
  <1>3. GuessInv'
    BY <1>0, <1>1, GuessKept
  <1>4. AnchorInv' /\ BootInv'
    <2>1. Winners' = Winners
      BY <1>1 DEF Winners
    <2>2. Calm
      BY <1>0, <1>1, <2>1 DEF Calm
    <2> QED
      BY <1>0, <2>2, CalmStep
  <1>5. CredInv'
    BY <1>0, <1>1, CredKept
  <1> QED
    BY <1>2, <1>3, <1>4, <1>5 DEF IInv

(* revokeCredentials: the sessions, then the tokens of who is demoted. *)
LEMMA RevokeStep ==
    ASSUME IInv, NEW q \in Request, RevokeSessions(q) \/ RevokeTokens(q)
    PROVE  IInv'
  <1> DEFINE u == req[q].user
  <1>0. /\ TypeInv /\ GuessInv /\ AnchorInv /\ BootInv /\ CredInv
        /\ lastId \in Nat /\ req[q] \in Reqs /\ Staged(req[q], lastId)
    BY DEF IInv, TypeInv
  <1>1. /\ UNCHANGED <<users, admins, lastId>> /\ UNCHANGED setup /\ creds' \subseteq creds
        /\ UNCHANGED <<token, minted, guesses, unwritten>> /\ UNCHANGED <<welcomed, overlapped, crossed, failures>>
    BY DEF RevokeSessions, RevokeTokens, setup, history
  <1>2. PICK o \in {"revokeTokens", "saveRole"} :
           /\ Goto(q, [req[q] EXCEPT !.op = o])
           /\ o = "revokeTokens" => /\ req[q].op = "revokeSessions"
                                    /\ creds' = {c \in creds : ~(c.user = u /\ c.kind = "session")}
           /\ o = "saveRole" => /\ req[q].op = "revokeTokens"
                                /\ creds' = {c \in creds : ~(c.user = u /\ c.kind = "token")}
    BY DEF RevokeSessions, RevokeTokens
  <1> DEFINE r == [req[q] EXCEPT !.op = o]
  <1>3. r \in Reqs /\ r.op = o /\ r.user = u /\ r.to = req[q].to
    BY <1>0, <1>2 DEF Reqs, Op
  <1> HIDE DEF r
  <1>4. req' \in [Request -> Reqs] /\ req'[q] = r /\ \A t \in Request : t # q => req'[t] = req[t]
    <2>1. Goto(q, r)
      BY <1>2 DEF r
    <2> QED
      BY <1>0, <1>3, <2>1, OneRequest
  <1>5. r.to = "user" /\ Staged(r, lastId)
    BY <1>0, <1>2, <1>3 DEF Staged
  <1>6. TypeInv'
    BY <1>0, <1>1, <1>4, <1>5 DEF TypeInv
  <1>7. GuessInv'
    BY <1>0, <1>1, <1>2, <1>3, <1>4, GuessKept
  <1>8. AnchorInv' /\ BootInv'
    <2>1. Winners' \subseteq Winners
      <3>1. \A t \in Request : req'[t].op = "consume" => req'[t] = req[t]
        BY <1>2, <1>3, <1>4
      <3> QED
        BY <1>1, <3>1 DEF Winners
    <2>2. Remover(req[q]) /\ r.op # "oldest"
      BY <1>2, <1>3 DEF Remover
    <2>3. Calm
      BY <1>0, <1>1, <1>3, <1>4, <2>1, <2>2 DEF Calm
    <2> QED
      BY <1>0, <2>3, CalmStep
  <1>9. CredInv'
    <2>1. CredentialsDieWithRole'
      BY <1>0, <1>1 DEF CredInv, CredentialsDieWithRole
    <2>2. ASSUME o = "revokeTokens", NEW c \in creds', c.user = u, c.kind = "session"
          PROVE  FALSE
      BY <1>2, <2>2
    <2>3. ASSUME o = "saveRole", NEW c \in creds', c.admin, c.user = u
          PROVE  c.user \in crossed'
      <3>1. c \in creds /\ c.kind # "token" /\ req[q].op = "revokeTokens"
        BY <1>2, <2>3
      <3>2. c.kind = "session"
        BY <1>0, <3>1 DEF TypeInv, Cred
      <3> QED
        BY <1>0, <1>1, <2>3, <3>1, <3>2 DEF CredInv
    <2>4. ASSUME NEW t \in Request, req'[t].op = "saveRole", req'[t].to = "user"
          PROVE  \A c \in creds' : c.admin /\ c.user = req'[t].user => c.user \in crossed'
      <3>1. CASE t = q
        BY <1>2, <1>3, <1>4, <2>3, <2>4, <3>1
      <3>2. CASE t # q
        BY <1>0, <1>1, <1>4, <2>4, <3>2 DEF CredInv
      <3> QED
        BY <3>1, <3>2
    <2>5. ASSUME NEW t \in Request, req'[t].op = "revokeTokens"
          PROVE  \A c \in creds' : c.admin /\ c.user = req'[t].user /\ c.kind = "session" => c.user \in crossed'
      <3>1. CASE t = q
        BY <1>2, <1>3, <1>4, <2>2, <2>5, <3>1
      <3>2. CASE t # q
        BY <1>0, <1>1, <1>4, <2>5, <3>2 DEF CredInv
      <3> QED
        BY <3>1, <3>2
    <2> QED
      BY <2>1, <2>4, <2>5 DEF CredInv
  <1> QED
    BY <1>6, <1>7, <1>8, <1>9 DEF IInv

(* The role is saved, when nothing is left that it had given. *)
LEMMA SaveRoleStep ==
    ASSUME IInv, NEW q \in Request, SaveRole(q)
    PROVE  IInv'
  <1> DEFINE u == req[q].user
  <1>0. /\ TypeInv /\ GuessInv /\ AnchorInv /\ BootInv /\ CredInv
        /\ lastId \in Nat /\ Staged(req[q], lastId) /\ admins \subseteq users /\ req[q].op = "saveRole"
    BY DEF IInv, TypeInv, SaveRole
  <1>1. /\ Done(q) /\ UNCHANGED <<users, lastId, creds>> /\ UNCHANGED setup
        /\ UNCHANGED <<token, minted, guesses, unwritten>> /\ UNCHANGED <<welcomed, overlapped, crossed, failures>>
    BY DEF SaveRole, setup, history
  <1>2. \/ admins \subseteq admins' /\ admins' \subseteq users
        \/ req[q].to = "user" /\ admins' = admins \ {u}
    BY <1>0 DEF SaveRole, Staged
  <1>3. TypeInv'
    <2>1. req' \in [Request -> Reqs] /\ \A t \in Request : Staged(req'[t], lastId')
      BY <1>0, <1>1, DoneKept
    <2> QED
      BY <1>0, <1>1, <1>2, <2>1 DEF TypeInv
  <1>4. GuessInv'
    BY <1>0, <1>1, DoneKept, GuessKept
  <1>5. AnchorInv' /\ BootInv'
    <2>1. \A a \in admins : Untargeted(a, req) => a \in admins'
      BY <1>0, <1>2 DEF Untargeted, Remover
    <2>2. Calm
      BY <1>0, <1>1, <2>1, DoneKept DEF Calm
    <2> QED
      BY <1>0, <2>2, CalmStep
  <1>6. CredInv'
    <2>1. \A t \in Request : req'[t].op \in {"saveRole", "revokeTokens"} => req'[t] = req[t]
      BY <1>0, <1>1, DoneKept
    <2>2. CASE admins \subseteq admins'
      BY <1>0, <1>1, <2>1, <2>2, CredKept
    <2>3. CASE req[q].to = "user" /\ admins' = admins \ {u}
      <3>1. \A c \in creds : c.admin /\ c.user = u => c.user \in crossed
        BY <1>0, <2>3 DEF CredInv
      <3>2. CredentialsDieWithRole'
        BY <1>0, <1>1, <2>3, <3>1 DEF CredInv, CredentialsDieWithRole
      <3> QED
        BY <1>0, <1>1, <2>1, <3>2 DEF CredInv
    <2> QED
      BY <1>2, <2>2, <2>3
  <1> QED
    BY <1>3, <1>4, <1>5, <1>6 DEF IInv

(* NewSession and NewAPIToken: a credential of a user whose demotion has   *)
(* passed its revocation is one that crossed.                              *)
LEMMA NewCredStep ==
    ASSUME IInv, NEW q \in Request, NewCred(q)
    PROVE  IInv'
  <1> DEFINE u == req[q].user
             kind == req[q].op
             n == [user |-> u, kind |-> kind, admin |-> u \in admins]
  <1>0. /\ TypeInv /\ GuessInv /\ AnchorInv /\ BootInv /\ CredInv /\ lastId \in Nat
        /\ users \subseteq 1 .. lastId /\ req[q].op \in {"session", "token"}
    BY DEF IInv, TypeInv, NewCred
  <1>1. /\ Done(q) /\ UNCHANGED <<users, admins, lastId>> /\ UNCHANGED setup
        /\ UNCHANGED <<token, minted, guesses, unwritten>> /\ UNCHANGED <<welcomed, overlapped, failures>>
    BY DEF NewCred, setup
  <1>2. \/ /\ u \in users /\ creds' = creds \cup {n}
           /\ crossed' = IF PastRevocation(u, kind) THEN crossed \cup {u} ELSE crossed
        \/ UNCHANGED <<creds, crossed>>
    BY DEF NewCred
  <1>3. u \in users => n \in Cred /\ n.user = u /\ n.kind = kind /\ (n.admin => u \in admins)
    <2>1. users \subseteq Nat
      BY <1>0, SMT
    <2>2. (u \in admins) \in BOOLEAN /\ kind \in {"session", "token"}
      BY <1>0
    <2>3. n.user = u /\ n.kind = kind /\ n.admin = (u \in admins)
      BY Zenon
    <2> QED
      BY <2>1, <2>2, <2>3, Zenon DEF Cred
  <1> HIDE DEF n
  <1>4. TypeInv'
    <2>1. req' \in [Request -> Reqs] /\ \A t \in Request : Staged(req'[t], lastId')
      BY <1>0, <1>1, DoneKept
    <2> QED
      BY <1>0, <1>1, <1>2, <1>3, <2>1 DEF TypeInv
  <1>5. GuessInv'
    BY <1>0, <1>1, DoneKept, GuessKept
  <1>6. AnchorInv' /\ BootInv'
    <2>1. Calm
      BY <1>0, <1>1, DoneKept DEF Calm
    <2> QED
      BY <1>0, <2>1, CalmStep
  <1>7. CredInv'
    <2>1. \A t \in Request : req'[t].op \in {"saveRole", "revokeTokens"} => req'[t] = req[t]
      BY <1>0, <1>1, DoneKept
    <2>2. CASE UNCHANGED <<creds, crossed>>
      BY <1>0, <1>1, <2>1, <2>2, CredKept
    <2>3. CASE /\ u \in users /\ creds' = creds \cup {n}
               /\ crossed' = IF PastRevocation(u, kind) THEN crossed \cup {u} ELSE crossed
      <3>1. crossed \subseteq crossed' /\ (PastRevocation(u, kind) => u \in crossed')
        BY <2>3
      <3>2. CredentialsDieWithRole'
        BY <1>0, <1>1, <1>3, <2>3, <3>1 DEF CredInv, CredentialsDieWithRole
      <3>3. ASSUME NEW t \in Request, req'[t].op = "saveRole", req'[t].to = "user"
            PROVE  \A c \in creds' : c.admin /\ c.user = req'[t].user => c.user \in crossed'
        <4>1. req[t].user = u => PastRevocation(u, kind)
          BY <2>1, <3>3 DEF PastRevocation
        <4> QED
          BY <1>0, <1>3, <2>1, <2>3, <3>1, <3>3, <4>1 DEF CredInv
      <3>4. ASSUME NEW t \in Request, req'[t].op = "revokeTokens"
            PROVE  \A c \in creds' : c.admin /\ c.user = req'[t].user /\ c.kind = "session" => c.user \in crossed'
        <4>1. req'[t] = req[t] /\ req[t].to = "user"
          BY <1>0, <2>1, <3>4 DEF TypeInv, Staged
        <4>2. req[t].user = u /\ kind = "session" => PastRevocation(u, kind)
          BY <3>4, <4>1 DEF PastRevocation
        <4> QED
          BY <1>0, <1>3, <2>3, <3>1, <3>4, <4>1, <4>2 DEF CredInv
      <3> QED
        BY <3>2, <3>3, <3>4 DEF CredInv
    <2> QED
      BY <1>2, <2>2, <2>3
  <1> QED
    BY <1>4, <1>5, <1>6, <1>7 DEF IInv

(* A fresh box has no accounts and no code. *)
LEMMA InvInit == Init => IInv
  <1> SUFFICES ASSUME Init PROVE IInv
    OBVIOUS
  <1>1. /\ users = {} /\ admins = {} /\ lastId = 0 /\ creds = {} /\ token = NoToken /\ minted = 0
        /\ guesses = [c \in 1 .. MaxMinted |-> 0] /\ unwritten = [c \in 1 .. MaxMinted |-> 0]
        /\ req = [q \in Request |-> Idle]
        /\ welcomed = {} /\ overlapped = FALSE /\ crossed = {} /\ failures = 0
    BY DEF Init
  <1>2. \A q \in Request : req[q] = Idle
    BY <1>1
  <1>3. Staged(Idle, 0)
    BY IdleRequest DEF Staged
  <1>4. TypeInv
    <2>1. 0 \in 0 .. MaxUsers /\ 0 \in 0 .. MaxMinted /\ 0 \in 0 .. MaxFailures
      BY Bounds
    <2>2. guesses \in [1 .. MaxMinted -> Nat] /\ unwritten \in [1 .. MaxMinted -> Nat]
      BY <1>1
    <2>3. req \in [Request -> Reqs] /\ \A q \in Request : Staged(req[q], lastId)
      BY <1>1, <1>2, <1>3, IdleRequest
    <2> QED
      BY <1>1, <2>1, <2>2, <2>3, IdleRequest DEF TypeInv
  <1>5. GuessInv
    BY <1>1, <1>2, Bounds, IdleRequest DEF GuessInv
  <1>6. AnchorInv
    BY <1>1 DEF AnchorInv
  <1>7. BootInv
    <2>1. Winners = {}
      BY <1>1, <1>2, IdleRequest DEF Winners
    <2> QED
      BY <1>2, <2>1, IdleRequest DEF BootInv
  <1>8. CredInv
    BY <1>1 DEF CredInv, CredentialsDieWithRole
  <1> QED
    BY <1>4, <1>5, <1>6, <1>7, <1>8 DEF IInv

(* Every action keeps the invariant. *)
LEMMA InvStep ==
    ASSUME IInv, [Next]_vars
    PROVE  IInv'
  <1>1. CASE UNCHANGED vars
    <2>0. UNCHANGED <<users, admins, lastId, creds, token, minted, guesses, unwritten, req,
                      welcomed, overlapped, crossed, failures>>
      BY <1>1 DEF vars, accounts, setup, history
    <2>1. TypeInv' /\ GuessInv'
      BY <2>0 DEF IInv, TypeInv, GuessInv
    <2>2. AnchorInv' /\ CredInv'
      BY <2>0 DEF IInv, AnchorInv, CredInv, CredentialsDieWithRole
    <2>3. BootInv'
      BY <2>0 DEF IInv, BootInv, Winners
    <2> QED
      BY <2>1, <2>2, <2>3 DEF IInv
  <1>2. CASE Next
    <2>1. CASE MintCode
      BY <2>1, MintStep
    <2>2. CASE (\E u \in users : MakeAdmin(u)) \/ (\E c \in creds : DropCred(c))
      BY <2>2, OutsideStep
    <2>3. ASSUME NEW q \in Request,
              \/ \E kind \in {"session", "token"} : AdminAuth(q, kind)
              \/ \E role \in {"user", "admin"} : CreateUser(q, role)
              \/ BootstrapCount(q) \/ CheckCode(q) \/ BurnAttempt(q) \/ BurnUnwritten(q)
              \/ CreateFirst(q)
              \/ Oldest(q) \/ OldestFails(q) \/ SelfDelete(q) \/ ConsumeCode(q)
              \/ \E u \in users : \/ \E to \in {"user", "admin"} : UpdateLoad(q, u, to)
                                  \/ DeleteLoad(q, u) \/ LoginVerify(q, u) \/ TokenAuth(q, u)
              \/ CheckLast(q) \/ RevokeSessions(q) \/ RevokeTokens(q) \/ SaveRole(q)
              \/ DeleteUser(q) \/ NewCred(q) \/ Abandon(q)
          PROVE  IInv'
      <3>1. CASE \/ \E kind \in {"session", "token"} : AdminAuth(q, kind)
                 \/ BootstrapCount(q) \/ Abandon(q)
                 \/ \E u \in users : LoginVerify(q, u) \/ TokenAuth(q, u)
        BY <3>1, AuthPlain, PlainStep
      <3>2. CASE \E role \in {"user", "admin"} : CreateUser(q, role)
        BY <3>2, CreateUserStep
      <3>3. CASE CheckCode(q)
        BY <3>3, CheckCodeStep
      <3>4. CASE BurnAttempt(q) \/ BurnUnwritten(q)
        BY <3>4, BurnStep
      <3>5. CASE CreateFirst(q)
        BY <3>5, CreateFirstStep
      <3>6. CASE Oldest(q) \/ OldestFails(q)
        BY <3>6, OldestStep
      <3>7. CASE SelfDelete(q) \/ DeleteUser(q)
        BY <3>7, DropStep
      <3>8. CASE ConsumeCode(q)
        BY <3>8, ConsumeStep
      <3>9. CASE \E u \in users : (\E to \in {"user", "admin"} : UpdateLoad(q, u, to)) \/ DeleteLoad(q, u)
        BY <3>9, LoadPlain, PlainStep
      <3>10. CASE CheckLast(q)
        BY <3>10, CheckLastStep
      <3>11. CASE RevokeSessions(q) \/ RevokeTokens(q)
        BY <3>11, RevokeStep
      <3>12. CASE SaveRole(q)
        BY <3>12, SaveRoleStep
      <3>13. CASE NewCred(q)
        BY <3>13, NewCredStep
      <3> QED
        BY <2>3, <3>1, <3>2, <3>3, <3>4, <3>5, <3>6, <3>7, <3>8, <3>9, <3>10, <3>11, <3>12, <3>13,
           Zenon
    <2> QED
      BY <1>2, <2>1, <2>2, <2>3, Zenon DEF Next
  <1> QED
    BY <1>1, <1>2

(* The inductive invariant holds throughout. *)
LEMMA Invariance == Spec => []IInv
  BY InvInit, InvStep, PTL DEF Spec

(* Rows, roles, credentials and requests stay well formed: no role without *)
(* a row, no row the id sequence has not given out.                        *)
THEOREM TypesCorrect == Spec => []TypeOK
  <1>1. IInv => TypeOK
    <2> SUFFICES ASSUME IInv PROVE TypeOK
      OBVIOUS
    <2>1. token \in Tok /\ (token = NoToken \/ Counted(token, minted, guesses, unwritten)) /\ minted \in 0 .. MaxMinted
      BY DEF IInv, TypeInv, GuessInv
    <2>2. token.code \in 0 .. minted /\ token.attempts \in 0 .. MaxAttempts
      BY <2>1, Bounds DEF Tok, Counted, NoToken
    <2>3. \A q \in Request : req[q].op \in Op /\ req[q].user \in 0 .. lastId
      BY DEF IInv, TypeInv, Reqs, Staged
    <2> QED
      BY <2>2, <2>3 DEF IInv, TypeInv, TypeOK
  <1> QED
    BY <1>1, Invariance, PTL

(* A box that was set up has an admin, through racing bootstraps           *)
(* (bootstrap.go), demotions and deletions (isLastAdmin), unless two       *)
(* removals were decided side by side or the lookup of the oldest row      *)
(* failed.                                                                 *)
THEOREM AdminSafe == Spec => []AdminRemains
  <1>1. IInv => AdminRemains
    BY DEF IInv, AnchorInv, AdminRemains
  <1> QED
    BY <1>1, Invariance, PTL

(* Of any number of racing bootstraps, one is answered with success.       *)
THEOREM FirstAdminSafe == Spec => []OneFirstAdmin
  <1>1. IInv => OneFirstAdmin
    <2> SUFFICES ASSUME BootInv, ~overlapped PROVE Cardinality(welcomed) <= 1
      BY DEF IInv, OneFirstAdmin
    <2>1. \A x, y \in welcomed : x = y
      BY DEF BootInv, Winners
    <2>2. CASE welcomed = {}
      BY <2>2, FS_EmptySet
    <2>3. CASE welcomed # {}
      <3>1. PICK x \in welcomed : TRUE
        BY <2>3
      <3>2. welcomed = {x}
        BY <2>1, <3>1
      <3>3. Cardinality({x}) = 1
        BY FS_Singleton, Zenon
      <3> QED
        BY <3>2, <3>3
    <2> QED
      BY <2>2, <2>3
  <1> QED
    BY <1>1, Invariance, PTL

(* Nobody who was demoted holds a credential obtained as an admin, unless  *)
(* it was issued between revokeCredentials and the save of the role.       *)
THEOREM CredentialsSafe == Spec => []CredentialsDieWithRole
  <1>1. IInv => CredentialsDieWithRole
    BY DEF IInv, CredInv
  <1> QED
    BY <1>1, Invariance, PTL

(* No setup code is guessed at more often than bootstrapMaxAttempts,       *)
(* however requests and newly minted codes overlap, except once more for   *)
(* each count that could not be written, which checkBootstrapCode ignores. *)
THEOREM GuessesSafe == Spec => []GuessesBounded
  <1>1. IInv => GuessesBounded
    <2> SUFFICES ASSUME IInv, NEW c \in 1 .. minted
                 PROVE  guesses[c] <= MaxAttempts + unwritten[c]
      BY DEF GuessesBounded
    <2>1. c \in 1 .. MaxMinted
      BY Bounds DEF IInv, TypeInv
    <2> QED
      BY <2>1 DEF IInv, GuessInv
  <1> QED
    BY <1>1, Invariance, PTL
=============================================================================
