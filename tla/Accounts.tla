------------------------------ MODULE Accounts ------------------------------
(***************************************************************************)
(* Accounts of the panel: the first admin (httpapi/bootstrap.go and boxctl *)
(* bootstrap), roles and deletion (httpapi/users.go, adminops), and the    *)
(* credentials that go with a role (sessions, API tokens).                 *)
(*                                                                         *)
(* A user is its row id.  A request is a sequence of statements against    *)
(* the store, or of accesses to the setup-code file; requests interleave   *)
(* between them, and a request may end at any of them.  Requests that are  *)
(* refused without a change are left out.                                  *)
(***************************************************************************)
EXTENDS Naturals, FiniteSets, FiniteSetsExt

CONSTANTS
    Request,            \* requests in progress at once
    MaxAttempts,        \* bootstrapMaxAttempts, 5 in the code
    MaxUsers,           \* bound of the model: user rows ever created
    MaxMinted,          \* bound of the model: setup codes minted
    MaxCreds,           \* bound of the model: credentials at one time
    MaxFailures         \* bound of the model: failed lookups, and failed writes of a code's count

ASSUME AccountsAssumption ==
    /\ MaxAttempts \in Nat \ {0}
    /\ MaxUsers \in Nat /\ MaxMinted \in Nat /\ MaxCreds \in Nat /\ MaxFailures \in Nat

VARIABLES
    users, admins,      \* the user rows, and those with the admin role
    lastId,             \* the id sequence
    creds,              \* sessions and API tokens
    token,              \* the setup-code file
    minted,             \* codes minted so far
    req,                \* where each request is
    welcomed,           \* history: bootstraps that were answered with success
    guesses,            \* history: wrong codes answered, by the code in force
    unwritten,          \* history: those of them whose count did not reach the file
    overlapped,         \* history: a removal was decided beside another one
    crossed,            \* history: users who got a credential while being demoted
    failures

accounts == <<users, admins, lastId, creds>>
setup == <<token, minted, guesses, unwritten>>
history == <<welcomed, overlapped, crossed, failures>>
vars == <<accounts, setup, req, history>>

NoToken == [code |-> 0, attempts |-> 0]
Idle == [op |-> "none", user |-> 0, to |-> "none", code |-> 0, tok |-> NoToken]

(* A credential remembers whether it was given to an admin. *)
Cred == [user : Nat, kind : {"session", "token"}, admin : BOOLEAN]

Op == {"none", "handler", "code", "burn", "create", "oldest", "selfDelete", "consume",
       "checkDemote", "revokeSessions", "revokeTokens", "saveRole",
       "checkDelete", "delete", "session", "token"}

TypeOK ==
    /\ users \subseteq 1 .. lastId
    /\ admins \subseteq users
    /\ lastId \in 0 .. MaxUsers
    /\ creds \subseteq Cred
    /\ token.code \in 0 .. minted /\ token.attempts \in 0 .. MaxAttempts
    /\ minted \in 0 .. MaxMinted
    /\ \A q \in Request : req[q].op \in Op /\ req[q].user \in 0 .. lastId
    /\ welcomed \subseteq 1 .. lastId /\ crossed \subseteq 1 .. lastId
    /\ overlapped \in BOOLEAN
    /\ failures \in 0 .. MaxFailures

Init ==
    /\ users = {} /\ admins = {} /\ lastId = 0 /\ creds = {}
    /\ token = NoToken /\ minted = 0
    /\ guesses = [c \in 1 .. MaxMinted |-> 0] /\ unwritten = [c \in 1 .. MaxMinted |-> 0]
    /\ req = [q \in Request |-> Idle]
    /\ welcomed = {} /\ overlapped = FALSE /\ crossed = {} /\ failures = 0

Goto(q, step) == req' = [req EXCEPT ![q] = step]
Done(q) == Goto(q, Idle)

(* requireAdmin: a credential whose owner is an admin at this moment; the  *)
(* handler runs after it, and isSession tells it the kind.                 *)
AdminAuth(q, kind) ==
    /\ req[q].op = "none"
    /\ \E c \in creds : c.user \in admins /\ c.kind = kind
    /\ Goto(q, [Idle EXCEPT !.op = "handler", !.to = kind])
    /\ UNCHANGED <<accounts, setup, history>>

(* "granting admin requires an interactive session" *)
MayGrant(q, role) ==
    /\ req[q].op = "handler"
    /\ role = "admin" => req[q].to = "session"

-----------------------------------------------------------------------------
(* boxctl bootstrap and handleBootstrap *)

(* The code is refused once there is an admin; the file is replaced. *)
MintCode ==
    /\ admins = {}
    /\ minted < MaxMinted
    /\ minted' = minted + 1
    /\ token' = [code |-> minted + 1, attempts |-> 0]
    /\ UNCHANGED <<accounts, guesses, unwritten, req, history>>

(* The count check; the client sends one of the minted codes or none. *)
BootstrapCount(q) ==
    /\ req[q].op = "none"
    /\ users = {}
    /\ \E c \in 0 .. minted : Goto(q, [Idle EXCEPT !.op = "code", !.code = c])
    /\ UNCHANGED <<accounts, setup, history>>

(* bootstrapMu is held between the read of the file and its rewrite. *)
Locked == \E q \in Request : req[q].op = "burn"

(* Mutant: bootstrapMu is not taken. *)
CheckCodeUnlocked(q) ==
    /\ req[q].op = "code"
    /\ IF token = NoToken THEN Done(q)
       ELSE IF token.code = req[q].code THEN Goto(q, [req[q] EXCEPT !.op = "create"])
       ELSE Goto(q, [req[q] EXCEPT !.op = "burn", !.tok = token])
    /\ UNCHANGED <<accounts, setup, history>>

CheckCode(q) ==
    /\ req[q].op = "code" /\ ~Locked
    /\ IF token = NoToken THEN Done(q)
       ELSE IF token.code = req[q].code THEN Goto(q, [req[q] EXCEPT !.op = "create"])
       ELSE Goto(q, [req[q] EXCEPT !.op = "burn", !.tok = token])
    /\ UNCHANGED <<accounts, setup, history>>

(* The attempt is written back with the code that was read; the last one   *)
(* removes the file.                                                       *)
BurnAttempt(q) ==
    /\ req[q].op = "burn"
    /\ token' = IF req[q].tok.attempts + 1 >= MaxAttempts THEN NoToken
                ELSE [req[q].tok EXCEPT !.attempts = @ + 1]
    /\ guesses' = [guesses EXCEPT ![req[q].tok.code] = @ + 1]
    /\ Done(q)
    /\ UNCHANGED <<accounts, minted, unwritten, history>>

(* The error of the write or the removal is ignored and the guess answered *)
(* all the same; the file is as it was, or a write has left it unreadable. *)
BurnUnwritten(q) ==
    /\ req[q].op = "burn"
    /\ unwritten[req[q].tok.code] < MaxFailures
    /\ unwritten' = [unwritten EXCEPT ![req[q].tok.code] = @ + 1]
    /\ \/ token' = token
       \/ token' = NoToken /\ req[q].tok.attempts + 1 < MaxAttempts
    /\ guesses' = [guesses EXCEPT ![req[q].tok.code] = @ + 1]
    /\ Done(q)
    /\ UNCHANGED <<accounts, minted, history>>

CreateFirst(q) ==
    /\ req[q].op = "create"
    /\ lastId < MaxUsers
    /\ lastId' = lastId + 1
    /\ users' = users \cup {lastId + 1} /\ admins' = admins \cup {lastId + 1}
    /\ Goto(q, [req[q] EXCEPT !.op = "oldest", !.user = lastId + 1])
    /\ UNCHANGED <<creds, setup, history>>

(* Mutant: a request keeps the row it created. *)
OldestTrusting(q) ==
    /\ req[q].op = "oldest"
    /\ Goto(q, [req[q] EXCEPT !.op = "consume"])
    /\ UNCHANGED <<accounts, setup, history>>

(* "The oldest row wins; any later row deletes itself." *)
Oldest(q) ==
    /\ req[q].op = "oldest"
    /\ Goto(q, [req[q] EXCEPT !.op = IF users # {} /\ Min(users) = req[q].user
                                     THEN "consume" ELSE "selfDelete"])
    /\ UNCHANGED <<accounts, setup, history>>

(* A failed lookup has the same consequence. *)
OldestFails(q) ==
    /\ req[q].op = "oldest"
    /\ failures < MaxFailures
    /\ failures' = failures + 1
    /\ Goto(q, [req[q] EXCEPT !.op = "selfDelete"])
    /\ UNCHANGED <<accounts, setup, welcomed, overlapped, crossed>>

(* The row goes, and what belongs to it with it. *)
DropUser(u) ==
    /\ users' = users \ {u} /\ admins' = admins \ {u}
    /\ creds' = {c \in creds : c.user # u}
    /\ UNCHANGED lastId

SelfDelete(q) ==
    /\ req[q].op = "selfDelete"
    /\ DropUser(req[q].user)
    /\ Done(q)
    /\ UNCHANGED <<setup, history>>

(* The code is consumed, unless the file cannot be removed, which is not   *)
(* noticed; then the first session is made.                                *)
ConsumeCode(q) ==
    /\ req[q].op = "consume"
    /\ token' \in {NoToken, token}
    /\ welcomed' = welcomed \cup {req[q].user}
    /\ Goto(q, [req[q] EXCEPT !.op = "session"])
    /\ UNCHANGED <<accounts, minted, guesses, unwritten, overlapped, crossed, failures>>

-----------------------------------------------------------------------------
(* Roles: handleUpdateUser, handleDeleteUser, handleCreateUser, MakeAdmin *)

CreateUser(q, role) ==
    /\ MayGrant(q, role)
    /\ lastId < MaxUsers
    /\ lastId' = lastId + 1
    /\ users' = users \cup {lastId + 1}
    /\ admins' = IF role = "admin" THEN admins \cup {lastId + 1} ELSE admins
    /\ Done(q)
    /\ UNCHANGED <<creds, setup, history>>

MakeAdmin(u) ==
    /\ u \in users
    /\ admins' = admins \cup {u}
    /\ UNCHANGED <<users, lastId, creds, setup, req, history>>

(* The user row is loaded; its role as read decides what follows. *)
UpdateLoad(q, u, to) ==
    /\ MayGrant(q, to)
    /\ u \in users
    /\ Goto(q, [Idle EXCEPT !.op = IF u \in admins /\ to = "user" THEN "checkDemote"
                                   ELSE "saveRole",
                            !.user = u, !.to = to])
    /\ UNCHANGED <<accounts, setup, history>>

DeleteLoad(q, u) ==
    /\ req[q].op = "handler"
    /\ u \in users
    /\ Goto(q, [Idle EXCEPT !.op = IF u \in admins THEN "checkDelete" ELSE "delete", !.user = u])
    /\ UNCHANGED <<accounts, setup, history>>

(* Mutant: the admin in question is counted as well. *)
LastAdminCounting(u) == admins = {}

(* isLastAdmin *)
LastAdmin(u) == admins \ {u} = {}

(* Another request is about to take an admin away on an earlier reading. *)
Removing(q) ==
    \E p \in Request \ {q} :
        \/ req[p].op \in {"revokeSessions", "revokeTokens", "delete", "oldest", "selfDelete"}
        \/ req[p].op = "saveRole" /\ req[p].to = "user"

CheckLast(q) ==
    /\ req[q].op \in {"checkDemote", "checkDelete"}
    /\ IF LastAdmin(req[q].user)
       THEN Done(q) /\ UNCHANGED overlapped
       ELSE /\ Goto(q, [req[q] EXCEPT !.op = IF req[q].op = "checkDelete" THEN "delete"
                                             ELSE "revokeSessions"])
            /\ overlapped' = (overlapped \/ Removing(q))
    /\ UNCHANGED <<accounts, setup, welcomed, crossed, failures>>

(* revokeCredentials: two statements. *)
RevokeSessions(q) ==
    /\ req[q].op = "revokeSessions"
    /\ creds' = {c \in creds : ~(c.user = req[q].user /\ c.kind = "session")}
    /\ Goto(q, [req[q] EXCEPT !.op = "revokeTokens"])
    /\ UNCHANGED <<users, admins, lastId, setup, history>>

(* Mutant: sessions end and API tokens stay. *)
RevokeTokensForgetting(q) ==
    /\ req[q].op = "revokeTokens"
    /\ Goto(q, [req[q] EXCEPT !.op = "saveRole"])
    /\ UNCHANGED <<accounts, setup, history>>

RevokeTokens(q) ==
    /\ req[q].op = "revokeTokens"
    /\ creds' = {c \in creds : ~(c.user = req[q].user /\ c.kind = "token")}
    /\ Goto(q, [req[q] EXCEPT !.op = "saveRole"])
    /\ UNCHANGED <<users, admins, lastId, setup, history>>

(* UpdateOne fails on a row that is gone. *)
SaveRole(q) ==
    /\ req[q].op = "saveRole"
    /\ admins' = IF req[q].to = "admin" THEN admins \cup ({req[q].user} \cap users)
                 ELSE admins \ {req[q].user}
    /\ Done(q)
    /\ UNCHANGED <<users, lastId, creds, setup, history>>

DeleteUser(q) ==
    /\ req[q].op = "delete"
    /\ DropUser(req[q].user)
    /\ Done(q)
    /\ UNCHANGED <<setup, history>>

-----------------------------------------------------------------------------
(* Credentials *)

(* handleLogin: the password and the second factor are verified. *)
LoginVerify(q, u) ==
    /\ req[q].op = "none"
    /\ u \in users
    /\ Goto(q, [Idle EXCEPT !.op = "session", !.user = u])
    /\ UNCHANGED <<accounts, setup, history>>

(* handleCreateToken: requireSession has loaded the caller. *)
TokenAuth(q, u) ==
    /\ req[q].op = "none"
    /\ \E c \in creds : c.user = u /\ c.kind = "session"
    /\ Goto(q, [Idle EXCEPT !.op = "token", !.user = u])
    /\ UNCHANGED <<accounts, setup, history>>

(* A request that demotes u has passed the point where it would revoke a   *)
(* credential of this kind.                                                *)
PastRevocation(u, kind) ==
    \E p \in Request :
        /\ req[p].user = u /\ req[p].to = "user"
        /\ \/ req[p].op = "saveRole"
           \/ req[p].op = "revokeTokens" /\ kind = "session"

(* NewSession and NewAPIToken; the foreign key refuses a user who is gone. *)
NewCred(q) ==
    /\ req[q].op \in {"session", "token"}
    /\ Cardinality(creds) < MaxCreds
    /\ LET u == req[q].user
           kind == req[q].op
       IN  IF u \in users
           THEN /\ creds' = creds \cup {[user |-> u, kind |-> kind, admin |-> u \in admins]}
                /\ crossed' = IF PastRevocation(u, kind) THEN crossed \cup {u} ELSE crossed
           ELSE UNCHANGED <<creds, crossed>>
    /\ Done(q)
    /\ UNCHANGED <<users, admins, lastId, setup, welcomed, overlapped, failures>>

(* handleLogout and handleDeleteToken, by the owner. *)
DropCred(c) ==
    /\ c \in creds
    /\ creds' = creds \ {c}
    /\ UNCHANGED <<users, admins, lastId, setup, req, history>>

(* The client goes away, a statement fails, or the process stops. *)
Abandon(q) ==
    /\ req[q].op # "none"
    /\ Done(q)
    /\ UNCHANGED <<accounts, setup, history>>

Next ==
    \/ MintCode
    \/ \E u \in users : MakeAdmin(u)
    \/ \E c \in creds : DropCred(c)
    \/ \E q \in Request :
          \/ \E kind \in {"session", "token"} : AdminAuth(q, kind)
          \/ \E role \in {"user", "admin"} : CreateUser(q, role)
          \/ BootstrapCount(q) \/ CheckCode(q) \/ BurnAttempt(q) \/ BurnUnwritten(q)
          \/ CreateFirst(q)
          \/ Oldest(q) \/ OldestFails(q) \/ SelfDelete(q) \/ ConsumeCode(q)
          \/ \E u \in users : \/ \E to \in {"user", "admin"} : UpdateLoad(q, u, to)
                              \/ DeleteLoad(q, u) \/ LoginVerify(q, u) \/ TokenAuth(q, u)
          \/ CheckLast(q) \/ RevokeSessions(q) \/ RevokeTokens(q) \/ SaveRole(q)
          \/ DeleteUser(q) \/ NewCred(q) \/ Abandon(q)

Spec == Init /\ [][Next]_vars

-----------------------------------------------------------------------------
(* Once the box is set up there is an admin: "exactly one first admin      *)
(* survives (never zero)" of racing bootstraps, and the last admin can be  *)
(* neither demoted nor deleted.  Excepted are two removals that are        *)
(* decided side by side, and a lookup that failed in handleBootstrap.      *)
AdminRemains == lastId > 0 => admins # {} \/ overlapped \/ failures > 0

(* Of any number of racing bootstraps one is answered with success. *)
OneFirstAdmin == overlapped \/ Cardinality(welcomed) <= 1

(* "sessions and API tokens die with the privilege": nobody who was        *)
(* demoted holds a credential obtained as an admin, unless it was issued   *)
(* between the revocation and the save of the role.                        *)
CredentialsDieWithRole == \A c \in creds : c.admin => c.user \in admins \cup crossed

(* "wrong codes burn attempts (persisted to the file), and the fifth       *)
(* failure deletes the file so lockout survives restarts": no code is      *)
(* guessed at more often than the limit, however requests overlap, except  *)
(* once more for each time that the count could not be written.            *)
GuessesBounded == \A c \in 1 .. minted : guesses[c] <= MaxAttempts + unwritten[c]
=============================================================================
