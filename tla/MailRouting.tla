---------------------------- MODULE MailRouting -----------------------------
(***************************************************************************)
(* The maps Postfix delivers by, as a function of the accounts and aliases *)
(* (materialize/render.go), and the system routes derived for the role     *)
(* addresses nobody has claimed (materialize/system.go).                   *)
(*                                                                         *)
(* An address is a local part and a domain; a catch-all has the local part *)
(* "".  Accounts come in the order they were created.  All rows belong to  *)
(* one tenant, the only one of a box.  A map is a function; its text is    *)
(* left out.                                                               *)
(***************************************************************************)
EXTENDS Naturals, Sequences, FiniteSets, Functions, SequencesExt

Address(l, d) == <<l, d>>
DomainOf(a) == a[2]

Emails(users) == {u.email : u \in ToSet(users)}
Sources(aliases) == {a.source : a \in aliases}

MailDomains(users, aliases) == {DomainOf(a) : a \in Emails(users) \cup Sources(aliases)}
UserDomains(users) == {DomainOf(a) : a \in Emails(users)}

(* firstAdminByTenant, as a set that is empty without an admin. *)
FirstAdmin(users) ==
    {users[i].email : i \in {j \in DOMAIN users :
        /\ users[j].admin
        /\ \A k \in 1 .. j - 1 : ~users[k].admin}}

systemLocals == {"postmaster", "abuse"}
hostnameLocals == {"postmaster", "abuse", "root"}

(* The domains with a catch-all that delivers. *)
CatchAlls(aliases) ==
    {DomainOf(a.source) : a \in {b \in aliases : b.source[1] = "" /\ b.dests # {}}}

Roles(users, aliases, hostname) ==
    UNION {{Address(l, d) : l \in IF d = hostname THEN hostnameLocals ELSE systemLocals} :
               d \in (MailDomains(users, aliases) \cup {hostname}) \ CatchAlls(aliases)}

(* ApplySystemRouting: the aliases with a route added for every role       *)
(* address that no account, alias or delivering catch-all covers.          *)
ApplySystemRouting(users, aliases, hostname) ==
    LET missing == Roles(users, aliases, hostname) \ (Emails(users) \cup Sources(aliases))
    IN  aliases \cup {[source |-> r, dests |-> FirstAdmin(users), senders |-> {}] :
                         r \in {s \in missing : FirstAdmin(users) # {}}}

RenderMailboxDomains(users, aliases) == MailDomains(users, aliases)

RenderMailboxMaps(users) == Emails(users)

(* A map with an entry for every account, itself, which an alias with a    *)
(* value of its own overrides.                                             *)
SelfUnless(users, aliases) ==
    LET claims == {a \in aliases : a.dests # {}}
    IN  [s \in Emails(users) \cup Sources(claims) |->
            IF s \in Sources(claims) THEN (CHOOSE a \in claims : a.source = s).dests ELSE {s}]

(* Mutant: accounts are left to the mailbox map. *)
RenderAliasMapsOnly(users, aliases) ==
    LET claims == {a \in aliases : a.dests # {}}
    IN  [s \in Sources(claims) |-> (CHOOSE a \in claims : a.source = s).dests]

RenderAliasMaps(users, aliases) == SelfUnless(users, aliases)

(* Who may use an address as sender. *)
RenderSenderLoginMaps(users, aliases) ==
    SelfUnless(users, {[a EXCEPT !.dests = IF a.senders # {} THEN a.senders ELSE @] :
                          a \in aliases})

(* A table that Postfix asks for an address and then for its domain. *)
Lookup(map, a) ==
    IF a \in DOMAIN map THEN map[a]
    ELSE IF Address("", DomainOf(a)) \in DOMAIN map THEN map[Address("", DomainOf(a))]
    ELSE {}
=============================================================================
