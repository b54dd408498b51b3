----------------------------- MODULE HostedData -----------------------------
(***************************************************************************)
(* What the operator enters through the panel (accounts, aliases, custom   *)
(* DNS records, secondary nameservers) and what the three appliers derive  *)
(* from it: mail routes (MailRouting), zones (ZoneBuild) and web sites     *)
(* (webapply/apply.go).  The operations are adminops/accounts.go,          *)
(* adminops/dns.go and the handlers in httpapi around them; each is one    *)
(* step here, since their interleavings are the business of Accounts and   *)
(* of the appliers' own modules.  Rejected requests are left out.          *)
(***************************************************************************)
EXTENDS MailRouting, ZoneBuild

CONSTANTS
    Domain,                 \* domains the operator has mail in
    Boxes,                  \* boxes to consider: a name, and whether it has IPv6
    Locals,                 \* local parts of accounts and aliases
    External,               \* an address elsewhere
    Destinations,           \* the destinations an alias may have
    CustomRecord,           \* the custom records the operator may enter
    SecondaryNS,            \* the secondary nameservers the operator may enter
    MaxDNSRecordsPerZone,   \* the code's cap on custom records
    MaxUsers,               \* bound of the model: accounts
    MaxAliases              \* bound of the model: aliases

(* The types of custom records that the store's enumeration has. *)
Rtype == {"A", "AAAA", "CNAME", "NS", "TXT", "SRV", "MX", "SSHFP", "CAA"}

(* Names are sequences of labels, an alias without a destination is        *)
(* refused, and there is room for the first account.                       *)
ASSUME HostedDataAssumption ==
    /\ Domain \subseteq Seq(STRING)
    /\ Boxes \subseteq Seq(STRING) \X BOOLEAN
    /\ {} \notin Destinations
    /\ CustomRecord \subseteq [q : Seq(STRING), t : Rtype, p : STRING, w : STRING]
    /\ MaxUsers \in Nat \ {0}

VARIABLES
    users,      \* accounts, in the order of their creation
    aliases,
    custom,     \* DNSRecord rows
    secondary,  \* the dns_secondary_nameservers setting, without "xfr:" entries
    hostname,   \* PrimaryHostname
    v6          \* whether the box has an IPv6 address

hostedVars == <<users, aliases, custom, secondary, hostname, v6>>

Email == {Address(l, d) : l \in Locals, d \in Domain}
Source == Email \cup {Address("", d) : d \in Domain}

HostedTypeOK ==
    /\ users \in Seq([email : Email, admin : BOOLEAN]) /\ Len(users) <= MaxUsers
    /\ aliases \subseteq [source : Source, dests : Destinations, senders : {{}, {External}}]
    /\ custom \subseteq CustomRecord
    /\ secondary \in SUBSET SecondaryNS
    /\ <<hostname, v6>> \in Boxes

(* What loadInput gathers, on a box that has its DKIM key and certificates. *)
Input ==
    [hostname |-> hostname, v6 |-> v6, custom |-> custom, secondary |-> secondary,
     mail |-> MailDomains(users, aliases), users |-> UserDomains(users),
     dkim |-> TRUE, tlsa |-> TRUE, sts |-> MailDomains(users, aliases)]

(* A box after the bootstrap: one account, the admin's. *)
HostedInit ==
    /\ \E e \in Email : users = <<[email |-> e, admin |-> TRUE]>>
    /\ aliases = {} /\ custom = {} /\ secondary = {}
    /\ \E b \in Boxes : hostname = b[1] /\ v6 = b[2]

-----------------------------------------------------------------------------
(* Addresses that certificate authorities write to are not for accounts. *)
IsDCV(e) == e[1] \in {"admin", "administrator", "postmaster", "hostmaster", "webmaster", "abuse"}

CreateUser(e, admin) ==
    /\ Len(users) < MaxUsers
    /\ e \notin Emails(users) /\ ~IsDCV(e)
    /\ users' = Append(users, [email |-> e, admin |-> admin])
    /\ UNCHANGED <<aliases, custom, secondary, hostname, v6>>

IsLastAdmin(i) == \A j \in DOMAIN users : users[j].admin => j = i

UpdateUser(i) ==
    /\ users[i].admin => ~IsLastAdmin(i)
    /\ users' = [users EXCEPT ![i].admin = ~users[i].admin]
    /\ UNCHANGED <<aliases, custom, secondary, hostname, v6>>

DeleteUser(i) ==
    /\ users[i].admin => ~IsLastAdmin(i)
    /\ users' = RemoveAt(users, i)
    /\ UNCHANGED <<aliases, custom, secondary, hostname, v6>>

(* An alias replaces the one of the same source. *)
UpsertAlias(s, dests, senders) ==
    /\ LET others == {a \in aliases : a.source # s} IN
       /\ Cardinality(others) < MaxAliases
       /\ aliases' = others \cup {[source |-> s, dests |-> dests, senders |-> senders]}
    /\ UNCHANGED <<users, custom, secondary, hostname, v6>>

DeleteAlias(a) ==
    /\ aliases' = aliases \ {a}
    /\ UNCHANGED <<users, custom, secondary, hostname, v6>>

(* The zone that a custom record goes to, with room for n more records. *)
Accepts(q, t, n) ==
    \E z \in ZoneFor(q, HostedZones(Input)) :
        /\ t = "NS" => q # z
        /\ Cardinality({r \in custom : AtOrUnder(r.q, z)}) + n <= MaxDNSRecordsPerZone

CreateDNSRecord(r) ==
    /\ r \notin custom
    /\ Accepts(r.q, r.t, 1)
    /\ custom' = custom \cup {r}
    /\ UNCHANGED <<users, aliases, secondary, hostname, v6>>

(* All the values of a name and type are replaced. *)
ReplaceDNSRecords(q, t, values) ==
    /\ LET existing == {r \in custom : r.q = q /\ r.t = t} IN
       /\ Accepts(q, t, Cardinality(values) - Cardinality(existing))
       /\ custom' = (custom \ existing) \cup values
    /\ UNCHANGED <<users, aliases, secondary, hostname, v6>>

(* A record can be deleted though its domain is hosted no longer. *)
DeleteDNSRecords(q, t) ==
    /\ \E r \in custom : r.q = q /\ r.t = t
    /\ custom' = {r \in custom : ~(r.q = q /\ r.t = t)}
    /\ UNCHANGED <<users, aliases, secondary, hostname, v6>>

SetSecondaryNS(s) ==
    /\ s # secondary
    /\ secondary' = s
    /\ UNCHANGED <<users, aliases, custom, hostname, v6>>

HostedNext ==
    \/ \E e \in Email, admin \in BOOLEAN : CreateUser(e, admin)
    \/ \E i \in DOMAIN users : UpdateUser(i) \/ DeleteUser(i)
    \/ \E s \in Source, dests \in Destinations, senders \in {{}, {External}} :
          UpsertAlias(s, dests, senders)
    \/ \E a \in aliases : DeleteAlias(a)
    \/ \E r \in CustomRecord :
          \/ CreateDNSRecord(r)
          \/ DeleteDNSRecords(r.q, r.t)
          \/ ReplaceDNSRecords(r.q, r.t, {v \in CustomRecord : v.q = r.q /\ v.t = r.t})
          \/ ReplaceDNSRecords(r.q, r.t, {r})
    \/ \E s \in SUBSET SecondaryNS : SetSecondaryNS(s)

HostedSpec == HostedInit /\ [][HostedNext]_hostedVars

-----------------------------------------------------------------------------
(* Derive: the web sites, each with the name it redirects to, <<>> if it   *)
(* serves content.                                                         *)
Derive(in) ==
    LET clients == {Below(l, d) : l \in {"autoconfig", "autodiscover"}, d \in in.users}
        policies == {Below("mta-sts", d) : d \in in.mail}
        content == {in.hostname} \cup
                   ((in.mail \cup policies \cup clients) \ PointedElsewhere(in))
        www == {Below("www", z) : z \in HostedZones(in)} \ PointedElsewhere(in)
    IN  [d \in content \cup www |-> IF d \in content THEN <<>> ELSE Tail(d)]

Published == UNION {BuildZone(z, Input) : z \in HostedZones(Input)}

Routes == ApplySystemRouting(users, aliases, hostname)

(* Mail routing and DNS agree: a domain that Postfix takes mail for has    *)
(* MX, SPF, DMARC and DKIM records in the zones; a name that resolves and  *)
(* takes no mail has a null MX and no other, with SPF and DMARC, unless    *)
(* the operator gave it an MX; and there is no other null MX but those the *)
(* operator entered.  The box's own name counts as taking mail only if     *)
(* there are addresses in it.                                              *)
MXMatchesDelivery ==
    LET records == Published
        takesMail == RenderMailboxDomains(users, Routes)
                     \ ({hostname} \ MailDomains(users, aliases))
        mx(n) == {r.p : r \in {m \in records : m.q = n /\ m.t = "MX"}}
        refuses(n) == "0 ." \in mx(n) /\ ~HasPrefix(custom, n, "MX", "0 .")
        declares(n) == /\ HasPrefix(records, n, "TXT", "v=spf1 ")
                       /\ HasPrefix(records, Below("_dmarc", n), "TXT", "v=DMARC1; ")
    IN  /\ \A d \in takesMail : /\ mx(d) # {} /\ ~refuses(d)
                                /\ declares(d)
                                /\ HasPrefix(records, Below("mail", Below("_domainkey", d)),
                                   "TXT", "v=DKIM1; ")
        /\ \A n \in {r.q : r \in {a \in records : a.t \in {"A", "AAAA"}}} \ takesMail :
              IF Has(custom, n, "MX") THEN ~refuses(n) ELSE mx(n) = {"0 ."} /\ declares(n)

(* Mail is delivered where it belongs: to an account that no alias         *)
(* forwards, which alone may send from its address, whatever catch-alls    *)
(* there are, and from every role address of every domain to somewhere, by *)
(* default to the mailbox of an admin.                                     *)
MailReachesOwners ==
    LET map == RenderAliasMaps(users, Routes)
        explicit == Emails(users) \cup Sources(aliases)
        domains == RenderMailboxDomains(users, Routes)
        login == RenderSenderLoginMaps(users, Routes)
    IN  /\ \A e \in Emails(users) \ Sources(aliases) :
              Lookup(map, e) = {e} /\ Lookup(login, e) = {e}
        /\ \A d \in domains, l \in systemLocals :
              /\ Lookup(map, Address(l, d)) # {}
              /\ (Address(l, d) \notin explicit /\ Address("", d) \notin explicit)
                    => \E i \in DOMAIN users :
                          users[i].admin /\ Lookup(map, Address(l, d)) = {users[i].email}
        /\ Lookup(map, Address("root", hostname)) # {}

(* A custom record of a hosted name is published, however the names of its *)
(* zone fold into each other: only the box's own addresses, the NS records *)
(* of a name that has become an apex, and a local AAAA of a box without    *)
(* IPv6 stay out.                                                          *)
CustomRecordsLand ==
    LET records == Published IN
    \A r \in custom :
        \/ ZoneFor(r.q, HostedZones(Input)) = {}
        \/ r.q = hostname /\ r.t \in {"A", "AAAA"}
        \/ r.t = "NS" /\ r.q \in HostedZones(Input)
        \/ r.t = "AAAA" /\ r.w = Local /\ ~v6
        \/ \E p \in records : p.q = r.q /\ p.t = r.t /\ p.p = r.p /\ (p.w = r.w \/ r.w = Local)

(* Web and DNS agree: every name that nginx serves has an address here and *)
(* none elsewhere; the box's own name at least has the former.             *)
SitesResolveHere ==
    LET records == Published IN
    \A d \in DOMAIN Derive(Input) :
        /\ \E r \in records : r.q = d /\ r.t = "A" /\ r.w = Box
        /\ d # hostname => \A r \in records : r.q = d /\ r.t \in {"A", "AAAA", "CNAME"} =>
           r.w = Box
=============================================================================
