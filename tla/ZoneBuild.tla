----------------------------- MODULE ZoneBuild ------------------------------
(***************************************************************************)
(* The zones the box hosts and the records in them, as a function of its   *)
(* mail domains, its settings and the operator's custom records            *)
(* (dns/dns.go, dns/zonebuild.go).                                         *)
(*                                                                         *)
(* A name is the sequence of its labels, the leftmost first; a record      *)
(* carries its full name.  A value is what the code looks at: its prefix   *)
(* ("10 ", "v=spf1 ") and whose it is.  A zone is a set of records: the    *)
(* categories and the order in the file are left out.                      *)
(***************************************************************************)
EXTENDS Naturals, Sequences

Under(d, z) == Len(d) > Len(z) /\ SubSeq(d, Len(d) - Len(z) + 1, Len(d)) = z
AtOrUnder(d, z) == d = z \/ Under(d, z)

(* The name with a label in front of d. *)
Below(l, d) == <<l>> \o d

Record(q, t, p, w) == [q |-> q, t |-> t, p |-> p, w |-> w]

(* Zones: domains that lie under another one fold into its zone. *)
Zones(domains) == {d \in domains : \A z \in domains : ~Under(d, z)}

(* ZoneFor, as the set of the zones that match. *)
ZoneFor(q, zones) == {z \in zones : AtOrUnder(q, z)}

(* Addresses a custom record may give: the box's own by name or by value.  *)
Local == "local"
Box == "box"

(* Mutant: a CNAME is not taken for pointing elsewhere. *)
PointedElsewhereByAddress(in) ==
    {r.q : r \in {c \in in.custom : c.t \in {"A", "AAAA"} /\ c.w \notin {Local, Box}}}

(* The names that custom records point away from this box. *)
PointedElsewhere(in) ==
    {r.q : r \in {c \in in.custom :
                     \/ c.t = "CNAME"
                     \/ c.t \in {"A", "AAAA"} /\ c.w \notin {Local, Box}}}

Has(records, q, t) == \E r \in records : r.q = q /\ r.t = t
HasPrefix(records, q, t, p) == \E r \in records : r.q = q /\ r.t = t /\ r.p = p

-----------------------------------------------------------------------------
(* BuildZones: the names the box serves besides the mail domains. *)

HostedZones(in) == Zones(in.mail \cup {in.hostname})

AutoNames(in) ==
    LET wanted == {Below("www", z) : z \in HostedZones(in)}
                  \cup {Below(l, d) : l \in {"autoconfig", "autodiscover"}, d \in in.users}
                  \cup {Below("mta-sts", d) : d \in in.mail}
    IN  (wanted \ PointedElsewhere(in)) \cup {Below(l, in.hostname) : l \in {"ns1", "ns2"}}

Props(in) == in.mail \cup {in.hostname} \cup AutoNames(in)

(* The NS records of a zone: "xfr:" secondaries are not in in.secondary.   *)
NameServers(z, in) ==
    {Record(z, "NS", "", Below("ns1", in.hostname))}
    \cup IF in.secondary = {} THEN {Record(z, "NS", "", Below("ns2", in.hostname))}
                              ELSE {Record(z, "NS", "", s) : s \in in.secondary}

(* The box's own address and certificate records. *)
OwnRecords(d, in) ==
    IF d # in.hostname THEN {} ELSE
        {Record(d, "A", "", Box)}
        \cup (IF in.v6 THEN {Record(d, "AAAA", "", Box)} ELSE {})
        \cup (IF in.tlsa
              THEN {Record(Below(l, Below("_tcp", d)), "TLSA", "", Box) : l \in {"_25", "_443"}}
              ELSE {})

(* Mutant: custom records below the name are left to the name itself. *)
FilterCustomExact(d, in) == {r \in in.custom : r.q = d}

FilterCustom(d, in) == {r \in in.custom : AtOrUnder(r.q, d)}

(* Custom records, unless one of their name and type is there already. *)
AddCustom(d, in, records) ==
    records \cup
    {[r EXCEPT !.w = IF r.t \in {"A", "AAAA"} /\ r.w = Local THEN Box ELSE @] :
        r \in {c \in FilterCustom(d, in) : /\ ~Has(records, c.q, c.t)
                                           /\ ~(c.t = "AAAA" /\ c.w = Local /\ ~in.v6)}}

(* Default addresses, unless custom records took the name. *)
AddAddresses(d, in, records) ==
    LET took == Has(records, d, "A") \/ Has(records, d, "CNAME") IN
    records
    \cup (IF took THEN {} ELSE {Record(d, "A", "", Box)})
    \cup (IF ~in.v6 \/ took \/ Has(records, d, "AAAA") THEN {} ELSE {Record(d, "AAAA", "", Box)})

(* Name, type and prefix of the records that a mail domain has. *)
MailRecords(d, in) ==
    {<<d, "MX", "10 ">>, <<d, "TXT", "v=spf1 ">>, <<Below("_dmarc", d), "TXT", "v=DMARC1; ">>}
    \cup IF in.dkim THEN {<<Below("mail", Below("_domainkey", d)), "TXT", "v=DKIM1; ">>} ELSE {}

(* Mutant: a custom record of the type, whatever it says, is enough. *)
AddMailYielding(d, in, records) ==
    records \cup IF d \notin in.mail THEN {} ELSE
        {Record(q[1], q[2], q[3], Box) :
            q \in {m \in MailRecords(d, in) : ~Has(records, m[1], m[2])}}

(* Mail records, each unless there is a custom one of the same shape. *)
AddMail(d, in, records) ==
    records \cup IF d \notin in.mail THEN {} ELSE
        {Record(q[1], q[2], q[3], Box) :
            q \in {m \in MailRecords(d, in) : ~HasPrefix(records, m[1], m[2], m[3])}}

AddMTASTS(d, in, records) ==
    records \cup IF d \in in.mail /\ d \in in.sts /\ ~Has(records, Below("_mta-sts", d), "TXT")
                 THEN {Record(Below("_mta-sts", d), "TXT", "v=STSv1; ", Box)}
                 ELSE {}

(* buildZone for one name, after what comes first. *)
Build(d, in, first) ==
    AddMTASTS(d, in, AddMail(d, in, AddAddresses(d, in, AddCustom(d, in, first))))

(* The names that resolve and take no mail, and the records by which they  *)
(* declare so.                                                             *)
Mailless(records) ==
    {r.q : r \in {a \in records : a.t \in {"A", "AAAA"}}}
    \ {r.q : r \in {m \in records : m.t = "MX"}}

NullRecords(n) ==
    {<<n, "TXT", "v=spf1 ">>, <<Below("_dmarc", n), "TXT", "v=DMARC1; ">>, <<n, "MX", "0 .">>}

Harden(records) ==
    LET declared == UNION {NullRecords(n) : n \in Mailless(records)}
    IN  records \cup {Record(q[1], q[2], q[3], "nobody") :
                         q \in {m \in declared : ~HasPrefix(records, m[1], m[2], m[3])}}

(* buildZone for an apex: every known name under it is folded in. *)
BuildZone(z, in) ==
    LET folded == UNION {Build(sub, in, OwnRecords(sub, in)) :
                            sub \in {d \in Props(in) : Under(d, z)}}
    IN  Harden(Build(z, in, NameServers(z, in) \cup OwnRecords(z, in) \cup folded))
=============================================================================
