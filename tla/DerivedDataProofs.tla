------------------------- MODULE DerivedDataProofs --------------------------
(***************************************************************************)
(* Proofs about what is derived from the rows of the store.                *)
(*                                                                         *)
(* HostedData: the zones, the web sites and the Postfix maps that the      *)
(* rows give agree with each other, for any domains, any accounts,         *)
(* aliases and custom records and any sequence of changes to them.  The    *)
(* properties speak of one state, and what makes them true is how the      *)
(* derivations are built; all they ask of the states is their types, and   *)
(* the routing that there is an admin.                                     *)
(*                                                                         *)
(* Materializer: for any set of Postfix maps, any contents of the tables   *)
(* and any number of commits, failures and crashes.                        *)
(***************************************************************************)
EXTENDS Materializer, HostedData, SequenceTheorems, WellFoundedInduction, NaturalsInduction, TLAPS

-----------------------------------------------------------------------------
(* Names and zones. *)

(* Labels: strings.  The provers do not know that a literal is one, so the *)
(* literals that the code puts in front of names are listed.               *)
Reserved == {"www", "autoconfig", "autodiscover", "mta-sts", "ns1", "ns2", "_25", "_443", "_tcp",
             "_dmarc", "mail", "_domainkey", "_mta-sts"}
Label == STRING \cup Reserved
Name == Seq(Label)

(* The listed literals are labels.                                         *)
LEMMA Labels == Reserved \subseteq Label
  BY DEF Label

(* A domain of strings is a name.                                          *)
LEMMA Names == Seq(STRING) \subseteq Name
  <1>1. STRING \subseteq Label
    BY DEF Label
  <1> QED
    BY <1>1, SeqMonotonic DEF Name

(* Under, label by label. *)
LEMMA UnderLabels ==
    ASSUME NEW d \in Name, NEW z \in Name
    PROVE  Under(d, z) <=> /\ Len(d) > Len(z)
                           /\ \A i \in 1 .. Len(z) : d[Len(d) - Len(z) + i] = z[i]
  <1>0. Len(d) \in Nat /\ Len(z) \in Nat
    BY LenProperties DEF Name
  <1>1. CASE Len(d) > Len(z)
    <2> DEFINE m == Len(d) - Len(z) + 1
               s == SubSeq(d, m, Len(d))
    <2>1. \A i \in m .. Len(d) : d[i] \in Label
      BY <1>0, <1>1, ElementOfSeq DEF Name
    <2>2. m \in Int /\ Len(d) \in Int
      BY <1>0
    <2>3. /\ s \in Name
          /\ Len(s) = IF m <= Len(d) THEN Len(d) - m + 1 ELSE 0
          /\ \A i \in 1 .. Len(d) - m + 1 : s[i] = d[m + i - 1]
      BY <2>1, <2>2, SubSeqProperties DEF Name
    <2>4. Len(s) = Len(z)
      BY <1>0, <2>3
    <2>5. \A i \in 1 .. Len(z) : s[i] = d[Len(d) - Len(z) + i]
      BY <1>0, <2>3
    <2>6. s = z <=> \A i \in 1 .. Len(z) : s[i] = z[i]
      <3> HIDE DEF s
      <3> QED
        BY <2>3, <2>4, SeqEqual DEF Name
    <2> QED
      BY <1>1, <2>5, <2>6 DEF Under
  <1> QED
    BY <1>0, <1>1 DEF Under

(* A name below a name below a third is below that. *)
LEMMA UnderTransitive ==
    ASSUME NEW d \in Name, NEW e \in Name, NEW z \in Name, AtOrUnder(d, e), AtOrUnder(e, z)
    PROVE  AtOrUnder(d, z)
  <1>0. Len(d) \in Nat /\ Len(e) \in Nat /\ Len(z) \in Nat
    BY LenProperties DEF Name
  <1>1. CASE d = e \/ e = z
    BY <1>1 DEF AtOrUnder
  <1>2. CASE Under(d, e) /\ Under(e, z)
    <2>1. Len(d) > Len(z)
      BY <1>0, <1>2, UnderLabels
    <2>2. ASSUME NEW i \in 1 .. Len(z)
          PROVE  d[Len(d) - Len(z) + i] = z[i]
      <3> DEFINE j == Len(e) - Len(z) + i
      <3>1. e[j] = z[i] /\ j \in 1 .. Len(e)
        BY <1>0, <1>2, UnderLabels
      <3>2. d[Len(d) - Len(e) + j] = e[j]
        BY <1>2, <3>1, UnderLabels
      <3>3. Len(d) - Len(e) + j = Len(d) - Len(z) + i
        BY <1>0
      <3> QED
        BY <3>1, <3>2, <3>3
    <2> QED
      BY <2>1, <2>2, UnderLabels DEF AtOrUnder
  <1> QED
    BY <1>1, <1>2 DEF AtOrUnder

(* A name with a label in front is below the name. *)
LEMMA BelowUnder ==
    ASSUME NEW l \in Label, NEW d \in Name
    PROVE  Below(l, d) \in Name /\ Under(Below(l, d), d)
  <1> DEFINE q == <<l>> \o d
  <1>0. Len(d) \in Nat
    BY LenProperties DEF Name
  <1>1. <<l>> \in Seq(Label) /\ Len(<<l>>) = 1
    OBVIOUS
  <1>2. /\ q \in Name
        /\ Len(q) = Len(<<l>>) + Len(d)
        /\ \A i \in 1 .. Len(<<l>>) + Len(d) : q[i] =
                  IF i <= Len(<<l>>) THEN <<l>>[i] ELSE d[i - Len(<<l>>)]
    BY <1>1, ConcatProperties, Zenon DEF Name
  <1> HIDE DEF q
  <1>3. Len(q) = 1 + Len(d) /\ \A i \in 1 .. 1 + Len(d) : ~(i <= 1) => q[i] = d[i - 1]
    BY <1>1, <1>2
  <1>4. ASSUME NEW i \in 1 .. Len(d)
        PROVE  q[Len(q) - Len(d) + i] = d[i]
    BY <1>0, <1>3
  <1>5. Len(q) > Len(d)
    BY <1>0, <1>3
  <1>6. Under(q, d)
    BY <1>2, <1>4, <1>5, UnderLabels
  <1> QED
    BY <1>2, <1>6 DEF q, Below

(* A set of natural numbers has a least element. *)
LEMMA Least ==
    ASSUME NEW S, S \subseteq Nat, S # {}
    PROVE  \E x \in S : \A y \in S : x <= y
  <1> DEFINE R == OpToRel(<, Nat)
  <1>1. IsWellFoundedOn(R, Nat)
    BY NatLessThanWellFounded, Zenon
  <1>2. \A x, y \in Nat : x < y => <<x, y>> \in R
    BY DEF OpToRel
  <1> HIDE DEF R
  <1>3. PICK x \in S : \A y \in S : ~(<<y, x>> \in R)
    BY <1>1, WFMin, Zenon
  <1>4. ASSUME NEW y \in S
        PROVE  x <= y
    <2>1. x \in Nat /\ y \in Nat /\ ~(<<y, x>> \in R)
      BY <1>3, Zenon
    <2>2. ~(y < x)
      BY <1>2, <2>1, Zenon
    <2> QED
      BY <2>1, <2>2
  <1> QED
    BY <1>4, Zenon

(* Every domain lies in a zone: the shortest of those it lies at or under. *)
LEMMA InSomeZone ==
    ASSUME NEW D, D \subseteq Name, NEW d \in D
    PROVE  \E z \in Zones(D) : AtOrUnder(d, z)
  <1> DEFINE A == {z \in D : AtOrUnder(d, z)}
             S == {Len(z) : z \in A}
  <1>1. S \subseteq Nat /\ S # {}
    <2>1. d \in A
      BY DEF AtOrUnder
    <2>2. \A z \in A : Len(z) \in Nat
      BY LenProperties DEF Name
    <2> QED
      BY <2>1, <2>2
  <1>2. PICK n \in S : \A k \in S : n <= k
    <2> HIDE DEF S
    <2> QED
      BY <1>1, Least
  <1>3. PICK z \in A : n = Len(z)
    BY <1>2
  <1>4. ASSUME NEW y \in D, Under(z, y)
        PROVE  FALSE
    <2>1. y \in A
      BY <1>3, <1>4, UnderTransitive DEF AtOrUnder
    <2>2. Len(z) <= Len(y)
      BY <1>2, <1>3, <2>1
    <2>3. Len(z) \in Nat /\ Len(y) \in Nat
      BY <1>3, <2>1, LenProperties DEF Name
    <2> QED
      BY <1>4, <2>2, <2>3 DEF Under
  <1> QED
    BY <1>3, <1>4 DEF Zones

-----------------------------------------------------------------------------
(* What loadInput gathers of typed rows. *)
Sound(in) ==
    /\ in.custom \subseteq CustomRecord
    /\ in.mail \subseteq Name /\ in.hostname \in Name
    /\ in.users \subseteq in.mail
    /\ in.dkim = TRUE

(* A custom record as it is published. *)
Landed(c) == [c EXCEPT !.w = IF c.t \in {"A", "AAAA"} /\ c.w = Local THEN Box ELSE c.w]

(* Where the records of a zone come from before the hardening. *)
Origin(x, in) ==
    \/ x.t \in {"NS", "TLSA", "TXT"}
    \/ x.t \in {"A", "AAAA"} /\ x.w = Box
    \/ x.t = "MX" /\ x.p # "0 ." /\ x.q \in in.mail
    \/ \E c \in in.custom : x = Landed(c)

Placed(x, d, in) == x.q \in Name /\ AtOrUnder(x.q, d) /\ Origin(x, in)

(* What a custom record keeps when it is published.                        *)
LEMMA LandedFields ==
    ASSUME NEW c \in CustomRecord
    PROVE  /\ c.q \in Name /\ c.t \in Rtype
           /\ Landed(c).q = c.q /\ Landed(c).t = c.t /\ Landed(c).p = c.p
           /\ Landed(c).w = IF c.t \in {"A", "AAAA"} /\ c.w = Local THEN Box ELSE c.w
  BY HostedDataAssumption, Names DEF Landed

(* AddCustom publishes the records of the name that nothing came before.   *)
LEMMA AddCustomLanded ==
    ASSUME NEW in, Sound(in), NEW d, NEW first
    PROVE  AddCustom(d, in, first) = first \cup
               {Landed(c) : c \in {c \in FilterCustom(d, in) :
                   /\ ~Has(first, c.q, c.t)
                   /\ ~(c.t = "AAAA" /\ c.w = Local /\ ~in.v6)}}
  BY DEF AddCustom, Landed

(* A name is at itself.                                                    *)
LEMMA AtItself == ASSUME NEW d PROVE AtOrUnder(d, d)
  BY DEF AtOrUnder

(* Two labels in front of a name.                                          *)
LEMMA BelowTwice ==
    ASSUME NEW l \in Label, NEW k \in Label, NEW d \in Name
    PROVE  Below(l, Below(k, d)) \in Name /\ AtOrUnder(Below(l, Below(k, d)), d)
  BY BelowUnder, UnderTransitive DEF AtOrUnder

(* A record of a type that says nothing of addresses or mail exchangers    *)
(* may stand anywhere in the zone.                                         *)
LEMMA PlacedBelow ==
    ASSUME NEW in, NEW d \in Name, NEW q \in Name, AtOrUnder(q, d),
           NEW t \in {"NS", "TLSA", "TXT"}, NEW p, NEW w
    PROVE  Placed(Record(q, t, p, w), d, in)
  BY DEF Record, Placed, Origin

(* Every record that the steps of buildZone add is at or under the name.   *)
LEMMA BuildPlaced ==
    ASSUME NEW in, Sound(in), NEW d \in Name, NEW first,
           \A x \in first : Placed(x, d, in)
    PROVE  \A x \in Build(d, in, first) : Placed(x, d, in)
  <1> DEFINE r1 == AddCustom(d, in, first)
             r2 == AddAddresses(d, in, r1)
             r3 == AddMail(d, in, r2)
             r4 == AddMTASTS(d, in, r3)
  <1>1. \A x \in r1 : Placed(x, d, in)
    <2>1. ASSUME NEW c \in FilterCustom(d, in)
          PROVE  Placed(Landed(c), d, in)
      <3>1. c \in in.custom /\ c \in CustomRecord /\ AtOrUnder(c.q, d)
        BY DEF FilterCustom, Sound
      <3> QED
        BY <3>1, LandedFields DEF Placed, Origin
    <2> QED
      BY <2>1, AddCustomLanded
  <1>2. \A x \in r2 : Placed(x, d, in)
    <2>1. \A t \in {"A", "AAAA"} : Placed(Record(d, t, "", Box), d, in)
      BY AtItself DEF Record, Placed, Origin
    <2> HIDE DEF r1
    <2> QED
      BY <1>1, <2>1 DEF AddAddresses
  <1>3. \A x \in r3 : Placed(x, d, in)
    <2>1. d \in in.mail => Placed(Record(d, "MX", "10 ", Box), d, in)
      BY AtItself DEF Record, Placed, Origin
    <2>2. \A p : Placed(Record(d, "TXT", p, Box), d, in)
      BY AtItself DEF Record, Placed, Origin
    <2>3. /\ \A p : Placed(Record(Below("_dmarc", d), "TXT", p, Box), d, in)
          /\ \A p : Placed(Record(Below("mail", Below("_domainkey", d)), "TXT", p, Box), d, in)
      BY Labels, BelowUnder, BelowTwice, PlacedBelow DEF Reserved, AtOrUnder
    <2>4. ASSUME d \in in.mail, NEW m \in MailRecords(d, in)
          PROVE  Placed(Record(m[1], m[2], m[3], Box), d, in)
      <3>1. \/ m = <<d, "MX", "10 ">> \/ m = <<d, "TXT", "v=spf1 ">>
            \/ m = <<Below("_dmarc", d), "TXT", "v=DMARC1; ">>
            \/ m = <<Below("mail", Below("_domainkey", d)), "TXT", "v=DKIM1; ">>
        BY <2>4 DEF MailRecords
      <3>2. CASE m = <<d, "MX", "10 ">>
        BY <2>1, <2>4, <3>2
      <3>3. CASE m = <<d, "TXT", "v=spf1 ">>
        BY <2>2, <3>3
      <3>4. CASE m = <<Below("_dmarc", d), "TXT", "v=DMARC1; ">>
        BY <2>3, <3>4
      <3>5. CASE m = <<Below("mail", Below("_domainkey", d)), "TXT", "v=DKIM1; ">>
        BY <2>3, <3>5
      <3> QED
        BY <3>1, <3>2, <3>3, <3>4, <3>5
    <2> HIDE DEF r2
    <2> QED
      BY <1>2, <2>4 DEF AddMail
  <1>4. \A x \in r4 : Placed(x, d, in)
    <2>1. \A p : Placed(Record(Below("_mta-sts", d), "TXT", p, Box), d, in)
      BY Labels, BelowUnder, BelowTwice, PlacedBelow DEF Reserved, AtOrUnder
    <2> HIDE DEF r3
    <2> QED
      BY <1>3, <2>1 DEF AddMTASTS
  <1> QED
    BY <1>4 DEF Build

(* Nothing that was there is lost. *)
LEMMA BuildGrows ==
    ASSUME NEW in, NEW d, NEW first
    PROVE  /\ first \subseteq AddCustom(d, in, first)
           /\ AddCustom(d, in, first) \subseteq Build(d, in, first)
           /\ AddAddresses(d, in, AddCustom(d, in, first)) \subseteq Build(d, in, first)
           /\ AddMail(d, in, AddAddresses(d, in, AddCustom(d, in, first)))
                 \subseteq Build(d, in, first)
  <1>1. \A r : r \subseteq AddCustom(d, in, r)
    BY DEF AddCustom
  <1>2. \A r : r \subseteq AddAddresses(d, in, r)
    BY DEF AddAddresses
  <1>3. \A r : r \subseteq AddMail(d, in, r)
    BY DEF AddMail, MailRecords
  <1>4. \A r : r \subseteq AddMTASTS(d, in, r)
    BY DEF AddMTASTS
  <1> QED
    BY <1>1, <1>2, <1>3, <1>4 DEF Build

(* The hardening adds to the names without mail and to no other.           *)
LEMMA Hardening ==
    ASSUME NEW rs
    PROVE  /\ rs \subseteq Harden(rs)
           /\ \A x \in Harden(rs) : \/ x \in rs \/ x.t = "TXT"
                                    \/ x.t = "MX" /\ x.p = "0 ." /\ x.q \in Mailless(rs)
           /\ \A n \in Mailless(rs) : /\ HasPrefix(Harden(rs), n, "TXT", "v=spf1 ")
                                      /\ HasPrefix(Harden(rs), Below("_dmarc", n), "TXT",
                                         "v=DMARC1; ")
                                      /\ HasPrefix(Harden(rs), n, "MX", "0 .")
  <1> DEFINE declared == UNION {NullRecords(n) : n \in Mailless(rs)}
             Missing == {m \in declared : ~HasPrefix(rs, m[1], m[2], m[3])}
             New == {Record(q[1], q[2], q[3], "nobody") : q \in Missing}
             Null(x) == x.t = "TXT" \/ (x.t = "MX" /\ x.p = "0 ." /\ x.q \in Mailless(rs))
  <1>1. Harden(rs) = rs \cup New
    BY DEF Harden
  <1>2. ASSUME NEW q \in declared
        PROVE  Null(Record(q[1], q[2], q[3], "nobody"))
    <2>1. PICK n \in Mailless(rs) : q \in NullRecords(n)
      BY <1>2
    <2>2. q[2] = "TXT" \/ (q[1] = n /\ q[2] = "MX" /\ q[3] = "0 .")
      <3>1. \/ q = <<n, "TXT", "v=spf1 ">> \/ q = <<Below("_dmarc", n), "TXT", "v=DMARC1; ">>
            \/ q = <<n, "MX", "0 .">>
        BY <2>1 DEF NullRecords
      <3>2. CASE q = <<n, "TXT", "v=spf1 ">>
        BY <3>2
      <3>3. CASE q = <<Below("_dmarc", n), "TXT", "v=DMARC1; ">>
        BY <3>3
      <3>4. CASE q = <<n, "MX", "0 .">>
        BY <3>4
      <3> QED
        BY <3>1, <3>2, <3>3, <3>4
    <2> QED
      BY <2>1, <2>2 DEF Record
  <1>3. \A x \in New : Null(x)
    <2> HIDE DEF declared, Null
    <2> QED
      BY <1>2
  <1>4. ASSUME NEW m \in declared
        PROVE  HasPrefix(Harden(rs), m[1], m[2], m[3])
    <2> HIDE DEF declared
    <2>1. CASE HasPrefix(rs, m[1], m[2], m[3])
      BY <1>1, <2>1 DEF HasPrefix
    <2>2. CASE ~HasPrefix(rs, m[1], m[2], m[3])
      <3> DEFINE y == Record(m[1], m[2], m[3], "nobody")
      <3>1. m \in Missing
        BY <1>4, <2>2
      <3>2. y \in New
        <4> HIDE DEF Missing
        <4> QED
          BY <3>1
      <3>3. y \in Harden(rs)
        BY <1>1, <3>2
      <3>4. y.q = m[1] /\ y.t = m[2] /\ y.p = m[3]
        BY DEF Record
      <3> QED
        BY <3>3, <3>4 DEF HasPrefix
    <2> QED
      BY <2>1, <2>2
  <1>5. ASSUME NEW n \in Mailless(rs)
        PROVE  /\ HasPrefix(Harden(rs), n, "TXT", "v=spf1 ")
               /\ HasPrefix(Harden(rs), Below("_dmarc", n), "TXT", "v=DMARC1; ")
               /\ HasPrefix(Harden(rs), n, "MX", "0 .")
    <2>1. /\ <<n, "TXT", "v=spf1 ">> \in declared
          /\ <<Below("_dmarc", n), "TXT", "v=DMARC1; ">> \in declared
          /\ <<n, "MX", "0 .">> \in declared
      BY <1>5 DEF NullRecords
    <2> HIDE DEF declared
    <2>2. HasPrefix(Harden(rs), n, "TXT", "v=spf1 ")
      BY <1>4, <2>1
    <2>3. HasPrefix(Harden(rs), Below("_dmarc", n), "TXT", "v=DMARC1; ")
      BY <1>4, <2>1
    <2>4. HasPrefix(Harden(rs), n, "MX", "0 .")
      BY <1>4, <2>1
    <2> QED
      BY <2>2, <2>3, <2>4
  <1>6. \A x \in Harden(rs) : x \in rs \/ Null(x)
    <2> HIDE DEF New, Null
    <2> QED
      BY <1>1, <1>3
  <1>7. rs \subseteq Harden(rs)
    BY <1>1
  <1> QED
    BY <1>5, <1>6, <1>7

(* The names folded into a zone and the records that the apex starts from. *)
Subs(z, in) == {d \in Props(in) : Under(d, z)}
Folded(z, in) == UNION {Build(sub, in, OwnRecords(sub, in)) : sub \in Subs(z, in)}
First(z, in) == NameServers(z, in) \cup OwnRecords(z, in) \cup Folded(z, in)
Unhardened(z, in) == Build(z, in, First(z, in))

(* buildZone is the hardening of what is built for the apex.               *)
LEMMA BuildZoneParts ==
    ASSUME NEW z, NEW in
    PROVE  BuildZone(z, in) = Harden(Unhardened(z, in))
  BY DEF BuildZone, Unhardened, First, Folded, Subs

(* The names that the box has records for are names.                       *)
LEMMA PropsNames ==
    ASSUME NEW in, Sound(in)
    PROVE  Props(in) \subseteq Name
  <1>1. HostedZones(in) \subseteq Name
    BY DEF Sound, HostedZones, Zones
  <1>2. in.users \subseteq Name /\ in.mail \subseteq Name /\ in.hostname \in Name
    BY DEF Sound
  <1> QED
    BY <1>1, <1>2, Labels, BelowUnder DEF Reserved, Props, AutoNames

(* The records of its own that the box gives a name are at or under it.    *)
LEMMA OwnPlaced ==
    ASSUME NEW in, Sound(in), NEW d \in Name
    PROVE  \A x \in OwnRecords(d, in) : Placed(x, d, in)
  <1>1. \A t \in {"A", "AAAA"} : Placed(Record(d, t, "", Box), d, in)
    BY AtItself DEF Record, Placed, Origin
  <1>2. \A l \in Label : Placed(Record(Below(l, Below("_tcp", d)), "TLSA", "", Box), d, in)
    BY Labels, BelowUnder, BelowTwice, PlacedBelow DEF Reserved, AtOrUnder
  <1> QED
    BY <1>1, <1>2, Labels DEF OwnRecords, Reserved

(* What is in place for a name is for a zone that the name is in.          *)
LEMMA PlacedAbove ==
    ASSUME NEW in, NEW d \in Name, NEW z \in Name, Under(d, z), NEW x, Placed(x, d, in)
    PROVE  Placed(x, z, in)
  BY UnderTransitive DEF Placed, AtOrUnder

(* Every record of a zone that the hardening did not add is in the zone    *)
(* and has one of the origins.                                             *)
LEMMA ZonePlaced ==
    ASSUME NEW in, Sound(in), NEW z \in Name
    PROVE  \A x \in Unhardened(z, in) : Placed(x, z, in)
  <1>1. ASSUME NEW x \in Folded(z, in)
        PROVE  Placed(x, z, in)
    <2>1. PICK sub \in Subs(z, in) : x \in Build(sub, in, OwnRecords(sub, in))
      BY <1>1 DEF Folded
    <2>2. sub \in Name /\ Under(sub, z)
      BY <2>1, PropsNames DEF Subs
    <2>3. Placed(x, sub, in)
      BY <2>1, <2>2, OwnPlaced, BuildPlaced
    <2> QED
      BY <2>2, <2>3, PlacedAbove
  <1>2. \A x \in NameServers(z, in) : Placed(x, z, in)
    <2>1. \A w : Placed(Record(z, "NS", "", w), z, in)
      BY AtItself DEF Record, Placed, Origin
    <2> QED
      BY <2>1 DEF NameServers
  <1>3. \A x \in First(z, in) : Placed(x, z, in)
    BY <1>1, <1>2, OwnPlaced DEF First
  <1> QED
    BY <1>3, BuildPlaced DEF Unhardened

-----------------------------------------------------------------------------
(* The custom records: nothing that buildZone puts in before them has      *)
(* their name and type, but what CustomRecordsLand excepts.                *)

(* A custom record of the name is in, unless something came first.         *)
LEMMA CustomLands ==
    ASSUME NEW in, Sound(in), NEW d, NEW first, NEW r \in in.custom, AtOrUnder(r.q, d),
           ~Has(first, r.q, r.t), ~(r.t = "AAAA" /\ r.w = Local /\ ~in.v6)
    PROVE  Landed(r) \in Build(d, in, first)
  <1>1. r \in FilterCustom(d, in)
    BY DEF FilterCustom
  <1>2. Landed(r) \in AddCustom(d, in, first)
    BY <1>1, AddCustomLanded
  <1> QED
    BY <1>2, BuildGrows

(* Of custom types the box's own records have only addresses.              *)
LEMMA OwnTypes ==
    ASSUME NEW in, NEW d, NEW x \in OwnRecords(d, in), x.t \in Rtype
    PROVE  x.q = in.hostname /\ x.t \in {"A", "AAAA"}
  <1>1. d = in.hostname
    BY DEF OwnRecords
  <1> DEFINE Known(y) == (y.q = d /\ y.t \in {"A", "AAAA"}) \/ y.t = "TLSA"
  <1>2. /\ \A t \in {"A", "AAAA"} : Known(Record(d, t, "", Box))
        /\ \A q : Known(Record(q, "TLSA", "", Box))
    BY DEF Record
  <1>3. Known(x)
    <2> HIDE DEF Known
    <2> QED
      BY <1>2 DEF OwnRecords
  <1> QED
    BY <1>1, <1>3 DEF Rtype

(* A custom record that CustomRecordsLand does not except is in its zone:  *)
(* with the name it is at, if that is one of those folded into the zone,   *)
(* and with the apex if not.                                               *)
LEMMA CustomPublished ==
    ASSUME NEW in, Sound(in), NEW z \in Name, NEW r \in in.custom, AtOrUnder(r.q, z),
           ~(r.q = in.hostname /\ r.t \in {"A", "AAAA"}),
           ~(r.t = "NS" /\ r.q = z),
           ~(r.t = "AAAA" /\ r.w = Local /\ ~in.v6)
    PROVE  Landed(r) \in Unhardened(z, in)
  <1>0. r.t \in Rtype /\ r.q \in Name
    BY LandedFields DEF Sound
  <1>1. \A d : ~Has(OwnRecords(d, in), r.q, r.t)
    BY <1>0, OwnTypes DEF Has
  <1>2. ASSUME ~Has(First(z, in), r.q, r.t)
        PROVE  Landed(r) \in Unhardened(z, in)
    BY <1>2, CustomLands DEF Unhardened
  <1>3. ASSUME Has(First(z, in), r.q, r.t)
        PROVE  Landed(r) \in Unhardened(z, in)
    <2>1. ~Has(NameServers(z, in), r.q, r.t)
      <3> DEFINE Known(y) == y.q = z /\ y.t = "NS"
      <3>1. \A w : Known(Record(z, "NS", "", w))
        BY DEF Record
      <3>2. \A x \in NameServers(z, in) : Known(x)
        <4> HIDE DEF Known
        <4> QED
          BY <3>1 DEF NameServers
      <3> QED
        BY <3>2 DEF Has
    <2>2. PICK x \in Folded(z, in) : x.q = r.q /\ x.t = r.t
      BY <1>1, <1>3, <2>1 DEF Has, First
    <2>3. PICK sub \in Subs(z, in) : x \in Build(sub, in, OwnRecords(sub, in))
      BY <2>2 DEF Folded
    <2>4. sub \in Name
      BY PropsNames DEF Subs
    <2>5. AtOrUnder(r.q, sub)
      BY <2>2, <2>3, <2>4, OwnPlaced, BuildPlaced DEF Placed
    <2>6. Landed(r) \in Build(sub, in, OwnRecords(sub, in))
      BY <1>1, <2>5, CustomLands
    <2>7. Landed(r) \in First(z, in)
      BY <2>3, <2>6 DEF First, Folded
    <2> QED
      BY <2>7, BuildGrows DEF Unhardened
  <1> QED
    BY <1>2, <1>3

(* What loadInput gathers of the rows.                                     *)
LEMMA InputFields ==
    /\ Input.hostname = hostname /\ Input.v6 = v6 /\ Input.custom = custom
    /\ Input.secondary = secondary /\ Input.mail = MailDomains(users, aliases)
    /\ Input.users = UserDomains(users)
    /\ Input.dkim = TRUE /\ Input.tlsa = TRUE
  BY DEF Input

(* The rows, being typed, give a sound input: the domains of mail are      *)
(* names, and those of the accounts are among them.                        *)
LEMMA InputSound == HostedTypeOK => Sound(Input)
  <1> SUFFICES ASSUME HostedTypeOK PROVE Sound(Input)
    OBVIOUS
  <1>1. \A a \in Source : DomainOf(a) \in Domain
    <2>1. \A l, d : DomainOf(Address(l, d)) = d
      BY DEF Address, DomainOf
    <2>2. \A a \in Email : DomainOf(a) \in Domain
      <3> TAKE a \in Email
      <3>1. PICK l \in Locals, d \in Domain : a = Address(l, d)
        BY DEF Email
      <3> QED
        BY <2>1, <3>1
    <2>3. \A a \in {Address("", d) : d \in Domain} : DomainOf(a) \in Domain
      BY <2>1, Zenon
    <2> QED
      BY <2>2, <2>3 DEF Source
  <1>2. Emails(users) \subseteq Email
    <2>1. \A i \in DOMAIN users : users[i] \in [email : Email, admin : BOOLEAN]
      BY ElementOfSeq, LenProperties DEF HostedTypeOK
    <2> QED
      BY <2>1 DEF Emails, ToSet
  <1>3. Sources(aliases) \subseteq Source
    BY DEF Sources, HostedTypeOK
  <1>4. MailDomains(users, aliases) \subseteq Domain
    BY <1>1, <1>2, <1>3 DEF MailDomains, Source
  <1>5. UserDomains(users) \subseteq MailDomains(users, aliases)
    BY DEF UserDomains, MailDomains
  <1>6. Domain \subseteq Name
    BY HostedDataAssumption, Names
  <1>7. hostname \in Name
    BY HostedDataAssumption, Names DEF HostedTypeOK
  <1> QED
    BY <1>4, <1>5, <1>6, <1>7, InputFields DEF Sound, HostedTypeOK

(* What is built for a zone is published.                                  *)
LEMMA ZonesPublished ==
    ASSUME NEW z \in HostedZones(Input)
    PROVE  Unhardened(z, Input) \subseteq Published
  <1>1. Unhardened(z, Input) \subseteq BuildZone(z, Input)
    BY BuildZoneParts DEF Harden
  <1> QED
    BY <1>1 DEF Published

(* A custom record of a hosted name is published.                          *)
LEMMA CustomRecordsInv == HostedTypeOK => CustomRecordsLand
  <1> SUFFICES ASSUME HostedTypeOK, NEW r \in custom,
                      ZoneFor(r.q, HostedZones(Input)) # {},
                      ~(r.q = hostname /\ r.t \in {"A", "AAAA"}),
                      ~(r.t = "NS" /\ r.q \in HostedZones(Input)),
                      ~(r.t = "AAAA" /\ r.w = Local /\ ~v6)
               PROVE  \E p \in Published : p.q = r.q /\ p.t = r.t /\ p.p = r.p /\ (p.w = r.w
                      \/ r.w = Local)
    BY DEF CustomRecordsLand
  <1>1. PICK z \in HostedZones(Input) : AtOrUnder(r.q, z)
    BY DEF ZoneFor
  <1>2. Sound(Input)
    BY InputSound
  <1>3. z \in Name
    BY <1>1, <1>2 DEF HostedZones, Zones, Sound
  <1>4. Landed(r) \in Unhardened(z, Input)
    BY <1>1, <1>2, <1>3, InputFields, CustomPublished
  <1>5. Landed(r) \in Published
    BY <1>1, <1>4, ZonesPublished
  <1>6. r \in CustomRecord
    BY DEF HostedTypeOK
  <1> QED
    BY <1>5, <1>6, LandedFields

-----------------------------------------------------------------------------
(* The addresses: who skips a name in the web applier and who leaves out   *)
(* its default addresses in the zones ask the same question.               *)

(* A name that no custom record points elsewhere has no address elsewhere. *)
LEMMA NoneElsewhere ==
    ASSUME NEW in, Sound(in), NEW x, Origin(x, in), x.q \notin PointedElsewhere(in),
           x.t \in {"A", "AAAA", "CNAME"}
    PROVE  x.w = Box /\ x.t # "CNAME"
  <1>1. CASE \E c \in in.custom : x = Landed(c)
    <2>1. PICK c \in in.custom : x = Landed(c)
      BY <1>1
    <2>2. c \in CustomRecord
      BY DEF Sound
    <2>3. c.q \notin PointedElsewhere(in) /\ c.t = x.t
          /\ x.w = IF c.t \in {"A", "AAAA"} /\ c.w = Local THEN Box ELSE c.w
      BY <2>1, <2>2, LandedFields
    <2>4. c.t # "CNAME" /\ (c.t \in {"A", "AAAA"} => c.w \in {Local, Box})
      BY <2>3 DEF PointedElsewhere
    <2> QED
      BY <2>3, <2>4
  <1> QED
    BY <1>1 DEF Origin

(* What is built for a name is in its zone. *)
LEMMA BuiltInZone ==
    ASSUME NEW in, NEW z, NEW d \in Props(in), AtOrUnder(d, z)
    PROVE  \E f : OwnRecords(d, in) \subseteq f /\ Build(d, in, f) \subseteq Unhardened(z, in)
  <1>1. CASE d = z
    BY <1>1 DEF Unhardened, First
  <1>2. CASE Under(d, z)
    <2>1. d \in Subs(z, in)
      BY <1>2 DEF Subs
    <2>2. Build(d, in, OwnRecords(d, in)) \subseteq First(z, in)
      BY <2>1 DEF First, Folded
    <2> QED
      BY <2>2, BuildGrows DEF Unhardened
  <1> QED
    BY <1>1, <1>2 DEF AtOrUnder

(* A name that the box has records for gets an address here unless a       *)
(* custom record points it elsewhere.                                      *)
LEMMA AddressGiven ==
    ASSUME NEW in, Sound(in), NEW z \in Name, NEW d \in Props(in), AtOrUnder(d, z),
           d = in.hostname \/ d \notin PointedElsewhere(in)
    PROVE  \E x \in Unhardened(z, in) : x.q = d /\ x.t = "A" /\ x.w = Box
  <1>0. PICK f : OwnRecords(d, in) \subseteq f /\ Build(d, in, f) \subseteq Unhardened(z, in)
    BY BuiltInZone
  <1>1. Record(d, "A", "", Box).q = d /\ Record(d, "A", "", Box).t = "A"
          /\ Record(d, "A", "", Box).w = Box
    BY DEF Record
  <1> DEFINE r1 == AddCustom(d, in, f)
  <1>2. /\ f \subseteq Unhardened(z, in)
        /\ r1 \subseteq Unhardened(z, in)
        /\ AddAddresses(d, in, r1) \subseteq Unhardened(z, in)
    BY <1>0, BuildGrows
  <1>3. CASE d = in.hostname
    <2>1. Record(d, "A", "", Box) \in f
      BY <1>0, <1>3 DEF OwnRecords
    <2> QED
      BY <1>1, <1>2, <2>1
  <1>4. CASE d \notin PointedElsewhere(in)
    <2>1. \A x \in r1 : x.q = d /\ x.t \in {"A", "CNAME"} => x.t = "A" /\ x.w = Box
      BY <1>2, <1>4, ZonePlaced, NoneElsewhere DEF Placed
    <2> HIDE DEF r1
    <2>2. CASE Has(r1, d, "A")
      BY <1>2, <2>1, <2>2 DEF Has
    <2>3. CASE ~Has(r1, d, "A")
      <3>1. ~Has(r1, d, "CNAME")
        BY <2>1 DEF Has
      <3>2. Record(d, "A", "", Box) \in AddAddresses(d, in, r1)
        BY <2>3, <3>1 DEF AddAddresses
      <3> QED
        BY <1>1, <1>2, <3>2
    <2> QED
      BY <2>2, <2>3
  <1> QED
    BY <1>3, <1>4

(* Every name that the box serves lies in one of its zones. *)
LEMMA ServedInZone ==
    ASSUME NEW in, Sound(in), NEW d \in Props(in)
    PROVE  \E z \in HostedZones(in) : z \in Name /\ AtOrUnder(d, z)
  <1> DEFINE D == in.mail \cup {in.hostname}
  <1>0. D \subseteq Name /\ HostedZones(in) \subseteq D
    BY DEF Sound, HostedZones, Zones
  <1>1. \A e \in D : \E z \in HostedZones(in) : AtOrUnder(e, z)
    BY <1>0, InSomeZone DEF HostedZones
  <1>2. CASE d \in D
    BY <1>0, <1>1, <1>2
  <1>3. CASE \E l \in Reserved, e \in D : d = Below(l, e)
    <2>1. PICK l \in Reserved, e \in D : d = Below(l, e)
      BY <1>3
    <2>2. PICK z \in HostedZones(in) : AtOrUnder(e, z)
      BY <1>1
    <2>3. l \in Label /\ e \in Name /\ z \in Name
      BY <1>0, Labels
    <2>4. d \in Name /\ AtOrUnder(d, e)
      BY <2>1, <2>3, BelowUnder DEF AtOrUnder
    <2> QED
      BY <2>2, <2>3, <2>4, UnderTransitive
  <1>4. d \notin D => \E l \in Reserved, e \in D : d = Below(l, e)
    <2> SUFFICES ASSUME d \notin D PROVE \E l \in Reserved, e \in D : d = Below(l, e)
      OBVIOUS
    <2>1. \/ \E y \in HostedZones(in) : d = Below("www", y)
          \/ \E l \in {"autoconfig", "autodiscover"}, e \in in.users : d = Below(l, e)
          \/ \E e \in in.mail : d = Below("mta-sts", e)
          \/ \E l \in {"ns1", "ns2"} : d = Below(l, in.hostname)
      BY DEF Props, AutoNames
    <2>2. in.users \subseteq D
      BY DEF Sound
    <2> QED
      BY <1>0, <2>1, <2>2 DEF Reserved
  <1> QED
    BY <1>2, <1>3, <1>4

(* Every name with a web site resolves here.                               *)
LEMMA SitesInv == HostedTypeOK => SitesResolveHere
  <1> SUFFICES ASSUME HostedTypeOK, NEW d \in DOMAIN Derive(Input)
               PROVE  /\ \E r \in Published : r.q = d /\ r.t = "A" /\ r.w = Box
                      /\ d # hostname => \A r \in Published :
                             r.q = d /\ r.t \in {"A", "AAAA", "CNAME"} => r.w = Box
    BY DEF SitesResolveHere
  <1> DEFINE in == Input
  <1>1. Sound(in) /\ in.hostname = hostname
    BY InputSound, InputFields
  <1>2. d = in.hostname \/ d \notin PointedElsewhere(in)
    BY DEF Derive
  <1>3. d \in Props(in)
    BY DEF Derive, Props, AutoNames
  <1> HIDE DEF in
  <1>4. PICK z \in HostedZones(in) : z \in Name /\ AtOrUnder(d, z)
    BY <1>1, <1>3, ServedInZone
  <1>5. PICK x \in Unhardened(z, in) : x.q = d /\ x.t = "A" /\ x.w = Box
    BY <1>1, <1>2, <1>3, <1>4, AddressGiven
  <1>6. x \in Published
    BY <1>4, <1>5, ZonesPublished DEF in
  <1>7. ASSUME d # hostname, NEW r \in Published, r.q = d, r.t \in {"A", "AAAA", "CNAME"}
        PROVE  r.w = Box
    <2>1. PICK y \in HostedZones(in) : r \in Harden(Unhardened(y, in))
      BY <1>7, BuildZoneParts DEF Published, in
    <2>2. r \in Unhardened(y, in)
      BY <1>7, <2>1, Hardening
    <2>3. y \in Name
      BY <1>1, <2>1 DEF HostedZones, Zones, Sound
    <2>4. Origin(r, in)
      BY <1>1, <2>2, <2>3, ZonePlaced DEF Placed
    <2> QED
      BY <1>1, <1>2, <1>7, <2>4, NoneElsewhere
  <1> QED
    BY <1>5, <1>6, <1>7

-----------------------------------------------------------------------------
(* The MX records: the domains of the accounts and aliases have the        *)
(* box's, the hardening gives the null MX to names without any.            *)

(* The system routes bring no domain but the box's own name. *)
LEMMA TakesMail ==
    RenderMailboxDomains(users, Routes) \ ({hostname} \ MailDomains(users, aliases))
        = MailDomains(users, aliases)
  <1> DEFINE M == MailDomains(users, aliases)
  <1>1. aliases \subseteq Routes
    BY DEF Routes, ApplySystemRouting
  <1>2. ASSUME NEW a \in Routes
        PROVE  a \in aliases \/ DomainOf(a.source) \in M \cup {hostname}
    <2>1. \A l, d : DomainOf(Address(l, d)) = d
      BY DEF DomainOf, Address
    <2>2. ASSUME NEW r \in Roles(users, aliases, hostname)
          PROVE  DomainOf(r) \in M \cup {hostname}
      <3>1. PICK d \in M \cup {hostname} : \E l : r = Address(l, d)
        BY <2>2 DEF Roles
      <3> QED
        BY <2>1, <3>1
    <2>3. a \in aliases \/ \E r \in Roles(users, aliases, hostname) : a.source = r
      BY <1>2 DEF Routes, ApplySystemRouting
    <2> QED
      BY <2>2, <2>3
  <1>3. RenderMailboxDomains(users, Routes) \subseteq M \cup {hostname}
    BY <1>2 DEF RenderMailboxDomains, MailDomains, Sources
  <1>4. M \subseteq RenderMailboxDomains(users, Routes)
    BY <1>1 DEF RenderMailboxDomains, MailDomains, Sources
  <1> QED
    BY <1>3, <1>4

(* A mail domain has its records, its own or custom ones of their shape.   *)
LEMMA MailRecordsThere ==
    ASSUME NEW in, Sound(in), NEW z, NEW d \in in.mail, AtOrUnder(d, z)
    PROVE  /\ HasPrefix(Unhardened(z, in), d, "MX", "10 ")
           /\ HasPrefix(Unhardened(z, in), d, "TXT", "v=spf1 ")
           /\ HasPrefix(Unhardened(z, in), Below("_dmarc", d), "TXT", "v=DMARC1; ")
           /\ HasPrefix(Unhardened(z, in), Below("mail", Below("_domainkey", d)), "TXT",
              "v=DKIM1; ")
  <1>0. d \in Props(in)
    BY DEF Props
  <1>1. PICK f : Build(d, in, f) \subseteq Unhardened(z, in)
    BY <1>0, BuiltInZone
  <1> DEFINE r2 == AddAddresses(d, in, AddCustom(d, in, f))
             r3 == AddMail(d, in, r2)
  <1>2. r3 \subseteq Unhardened(z, in)
    BY <1>1, BuildGrows
  <1> HIDE DEF r2
  <1>3. ASSUME NEW q, NEW t, NEW p, <<q, t, p>> \in MailRecords(d, in)
        PROVE  HasPrefix(Unhardened(z, in), q, t, p)
    <2> DEFINE y == Record(q, t, p, Box)
    <2>1. CASE HasPrefix(r2, q, t, p)
      BY <1>2, <2>1 DEF HasPrefix, AddMail
    <2>2. CASE ~HasPrefix(r2, q, t, p)
      <3>1. <<q, t, p>> \in {m \in MailRecords(d, in) : ~HasPrefix(r2, m[1], m[2], m[3])}
        BY <1>3, <2>2
      <3>2. y \in r3
        BY <3>1 DEF AddMail
      <3>3. y.q = q /\ y.t = t /\ y.p = p
        BY DEF Record
      <3> QED
        BY <1>2, <3>2, <3>3 DEF HasPrefix
    <2> QED
      BY <2>1, <2>2
  <1>4. in.dkim = TRUE
    BY DEF Sound
  <1>5. /\ <<d, "MX", "10 ">> \in MailRecords(d, in)
        /\ <<d, "TXT", "v=spf1 ">> \in MailRecords(d, in)
        /\ <<Below("_dmarc", d), "TXT", "v=DMARC1; ">> \in MailRecords(d, in)
        /\ <<Below("mail", Below("_domainkey", d)), "TXT", "v=DKIM1; ">> \in MailRecords(d, in)
    BY <1>4 DEF MailRecords
  <1> QED
    BY <1>3, <1>5

(* An MX is the box's, at a mail domain, or the operator's. *)
LEMMA MXOrigin ==
    ASSUME NEW in, Sound(in), NEW x, Origin(x, in), x.t = "MX"
    PROVE  \/ x.p # "0 ." /\ x.q \in in.mail
           \/ HasPrefix(in.custom, x.q, "MX", x.p)
  <1>1. ASSUME NEW c \in in.custom, x = Landed(c)
        PROVE  HasPrefix(in.custom, x.q, "MX", x.p)
    <2>1. c \in CustomRecord
      BY DEF Sound
    <2>2. c.q = x.q /\ c.t = "MX" /\ c.p = x.p
      BY <1>1, <2>1, LandedFields
    <2> QED
      BY <2>2 DEF HasPrefix
  <1> QED
    BY <1>1 DEF Origin

(* The names without mail of a zone are in it, and neither a mail domain   *)
(* nor a name with a custom MX is one of them.                             *)
LEMMA MaillessNames ==
    ASSUME NEW in, Sound(in), NEW z \in Name, NEW n \in Mailless(Unhardened(z, in))
    PROVE  n \notin in.mail /\ ~Has(in.custom, n, "MX")
  <1>1. /\ \E x \in Unhardened(z, in) : x.q = n
        /\ \A x \in Unhardened(z, in) : x.t = "MX" => x.q # n
    BY DEF Mailless
  <1>2. n \in Name /\ AtOrUnder(n, z)
    BY <1>1, ZonePlaced DEF Placed
  <1>3. ASSUME n \in in.mail
        PROVE  FALSE
    <2>1. HasPrefix(Unhardened(z, in), n, "MX", "10 ")
      BY <1>2, <1>3, MailRecordsThere
    <2> QED
      BY <1>1, <2>1 DEF HasPrefix
  <1>4. ASSUME NEW r \in in.custom, r.q = n, r.t = "MX"
        PROVE  FALSE
    <2>1. Landed(r) \in Unhardened(z, in)
      BY <1>2, <1>4, CustomPublished
    <2>2. r \in CustomRecord
      BY DEF Sound
    <2> QED
      BY <1>1, <1>4, <2>1, <2>2, LandedFields
  <1> QED
    BY <1>3, <1>4 DEF Has

(* A null MX is the operator's or at a name that takes no mail. *)
LEMMA NullMX ==
    ASSUME HostedTypeOK, NEW x \in Published, x.t = "MX"
    PROVE  \/ x.p = "0 ." /\ x.q \notin MailDomains(users, aliases) /\ ~Has(custom, x.q, "MX")
           \/ x.p # "0 ." /\ x.q \in MailDomains(users, aliases)
           \/ HasPrefix(custom, x.q, "MX", x.p)
  <1> DEFINE in == Input
  <1>1. Sound(in) /\ in.custom = custom /\ in.mail = MailDomains(users, aliases)
    BY InputSound, InputFields
  <1>2. PICK z \in HostedZones(in) : x \in Harden(Unhardened(z, in))
    BY BuildZoneParts DEF Published
  <1> HIDE DEF in
  <1>3. z \in Name
    BY <1>1, <1>2 DEF HostedZones, Zones, Sound
  <1>4. CASE x \in Unhardened(z, in)
    <2>1. Origin(x, in)
      BY <1>1, <1>3, <1>4, ZonePlaced DEF Placed
    <2> QED
      BY <1>1, <2>1, MXOrigin
  <1>5. CASE x.p = "0 ." /\ x.q \in Mailless(Unhardened(z, in))
    BY <1>1, <1>3, <1>5, MaillessNames
  <1>6. \/ x \in Unhardened(z, in) \/ x.t = "TXT"
        \/ x.t = "MX" /\ x.p = "0 ." /\ x.q \in Mailless(Unhardened(z, in))
    BY <1>2, Hardening, Zenon
  <1> QED
    BY <1>4, <1>5, <1>6

(* What is in a zone is published. *)
LEMMA PrefixPublished ==
    ASSUME NEW z \in HostedZones(Input), NEW q, NEW t, NEW p
    PROVE  /\ HasPrefix(Unhardened(z, Input), q, t, p) => HasPrefix(Published, q, t, p)
           /\ HasPrefix(Harden(Unhardened(z, Input)), q, t, p) => HasPrefix(Published, q, t, p)
  <1>1. Harden(Unhardened(z, Input)) \subseteq Published
    BY BuildZoneParts DEF Published
  <1> QED
    BY <1>1, ZonesPublished DEF HasPrefix

(* A domain of an account or an alias has MX, SPF, DMARC and DKIM records. *)
LEMMA MailDomainsDeclared ==
    ASSUME HostedTypeOK, NEW d \in MailDomains(users, aliases)
    PROVE  /\ HasPrefix(Published, d, "MX", "10 ")
           /\ HasPrefix(Published, d, "TXT", "v=spf1 ")
           /\ HasPrefix(Published, Below("_dmarc", d), "TXT", "v=DMARC1; ")
           /\ HasPrefix(Published, Below("mail", Below("_domainkey", d)), "TXT", "v=DKIM1; ")
  <1> DEFINE in == Input
  <1>1. Sound(in) /\ in.mail = MailDomains(users, aliases)
    BY InputSound, InputFields
  <1> HIDE DEF in
  <1>2. d \in Props(in)
    BY <1>1 DEF Props
  <1>3. PICK z \in HostedZones(in) : AtOrUnder(d, z)
    BY <1>1, <1>2, ServedInZone
  <1>4. z \in HostedZones(Input)
    BY <1>3 DEF in
  <1> QED
    BY <1>1, <1>3, <1>4, MailRecordsThere, PrefixPublished DEF in

(* A name with an address, without mail and without an MX of the operator  *)
(* is declared to take no mail.                                            *)
LEMMA OthersDeclared ==
    ASSUME HostedTypeOK, NEW a \in Published, a.t \in {"A", "AAAA"},
           a.q \notin MailDomains(users, aliases), ~Has(custom, a.q, "MX")
    PROVE  /\ HasPrefix(Published, a.q, "MX", "0 .")
           /\ HasPrefix(Published, a.q, "TXT", "v=spf1 ")
           /\ HasPrefix(Published, Below("_dmarc", a.q), "TXT", "v=DMARC1; ")
  <1> DEFINE in == Input
  <1>1. Sound(in) /\ in.custom = custom /\ in.mail = MailDomains(users, aliases)
    BY InputSound, InputFields
  <1>2. PICK z \in HostedZones(in) : a \in Harden(Unhardened(z, in))
    BY BuildZoneParts DEF Published
  <1> HIDE DEF in
  <1>3. z \in Name
    BY <1>1, <1>2 DEF HostedZones, Zones, Sound
  <1>4. a \in Unhardened(z, in)
    BY <1>2, Hardening
  <1>5. ASSUME NEW m \in Unhardened(z, in), m.t = "MX", m.q = a.q
        PROVE  FALSE
    <2>1. Origin(m, in)
      BY <1>1, <1>3, <1>5, ZonePlaced DEF Placed
    <2>2. ~HasPrefix(in.custom, m.q, "MX", m.p)
      BY <1>1, <1>5 DEF Has, HasPrefix
    <2> QED
      BY <1>1, <1>5, <2>1, <2>2, MXOrigin
  <1>6. a.q \in Mailless(Unhardened(z, in))
    BY <1>4, <1>5 DEF Mailless
  <1>7. z \in HostedZones(Input)
    BY <1>2 DEF in
  <1> QED
    BY <1>6, <1>7, Hardening, PrefixPublished DEF in

(* DNS and Postfix agree on who takes mail.                                *)
LEMMA MXInv == HostedTypeOK => MXMatchesDelivery
  <1> SUFFICES ASSUME HostedTypeOK PROVE MXMatchesDelivery
    OBVIOUS
  <1> DEFINE M == MailDomains(users, aliases)
             mx(n) == {r.p : r \in {m \in Published : m.q = n /\ m.t = "MX"}}
             refuses(n) == "0 ." \in mx(n) /\ ~HasPrefix(custom, n, "MX", "0 .")
             declares(n) == /\ HasPrefix(Published, n, "TXT", "v=spf1 ")
                            /\ HasPrefix(Published, Below("_dmarc", n), "TXT", "v=DMARC1; ")
  <1>1. ASSUME NEW n, n \in M \/ Has(custom, n, "MX")
        PROVE  ~refuses(n)
    <2> SUFFICES ASSUME NEW x \in Published, x.q = n, x.t = "MX", x.p = "0 .",
                        ~HasPrefix(custom, n, "MX", "0 .")
                 PROVE  FALSE
      OBVIOUS
    <2> QED
      BY <1>1, NullMX
  <1>2. ASSUME NEW d \in M
        PROVE  /\ mx(d) # {} /\ declares(d)
               /\ HasPrefix(Published, Below("mail", Below("_domainkey", d)), "TXT", "v=DKIM1; ")
    <2>1. HasPrefix(Published, d, "MX", "10 ")
      BY MailDomainsDeclared
    <2>2. "10 " \in mx(d)
      BY <2>1 DEF HasPrefix
    <2> QED
      BY <2>2, MailDomainsDeclared
  <1>3. ASSUME NEW a \in Published, a.t \in {"A", "AAAA"}, a.q \notin M, ~Has(custom, a.q, "MX")
        PROVE  mx(a.q) = {"0 ."} /\ declares(a.q)
    <2>0. HasPrefix(Published, a.q, "MX", "0 .")
      BY <1>3, OthersDeclared
    <2>1. "0 ." \in mx(a.q)
      BY <2>0 DEF HasPrefix
    <2>2. ASSUME NEW x \in Published, x.q = a.q, x.t = "MX"
          PROVE  x.p = "0 ."
      <3>1. ~HasPrefix(custom, x.q, "MX", x.p)
        BY <1>3, <2>2 DEF Has, HasPrefix
      <3> QED
        BY <1>3, <2>2, <3>1, NullMX
    <2>3. mx(a.q) = {"0 ."}
      BY <2>1, <2>2
    <2> QED
      BY <1>3, <2>3, OthersDeclared
  <1>4. \A d \in M : /\ mx(d) # {} /\ ~refuses(d) /\ declares(d)
                     /\ HasPrefix(Published, Below("mail", Below("_domainkey", d)), "TXT",
                        "v=DKIM1; ")
    <2> HIDE DEF mx, refuses, declares, M
    <2> QED
      BY <1>1, <1>2
  <1>5. ASSUME NEW n \in {r.q : r \in {a \in Published : a.t \in {"A", "AAAA"}}} \ M
        PROVE  IF Has(custom, n, "MX") THEN ~refuses(n) ELSE mx(n) = {"0 ."} /\ declares(n)
    <2>1. PICK a \in Published : a.t \in {"A", "AAAA"} /\ a.q = n
      BY <1>5
    <2> HIDE DEF mx, refuses, declares, M
    <2> QED
      BY <1>1, <1>3, <1>5, <2>1
  <1> QED
    BY <1>4, <1>5, TakesMail DEF MXMatchesDelivery

-----------------------------------------------------------------------------
(* The routes: an entry of an account of its own goes before a catch-all,  *)
(* and the routes that the system adds lead to the first admin.            *)

(* The inductive invariant: with the types, that there is an admin. *)
HostedInv == HostedTypeOK /\ \E i \in DOMAIN users : users[i].admin

(* ApplySystemRouting finds an admin to route to.                          *)
LEMMA FirstAdminFound ==
    ASSUME HostedInv
    PROVE  \E i \in DOMAIN users : users[i].admin /\ FirstAdmin(users) = {users[i].email}
  <1> DEFINE S == {j \in DOMAIN users : users[j].admin}
  <1>0. DOMAIN users = 1 .. Len(users) /\ Len(users) \in Nat
    BY LenProperties DEF HostedInv, HostedTypeOK
  <1>1. S \subseteq Nat /\ S # {}
    BY <1>0 DEF HostedInv
  <1>2. PICK i \in S : \A j \in S : i <= j
    <2> HIDE DEF S
    <2> QED
      BY <1>1, Least
  <1> DEFINE F == {j \in DOMAIN users : /\ users[j].admin
                                       /\ \A k \in 1 .. j - 1 : ~users[k].admin}
  <1>3. i \in F
    <2>1. ASSUME NEW k \in 1 .. i - 1, users[k].admin
          PROVE  FALSE
      <3>1. k \in S
        BY <1>0, <1>2, <2>1
      <3> QED
        BY <1>0, <1>2, <2>1, <3>1
    <2> QED
      BY <1>2, <2>1
  <1>4. ASSUME NEW j \in F
        PROVE  j = i
    <2>1. i <= j
      BY <1>2, <1>4
    <2>2. ~(i < j)
      <3>1. i < j => i \in 1 .. j - 1
        BY <1>0, <1>2, <1>4
      <3> QED
        BY <1>2, <1>4, <3>1
    <2> QED
      BY <1>0, <1>2, <1>4, <2>1, <2>2
  <1>5. F = {i}
    BY <1>3, <1>4
  <1>6. FirstAdmin(users) = {users[j].email : j \in F}
    BY DEF FirstAdmin
  <1> HIDE DEF F
  <1>7. FirstAdmin(users) = {users[i].email}
    BY <1>5, <1>6
  <1> QED
    BY <1>2, <1>7

(* A route is an alias or leads a role address nobody has to the admin. *)
LEMMA RoutesFacts ==
    ASSUME HostedInv
    PROVE  /\ aliases \subseteq Routes
           /\ \A a \in Routes \ aliases :
                  /\ a.source \in Roles(users, aliases, hostname)
                  /\ a.source \notin Emails(users) \cup Sources(aliases)
                  /\ a.dests = FirstAdmin(users)
           /\ \A r \in Roles(users, aliases, hostname) \ (Emails(users) \cup Sources(aliases)) :
                  \E a \in Routes : a.source = r /\ a.dests = FirstAdmin(users)
           /\ \A a \in Routes : \A v : /\ [a EXCEPT !.dests = v].source = a.source
                                       /\ [a EXCEPT !.dests = v].dests = v
                                       /\ a.dests # {}
  <1> DEFINE taken == Emails(users) \cup Sources(aliases)
             route(r) == [source |-> r, dests |-> FirstAdmin(users), senders |-> {}]
             R == Roles(users, aliases, hostname)
  <1>0. FirstAdmin(users) # {}
    BY FirstAdminFound
  <1>1. Routes = aliases \cup {route(r) : r \in R \ taken}
    BY <1>0 DEF Routes, ApplySystemRouting
  <1>2. ASSUME NEW r
        PROVE  /\ route(r).source = r /\ route(r).dests = FirstAdmin(users)
               /\ \A v : [route(r) EXCEPT !.dests = v].source = r
                  /\ [route(r) EXCEPT !.dests = v].dests = v
    OBVIOUS
  <1>3. ASSUME NEW a \in aliases
        PROVE  /\ \A v : [a EXCEPT !.dests = v].source = a.source /\ [a EXCEPT !.dests = v].dests = v
               /\ a.dests # {}
    <2>1. a \in [source : Source, dests : Destinations, senders : {{}, {External}}]
      BY DEF HostedInv, HostedTypeOK
    <2> QED
      BY <2>1, HostedDataAssumption
  <1> HIDE DEF route, R
  <1>4. \A a \in Routes \ aliases : \E r \in R \ taken : a = route(r)
    BY <1>1
  <1>5. \A r \in R \ taken : route(r) \in Routes
    BY <1>1
  <1>6. aliases \subseteq Routes
    BY <1>1
  <1>7. \A a \in Routes \ aliases : a.source \in R /\ a.source \notin taken
          /\ a.dests = FirstAdmin(users)
    BY <1>2, <1>4
  <1>8. \A r \in R \ taken : \E a \in Routes : a.source = r /\ a.dests = FirstAdmin(users)
    BY <1>2, <1>5
  <1>9. \A a \in Routes : \A v : /\ [a EXCEPT !.dests = v].source = a.source
                                 /\ [a EXCEPT !.dests = v].dests = v
                                 /\ a.dests # {}
    BY <1>0, <1>2, <1>3, <1>4
  <1> QED
    BY <1>6, <1>7, <1>8, <1>9 DEF R

(* What a table says of an account that no alias forwards, and of a source *)
(* of an alias.                                                            *)
LEMMA TableFacts ==
    ASSUME NEW as, \A a \in as : a.dests # {}
    PROVE  /\ \A e \in Emails(users) \ Sources(as) : Lookup(SelfUnless(users, as), e) = {e}
           /\ \A s \in Sources(as) : \E a \in as :
                  a.source = s /\ Lookup(SelfUnless(users, as), s) = a.dests
           /\ DOMAIN SelfUnless(users, as) = Emails(users) \cup Sources(as)
           /\ \A s \in DOMAIN SelfUnless(users, as) : Lookup(SelfUnless(users, as), s) # {}
  <1> DEFINE T == SelfUnless(users, as)
             C == {a \in as : a.dests # {}}
             claim(s) == CHOOSE a \in C : a.source = s
  <1>1. C = as
    OBVIOUS
  <1>2. T = [s \in Emails(users) \cup Sources(C) |->
               IF s \in Sources(C) THEN claim(s).dests ELSE {s}]
    BY DEF SelfUnless
  <1>3. \A s \in Sources(C) : claim(s) \in C /\ claim(s).source = s
    BY DEF Sources
  <1> HIDE DEF claim, C, T
  <1>4. DOMAIN T = Emails(users) \cup Sources(as)
    BY <1>1, <1>2
  <1>5. \A s \in DOMAIN T : Lookup(T, s) = IF s \in Sources(as) THEN claim(s).dests ELSE {s}
    BY <1>1, <1>2, <1>4 DEF Lookup
  <1> QED
    BY <1>1, <1>3, <1>4, <1>5 DEF T

(* Mail goes to its owner.                                                 *)
LEMMA OwnersInv == HostedInv => MailReachesOwners
  <1> SUFFICES ASSUME HostedInv PROVE MailReachesOwners
    OBVIOUS
  <1> DEFINE map == SelfUnless(users, Routes)
             taken == Emails(users) \cup Sources(aliases)
             granted == {[a EXCEPT !.dests = IF a.senders # {} THEN a.senders ELSE a.dests] : a \in Routes}
             login == SelfUnless(users, granted)
             R == Roles(users, aliases, hostname)
  <1>0. FirstAdmin(users) # {}
    BY FirstAdminFound
  <1>1. /\ \A e \in Emails(users) \ Sources(Routes) : Lookup(map, e) = {e}
        /\ \A s \in Sources(Routes) : \E a \in Routes : a.source = s /\ Lookup(map, s) = a.dests
        /\ DOMAIN map = Emails(users) \cup Sources(Routes)
        /\ \A s \in DOMAIN map : Lookup(map, s) # {}
    <2>1. \A a \in Routes : a.dests # {}
      BY RoutesFacts
    <2> QED
      BY <2>1, TableFacts
  <1> HIDE DEF map
  <1>2. ASSUME NEW e \in Emails(users) \ Sources(aliases)
        PROVE  Lookup(map, e) = {e} /\ Lookup(login, e) = {e}
    <2>1. e \notin Sources(Routes)
      BY <1>2, RoutesFacts DEF Sources
    <2>2. \A a \in granted : (\E b \in Routes : a.source = b.source) /\ a.dests # {}
      <3> TAKE a \in granted
      <3>1. PICK b \in Routes : a = [b EXCEPT !.dests = IF b.senders # {} THEN b.senders ELSE b.dests]
        OBVIOUS
      <3> DEFINE v == IF b.senders # {} THEN b.senders ELSE b.dests
      <3>2. /\ [b EXCEPT !.dests = v].source = b.source
            /\ [b EXCEPT !.dests = v].dests = v
            /\ b.dests # {}
        <4> HIDE DEF v
        <4> QED
          BY RoutesFacts
      <3>3. v # {}
        BY <3>2
      <3> HIDE DEF granted
      <3> QED
        BY <3>1, <3>2, <3>3
    <2> HIDE DEF granted
    <2>3. e \notin Sources(granted)
      BY <2>1, <2>2 DEF Sources
    <2>4. Lookup(login, e) = {e}
      BY <1>2, <2>2, <2>3, TableFacts
    <2> QED
      BY <1>1, <1>2, <2>1, <2>4
  <1>3. taken \subseteq DOMAIN map
    <2>1. Sources(aliases) \subseteq Sources(Routes)
      BY RoutesFacts DEF Sources
    <2> QED
      BY <1>1, <2>1
  <1>4. ASSUME NEW r \in R
        PROVE  /\ Lookup(map, r) # {}
               /\ r \notin taken => Lookup(map, r) = FirstAdmin(users)
    <2>1. CASE r \in taken
      BY <1>1, <1>3, <2>1
    <2>2. CASE r \notin taken
      <3>1. r \in Sources(Routes)
        BY <2>2, RoutesFacts DEF Sources
      <3>2. PICK a \in Routes : a.source = r /\ Lookup(map, r) = a.dests
        BY <1>1, <3>1
      <3>3. a \notin aliases
        BY <2>2, <3>2 DEF Sources
      <3> QED
        BY <1>0, <2>2, <3>2, <3>3, RoutesFacts
    <2> QED
      BY <2>1, <2>2
  <1>5. ASSUME NEW d \in RenderMailboxDomains(users, Routes) \cup {hostname},
               NEW l \in IF d = hostname THEN hostnameLocals ELSE systemLocals
        PROVE  \/ Address(l, d) \in R
               \/ Address("", d) \in Sources(aliases) /\ Lookup(map, Address(l, d)) # {}
    <2>1. d \in MailDomains(users, aliases) \cup {hostname}
      BY TakesMail
    <2>2. CASE d \in CatchAlls(aliases)
      <3>1. PICK a \in aliases : a.source[1] = "" /\ DomainOf(a.source) = d
        BY <2>2 DEF CatchAlls
      <3>2. a.source = Address("", d)
        <4>1. a.source \in Source
          BY <3>1 DEF HostedInv, HostedTypeOK
        <4>2. \E k, e : a.source = Address(k, e)
          <5>1. CASE a.source \in Email
            <6>1. PICK k \in Locals, e \in Domain : a.source = Address(k, e)
              BY <5>1 DEF Email
            <6> QED
              BY <6>1
          <5>2. CASE a.source \notin Email
            BY <4>1, <5>2 DEF Source
          <5> QED
            BY <5>1, <5>2
        <4>3. PICK k, e : a.source = Address(k, e)
          BY <4>2
        <4>4. Address(k, e)[1] = k /\ DomainOf(Address(k, e)) = e
          BY DEF Address, DomainOf
        <4>5. k = "" /\ e = d
          BY <3>1, <4>3, <4>4
        <4> QED
          BY <4>3, <4>5
      <3>3. Address("", d) \in Sources(aliases)
        BY <3>1, <3>2 DEF Sources
      <3>4. Address("", d) \in DOMAIN map /\ Lookup(map, Address("", d)) # {}
        BY <1>1, <1>3, <3>3
      <3>5. DomainOf(Address(l, d)) = d
        BY DEF DomainOf, Address
      <3>6. CASE Address(l, d) \in DOMAIN map
        BY <1>1, <3>3, <3>6
      <3>7. CASE Address(l, d) \notin DOMAIN map
        <4>1. Lookup(map, Address(l, d)) = Lookup(map, Address("", d))
          BY <3>4, <3>5, <3>7 DEF Lookup
        <4> QED
          BY <3>3, <3>4, <4>1
      <3> QED
        BY <3>6, <3>7
    <2>3. CASE d \notin CatchAlls(aliases)
      <3>1. d \in (MailDomains(users, aliases) \cup {hostname}) \ CatchAlls(aliases)
        BY <2>1, <2>3
      <3>2. Address(l, d) \in {Address(k,
              d) : k \in IF d = hostname THEN hostnameLocals ELSE systemLocals}
        BY <1>5
      <3>3. Address(l, d) \in R
        BY <3>1, <3>2 DEF Roles
      <3> QED
        BY <3>3
    <2> QED
      BY <2>2, <2>3
  <1>6. ASSUME NEW d \in RenderMailboxDomains(users, Routes), NEW l \in systemLocals
        PROVE  /\ Lookup(map, Address(l, d)) # {}
               /\ (Address(l, d) \notin taken /\ Address("", d) \notin taken)
                     => \E i \in DOMAIN users :
                           users[i].admin /\ Lookup(map, Address(l, d)) = {users[i].email}
    <2>1. l \in IF d = hostname THEN hostnameLocals ELSE systemLocals
      BY DEF systemLocals, hostnameLocals
    <2> HIDE DEF R
    <2>2. \/ Address(l, d) \in R
          \/ Address("", d) \in Sources(aliases) /\ Lookup(map, Address(l, d)) # {}
      BY <1>5, <2>1
    <2> QED
      BY <1>4, <2>2, FirstAdminFound
  <1>7. Lookup(map, Address("root", hostname)) # {}
    <2>1. "root" \in IF hostname = hostname THEN hostnameLocals ELSE systemLocals
      BY DEF hostnameLocals
    <2> HIDE DEF R
    <2> QED
      BY <1>4, <1>5, <2>1
  <1> QED
    BY <1>2, <1>6, <1>7 DEF MailReachesOwners, RenderAliasMaps, RenderSenderLoginMaps, map

-----------------------------------------------------------------------------
(* What RemoveAt leaves: every other element. *)
LEMMA Removed ==
    ASSUME NEW S, NEW s \in Seq(S), NEW i \in 1 .. Len(s)
    PROVE  /\ RemoveAt(s, i) \in Seq(S) /\ Len(RemoveAt(s, i)) = Len(s) - 1
           /\ \A j \in 1 .. Len(s) : j # i => \E k \in 1 .. Len(s) - 1 : RemoveAt(s, i)[k] = s[j]
  <1>0. Len(s) \in Nat /\ i \in Nat /\ i >= 1 /\ i <= Len(s) /\ \A k \in 1 .. Len(s) : s[k] \in S
    BY LenProperties, ElementOfSeq
  <1> DEFINE a == SubSeq(s, 1, i - 1)
             b == SubSeq(s, i + 1, Len(s))
  <1>1. /\ a \in Seq(S)
        /\ Len(a) = IF 1 <= i - 1 THEN (i - 1) - 1 + 1 ELSE 0
        /\ \A k \in 1 .. (i - 1) - 1 + 1 : a[k] = s[1 + k - 1]
    <2>1. \A k \in 1 .. i - 1 : s[k] \in S
      BY <1>0
    <2>2. 1 \in Int /\ i - 1 \in Int
      BY <1>0
    <2> QED
      BY <2>1, <2>2, SubSeqProperties
  <1>2. /\ b \in Seq(S)
        /\ Len(b) = IF i + 1 <= Len(s) THEN Len(s) - (i + 1) + 1 ELSE 0
        /\ \A k \in 1 .. Len(s) - (i + 1) + 1 : b[k] = s[(i + 1) + k - 1]
    <2>1. \A k \in i + 1 .. Len(s) : s[k] \in S
      BY <1>0
    <2>2. i + 1 \in Int /\ Len(s) \in Int
      BY <1>0
    <2> QED
      BY <2>1, <2>2, SubSeqProperties
  <1> HIDE DEF a, b
  <1>3. Len(a) = i - 1 /\ Len(b) = Len(s) - i
    BY <1>0, <1>1, <1>2
  <1>4. /\ a \o b \in Seq(S)
        /\ Len(a \o b) = Len(a) + Len(b)
        /\ \A k \in 1 .. Len(a) + Len(b) : (a \o b)[k] = IF k <= Len(a) THEN a[k] ELSE b[k - Len(a)]
    BY <1>1, <1>2, ConcatProperties
  <1> DEFINE c == a \o b
  <1>5. RemoveAt(s, i) = c
    BY DEF RemoveAt, a, b
  <1> HIDE DEF c
  <1>6. /\ c \in Seq(S) /\ Len(c) = Len(s) - 1
        /\ \A k \in 1 .. Len(s) - 1 : c[k] = IF k <= i - 1 THEN a[k] ELSE b[k - (i - 1)]
    BY <1>0, <1>3, <1>4 DEF c
  <1>7. ASSUME NEW j \in 1 .. Len(s), j < i
        PROVE  j \in 1 .. Len(s) - 1 /\ c[j] = s[j]
    <2>1. j \in 1 .. (i - 1) - 1 + 1 /\ j \in 1 .. Len(s) - 1 /\ j <= i - 1 /\ 1 + j - 1 = j
      BY <1>0, <1>7
    <2> QED
      BY <1>1, <1>6, <2>1
  <1>8. ASSUME NEW j \in 1 .. Len(s), j > i
        PROVE  j - 1 \in 1 .. Len(s) - 1 /\ c[j - 1] = s[j]
    <2> DEFINE m == j - i
    <2>1. /\ j - 1 \in 1 .. Len(s) - 1 /\ ~(j - 1 <= i - 1) /\ (j - 1) - (i - 1) = m
          /\ m \in 1 .. Len(s) - (i + 1) + 1 /\ (i + 1) + m - 1 = j
      BY <1>0, <1>8
    <2>2. b[m] = s[j]
      BY <1>2, <2>1
    <2> QED
      BY <1>6, <2>1, <2>2
  <1>9. \A j \in 1 .. Len(s) : j # i => j < i \/ j > i
    BY <1>0
  <1> QED
    BY <1>5, <1>6, <1>7, <1>8, <1>9

(* The box is set up with one account, an admin.                           *)
LEMMA HostedStart == HostedInit => HostedInv
  <1> SUFFICES ASSUME HostedInit PROVE HostedInv
    OBVIOUS
  <1>1. PICK e \in Email : users = <<[email |-> e, admin |-> TRUE]>>
    BY DEF HostedInit
  <1>2. PICK b \in Boxes : hostname = b[1] /\ v6 = b[2]
    BY DEF HostedInit
  <1>3. <<hostname, v6>> \in Boxes
    BY <1>2, HostedDataAssumption
  <1>4. /\ users \in Seq([email : Email, admin : BOOLEAN]) /\ Len(users) = 1
        /\ DOMAIN users = 1 .. 1 /\ users[1].admin
    BY <1>1
  <1> QED
    BY <1>3, <1>4, HostedDataAssumption DEF HostedInit, HostedInv, HostedTypeOK

(* No operation of the panel takes the last admin away, or stores a row    *)
(* out of shape: one step for each.                                        *)
LEMMA HostedStep == HostedInv /\ [HostedNext]_hostedVars => HostedInv'
  <1> SUFFICES ASSUME HostedInv, [HostedNext]_hostedVars PROVE HostedInv'
    OBVIOUS
  <1> DEFINE U == [email : Email, admin : BOOLEAN]
             Managed == \E i \in DOMAIN users : users[i].admin
             Rest == /\ aliases \subseteq [source : Source, dests : Destinations,
                                          senders : {{}, {External}}]
                     /\ custom \subseteq CustomRecord
                     /\ secondary \in SUBSET SecondaryNS
                     /\ <<hostname, v6>> \in Boxes
  <1>0. /\ users \in Seq(U) /\ Len(users) \in Nat /\ Len(users) <= MaxUsers
        /\ DOMAIN users = 1 .. Len(users) /\ Managed /\ Rest
        /\ \A i \in DOMAIN users : users[i] \in U
    BY LenProperties, ElementOfSeq DEF HostedInv, HostedTypeOK
  <1>1. ASSUME NEW e \in Email, NEW admin \in BOOLEAN, CreateUser(e, admin)
        PROVE  HostedInv'
    <2> DEFINE u == [email |-> e, admin |-> admin]
    <2>1. u \in U /\ users' = Append(users, u) /\ Len(users) < MaxUsers
      BY <1>1 DEF CreateUser
    <2> HIDE DEF u, U
    <2>2. /\ users' \in Seq(U) /\ Len(users') = Len(users) + 1
          /\ \A i \in 1 .. Len(users) : users'[i] = users[i]
      BY <1>0, <2>1
    <2>3. Len(users') <= MaxUsers /\ DOMAIN users' = 1 .. Len(users')
      BY <1>0, <2>1, <2>2, LenProperties, HostedDataAssumption
    <2>4. Managed'
      BY <1>0, <2>2, <2>3
    <2>5. Rest'
      BY <1>0, <1>1 DEF CreateUser
    <2> QED
      BY <2>2, <2>3, <2>4, <2>5 DEF HostedInv, HostedTypeOK, U
  <1>2. ASSUME NEW i \in DOMAIN users, UpdateUser(i)
        PROVE  HostedInv'
    <2> DEFINE u == [users[i] EXCEPT !.admin = ~users[i].admin]
    <2>1. u \in U /\ u.admin = ~users[i].admin
      BY <1>0
    <2>2. users' = [users EXCEPT ![i] = u]
      BY <1>2 DEF UpdateUser
    <2>3. PICK j \in DOMAIN users : IF users[i].admin THEN j # i /\ users[j].admin ELSE j = i
      BY <1>2 DEF UpdateUser, IsLastAdmin
    <2> HIDE DEF u, U
    <2>4. /\ users' \in Seq(U) /\ Len(users') = Len(users)
          /\ \A k \in 1 .. Len(users) : users'[k] = IF k = i THEN u ELSE users[k]
      BY <1>0, <2>1, <2>2, ExceptSeq
    <2>5. DOMAIN users' = DOMAIN users
      BY <2>2
    <2>6. users'[j].admin
      BY <1>0, <2>1, <2>3, <2>4
    <2>7. Rest'
      BY <1>0, <1>2 DEF UpdateUser
    <2> QED
      BY <1>0, <2>3, <2>4, <2>5, <2>6, <2>7 DEF HostedInv, HostedTypeOK, U
  <1>3. ASSUME NEW i \in DOMAIN users, DeleteUser(i)
        PROVE  HostedInv'
    <2>1. users' = RemoveAt(users, i) /\ (users[i].admin => ~IsLastAdmin(i))
      BY <1>3 DEF DeleteUser
    <2>2. PICK j \in DOMAIN users : j # i /\ users[j].admin
      BY <1>0, <2>1 DEF IsLastAdmin
    <2> HIDE DEF U
    <2>3. /\ users' \in Seq(U) /\ Len(users') = Len(users) - 1
          /\ \E k \in 1 .. Len(users) - 1 : users'[k] = users[j]
      <3>1. i \in 1 .. Len(users) /\ j \in 1 .. Len(users) /\ users \in Seq(U)
        BY <1>0
      <3>2. /\ RemoveAt(users, i) \in Seq(U) /\ Len(RemoveAt(users, i)) = Len(users) - 1
            /\ \A k \in 1 .. Len(users) : k # i =>
                  \E n \in 1 .. Len(users) - 1 : RemoveAt(users, i)[n] = users[k]
        BY <3>1, Removed
      <3> QED
        BY <2>1, <2>2, <3>1, <3>2
    <2>4. DOMAIN users' = 1 .. Len(users') /\ Len(users') <= MaxUsers
      BY <1>0, <2>3, LenProperties, HostedDataAssumption
    <2>5. Managed'
      BY <2>2, <2>3, <2>4
    <2>6. Rest'
      BY <1>0, <1>3 DEF DeleteUser
    <2> QED
      BY <2>3, <2>4, <2>5, <2>6 DEF HostedInv, HostedTypeOK, U
  <1>4. ASSUME UNCHANGED users, Rest'
        PROVE  HostedInv'
    BY <1>0, <1>4 DEF HostedInv, HostedTypeOK
  <1>5. ASSUME NEW s \in Source, NEW dests \in Destinations, NEW senders \in {{}, {External}},
               UpsertAlias(s, dests, senders)
        PROVE  HostedInv'
    BY <1>0, <1>4, <1>5 DEF UpsertAlias
  <1>6. ASSUME NEW a \in aliases, DeleteAlias(a)
        PROVE  HostedInv'
    BY <1>0, <1>4, <1>6 DEF DeleteAlias
  <1>7. ASSUME NEW r \in CustomRecord, CreateDNSRecord(r) \/ DeleteDNSRecords(r.q, r.t)
        PROVE  HostedInv'
    BY <1>0, <1>4, <1>7 DEF CreateDNSRecord, DeleteDNSRecords
  <1>8. ASSUME NEW q, NEW t, NEW values \in SUBSET CustomRecord, ReplaceDNSRecords(q, t, values)
        PROVE  HostedInv'
    BY <1>0, <1>4, <1>8 DEF ReplaceDNSRecords
  <1>9. ASSUME NEW s \in SUBSET SecondaryNS, SetSecondaryNS(s)
        PROVE  HostedInv'
    BY <1>0, <1>4, <1>9 DEF SetSecondaryNS
  <1>10. ASSUME UNCHANGED hostedVars
         PROVE  HostedInv'
    BY <1>0, <1>4, <1>10 DEF hostedVars
  <1>11. ASSUME NEW r \in CustomRecord
         PROVE  {v \in CustomRecord : v.q = r.q /\ v.t = r.t} \in SUBSET CustomRecord
                /\ {r} \in SUBSET CustomRecord
    BY <1>11
  <1> QED
    BY <1>1, <1>2, <1>3, <1>5, <1>6, <1>7, <1>8, <1>9, <1>10, <1>11 DEF HostedNext

(* There is always an admin, in every reachable state.                     *)
LEMMA HostedInvariance == HostedSpec => []HostedInv
  BY HostedStart, HostedStep, PTL DEF HostedSpec

(* The rows keep their types, whatever the panel does.                     *)
THEOREM HostedTypesCorrect == HostedSpec => []HostedTypeOK
  <1>1. HostedInv => HostedTypeOK
    BY DEF HostedInv
  <1> QED
    BY <1>1, HostedInvariance, PTL

(* What ApplySystemRouting and RenderAliasMaps derive of the rows delivers *)
(* the mail of every account to it and of every role address to somewhere, *)
(* whatever aliases, catch-alls and accounts there are. It is here that    *)
(* the admin is needed: without one the role addresses would lead nowhere. *)
THEOREM DeliverySafe == HostedSpec => []MailReachesOwners
  BY OwnersInv, HostedInvariance, PTL

(* buildZone and filterCustom leave out no custom record of a hosted name, *)
(* whatever names fold into its zone, other than the excepted ones.        *)
THEOREM CustomRecordsSafe == HostedSpec => []CustomRecordsLand
  BY CustomRecordsInv, HostedTypesCorrect, PTL

(* What Derive has nginx serve is what the zones point at this box.        *)
THEOREM SitesSafe == HostedSpec => []SitesResolveHere
  BY SitesInv, HostedTypesCorrect, PTL

(* The zones offer to take mail for the domains Postfix takes mail for,    *)
(* and refuse it for the other names that resolve; a null MX at a name of  *)
(* mail is one the operator entered.                                       *)
THEOREM MXSafe == HostedSpec => []MXMatchesDelivery
  BY MXInv, HostedTypesCorrect, PTL

-----------------------------------------------------------------------------
(* The mail materializer. *)
USE MaterializerAssumption

(* TypeOK, with the files as functions of their names. *)
TypeInv ==
    /\ TypeOK
    /\ DOMAIN text = File /\ DOMAIN db = Map /\ DOMAIN scratch = Map /\ DOMAIN scratchDb = Map

InHand(p) == job[p].pc \in {"postmap", "swapDb", "swapText"}

PastLoad(p) == job[p].pc \notin {"idle", "load"}

(* Where each Rebuild is, and which map it has in hand; who is alone. *)
RunInv ==
    /\ loop.doing => loop.up
    /\ loop.doing <=> Rebuilding("managerd")
    /\ \A p \in Process :
          /\ alone = p => ~Rebuilding(Other(p))
          /\ IF InHand(p) THEN job[p].cur \in Map ELSE job[p].cur = NoFile
          /\ PastLoad(p) => job[p].reads = Len(Queries)

(* What a process that is alone has compiled under the scratch names, and  *)
(* installed between the renames, is its snapshot; what a process that is  *)
(* not alone has between the renames is marked.                            *)
CompiledInv ==
    \A p \in Process :
        LET m == job[p].cur
            content == Render(m, job[p].snap)
        IN  /\ alone = p /\ InHand(p) => scratch[m] = content
            /\ alone = p /\ job[p].pc = "swapDb" => scratchDb[m] = content
            /\ alone = p /\ job[p].pc = "swapText" => db[m] \in {content, Absent}
            /\ alone # p /\ job[p].pc = "swapText" => m \in crossed

(* No change was committed that the loop was told of, or is to be told of, *)
(* and has not begun to look at.                                           *)
Heard == loop.up /\ ~loop.kick /\ notifying = 0

ReadTables(n) == {Queries[i] : i \in 1 .. n}

(* The queries of p have read the tables as they are, except for changes   *)
(* nobody was told of.                                                     *)
ReadCurrent(p) == \A t \in ReadTables(job[p].reads) \ unheard : job[p].snap[t] = store[t]

(* The file is what the tables render to, or excepted. *)
Known(f) == f \in crossed \/ Inputs(f) \cap unheard # {} \/ text[f] = Render(f, store)

(* boxctl, at work with no run of managerd beside it. *)
Recovering == alone = "boxctl" /\ Rebuilding("boxctl")

(* The queries of a run that is not to be repeated read the tables as they *)
(* are; the files behind it are known, and when the last run was a success *)
(* every file is.  What boxctl has done alone is its snapshot.             *)
CurrentInv ==
    /\ Heard /\ loop.doing => ReadCurrent("managerd")
    /\ Heard /\ Recovering => ReadCurrent("boxctl")
    /\ Heard /\ PastLoad("managerd") => \A f \in File \ job["managerd"].todo : Known(f)
    /\ Heard /\ ~loop.doing /\ loop.retries = 0 => \A f \in File : Known(f)
    /\ Recovering => "users" \in unheard
    /\ Recovering /\ PastLoad("boxctl") =>
          \A f \in File \ job["boxctl"].todo :
              f \in crossed \/ text[f] = Render(f, job["boxctl"].snap)

IInv == TypeInv /\ RunInv /\ CompiledInv /\ TextSpeaksForDb /\ CurrentInv

(* The tables a file is rendered from, and what rendering gives: a value   *)
(* that is neither a missing file nor a partial one.                       *)
LEMMA Rendering ==
    ASSUME NEW f
    PROVE  /\ Inputs(f) \subseteq Table /\ "users" \in Inputs(f)
           /\ \A tables \in [Table -> Value] : Render(f, tables) \in Content(f)
           /\ \A tables : Render(f, tables) # Absent /\ Render(f, tables) # Partial
           /\ \A s, t : (\A x \in Table : s[x] = t[x]) => Render(f, s) = Render(f, t)
  <1>1. Inputs(f) \subseteq Table /\ "users" \in Inputs(f)
    BY DEF Inputs, Table
  <1>2. \A tables \in [Table -> Value] : Render(f, tables) \in Content(f)
    BY <1>1 DEF Render, Content
  <1>3. ASSUME NEW tables PROVE Render(f, tables) # Absent /\ Render(f, tables) # Partial
    <2>1. "users" \in DOMAIN Render(f, tables)
      BY <1>1 DEF Render
    <2>2. "users" \notin DOMAIN Absent /\ "users" \notin DOMAIN Partial
      BY DEF Absent, Partial
    <2> QED
      BY <2>1, <2>2
  <1>4. ASSUME NEW s, NEW t, \A x \in Table : s[x] = t[x] PROVE Render(f, s) = Render(f, t)
    BY <1>1, <1>4 DEF Render
  <1> QED
    BY <1>1, <1>2, <1>3, <1>4

(* A missing file is not a partial one. *)
LEMMA Absents == Absent # Partial
  <1>1. "absent" \in DOMAIN Absent /\ "absent" \notin DOMAIN Partial
    BY DEF Absent, Partial
  <1> QED
    BY <1>1

(* The queries, one after the other, read every table. *)
LEMMA Reading ==
    /\ Len(Queries) = 3 /\ \A n \in 0 .. 2 : Queries[n + 1] \in Table
    /\ ReadTables(0) = {} /\ ReadTables(Len(Queries)) = Table
    /\ \A n \in 0 .. 2 : ReadTables(n + 1) = ReadTables(n) \cup {Queries[n + 1]}
    /\ \A n \in 0 .. 3 : ReadTables(n) \subseteq Table
  <1>1. Len(Queries) = 3 /\ Queries[1] = "users" /\ Queries[2] = "slots" /\ Queries[3] = "aliases"
    BY DEF Queries
  <1>2. \A n \in 0 .. 2 : Queries[n + 1] \in Table
    BY <1>1 DEF Table
  <1>3. ReadTables(0) = {} /\ ReadTables(3) = Table
    BY <1>1 DEF ReadTables, Table
  <1>4. \A n \in 0 .. 2 : ReadTables(n + 1) = ReadTables(n) \cup {Queries[n + 1]}
    BY DEF ReadTables
  <1>5. \A n \in 0 .. 3 : ReadTables(n) \subseteq Table
    BY <1>1 DEF ReadTables, Table
  <1> QED
    BY <1>1, <1>2, <1>3, <1>4, <1>5

(* The loop's record, step by step. *)
LEMMA LoopOps ==
    /\ LoopDown \in LoopState /\ LoopBooted \in LoopState
    /\ \A l \in LoopState :
          /\ Kicked(l) \in LoopState /\ Taken(l) \in LoopState /\ Finished(l) \in LoopState
          /\ Failed(l) \in LoopState
          /\ l.retries > 0 => RetryFired(l) \in LoopState
  <1>1. LoopDown \in LoopState /\ LoopBooted \in LoopState
    BY DEF LoopState, LoopDown, LoopBooted
  <1>2. ASSUME NEW l \in LoopState
        PROVE  Kicked(l) \in LoopState /\ Taken(l) \in LoopState /\ Finished(l) \in LoopState
    BY DEF LoopState, Kicked, Taken, Finished
  <1>3. ASSUME NEW l \in LoopState PROVE Failed(l) \in LoopState
    <2>1. l.up \in BOOLEAN /\ l.kick \in BOOLEAN /\ l.retries + 1 \in Nat
      BY DEF LoopState
    <2> QED
      BY <2>1 DEF LoopState, Failed
  <1>4. ASSUME NEW l \in LoopState, l.retries > 0 PROVE RetryFired(l) \in LoopState
    <2>1. l.up \in BOOLEAN /\ l.doing \in BOOLEAN /\ l.retries - 1 \in Nat
      BY <1>4 DEF LoopState
    <2> QED
      BY <2>1 DEF LoopState, RetryFired
  <1> QED
    BY <1>1, <1>2, <1>3, <1>4

(* The loop's fields, operation by operation. *)
LEMMA LoopFields ==
    ASSUME NEW l \in LoopState
    PROVE  /\ ~LoopDown.up /\ ~LoopDown.doing
           /\ LoopBooted.up /\ LoopBooted.kick /\ ~LoopBooted.doing
           /\ (Kicked(l).up <=> l.up) /\ (Kicked(l).doing <=> l.doing)
           /\ l.up => Kicked(l).kick
           /\ (Taken(l).up <=> l.up) /\ ~Taken(l).kick /\ Taken(l).doing
           /\ (Finished(l).up <=> l.up) /\ (Finished(l).kick <=> l.kick) /\ ~Finished(l).doing
           /\ (Failed(l).up <=> l.up) /\ (Failed(l).kick <=> l.kick) /\ ~Failed(l).doing
           /\ Failed(l).retries # 0
           /\ (RetryFired(l).up <=> l.up) /\ RetryFired(l).kick
           /\ (RetryFired(l).doing <=> l.doing)
  <1>1. /\ ~LoopDown.up /\ ~LoopDown.doing
        /\ LoopBooted.up /\ LoopBooted.kick /\ ~LoopBooted.doing
    BY DEF LoopDown, LoopBooted
  <1>2. /\ (Kicked(l).up <=> l.up) /\ (Kicked(l).doing <=> l.doing)
        /\ l.up => Kicked(l).kick
    BY DEF Kicked, LoopState
  <1>3. (Taken(l).up <=> l.up) /\ ~Taken(l).kick /\ Taken(l).doing
    BY DEF Taken, LoopState
  <1>4. (Finished(l).up <=> l.up) /\ (Finished(l).kick <=> l.kick) /\ ~Finished(l).doing
    BY DEF Finished, LoopState
  <1>5. (Failed(l).up <=> l.up) /\ (Failed(l).kick <=> l.kick) /\ ~Failed(l).doing
    BY DEF Failed, LoopState
  <1>6. Failed(l).retries # 0
    <2>1. Failed(l).retries = l.retries + 1 /\ l.retries \in Nat
      BY DEF Failed, LoopState
    <2> QED
      BY <2>1
  <1>7. /\ (RetryFired(l).up <=> l.up) /\ RetryFired(l).kick
        /\ (RetryFired(l).doing <=> l.doing)
    BY DEF RetryFired, LoopState
  <1> QED
    BY <1>1, <1>2, <1>3, <1>4, <1>5, <1>6, <1>7

(* A call of Rebuild that is not under way, and one that begins. *)
LEMMA Jobs ==
    /\ Empty \in [Table -> Value]
    /\ NoJob \in Job /\ [NoJob EXCEPT !.pc = "load"] \in Job
    /\ NoJob.pc = "idle" /\ NoJob.cur = NoFile /\ NoJob.todo = {} /\ NoJob.reads = 0
    /\ [NoJob EXCEPT !.pc = "load"].pc = "load"
    /\ [NoJob EXCEPT !.pc = "load"].cur = NoFile
    /\ [NoJob EXCEPT !.pc = "load"].reads = 0
    /\ [NoJob EXCEPT !.pc = "load"].todo = {}
  <1>1. Empty \in [Table -> Value]
    BY DEF Empty
  <1> QED
    BY <1>1, Reading DEF NoJob, Job

(* Types are kept by every step. *)
LEMMA TypeStep == TypeInv /\ RunInv /\ [Next]_vars => TypeInv'
  <1> SUFFICES ASSUME TypeInv, RunInv, [Next]_vars PROVE TypeInv'
    OBVIOUS
  <1> USE DEF TypeInv, TypeOK, files, histories, bounds
  <1>a. \A p \in Process : Other(p) \in Process
    BY DEF Process, Other
  <1>b. "managerd" \in Process /\ "boxctl" \in Process
    BY DEF Process
  <1>c. \A f \in File : Render(f, store) \in Content(f)
    BY Rendering
  <1>d. ASSUME NEW p \in Process, NEW f PROVE Render(f, job[p].snap) \in Content(f)
    BY Rendering DEF Job
  <1>e. ASSUME NEW p \in Process, Begins(p)
        PROVE  /\ job' \in [Process -> Job] /\ alone' \in Process \cup {"nobody"}
               /\ crossed' \subseteq File
    BY <1>e, Jobs DEF Begins, File
  <1>f. ASSUME NEW p \in Process, Abandoned(p)
        PROVE  /\ job' \in [Process -> Job] /\ alone' \in Process \cup {"nobody"}
               /\ interrupted' \subseteq Map
               /\ DOMAIN scratchDb' = Map
               /\ \A m \in Map : scratchDb'[m] \in Content(m) \cup {Absent, Partial}
    BY <1>f, Jobs DEF Abandoned, RunInv, InHand
  <1>g. ASSUME NEW p \in Process, NEW c, NEW d, d \in Outcome(p, c) PROVE d \in {c, Partial}
    BY <1>g DEF Outcome
  <1>h. ASSUME NEW t, Changed(t) PROVE store' \in [Table -> Value]
    BY <1>h DEF Changed
  <1>i. \A p \in Process : InHand(p) => job[p].cur \in Map
    BY DEF RunInv
  <1>j. \A p \in Process : job[p] \in Job
    OBVIOUS
  <1>1. CASE Boot
    BY <1>1, LoopOps DEF Boot
  <1>2. CASE Crash
    BY <1>2, <1>b, <1>f, LoopOps DEF Crash
  <1>3. CASE Notify
    BY <1>3, LoopOps DEF Notify
  <1>4. CASE TickFires
    BY <1>4, LoopOps DEF TickFires
  <1>5. CASE RetryFires
    BY <1>5, LoopOps DEF RetryFires
  <1>6. CASE TakeKick
    BY <1>6, <1>b, <1>e, LoopOps DEF TakeKick
  <1>7. CASE Recover
    BY <1>7, <1>b, <1>e, <1>h DEF Recover, Table
  <1>8. ASSUME NEW p \in Process, LoadTable(p) PROVE TypeInv'
    <2> DEFINE t == Queries[job[p].reads + 1]
               read == [job[p] EXCEPT !.reads = @ + 1, !.snap[t] = store[t]]
               last == [read EXCEPT !.pc = "files", !.todo = File]
    <2>1. job[p].reads \in 0 .. 2 /\ t \in Table
      BY <1>8, <1>j, Reading DEF LoadTable, Job
    <2>2. job' = [job EXCEPT ![p] = read] \/ job' = [job EXCEPT ![p] = last]
      BY <1>8, <1>j DEF LoadTable, Job
    <2>a. job[p].reads + 1 \in 0 .. 3 /\ [job[p].snap EXCEPT ![t] = store[t]] \in [Table -> Value]
      BY <1>j, <2>1 DEF Job
    <2>b. read = [job[p] EXCEPT !.reads = job[p].reads + 1,
                                !.snap = [job[p].snap EXCEPT ![t] = store[t]]]
      OBVIOUS
    <2>3. read \in Job
      <3> DEFINE j == job[p]
                 n == job[p].reads + 1
                 sn == [job[p].snap EXCEPT ![t] = store[t]]
      <3>1. j \in Job /\ n \in 0 .. Len(Queries) /\ sn \in [Table -> Value]
        BY <1>j, <2>a, Reading
      <3>2. read = [j EXCEPT !.reads = n, !.snap = sn]
        BY <2>b
      <3> HIDE DEF t, read, j, n, sn
      <3> QED
        BY <3>1, <3>2 DEF Job
    <2>4. last \in Job
      BY <2>3 DEF Job
    <2>5. job' \in [Process -> Job]
      BY <2>2, <2>3, <2>4
    <2> QED
      BY <1>8, <2>5 DEF LoadTable
  <1>9. ASSUME NEW p \in Process, NEW m \in Map, SkipMap(p, m)
         PROVE  TypeInv'
    <2>1. job' = [job EXCEPT ![p] = [job[p] EXCEPT !.todo = @ \ {m}]]
      BY <1>9 DEF SkipMap
    <2>2. [job[p] EXCEPT !.todo = @ \ {m}] \in Job
      BY <1>j DEF Job
    <2>3. job' \in [Process -> Job]
      BY <2>1, <2>2
    <2> QED
      BY <1>9, <2>3 DEF SkipMap
  <1>10. ASSUME NEW p \in Process, NEW m \in Map, WriteScratch(p, m)
         PROVE  TypeInv'
    <2>1. job' = [job EXCEPT ![p] = [job[p] EXCEPT !.pc = "postmap", !.cur = m]]
      BY <1>10 DEF WriteScratch
    <2>2. [job[p] EXCEPT !.pc = "postmap", !.cur = m] \in Job
      BY <1>j DEF Job
    <2>3. job' \in [Process -> Job]
      BY <2>1, <2>2
    <2> QED
      BY <1>10, <2>3, <1>d DEF WriteScratch, Marked, File
  <1>11. ASSUME NEW p \in Process, Postmap(p) PROVE TypeInv'
    <2>1. job' = [job EXCEPT ![p] = [job[p] EXCEPT !.pc = "swapDb"]]
      BY <1>11 DEF Postmap
    <2>2. [job[p] EXCEPT !.pc = "swapDb"] \in Job
      BY <1>j DEF Job
    <2>3. job' \in [Process -> Job]
      BY <2>1, <2>2
    <2>4. job[p].cur \in Map
      BY <1>11, <1>i DEF Postmap, InHand
    <2> QED
      BY <1>11, <2>3, <2>4 DEF Postmap, Marked, File
  <1>12. ASSUME NEW p \in Process, RenameDb(p) PROVE TypeInv'
    <2>1. job' = [job EXCEPT ![p] = [job[p] EXCEPT !.pc = "swapText"]]
      BY <1>12 DEF RenameDb
    <2>2. [job[p] EXCEPT !.pc = "swapText"] \in Job
      BY <1>j DEF Job
    <2>3. job' \in [Process -> Job]
      BY <2>1, <2>2
    <2>4. job[p].cur \in Map
      BY <1>12, <1>i DEF RenameDb, InHand
    <2>5. PICK c \in Outcome(p, scratchDb[job[p].cur]) : db' = [db EXCEPT ![job[p].cur] = c]
      BY <1>12 DEF RenameDb
    <2>6. c \in {scratchDb[job[p].cur], Partial}
      BY <2>5, <1>g
    <2> QED
      BY <1>12, <2>3, <2>4, <2>5, <2>6 DEF RenameDb, Marked, File
  <1>13. ASSUME NEW p \in Process, RenameText(p) PROVE TypeInv'
    <2>1. job' = [job EXCEPT ![p] = [job[p] EXCEPT !.pc = "files", !.cur = NoFile, !.todo = @ \ {job[p].cur}]]
      BY <1>13 DEF RenameText
    <2>2. [job[p] EXCEPT !.pc = "files", !.cur = NoFile, !.todo = @ \ {job[p].cur}] \in Job
      BY <1>j DEF Job
    <2>3. job' \in [Process -> Job]
      BY <2>1, <2>2
    <2>4. job[p].cur \in Map
      BY <1>13, <1>i DEF RenameText, InHand
    <2>5. PICK c \in Outcome(p, scratch[job[p].cur]) : text' = [text EXCEPT ![job[p].cur] = c]
      BY <1>13 DEF RenameText
    <2>6. c \in {scratch[job[p].cur], Partial}
      BY <2>5, <1>g
    <2> QED
      BY <1>13, <2>3, <2>4, <2>5, <2>6 DEF RenameText, Installed, File
  <1>14. ASSUME NEW p \in Process, WritePasswdFile(p) PROVE TypeInv'
    <2>1. job' \in [Process -> Job]
      BY <1>14, Jobs DEF WritePasswdFile
    <2> DEFINE content == Render(PasswdFile, job[p].snap)
    <2>2. PICK c \in Outcome(p, content) : text' = [text EXCEPT ![PasswdFile] = c]
      BY <1>14 DEF WritePasswdFile
    <2>3. c \in {content, Partial} /\ content \in Content(PasswdFile)
      BY <2>2, <1>d, <1>g
    <2>4. loop' \in LoopState
      BY <1>14, LoopOps DEF WritePasswdFile
    <2> HIDE DEF content
    <2> QED
      BY <1>14, <2>1, <2>2, <2>3, <2>4 DEF WritePasswdFile, Installed, File
  <1>15. ASSUME NEW p \in Process, RunFails(p) PROVE TypeInv'
    BY <1>15, <1>f, LoopOps DEF RunFails
  <1>16. ASSUME NEW t \in Table, Commit(t) PROVE TypeInv'
    BY <1>16, <1>h DEF Commit
  <1>17. ASSUME NEW t \in Table, CommitUnheard(t) PROVE TypeInv'
    BY <1>17, <1>h DEF CommitUnheard
  <1>18. ASSUME NEW m \in Map, DbDeleted(m) PROVE TypeInv'
    BY <1>18, LoopOps DEF DbDeleted
  <1>19. CASE UNCHANGED vars
    BY <1>19 DEF vars
  <1>t. UNION {Inputs(f) : f \in File} \subseteq Table
    BY Rendering
  <1> HIDE DEF TypeInv
  <1> QED
    BY <1>1, <1>2, <1>3, <1>4, <1>5, <1>6, <1>7, <1>8, <1>9, <1>10, <1>11, <1>12,
       <1>13, <1>14, <1>15, <1>16, <1>17, <1>18, <1>19, <1>t DEF Next, Work, Table

(* Where the runs are stays consistent in every step. *)
LEMMA RunStep == TypeInv /\ RunInv /\ [Next]_vars => RunInv'
  <1> SUFFICES ASSUME TypeInv, RunInv, [Next]_vars PROVE RunInv'
    OBVIOUS
  <1> USE DEF RunInv, Rebuilding, InHand, PastLoad, files, histories, bounds, TypeInv, TypeOK,
              Process, Other
  <1>1. CASE Boot
    BY <1>1, LoopFields, Reading DEF Boot, Job
  <1>2. CASE Crash
    BY <1>2, LoopFields, Jobs DEF Crash, Abandoned
  <1>3. CASE Notify
    BY <1>3, LoopFields, Reading DEF Notify, Job
  <1>4. CASE TickFires
    BY <1>4, LoopFields, Reading DEF TickFires, Job
  <1>5. CASE RetryFires
    BY <1>5, LoopFields, Reading DEF RetryFires, Job
  <1>6. CASE TakeKick
    BY <1>6, LoopFields, Jobs DEF TakeKick, CanTake, Begins
  <1>7. CASE Recover
    BY <1>7, LoopFields, Jobs DEF Recover, Begins
  <1>8. ASSUME NEW p \in Process, LoadTable(p) PROVE RunInv'
    <2>1. job[p].reads \in 0 .. 2
      BY <1>8, Reading DEF LoadTable, Job
    <2>2. /\ job'[p].cur = job[p].cur /\ job'[p].pc \in {"load", "files"}
          /\ job'[p].pc = "files" => job'[p].reads = 3
          /\ \A q \in Process \ {p} : job'[q] = job[q]
      BY <1>8, <2>1, Reading DEF LoadTable, Job
    <2>3. UNCHANGED <<loop, alone>> /\ job[p].pc = "load"
      BY <1>8 DEF LoadTable
    <2> QED
      BY <2>1, <2>2, <2>3, Reading
  <1>9. ASSUME NEW p \in Process, NEW m \in Map, SkipMap(p, m)
         PROVE  RunInv'
    BY <1>9, LoopFields, Reading DEF SkipMap, Job
  <1>10. ASSUME NEW p \in Process, NEW m \in Map, WriteScratch(p, m)
         PROVE  RunInv'
    BY <1>10, LoopFields, Reading DEF WriteScratch, Job
  <1>11. ASSUME NEW p \in Process, Postmap(p) PROVE RunInv'
    BY <1>11, LoopFields, Reading DEF Postmap, Job
  <1>12. ASSUME NEW p \in Process, RenameDb(p) PROVE RunInv'
    BY <1>12, LoopFields, Reading DEF RenameDb, Job
  <1>13. ASSUME NEW p \in Process, RenameText(p) PROVE RunInv'
    BY <1>13, LoopFields, Reading DEF RenameText, Job
  <1>14. ASSUME NEW p \in Process, WritePasswdFile(p) PROVE RunInv'
    BY <1>14, LoopFields, Jobs DEF WritePasswdFile
  <1>15. ASSUME NEW p \in Process, RunFails(p) PROVE RunInv'
    BY <1>15, LoopFields, Jobs DEF RunFails, Abandoned
  <1>16. ASSUME NEW t \in Table, Commit(t) PROVE RunInv'
    BY <1>16, LoopFields, Reading DEF Commit, Job
  <1>17. ASSUME NEW t \in Table, CommitUnheard(t) PROVE RunInv'
    BY <1>17, LoopFields, Reading DEF CommitUnheard, Job
  <1>18. ASSUME NEW m \in Map, DbDeleted(m) PROVE RunInv'
    BY <1>18, LoopFields, Reading DEF DbDeleted, Job
  <1>19. CASE UNCHANGED vars
    BY <1>19 DEF vars
  <1>t. UNION {Inputs(f) : f \in File} \subseteq Table
    BY Rendering
  <1> HIDE DEF RunInv
  <1> QED
    BY <1>1, <1>2, <1>3, <1>4, <1>5, <1>6, <1>7, <1>8, <1>9, <1>10, <1>11, <1>12,
       <1>13, <1>14, <1>15, <1>16, <1>17, <1>18, <1>19, <1>t DEF Next, Work, Table

(* The files of a map move together, or the map is marked. *)
LEMMA FilesStep ==
    TypeInv /\ RunInv /\ CompiledInv /\ TextSpeaksForDb /\ [Next]_vars
        => (CompiledInv /\ TextSpeaksForDb)'
  <1> SUFFICES ASSUME TypeInv, RunInv, CompiledInv, TextSpeaksForDb, [Next]_vars
               PROVE  (CompiledInv /\ TextSpeaksForDb)'
    OBVIOUS
  <1> USE DEF CompiledInv, TextSpeaksForDb, files, histories, bounds, TypeInv
  <1>a. ASSUME UNCHANGED <<job, files, interrupted, alone, crossed>>
        PROVE  (CompiledInv /\ TextSpeaksForDb)'
    BY <1>a DEF InHand
  <1>p. \A p \in Process : Other(p) \in Process \ {p} /\ Process = {p, Other(p)} /\ p # "nobody"
    BY DEF Process, Other
  <1>b. ASSUME NEW p \in Process, Begins(p), UNCHANGED <<files, interrupted>>, ~Rebuilding(p)
        PROVE  (CompiledInv /\ TextSpeaksForDb)'
    <2> DEFINE q == Other(p)
    <2>1. /\ q \in Process /\ q # p /\ Process = {p, q}
      BY <1>p
    <2>2. /\ job'[p].pc = "load" /\ job'[q] = job[q] /\ alone' # q
          /\ alone' = p => ~Rebuilding(q)
          /\ crossed \subseteq crossed'
          /\ job[q].cur \in Map => job[q].cur \in crossed'
      BY <1>b, <2>1, <1>p, Jobs DEF Begins, TypeOK
    <2>3. job[q].pc = "swapText" => job[q].cur \in Map
      BY <2>1 DEF RunInv, InHand
    <2>a. UNCHANGED <<text, db, scratch, scratchDb, interrupted>> /\ job[p].pc = "idle"
      BY <1>b DEF Rebuilding
    <2>4. CompiledInv'
      BY <2>1, <2>2, <2>3, <2>a DEF InHand, Rebuilding
    <2>5. TextSpeaksForDb'
      BY <2>1, <2>2, <2>3, <2>a
    <2> QED
      BY <2>4, <2>5
  <1>c. ASSUME NEW p \in Process, Abandoned(p), UNCHANGED <<text, db, scratch, crossed>>
        PROVE  (CompiledInv /\ TextSpeaksForDb)'
    <2> DEFINE q == Other(p)
    <2>1. /\ q \in Process /\ q # p /\ Process = {p, q} /\ p # "nobody" /\ q # "nobody"
      BY <1>p
    <2>2. /\ job'[p].pc = "idle" /\ job'[q] = job[q] /\ alone' # p /\ (alone' = q <=> alone = q)
          /\ interrupted \subseteq interrupted'
          /\ job[p].pc = "swapText" => job[p].cur \in interrupted'
      BY <1>c, <2>1, Jobs DEF Abandoned, TypeOK
    <2>a. alone = q => job[p].pc = "idle"
      BY <2>1 DEF RunInv, Rebuilding, Other, Process
    <2>3. alone = q => scratchDb' = scratchDb
      BY <1>c, <2>a DEF Abandoned
    <2>4. CompiledInv'
      BY <1>c, <2>1, <2>2, <2>3 DEF InHand
    <2>5. TextSpeaksForDb'
      BY <1>c, <2>1, <2>2
    <2> QED
      BY <2>4, <2>5
  <1>1. CASE Boot
    BY <1>1, <1>a DEF Boot
  <1>2. CASE Crash
    BY <1>2, <1>c DEF Crash, Process
  <1>3. CASE Notify
    BY <1>3, <1>a DEF Notify
  <1>4. CASE TickFires
    BY <1>4, <1>a DEF TickFires
  <1>5. CASE RetryFires
    BY <1>5, <1>a DEF RetryFires
  <1>6. CASE TakeKick
    BY <1>6, <1>b DEF TakeKick, CanTake, RunInv, Process
  <1>7. CASE Recover
    BY <1>7, <1>b DEF Recover, Process
  <1>8. ASSUME NEW p \in Process, LoadTable(p) PROVE (CompiledInv /\ TextSpeaksForDb)'
    <2>1. job[p].reads \in 0 .. 2 /\ ~InHand(p)
      BY <1>8, Reading DEF LoadTable, Job, TypeOK, InHand
    <2>2. /\ job'[p].pc \in {"load", "files"}
          /\ \A q \in Process \ {p} : job'[q] = job[q]
      BY <1>8, <2>1, Reading DEF LoadTable, Job, TypeOK
    <2>3. /\ UNCHANGED <<text, db, scratch, scratchDb, interrupted, alone, crossed>>
          /\ job[p].pc = "load"
      BY <1>8 DEF LoadTable
    <2> QED
      BY <2>2, <2>3 DEF InHand
  <1>9. ASSUME NEW p \in Process, NEW m \in Map, SkipMap(p, m)
         PROVE  (CompiledInv /\ TextSpeaksForDb)'
    <2>1. /\ job'[p].pc = "files"
          /\ \A q \in Process \ {p} : job'[q] = job[q]
      BY <1>9 DEF SkipMap, Job, TypeOK
    <2> QED
      BY <1>9, <2>1 DEF SkipMap, InHand
  <1>10. ASSUME NEW p \in Process, NEW m \in Map, WriteScratch(p, m)
         PROVE  (CompiledInv /\ TextSpeaksForDb)'
    <2> DEFINE q == Other(p)
               content == Render(m, job[p].snap)
    <2>1. /\ q \in Process /\ q # p /\ Process = {p, q} /\ p # "nobody" /\ q # "nobody"
      BY <1>p
    <2>2. /\ job'[p].pc = "postmap" /\ job'[p].cur = m /\ job'[p].snap = job[p].snap
          /\ job'[q] = job[q] /\ UNCHANGED alone /\ Rebuilding(p) /\ job[p].pc = "files"
      BY <1>10, <2>1 DEF WriteScratch, TypeOK, Job, Rebuilding
    <2>3. alone # q
      BY <2>1, <2>2 DEF RunInv, Other, Process
    <2>4. scratch'[m] = content /\ crossed \subseteq crossed'
      BY <1>10 DEF WriteScratch, Marked
    <2>5. CompiledInv'
      BY <2>1, <2>2, <2>3, <2>4 DEF InHand
    <2>6. TextSpeaksForDb'
      BY <1>10, <2>1, <2>2, <2>4 DEF WriteScratch
    <2> QED
      BY <2>5, <2>6
  <1>11. ASSUME NEW p \in Process, Postmap(p) PROVE (CompiledInv /\ TextSpeaksForDb)'
    <2> DEFINE q == Other(p)
               mm == job[p].cur
               content == Render(mm, job[p].snap)
    <2>1. /\ q \in Process /\ q # p /\ Process = {p, q} /\ p # "nobody" /\ q # "nobody"
      BY <1>p
    <2>2. /\ mm \in Map /\ job'[q] = job[q] /\ UNCHANGED alone /\ Rebuilding(p)
          /\ job'[p].cur = mm /\ job'[p].snap = job[p].snap /\ job'[p].pc = "swapDb"
      BY <1>11, <2>1 DEF Postmap, TypeOK, Job, RunInv, InHand, Rebuilding
    <2>3. alone # q
      BY <2>1, <2>2 DEF RunInv, Other, Process
    <2>4. scratchDb'[mm] = scratch[mm] /\ crossed \subseteq crossed' /\ UNCHANGED scratch
      BY <1>11, <2>2 DEF Postmap, Marked
    <2>5. CompiledInv'
      BY <1>11, <2>1, <2>2, <2>3, <2>4 DEF InHand, Postmap
    <2>6. TextSpeaksForDb'
      BY <1>11, <2>1, <2>2, <2>4 DEF Postmap
    <2> QED
      BY <2>5, <2>6
  <1>12. ASSUME NEW p \in Process, RenameDb(p) PROVE (CompiledInv /\ TextSpeaksForDb)'
    <2> DEFINE q == Other(p)
               mm == job[p].cur
               content == Render(mm, job[p].snap)
    <2>1. /\ q \in Process /\ q # p /\ Process = {p, q} /\ p # "nobody" /\ q # "nobody"
      BY <1>p
    <2>2. /\ mm \in Map /\ job'[q] = job[q] /\ UNCHANGED alone /\ Rebuilding(p)
          /\ job'[p].cur = mm /\ job'[p].snap = job[p].snap /\ job'[p].pc = "swapText"
      BY <1>12, <2>1 DEF RenameDb, TypeOK, Job, RunInv, InHand, Rebuilding
    <2>3. alone # q
      BY <2>1, <2>2 DEF RunInv, Other, Process
    <2>4. /\ UNCHANGED <<text, scratch, interrupted>>
          /\ \A x \in Map : x # mm => db'[x] = db[x]
      BY <1>12 DEF RenameDb
    <2>5. CASE alone = p
      <3>1. db'[mm] = content /\ scratch[mm] = content /\ crossed' = crossed
        BY <1>12, <2>2, <2>5 DEF RenameDb, Outcome, Marked, InHand
      <3>2. content # Partial
        BY Rendering
      <3>3. CompiledInv'
        BY <2>1, <2>2, <2>3, <2>4, <2>5, <3>1 DEF InHand
      <3>4. TextSpeaksForDb'
        BY <1>12, <2>1, <2>2, <2>4, <3>1, <3>2 DEF RenameDb
      <3> QED
        BY <3>3, <3>4
    <2>6. CASE alone # p
      <3>1. crossed' = crossed \cup {mm}
        BY <1>12, <2>6 DEF RenameDb, Marked
      <3>2. CompiledInv'
        BY <2>1, <2>2, <2>3, <2>6, <3>1 DEF InHand
      <3>3. TextSpeaksForDb'
        BY <1>12, <2>1, <2>2, <2>4, <3>1 DEF RenameDb
      <3> QED
        BY <3>2, <3>3
    <2> QED
      BY <2>5, <2>6
  <1>13. ASSUME NEW p \in Process, RenameText(p) PROVE (CompiledInv /\ TextSpeaksForDb)'
    <2> DEFINE q == Other(p)
               mm == job[p].cur
               content == Render(mm, job[p].snap)
    <2>1. /\ q \in Process /\ q # p /\ Process = {p, q} /\ p # "nobody" /\ q # "nobody"
      BY <1>p
    <2>2. /\ mm \in Map /\ job'[q] = job[q] /\ UNCHANGED alone /\ Rebuilding(p)
          /\ job'[p].cur = NoFile /\ job'[p].snap = job[p].snap /\ job'[p].pc = "files"
      BY <1>13, <2>1 DEF RenameText, TypeOK, Job, RunInv, InHand, Rebuilding
    <2>3. alone # q
      BY <2>1, <2>2 DEF RunInv, Other, Process
    <2>4. /\ UNCHANGED db
          /\ \A x \in Map : x # mm => text'[x] = text[x] /\ (x \in interrupted => x \in interrupted')
      BY <1>13 DEF RenameText, File
    <2>5. CASE alone = p
      <3>1. text'[mm] = content /\ db[mm] \in {content, Absent}
        BY <1>13, <2>2, <2>5 DEF RenameText, Outcome, InHand, File
      <3>2. content # Partial /\ Absent # Partial
        BY Rendering, Absents
      <3>3. \A x \in Map : x # mm => (x \in crossed <=> x \in crossed')
        BY <1>13, <2>5 DEF RenameText, Installed
      <3>4. ~Rebuilding(q)
        BY <2>5, <2>1 DEF RunInv
      <3>5. CompiledInv'
        BY <2>1, <2>2, <2>3, <3>4 DEF InHand, Rebuilding
      <3>6. TextSpeaksForDb'
        BY <1>13, <2>1, <2>2, <2>4, <3>1, <3>2, <3>3 DEF RenameText
      <3> QED
        BY <3>5, <3>6
    <2>6. CASE alone # p
      <3>1. crossed' = crossed \cup {mm}
        BY <1>13, <2>6 DEF RenameText, Installed
      <3>2. CompiledInv'
        BY <2>1, <2>2, <2>3, <2>6, <3>1 DEF InHand
      <3>3. TextSpeaksForDb'
        BY <1>13, <2>1, <2>2, <2>4, <3>1 DEF RenameText
      <3> QED
        BY <3>2, <3>3
    <2> QED
      BY <2>5, <2>6
  <1>14. ASSUME NEW p \in Process, WritePasswdFile(p) PROVE (CompiledInv /\ TextSpeaksForDb)'
    <2> DEFINE q == Other(p)
    <2>1. /\ q \in Process /\ q # p /\ Process = {p, q} /\ p # "nobody" /\ q # "nobody"
      BY <1>p
    <2>2. /\ job'[p].pc = "idle" /\ job'[q] = job[q] /\ alone' = "nobody"
          /\ Rebuilding(p) /\ job[p].pc = "files"
      BY <1>14, <2>1, Jobs DEF WritePasswdFile, TypeOK, Rebuilding
    <2>3. alone # q
      BY <2>1, <2>2 DEF RunInv, Other, Process
    <2>4. PasswdFile \notin Map
      BY MaterializerAssumption DEF PostfixMaps, PasswdFile
    <2>5. /\ \A x \in Map : text'[x] = text[x] /\ (x \in crossed <=> x \in crossed')
      BY <1>14, <2>4 DEF WritePasswdFile, Installed
    <2>6. job[q].pc = "swapText" => job[q].cur \in Map
      BY <2>1 DEF RunInv, InHand
    <2>7. CompiledInv'
      BY <2>1, <2>2, <2>3, <2>5, <2>6 DEF InHand
    <2>8. TextSpeaksForDb'
      BY <1>14, <2>1, <2>2, <2>5 DEF WritePasswdFile
    <2> QED
      BY <2>7, <2>8
  <1>15. ASSUME NEW p \in Process, RunFails(p) PROVE (CompiledInv /\ TextSpeaksForDb)'
    BY <1>15, <1>c DEF RunFails
  <1>16. ASSUME NEW t \in Table, Commit(t) PROVE (CompiledInv /\ TextSpeaksForDb)'
    BY <1>16, <1>a DEF Commit
  <1>17. ASSUME NEW t \in Table, CommitUnheard(t) PROVE (CompiledInv /\ TextSpeaksForDb)'
    BY <1>17, <1>a DEF CommitUnheard
  <1>18. ASSUME NEW m \in Map, DbDeleted(m) PROVE (CompiledInv /\ TextSpeaksForDb)'
    BY <1>18, Absents DEF DbDeleted, RunInv, InHand
  <1>19. CASE UNCHANGED vars
    BY <1>19, <1>a DEF vars
  <1>t. UNION {Inputs(f) : f \in File} \subseteq Table
    BY Rendering
  <1> HIDE DEF CompiledInv, TextSpeaksForDb
  <1> QED
    BY <1>1, <1>2, <1>3, <1>4, <1>5, <1>6, <1>7, <1>8, <1>9, <1>10, <1>11, <1>12,
       <1>13, <1>14, <1>15, <1>16, <1>17, <1>18, <1>19, <1>t DEF Next, Work, Table

(* A file that is a snapshot of tables nobody has changed unheard is       *)
(* known.                                                                  *)
LEMMA KnownFrom ==
    ASSUME NEW p, NEW f, ReadCurrent(p), job[p].reads = Len(Queries)
    PROVE  Inputs(f) \cap unheard = {} => Render(f, job[p].snap) = Render(f, store)
  <1>1. \A t \in Table \ unheard : job[p].snap[t] = store[t]
    BY Reading DEF ReadCurrent
  <1>2. Inputs(f) \subseteq Table
    BY Rendering
  <1> QED
    BY <1>1, <1>2 DEF Render

(* What was read and rendered stays current, or a run is to come, or the   *)
(* exception is named.                                                     *)
LEMMA CurrentStep ==
    TypeInv /\ RunInv /\ CompiledInv /\ CurrentInv /\ [Next]_vars => CurrentInv'
  <1> SUFFICES ASSUME TypeInv, RunInv, CompiledInv, CurrentInv, [Next]_vars PROVE CurrentInv'
    OBVIOUS
  <1> USE DEF files, histories, bounds, TypeInv
  <1>p. /\ Process = {"managerd", "boxctl"}
        /\ Other("managerd") = "boxctl" /\ Other("boxctl") = "managerd"
    BY DEF Process, Other
  <1>f. \A f : "users" \in Inputs(f)
    BY Rendering
  <1>r. Rebuilding("managerd") => alone # "boxctl"
    BY <1>p DEF RunInv
  <1>d. loop.doing <=> Rebuilding("managerd")
    BY DEF RunInv
  <1>n. ASSUME NEW f
        PROVE  Known(f)' <=> \/ f \in crossed'
                             \/ Inputs(f) \cap unheard' # {}
                             \/ text'[f] = Render(f, store')
    BY DEF Known, Inputs, Render
  <1>a. ASSUME UNCHANGED <<job, text, crossed, unheard, alone>>, ~Heard'
        PROVE  CurrentInv'
    BY <1>a DEF CurrentInv, Recovering, Rebuilding, PastLoad
  <1>b. ASSUME NEW p \in Process, UNCHANGED <<store, notifying, loop, text, unheard, alone>>,
               crossed \subseteq crossed',
               \A q \in Process :
                  /\ job'[q].snap = job[q].snap /\ job'[q].reads = job[q].reads
                  /\ job'[q].todo = job[q].todo
                  /\ (job'[q].pc = "idle" <=> job[q].pc = "idle")
                  /\ (job'[q].pc = "load" <=> job[q].pc = "load")
        PROVE  CurrentInv'
    <2>1. Heard' <=> Heard
      BY <1>b DEF Heard
    <2>2. ASSUME NEW q \in Process
          PROVE  /\ ReadCurrent(q)' <=> ReadCurrent(q)
                 /\ PastLoad(q)' <=> PastLoad(q)
                 /\ Rebuilding(q)' <=> Rebuilding(q)
      BY <1>b DEF ReadCurrent, PastLoad, Rebuilding, ReadTables
    <2>3. \A f : Known(f) => Known(f)'
      BY <1>b DEF Known, Inputs, Render
    <2>4. Recovering' <=> Recovering
      BY <1>b, <2>2, <1>p DEF Recovering
    <2> QED
      BY <1>b, <1>p, <2>1, <2>2, <2>3, <2>4 DEF CurrentInv
  <1>l. ASSUME NEW p \in Process, NEW m \in Map,
               UNCHANGED <<store, notifying, loop, unheard, alone>>,
               job[p].pc \in {"files", "swapText"},
               \A f : f # m => (f \in crossed' <=> f \in crossed),
               \A f \in File : f # m => text'[f] = text[f],
               m \in crossed' \/ text'[m] = Render(m, job[p].snap),
               job'[p].snap = job[p].snap, job'[p].reads = job[p].reads,
               job'[p].todo = job[p].todo \ {m}, job'[p].pc = "files",
               \A q \in Process \ {p} : job'[q] = job[q],
               \/ alone = p \/ m \in crossed'
               \/ text'[m] = text[m] /\ (m \in crossed' <=> m \in crossed)
        PROVE  CurrentInv'
    <2>1. PastLoad(p) /\ PastLoad(p)' /\ Rebuilding(p) /\ Rebuilding(p)'
      BY <1>l DEF PastLoad, Rebuilding
    <2>2. job[p].reads = Len(Queries)
      BY <2>1 DEF RunInv
    <2>3. \A q \in Process : ReadCurrent(q)' <=> ReadCurrent(q)
      BY <1>l DEF ReadCurrent, ReadTables
    <2>4. \A f \in File : f # m /\ Known(f) => Known(f)'
      BY <1>l DEF Known, Inputs, Render
    <2>5. ReadCurrent(p) => Known(m)'
      BY <1>l, <1>n, <2>2, KnownFrom
    <2>6. Heard' <=> Heard
      BY <1>l DEF Heard
    <2>7. CASE p = "managerd"
      <3>1. loop'.doing /\ ~Recovering'
        BY <1>d, <1>l, <1>r, <2>1, <2>7 DEF Recovering
      <3>2. ASSUME Heard', NEW f \in File \ job'["managerd"].todo PROVE Known(f)'
        <4>1. ReadCurrent(p) /\ (f # m => Known(f))
          BY <1>d, <1>l, <2>1, <2>6, <2>7, <3>2 DEF CurrentInv
        <4> QED
          BY <2>4, <2>5, <4>1
      <3> QED
        BY <1>d, <1>l, <1>p, <2>1, <2>3, <2>6, <2>7, <3>1, <3>2 DEF CurrentInv
    <2>8. CASE p = "boxctl"
      <3>1. job'["managerd"] = job["managerd"] /\ (PastLoad("managerd")' <=> PastLoad("managerd"))
        BY <1>l, <1>p, <2>8 DEF PastLoad
      <3>2. Recovering' <=> Recovering
        BY <1>l, <2>1, <2>8 DEF Recovering
      <3>3. CASE Recovering
        <4>1. \A f : Known(f)'
          BY <1>f, <1>l, <3>3 DEF CurrentInv, Known, Inputs
        <4>2. \A f \in File \ job'["boxctl"].todo :
                 f \in crossed' \/ text'[f] = Render(f, job'["boxctl"].snap)
          BY <1>l, <2>1, <2>8, <3>3 DEF CurrentInv, Render, Inputs
        <4> QED
          BY <1>l, <1>p, <2>3, <2>6, <2>8, <3>1, <3>3, <4>1, <4>2 DEF CurrentInv
      <3>4. CASE ~Recovering
        <4>1. alone # p
          BY <2>1, <2>8, <3>4 DEF Recovering
        <4>2. Known(m) => Known(m)'
          BY <1>l, <4>1 DEF Known, Inputs, Render
        <4>3. \A f \in File : Known(f) => Known(f)'
          BY <2>4, <4>2
        <4> QED
          BY <1>l, <1>p, <2>3, <2>6, <3>1, <3>2, <3>4, <4>3 DEF CurrentInv
      <3> QED
        BY <3>3, <3>4
    <2> QED
      BY <1>p, <2>7, <2>8
  <1>1. CASE Boot
    BY <1>1, <1>a, LoopFields DEF Boot, Heard, TypeOK
  <1>2. CASE Crash
    <2>1. ~Heard' /\ UNCHANGED <<text, crossed, unheard>>
      BY <1>2, LoopFields DEF Crash, Heard, TypeOK
    <2>2. job'["boxctl"] = job["boxctl"] /\ (alone' = "boxctl" => alone = "boxctl")
      BY <1>2, <1>p DEF Crash, Abandoned, TypeOK
    <2> QED
      BY <2>1, <2>2 DEF CurrentInv, Recovering, Rebuilding, PastLoad
  <1>3. CASE Notify
    BY <1>3, <1>a, LoopFields DEF Notify, Heard, TypeOK
  <1>4. CASE TickFires
    BY <1>4, <1>a, LoopFields DEF TickFires, Heard, TypeOK
  <1>5. CASE RetryFires
    BY <1>5, <1>a, LoopFields DEF RetryFires, Heard, TypeOK
  <1>6. CASE TakeKick
    <2>1. loop'.doing /\ alone' # "boxctl"
      BY <1>6, <1>p, LoopFields DEF TakeKick, Begins, TypeOK
    <2>2. job'["managerd"].reads = 0 /\ job'["managerd"].pc = "load"
      BY <1>6, <1>p, Jobs DEF TakeKick, Begins, TypeOK
    <2>3. ReadCurrent("managerd")'
      BY <2>2, Reading DEF ReadCurrent, ReadTables
    <2> QED
      BY <2>1, <2>2, <2>3 DEF CurrentInv, Recovering, PastLoad
  <1>7. CASE Recover
    <2>1. /\ "users" \in unheard' /\ unheard \subseteq unheard'
          /\ \A t \in Table \ {"users"} : store'[t] = store[t]
          /\ UNCHANGED <<loop, notifying, text>> /\ crossed \subseteq crossed'
      BY <1>7 DEF Recover, Changed, Begins, TypeOK
    <2>2. /\ job'["managerd"] = job["managerd"]
          /\ job'["boxctl"].reads = 0 /\ job'["boxctl"].pc = "load"
      BY <1>7, <1>p, Jobs DEF Recover, Begins, TypeOK
    <2>3. \A f : Known(f)'
      BY <2>1, <1>f DEF Known, Inputs
    <2>4. ReadCurrent("boxctl")'
      BY <2>2, Reading DEF ReadCurrent, ReadTables
    <2>5. ReadTables(job["managerd"].reads) \subseteq Table
      BY <1>p, Reading DEF TypeOK, Job
    <2>6. ReadCurrent("managerd") => ReadCurrent("managerd")'
      BY <2>1, <2>2, <2>5 DEF ReadCurrent, ReadTables
    <2> QED
      BY <2>1, <2>2, <2>3, <2>4, <2>6 DEF CurrentInv, PastLoad, Heard
  <1>8. ASSUME NEW p \in Process, LoadTable(p) PROVE CurrentInv'
    <2> DEFINE n == job[p].reads
               t == Queries[n + 1]
    <2>1. n \in 0 .. 2 /\ t \in Table
      BY <1>8, Reading DEF LoadTable, Job, TypeOK
    <2>2. /\ UNCHANGED <<store, notifying, loop, text, crossed, alone>>
          /\ unheard' = (IF p = "managerd" THEN unheard \ {t} ELSE unheard)
          /\ job[p].pc = "load"
      BY <1>8 DEF LoadTable
    <2>3. /\ job'[p].reads = n + 1 /\ job'[p].snap[t] = store[t]
          /\ \A x \in Table \ {t} : job'[p].snap[x] = job[p].snap[x]
          /\ job'[p].pc \in {"load", "files"}
          /\ job'[p].pc = "files" => job'[p].todo = File
          /\ \A q \in Process \ {p} : job'[q] = job[q]
      BY <1>8, <2>1 DEF LoadTable, Job, TypeOK
    <2>4. ReadTables(n + 1) = ReadTables(n) \cup {t} /\ ReadTables(n + 1) \subseteq Table
      BY <2>1, Reading
    <2> HIDE DEF n, t
    <2>5. ReadCurrent(p) => ReadCurrent(p)'
      <3>1. ReadTables(job[p].reads)' = ReadTables(n) \cup {t}
        BY <2>3, <2>4 DEF ReadTables
      <3> QED
        BY <2>2, <2>3, <2>4, <3>1 DEF ReadCurrent, n
    <2>6. CASE p = "managerd"
      BY <1>d, <1>p, <1>r, <2>2, <2>3, <2>5, <2>6
         DEF CurrentInv, Recovering, Rebuilding, PastLoad, Heard
    <2>7. CASE p = "boxctl"
      <3>1. job'["managerd"] = job["managerd"] /\ UNCHANGED unheard
        BY <1>p, <2>2, <2>3, <2>7
      <3>2. ReadCurrent("managerd")' <=> ReadCurrent("managerd")
        BY <3>1, <2>2 DEF ReadCurrent, ReadTables
      <3>3. \A f : Known(f)' <=> Known(f)
        BY <3>1, <2>2 DEF Known, Inputs, Render
      <3>4. Recovering' => Recovering
        BY <2>2, <2>7 DEF Recovering, Rebuilding
      <3> QED
        BY <2>2, <2>3, <2>5, <2>7, <3>1, <3>2, <3>3, <3>4 DEF CurrentInv, PastLoad, Heard
    <2> QED
      BY <1>p, <2>6, <2>7
  <1>9. ASSUME NEW p \in Process, NEW m \in Map, SkipMap(p, m)
         PROVE  CurrentInv'
    <2>1. /\ UNCHANGED <<store, notifying, loop, text, crossed, unheard, alone>>
          /\ job[p].pc = "files" /\ text[m] = Render(m, job[p].snap)
      BY <1>9 DEF SkipMap, UpToDate
    <2>2. /\ job'[p].snap = job[p].snap /\ job'[p].reads = job[p].reads
          /\ job'[p].todo = job[p].todo \ {m} /\ job'[p].pc = job[p].pc
          /\ \A q \in Process \ {p} : job'[q] = job[q]
      BY <1>9 DEF SkipMap, Job, TypeOK
    <2> QED
      BY <2>1, <2>2, <1>l
  <1>10. ASSUME NEW p \in Process, NEW m \in Map, WriteScratch(p, m)
         PROVE  CurrentInv'
    <2>1. \A q \in Process :
             /\ job'[q].snap = job[q].snap /\ job'[q].reads = job[q].reads
             /\ job'[q].todo = job[q].todo
             /\ (job'[q].pc = "idle" <=> job[q].pc = "idle")
             /\ (job'[q].pc = "load" <=> job[q].pc = "load")
      BY <1>10 DEF WriteScratch, TypeOK, Job
    <2> QED
      BY <1>10, <2>1, <1>b DEF WriteScratch, Marked
  <1>11. ASSUME NEW p \in Process, Postmap(p) PROVE CurrentInv'
    <2>1. \A q \in Process :
             /\ job'[q].snap = job[q].snap /\ job'[q].reads = job[q].reads
             /\ job'[q].todo = job[q].todo
             /\ (job'[q].pc = "idle" <=> job[q].pc = "idle")
             /\ (job'[q].pc = "load" <=> job[q].pc = "load")
      BY <1>11 DEF Postmap, TypeOK, Job
    <2> QED
      BY <1>11, <2>1, <1>b DEF Postmap, Marked
  <1>12. ASSUME NEW p \in Process, RenameDb(p) PROVE CurrentInv'
    <2>1. \A q \in Process :
             /\ job'[q].snap = job[q].snap /\ job'[q].reads = job[q].reads
             /\ job'[q].todo = job[q].todo
             /\ (job'[q].pc = "idle" <=> job[q].pc = "idle")
             /\ (job'[q].pc = "load" <=> job[q].pc = "load")
      BY <1>12 DEF RenameDb, TypeOK, Job
    <2> QED
      BY <1>12, <2>1, <1>b DEF RenameDb, Marked
  <1>13. ASSUME NEW p \in Process, RenameText(p) PROVE CurrentInv'
    <2> DEFINE mm == job[p].cur
               content == Render(mm, job[p].snap)
    <2>1. /\ UNCHANGED <<store, notifying, loop, unheard, alone>>
          /\ job[p].pc = "swapText" /\ mm \in Map
          /\ \A f : f # mm => (f \in crossed' <=> f \in crossed)
          /\ \A f \in File : f # mm => text'[f] = text[f]
          /\ mm \in crossed' \/ text'[mm] = content
          /\ alone = p \/ mm \in crossed'
      <3>1. job[p].pc = "swapText" /\ mm \in Map /\ UNCHANGED <<store, notifying, loop, unheard, alone>>
        BY <1>13 DEF RenameText, RunInv, InHand
      <3>2. CASE alone = p
        BY <1>13, <3>1, <3>2 DEF RenameText, Outcome, Installed, CompiledInv, InHand, File
      <3>3. CASE alone # p
        BY <1>13, <3>1, <3>3 DEF RenameText, Installed, File
      <3> QED
        BY <3>1, <3>2, <3>3
    <2>2. /\ job'[p].snap = job[p].snap /\ job'[p].reads = job[p].reads
          /\ job'[p].todo = job[p].todo \ {mm} /\ job'[p].pc = "files"
          /\ \A q \in Process \ {p} : job'[q] = job[q]
      BY <1>13 DEF RenameText, Job, TypeOK
    <2> HIDE DEF content
    <2> QED
      BY <2>1, <2>2, <1>l DEF content
  <1>14. ASSUME NEW p \in Process, WritePasswdFile(p) PROVE CurrentInv'
    <2> DEFINE content == Render(PasswdFile, job[p].snap)
    <2>1. /\ UNCHANGED <<store, notifying>> /\ job[p].pc = "files" /\ job[p].todo = {PasswdFile}
          /\ alone' = "nobody"
      BY <1>14 DEF WritePasswdFile
    <2>2. \A f \in File : f # PasswdFile => text'[f] = text[f] /\ (f \in crossed' <=> f \in crossed)
      BY <1>14 DEF WritePasswdFile, Installed
    <2>3. PasswdFile \in crossed' \/ text'[PasswdFile] = content
      BY <1>14 DEF WritePasswdFile, Installed, Outcome, File
    <2>4. /\ job'[p].pc = "idle"
          /\ \A q \in Process \ {p} : job'[q] = job[q]
      BY <1>14, Jobs DEF WritePasswdFile, TypeOK
    <2>5. job[p].reads = Len(Queries)
      BY <2>1 DEF RunInv, PastLoad
    <2>6. ~Recovering'
      BY <2>1 DEF Recovering
    <2> HIDE DEF content
    <2>7. CASE p = "managerd"
      <3>1. loop' = Finished(loop) /\ UNCHANGED unheard
        BY <1>14, <2>7 DEF WritePasswdFile
      <3>2. ~loop'.doing /\ (Heard' => Heard) /\ loop.doing
        BY <2>1, <2>7, <3>1, <1>d, LoopFields DEF Heard, TypeOK, Rebuilding
      <3>3. ASSUME Heard', NEW f \in File PROVE Known(f)'
        <4>1. ReadCurrent(p)
          BY <2>7, <3>2, <3>3 DEF CurrentInv
        <4>2. CASE f = PasswdFile
          BY <1>n, <2>1, <2>3, <2>5, <3>1, <4>1, <4>2, KnownFrom DEF content
        <4>3. CASE f # PasswdFile
          <5>1. Known(f)
            BY <2>1, <2>7, <3>2, <3>3, <4>3 DEF CurrentInv, PastLoad
          <5> QED
            BY <2>1, <2>2, <3>1, <4>3, <5>1 DEF Known, Inputs, Render
        <4> QED
          BY <4>2, <4>3
      <3> QED
        BY <2>4, <2>6, <2>7, <3>2, <3>3 DEF CurrentInv, PastLoad
    <2>8. CASE p = "boxctl"
      <3>1. UNCHANGED loop /\ job'["managerd"] = job["managerd"]
        BY <1>14, <1>p, <2>4, <2>8 DEF WritePasswdFile
      <3>2. CASE alone = "boxctl"
        <4>1. ~loop.doing /\ ~Rebuilding("managerd")
          BY <1>d, <1>r, <3>2
        <4>2. unheard' = {t \in unheard : job[p].snap[t] # store[t]}
          BY <1>14, <2>8, <3>2 DEF WritePasswdFile
        <4>3. Recovering
          BY <2>1, <2>8, <3>2 DEF Recovering, Rebuilding
        <4>4. ASSUME Heard', NEW f \in File PROVE Known(f)'
          <5>1. Heard /\ ReadCurrent(p)
            BY <2>1, <2>8, <3>1, <4>3, <4>4 DEF CurrentInv, Heard
          <5>2. f \in crossed' \/ text'[f] = Render(f, job[p].snap)
            BY <2>1, <2>2, <2>3, <2>8, <4>3 DEF CurrentInv, PastLoad, content
          <5>3. \A t \in Table \ unheard' : job[p].snap[t] = store[t]
            BY <2>5, <4>2, <5>1, Reading DEF ReadCurrent
          <5>4. Inputs(f) \subseteq Table
            BY Rendering
          <5>5. Inputs(f) \cap unheard' = {} => Render(f, job[p].snap) = Render(f, store)
            BY <5>3, <5>4 DEF Render
          <5> QED
            BY <2>1, <5>2, <5>5 DEF Known, Inputs, Render
        <4> QED
          BY <2>6, <3>1, <4>1, <4>4 DEF CurrentInv, PastLoad, Rebuilding
      <3>3. CASE alone # "boxctl"
        <4>1. UNCHANGED unheard /\ PasswdFile \in crossed'
          BY <1>14, <2>8, <3>3 DEF WritePasswdFile, Installed
        <4>2. \A f \in File : Known(f) => Known(f)'
          BY <2>1, <2>2, <4>1 DEF Known, Inputs, Render
        <4>3. ReadCurrent("managerd")' <=> ReadCurrent("managerd")
          BY <2>1, <3>1, <4>1 DEF ReadCurrent, ReadTables
        <4> QED
          BY <2>1, <2>6, <3>1, <4>2, <4>3 DEF CurrentInv, PastLoad, Heard
      <3> QED
        BY <3>2, <3>3
    <2> QED
      BY <1>p, <2>7, <2>8
  <1>15. ASSUME NEW p \in Process, RunFails(p) PROVE CurrentInv'
    <2>1. /\ UNCHANGED <<store, notifying, text, crossed, unheard>> /\ Rebuilding(p)
          /\ loop' = IF p = "managerd" THEN Failed(loop) ELSE loop
          /\ job'[p].pc = "idle" /\ \A q \in Process \ {p} : job'[q] = job[q]
      BY <1>15, Jobs DEF RunFails, Abandoned, TypeOK
    <2>2. CASE p = "managerd"
      <3>1. ~loop'.doing /\ loop'.retries # 0 /\ alone' # "boxctl"
        BY <1>15, <1>r, <2>1, <2>2, LoopFields DEF TypeOK, RunFails, Abandoned
      <3> QED
        BY <2>1, <2>2, <3>1 DEF CurrentInv, Recovering, PastLoad
    <2>3. CASE p = "boxctl"
      <3>1. UNCHANGED loop /\ job'["managerd"] = job["managerd"]
        BY <1>p, <2>1, <2>3
      <3>2. ~Recovering'
        BY <2>1, <2>3 DEF Recovering, Rebuilding
      <3>3. \A f : Known(f)' <=> Known(f)
        BY <2>1 DEF Known, Inputs, Render
      <3>4. ReadCurrent("managerd")' <=> ReadCurrent("managerd")
        BY <2>1, <3>1 DEF ReadCurrent, ReadTables
      <3> QED
        BY <2>1, <3>1, <3>2, <3>3, <3>4 DEF CurrentInv, PastLoad, Heard
    <2> QED
      BY <1>p, <2>2, <2>3
  <1>16. ASSUME NEW t \in Table, Commit(t) PROVE CurrentInv'
    <2>1. notifying' # 0
      BY <1>16 DEF Commit, TypeOK
    <2> QED
      BY <1>16, <1>a, <2>1 DEF Commit, Heard
  <1>17. ASSUME NEW t \in Table, CommitUnheard(t) PROVE CurrentInv'
    <2>1. /\ unheard' = unheard \cup {t}
          /\ \A x \in Table \ {t} : store'[x] = store[x]
          /\ UNCHANGED <<loop, notifying, job, text, crossed, alone>>
      BY <1>17 DEF CommitUnheard, Changed, TypeOK
    <2>2. ASSUME NEW f, Known(f) PROVE Known(f)'
      <3>1. CASE t \in Inputs(f)
        BY <2>1, <3>1 DEF Known, Inputs
      <3>2. CASE t \notin Inputs(f)
        <4>1. \A x \in Inputs(f) : store'[x] = store[x]
          BY <2>1, <3>2, Rendering
        <4>2. Render(f, store)' = Render(f, store)
          BY <4>1 DEF Render, Inputs
        <4> QED
          BY <2>1, <2>2, <4>2 DEF Known, Inputs
      <3> QED
        BY <3>1, <3>2
    <2>3. ASSUME NEW q \in Process, ReadCurrent(q) PROVE ReadCurrent(q)'
      <3>1. ReadTables(job[q].reads) \subseteq Table
        BY Reading DEF TypeOK, Job
      <3> QED
        BY <2>1, <2>3, <3>1 DEF ReadCurrent, ReadTables
    <2> QED
      BY <1>p, <2>1, <2>2, <2>3 DEF CurrentInv, Heard, Recovering, Rebuilding, PastLoad
  <1>18. ASSUME NEW m \in Map, DbDeleted(m) PROVE CurrentInv'
    BY <1>18, <1>b, <1>p DEF DbDeleted
  <1>19. CASE UNCHANGED vars
    BY <1>19, <1>b, <1>p DEF vars
  <1>t. UNION {Inputs(f) : f \in File} \subseteq Table
    BY Rendering
  <1> HIDE DEF CurrentInv
  <1> QED
    BY <1>1, <1>2, <1>3, <1>4, <1>5, <1>6, <1>7, <1>8, <1>9, <1>10, <1>11, <1>12,
       <1>13, <1>14, <1>15, <1>16, <1>17, <1>18, <1>19, <1>t DEF Next, Work, Table

(* Before the first start of managerd there are no files. *)
LEMMA Start == Init => IInv
  <1> SUFFICES ASSUME Init PROVE IInv
    OBVIOUS
  <1>1. TypeInv
    BY LoopOps, Reading, Jobs DEF Init, TypeInv, TypeOK
  <1>2. \A p \in Process : job[p] = NoJob
    BY DEF Init
  <1>3. RunInv /\ CompiledInv
    BY <1>2, LoopFields, LoopOps, Jobs
       DEF Init, RunInv, Rebuilding, InHand, PastLoad, CompiledInv, Process
  <1>4. TextSpeaksForDb
    BY Absents DEF Init, TextSpeaksForDb
  <1>5. CurrentInv
    BY <1>2, LoopFields, LoopOps, Jobs
       DEF Init, CurrentInv, Heard, Recovering, PastLoad, Process
  <1> QED
    BY <1>1, <1>3, <1>4, <1>5 DEF IInv

(* The invariant of the materializer is inductive, and always holds. *)
LEMMA Invariance == Spec => []IInv
  <1>1. IInv /\ [Next]_vars => IInv'
    BY TypeStep, RunStep, FilesStep, CurrentStep DEF IInv
  <1> QED
    BY <1>1, Start, PTL DEF Spec

(* Every variable keeps its type. *)
THEOREM TypesCorrect == Spec => []TypeOK
  <1>1. IInv => TypeOK
    BY DEF IInv, TypeInv
  <1> QED
    BY <1>1, Invariance, PTL

(* Postfix never reads a partial map, and a map's text speaks for its      *)
(* compiled file (rebuildPostfixMap), whatever crashes, fails or is        *)
(* deleted, unless a run was cut short between the two renames or managerd *)
(* and boxctl wrote the map side by side.                                  *)
THEOREM MapsSafe == Spec => []TextSpeaksForDb
  <1>1. IInv => TextSpeaksForDb
    BY DEF IInv
  <1> QED
    BY <1>1, Invariance, PTL

(* With the loop settled, every file is what the committed tables render   *)
(* to (Rebuild, loadSnapshot), save for changes nobody told the loop of    *)
(* and files two processes wrote side by side: a query that missed a       *)
(* commit has a kick behind it, and a recovery that was alone has pushed   *)
(* what it committed.                                                      *)
THEOREM SettledSafe == Spec => []SettledIsCurrent
  <1>1. IInv => SettledIsCurrent
    <2> SUFFICES ASSUME IInv, Settled, NEW f \in File \ crossed, Inputs(f) \cap unheard = {}
                 PROVE  /\ text[f] = Render(f, store)
                        /\ f \in Map => f \in interrupted \/ db[f] \in {Render(f, store), Absent}
      BY DEF SettledIsCurrent
    <2>1. Heard /\ ~loop.doing /\ loop.retries = 0 /\ ~Rebuilding("managerd")
      BY DEF Settled, LoopIdle, Heard, IInv, RunInv
    <2>2. text[f] = Render(f, store)
      BY <2>1 DEF IInv, CurrentInv, Known
    <2>3. "users" \in Inputs(f)
      BY Rendering
    <2>4. ~Recovering
      BY <2>3 DEF IInv, CurrentInv
    <2>5. ASSUME NEW p \in Process, job[p].pc = "swapText", job[p].cur = f PROVE FALSE
      <3>1. p = "boxctl" /\ alone # p
        BY <2>1, <2>4, <2>5 DEF Process, Rebuilding, Recovering
      <3> QED
        BY <2>5, <3>1 DEF IInv, CompiledInv
    <2> QED
      BY <2>2, <2>5 DEF IInv, TextSpeaksForDb
  <1> QED
    BY <1>1, Invariance, PTL
=============================================================================
