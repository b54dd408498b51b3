---------------------------- MODULE MCHostedData ----------------------------
(* Two domains, one under the other, and a handful of custom records.      *)
EXTENDS HostedData

Z == <<"z">>
B == <<"b">> \o Z

Domains == {Z, B}
TwoBoxes == {<<<<"h">> \o Z, TRUE>>, <<<<"h">>, FALSE>>}
LocalParts == {"u", "postmaster"}
Elsewhere == <<"x", <<"elsewhere">>>>
AliasDestinations == {{Elsewhere}}
Servers == {<<"ns", "elsewhere">>}

CustomRecords ==
    {Record(<<"www">> \o Z, "CNAME", "", "away"),
     Record(B, "A", "", "away"),
     Record(<<"h">> \o Z, "A", "", "away"),
     Record(<<"x">> \o B, "AAAA", "", Local),
     Record(Z, "MX", "20 ", "away"),
     Record(Z, "TXT", "other", "away"),
     Record(<<"_dmarc">> \o B, "TXT", "v=DMARC1; ", "away"),
     Record(B, "NS", "", "away")}
=============================================================================
