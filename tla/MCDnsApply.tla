----------------------------- MODULE MCDnsApply -----------------------------
(* One box with a signed and an unsigned zone.                             *)
EXTENDS DnsApply

CONSTANTS r1, z1, z2

OneReplica == {r1}
OneZone == {z1}
TwoZones == {z1, z2}
MailZones == {z2}
ThreeValues == {1, 2, 3}
=============================================================================
