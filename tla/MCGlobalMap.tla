---------------------------- MODULE MCGlobalMap ----------------------------
(* Servers and tasks for TLC: two servers that share a domain, and of the  *)
(* connectors one whose call is made inside of a lister's guard.           *)
EXTENDS GlobalMap

CONSTANTS c1, c2, c3, l1, w1, w2, d1, d2, e1, e2

BothDomains == [domains |-> {d1, d2}, endpoint |-> e1]
OneDomain   == [domains |-> {d2}, endpoint |-> e2]

MCServer == {BothDomains, OneDomain}
MCWithin == [c \in {c1, c2, c3} |-> IF c = c2 THEN l1 ELSE None]
============================================================================
