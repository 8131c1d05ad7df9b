---------------------------- MODULE MCExternalIO ----------------------------
(* An instance of ExternalIO for TLC: a client that sends twice, and one that *)
(* only listens.                                                              *)
EXTENDS ExternalIO

CONSTANTS c1, c2

MCClients == {c1, c2}
MCMaxUp == [c \in {c1, c2} |-> IF c = c1 THEN 2 ELSE 0]

=============================================================================
