---------------------------- MODULE MCMacServer ----------------------------
(* An instance of MacServer for TLC: one client stops the server, one reads *)
(* no response, one does neither.                                           *)
EXTENDS MacServer

CONSTANTS c1, c2, c3
ThreeClients == {c1, c2, c3}
OneClient == {c1}
OtherClient == {c2}
=============================================================================
