---------------------------- MODULE MCWinServer ----------------------------
(* An instance of WinServer for TLC: a client in service and two in the     *)
(* queue are enough for FD_ACCEPT to be recorded, taken and armed again.    *)
EXTENDS WinServer

CONSTANTS c1, c2, c3
ThreeClients == {c1, c2, c3}
OneQuitter == {c1}
=============================================================================
