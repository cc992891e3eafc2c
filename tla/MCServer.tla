------------------------------ MODULE MCServer ------------------------------
(* Instances of Server for TLC: two threads are one more than may ever work *)
(* on a server, two clients fill the queue while one of them is served, and *)
(* the request of one of them calls stop().                                 *)
EXTENDS ServerProperties, TLC

CONSTANTS t1, t2, c1, c2

TwoThreads == {t1, t2}
TwoClients == {c1, c2}
OneQuitter == {c1}
ThreadSymmetry == Permutations(TwoThreads)
=============================================================================
