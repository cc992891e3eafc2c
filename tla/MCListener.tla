----------------------------- MODULE MCListener -----------------------------
(* Instances of Listener for TLC: a second thread appears when the listener *)
(* is started again while the first one is still in a callback or an alert. *)
EXTENDS Listener

CONSTANTS t1, t2
TwoThreads == {t1, t2}
=============================================================================
