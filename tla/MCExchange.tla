----------------------------- MODULE MCExchange -----------------------------
(* An instance of Exchange for TLC: a clean request, one with a line end in  *)
(* the middle, one with a NUL, one without an end and two that are shorter   *)
(* than the end that is cut off.                                             *)
EXTENDS Exchange

SomeRequests == { <<"x", "x", "cr", "lf">>,
                  <<"x", "cr", "lf", "x", "cr", "lf">>,
                  <<"x", "nul", "x", "cr", "lf">>,
                  <<"x", "x", "cr">>,
                  <<"lf">>,
                  <<>> }
=============================================================================
