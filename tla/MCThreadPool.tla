---------------------------- MODULE MCThreadPool ----------------------------
(***************************************************************************)
(* Constants for checking ThreadPool.                                      *)
(***************************************************************************)
EXTENDS ThreadPool

CONSTANTS w1, w2, c1

MCWorkers == {w1, w2}
MCCallers == {c1}

\* -1 asks for as many threads as the pool has, 0 is normalised to 1.
MCAsked == {-1, 0}
=============================================================================
