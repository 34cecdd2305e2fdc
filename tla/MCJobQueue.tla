------------------------------ MODULE MCJobQueue ------------------------------
(***************************************************************************)
(* Instances of JobQueue for TLC. Ticks stand for ten seconds or so: only    *)
(* the order of lease, backoff and stall matters.                            *)
(***************************************************************************)
EXTENDS JobQueue, TLC

CONSTANTS w1, w2, j1, j2

Symmetry == Permutations({w1, w2}) \cup Permutations({j1, j2})
===============================================================================
