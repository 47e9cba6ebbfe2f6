----------------------------- MODULE MCFtsPool -----------------------------
(* FtsPool with few ports and threads, for TLC.                            *)
EXTENDS FtsPool, TLC

\* Threads are interchangeable: nothing orders them.
Symmetry == Permutations(Session)
=============================================================================
