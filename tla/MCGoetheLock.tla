---------------------------- MODULE MCGoetheLock ----------------------------
(* GoetheLock for TLC.                                                     *)
EXTENDS GoetheLock, TLC

\* Threads are interchangeable; used only where no liveness is checked.
Symmetry == Permutations(Threads)
=============================================================================
