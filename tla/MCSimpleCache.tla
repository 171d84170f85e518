---------------------------- MODULE MCSimpleCache ---------------------------
(* SimpleCache for TLC.                                                    *)
EXTENDS SimpleCache, TLC

CONSTANTS c1, c2

\* Calculators of c1 call both caches, the ones of c2 only their own.
Downwards == {<<c1, c1>>, <<c1, c2>>, <<c2, c2>>}

\* Threads and keys are interchangeable; used only where no liveness is checked.
Symmetry == Permutations(Threads) \cup Permutations(Keys)

\* Every calculator calls both.
Everywhere == Caches \X Caches
=============================================================================
