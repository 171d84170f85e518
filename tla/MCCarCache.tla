----------------------------- MODULE MCCarCache -----------------------------
(* CarCache for TLC.                                                       *)
EXTENDS CarCache, TLC

\* Keys are interchangeable; used only where no liveness is checked.
Symmetry == Permutations(Keys)

\* Removal functions that pick one key, or any two.
Singles == {{k} : k \in Keys}
Pairs == {{j, k} : j, k \in Keys}
=============================================================================
