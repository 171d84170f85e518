------------------------------- MODULE MCPool -------------------------------
(* Pool for TLC.                                                           *)
EXTENDS Pool, TLC

\* Worker slots and jobs are interchangeable; used only where no liveness is
\* checked.
Symmetry == Permutations(Consumers) \cup Permutations(Jobs)
=============================================================================
