-------------------------- MODULE MCFunctionQueue ---------------------------
(* FunctionQueue for TLC.                                                  *)
EXTENDS FunctionQueue, TLC

\* Consumers and jobs are interchangeable; used only where no liveness is
\* checked.
Symmetry == Permutations(Consumers) \cup Permutations(Jobs)
=============================================================================
