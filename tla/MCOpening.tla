----------------------------- MODULE MCOpening -----------------------------
(* Opening mediations beside the notifier, on small instances.             *)
EXTENDS Opening, TLC

\* Attempts are interchangeable calls of the same function.
AttemptSymmetry == Permutations(Attempts)

=============================================================================
