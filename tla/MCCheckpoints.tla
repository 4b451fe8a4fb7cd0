---- MODULE MCCheckpoints ----
(* Instances of Checkpoints for TLC. *)
EXTENDS Checkpoints, TLC

\* Neither calls, nor requests, nor contents within the same limits are told
\* apart.
StoreSymmetry ==
  Permutations(Calls) \cup Permutations(Clients) \cup Permutations(Contents \ Large)
====
