---- MODULE MCAgentLoop ----
(* Instances of AgentLoop for TLC. *)
EXTENDS AgentLoop, TLC

\* Inputs are never compared for order, so they are interchangeable.
InputSymmetry == Permutations(Inputs)
====
