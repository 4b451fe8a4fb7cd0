---- MODULE MCChat ----
(***************************************************************************)
(* One terminal and one session: the shortest way to a retry that has lost *)
(* its conversation.                                                       *)
(***************************************************************************)
EXTENDS Chat
====
