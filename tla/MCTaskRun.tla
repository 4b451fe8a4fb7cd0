---- MODULE MCTaskRun ----
(* Instances of TaskRun for TLC. *)
EXTENDS TaskRun
====
