---- MODULE MCExecution ----
(* Execution for TLC: tasks of one kind are interchangeable. *)
EXTENDS Execution, TLC

ExecSymmetry == Permutations(Tasks \ S1Tasks)
====
