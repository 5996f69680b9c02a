---- MODULE MCSubmission ----
(* Submission with three tasks and one request handler; StaysHalted is a     *)
(* liveness property, so no symmetry is taken.                              *)
EXTENDS Submission
====
