----------------------------- MODULE MCRegistration -----------------------------
(* Small instances of Registration. *)
EXTENDS Registration, TLC

Interchangeable == Permutations(Task)
===============================================================================
