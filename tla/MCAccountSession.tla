---------------------------- MODULE MCAccountSession ----------------------------
(* Small instances of AccountSession. *)
EXTENDS AccountSession, TLC

Interchangeable == Permutations(Task) \cup Permutations(Password)
===============================================================================
