---------------------------- MODULE MCPostResource ----------------------------
(* Small instances of PostResource. *)
EXTENDS PostResource, TLC

Interchangeable == Permutations(Resource) \cup Permutations(Post) \cup Permutations(Task)
===============================================================================
