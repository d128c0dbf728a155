---------------------------- MODULE MCUploadSession ----------------------------
(* Small instances of UploadSession. *)
EXTENDS UploadSession, TLC

Interchangeable == Permutations(Account) \cup Permutations(Session) \cup Permutations(Upload)
===============================================================================
