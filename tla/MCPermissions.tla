----------------------------- MODULE MCPermissions -----------------------------
(* A small instance of Permissions: an administrator of everything, one that  *)
(* can only set permissions (and may be given the rest), and a user.          *)
EXTENDS Permissions, TLC

CONSTANTS a1, a2, a3

Ladder == a1 :> Permission @@ a2 :> {Setter} @@ a3 :> {}
===============================================================================
