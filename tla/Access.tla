--------------------------------- MODULE Access ---------------------------------
(***************************************************************************)
(* Permissions as queries use them (src/account.rs, va! of                   *)
(* src/handle/mod.rs), and the last answer to a query.                       *)
(***************************************************************************)
CONSTANTS
  Account, Viewer,  \* Viewer is the account that asks
  Unset             \* a query parameter that is not given

ASSUME ViewerAssumption == Viewer \in Account
ASSUME UnsetAssumption  == Unset \notin Account

VARIABLES
  held,    \* the Permission tags of the viewer that matter to the query
  answer   \* the last request, and what it returned

Permission == {"Post", "GetPubPost", "ReviewPost", "RemovePost",
               "SetPermissions", "ViewFullAccount", "ViewSimpleAccount",
               "ManageNotifications", "GetPubNotifications",
               "UploadResource", "Maintain"}

(* Permission::contains *)
Contained(p) ==
  CASE p \in {"Post", "ReviewPost"} -> {"GetPubPost"}
    [] p = "RemovePost"             -> {"GetPubPost", "ReviewPost"}
    [] p = "SetPermissions"         -> {"ViewFullAccount", "ViewSimpleAccount"}
    [] p = "ViewFullAccount"        -> {"ViewSimpleAccount"}
    [] p = "ManageNotifications"    -> {"GetPubNotifications"}
    [] OTHER                        -> {}

ContainsNotReviewMutant(p, q) == p # "ReviewPost" /\ q \in Contained(p)
Contains(p, q) == q \in Contained(p)

(* contains_permission *)
May(p) == p \in held \/ \E h \in held : Contains(h, p)

NoAnswer == [request |-> "none"]
===============================================================================
