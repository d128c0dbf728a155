------------------------------ MODULE InfoQueries ------------------------------
(***************************************************************************)
(* What an account gets to see of accounts (get_info, bulk_get_info of       *)
(* src/handle/account.rs) and of uploaded resources (get_payload, get_info,  *)
(* bulk_get_info of src/handle/resource.rs).                                 *)
(***************************************************************************)
EXTENDS Access

VARIABLES
  target,   \* the account somebody looks at, or Unset
  resource  \* a resource that is looked at, or NoResource

InfoPermission == {"SetPermissions", "ViewFullAccount", "ViewSimpleAccount"}
Resource   == [owner : Account, used : BOOLEAN]
NoResource == [owner |-> Unset]

AccountShown(a) ==
  IF a = Viewer THEN "owned"
  ELSE IF May("ViewFullAccount") THEN "full"
  ELSE IF May("ViewSimpleAccount") THEN "simple"
  ELSE "none"

(* What bulk_get_info has of an account whose id is asked for, or not. *)
AccountBulkShownMutant(asked) == IF May("ViewFullAccount") /\ asked THEN "simple" ELSE "none"
AccountBulkShown(asked) == IF May("ViewSimpleAccount") /\ asked THEN "simple" ELSE "none"

(* The guard of the resource handlers: not for others unless is_blocked. *)
Open(r) == r.owner = Viewer \/ r.used

PayloadGiven(r) == May("GetPubPost") /\ Open(r)

(* Infos are looked up among the used resources only. *)
ResourceShown(r) == May("GetPubPost") /\ r.used /\ Open(r)

-------------------------------------------------------------------------------
AccountGetInfo == answer' = [request |-> "account_info", shown |-> AccountShown(target)]

AccountBulkGetInfo(asked) ==
  answer' = [request |-> "account_bulk", shown |-> AccountBulkShown(asked)]

GetPayload == answer' = [request |-> "payload", given |-> PayloadGiven(resource)]

ResourceGetInfo == answer' = [request |-> "resource_info", given |-> ResourceShown(resource)]

ResourceBulkGetInfo(asked) ==
  answer' = [request |-> "resource_bulk", given |-> asked /\ ResourceShown(resource)]

AccountInit  == target \in Account /\ held \in SUBSET InfoPermission
ResourceInit == resource \in Resource /\ held \in SUBSET {"Post", "GetPubPost", "ReviewPost", "RemovePost"}

AccountQuery ==
  /\ target # Unset
  /\ AccountGetInfo \/ \E asked \in BOOLEAN : AccountBulkGetInfo(asked)
  /\ UNCHANGED <<held, target, resource>>

ResourceQuery ==
  /\ resource # NoResource
  /\ \/ GetPayload \/ ResourceGetInfo
     \/ \E asked \in BOOLEAN : ResourceBulkGetInfo(asked)
  /\ UNCHANGED <<held, target, resource>>

-------------------------------------------------------------------------------
(* Properties *)

(* Two handlers decide who sees the account of somebody else: get_info after  *)
(* two tests of the caller's tags, bulk_get_info after one guard.  What one of *)
(* them answers the other does not refuse, though they may differ in detail;   *)
(* one's own account is the exception, which get_info always shows.            *)
SeenAloneIffInBulk ==
  target # Viewer =>
    /\ answer.request = "account_info" =>
         (answer.shown # "none" <=> AccountBulkShown(TRUE) # "none")
    /\ answer.request = "account_bulk" /\ answer.shown # "none" =>
         AccountShown(target) # "none"
===============================================================================
