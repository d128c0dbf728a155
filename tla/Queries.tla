-------------------------------- MODULE Queries --------------------------------
(***************************************************************************)
(* The queries of the program side by side, over one permission relation.    *)
(* A behaviour is about one item: a post, a notification, an account or a     *)
(* resource; it ends with the answer to a query.                             *)
(***************************************************************************)
EXTENDS PostQueries, Notifications, InfoQueries

vars == <<held, answer, post, note, now, target, resource>>

NoPostHere == post = NoPost
NoNoteHere == note = NoNote /\ now = CHOOSE t \in NoteTime : TRUE

Init ==
  /\ answer = NoAnswer
  /\ \/ PostInit /\ NoNoteHere /\ target = Unset /\ resource = NoResource
     \/ NoteInit /\ NoPostHere /\ target = Unset /\ resource = NoResource
     \/ AccountInit /\ NoPostHere /\ NoNoteHere /\ resource = NoResource
     \/ ResourceInit /\ NoPostHere /\ NoNoteHere /\ target = Unset

(* Nothing but the behaviours about notifications starts without an item. *)
AboutNote == NoPostHere /\ target = Unset /\ resource = NoResource

Next ==
  /\ answer = NoAnswer
  /\ \/ PostQuery /\ UNCHANGED <<note, now, target, resource>>
     \/ AboutNote /\ (NoteChange \/ NoteRequest) /\ UNCHANGED <<post, target, resource>>
     \/ (AccountQuery \/ ResourceQuery) /\ UNCHANGED <<post, note, now>>

Spec == Init /\ [][Next]_vars

-------------------------------------------------------------------------------
(* Properties *)

(* Whoever is shown somebody else's post may fetch the resources it lists,    *)
(* once they are used: the payload of a resource asks for GetPubPost, which   *)
(* ReviewPost and RemovePost contain.                                         *)
ShownIsPlayable ==
  answer.request \in {"post_info", "post_bulk"} /\ answer.shown # "none" /\ post.creator # Viewer =>
    PayloadGiven([owner |-> post.creator, used |-> TRUE])
===============================================================================
