------------------------------ MODULE ResourceLife ------------------------------
(***************************************************************************)
(* What a resource may go through, whatever the handlers of posts do:        *)
(* uploaded, claimed once, by one request, handed over to one post at most,   *)
(* and given up or destroyed for good.                                       *)
(***************************************************************************)
CONSTANTS Resource, Request, Post

VARIABLES
  state,   \* none (not uploaded), free, used (blocked) or gone (destroyed)
  claims,  \* the requests that have blocked the resource for a list to come
  shown    \* the posts that list it

vars == <<state, claims, shown>>

Init ==
  /\ state = [r \in Resource |-> "none"]
  /\ claims = [r \in Resource |-> {}]
  /\ shown = [r \in Resource |-> {}]

Stay(r) ==
  state'[r] = state[r] /\ claims'[r] = claims[r] /\ shown'[r] = shown[r]

Enter(r) ==
  /\ state[r] = "none" /\ state'[r] = "free"
  /\ claims'[r] = claims[r] /\ shown'[r] = shown[r]

(* Only what nobody has used before can be claimed. *)
Claim(r) ==
  /\ state[r] = "free" /\ state'[r] = "used"
  /\ claims[r] = {} /\ shown[r] = {}
  /\ \E q \in Request : claims'[r] = {q}
  /\ shown'[r] = {}

(* The request puts it on the list of a post. *)
HandOver(r) ==
  /\ state[r] = "used" /\ state'[r] = "used"
  /\ \E q \in Request : claims[r] = {q}
  /\ shown[r] = {} /\ claims'[r] = {}
  /\ \E p \in Post : shown'[r] = {p}

(* The request or the post that has it ends, or the post lists others. *)
Release(r) ==
  /\ state[r] \in {"used", "gone"} /\ state'[r] = state[r]
  /\ claims'[r] = {} /\ shown'[r] = {}

(* Not under a request that still means to list it. *)
Destroy(r) ==
  /\ state[r] = "used" /\ state'[r] = "gone"
  /\ claims[r] = {} /\ claims'[r] = {}
  /\ shown'[r] = shown[r]

(* One step of a handler may treat several resources, each in its own way. *)
Next ==
  \A r \in Resource : Stay(r) \/ Enter(r) \/ Claim(r) \/ HandOver(r) \/ Release(r) \/ Destroy(r)

Spec == Init /\ [][Next]_vars

-------------------------------------------------------------------------------
(* What follows from it. *)

(* What a post shows is never on another post later; what has been given up    *)
(* is never claimed or shown again; what is destroyed stays so.               *)
Forward(r) ==
  /\ shown[r] # {} => shown'[r] \in {shown[r], {}}
  /\ state[r] \in {"used", "gone"} /\ claims[r] = {} /\ shown[r] = {}
       => claims'[r] = {} /\ shown'[r] = {}
  /\ state[r] = "gone" => state'[r] = "gone"
  /\ state[r] = "used" => state'[r] \in {"used", "gone"}

OneWay == [][\A r \in Resource : Forward(r)]_vars
===============================================================================
