-------------------------------- MODULE Deposits --------------------------------
(***************************************************************************)
(* What uploading promises: a resource comes from a session that was open    *)
(* and of the account that opened it, and closes that session for good; it   *)
(* is placed under a file nobody else has, stored after that, once, and       *)
(* destroyed; its file stays.  A stop of the process closes the sessions and  *)
(* goes back to the resources that were saved.                               *)
(***************************************************************************)
CONSTANTS Account, Session, Resource, File, NoFile

VARIABLES
  slot,    \* of a session: none, open or closed, and whose it is
  stage,   \* of a resource: new, accepted, placed or over
  claim,   \* the session it consumed and who did, a set of at most one
  file,
  stored, saved

vars == <<slot, stage, claim, file, stored, saved>>

Move(u, from, to) == stage[u] = from /\ stage' = [stage EXCEPT ![u] = to]

Init ==
  /\ \A s \in Session : slot[s].state = "none"
  /\ stage = [u \in Resource |-> "new"]
  /\ claim = [u \in Resource |-> {}]
  /\ file = [u \in Resource |-> NoFile]
  /\ stored = {} /\ saved = {}

Open(s, a) ==
  /\ slot[s].state = "none"
  /\ slot' = [slot EXCEPT ![s] = [state |-> "open", owner |-> a]]
  /\ UNCHANGED <<stage, claim, file, stored, saved>>

Close(s) ==
  /\ slot[s].state = "open" /\ slot' = [slot EXCEPT ![s].state = "closed"]
  /\ UNCHANGED <<stage, claim, file, stored, saved>>

Accept(u, s) ==
  /\ Move(u, "new", "accepted")
  /\ slot[s].state = "open" /\ slot' = [slot EXCEPT ![s].state = "closed"]
  /\ claim' = [claim EXCEPT ![u] = {[session |-> s, by |-> slot[s].owner]}]
  /\ UNCHANGED <<file, stored, saved>>

Refuse(u) ==
  /\ Move(u, "new", "over")
  /\ UNCHANGED <<slot, claim, file, stored, saved>>

Place(u, f) ==
  /\ Move(u, "accepted", "placed")
  /\ \A v \in Resource : file[v] # f
  /\ file' = [file EXCEPT ![u] = f]
  /\ UNCHANGED <<slot, claim, stored, saved>>

(* The session is spent, the payload is not there. *)
Lose(u) ==
  /\ Move(u, "accepted", "over") /\ claim' = [claim EXCEPT ![u] = {}]
  /\ UNCHANGED <<slot, file, stored, saved>>

Store(u) ==
  /\ Move(u, "placed", "over") /\ stored' = stored \cup {u}
  /\ UNCHANGED <<slot, claim, file, saved>>

Abandon(u) ==
  /\ Move(u, "placed", "over")
  /\ UNCHANGED <<slot, claim, file, stored, saved>>

Destroy(u) ==
  /\ u \in stored /\ stored' = stored \ {u}
  /\ UNCHANGED <<slot, stage, claim, file, saved>>

Save ==
  /\ saved' = stored
  /\ UNCHANGED <<slot, stage, claim, file, stored>>

(* `fresh`: requests that had not begun. *)
Restart ==
  /\ slot' = [s \in Session |->
       IF slot[s].state = "open" THEN [slot[s] EXCEPT !.state = "closed"] ELSE slot[s]]
  /\ \E fresh \in SUBSET {u \in Resource : stage[u] = "new"} :
       stage' = [u \in Resource |-> IF u \in fresh THEN "new" ELSE "over"]
  /\ claim' = [u \in Resource |-> IF stage[u] = "accepted" THEN {} ELSE claim[u]]
  /\ stored' = saved
  /\ UNCHANGED <<file, saved>>

Next ==
  \/ \E s \in Session : Close(s) \/ \E a \in Account : Open(s, a)
  \/ \E u \in Resource :
       \/ Refuse(u) \/ Lose(u) \/ Store(u) \/ Abandon(u) \/ Destroy(u)
       \/ \E s \in Session : Accept(u, s)
       \/ \E f \in File : Place(u, f)
  \/ Save \/ Restart

Spec == Init /\ [][Next]_vars

-------------------------------------------------------------------------------
(* What follows from it. *)

(* A session that is closed stays closed, a file stays with its resource, and  *)
(* what is over and neither stored nor saved never comes back.                *)
StaysOver ==
  /\ \A s \in Session : slot[s].state = "closed" => slot'[s] = slot[s]
  /\ \A u \in Resource :
       /\ stage[u] = "over" => stage'[u] = "over" /\ file'[u] = file[u]
       /\ stage[u] = "over" /\ u \notin stored \cup saved => u \notin stored' \cup saved'

OverForGood == [][StaysOver]_vars
===============================================================================
