-------------------------- MODULE ResourceLifeProofs --------------------------
(***************************************************************************)
(* The handlers of posts implement the life of a resource, for any sets of  *)
(* accounts, posts, resources and requests, with and without faults.        *)
(***************************************************************************)
EXTENDS PostResourceProofs

(* In a safe state a resource is with nobody, with the one request that has  *)
(* claimed it, or on the list of one post.                                   *)
OneHolder(r) ==
  \/ ClaimedBy(r) = {} /\ ListedBy(r) = {}
  \/ ListedBy(r) = {} /\ res[r] = "used" /\ \E t \in Task : ClaimedBy(r) = {t}
  \/ ClaimedBy(r) = {} /\ res[r] \in {"used", "gone"} /\ \E p \in Post : ListedBy(r) = {p}

LEMMA OneHolderSafe ==
  ASSUME CoreInv, NEW r \in Resource
  PROVE  OneHolder(r) /\ res[r] \in {"none", "free", "used", "gone"}
<1>0. res[r] \in {"none", "free", "used", "gone"}
  BY DEF CoreInv, TypeOK
<1>1. CASE \E p \in Post : p \in ListedBy(r)
  <2>1. PICK p \in Post : p \in ListedBy(r)
    BY <1>1
  <2>2. ListedBy(r) = {p}
    BY <2>1 DEF ListedBy, CoreInv, ListsDisjoint
  <2>3. Settled(r)
    BY <2>1 DEF ListedBy, CoreInv, ListedSettled
  <2> QED BY <1>0, <2>2, <2>3 DEF OneHolder, ClaimedBy, Settled
<1>2. CASE ListedBy(r) = {} /\ \E t \in Task : t \in ClaimedBy(r)
  <2>1. PICK t \in Task : t \in ClaimedBy(r)
    BY <1>2
  <2>2. ClaimedBy(r) = {t} /\ res[r] = "used"
    BY <2>1 DEF ClaimedBy, CoreInv, ClaimsDisjoint, FreshBlocked
  <2> QED BY <1>0, <1>2, <2>2 DEF OneHolder
<1>3. CASE ListedBy(r) = {} /\ ClaimedBy(r) = {}
  BY <1>0, <1>3 DEF OneHolder
<1> QED BY <1>1, <1>2, <1>3 DEF ListedBy, ClaimedBy

Holders == \A r \in Resource : OneHolder(r)

LEMMA HoldersSafe == CoreInv => Holders
BY OneHolderSafe DEF Holders

LEMMA HoldersNext == CoreInv' => Holders'
BY HoldersSafe, PTL

(* What is left to show of a step, resource by resource: no claim out of     *)
(* nothing, no list without a claim, no destruction under a claim.           *)
Lives(r) ==
  \/ /\ res'[r] = res[r] /\ ClaimedBy(r)' \subseteq ClaimedBy(r)
     /\ (ListedBy(r)' \subseteq ListedBy(r) \/ ClaimedBy(r) # {})
  \/ res[r] = "none" /\ res'[r] = "free"
  \/ res[r] = "free" /\ res'[r] = "used" /\ ClaimedBy(r)' # {}
  \/ /\ res[r] = "used" /\ res'[r] = "gone"
     /\ ClaimedBy(r) = {} /\ ListedBy(r)' = ListedBy(r)

LEMMA LivesIsLife ==
  ASSUME CoreInv, CoreInv', \A r \in Resource : Lives(r)
  PROVE  Life!Next
<1> SUFFICES ASSUME NEW r \in Resource
             PROVE  \/ Life!Stay(r) \/ Life!Enter(r) \/ Life!Claim(r)
                    \/ Life!HandOver(r) \/ Life!Release(r) \/ Life!Destroy(r)
  BY DEF Life!Next
<1>1. OneHolder(r) /\ res[r] \in {"none", "free", "used", "gone"}
  BY OneHolderSafe
<1>2. /\ \/ ClaimedBy(r)' = {} /\ ListedBy(r)' = {}
         \/ ListedBy(r)' = {} /\ res'[r] = "used" /\ \E t \in Task : ClaimedBy(r)' = {t}
         \/ ClaimedBy(r)' = {} /\ res'[r] \in {"used", "gone"} /\ \E p \in Post : ListedBy(r)' = {p}
  BY HoldersNext DEF Holders, OneHolder
<1>3. Lives(r)
  OBVIOUS
<1> QED BY <1>1, <1>2, <1>3
  DEF OneHolder, Lives, Life!Stay, Life!Enter, Life!Claim, Life!HandOver, Life!Release, Life!Destroy

-------------------------------------------------------------------------------
(* Steps that claim nothing, list nothing and destroy nothing. *)

(* No list changes and no post comes to life. *)
ListsKept ==
  \A p \in Post : post'[p].listed = post[p].listed /\ (IsLive(p)' => IsLive(p))

LEMMA ListsOfPosts == PostsKept => ListsKept
BY DEF PostsKept, ListsKept

(* The other requests keep their claims, and what posts list shrinks at most. *)
LEMMA OthersKeep ==
  ASSUME CoreInv, TypeOK', NEW t \in Task, ListsKept,
         \A u \in Task : u # t => task'[u] = task[u]
  PROVE  /\ \A u \in Task : u # t => Fresh(u)' = Fresh(u)
         /\ \A r \in Resource : ListedBy(r)' \subseteq ListedBy(r)
<1>1. \A u \in Task : task[u].pc = "swap" => task[u].post \in Post
  BY DEF CoreInv, TypeOK
<1>2. \A u \in Task : u # t => Fresh(u)' = Fresh(u)
  BY <1>1 DEF Fresh, ListsKept
<1>3. \A r \in Resource : ListedBy(r)' \subseteq ListedBy(r)
  BY DEF ListedBy, ListsKept
<1> QED BY <1>2, <1>3

LEMMA WalkLives ==
  ASSUME CoreInv, TypeOK', NEW t \in Task, ListsKept, UNCHANGED res,
         \A u \in Task : u # t => task'[u] = task[u],
         Fresh(t)' \subseteq Fresh(t)
  PROVE  \A r \in Resource : Lives(r)
<1>1. \A u \in Task : Fresh(u)' \subseteq Fresh(u)
  BY OthersKeep
<1>2. \A r \in Resource : ClaimedBy(r)' \subseteq ClaimedBy(r)
  BY <1>1 DEF ClaimedBy
<1> QED BY <1>2, OthersKeep DEF Lives

(* A request that stops gives its claims up. *)
LEMMA QuitLives ==
  ASSUME CoreInv, TypeOK', NEW t \in Task, ListsKept, UNCHANGED res, Finish(t)
  PROVE  \A r \in Resource : Lives(r)
<1>1. task'[t] = Idle /\ \A u \in Task : u # t => task'[u] = task[u]
  BY IdleOK, SetOK DEF Finish, CoreInv
<1>2. Fresh(t)' = {}
  BY <1>1 DEF Fresh, Idle
<1> QED BY <1>1, <1>2, WalkLives

(* A request that claims one free resource. *)
LEMMA ClaimLives ==
  ASSUME CoreInv, TypeOK', NEW t \in Task, NEW r \in Resource, UNCHANGED post,
         \A u \in Task : u # t => task'[u] = task[u],
         Fresh(t)' = Fresh(t) \cup {r},
         res[r] = "free", res' = [res EXCEPT ![r] = "used"]
  PROVE  \A s \in Resource : Lives(s)
<1>1. ListsKept
  BY DEF ListsKept, IsLive
<1>2. r \in Fresh(t)'
  OBVIOUS
<1>3. ClaimedBy(r)' # {} /\ res'[r] = "used"
  BY <1>2 DEF ClaimedBy, CoreInv, TypeOK
<1>4. \A s \in Resource : s # r => res'[s] = res[s] /\ ClaimedBy(s)' \subseteq ClaimedBy(s)
  BY <1>1, OthersKeep DEF ClaimedBy, CoreInv, TypeOK
<1> QED BY <1>1, <1>3, <1>4, OthersKeep DEF Lives

(* A request that destroys at most one resource some post has listed. *)
LEMMA DestroyLives ==
  ASSUME CoreInv, TypeOK', NEW t \in Task, NEW r \in Resource, UNCHANGED post,
         \A u \in Task : u # t => task'[u] = task[u],
         Fresh(t)' = Fresh(t), Settled(r),
         \/ UNCHANGED res
         \/ /\ res[r] = "used"
            /\ res' = [res EXCEPT ![r] = "gone"]
  PROVE  \A s \in Resource : Lives(s)
<1>1. ListsKept
  BY DEF ListsKept, IsLive
<1>2. CASE UNCHANGED res
  BY <1>1, <1>2, WalkLives
<1>3. CASE res[r] = "used" /\ res' = [res EXCEPT ![r] = "gone"]
  <2>1. ClaimedBy(r) = {} /\ res'[r] = "gone"
    BY <1>3 DEF ClaimedBy, Settled, CoreInv, TypeOK
  <2>2. ListedBy(r)' = ListedBy(r)
    BY DEF ListedBy, IsLive
  <2>3. \A s \in Resource : s # r => res'[s] = res[s] /\ ClaimedBy(s)' \subseteq ClaimedBy(s)
    BY <1>1, <1>3, OthersKeep DEF ClaimedBy, CoreInv, TypeOK
  <2> QED BY <1>1, <1>3, <2>1, <2>2, <2>3, OthersKeep DEF Lives
<1> QED BY <1>2, <1>3

(* A request that ends by giving a post a list made of its claims and of what *)
(* the post already listed.                                                   *)
LEMMA ListLives ==
  ASSUME CoreInv, TypeOK', NEW t \in Task, NEW p \in Post, Finish(t), UNCHANGED res,
         \A q \in Post : q # p => post'[q] = post[q],
         post'[p].listed \subseteq Fresh(t) \cup (IF IsLive(p) THEN post[p].listed ELSE {}),
         \A u \in Task : u # t /\ task[u].pc = "swap" => task[u].post # p
  PROVE  \A r \in Resource : Lives(r)
<1>1. task'[t] = Idle /\ \A u \in Task : u # t => task'[u] = task[u]
  BY IdleOK, SetOK DEF Finish, CoreInv
<1>2. Fresh(t)' = {}
  BY <1>1 DEF Fresh, Idle
<1>3. \A u \in Task : task[u].pc = "swap" => task[u].post \in Post
  BY DEF CoreInv, TypeOK
<1>4. \A u \in Task : u # t => Fresh(u)' = Fresh(u)
  BY <1>1, <1>3 DEF Fresh
<1>5. \A r \in Resource : ClaimedBy(r)' \subseteq ClaimedBy(r)
  BY <1>2, <1>4 DEF ClaimedBy
<1>6. \A r \in Resource : ListedBy(r)' \subseteq ListedBy(r) \/ r \in Fresh(t)
  BY DEF ListedBy, IsLive
<1> QED BY <1>5, <1>6 DEF Lives, ClaimedBy

-------------------------------------------------------------------------------
(* The steps of a handler. *)

(* A change of the task's `todo` only keeps what the request has claimed. *)
LEMMA TodoLives ==
  ASSUME CoreInv, NEW t \in Task, UNCHANGED post, NEW X,
         Set(t, [task[t] EXCEPT !.todo = X])
  PROVE  /\ \A u \in Task : u # t => task'[u] = task[u]
         /\ Fresh(t)' = Fresh(t)
<1>1. /\ task'[t] = [task[t] EXCEPT !.todo = X] /\ task[t] \in TaskRecord
      /\ \A u \in Task : u # t => task'[u] = task[u]
  BY DEF Set, CoreInv, TypeOK
<1>2. task'[t].pc = task[t].pc /\ task'[t].got = task[t].got /\ task'[t].post = task[t].post
  BY <1>1 DEF TaskRecord
<1> QED BY <1>1, <1>2 DEF Fresh

(* new_post claims a resource nobody has. *)
LEMMA ClaimOneLives ==
  ASSUME CoreInv, TypeOK', NEW t \in Task, NEW r \in Resource, ClaimOne(t, r)
  PROVE  \A s \in Resource : Lives(s)
<1>1. ListsKept /\ UNCHANGED post /\ task[t].pc = "claim" /\ task[t] \in TaskRecord
  BY DEF ClaimOne, ListsKept, IsLive, CoreInv, TypeOK
<1>2. CASE Finish(t) /\ UNCHANGED res
  BY <1>1, <1>2, QuitLives
<1>3. CASE Set(t, [task[t] EXCEPT !.todo = @ \ {r}]) /\ UNCHANGED res
  BY <1>1, <1>3, TodoLives, WalkLives
<1>4. CASE /\ Set(t, [task[t] EXCEPT !.todo = @ \ {r}, !.got = @ \cup {r}])
           /\ Blockable(r) /\ res' = [res EXCEPT ![r] = "used"]
  <2>1. /\ task'[t] = [task[t] EXCEPT !.todo = @ \ {r}, !.got = @ \cup {r}]
        /\ \A u \in Task : u # t => task'[u] = task[u]
    BY <1>4 DEF Set, CoreInv, TypeOK
  <2>2. task'[t].pc = "claim" /\ task'[t].got = task[t].got \cup {r}
    BY <1>1, <2>1 DEF TaskRecord
  <2>3. Fresh(t)' = Fresh(t) \cup {r}
    BY <1>1, <2>2 DEF Fresh
  <2> QED BY <1>1, <1>4, <2>1, <2>3, ClaimLives DEF Blockable
<1> QED BY <1>2, <1>3, <1>4 DEF ClaimOne

(* modify destroys what its own post lists, or claims a resource nobody has. *)
LEMMA SwapOneLives ==
  ASSUME CoreInv, TypeOK', NEW t \in Task, NEW r \in Resource, SwapOne(t, r)
  PROVE  \A s \in Resource : Lives(s)
<1>1. /\ ListsKept /\ UNCHANGED post /\ task[t].pc = "swap" /\ task[t] \in TaskRecord
      /\ task[t].post \in Post
  BY DEF SwapOne, ListsKept, IsLive, CoreInv, TypeOK
<1>2. CASE Finish(t) /\ UNCHANGED res
  BY <1>1, <1>2, QuitLives
<1>3. CASE Set(t, [task[t] EXCEPT !.todo = @ \ {r}]) /\ UNCHANGED res
  BY <1>1, <1>3, TodoLives, WalkLives
<1>4. CASE /\ Set(t, [task[t] EXCEPT !.todo = @ \ {r}]) /\ Found(r)
           /\ r \in post[task[t].post].listed /\ res' = [res EXCEPT ![r] = "gone"]
  <2>1. Settled(r) /\ res[r] = "used"
    BY <1>1, <1>4 DEF CoreInv, ListedSettled, Settled, Found
  <2> QED BY <1>1, <1>4, <2>1, TodoLives, DestroyLives
<1>5. CASE /\ Set(t, [task[t] EXCEPT !.todo = @ \ {r}, !.got = @ \cup {r}])
           /\ r \notin post[task[t].post].listed /\ Blockable(r)
           /\ res' = [res EXCEPT ![r] = "used"]
  <2>1. /\ task'[t] = [task[t] EXCEPT !.todo = @ \ {r}, !.got = @ \cup {r}]
        /\ \A u \in Task : u # t => task'[u] = task[u]
    BY <1>5 DEF Set, CoreInv, TypeOK
  <2>2. /\ task'[t].pc = "swap" /\ task'[t].got = task[t].got \cup {r}
        /\ task'[t].post = task[t].post
    BY <1>1, <2>1 DEF TaskRecord
  <2>3. Fresh(t)' = Fresh(t) \cup {r}
    BY <1>1, <1>5, <2>2 DEF Fresh
  <2> QED BY <1>1, <1>5, <2>1, <2>3, ClaimLives DEF Blockable
<1> QED BY <1>2, <1>3, <1>4, <1>5 DEF SwapOne

(* remove and bulk_remove destroy what some post has listed. *)
LEMMA ClearOneLives ==
  ASSUME CoreInv, TypeOK', NEW t \in Task, NEW r \in Resource,
         ClearOne(t, r) \/ SweepOne(t, r)
  PROVE  \A s \in Resource : Lives(s)
<1>1. /\ UNCHANGED post /\ task[t].pc \in {"clear", "sweep"} /\ r \in task[t].todo
      /\ Set(t, [task[t] EXCEPT !.todo = @ \ {r}])
  BY DEF ClearOne, SweepOne
<1>2. Settled(r)
  BY <1>1 DEF CoreInv, TypeOK, ListedSettled, ClearsListed, CollectedDead, Collected
<1>3. \/ UNCHANGED res
      \/ /\ res[r] = "used"
         /\ res' = [res EXCEPT ![r] = "gone"]
  BY DEF ClearOne, SweepOne, Destroy
<1> QED BY <1>1, <1>2, <1>3, TodoLives, DestroyLives

(* The steps of one task that only move it on. *)
LEMMA MoveLives ==
  ASSUME CoreInv, TypeOK', NEW t \in Task,
         \/ BeginClear(t) \/ EndClear(t) \/ GatherOne(t) \/ EndGather(t) \/ DropPost(t)
         \/ \E p \in Post : NextPost(t, p)
         \/ \E renew \in BOOLEAN : BeginSwap(t, renew)
  PROVE  \A r \in Resource : Lives(r)
<1>0. TypeOK /\ task[t] \in TaskRecord /\ task \in [Task -> TaskRecord]
  BY DEF CoreInv, TypeOK
<1>1. CASE \/ BeginClear(t) \/ EndClear(t) \/ GatherOne(t) \/ EndGather(t)
           \/ \E p \in Post : NextPost(t, p)
  <2>1. ListsKept /\ UNCHANGED res
    BY <1>1, SamePosts, ListsOfPosts DEF BeginClear, EndClear, EndGather, GatherOne, NextPost
  <2>2. \A u \in Task : u # t => task'[u] = task[u]
    BY <1>0, <1>1 DEF BeginClear, EndClear, EndGather, GatherOne, NextPost, Set
  <2>3. task'[t].pc \in {"clear", "read", "drop", "sweep", "gather"}
    <3>1. CASE BeginClear(t) \/ EndClear(t) \/ EndGather(t)
      BY <1>0, <3>1 DEF BeginClear, EndClear, EndGather, Set, TaskRecord
    <3>2. CASE GatherOne(t)
      BY <1>0, <3>2 DEF GatherOne, Set, TaskRecord
    <3>3. CASE \E p \in Post : NextPost(t, p)
      BY <1>0, <3>3 DEF NextPost, Set, TaskRecord
    <3> QED BY <1>1, <3>1, <3>2, <3>3
  <2>4. Fresh(t)' = {}
    BY <2>3 DEF Fresh
  <2> QED BY <2>1, <2>2, <2>4, WalkLives
<1>2. CASE DropPost(t)
  <2>1. task[t].post \in Post /\ UNCHANGED res
    BY <1>0, <1>2 DEF DropPost, TypeOK
  <2>2. \A q \in Post : post'[q].listed = post[q].listed
                       /\ (post'[q].status = post[q].status \/ post'[q].status = "gone")
    BY <1>0, <1>2, <2>1 DEF DropPost, TypeOK, PostRecord
  <2>3. ListsKept
    BY <2>2 DEF ListsKept, IsLive, Live, Verdict
  <2>4. CASE Finish(t)
    BY <2>1, <2>3, <2>4, QuitLives
  <2>5. CASE Set(t, [task[t] EXCEPT !.pc = "gather", !.post = NoPost])
    <3>1. task'[t].pc = "gather" /\ \A u \in Task : u # t => task'[u] = task[u]
      BY <1>0, <2>5 DEF Set, TaskRecord
    <3>2. Fresh(t)' = {}
      BY <3>1 DEF Fresh
    <3> QED BY <2>1, <2>3, <3>1, <3>2, WalkLives
  <2> QED BY <1>2, <2>4, <2>5 DEF DropPost
<1>3. CASE \E renew \in BOOLEAN : BeginSwap(t, renew)
  <2>1. PICK renew \in BOOLEAN : BeginSwap(t, renew)
    BY <1>3
  <2> DEFINE p == task[t].post
  <2>2. p \in Post /\ post \in [Post -> PostRecord]
    BY <1>0, <2>1 DEF BeginSwap, TypeOK
  <2>3. /\ task'[t].pc = "swap" /\ task'[t].post = p
        /\ task'[t].got = post[p].listed \cap task[t].want
        /\ \A u \in Task : u # t => task'[u] = task[u]
    BY <1>0, <2>1 DEF BeginSwap, Set, TaskRecord
  <2>4. \A q \in Post : post'[q].listed = post[q].listed /\ post'[q].status = post[q].status
    BY <2>1, <2>2 DEF BeginSwap, SetTime, PostRecord
  <2>5. ListsKept
    BY <2>4 DEF ListsKept, IsLive
  <2>6. Fresh(t)' = {}
    BY <2>2, <2>3, <2>4 DEF Fresh
  <2> QED BY <2>1, <2>3, <2>5, <2>6, WalkLives DEF BeginSwap
<1> QED BY <1>1, <1>2, <1>3

(* The steps that end a request and leave every list as it is. *)
LEMMA EndLives ==
  ASSUME CoreInv, TypeOK', NEW t \in Task,
         \/ AbandonPost(t) \/ Refused(t) \/ RefuseTime(t) \/ EndSweep(t) \/ Cancel(t)
         \/ \E renew \in BOOLEAN : ModifyText(t, renew)
         \/ \E v \in Verdict : Pass(t, v)
  PROVE  \A r \in Resource : Lives(r)
<1>1. Finish(t) /\ UNCHANGED res
  BY DEF AbandonPost, Refused, RefuseTime, EndSweep, Cancel, ModifyText, Pass
<1>2. ListsKept
  <2>1. CASE UNCHANGED post
    BY <2>1 DEF ListsKept, IsLive
  <2>2. CASE \E renew \in BOOLEAN : ModifyText(t, renew)
    <3>1. task[t].post \in Post /\ IsLive(task[t].post)
      BY <2>2 DEF ModifyText, MayOpen, CoreInv, TypeOK
    <3>2. \A q \in Post : post'[q].listed = post[q].listed
                         /\ (post'[q].status = post[q].status \/ q = task[t].post)
      BY <2>2, <3>1 DEF ModifyText, SetTime, CoreInv, TypeOK, PostRecord
    <3> QED BY <3>1, <3>2 DEF ListsKept, IsLive
  <2>3. CASE \E v \in Verdict : Pass(t, v)
    <3>1. task[t].post \in Post /\ IsLive(task[t].post)
      BY <2>3 DEF Pass, MayOpen, CoreInv, TypeOK
    <3>2. \A q \in Post : post'[q].listed = post[q].listed
                         /\ (post'[q].status = post[q].status \/ q = task[t].post)
      BY <2>3, <3>1 DEF Pass, CoreInv, TypeOK, PostRecord
    <3> QED BY <3>1, <3>2 DEF ListsKept, IsLive
  <2> QED BY <2>1, <2>2, <2>3 DEF AbandonPost, Refused, RefuseTime, EndSweep, Cancel
<1> QED BY <1>1, <1>2, QuitLives

(* The steps that give a post its list. *)
LEMMA InsertLives ==
  ASSUME CoreInv, TypeOK', NEW t \in Task, NEW p \in Post, InsertPost(t, p)
  PROVE  \A r \in Resource : Lives(r)
<1>1. /\ Finish(t) /\ UNCHANGED res /\ task[t].pc = "claim" /\ task[t].got = task[t].want
      /\ ~IsLive(p)
  BY DEF InsertPost, Complete, IsLive, Live, Verdict
<1>2. post'[p].listed = task[t].want /\ \A q \in Post : q # p => post'[q] = post[q]
  BY DEF InsertPost, CoreInv, TypeOK
<1>3. Fresh(t) = task[t].want
  BY <1>1 DEF Fresh
<1>4. \A u \in Task : task[u].pc = "swap" => task[u].post # p
  BY <1>1 DEF CoreInv, Guards
<1> QED BY <1>1, <1>2, <1>3, <1>4, ListLives

LEMMA EndSwapLives ==
  ASSUME CoreInv, TypeOK', NEW t \in Task, EndSwap(t)
  PROVE  \A r \in Resource : Lives(r)
<1> DEFINE p == task[t].post
<1>1. Finish(t) /\ UNCHANGED res /\ task[t].pc = "swap" /\ p \in Post /\ IsLive(p)
  BY DEF EndSwap, CoreInv, TypeOK, Guards
<1>2. post'[p].listed = task[t].got /\ \A q \in Post : q # p => post'[q] = post[q]
  BY <1>1 DEF EndSwap, Swapped, CoreInv, TypeOK, PostRecord
<1>3. task[t].got \subseteq Fresh(t) \cup post[p].listed
  BY <1>1 DEF Fresh
<1>4. \A u \in Task : u # t /\ task[u].pc = "swap" => task[u].post # p
  BY <1>1 DEF CoreInv, Guards, Writers
<1> QED BY <1>1, <1>2, <1>3, <1>4, ListLives

(* Uploads create free resources, time ends posts. *)
LEMMA EnvironmentLives ==
  ASSUME CoreInv, Environment
  PROVE  \A r \in Resource : Lives(r)
<1>1. UNCHANGED task
  BY DEF Environment, Upload, End
<1>2. \A q \in Post : post'[q].listed = post[q].listed /\ post'[q].status = post[q].status
  BY DEF Environment, Upload, End, CoreInv, TypeOK, PostRecord
<1>3. \A r \in Resource : res'[r] = res[r] \/ (res[r] = "none" /\ res'[r] = "free")
  BY DEF Environment, Upload, End, CoreInv, TypeOK
<1>4. \A u \in Task : Fresh(u)' = Fresh(u)
  BY <1>1, <1>2 DEF Fresh, CoreInv, TypeOK
<1>5. \A r \in Resource : ClaimedBy(r)' = ClaimedBy(r) /\ ListedBy(r)' = ListedBy(r)
  BY <1>2, <1>4 DEF ClaimedBy, ListedBy, IsLive
<1> QED BY <1>3, <1>5 DEF Lives

-------------------------------------------------------------------------------
(* The refinement. *)

LEMMA LifeInit == Init => Life!Init
<1> SUFFICES ASSUME Init PROVE Life!Init
  OBVIOUS
<1>1. \A r \in Resource : ClaimedBy(r) = {} /\ ListedBy(r) = {}
  BY DEF Init, ClaimedBy, ListedBy, Fresh, Idle, Unborn
<1> QED BY <1>1 DEF Init, Life!Init

LEMMA LifeStep == CoreInv /\ CoreInv' /\ [Next]_vars => [Life!Next]_(Life!vars)
<1> SUFFICES ASSUME CoreInv, CoreInv', [Next]_vars PROVE [Life!Next]_(Life!vars)
  OBVIOUS
<1>0. TypeOK'
  BY DEF CoreInv
<1>1. ASSUME NEW t \in Task, Step(t) PROVE \A r \in Resource : Lives(r)
  <2>1. CASE \E r \in Resource : ClaimOne(t, r) \/ SwapOne(t, r) \/ ClearOne(t, r) \/ SweepOne(t, r)
    BY <1>0, <2>1, ClaimOneLives, SwapOneLives, ClearOneLives
  <2>2. CASE EndSwap(t) \/ \E p \in Post : InsertPost(t, p)
    BY <1>0, <2>2, InsertLives, EndSwapLives
  <2>3. CASE \/ BeginClear(t) \/ EndClear(t) \/ GatherOne(t) \/ EndGather(t) \/ DropPost(t)
             \/ \E p \in Post : NextPost(t, p)
             \/ \E renew \in BOOLEAN : BeginSwap(t, renew)
    BY <1>0, <2>3, MoveLives
  <2>4. CASE \/ AbandonPost(t) \/ Refused(t) \/ RefuseTime(t) \/ EndSweep(t)
             \/ \E renew \in BOOLEAN : ModifyText(t, renew)
             \/ \E v \in Verdict : Pass(t, v)
    BY <1>0, <2>4, EndLives
  <2> QED BY <1>1, <2>1, <2>2, <2>3, <2>4 DEF Step
<1>2. ASSUME NEW t \in Task, Arrive(t) PROVE \A r \in Resource : Lives(r)
  <2>1. Arrival(task'[t]) /\ Set(t, task'[t]) /\ TaskOK(task'[t]) /\ UNCHANGED <<res, post>>
    BY <1>2, ArrivalOK DEF CoreInv
  <2>2. \A u \in Task : u # t => task'[u] = task[u]
    BY <2>1, SetOK DEF CoreInv
  <2>3. Fresh(t)' = {}
    BY <2>1 DEF Fresh, Arrival
  <2> QED BY <1>0, <2>1, <2>2, <2>3, SamePosts, ListsOfPosts, WalkLives
<1>3. ASSUME NEW t \in Task, Cancel(t) PROVE \A r \in Resource : Lives(r)
  BY <1>0, <1>3, EndLives
<1>4. ASSUME Environment PROVE \A r \in Resource : Lives(r)
  BY <1>4, EnvironmentLives
<1>5. CASE UNCHANGED vars
  BY <1>5 DEF vars, Life!vars, ClaimedBy, ListedBy, Fresh, IsLive
<1> QED BY <1>1, <1>2, <1>3, <1>4, <1>5, LivesIsLife DEF Next

(* Whatever requests run at once, stop half-way or are repeated, a resource  *)
(* goes through the life ResourceLife promises.                              *)
THEOREM LifeImplemented == Spec => ImplementsLife
BY LifeInit, LifeStep, CoreAlways, PTL DEF Spec, ImplementsLife, Life!Spec

(* What ResourceLife says of one resource in one step. *)
OnlyOn(r) ==
  /\ ListedBy(r) # {} => ListedBy(r)' \in {ListedBy(r), {}}
  /\ res[r] \in {"used", "gone"} /\ ClaimedBy(r) = {} /\ ListedBy(r) = {}
       => ClaimedBy(r)' = {} /\ ListedBy(r)' = {}
  /\ res[r] = "gone" => res'[r] = "gone"
  /\ res[r] = "used" => res'[r] \in {"used", "gone"}

LEMMA LifeGoesOn ==
  ASSUME [Life!Next]_(Life!vars), NEW r \in Resource
  PROVE  OnlyOn(r)
<1>1. CASE UNCHANGED Life!vars
  <2>1. ClaimedBy(r) = [q \in Resource |-> ClaimedBy(q)][r]
        /\ ClaimedBy(r)' = [q \in Resource |-> ClaimedBy(q)]'[r]
        /\ ListedBy(r) = [q \in Resource |-> ListedBy(q)][r]
        /\ ListedBy(r)' = [q \in Resource |-> ListedBy(q)]'[r]
    OBVIOUS
  <2>2. ClaimedBy(r)' = ClaimedBy(r) /\ ListedBy(r)' = ListedBy(r) /\ res' = res
    BY <1>1, <2>1 DEF Life!vars
  <2> QED BY <2>2 DEF OnlyOn
<1>2. CASE Life!Next
  <2>1. \/ Life!Stay(r) \/ Life!Enter(r) \/ Life!Claim(r)
        \/ Life!HandOver(r) \/ Life!Release(r) \/ Life!Destroy(r)
    BY <1>2 DEF Life!Next
  <2>2. CASE Life!Stay(r) \/ Life!Enter(r)
    BY <2>2 DEF Life!Stay, Life!Enter, OnlyOn
  <2>3. CASE Life!Claim(r) \/ Life!HandOver(r)
    BY <2>3 DEF Life!Claim, Life!HandOver, OnlyOn
  <2>4. CASE Life!Release(r) \/ Life!Destroy(r)
    BY <2>4 DEF Life!Release, Life!Destroy, OnlyOn
  <2> QED BY <2>1, <2>2, <2>3, <2>4
<1> QED BY <1>1, <1>2

(* A resource moves from no post to another, is never used again once given   *)
(* up, and never undone once destroyed, whatever runs at once.                *)
THEOREM LifeIsOneWay == Spec => Life!OneWay
<1>1. [Life!Next]_(Life!vars) => [\A r \in Resource : Life!Forward(r)]_(Life!vars)
  BY LifeGoesOn DEF OnlyOn, Life!Forward
<1> QED BY <1>1, LifeImplemented, PTL DEF ImplementsLife, Life!Spec, Life!OneWay
===============================================================================
