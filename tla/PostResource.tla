----------------------------- MODULE PostResource -----------------------------
(***************************************************************************)
(* Posts and the resources they list: src/handle/post.rs over the worlds   *)
(* `post` and `resource`.                                                  *)
(*                                                                         *)
(* A request is a task.  Between two `await`s a handler runs alone, so one *)
(* action is one such stretch: the claim of one resource, the removal of   *)
(* one resource, the removal of the post.  A request keeps the guard of at *)
(* most one post: the write guard while `modify` swaps resources, the read *)
(* guard while `remove` destroys them.  Guards of resources do not outlive *)
(* a step.                                                                 *)
(***************************************************************************)
EXTENDS Naturals, FiniteSets

CONSTANTS
  Account, Post, Resource, Task,
  Poster,      \* accounts with Permission::Post
  Reviewer,    \* accounts with Permission::ReviewPost
  Remover,     \* accounts with Permission::RemovePost
  Maintainer,  \* accounts with Permission::Maintain
  NoAccount, NoPost,
  Faults,      \* may clients disconnect and storage calls fail?
  Requests     \* the kinds of request that clients send

ASSUME PermissionAssumption ==
  /\ Poster \subseteq Account
  /\ Reviewer \subseteq Account
  /\ Remover \subseteq Account
  /\ Maintainer \subseteq Account
ASSUME NullAssumption == NoAccount \notin Account /\ NoPost \notin Post
ASSUME FaultsAssumption == Faults \in BOOLEAN
ASSUME RequestsAssumption ==
  Requests \subseteq {"new", "modify", "review", "remove", "bulk", "unused"}

VARIABLES
  res,    \* life of a resource: never uploaded, free, used, destroyed
  owner,  \* who uploaded it
  post,   \* the stored posts; a destroyed post keeps its last contents
  task    \* the requests being served

vars == <<res, owner, post, task>>

Verdict == {"approved", "rejected"}
Live    == Verdict \cup {"pending"}

PostRecord ==
  [creator : Account \cup {NoAccount}, listed : SUBSET Resource,
   status : Live \cup {"none", "gone"}, ended : BOOLEAN]

Unborn == [creator |-> NoAccount, listed |-> {}, status |-> "none", ended |-> FALSE]

(***************************************************************************)
(* pc: "claim" new_post collects resources, "open" waits for the guard of  *)
(* `post`, "swap" modify exchanges resources, "clear" remove destroys the  *)
(* listed ones, "gather" bulk_remove walks over posts, "read" it waits for *)
(* the guard of `post`, the one it has come to, "drop" destroys `post`,    *)
(* "sweep" bulk_remove destroys the collected resources.                   *)
(* todo: ids still to be visited; got: resources claimed (claim, swap) or  *)
(* collected (gather, read, drop, sweep); dup: the request repeats an id.  *)
(***************************************************************************)
Pc == {"idle", "open", "claim", "swap", "clear", "gather", "read", "drop", "sweep"}
Kind == {"none", "new", "modify", "review", "remove", "bulk", "unused"}

TaskRecord ==
  [pc : Pc, kind : Kind, who : Account \cup {NoAccount}, post : Post \cup {NoPost},
   posts : SUBSET Post, want : SUBSET Resource, dup : BOOLEAN,
   todo : SUBSET Resource, got : SUBSET Resource]

Idle == [pc |-> "idle", kind |-> "none", who |-> NoAccount, post |-> NoPost,
         posts |-> {}, want |-> {}, dup |-> FALSE, todo |-> {}, got |-> {}]

IsLive(p) == post[p].status \in Live

Bulk(t) == task[t].kind \in {"bulk", "unused"}

-------------------------------------------------------------------------------
(* The guards of a post, read off the requests that hold them. *)

Writers(p) == {t \in Task : task[t].pc = "swap" /\ task[t].post = p}
ReadersMutant(p) == {t \in Task : task[t].pc \in {"clear", "drop"} /\ task[t].post = p}
Readers(p) == {t \in Task : task[t].pc = "clear" /\ task[t].post = p}
CanRead(p)  == Writers(p) = {}
CanWriteMutant(p) == Writers(p) = {}
CanWrite(p) == Writers(p) = {} /\ Readers(p) = {}

Set(t, rec)   == task' = [task EXCEPT ![t] = rec]
Finish(t)     == Set(t, Idle)
Start(t, rec) == task[t].pc = "idle" /\ rec.kind \in Requests /\ Set(t, rec)

(* Resource::block succeeds only on an unused resource. *)
BlockableMutant(r) == res[r] # "gone"
Blockable(r) == res[r] = "free"

Found(r) == res[r] \in {"free", "used"}

-------------------------------------------------------------------------------
(* The end of a successful upload: the record enters the world, unused. *)
Upload(r, a) ==
  /\ res[r] = "none"
  /\ res' = [res EXCEPT ![r] = "free"]
  /\ owner' = [owner EXCEPT ![r] = a]
  /\ UNCHANGED <<post, task>>

(* The on-screen range of a post passes. *)
End(p) ==
  /\ IsLive(p) /\ ~post[p].ended
  /\ post' = [post EXCEPT ![p].ended = TRUE]
  /\ UNCHANGED <<res, owner, task>>

-------------------------------------------------------------------------------
(* new_post *)

NewPost(t, a, want, dup) ==
  /\ a \in Poster /\ want # {}
  /\ Start(t, [Idle EXCEPT !.pc = "claim", !.kind = "new", !.who = a,
                           !.want = want, !.dup = dup, !.todo = want])
  /\ UNCHANGED <<res, owner, post>>

(* `validated >= resources.len()`: a repeated id is counted in len() only. *)
CompleteMutant(t) == task[t].todo = {} /\ ~task[t].dup
Complete(t) == task[t].got = task[t].want /\ ~task[t].dup

(* One turn of the loop: a resource of somebody else is passed over, one of *)
(* the caller's is blocked, or is in use and ends the request.              *)
ClaimOne(t, r) ==
  /\ task[t].pc = "claim" /\ ~Complete(t) /\ r \in task[t].todo
  /\ \/ /\ ~Found(r) \/ owner[r] # task[t].who
        /\ Set(t, [task[t] EXCEPT !.todo = @ \ {r}])
        /\ UNCHANGED res
     \/ /\ Found(r) /\ owner[r] = task[t].who /\ Blockable(r)
        /\ res' = [res EXCEPT ![r] = "used"]
        /\ Set(t, [task[t] EXCEPT !.todo = @ \ {r}, !.got = @ \cup {r}])
     \/ /\ Found(r) /\ owner[r] = task[t].who /\ ~Blockable(r)
        /\ Finish(t)
        /\ UNCHANGED res
  /\ UNCHANGED <<owner, post>>

(* Post::new and try_insert under an id no post had. *)
InsertPost(t, p) ==
  /\ task[t].pc = "claim" /\ Complete(t) /\ post[p].status = "none"
  /\ post' = [post EXCEPT ![p] = [creator |-> task[t].who, listed |-> task[t].want,
                                  status |-> "pending", ended |-> FALSE]]
  /\ Finish(t)
  /\ UNCHANGED <<res, owner>>

(* The early returns after the loop: too few resources validated, or the   *)
(* time range refused by validate_time.  What was blocked stays blocked.   *)
AbandonPost(t) ==
  /\ task[t].pc = "claim"
  /\ Complete(t) \/ task[t].todo = {}
  /\ Finish(t)
  /\ UNCHANGED <<res, owner, post>>

-------------------------------------------------------------------------------
(* Requests that name one post: they wait for its guard. *)

Modify(t, a, p, want) ==
  /\ a \in Poster
  /\ Start(t, [Idle EXCEPT !.pc = "open", !.kind = "modify", !.who = a,
                           !.post = p, !.want = want])
  /\ UNCHANGED <<res, owner, post>>

Review(t, a, p) ==
  /\ a \in Reviewer
  /\ Start(t, [Idle EXCEPT !.pc = "open", !.kind = "review", !.who = a, !.post = p])
  /\ UNCHANGED <<res, owner, post>>

Remove(t, a, p) ==
  /\ a \in Poster
  /\ Start(t, [Idle EXCEPT !.pc = "open", !.kind = "remove", !.who = a, !.post = p])
  /\ UNCHANGED <<res, owner, post>>

MayRemove(a, p) == post[p].creator = a \/ a \in Remover

MayOpen(t) ==
  LET p == task[t].post a == task[t].who IN
  /\ IsLive(p)
  /\ task[t].kind = "modify" => post[p].creator = a
  /\ task[t].kind = "remove" => MayRemove(a, p)

(* What a handler takes before it looks at the post: `remove` the read     *)
(* guard, `modify` and `review` the write guard.                           *)
Admitted(t) == IF task[t].kind = "remove" THEN CanRead(task[t].post)
                                          ELSE CanWrite(task[t].post)

(* PostNotFound: no such post, or not the caller's. *)
Refused(t) ==
  /\ task[t].pc = "open" /\ Admitted(t) /\ ~MayOpen(t)
  /\ Finish(t)
  /\ UNCHANGED <<res, owner, post>>

(* `modify` up to its resource loop: set_time may refuse the new range, or *)
(* accept it and so revive an ended post.                                  *)
SetTime(p, renew) == [post EXCEPT ![p].ended = IF renew THEN FALSE ELSE @]

RefuseTime(t) ==
  /\ task[t].pc = "open" /\ task[t].kind = "modify" /\ MayOpen(t)
  /\ CanWrite(task[t].post)
  /\ Finish(t)
  /\ UNCHANGED <<res, owner, post>>

(* No new list, or the same one: back to Pending at once. *)
ModifyText(t, renew) ==
  LET p == task[t].post IN
  /\ task[t].pc = "open" /\ task[t].kind = "modify" /\ MayOpen(t) /\ CanWrite(p)
  /\ post' = [SetTime(p, renew) EXCEPT ![p].status = "pending"]
  /\ Finish(t)
  /\ UNCHANGED <<res, owner>>

(* A different list: what both lists have is kept, the rest is visited. *)
BeginSwapMutant(t, renew) ==
  LET p == task[t].post  old == post[p].listed  new == task[t].want IN
  /\ task[t].pc = "open" /\ task[t].kind = "modify" /\ MayOpen(t) /\ CanWrite(p)
  /\ old # new
  /\ post' = SetTime(p, renew)
  /\ Set(t, [task[t] EXCEPT !.pc = "swap", !.todo = (old \ new) \cup (new \ old),
                            !.got = {}])
  /\ UNCHANGED <<res, owner>>
BeginSwap(t, renew) ==
  LET p == task[t].post  old == post[p].listed  new == task[t].want IN
  /\ task[t].pc = "open" /\ task[t].kind = "modify" /\ MayOpen(t) /\ CanWrite(p)
  /\ old # new
  /\ post' = SetTime(p, renew)
  /\ Set(t, [task[t] EXCEPT !.pc = "swap", !.todo = (old \ new) \cup (new \ old),
                            !.got = old \cap new])
  /\ UNCHANGED <<res, owner>>

(* One turn of the loop in `modify`: an old resource is destroyed; a new    *)
(* one is blocked, or is in use and ends the request where it stands.       *)
SwapOne(t, r) ==
  LET old == post[task[t].post].listed IN
  /\ task[t].pc = "swap" /\ r \in task[t].todo
  /\ \/ /\ ~Found(r)
        /\ Set(t, [task[t] EXCEPT !.todo = @ \ {r}])
        /\ UNCHANGED res
     \/ /\ Found(r) /\ r \in old
        /\ res' = [res EXCEPT ![r] = "gone"]
        /\ Set(t, [task[t] EXCEPT !.todo = @ \ {r}])
     \/ /\ Found(r) /\ r \notin old /\ Blockable(r)
        /\ res' = [res EXCEPT ![r] = "used"]
        /\ Set(t, [task[t] EXCEPT !.todo = @ \ {r}, !.got = @ \cup {r}])
     \/ /\ Found(r) /\ r \notin old /\ ~Blockable(r)
        /\ Finish(t)
        /\ UNCHANGED res
  /\ UNCHANGED <<owner, post>>

(* A loop of the form `while let Some(Ok(..))` also stops at the first     *)
(* item the storage cannot read.                                           *)
LoopDone(t) == task[t].todo = {} \/ Faults

(* set_resources and pust_state(Pending), then the write guard goes. *)
SwappedMutant(p, list) == [post[p] EXCEPT !.listed = list]
Swapped(p, list) == [post[p] EXCEPT !.listed = list, !.status = "pending"]

EndSwap(t) ==
  LET p == task[t].post IN
  /\ task[t].pc = "swap" /\ LoopDone(t)
  /\ post' = [post EXCEPT ![p] = Swapped(p, task[t].got)]
  /\ Finish(t)
  /\ UNCHANGED <<res, owner>>

(* pust_state refuses to repeat a verdict. *)
Pass(t, v) ==
  LET p == task[t].post IN
  /\ task[t].pc = "open" /\ task[t].kind = "review" /\ MayOpen(t) /\ CanWrite(p)
  /\ post' = IF post[p].status = v THEN post ELSE [post EXCEPT ![p].status = v]
  /\ Finish(t)
  /\ UNCHANGED <<res, owner>>

-------------------------------------------------------------------------------
(* remove *)

BeginClear(t) ==
  LET p == task[t].post IN
  /\ task[t].pc = "open" /\ task[t].kind = "remove" /\ MayOpen(t) /\ CanRead(p)
  /\ Set(t, [task[t] EXCEPT !.pc = "clear", !.todo = post[p].listed])
  /\ UNCHANGED <<res, owner, post>>

(* The listed resources that are in use (`.and(1, 1)`) are destroyed. *)
Destroy(r) == res' = IF res[r] = "used" THEN [res EXCEPT ![r] = "gone"] ELSE res

ClearOne(t, r) ==
  /\ task[t].pc = "clear" /\ r \in task[t].todo
  /\ Destroy(r)
  /\ Set(t, [task[t] EXCEPT !.todo = @ \ {r}])
  /\ UNCHANGED <<owner, post>>

(* `lazy.destroy()` gives the read guard up before it asks for the post. *)
EndClear(t) ==
  /\ task[t].pc = "clear" /\ LoopDone(t)
  /\ Set(t, [task[t] EXCEPT !.pc = "drop", !.todo = {}])
  /\ UNCHANGED <<res, owner, post>>

(* The post goes, unless another request removed it first. *)
DropPost(t) ==
  LET p == task[t].post IN
  /\ task[t].pc = "drop" /\ CanWrite(p)
  /\ post' = [post EXCEPT ![p].status = "gone"]
  /\ IF Bulk(t) THEN Set(t, [task[t] EXCEPT !.pc = "gather", !.post = NoPost])
                ELSE Finish(t)
  /\ UNCHANGED <<res, owner>>

-------------------------------------------------------------------------------
(* bulk_remove *)

BulkRemove(t, a, ps) ==
  /\ a \in Poster
  /\ Start(t, [Idle EXCEPT !.pc = "gather", !.kind = "bulk", !.who = a, !.posts = ps])
  /\ UNCHANGED <<res, owner, post>>

RemoveUnused(t, a) ==
  /\ a \in Poster \cap Maintainer
  /\ Start(t, [Idle EXCEPT !.pc = "gather", !.kind = "unused", !.who = a, !.posts = Post])
  /\ UNCHANGED <<res, owner, post>>

Selects(t, p) == IF task[t].kind = "unused" THEN post[p].ended
                                            ELSE MayRemove(task[t].who, p)

(* The stream comes to its next post, whichever that is, and bulk_remove    *)
(* waits for the guard of this one.                                        *)
NextPostMutant(t, p) ==
  /\ task[t].pc = "gather" /\ p \in task[t].posts
  /\ Set(t, [task[t] EXCEPT !.pc = "read", !.post = p])
  /\ UNCHANGED <<res, owner, post>>
NextPost(t, p) ==
  /\ task[t].pc = "gather" /\ p \in task[t].posts
  /\ Set(t, [task[t] EXCEPT !.pc = "read", !.post = p, !.posts = @ \ {p}])
  /\ UNCHANGED <<res, owner, post>>

(* Reads the post: passes over it, or notes its resources and goes on to   *)
(* destroy it without the guard it read under.                             *)
GatherOneMutant(t) ==
  LET p == task[t].post IN
  /\ task[t].pc = "read" /\ CanRead(p)
  /\ Set(t, IF ~(IsLive(p) /\ Selects(t, p)) THEN [task[t] EXCEPT !.pc = "gather", !.post = NoPost]
            ELSE IF CanWrite(p)
            THEN [task[t] EXCEPT !.pc = "drop", !.got = @ \cup post[p].listed]
            ELSE [task[t] EXCEPT !.pc = "gather", !.post = NoPost, !.got = @ \cup post[p].listed])
  /\ UNCHANGED <<res, owner, post>>
GatherOne(t) ==
  LET p == task[t].post IN
  /\ task[t].pc = "read" /\ CanRead(p)
  /\ Set(t, IF IsLive(p) /\ Selects(t, p)
            THEN [task[t] EXCEPT !.pc = "drop", !.got = @ \cup post[p].listed]
            ELSE [task[t] EXCEPT !.pc = "gather", !.post = NoPost])
  /\ UNCHANGED <<res, owner, post>>

EndGatherMutant(t) ==
  /\ task[t].pc = "gather" /\ (task[t].posts = {} \/ Faults)
  /\ Set(t, [task[t] EXCEPT !.pc = "sweep", !.posts = {}])
  /\ UNCHANGED <<res, owner, post>>
EndGather(t) ==
  /\ task[t].pc = "gather" /\ (task[t].posts = {} \/ Faults)
  /\ Set(t, [task[t] EXCEPT !.pc = "sweep", !.posts = {}, !.todo = task[t].got])
  /\ UNCHANGED <<res, owner, post>>

SweepOne(t, r) ==
  /\ task[t].pc = "sweep" /\ r \in task[t].todo
  /\ Destroy(r)
  /\ Set(t, [task[t] EXCEPT !.todo = @ \ {r}])
  /\ UNCHANGED <<owner, post>>

EndSweep(t) ==
  /\ task[t].pc = "sweep" /\ LoopDone(t)
  /\ Finish(t)
  /\ UNCHANGED <<res, owner, post>>

(* The client goes away, or a storage call fails and `?` returns: the      *)
(* handler stops between two steps and undoes nothing.                     *)
Cancel(t) ==
  /\ Faults /\ task[t].pc # "idle"
  /\ Finish(t)
  /\ UNCHANGED <<res, owner, post>>

-------------------------------------------------------------------------------
Init ==
  /\ res = [r \in Resource |-> "none"]
  /\ owner = [r \in Resource |-> NoAccount]
  /\ post = [p \in Post |-> Unborn]
  /\ task = [t \in Task |-> Idle]

Arrive(t) ==
  \E a \in Account :
    \/ \E want \in SUBSET Resource, dup \in BOOLEAN : NewPost(t, a, want, dup)
    \/ \E p \in Post, want \in SUBSET Resource : Modify(t, a, p, want)
    \/ \E p \in Post : Review(t, a, p) \/ Remove(t, a, p)
    \/ \E ps \in SUBSET Post : BulkRemove(t, a, ps)
    \/ RemoveUnused(t, a)

(* One step of the handler that serves t. *)
Step(t) ==
  \/ \E r \in Resource : ClaimOne(t, r) \/ SwapOne(t, r) \/ ClearOne(t, r) \/ SweepOne(t, r)
  \/ \E p \in Post : InsertPost(t, p) \/ NextPost(t, p)
  \/ AbandonPost(t)
  \/ Refused(t) \/ RefuseTime(t)
  \/ \E renew \in BOOLEAN : ModifyText(t, renew) \/ BeginSwap(t, renew)
  \/ EndSwap(t)
  \/ \E v \in Verdict : Pass(t, v)
  \/ BeginClear(t) \/ EndClear(t) \/ DropPost(t)
  \/ GatherOne(t) \/ EndGather(t) \/ EndSweep(t)

Environment ==
  \/ \E r \in Resource, a \in Account : Upload(r, a)
  \/ \E p \in Post : End(p)

Next ==
  \/ Environment
  \/ \E t \in Task : Arrive(t) \/ Step(t) \/ Cancel(t)

Spec == Init /\ [][Next]_vars

(* tokio polls every handler that can go on, and the lock of dmds hands a  *)
(* guard to whoever waits for it: a writer is never overtaken for ever.    *)
FairSpec == Spec /\ \A t \in Task : SF_vars(Step(t))

-------------------------------------------------------------------------------
(* Properties *)

(* Shape of the state; an idle task carries nothing over to the next request, *)
(* and a task that works on a post names one.                                 *)
TypeOK ==
  /\ res \in [Resource -> {"none", "free", "used", "gone"}]
  /\ owner \in [Resource -> Account \cup {NoAccount}]
  /\ post \in [Post -> PostRecord]
  /\ task \in [Task -> TaskRecord]
  /\ \A t \in Task :
       /\ task[t].pc = "idle" => task[t] = Idle
       /\ task[t].pc \in {"open", "swap", "clear", "read", "drop"} => task[t].post \in Post

(* Resources a request has blocked and no post lists yet. *)
Fresh(t) ==
  {r \in task[t].got :
     \/ task[t].pc = "claim"
     \/ task[t].pc = "swap" /\ r \notin post[task[t].post].listed}

(* A resource has one home: no two live posts list it, and none lists what  *)
(* a request in flight (new_post, modify) has blocked for itself.           *)
OneHome ==
  \A p \in Post : IsLive(p) =>
    /\ \A q \in Post : IsLive(q) /\ q # p => post[p].listed \cap post[q].listed = {}
    /\ \A t \in Task : post[p].listed \cap Fresh(t) = {}

(* No two requests in flight hold the same blocked resource. *)
ClaimsDisjoint ==
  \A t, u \in Task : t # u => Fresh(t) \cap Fresh(u) = {}

(* A resource listed by a live post is destroyed only by the request that    *)
(* holds that post: bulk_remove, which works from a list it read earlier and *)
(* holds nothing, never destroys what a post that stays alive shows.         *)
DestroyedByHolder ==
  [][\A r \in Resource, p \in Post :
       res[r] = "used" /\ res'[r] = "gone" /\ IsLive(p) /\ r \in post[p].listed
         => \E t \in Writers(p) \cup Readers(p) : task'[t] # task[t]]_vars

(* While `remove` destroys what it read from a post, or `modify` swaps it,  *)
(* the list and the verdict of the post change only by that very request.  *)
HeldPostFrozen ==
  [][\A p \in Post : \A t \in Writers(p) \cup Readers(p) :
       task'[t] = task[t] =>
         post'[p].listed = post[p].listed /\ post'[p].status = post[p].status]_vars

(* A post appears only with resources that are its creator's, blocked, and  *)
(* still there, whatever ran between their claim and the insertion.         *)
BornSound ==
  [][\A p \in Post : post[p].status = "none" /\ post'[p].status # "none" =>
       /\ post'[p].listed # {}
       /\ \A r \in post'[p].listed : res[r] = "used" /\ owner[r] = post'[p].creator]_vars

(* What is on screen is what was reviewed: the list of an approved post     *)
(* never changes without sending it back to Pending.                        *)
ChangeIsReviewed ==
  [][\A p \in Post :
       post'[p].status \in Verdict => post'[p].listed = post[p].listed]_vars

(* The handlers implement the life of a resource: whatever runs at once, it   *)
(* is claimed once and by one request, listed by one post at most, never      *)
(* claimed, listed or destroyed out of turn, and never used again once given  *)
(* up.                                                                       *)
ListedBy(r)  == {p \in Post : IsLive(p) /\ r \in post[p].listed}
ClaimedBy(r) == {t \in Task : r \in Fresh(t)}

Life == INSTANCE ResourceLife
  WITH Request <- Task, state <- res,
       claims <- [r \in Resource |-> ClaimedBy(r)], shown <- [r \in Resource |-> ListedBy(r)]

ImplementsLife == Life!Spec

(* Every request is answered: none waits for ever for the guard of a post. *)
EveryRequestEnds == \A t \in Task : task[t].pc # "idle" ~> task[t].pc = "idle"

(* The guards that the next step of a handler asks for are there.            *)
CanGo(t) ==
  \/ task[t].pc \in {"claim", "swap", "clear", "gather", "sweep"}
  \/ task[t].pc = "open" /\ Admitted(t)
  \/ task[t].pc = "read" /\ CanRead(task[t].post)
  \/ task[t].pc = "drop" /\ CanWrite(task[t].post)

(* Requests never wait for each other in a circle, and none for a guard that *)
(* it holds itself: while one is being served, one has what it needs to go   *)
(* on (`remove` gives its read guard up before it asks for the write guard). *)
NeverStuck == (\E t \in Task : task[t].pc # "idle") => \E t \in Task : CanGo(t)

(* The way of a handler: to its post, through its resources, over the posts  *)
(* of a bulk_remove one after the other, and through what they listed.       *)
Phase == [open |-> 4, claim |-> 3, swap |-> 3, clear |-> 3, gather |-> 2, read |-> 2, drop |-> 2,
          sweep |-> 1, idle |-> 0]

Fewer(S, T) == S \subseteq T /\ S # T

(* b is nearer to the answer than a. *)
Nearer(b, a) ==
  \/ Phase[b.pc] < Phase[a.pc]
  \/ Phase[b.pc] = Phase[a.pc] /\ Fewer(b.posts, a.posts)
  \/ b.posts = a.posts /\ <<a.pc, b.pc>> \in {<<"read", "drop">>, <<"read", "gather">>,
                                               <<"drop", "gather">>}
  \/ a.pc = b.pc /\ b.posts = a.posts /\ Fewer(b.todo, a.todo)

(* Every step of a handler brings its answer nearer, whatever other requests *)
(* do to its post and its resources: no loop visits an id twice or starts    *)
(* over, and no handler goes back to a guard it has had.                     *)
AnswerGetsNearer ==
  [][\A t \in Task : task[t].pc # "idle" /\ task'[t] # task[t]
       => Nearer(task'[t], task[t])]_vars

(* src/resource.rs:90 "Whether this resource is currently used by some      *)
(* data": blocked means listed by a live post, or held by a request that is *)
(* still at work.  Requests that fail after a claim leave it blocked.       *)
Housed(r) ==
  \/ \E p \in Post : IsLive(p) /\ r \in post[p].listed
  \/ \E t \in Task : r \in Fresh(t) \cup task[t].got

NoOrphanClaim == \A r \in Resource : res[r] = "used" => Housed(r)

(* src/post.rs:34 "List of resource ids this post used": outside of a change *)
(* in progress a live post lists resources that exist.                      *)
NoDangling ==
  \A p \in Post :
    IsLive(p) /\ (\A t \in Task : task[t].post = p => task[t].pc = "open")
      => \A r \in post[p].listed : res[r] = "used"

-------------------------------------------------------------------------------
(* The inductive invariant behind OneHome, ClaimsDisjoint, DestroyedByHolder *)
(* and BornSound.  A resource is settled once some post has listed it: then  *)
(* it is blocked or destroyed, and no request in flight can have blocked it. *)

Settled(r) == res[r] \in {"used", "gone"} /\ \A t \in Task : r \notin Fresh(t)

ListedSettled == \A p \in Post : \A r \in post[p].listed : Settled(r)

ListsDisjoint ==
  \A p, q \in Post : p # q => post[p].listed \cap post[q].listed = {}

FreshBlocked == \A t \in Task : \A r \in Fresh(t) : res[r] = "used"

ClaimOwned ==
  \A t \in Task : task[t].pc = "claim" =>
    /\ task[t].want # {}
    /\ \A r \in task[t].got : owner[r] = task[t].who

(* At most one writer on a post, none beside a reader, and the post stays;  *)
(* a post about to be destroyed was there once.                             *)
Guards ==
  \A t \in Task :
    /\ task[t].pc \in {"swap", "clear"} =>
         /\ IsLive(task[t].post)
         /\ \A u \in Writers(task[t].post) : u = t
    /\ task[t].pc = "drop" => post[task[t].post].status # "none"

ClearsListed ==
  \A t \in Task :
    /\ task[t].pc = "clear" => task[t].todo \subseteq post[task[t].post].listed
    /\ task[t].pc \in {"open", "clear"} => task[t].got = {}

(* What bulk_remove has collected is settled and, except for the post it is  *)
(* about to destroy, is listed by no post alive.                             *)
Collected(t) ==
  IF task[t].pc \in {"gather", "read", "drop", "sweep"} THEN task[t].got \cup task[t].todo ELSE {}

CollectedDead ==
  \A t \in Task : \A r \in Collected(t) :
    /\ Settled(r)
    /\ \A p \in Post : IsLive(p) /\ r \in post[p].listed
          => task[t].pc = "drop" /\ task[t].post = p

(* The loops leave nothing out: what `modify` drops from a list and what      *)
(* bulk_remove has collected is still to be visited, or not blocked any more. *)
Covered(t) ==
  /\ task[t].pc = "swap" =>
       \A r \in post[task[t].post].listed : res[r] = "used" => r \in task[t].todo \cup task[t].got
  /\ task[t].pc = "sweep" => \A r \in task[t].got : res[r] = "used" => r \in task[t].todo
  /\ task[t].pc \in {"gather", "read"} => Bulk(t)
  /\ task[t].pc = "drop" /\ ~Bulk(t) => task[t].got = {}

LoopsCover == \A t \in Task : Covered(t)

CoreInv ==
  /\ TypeOK /\ ListedSettled /\ ListsDisjoint /\ FreshBlocked /\ ClaimsDisjoint
  /\ ClaimOwned /\ Guards /\ ClearsListed /\ CollectedDead

SafeInv == CoreInv /\ LoopsCover

-------------------------------------------------------------------------------
(* A blocked resource is left without a home in no other way than these: by  *)
(* the very request that has blocked it and ends without writing a list; by  *)
(* the removal of a post whose list has changed since it was cleared, or was *)
(* not cleared to the end; or because a loop over resources was cut short.   *)
(* No request loses what another one holds, and none that runs to its end    *)
(* loses what it has itself.                                                 *)
OrphanedByHolder ==
  [][\A r \in Resource :
       res'[r] = "used" /\ Housed(r) /\ ~Housed(r)' =>
         \E t \in Task :
           /\ task'[t] # task[t]
           /\ \/ r \in Fresh(t) /\ UNCHANGED post
              \/ task[t].pc = "drop" /\ r \in post[task[t].post].listed \ task[t].got
              \/ Faults /\ task[t].pc = "swap" /\ r \in task[t].todo
              \/ Faults /\ r \in Collected(t) /\ UNCHANGED post]_vars
===============================================================================
