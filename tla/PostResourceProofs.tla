-------------------------- MODULE PostResourceProofs --------------------------
(***************************************************************************)
(* Proofs about PostResource, for any sets of accounts, posts, resources    *)
(* and requests, with and without faults.                                   *)
(***************************************************************************)
EXTENDS PostResource, FiniteSetTheorems, WellFoundedInduction, TLAPS

-------------------------------------------------------------------------------
(* Types.  What TypeOK says of one task, and how a step of one task keeps it. *)

TaskOK(rec) ==
  /\ rec \in TaskRecord
  /\ rec.pc = "idle" => rec = Idle
  /\ rec.pc \in {"open", "swap", "clear", "read", "drop"} => rec.post \in Post

(* The idle record is well formed. *)
LEMMA IdleOK == TaskOK(Idle)
BY DEF TaskOK, Idle, TaskRecord, Pc, Kind

(* Setting one task to a well-formed record leaves all tasks well formed. *)
LEMMA SetOK ==
  ASSUME TypeOK, NEW t \in Task, NEW rec, TaskOK(rec), Set(t, rec)
  PROVE  /\ task' \in [Task -> TaskRecord]
         /\ task'[t] = rec
         /\ \A u \in Task : u # t => task'[u] = task[u]
         /\ \A u \in Task : TaskOK(task'[u])
<1>1. task \in [Task -> TaskRecord] /\ rec \in TaskRecord
  BY DEF TypeOK, TaskOK
<1>2. \A u \in Task : TaskOK(task[u])
  BY DEF TypeOK, TaskOK
<1>3. task' = [task EXCEPT ![t] = rec]
  BY DEF Set
<1> QED BY <1>1, <1>2, <1>3

(* What every request starts with: nothing claimed, nothing collected. *)
Arrival(rec) ==
  /\ rec.pc \in {"open", "claim", "gather"} /\ rec.got = {}
  /\ rec.pc = "gather" => rec.todo = {} /\ rec.kind \in {"bulk", "unused"}
  /\ rec.pc = "claim" => rec.want # {}

(* A request that arrives is well formed. *)
LEMMA ArrivalOK ==
  ASSUME TypeOK, NEW t \in Task, Arrive(t)
  PROVE  /\ TaskOK(task'[t]) /\ Arrival(task'[t]) /\ Set(t, task'[t])
         /\ UNCHANGED <<res, owner, post>>
<1>1. PICK a \in Account :
        \/ \E want \in SUBSET Resource, dup \in BOOLEAN : NewPost(t, a, want, dup)
        \/ \E p \in Post, want \in SUBSET Resource : Modify(t, a, p, want)
        \/ \E p \in Post : Review(t, a, p)
        \/ \E p \in Post : Remove(t, a, p)
        \/ \E ps \in SUBSET Post : BulkRemove(t, a, ps)
        \/ RemoveUnused(t, a)
  BY DEF Arrive
<1>2. CASE \E want \in SUBSET Resource, dup \in BOOLEAN : NewPost(t, a, want, dup)
  <2>1. PICK want \in SUBSET Resource, dup \in BOOLEAN : NewPost(t, a, want, dup)
    BY <1>2
  <2> DEFINE rec == [Idle EXCEPT !.pc = "claim", !.kind = "new", !.who = a,
                            !.want = want, !.dup = dup, !.todo = want]
  <2>2. TaskOK(rec) /\ Arrival(rec)
    BY <2>1 DEF TaskOK, Arrival, TaskRecord, Pc, Kind, Idle, NewPost
  <2>3. Set(t, rec) /\ UNCHANGED <<res, owner, post>>
    BY <2>1 DEF NewPost, Start
  <2> HIDE DEF rec
  <2> QED BY <2>2, <2>3, SetOK
<1>3. CASE \E p \in Post, want \in SUBSET Resource : Modify(t, a, p, want)
  <2>1. PICK p \in Post, want \in SUBSET Resource : Modify(t, a, p, want)
    BY <1>3
  <2> DEFINE rec == [Idle EXCEPT !.pc = "open", !.kind = "modify", !.who = a,
                            !.post = p, !.want = want]
  <2>2. TaskOK(rec) /\ Arrival(rec)
    BY <2>1 DEF TaskOK, Arrival, TaskRecord, Pc, Kind, Idle, Modify
  <2>3. Set(t, rec) /\ UNCHANGED <<res, owner, post>>
    BY <2>1 DEF Modify, Start
  <2> HIDE DEF rec
  <2> QED BY <2>2, <2>3, SetOK
<1>4. CASE \E p \in Post : Review(t, a, p)
  <2>1. PICK p \in Post : Review(t, a, p)
    BY <1>4
  <2> DEFINE rec == [Idle EXCEPT !.pc = "open", !.kind = "review", !.who = a, !.post = p]
  <2>2. TaskOK(rec) /\ Arrival(rec)
    BY <2>1 DEF TaskOK, Arrival, TaskRecord, Pc, Kind, Idle, Review
  <2>3. Set(t, rec) /\ UNCHANGED <<res, owner, post>>
    BY <2>1 DEF Review, Start
  <2> HIDE DEF rec
  <2> QED BY <2>2, <2>3, SetOK
<1>5. CASE \E p \in Post : Remove(t, a, p)
  <2>1. PICK p \in Post : Remove(t, a, p)
    BY <1>5
  <2> DEFINE rec == [Idle EXCEPT !.pc = "open", !.kind = "remove", !.who = a, !.post = p]
  <2>2. TaskOK(rec) /\ Arrival(rec)
    BY <2>1 DEF TaskOK, Arrival, TaskRecord, Pc, Kind, Idle, Remove
  <2>3. Set(t, rec) /\ UNCHANGED <<res, owner, post>>
    BY <2>1 DEF Remove, Start
  <2> HIDE DEF rec
  <2> QED BY <2>2, <2>3, SetOK
<1>6. CASE \E ps \in SUBSET Post : BulkRemove(t, a, ps)
  <2>1. PICK ps \in SUBSET Post : BulkRemove(t, a, ps)
    BY <1>6
  <2> DEFINE rec == [Idle EXCEPT !.pc = "gather", !.kind = "bulk", !.who = a, !.posts = ps]
  <2>2. TaskOK(rec) /\ Arrival(rec)
    BY <2>1 DEF TaskOK, Arrival, TaskRecord, Pc, Kind, Idle, BulkRemove
  <2>3. Set(t, rec) /\ UNCHANGED <<res, owner, post>>
    BY <2>1 DEF BulkRemove, Start
  <2> HIDE DEF rec
  <2> QED BY <2>2, <2>3, SetOK
<1>7. CASE RemoveUnused(t, a)
  <2>1. RemoveUnused(t, a)
    BY <1>7
  <2> DEFINE rec == [Idle EXCEPT !.pc = "gather", !.kind = "unused", !.who = a, !.posts = Post]
  <2>2. TaskOK(rec) /\ Arrival(rec)
    BY <2>1 DEF TaskOK, Arrival, TaskRecord, Pc, Kind, Idle, RemoveUnused
  <2>3. Set(t, rec) /\ UNCHANGED <<res, owner, post>>
    BY <2>1 DEF RemoveUnused, Start
  <2> HIDE DEF rec
  <2> QED BY <2>2, <2>3, SetOK
<1> QED BY <1>1, <1>2, <1>3, <1>4, <1>5, <1>6, <1>7

(* A handler at work may drop and add resources and move its pc, except into *)
(* a place that works on a post when it names none.                          *)
LEMMA TodoOK ==
  ASSUME TypeOK, NEW t \in Task, task[t].pc # "idle", NEW X \in SUBSET Resource
  PROVE  TaskOK([task[t] EXCEPT !.todo = X])
<1>1. task[t] \in TaskRecord /\ TaskOK(task[t])
  BY DEF TypeOK, TaskOK
<1> QED BY <1>1 DEF TaskOK, TaskRecord

(* Claiming a listed resource, as the loops of new_post and modify do, too. *)
LEMMA GotOK ==
  ASSUME TypeOK, NEW t \in Task, task[t].pc # "idle",
         NEW X \in SUBSET Resource, NEW Y \in SUBSET Resource
  PROVE  TaskOK([task[t] EXCEPT !.todo = X, !.got = Y])
<1>1. task[t] \in TaskRecord /\ TaskOK(task[t])
  BY DEF TypeOK, TaskOK
<1> QED BY <1>1 DEF TaskOK, TaskRecord

(* Every step of a handler leaves its task well formed. *)
LEMMA StepTask ==
  ASSUME TypeOK, NEW t \in Task, Step(t)
  PROVE  TaskOK(task'[t]) /\ Set(t, task'[t])
<1>1. CASE AbandonPost(t)
  BY <1>1, IdleOK, SetOK DEF AbandonPost, Finish
<1>2. CASE Refused(t)
  BY <1>2, IdleOK, SetOK DEF Refused, Finish
<1>3. CASE RefuseTime(t)
  BY <1>3, IdleOK, SetOK DEF RefuseTime, Finish
<1>4. CASE EndSwap(t)
  BY <1>4, IdleOK, SetOK DEF EndSwap, Finish
<1>5. CASE EndSweep(t)
  BY <1>5, IdleOK, SetOK DEF EndSweep, Finish
<1>6. CASE \E p \in Post : InsertPost(t, p)
  BY <1>6, IdleOK, SetOK DEF InsertPost, Finish
<1>7. CASE \E v \in Verdict : Pass(t, v)
  BY <1>7, IdleOK, SetOK DEF Pass, Finish
<1>8. CASE \E renew \in BOOLEAN : ModifyText(t, renew)
  BY <1>8, IdleOK, SetOK DEF ModifyText, Finish
<1>9. CASE \E r \in Resource : ClaimOne(t, r)
  <2>1. PICK r \in Resource : ClaimOne(t, r)
    BY <1>9
  <2>2. CASE Set(t, [task[t] EXCEPT !.todo = @ \ {r}])
    <3>1. TaskOK([task[t] EXCEPT !.todo = @ \ {r}])
      BY <2>1, TodoOK DEF TypeOK, TaskRecord, ClaimOne
    <3> QED BY <2>2, <3>1, SetOK
  <2>3. CASE Set(t, [task[t] EXCEPT !.todo = @ \ {r}, !.got = @ \cup {r}])
    <3>1. TaskOK([task[t] EXCEPT !.todo = @ \ {r}, !.got = @ \cup {r}])
      BY <2>1, GotOK DEF TypeOK, TaskRecord, ClaimOne
    <3> QED BY <2>3, <3>1, SetOK
  <2>4. CASE Set(t, Idle)
    BY <2>4, IdleOK, SetOK
  <2> QED BY <2>1, <2>2, <2>3, <2>4 DEF ClaimOne, Finish
<1>10. CASE \E r \in Resource : SwapOne(t, r)
  <2>1. PICK r \in Resource : SwapOne(t, r)
    BY <1>10
  <2>2. CASE Set(t, [task[t] EXCEPT !.todo = @ \ {r}])
    <3>1. TaskOK([task[t] EXCEPT !.todo = @ \ {r}])
      BY <2>1, TodoOK DEF TypeOK, TaskRecord, SwapOne
    <3> QED BY <2>2, <3>1, SetOK
  <2>3. CASE Set(t, [task[t] EXCEPT !.todo = @ \ {r}, !.got = @ \cup {r}])
    <3>1. TaskOK([task[t] EXCEPT !.todo = @ \ {r}, !.got = @ \cup {r}])
      BY <2>1, GotOK DEF TypeOK, TaskRecord, SwapOne
    <3> QED BY <2>3, <3>1, SetOK
  <2>4. CASE Set(t, Idle)
    BY <2>4, IdleOK, SetOK
  <2> QED BY <2>1, <2>2, <2>3, <2>4 DEF SwapOne, Finish
<1>11. CASE \E r \in Resource : ClearOne(t, r)
  <2>1. PICK r \in Resource : ClearOne(t, r)
    BY <1>11
  <2>2. CASE Set(t, [task[t] EXCEPT !.todo = @ \ {r}])
    <3>1. TaskOK([task[t] EXCEPT !.todo = @ \ {r}])
      BY <2>1, TodoOK DEF TypeOK, TaskRecord, ClearOne
    <3> QED BY <2>2, <3>1, SetOK
  <2> QED BY <2>1, <2>2 DEF ClearOne, Finish
<1>12. CASE \E r \in Resource : SweepOne(t, r)
  <2>1. PICK r \in Resource : SweepOne(t, r)
    BY <1>12
  <2>2. CASE Set(t, [task[t] EXCEPT !.todo = @ \ {r}])
    <3>1. TaskOK([task[t] EXCEPT !.todo = @ \ {r}])
      BY <2>1, TodoOK DEF TypeOK, TaskRecord, SweepOne
    <3> QED BY <2>2, <3>1, SetOK
  <2> QED BY <2>1, <2>2 DEF SweepOne, Finish
<1>13. CASE \E renew \in BOOLEAN : BeginSwap(t, renew)
  <2>1. PICK renew \in BOOLEAN : BeginSwap(t, renew)
    BY <1>13
  <2> DEFINE old == post[task[t].post].listed
             todo == (old \ task[t].want) \cup (task[t].want \ old)
             got == old \cap task[t].want
  <2>2. task[t] \in TaskRecord /\ task[t].post \in Post /\ Set(t, [task[t] EXCEPT
          !.pc = "swap", !.todo = todo, !.got = got])
    BY <2>1 DEF BeginSwap, TypeOK
  <2>3. old \in SUBSET Resource /\ task[t].want \in SUBSET Resource
    BY <2>2 DEF TypeOK, PostRecord, TaskRecord
  <2>4. todo \in SUBSET Resource /\ got \in SUBSET Resource
    BY <2>3
  <2> HIDE DEF todo, got
  <2>5. TaskOK([task[t] EXCEPT !.pc = "swap", !.todo = todo, !.got = got])
    BY <2>2, <2>4 DEF TaskOK, TaskRecord, Pc
  <2> QED BY <2>2, <2>5, SetOK
<1>14. CASE BeginClear(t)
  <2> DEFINE todo == post[task[t].post].listed
  <2>1. /\ task[t] \in TaskRecord /\ task[t].post \in Post
        /\ Set(t, [task[t] EXCEPT !.pc = "clear", !.todo = todo])
    BY <1>14 DEF BeginClear, TypeOK
  <2>2. todo \in SUBSET Resource
    BY <2>1 DEF TypeOK, PostRecord
  <2> HIDE DEF todo
  <2>3. TaskOK([task[t] EXCEPT !.pc = "clear", !.todo = todo])
    BY <2>1, <2>2 DEF TaskOK, TaskRecord, Pc
  <2> QED BY <2>1, <2>3, SetOK
<1>15. CASE EndClear(t)
  <2>1. /\ task[t] \in TaskRecord /\ task[t].post \in Post
        /\ Set(t, [task[t] EXCEPT !.pc = "drop", !.todo = {}])
    BY <1>15 DEF EndClear, TypeOK
  <2>2. TaskOK([task[t] EXCEPT !.pc = "drop", !.todo = {}])
    BY <2>1 DEF TaskOK, TaskRecord, Pc
  <2> QED BY <2>1, <2>2, SetOK
<1>16. CASE DropPost(t)
  <2>2. CASE Set(t, Idle)
    BY <2>2, IdleOK, SetOK
  <2>3. CASE Set(t, [task[t] EXCEPT !.pc = "gather", !.post = NoPost])
    <3>0. task[t] \in TaskRecord
      BY DEF TypeOK
    <3>1. TaskOK([task[t] EXCEPT !.pc = "gather", !.post = NoPost])
      BY <3>0 DEF TaskOK, TaskRecord, Pc
    <3> QED BY <2>3, <3>1, SetOK
  <2> QED BY <1>16, <2>2, <2>3 DEF DropPost, Finish
<1>17. CASE GatherOne(t)
  <2> DEFINE listed == post[task[t].post].listed
  <2>1. task[t] \in TaskRecord /\ task[t].pc = "read" /\ task[t].post \in Post
    BY <1>17 DEF GatherOne, TypeOK
  <2>2. listed \in SUBSET Resource
    BY <2>1 DEF TypeOK, PostRecord
  <2>3. CASE Set(t, [task[t] EXCEPT !.pc = "drop", !.got = @ \cup listed])
    <3> HIDE DEF listed
    <3>1. TaskOK([task[t] EXCEPT !.pc = "drop", !.got = @ \cup listed])
      BY <2>1, <2>2 DEF TaskOK, TaskRecord, Pc
    <3> QED BY <2>3, <3>1, SetOK
  <2>4. CASE Set(t, [task[t] EXCEPT !.pc = "gather", !.post = NoPost])
    <3>1. TaskOK([task[t] EXCEPT !.pc = "gather", !.post = NoPost])
      BY <2>1 DEF TaskOK, TaskRecord, Pc
    <3> QED BY <2>4, <3>1, SetOK
  <2> QED BY <1>17, <2>3, <2>4 DEF GatherOne
<1>18. CASE EndGather(t)
  <2>1. task[t] \in TaskRecord
    BY DEF TypeOK
  <2>2. CASE Set(t, [task[t] EXCEPT !.pc = "sweep", !.posts = {}, !.todo = task[t].got])
    <3>1. TaskOK([task[t] EXCEPT !.pc = "sweep", !.posts = {}, !.todo = task[t].got])
      BY <2>1 DEF TaskOK, TaskRecord, Pc
    <3> QED BY <2>2, <3>1, SetOK
  <2> QED BY <1>18, <2>2 DEF EndGather, Finish
<1>19. CASE \E p \in Post : NextPost(t, p)
  <2>1. PICK p \in Post : NextPost(t, p)
    BY <1>19
  <2>2. task[t] \in TaskRecord
    BY DEF TypeOK
  <2>3. TaskOK([task[t] EXCEPT !.pc = "read", !.post = p, !.posts = @ \ {p}])
    BY <2>2 DEF TaskOK, TaskRecord, Pc
  <2> QED BY <2>1, <2>3, SetOK DEF NextPost
<1> QED
  BY <1>1, <1>2, <1>3, <1>4, <1>5, <1>6, <1>7, <1>8, <1>9, <1>10, <1>11, <1>12, <1>13, <1>14, <1>15, <1>16, <1>17, <1>18,
     <1>19 DEF Step

(* Changing one field of a post record leaves a post record. *)
LEMMA PostEdit ==
  ASSUME NEW rec \in PostRecord
  PROVE  /\ \A b \in BOOLEAN : [rec EXCEPT !.ended = b] \in PostRecord
         /\ \A v \in Live \cup {"gone"} : [rec EXCEPT !.status = v] \in PostRecord
         /\ \A X \in SUBSET Resource :
              [rec EXCEPT !.listed = X, !.status = "pending"] \in PostRecord
<1>1. ASSUME NEW b \in BOOLEAN PROVE [rec EXCEPT !.ended = b] \in PostRecord
  BY Zenon DEF PostRecord
<1>2. ASSUME NEW v \in Live \cup {"gone"} PROVE [rec EXCEPT !.status = v] \in PostRecord
  BY DEF PostRecord
<1>3. ASSUME NEW X \in SUBSET Resource
      PROVE  [rec EXCEPT !.listed = X, !.status = "pending"] \in PostRecord
  BY DEF PostRecord, Live
<1> QED BY <1>1, <1>2, <1>3

(* The stored resources and posts keep their types under every step. *)
LEMMA StepStore ==
  ASSUME TypeOK, NEW t \in Task, Step(t)
  PROVE  /\ res' \in [Resource -> {"none", "free", "used", "gone"}]
         /\ UNCHANGED owner
         /\ post' \in [Post -> PostRecord]
<1>1. CASE \E r \in Resource : ClaimOne(t, r) \/ SwapOne(t, r) \/ ClearOne(t, r) \/ SweepOne(t, r)
  BY <1>1 DEF TypeOK, ClaimOne, SwapOne, ClearOne, SweepOne, Destroy
<1>2. CASE \E p \in Post : InsertPost(t, p)
  BY <1>2 DEF TypeOK, InsertPost, PostRecord, TaskRecord, Live, Verdict
<1>3. CASE \E renew \in BOOLEAN : ModifyText(t, renew) \/ BeginSwap(t, renew)
  <2>1. PICK renew \in BOOLEAN : ModifyText(t, renew) \/ BeginSwap(t, renew)
    BY <1>3
  <2>2. task[t].post \in Post
    BY <2>1 DEF TypeOK, ModifyText, BeginSwap
  <2>3. SetTime(task[t].post, renew) \in [Post -> PostRecord]
    <3>1. /\ post[task[t].post] \in PostRecord /\ post \in [Post -> PostRecord]
          /\ post[task[t].post].ended \in BOOLEAN
      BY <2>2 DEF TypeOK, PostRecord
    <3>2. (IF renew THEN FALSE ELSE post[task[t].post].ended) \in BOOLEAN
      BY <3>1, Zenon
    <3>3. [post[task[t].post] EXCEPT !.ended = IF renew THEN FALSE ELSE post[task[t].post].ended]
            \in PostRecord
      BY <3>1, <3>2, PostEdit
    <3> QED BY <3>1, <3>3, <2>2, Zenon DEF SetTime
  <2>4. [SetTime(task[t].post, renew) EXCEPT ![task[t].post].status = "pending"] \in [Post -> PostRecord]
    BY <2>2, <2>3 DEF PostRecord, Live
  <2> QED BY <2>1, <2>3, <2>4 DEF TypeOK, ModifyText, BeginSwap
<1>4. CASE EndSwap(t) \/ DropPost(t) \/ \E v \in Verdict : Pass(t, v)
  <2>1. task[t].post \in Post /\ task[t].got \subseteq Resource
    <3>1. task[t] \in TaskRecord /\ task[t].pc \in {"open", "swap", "drop"}
      BY <1>4 DEF TypeOK, EndSwap, DropPost, Pass
    <3> QED BY <3>1 DEF TypeOK, TaskRecord
  <2>2. [post EXCEPT ![task[t].post] = Swapped(task[t].post, task[t].got)] \in [Post -> PostRecord]
    <3>1. post \in [Post -> PostRecord] /\ post[task[t].post] \in PostRecord
      BY <2>1 DEF TypeOK
    <3>2. Swapped(task[t].post, task[t].got) \in PostRecord
      BY <2>1, <3>1, PostEdit DEF Swapped
    <3> QED BY <2>1, <3>1, <3>2
  <2>3. \A v \in Verdict \cup {"gone"} :
          [post EXCEPT ![task[t].post].status = v] \in [Post -> PostRecord]
    <3>1. post \in [Post -> PostRecord]
      BY DEF TypeOK
    <3> QED BY <2>1, <3>1 DEF PostRecord, Live
  <2>4. CASE EndSwap(t)
    BY <2>2, <2>4 DEF TypeOK, EndSwap
  <2>5. CASE DropPost(t)
    BY <2>3, <2>5 DEF TypeOK, DropPost
  <2>6. CASE \E v \in Verdict : Pass(t, v)
    BY <2>3, <2>6 DEF TypeOK, Pass
  <2> QED BY <1>4, <2>4, <2>5, <2>6
<1>5. CASE \/ AbandonPost(t) \/ Refused(t) \/ RefuseTime(t) \/ BeginClear(t) \/ EndClear(t)
           \/ EndGather(t) \/ EndSweep(t) \/ GatherOne(t) \/ \E p \in Post : NextPost(t, p)
  BY <1>5 DEF TypeOK, AbandonPost, Refused, RefuseTime, BeginClear, EndClear,
              EndGather, EndSweep, GatherOne, NextPost
<1> QED BY <1>1, <1>2, <1>3, <1>4, <1>5 DEF Step

(* The initial state is well formed. *)
LEMMA TypeInit == Init => TypeOK
BY DEF Init, TypeOK, PostRecord, Unborn, TaskRecord, Idle, Pc, Kind, NullAssumption

(* Every step leaves a well-formed state. *)
LEMMA TypeStep == TypeOK /\ [Next]_vars => TypeOK'
<1> SUFFICES ASSUME TypeOK, [Next]_vars PROVE TypeOK'
  OBVIOUS
<1>1. CASE \E t \in Task : Step(t)
  BY <1>1, StepTask, StepStore, SetOK DEF TypeOK, TaskOK
<1>2. CASE \E t \in Task : Arrive(t)
  BY <1>2, ArrivalOK, SetOK DEF TypeOK, TaskOK
<1>3. CASE \E t \in Task : Cancel(t)
  BY <1>3, IdleOK, SetOK DEF TypeOK, TaskOK, Cancel, Finish
<1>4. CASE Environment
  <2>1. CASE \E r \in Resource, a \in Account : Upload(r, a)
    BY <2>1 DEF Upload, TypeOK
  <2>2. CASE \E p \in Post : End(p)
    <3>1. PICK p \in Post : End(p)
      BY <2>2
    <3>2. post[p] \in PostRecord /\ [post[p] EXCEPT !.ended = TRUE] \in PostRecord
      BY PostEdit DEF TypeOK
    <3> QED BY <3>1, <3>2 DEF End, TypeOK
  <2> QED BY <1>4, <2>1, <2>2 DEF Environment
<1>5. CASE UNCHANGED vars
  BY <1>5 DEF vars, TypeOK
<1> QED BY <1>1, <1>2, <1>3, <1>4, <1>5 DEF Next

(* Every reachable state is well formed. *)
THEOREM TypeCorrect == Spec => []TypeOK
BY TypeInit, TypeStep, PTL DEF Spec

-------------------------------------------------------------------------------
(* The safety invariant.  Most steps move one task and leave every list as it *)
(* is; Move collects what such a step has to respect.                         *)

(* How a step may treat resources: claim a free one, destroy a settled one. *)
Kept(r)      == res'[r] = res[r]
Claimed(r)   == res[r] = "free" /\ res'[r] = "used"
Destroyed(r) == Settled(r) /\ res'[r] = "gone"

(* How a step may treat posts: no list changes, none is born, and none goes *)
(* while a guard is held.                                                    *)
PostsKept ==
  \A p \in Post :
    /\ post'[p].listed = post[p].listed
    /\ IsLive(p)' => IsLive(p)
    /\ post[p].status # "none" => post'[p].status # "none"
    /\ IsLive(p) /\ ~IsLive(p)' => CanWrite(p)

(* A guard is kept, or taken when the lock of the post allows it. *)
GuardKept(t) ==
  \/ task'[t].pc \notin {"swap", "clear"}
  \/ /\ task'[t].pc = task[t].pc /\ task'[t].post = task[t].post
  \/ /\ IsLive(task'[t].post)
     /\ IF task'[t].pc = "swap" THEN CanWrite(task'[t].post) ELSE CanRead(task'[t].post)

LEMMA Move ==
  ASSUME CoreInv, TypeOK', NEW t \in Task,
         \A u \in Task : u # t => task'[u] = task[u],
         UNCHANGED owner, PostsKept, GuardKept(t),
         \A p \in Post : IsLive(p) /\ ~IsLive(p)' => task'[t].pc \notin {"swap", "clear"},
         \A r \in Resource : Kept(r) \/ Claimed(r) \/ Destroyed(r),
         \A r \in Fresh(t)' : (r \in Fresh(t) /\ Kept(r)) \/ Claimed(r),
         task'[t].pc = "drop" => post[task'[t].post].status # "none",
         task'[t].pc = "claim" =>
           task'[t].want # {} /\ \A r \in task'[t].got : owner[r] = task'[t].who,
         task'[t].pc = "clear" => task'[t].todo \subseteq post[task'[t].post].listed,
         task'[t].pc \in {"open", "clear"} => task'[t].got = {},
         \A r \in Collected(t)' :
           /\ Settled(r)
           /\ \A p \in Post : IsLive(p)' /\ r \in post[p].listed
                 => task'[t].pc = "drop" /\ task'[t].post = p
  PROVE  CoreInv'
<1> USE DEF CoreInv
<1>0. \A u \in Task : task[u].got \subseteq Resource /\ task[u].todo \subseteq Resource
                      /\ (task[u].pc \in {"swap", "clear", "drop"} => task[u].post \in Post)
                      /\ (task'[u].pc \in {"swap", "clear", "drop"} => task'[u].post \in Post)
                      /\ task'[u].got \subseteq Resource /\ task'[u].todo \subseteq Resource
  BY DEF TypeOK, TaskRecord
<1>1. \A u \in Task : u # t => Fresh(u)' = Fresh(u)
  BY <1>0 DEF Fresh, PostsKept
<1>2. \A u \in Task : Fresh(u)' \subseteq Resource /\ Fresh(u) \subseteq Resource
  BY <1>0 DEF Fresh
<1>3. \A r \in Resource : Claimed(r) => \A u \in Task : r \notin Fresh(u)
  BY <1>2 DEF FreshBlocked, Claimed
<1>4. \A r \in Resource : Settled(r) => Settled(r)'
  BY <1>1, <1>2, <1>3 DEF Settled, Kept, Claimed, Destroyed
<1>5. ListedSettled'
  BY <1>4 DEF ListedSettled, PostsKept, TypeOK, PostRecord
<1>6. ListsDisjoint'
  BY DEF ListsDisjoint, PostsKept
<1>7. FreshBlocked'
  BY <1>1, <1>2, <1>3 DEF FreshBlocked, Kept, Claimed, Destroyed, Settled
<1>8. ClaimsDisjoint'
  BY <1>1, <1>2, <1>3 DEF ClaimsDisjoint
<1>9. ClaimOwned'
  BY DEF ClaimOwned
<1>10. Guards'
  BY <1>0 DEF Guards, GuardKept, PostsKept, CanWrite, CanRead, Writers, Readers
<1>11. ClearsListed'
  BY <1>0 DEF ClearsListed, PostsKept
<1>12. CollectedDead'
  <2>1. \A u \in Task : u # t => Collected(u)' = Collected(u)
    BY DEF Collected
  <2>2. \A u \in Task : Collected(u)' \subseteq Resource
    BY <1>0 DEF Collected
  <2> QED BY <2>1, <2>2, <1>4 DEF CollectedDead, PostsKept
<1> QED BY <1>5, <1>6, <1>7, <1>8, <1>9, <1>10, <1>11, <1>12

(* A request that stops has nothing left to respect. *)
LEMMA QuitSafe ==
  ASSUME CoreInv, TypeOK', NEW t \in Task, Finish(t), UNCHANGED <<res, owner>>, PostsKept
  PROVE  CoreInv'
<1>1. task'[t] = Idle /\ \A u \in Task : u # t => task'[u] = task[u]
  BY IdleOK, SetOK DEF Finish, CoreInv
<1>2. Fresh(t)' = {} /\ Collected(t)' = {}
  BY <1>1 DEF Fresh, Collected, Idle
<1> QED BY <1>1, <1>2, Move DEF GuardKept, Idle, Kept

(* If no post changes at all, PostsKept holds. *)
LEMMA SamePosts == UNCHANGED post => PostsKept
BY DEF PostsKept, IsLive

(* A request that arrives holds nothing yet. *)
LEMMA ArriveSafe ==
  ASSUME CoreInv, TypeOK', NEW t \in Task, Arrive(t)
  PROVE  CoreInv'
<1>1. Arrival(task'[t]) /\ Set(t, task'[t]) /\ TaskOK(task'[t]) /\ UNCHANGED <<res, owner, post>>
  BY ArrivalOK DEF CoreInv
<1>2. \A u \in Task : u # t => task'[u] = task[u]
  BY <1>1, SetOK DEF CoreInv
<1>3. Fresh(t)' = {} /\ Collected(t)' = {}
  BY <1>1 DEF Fresh, Collected, Arrival
<1> QED BY <1>1, <1>2, <1>3, Move, SamePosts DEF GuardKept, Kept, Arrival, IsLive

(* new_post claims a resource nobody has. *)
LEMMA ClaimSafe ==
  ASSUME CoreInv, TypeOK', NEW t \in Task, NEW r \in Resource, ClaimOne(t, r)
  PROVE  CoreInv'
<1>1. PostsKept /\ UNCHANGED <<owner, post>>
  BY SamePosts DEF ClaimOne
<1>2. CASE Finish(t) /\ UNCHANGED res
  BY <1>1, <1>2, QuitSafe
<1>3. CASE Set(t, [task[t] EXCEPT !.todo = @ \ {r}]) /\ UNCHANGED res
  <2>1. task'[t] = [task[t] EXCEPT !.todo = @ \ {r}] /\ task[t] \in TaskRecord
        /\ \A u \in Task : u # t => task'[u] = task[u]
    BY <1>3 DEF Set, CoreInv, TypeOK
  <2>2. task'[t].pc = "claim" /\ task[t].pc = "claim" /\ task'[t].got = task[t].got
        /\ task'[t].want = task[t].want /\ task'[t].who = task[t].who
    BY <2>1 DEF ClaimOne, TaskRecord
  <2>3. Fresh(t)' = Fresh(t) /\ Collected(t)' = {}
    BY <2>2 DEF Fresh, Collected
  <2> QED BY <1>1, <1>3, <2>1, <2>2, <2>3, Move DEF GuardKept, Kept, IsLive, ClaimOwned, CoreInv
<1>4. CASE /\ Set(t, [task[t] EXCEPT !.todo = @ \ {r}, !.got = @ \cup {r}])
           /\ owner[r] = task[t].who /\ Blockable(r) /\ res' = [res EXCEPT ![r] = "used"]
  <2>1. task'[t] = [task[t] EXCEPT !.todo = @ \ {r}, !.got = @ \cup {r}] /\ task[t] \in TaskRecord
        /\ \A u \in Task : u # t => task'[u] = task[u]
    BY <1>4 DEF Set, CoreInv, TypeOK
  <2>2. task'[t].pc = "claim" /\ task[t].pc = "claim" /\ task'[t].got = task[t].got \cup {r}
        /\ task'[t].want = task[t].want /\ task'[t].who = task[t].who
    BY <2>1 DEF ClaimOne, TaskRecord
  <2>3. Claimed(r) /\ \A s \in Resource : s # r => Kept(s)
    BY <1>4 DEF Claimed, Kept, Blockable, CoreInv, TypeOK
  <2>4. Fresh(t)' = Fresh(t) \cup {r} /\ Collected(t)' = {} /\ Fresh(t) \subseteq Resource
    BY <2>2, <2>1 DEF Fresh, Collected, TaskRecord
  <2>5. r \notin Fresh(t)
    BY <2>3 DEF Claimed, CoreInv, FreshBlocked
  <2>6. \A s \in task'[t].got : owner[s] = task'[t].who
    BY <1>4, <2>2 DEF ClaimOwned, CoreInv
  <2> QED BY <1>1, <2>1, <2>2, <2>3, <2>4, <2>5, <2>6, Move DEF GuardKept, IsLive, ClaimOwned, CoreInv
<1> QED BY <1>2, <1>3, <1>4 DEF ClaimOne

(* modify destroys what its own post lists, or claims a resource nobody has. *)
LEMMA SwapSafe ==
  ASSUME CoreInv, TypeOK', NEW t \in Task, NEW r \in Resource, SwapOne(t, r)
  PROVE  CoreInv'
<1>1. PostsKept /\ UNCHANGED <<owner, post>> /\ task[t].pc = "swap"
  BY SamePosts DEF SwapOne
<1>2. CASE Finish(t) /\ UNCHANGED res
  BY <1>1, <1>2, QuitSafe
<1>5. task[t].post \in Post
  BY <1>1 DEF CoreInv, TypeOK
<1>3. CASE /\ Set(t, [task[t] EXCEPT !.todo = @ \ {r}])
           /\ \/ UNCHANGED res
              \/ r \in post[task[t].post].listed /\ res' = [res EXCEPT ![r] = "gone"]
  <2>1. task'[t] = [task[t] EXCEPT !.todo = @ \ {r}] /\ task[t] \in TaskRecord
        /\ \A u \in Task : u # t => task'[u] = task[u]
    BY <1>3 DEF Set, CoreInv, TypeOK
  <2>2. task'[t].pc = "swap" /\ task'[t].got = task[t].got /\ task'[t].post = task[t].post
    BY <2>1, <1>1 DEF TaskRecord
  <2>3. Fresh(t)' = Fresh(t) /\ Collected(t)' = {}
    BY <2>2, <1>1 DEF Fresh, Collected
  <2>4. \A s \in Resource : Kept(s) \/ Destroyed(s)
    BY <1>3, <1>5 DEF Kept, Destroyed, CoreInv, TypeOK, ListedSettled
  <2>5. \A s \in Fresh(t) : Kept(s)
    <3>1. \A s \in Fresh(t) : s \in Resource /\ s \notin post[task[t].post].listed
      BY <1>1, <2>1 DEF Fresh, TaskRecord
    <3> QED BY <3>1, <1>3 DEF Kept, CoreInv, TypeOK
  <2> QED BY <1>1, <2>1, <2>2, <2>3, <2>4, <2>5, Move DEF GuardKept, IsLive
<1>4. CASE /\ Set(t, [task[t] EXCEPT !.todo = @ \ {r}, !.got = @ \cup {r}])
           /\ r \notin post[task[t].post].listed /\ Blockable(r)
           /\ res' = [res EXCEPT ![r] = "used"]
  <2>1. task'[t] = [task[t] EXCEPT !.todo = @ \ {r}, !.got = @ \cup {r}] /\ task[t] \in TaskRecord
        /\ \A u \in Task : u # t => task'[u] = task[u]
    BY <1>4 DEF Set, CoreInv, TypeOK
  <2>2. task'[t].pc = "swap" /\ task'[t].got = task[t].got \cup {r} /\ task'[t].post = task[t].post
    BY <2>1, <1>1 DEF TaskRecord
  <2>3. Claimed(r) /\ \A s \in Resource : s # r => Kept(s)
    BY <1>4 DEF Claimed, Kept, Blockable, CoreInv, TypeOK
  <2>4. Fresh(t)' = Fresh(t) \cup {r} /\ Collected(t)' = {} /\ Fresh(t) \subseteq Resource
    BY <2>2, <2>1, <1>1, <1>4 DEF Fresh, Collected, TaskRecord
  <2>5. r \notin Fresh(t)
    BY <2>3 DEF Claimed, CoreInv, FreshBlocked
  <2> QED BY <1>1, <2>1, <2>2, <2>3, <2>4, <2>5, Move DEF GuardKept, IsLive
<1> QED BY <1>2, <1>3, <1>4 DEF SwapOne

(* remove destroys what its post lists. *)
LEMMA ClearSafe ==
  ASSUME CoreInv, TypeOK', NEW t \in Task, NEW r \in Resource,
         ClearOne(t, r) \/ SweepOne(t, r)
  PROVE  CoreInv'
<1>1. PostsKept /\ UNCHANGED <<owner, post>> /\ task[t].pc \in {"clear", "sweep"}
      /\ r \in task[t].todo
  BY SamePosts DEF ClearOne, SweepOne
<1>2. task'[t] = [task[t] EXCEPT !.todo = @ \ {r}] /\ task[t] \in TaskRecord
      /\ \A u \in Task : u # t => task'[u] = task[u]
  BY DEF ClearOne, SweepOne, Set, CoreInv, TypeOK
<1>3. task'[t].pc = task[t].pc /\ task'[t].post = task[t].post /\ task'[t].got = task[t].got
      /\ task'[t].todo = task[t].todo \ {r}
  BY <1>2 DEF TaskRecord
<1>4. Settled(r)
  BY <1>1 DEF CoreInv, TypeOK, ListedSettled, ClearsListed, CollectedDead, Collected
<1>5. \A s \in Resource : Kept(s) \/ Destroyed(s)
  BY <1>4 DEF ClearOne, SweepOne, Destroy, Kept, Destroyed, CoreInv, TypeOK
<1>6. Fresh(t)' = {} /\ Collected(t)' \subseteq Collected(t)
  BY <1>1, <1>3 DEF Fresh, Collected
<1>7. task'[t].pc = "clear" => task'[t].todo \subseteq post[task'[t].post].listed /\ task'[t].got = {}
  BY <1>3 DEF CoreInv, ClearsListed
<1>8. \A s \in Collected(t)' :
        /\ Settled(s)
        /\ \A p \in Post : IsLive(p)' /\ s \in post[p].listed
              => task'[t].pc = "drop" /\ task'[t].post = p
  BY <1>1, <1>3, <1>6 DEF CoreInv, CollectedDead, IsLive
<1> QED BY <1>1, <1>2, <1>3, <1>5, <1>6, <1>7, <1>8, Move DEF GuardKept, IsLive

(* The steps of one task that change no resource and no list. *)
LEMMA WalkSafe ==
  ASSUME CoreInv, TypeOK', NEW t \in Task,
         \/ BeginClear(t) \/ EndClear(t) \/ GatherOne(t) \/ EndGather(t)
         \/ \E p \in Post : NextPost(t, p)
         \/ \E renew \in BOOLEAN : BeginSwap(t, renew)
  PROVE  CoreInv'
<1>0. TypeOK /\ task[t] \in TaskRecord /\ task \in [Task -> TaskRecord]
  BY DEF CoreInv, TypeOK
<1>1. CASE BeginClear(t)
  <2>1. /\ task'[t] = [task[t] EXCEPT !.pc = "clear", !.todo = post[task[t].post].listed]
        /\ \A u \in Task : u # t => task'[u] = task[u]
    BY <1>0, <1>1 DEF BeginClear, Set
  <2>2. /\ task'[t].pc = "clear" /\ task'[t].post = task[t].post
        /\ task'[t].todo = post[task[t].post].listed /\ task'[t].got = {}
    BY <1>0, <1>1, <2>1 DEF TaskRecord, BeginClear, CoreInv, ClearsListed
  <2>3. Fresh(t)' = {} /\ Collected(t)' = {} /\ PostsKept /\ UNCHANGED <<res, owner, post>>
    BY <1>1, <2>2, SamePosts DEF BeginClear, Fresh, Collected
  <2>4. GuardKept(t)
    BY <1>1, <2>2 DEF BeginClear, GuardKept, MayOpen
  <2> QED BY <2>1, <2>2, <2>3, <2>4, Move DEF Kept, IsLive
<1>2. CASE EndClear(t)
  <2>1. /\ task'[t] = [task[t] EXCEPT !.pc = "drop", !.todo = {}]
        /\ \A u \in Task : u # t => task'[u] = task[u]
    BY <1>0, <1>2 DEF EndClear, Set
  <2>2. /\ task'[t].pc = "drop" /\ task'[t].todo = {} /\ task'[t].got = task[t].got
    BY <1>0, <2>1 DEF TaskRecord
  <2>3. Fresh(t)' = {} /\ Collected(t)' = task[t].got /\ PostsKept /\ UNCHANGED <<res, owner, post>>
    BY <1>2, <2>2, SamePosts DEF EndClear, Fresh, Collected
  <2>4. task[t].got = {}
    BY <1>2 DEF EndClear, CoreInv, ClearsListed
  <2>6. task'[t].post = task[t].post /\ post[task[t].post].status # "none"
    BY <1>0, <1>2, <2>1 DEF EndClear, CoreInv, Guards, IsLive, Live, Verdict, TaskRecord
  <2>5. Collected(t)' = {}
    BY <2>3, <2>4
  <2> QED BY <2>1, <2>2, <2>3, <2>5, <2>6, Move DEF Kept, IsLive, GuardKept
<1>3. CASE EndGather(t)
  <2>1. /\ task'[t] = [task[t] EXCEPT !.pc = "sweep", !.posts = {}, !.todo = task[t].got]
        /\ \A u \in Task : u # t => task'[u] = task[u]
    BY <1>0, <1>3 DEF EndGather, Set
  <2>2. /\ task'[t].pc = "sweep" /\ task'[t].todo = task[t].got /\ task'[t].got = task[t].got
    BY <1>0, <2>1 DEF TaskRecord
  <2>3. Fresh(t)' = {} /\ Collected(t)' \subseteq Collected(t) /\ PostsKept
        /\ UNCHANGED <<res, owner, post>> /\ task[t].pc = "gather"
    BY <1>3, <2>2, SamePosts DEF EndGather, Fresh, Collected
  <2>4. \A s \in Collected(t)' :
          /\ Settled(s)
          /\ \A p \in Post : ~(IsLive(p)' /\ s \in post[p].listed)
    BY <2>3 DEF CoreInv, CollectedDead, IsLive
  <2> QED BY <2>1, <2>2, <2>3, <2>4, Move DEF Kept, IsLive, GuardKept
<1>4. CASE GatherOne(t)
  <2> DEFINE p == task[t].post
  <2>1. p \in Post /\ task[t].pc = "read"
    BY <1>0, <1>4 DEF GatherOne, TypeOK
  <2>2. PostsKept /\ UNCHANGED <<res, owner, post>>
        /\ \A u \in Task : u # t => task'[u] = task[u]
    BY <1>4, <1>0, SamePosts DEF GatherOne, Set
  <2>3. \A s \in task[t].got \cup task[t].todo :
          /\ Settled(s)
          /\ \A q \in Post : ~(IsLive(q) /\ s \in post[q].listed)
    BY <2>1 DEF CoreInv, CollectedDead, Collected
  <2>4. CASE Set(t, [task[t] EXCEPT !.pc = "gather", !.post = NoPost])
    <3>1. task'[t].pc = "gather" /\ task'[t].got = task[t].got /\ task'[t].todo = task[t].todo
      BY <1>0, <2>2, <2>4 DEF Set, TaskRecord
    <3>2. Fresh(t)' = {} /\ Collected(t)' = task[t].got \cup task[t].todo
      BY <3>1 DEF Fresh, Collected
    <3> QED BY <2>2, <2>3, <3>1, <3>2, Move DEF Kept, IsLive, GuardKept
  <2>5. CASE /\ IsLive(p)
             /\ Set(t, [task[t] EXCEPT !.pc = "drop", !.got = @ \cup post[p].listed])
    <3>4. post[p].status # "none"
      BY <2>5 DEF IsLive, Live, Verdict
    <3>1. /\ task'[t].pc = "drop" /\ task'[t].got = task[t].got \cup post[p].listed
          /\ task'[t].todo = task[t].todo /\ task'[t].post = p
      BY <1>0, <2>2, <2>5 DEF Set, TaskRecord
    <3>2. Fresh(t)' = {} /\ Collected(t)' = task[t].got \cup task[t].todo \cup post[p].listed
      BY <3>1 DEF Fresh, Collected
    <3>3. \A s \in post[p].listed :
            Settled(s) /\ \A q \in Post : s \in post[q].listed => q = p
      BY <2>1 DEF CoreInv, ListedSettled, ListsDisjoint
    <3> QED BY <2>1, <2>2, <2>3, <3>1, <3>2, <3>3, <3>4, Move DEF Kept, IsLive, GuardKept
  <2> QED BY <1>4, <2>4, <2>5 DEF GatherOne
<1>6. CASE \E p \in Post : NextPost(t, p)
  <2>1. PICK p \in Post : NextPost(t, p)
    BY <1>6
  <2>2. /\ PostsKept /\ UNCHANGED <<res, owner, post>> /\ task[t].pc = "gather"
        /\ task'[t].pc = "read" /\ task'[t].got = task[t].got /\ task'[t].todo = task[t].todo
        /\ \A u \in Task : u # t => task'[u] = task[u]
    BY <2>1, <1>0, SamePosts DEF NextPost, Set, TaskRecord
  <2>3. \A s \in task[t].got \cup task[t].todo :
          /\ Settled(s)
          /\ \A q \in Post : ~(IsLive(q) /\ s \in post[q].listed)
    BY <2>2 DEF CoreInv, CollectedDead, Collected
  <2>4. Fresh(t)' = {} /\ Collected(t)' = task[t].got \cup task[t].todo
    BY <2>2 DEF Fresh, Collected
  <2> QED BY <2>2, <2>3, <2>4, Move DEF Kept, IsLive, GuardKept
<1>5. CASE \E renew \in BOOLEAN : BeginSwap(t, renew)
  <2>1. PICK renew \in BOOLEAN : BeginSwap(t, renew)
    BY <1>5
  <2> DEFINE p == task[t].post
  <2>2. p \in Post /\ post \in [Post -> PostRecord]
    BY <1>0, <2>1 DEF BeginSwap, TypeOK
  <2>3. /\ task'[t].pc = "swap" /\ task'[t].post = p
        /\ task'[t].got = post[p].listed \cap task[t].want
        /\ \A u \in Task : u # t => task'[u] = task[u]
    BY <1>0, <2>1 DEF BeginSwap, Set, TaskRecord
  <2>4. \A q \in Post : post'[q].listed = post[q].listed /\ post'[q].status = post[q].status
    BY <2>1, <2>2 DEF BeginSwap, SetTime, PostRecord
  <2>5. PostsKept /\ \A q \in Post : IsLive(q)' = IsLive(q)
    BY <2>4 DEF PostsKept, IsLive
  <2>6. Fresh(t)' = {} /\ Collected(t)' = {}
    BY <2>2, <2>3, <2>4 DEF Fresh, Collected
  <2>7. GuardKept(t)
    BY <2>1, <2>3 DEF BeginSwap, GuardKept, MayOpen
  <2>8. UNCHANGED <<res, owner>>
    BY <2>1 DEF BeginSwap
  <2> QED BY <2>3, <2>5, <2>6, <2>7, <2>8, Move DEF Kept
<1> QED BY <1>1, <1>2, <1>3, <1>4, <1>5, <1>6

(* A new post lists what its request had claimed, an edited one what it kept *)
(* and what the request had claimed: nothing any other post or request has.  *)
LEMMA ListSafe ==
  ASSUME CoreInv, TypeOK', NEW t \in Task, NEW p \in Post, Finish(t),
         UNCHANGED <<res, owner>>,
         \A q \in Post : q # p => post'[q] = post[q],
         post'[p].status # "none",
         post'[p].listed \subseteq Fresh(t) \cup (IF IsLive(p) THEN post[p].listed ELSE {}),
         \A u \in Task : u # t /\ task[u].pc \in {"swap", "clear"} => task[u].post # p,
         \A u \in Task : \A r \in Collected(u) : IsLive(p) /\ r \in post[p].listed
                => task[u].pc = "drop" /\ task[u].post = p
  PROVE  CoreInv'
<1> USE DEF CoreInv
<1>0. /\ task'[t] = Idle
      /\ \A u \in Task : u # t => task'[u] = task[u]
      /\ \A u \in Task : task[u].got \subseteq Resource /\ task[u].todo \subseteq Resource
                      /\ (task[u].pc \in {"swap", "clear", "drop"} => task[u].post \in Post)
      /\ \A q \in Post : post[q].listed \subseteq Resource /\ post'[q].listed \subseteq Resource
  BY IdleOK, SetOK DEF Finish, TypeOK, TaskRecord, PostRecord
<1>1. Fresh(t)' = {} /\ Collected(t)' = {}
  BY <1>0 DEF Fresh, Collected, Idle
<1>2. \A u \in Task : u # t => Fresh(u)' = Fresh(u) /\ Collected(u)' = Collected(u)
  BY <1>0 DEF Fresh, Collected
<1>3. \A r \in Resource : Settled(r) \/ r \in Fresh(t) => Settled(r)'
  BY <1>1, <1>2 DEF Settled, FreshBlocked, ClaimsDisjoint
<1>4. \A u \in Task : Fresh(u) \subseteq Resource /\ Collected(u) \subseteq Resource
  BY <1>0 DEF Fresh, Collected
<1>5. ListedSettled'
  <2>1. \A r \in post'[p].listed : Settled(r)'
    BY <1>0, <1>3 DEF ListedSettled
  <2>2. \A q \in Post : q # p => \A r \in post'[q].listed : Settled(r)'
    BY <1>0, <1>3 DEF ListedSettled
  <2> QED BY <2>1, <2>2 DEF ListedSettled
<1>6. ListsDisjoint'
  <2>1. \A q \in Post : q # p => post'[p].listed \cap post'[q].listed = {}
    BY <1>0 DEF ListsDisjoint, ListedSettled, Settled
  <2> QED BY <2>1 DEF ListsDisjoint
<1>7. FreshBlocked' /\ ClaimsDisjoint'
  BY <1>1, <1>2 DEF FreshBlocked, ClaimsDisjoint
<1>8. ClaimOwned'
  BY <1>0 DEF ClaimOwned, Idle
<1>9. Guards'
  BY <1>0 DEF Guards, Writers, IsLive, Idle
<1>10. ClearsListed'
  BY <1>0 DEF ClearsListed, Idle
<1>11. CollectedDead'
  <2>1. SUFFICES ASSUME NEW u \in Task, u # t, NEW r \in Collected(u)
                 PROVE  /\ Settled(r)'
                        /\ \A q \in Post : IsLive(q)' /\ r \in post'[q].listed
                             => task[u].pc = "drop" /\ task[u].post = q
    BY <1>0, <1>1, <1>2 DEF CollectedDead
  <2>2. Settled(r) /\ r \in Resource
    BY <1>4 DEF CollectedDead
  <2>3. r \notin Fresh(t)
    BY <2>2 DEF Settled
  <2>4. \A q \in Post : q # p /\ IsLive(q)' => IsLive(q)
    BY DEF IsLive
  <2> QED BY <2>1, <2>2, <2>3, <2>4, <1>3 DEF CollectedDead
<1> QED BY <1>5, <1>6, <1>7, <1>8, <1>9, <1>10, <1>11

(* new_post inserts a post that lists what the request has claimed. *)
LEMMA InsertSafe ==
  ASSUME CoreInv, TypeOK', NEW t \in Task, NEW p \in Post, InsertPost(t, p)
  PROVE  CoreInv'
<1>1. Finish(t) /\ UNCHANGED <<res, owner>> /\ task[t].pc = "claim" /\ task[t].got = task[t].want
      /\ ~IsLive(p)
  BY DEF InsertPost, Complete, IsLive, Live, Verdict
<1>2. post'[p].listed = task[t].want /\ post'[p].status # "none" /\ \A q \in Post : q # p => post'[q] = post[q]
  BY DEF InsertPost, CoreInv, TypeOK
<1>3. Fresh(t) = task[t].want
  BY <1>1 DEF Fresh
<1>4. \A u \in Task : task[u].pc \in {"swap", "clear"} => task[u].post # p
  BY <1>1 DEF CoreInv, Guards
<1> QED BY <1>1, <1>2, <1>3, <1>4, ListSafe

(* modify replaces the list by what it kept and what it claimed. *)
LEMMA EndSwapSafe ==
  ASSUME CoreInv, TypeOK', NEW t \in Task, EndSwap(t)
  PROVE  CoreInv'
<1> DEFINE p == task[t].post
<1>1. Finish(t) /\ UNCHANGED <<res, owner>> /\ task[t].pc = "swap" /\ p \in Post /\ IsLive(p)
  BY DEF EndSwap, CoreInv, TypeOK, Guards
<1>2. post'[p].listed = task[t].got /\ post'[p].status # "none" /\ \A q \in Post : q # p => post'[q] = post[q]
  BY <1>1 DEF EndSwap, Swapped, CoreInv, TypeOK, PostRecord
<1>3. task[t].got \subseteq Fresh(t) \cup post[p].listed
  BY <1>1 DEF Fresh
<1>4. \A u \in Task : u # t /\ task[u].pc \in {"swap", "clear"} => task[u].post # p
  BY <1>1 DEF CoreInv, Guards, Writers
<1>5. \A u \in Task : \A r \in Collected(u) : IsLive(p) /\ r \in post[p].listed
                => task[u].pc = "drop" /\ task[u].post = p
  BY <1>1 DEF CoreInv, CollectedDead
<1> QED BY <1>1, <1>2, <1>3, <1>4, <1>5, ListSafe

(* Edits of one post that leave its list alone. *)
LEMMA TouchSafe ==
  ASSUME CoreInv, TypeOK', NEW t \in Task,
         \/ \E renew \in BOOLEAN : ModifyText(t, renew)
         \/ \E v \in Verdict : Pass(t, v)
  PROVE  CoreInv'
<1>1. Finish(t) /\ UNCHANGED <<res, owner>> /\ task[t].post \in Post /\ IsLive(task[t].post)
  BY DEF ModifyText, Pass, CoreInv, TypeOK, MayOpen
<1>2. CASE \E renew \in BOOLEAN : ModifyText(t, renew)
  <2>1. \A q \in Post : post'[q].listed = post[q].listed
                       /\ (post'[q].status = post[q].status \/ q = task[t].post)
    BY <1>1, <1>2 DEF ModifyText, SetTime, CoreInv, TypeOK, PostRecord
  <2>2. post'[task[t].post].status = "pending"
    BY <1>1, <1>2 DEF ModifyText, SetTime, CoreInv, TypeOK, PostRecord
  <2>3. PostsKept
    BY <1>1, <2>1, <2>2 DEF PostsKept, IsLive, Live, Verdict
  <2> QED BY <1>1, <2>3, QuitSafe
<1>3. CASE \E v \in Verdict : Pass(t, v)
  <2>1. \A q \in Post : post'[q].listed = post[q].listed
                       /\ (post'[q].status = post[q].status \/ q = task[t].post)
    BY <1>1, <1>3 DEF Pass, CoreInv, TypeOK, PostRecord
  <2>2. post'[task[t].post].status \in Live
    BY <1>1, <1>3 DEF Pass, CoreInv, TypeOK, PostRecord, Live, IsLive
  <2>3. PostsKept
    BY <1>1, <2>1, <2>2 DEF PostsKept, IsLive, Live, Verdict
  <2> QED BY <1>1, <2>3, QuitSafe
<1> QED BY <1>2, <1>3

(* remove and bulk_remove destroy a post nobody holds. *)
LEMMA DropSafe ==
  ASSUME CoreInv, TypeOK', NEW t \in Task, DropPost(t)
  PROVE  CoreInv'
<1>0. PICK p \in Post : p = task[t].post
  BY DEF DropPost, CoreInv, TypeOK
<1>1. UNCHANGED <<res, owner>> /\ CanWrite(p) /\ task[t].pc = "drop"
      /\ task[t] \in TaskRecord
  BY <1>0 DEF DropPost, CoreInv, TypeOK
<1>2. \A q \in Post : post'[q].listed = post[q].listed
  BY <1>0 DEF DropPost, CoreInv, TypeOK, PostRecord
<1>3. post'[p].status = "gone" /\ \A q \in Post : q # p => post'[q].status = post[q].status
  BY <1>0 DEF DropPost, CoreInv, TypeOK, PostRecord
<1>4. ~IsLive(p)' /\ \A q \in Post : q # p => IsLive(q)' = IsLive(q)
  BY <1>3 DEF IsLive, Live, Verdict
<1>5. PostsKept
  BY <1>0, <1>1, <1>2, <1>3, <1>4 DEF PostsKept
<1>6. CASE Finish(t)
  BY <1>1, <1>5, <1>6, QuitSafe
<1>7. CASE Set(t, [task[t] EXCEPT !.pc = "gather", !.post = NoPost])
  <2>1. task'[t].pc = "gather" /\ task'[t].got = task[t].got /\ task'[t].todo = task[t].todo
        /\ \A u \in Task : u # t => task'[u] = task[u]
    BY <1>1, <1>7 DEF Set, CoreInv, TypeOK, TaskRecord
  <2>2. Fresh(t)' = {} /\ Collected(t)' \subseteq Collected(t)
    BY <1>1, <2>1 DEF Fresh, Collected
  <2>3. \A r \in Collected(t)' :
          Settled(r) /\ \A q \in Post : ~(IsLive(q)' /\ r \in post[q].listed)
    BY <1>0, <1>4, <2>2 DEF CoreInv, CollectedDead, PostsKept, IsLive
  <2> QED BY <1>1, <1>5, <2>1, <2>2, <2>3, Move DEF GuardKept, Kept
<1> QED BY <1>6, <1>7 DEF DropPost

(* Uploads create free resources, time ends posts: no list changes. *)
LEMMA EnvironmentSafe ==
  ASSUME CoreInv, TypeOK', Environment
  PROVE  CoreInv'
<1> USE DEF CoreInv
<1>1. UNCHANGED task
  BY DEF Environment, Upload, End
<1>2. \A q \in Post : post'[q].listed = post[q].listed /\ post'[q].status = post[q].status
  BY DEF Environment, Upload, End, TypeOK, PostRecord
<1>3. \A r \in Resource : res[r] \in {"used", "gone"} => res'[r] = res[r] /\ owner'[r] = owner[r]
  BY DEF Environment, Upload, End, TypeOK
<1>4. \A u \in Task : /\ task[u].got \subseteq Resource /\ task[u].todo \subseteq Resource
                      /\ (task[u].pc \in {"swap", "clear", "drop"} => task[u].post \in Post)
  BY DEF TypeOK, TaskRecord
<1>5. \A u \in Task : Fresh(u)' = Fresh(u) /\ Fresh(u) \subseteq Resource
                      /\ Collected(u)' = Collected(u) /\ Collected(u) \subseteq Resource
  BY <1>1, <1>2, <1>4 DEF Fresh, Collected
<1>6. \A r \in Resource : Settled(r) => Settled(r)'
  BY <1>3, <1>5 DEF Settled
<1>7. \A q \in Post : IsLive(q)' = IsLive(q) /\ post[q].listed \subseteq Resource
  BY <1>2 DEF IsLive, TypeOK, PostRecord
<1>8. ListedSettled' /\ ListsDisjoint'
  BY <1>2, <1>6, <1>7 DEF ListedSettled, ListsDisjoint
<1>9. FreshBlocked' /\ ClaimsDisjoint'
  BY <1>3, <1>5 DEF FreshBlocked, ClaimsDisjoint
<1>10. ClaimOwned'
  <2>1. \A u \in Task : task[u].pc = "claim" => \A r \in task[u].got : res[r] = "used"
    BY DEF FreshBlocked, Fresh
  <2> QED BY <1>1, <1>3, <1>4, <2>1 DEF ClaimOwned
<1>11. Guards'
  BY <1>1, <1>2, <1>4, <1>7 DEF Guards, Writers
<1>12. ClearsListed'
  BY <1>1, <1>2, <1>4 DEF ClearsListed
<1>13. CollectedDead'
  BY <1>1, <1>2, <1>5, <1>6, <1>7 DEF CollectedDead
<1> QED BY <1>8, <1>9, <1>10, <1>11, <1>12, <1>13

(* Nothing is listed or claimed at first. *)
LEMMA CoreInit == Init => CoreInv
<1> SUFFICES ASSUME Init PROVE CoreInv
  OBVIOUS
<1>1. TypeOK
  BY TypeInit
<1>2. \A t \in Task : task[t] = Idle /\ Fresh(t) = {} /\ Collected(t) = {}
  BY DEF Init, Fresh, Collected, Idle
<1>3. \A p \in Post : post[p].listed = {}
  BY DEF Init, Unborn
<1> QED BY <1>1, <1>2, <1>3 DEF CoreInv, ListedSettled, ListsDisjoint, FreshBlocked, ClaimsDisjoint,
             ClaimOwned, Guards, ClearsListed, CollectedDead, Idle

(* The invariant is inductive. *)
LEMMA CoreStep == CoreInv /\ [Next]_vars => CoreInv'
<1> SUFFICES ASSUME CoreInv, [Next]_vars PROVE CoreInv'
  OBVIOUS
<1>0. TypeOK'
  BY TypeStep DEF CoreInv
<1>1. ASSUME NEW t \in Task, Step(t) PROVE CoreInv'
  <2>1. CASE \E r \in Resource : ClaimOne(t, r) \/ SwapOne(t, r) \/ ClearOne(t, r) \/ SweepOne(t, r)
    BY <1>0, <2>1, ClaimSafe, SwapSafe, ClearSafe
  <2>2. CASE \E p \in Post : InsertPost(t, p)
    BY <1>0, <2>2, InsertSafe
  <2>3. CASE EndSwap(t) \/ DropPost(t)
    BY <1>0, <2>3, EndSwapSafe, DropSafe
  <2>4. CASE \/ BeginClear(t) \/ EndClear(t) \/ GatherOne(t) \/ EndGather(t)
             \/ \E p \in Post : NextPost(t, p)
             \/ \E renew \in BOOLEAN : BeginSwap(t, renew)
    BY <1>0, <2>4, WalkSafe
  <2>5. CASE \/ \E renew \in BOOLEAN : ModifyText(t, renew)
             \/ \E v \in Verdict : Pass(t, v)
    BY <1>0, <2>5, TouchSafe
  <2>6. CASE AbandonPost(t) \/ Refused(t) \/ RefuseTime(t) \/ EndSweep(t)
    BY <1>0, <2>6, QuitSafe, SamePosts DEF AbandonPost, Refused, RefuseTime, EndSweep
  <2> QED BY <1>1, <2>1, <2>2, <2>3, <2>4, <2>5, <2>6 DEF Step
<1>2. ASSUME NEW t \in Task, Arrive(t) PROVE CoreInv'
  BY <1>0, <1>2, ArriveSafe
<1>3. ASSUME NEW t \in Task, Cancel(t) PROVE CoreInv'
  BY <1>0, <1>3, QuitSafe, SamePosts DEF Cancel
<1>4. CASE Environment
  BY <1>0, <1>4, EnvironmentSafe
<1>5. CASE UNCHANGED vars
  BY <1>5 DEF vars, CoreInv, TypeOK, ListedSettled, ListsDisjoint, FreshBlocked, ClaimsDisjoint,
              ClaimOwned, Guards, ClearsListed, CollectedDead, Settled, Fresh, Collected, IsLive,
              Writers
<1> QED BY <1>1, <1>2, <1>3, <1>4, <1>5 DEF Next

(* The part of the safety invariant that needs no other: who has what. *)
LEMMA CoreAlways == Spec => []CoreInv
BY CoreInit, CoreStep, PTL DEF Spec

(* A step moves the one request that takes it. *)
LEMMA MovesOne ==
  ASSUME CoreInv, [Next]_vars, NEW t \in Task, ~(Arrive(t) \/ Step(t) \/ Cancel(t))
  PROVE  task'[t] = task[t]
<1>1. ASSUME NEW u \in Task, Arrive(u) \/ Step(u) \/ Cancel(u)
      PROVE  Set(u, task'[u])
  BY <1>1, ArrivalOK, StepTask DEF Cancel, Finish, Set, CoreInv, TypeOK
<1>2. ASSUME NEW u \in Task, Arrive(u) \/ Step(u) \/ Cancel(u)
      PROVE  task'[t] = task[t]
  BY <1>1, <1>2 DEF Set, CoreInv, TypeOK
<1> QED BY <1>2 DEF Next, Environment, Upload, End, vars

(* A resource has one home: two live posts never list the same one, and none *)
(* lists what a request in flight has claimed, whatever the number of posts, *)
(* requests and faults.                                                      *)
THEOREM OneHomeAlways == Spec => []OneHome
<1>1. CoreInv => OneHome
  BY DEF CoreInv, OneHome, ListsDisjoint, ListedSettled, Settled
<1> QED BY <1>1, CoreAlways, PTL

(* No two requests in flight hold the same blocked resource. *)
THEOREM ClaimsDisjointAlways == Spec => []ClaimsDisjoint
<1>1. CoreInv => ClaimsDisjoint
  BY DEF CoreInv
<1> QED BY <1>1, CoreAlways, PTL

(* A post appears only with resources of its creator, blocked and still there. *)
THEOREM BornSoundAlways == Spec => BornSound
<1> DEFINE A == \A p \in Post : post[p].status = "none" /\ post'[p].status # "none" =>
                  /\ post'[p].listed # {}
                  /\ \A r \in post'[p].listed : res[r] = "used" /\ owner[r] = post'[p].creator
<1>1. CoreInv /\ [Next]_vars => A
  <2> SUFFICES ASSUME CoreInv, [Next]_vars, NEW p \in Post,
                      post[p].status = "none", post'[p].status # "none"
               PROVE  /\ post'[p].listed # {}
                      /\ \A r \in post'[p].listed : res[r] = "used" /\ owner[r] = post'[p].creator
    OBVIOUS
  <2>0. post \in [Post -> PostRecord] /\ ~IsLive(p)
    BY DEF CoreInv, TypeOK, IsLive, Live, Verdict
  <2>1. PICK t \in Task : InsertPost(t, p)
    <3>1. ASSUME NEW t \in Task, Step(t) PROVE InsertPost(t, p)
      <4>1. \A q \in Post : InsertPost(t, q) => q = p
        BY <2>0 DEF InsertPost
      <4>2. \A renew \in BOOLEAN : ~ModifyText(t, renew)
        BY <2>0 DEF ModifyText, MayOpen, SetTime, CoreInv, TypeOK, PostRecord
      <4>3. \A renew \in BOOLEAN : ~BeginSwap(t, renew)
        BY <2>0 DEF BeginSwap, MayOpen, SetTime, PostRecord
      <4>4. ~EndSwap(t)
        BY <2>0 DEF EndSwap, CoreInv, Guards
      <4>5. \A v \in Verdict : ~Pass(t, v)
        BY <2>0 DEF Pass, MayOpen
      <4>6. ~DropPost(t)
        BY <2>0 DEF DropPost, CoreInv, Guards
      <4> QED BY <3>1, <4>1, <4>2, <4>3, <4>4, <4>5, <4>6 DEF Step, ClaimOne, SwapOne, ClearOne,
                SweepOne, NextPost, GatherOne, AbandonPost, Refused, RefuseTime, BeginClear, EndClear,
                EndGather, EndSweep
    <3>2. ~(\E t \in Task : Arrive(t) \/ Cancel(t))
      BY ArrivalOK DEF CoreInv, Cancel
    <3>3. ~Environment
      BY <2>0 DEF Environment, Upload, End, PostRecord
    <3>4. ~(UNCHANGED vars)
      BY DEF vars
    <3> QED BY <3>1, <3>2, <3>3, <3>4 DEF Next
  <2>2. /\ post'[p].listed = task[t].want /\ post'[p].creator = task[t].who
        /\ task[t].pc = "claim" /\ task[t].got = task[t].want
    BY <2>0, <2>1 DEF InsertPost, Complete
  <2> QED BY <2>2 DEF CoreInv, ClaimOwned, FreshBlocked, Fresh
<1>2. CoreInv /\ [Next]_vars => [A]_vars
  BY <1>1
<1> QED BY <1>2, CoreAlways, PTL DEF Spec, BornSound

(* A resource that a live post lists is destroyed only by the request that   *)
(* holds the post, never by a bulk_remove working from what it read earlier. *)
THEOREM DestroyedByHolderAlways == Spec => DestroyedByHolder
<1> DEFINE A == \A r \in Resource, p \in Post :
       res[r] = "used" /\ res'[r] = "gone" /\ IsLive(p) /\ r \in post[p].listed
         => \E t \in Writers(p) \cup Readers(p) : task'[t] # task[t]
<1>1. CoreInv /\ [Next]_vars => A
  <2> SUFFICES ASSUME CoreInv, [Next]_vars, NEW r \in Resource, NEW p \in Post,
                      res[r] = "used", res'[r] = "gone", IsLive(p), r \in post[p].listed
               PROVE  \E t \in Writers(p) \cup Readers(p) : task'[t] # task[t]
    OBVIOUS
  <2>1. PICK t \in Task : SwapOne(t, r) \/ ClearOne(t, r) \/ SweepOne(t, r)
    <3>1. ASSUME NEW t \in Task, Step(t)
          PROVE  SwapOne(t, r) \/ ClearOne(t, r) \/ SweepOne(t, r)
      <4>1. \A s \in Resource : ClaimOne(t, s) => FALSE
        BY DEF ClaimOne, CoreInv, TypeOK
      <4>2. \A s \in Resource : SwapOne(t, s) \/ ClearOne(t, s) \/ SweepOne(t, s) => s = r
        BY DEF SwapOne, ClearOne, SweepOne, Destroy, CoreInv, TypeOK
      <4> QED BY <3>1, <4>1, <4>2 DEF Step, InsertPost, NextPost, GatherOne, AbandonPost, Refused, RefuseTime,
                ModifyText, BeginSwap, EndSwap, Pass, BeginClear, EndClear, DropPost, EndGather,
                EndSweep
    <3>2. ~(\E t \in Task : Arrive(t) \/ Cancel(t))
      BY ArrivalOK DEF CoreInv, Cancel
    <3>3. ~Environment
      BY DEF Environment, Upload, End, CoreInv, TypeOK
    <3>4. ~(UNCHANGED vars)
      BY DEF vars
    <3> QED BY <3>1, <3>2, <3>3, <3>4 DEF Next
  <2>0. task[t] \in TaskRecord /\ task \in [Task -> TaskRecord]
    BY DEF CoreInv, TypeOK
  <2>2. r \in task[t].todo
    BY <2>1 DEF SwapOne, ClearOne, SweepOne
  <2>3. CASE SwapOne(t, r)
    <3>1. task[t].pc = "swap" /\ task[t].post \in Post /\ r \in post[task[t].post].listed
      BY <2>3 DEF SwapOne, CoreInv, TypeOK, Finish
    <3>2. task[t].post = p
      BY <3>1 DEF CoreInv, ListsDisjoint
    <3>4. Set(t, [task[t] EXCEPT !.todo = @ \ {r}])
      BY <2>3 DEF SwapOne, CoreInv, TypeOK
    <3>3. r \notin task'[t].todo
      BY <2>0, <3>4 DEF Set, TaskRecord
    <3> QED BY <2>2, <3>1, <3>2, <3>3 DEF Writers
  <2>4. CASE ClearOne(t, r)
    <3>1. task[t].pc = "clear" /\ task[t].post \in Post /\ r \in post[task[t].post].listed
      BY <2>2, <2>4 DEF ClearOne, CoreInv, TypeOK, ClearsListed
    <3>2. task[t].post = p
      BY <3>1 DEF CoreInv, ListsDisjoint
    <3>3. r \notin task'[t].todo
      BY <2>0, <2>4 DEF ClearOne, Set, TaskRecord
    <3> QED BY <2>2, <3>1, <3>2, <3>3 DEF Readers
  <2>5. CASE SweepOne(t, r)
    BY <2>2, <2>5 DEF SweepOne, CoreInv, CollectedDead, Collected
  <2> QED BY <2>1, <2>3, <2>4, <2>5
<1>2. CoreInv /\ [Next]_vars => [A]_vars
  BY <1>1
<1> QED BY <1>2, CoreAlways, PTL DEF Spec, DestroyedByHolder

(* What the list or the verdict of a post can change by: the insertion of the *)
(* post, a change of its text, the end of a swap, a verdict, or its removal.  *)
LEMMA PostChanges ==
  ASSUME CoreInv, [Next]_vars, NEW p \in Post,
         post'[p].listed # post[p].listed \/ post'[p].status # post[p].status
  PROVE  \E t \in Task :
           \/ InsertPost(t, p)
           \/ /\ task[t].post = p
              /\ \/ \E renew \in BOOLEAN : ModifyText(t, renew)
                 \/ EndSwap(t)
                 \/ \E v \in Verdict : Pass(t, v)
                 \/ DropPost(t)
<1>0. post \in [Post -> PostRecord]
  BY DEF CoreInv, TypeOK
<1>1. ASSUME NEW t \in Task, Step(t)
      PROVE  \/ InsertPost(t, p)
             \/ /\ task[t].post = p
                /\ \/ \E renew \in BOOLEAN : ModifyText(t, renew)
                   \/ EndSwap(t)
                   \/ \E v \in Verdict : Pass(t, v)
                   \/ DropPost(t)
  <2>1. \A q \in Post : InsertPost(t, q) => q = p
    BY <1>0 DEF InsertPost
  <2>2. ASSUME NEW renew \in BOOLEAN, ModifyText(t, renew) PROVE task[t].post = p
    BY <1>0, <2>2 DEF ModifyText, SetTime, CoreInv, TypeOK
  <2>3. \A renew \in BOOLEAN : ~BeginSwap(t, renew)
    BY <1>0 DEF BeginSwap, SetTime, PostRecord
  <2>4. EndSwap(t) => task[t].post = p
    BY <1>0 DEF EndSwap
  <2>5. \A v \in Verdict : Pass(t, v) => task[t].post = p
    BY <1>0 DEF Pass
  <2>6. DropPost(t) => task[t].post = p
    BY <1>0 DEF DropPost
  <2> QED BY <1>1, <2>1, <2>2, <2>3, <2>4, <2>5, <2>6 DEF Step, ClaimOne, SwapOne, ClearOne,
            SweepOne, NextPost, GatherOne, AbandonPost, Refused, RefuseTime, BeginClear, EndClear,
            EndGather, EndSweep
<1>2. ~(\E t \in Task : Arrive(t) \/ Cancel(t))
  BY ArrivalOK DEF CoreInv, Cancel
<1>3. ~Environment
  BY <1>0 DEF Environment, Upload, End, PostRecord
<1>4. ~(UNCHANGED vars)
  BY DEF vars
<1> QED BY <1>1, <1>2, <1>3, <1>4 DEF Next

(* While a request holds the guard of a post, a step leaves the list and the *)
(* verdict of the post alone, unless it is a step of that request.           *)
LEMMA HeldStep ==
  CoreInv /\ [Next]_vars =>
    \A p \in Post : \A t \in Writers(p) \cup Readers(p) :
      task'[t] = task[t] =>
        post'[p].listed = post[p].listed /\ post'[p].status = post[p].status
<1> SUFFICES ASSUME CoreInv, [Next]_vars, NEW p \in Post,
                    NEW t \in Writers(p) \cup Readers(p), task'[t] = task[t],
                    post'[p].listed # post[p].listed \/ post'[p].status # post[p].status
             PROVE  FALSE
  OBVIOUS
<1>0. t \in Task /\ task \in [Task -> TaskRecord] /\ IsLive(p)
  BY DEF Writers, Readers, CoreInv, TypeOK, Guards
<1>1. PICK u \in Task :
        \/ InsertPost(u, p)
        \/ /\ task[u].post = p
           /\ \/ \E renew \in BOOLEAN : ModifyText(u, renew)
              \/ EndSwap(u)
              \/ \E v \in Verdict : Pass(u, v)
              \/ DropPost(u)
  BY PostChanges
<1>2. ~InsertPost(u, p)
  BY <1>0 DEF InsertPost, IsLive, Live, Verdict
<1>3. ~CanWrite(p)
  BY DEF CanWrite
<1>4. EndSwap(u)
  BY <1>1, <1>2, <1>3 DEF ModifyText, Pass, DropPost
<1>5. u \in Writers(p)
  BY <1>1, <1>2, <1>4 DEF EndSwap, Writers
<1>6. t = u
  BY <1>0, <1>5 DEF CoreInv, Guards, Writers, Readers
<1> QED BY <1>0, <1>4, <1>5, <1>6 DEF EndSwap, Finish, Set, Idle, Writers

(* While a request holds the guard of a post, nobody else changes the list or *)
(* the verdict of the post, however many requests wait for it.               *)
THEOREM HeldPostAlwaysFrozen == Spec => HeldPostFrozen
<1> DEFINE A == \A p \in Post : \A t \in Writers(p) \cup Readers(p) :
       task'[t] = task[t] =>
         post'[p].listed = post[p].listed /\ post'[p].status = post[p].status
<1>1. CoreInv /\ [Next]_vars => [A]_vars
  BY HeldStep
<1> QED BY <1>1, CoreAlways, PTL DEF Spec, HeldPostFrozen

(* A post that is approved or rejected after a step has the list it had       *)
(* before: no request slips a new list under a verdict.                      *)
THEOREM ChangeIsAlwaysReviewed == Spec => ChangeIsReviewed
<1> DEFINE A == \A p \in Post : post'[p].status \in Verdict => post'[p].listed = post[p].listed
<1>1. CoreInv /\ [Next]_vars => A
  <2> SUFFICES ASSUME CoreInv, [Next]_vars, NEW p \in Post,
                      post'[p].status \in Verdict, post'[p].listed # post[p].listed
               PROVE  FALSE
    OBVIOUS
  <2>0. post \in [Post -> PostRecord] /\ "pending" \notin Verdict
    BY DEF CoreInv, TypeOK, Verdict
  <2>1. PICK t \in Task :
          \/ InsertPost(t, p)
          \/ /\ task[t].post = p
             /\ \/ \E renew \in BOOLEAN : ModifyText(t, renew)
                \/ EndSwap(t)
                \/ \E v \in Verdict : Pass(t, v)
                \/ DropPost(t)
    BY PostChanges
  <2>2. ~InsertPost(t, p)
    BY <2>0 DEF InsertPost
  <2>3. \A renew \in BOOLEAN : ModifyText(t, renew) => task[t].post # p
    BY <2>0 DEF ModifyText, SetTime, PostRecord
  <2>4. EndSwap(t) => task[t].post # p
    BY <2>0 DEF EndSwap, Swapped, PostRecord
  <2>5. \A v \in Verdict : Pass(t, v) => task[t].post # p
    BY <2>0 DEF Pass, PostRecord
  <2>6. DropPost(t) => task[t].post # p
    BY <2>0 DEF DropPost, PostRecord
  <2> QED BY <2>1, <2>2, <2>3, <2>4, <2>5, <2>6
<1>2. CoreInv /\ [Next]_vars => [A]_vars
  BY <1>1
<1> QED BY <1>2, CoreAlways, PTL DEF Spec, ChangeIsReviewed

-------------------------------------------------------------------------------
(* Who may leave a blocked resource without a home.  The rest of the safety   *)
(* invariant says that no loop over resources leaves one out.                 *)

(* A destroyed resource stays destroyed. *)
LEMMA GoneStays ==
  ASSUME CoreInv, [Next]_vars, NEW r \in Resource, res[r] = "gone"
  PROVE  res'[r] = "gone"
<1>0. res \in [Resource -> {"none", "free", "used", "gone"}]
  BY DEF CoreInv, TypeOK
<1>1. CASE \E t \in Task : Arrive(t) \/ Cancel(t)
  BY <1>1, ArrivalOK DEF CoreInv, Cancel
<1>2. CASE Environment \/ UNCHANGED vars
  BY <1>0, <1>2 DEF Environment, Upload, End, vars
<1>3. ASSUME NEW t \in Task, Step(t)
      PROVE  res'[r] = "gone"
  <2>1. ASSUME NEW s \in Resource, ClaimOne(t, s) \/ SwapOne(t, s)
        PROVE  res'[r] = "gone"
    BY <1>0, <2>1 DEF ClaimOne, SwapOne, Blockable
  <2>2. ASSUME NEW s \in Resource, ClearOne(t, s) \/ SweepOne(t, s)
        PROVE  res'[r] = "gone"
    BY <1>0, <2>2 DEF ClearOne, SweepOne, Destroy
  <2> QED
    BY <1>3, <2>1, <2>2 DEF Step, InsertPost, NextPost, GatherOne, AbandonPost, Refused, RefuseTime,
       ModifyText, BeginSwap, EndSwap, Pass, BeginClear, EndClear, DropPost, EndGather, EndSweep
<1> QED BY <1>1, <1>2, <1>3 DEF Next

(* A task outside the loops has left nothing out. *)
LEMMA NoLoopCovered ==
  ASSUME NEW t \in Task, task'[t].pc \notin {"swap", "sweep", "gather", "read", "drop"}
  PROVE  Covered(t)'
BY DEF Covered

(* A request that a step leaves alone loses nothing by it: the list it swaps  *)
(* is held, and what is listed or collected can only be destroyed.            *)
LEMMA OthersCovered ==
  ASSUME CoreInv, LoopsCover, [Next]_vars, NEW t \in Task, task'[t] = task[t]
  PROVE  Covered(t)'
<1>0. Covered(t) /\ task[t] \in TaskRecord
  BY DEF LoopsCover, CoreInv, TypeOK
<1>1. \A r \in Resource : Settled(r) /\ res'[r] = "used" => res[r] = "used"
  BY GoneStays DEF Settled
<1>2. ASSUME task[t].pc = "swap", NEW r \in post'[task[t].post].listed, res'[r] = "used"
      PROVE  r \in task[t].todo \cup task[t].got
  <2>1. task[t].post \in Post /\ t \in Writers(task[t].post)
    BY <1>2 DEF CoreInv, TypeOK, Writers
  <2>2. r \in post[task[t].post].listed
    BY <1>2, <2>1, HeldStep
  <2>3. r \in Resource /\ Settled(r)
    BY <2>1, <2>2 DEF CoreInv, TypeOK, PostRecord, ListedSettled
  <2> QED BY <1>0, <1>1, <1>2, <2>2, <2>3 DEF Covered
<1>3. ASSUME task[t].pc = "sweep", NEW r \in task[t].got, res'[r] = "used"
      PROVE  r \in task[t].todo
  <2>1. r \in Resource /\ Settled(r)
    BY <1>0, <1>3 DEF TaskRecord, CoreInv, CollectedDead, Collected
  <2> QED BY <1>0, <1>1, <1>3, <2>1 DEF Covered
<1> QED BY <1>0, <1>2, <1>3 DEF Covered, Bulk

(* A turn of a loop over resources: one id less to visit, the rest kept. *)
LEMMA TurnIs ==
  ASSUME TypeOK, NEW t \in Task, NEW r, NEW got,
         Set(t, [task[t] EXCEPT !.todo = @ \ {r}, !.got = got])
  PROVE  /\ task'[t].pc = task[t].pc /\ task'[t].post = task[t].post
         /\ task'[t].todo = task[t].todo \ {r} /\ task'[t].got = got
<1>1. task'[t] = [task[t] EXCEPT !.todo = @ \ {r}, !.got = got] /\ task[t] \in TaskRecord
  BY DEF Set, TypeOK
<1> QED BY <1>1 DEF TaskRecord

(* A request that moves leaves nothing out on the way. *)
LEMMA MoverCovered ==
  ASSUME CoreInv, LoopsCover, NEW t \in Task, Arrive(t) \/ Step(t) \/ Cancel(t)
  PROVE  Covered(t)'
<1>0. /\ Covered(t) /\ task[t] \in TaskRecord /\ task \in [Task -> TaskRecord] /\ TypeOK
      /\ res \in [Resource -> {"none", "free", "used", "gone"}] /\ post \in [Post -> PostRecord]
  BY DEF LoopsCover, CoreInv, TypeOK
<1>1. CASE Finish(t)
  BY <1>0, <1>1, IdleOK, SetOK, NoLoopCovered DEF Finish, Idle
<1>2. CASE Arrive(t)
  <2>1. Arrival(task'[t])
    BY <1>0, <1>2, ArrivalOK
  <2> QED BY <2>1 DEF Arrival, Covered, Bulk
<1>3. ASSUME NEW r \in Resource, ClaimOne(t, r) \/ ClearOne(t, r), ~Finish(t)
      PROVE  Covered(t)'
  <2>1. /\ task[t].pc \in {"claim", "clear"}
        /\ \/ Set(t, [task[t] EXCEPT !.todo = @ \ {r}])
           \/ Set(t, [task[t] EXCEPT !.todo = @ \ {r}, !.got = @ \cup {r}])
    BY <1>3 DEF ClaimOne, ClearOne
  <2>2. CASE Set(t, [task[t] EXCEPT !.todo = @ \ {r}])
    BY <1>0, <2>1, <2>2, NoLoopCovered DEF Set, TaskRecord
  <2>3. CASE Set(t, [task[t] EXCEPT !.todo = @ \ {r}, !.got = task[t].got \cup {r}])
    BY <1>0, <2>1, <2>3, TurnIs, NoLoopCovered
  <2> QED BY <2>1, <2>2, <2>3
<1>4. ASSUME NEW r \in Resource, SwapOne(t, r), ~Finish(t)
      PROVE  Covered(t)'
  <2>0. /\ task[t].pc = "swap" /\ UNCHANGED post
        /\ \/ /\ Set(t, [task[t] EXCEPT !.todo = @ \ {r}])
              /\ \/ UNCHANGED res /\ res[r] # "used"
                 \/ res' = [res EXCEPT ![r] = "gone"]
           \/ /\ Set(t, [task[t] EXCEPT !.todo = @ \ {r}, !.got = @ \cup {r}])
              /\ res' = [res EXCEPT ![r] = "used"]
    BY <1>4 DEF SwapOne, Found
  <2>1. PICK got : /\ Set(t, [task[t] EXCEPT !.todo = @ \ {r}, !.got = got])
                   /\ \/ /\ got = task[t].got
                         /\ \/ UNCHANGED res /\ res[r] # "used"
                            \/ res' = [res EXCEPT ![r] = "gone"]
                      \/ /\ got = task[t].got \cup {r}
                         /\ res' = [res EXCEPT ![r] = "used"]
    <3>1. [task[t] EXCEPT !.todo = @ \ {r}] = [task[t] EXCEPT !.todo = @ \ {r}, !.got = task[t].got]
      BY <1>0 DEF TaskRecord
    <3> QED BY <2>0, <3>1
  <2>2. /\ task'[t].pc = "swap" /\ task'[t].post = task[t].post
        /\ task'[t].todo = task[t].todo \ {r} /\ task'[t].got = got
    <3>1. Set(t, [task[t] EXCEPT !.todo = @ \ {r}, !.got = got]) /\ TypeOK
      BY <1>0, <2>1
    <3>2. /\ task'[t].pc = task[t].pc /\ task'[t].post = task[t].post
          /\ task'[t].todo = task[t].todo \ {r} /\ task'[t].got = got
      BY <3>1, TurnIs
    <3> QED BY <2>0, <3>2
  <2>3. \A s \in Resource : s # r => res'[s] = res[s]
    BY <1>0, <2>1
  <2>4. task[t].post \in Post /\ post[task[t].post].listed \subseteq Resource
    BY <1>0, <2>0 DEF TypeOK, PostRecord
  <2>5. ASSUME NEW s \in post[task[t].post].listed, res'[s] = "used"
        PROVE  s \in task'[t].todo \cup task'[t].got
    <3>1. CASE s = r
      BY <1>0, <2>1, <2>2, <2>5, <3>1
    <3>2. CASE s # r
      <4>1. s \in task[t].todo \cup task[t].got
        BY <1>0, <2>0, <2>1, <2>3, <2>4, <2>5, <3>2 DEF Covered
      <4> QED BY <2>1, <2>2, <3>2, <4>1
    <3> QED BY <3>1, <3>2
  <2> QED BY <2>0, <2>2, <2>5 DEF Covered
<1>5. ASSUME NEW r \in Resource, SweepOne(t, r)
      PROVE  Covered(t)'
  <2>1. /\ task[t].pc = "sweep" /\ task'[t].pc = "sweep" /\ task'[t].got = task[t].got
        /\ task'[t].todo = task[t].todo \ {r} /\ task[t].got \subseteq Resource
    BY <1>0, <1>5 DEF SweepOne, Set, TaskRecord
  <2>2. res'[r] # "used" /\ \A s \in Resource : s # r => res'[s] = res[s]
    BY <1>0, <1>5 DEF SweepOne, Destroy
  <2> QED BY <1>0, <2>1, <2>2 DEF Covered
<1>6. ASSUME NEW renew \in BOOLEAN, BeginSwap(t, renew)
      PROVE  Covered(t)'
  <2> DEFINE p == task[t].post
  <2>1. p \in Post /\ post'[p].listed = post[p].listed
    BY <1>0, <1>6 DEF BeginSwap, SetTime, TypeOK, PostRecord
  <2>2. /\ task'[t].pc = "swap" /\ task'[t].post = p
        /\ post[p].listed \subseteq task'[t].todo \cup task'[t].got
    BY <1>0, <1>6 DEF BeginSwap, Set, TaskRecord
  <2> QED BY <2>1, <2>2 DEF Covered
<1>7. CASE BeginClear(t)
  <2>1. task'[t].pc = "clear"
    BY <1>0, <1>7 DEF BeginClear, Set, TaskRecord
  <2> QED BY <2>1, NoLoopCovered
<1>8. CASE EndClear(t)
  <2>1. task'[t].pc = "drop" /\ task'[t].got = task[t].got /\ task[t].pc = "clear"
    BY <1>0, <1>8 DEF EndClear, Set, TaskRecord
  <2> QED BY <2>1 DEF Covered, CoreInv, ClearsListed
<1>9. ASSUME DropPost(t), ~Finish(t)
      PROVE  Covered(t)'
  <2>1. task'[t].pc = "gather" /\ task'[t].kind = task[t].kind /\ Bulk(t)
    BY <1>0, <1>9 DEF DropPost, Set, TaskRecord
  <2> QED BY <2>1 DEF Covered, Bulk
<1>10. CASE GatherOne(t) \/ \E p \in Post : NextPost(t, p)
  <2>1. task'[t].pc \in {"gather", "read", "drop"} /\ task'[t].kind = task[t].kind
        /\ task[t].pc \in {"gather", "read"}
    <3>1. CASE GatherOne(t)
      BY <1>0, <3>1 DEF GatherOne, Set, TaskRecord
    <3>2. CASE \E p \in Post : NextPost(t, p)
      BY <1>0, <3>2 DEF NextPost, Set, TaskRecord
    <3> QED BY <1>10, <3>1, <3>2
  <2> QED BY <1>0, <2>1 DEF Covered, Bulk, LoopsCover
<1>11. CASE EndGather(t)
  <2>1. task'[t].pc = "sweep" /\ task'[t].todo = task'[t].got
    BY <1>0, <1>11 DEF EndGather, Set, TaskRecord
  <2> QED BY <2>1 DEF Covered
<1> QED
  BY <1>1, <1>2, <1>3, <1>4, <1>5, <1>6, <1>7, <1>8, <1>9, <1>10, <1>11 DEF Step, Cancel,
     InsertPost, AbandonPost, Refused, RefuseTime, ModifyText, EndSwap, Pass, EndSweep

(* At first no loop is under way. *)
LEMMA LoopsInit == Init => LoopsCover
BY DEF Init, LoopsCover, Covered, Idle

(* No step makes a loop leave out a resource. *)
LEMMA LoopsStep == CoreInv /\ LoopsCover /\ [Next]_vars => LoopsCover'
<1> SUFFICES ASSUME CoreInv, LoopsCover, [Next]_vars, NEW t \in Task
             PROVE  Covered(t)'
  BY DEF LoopsCover
<1>1. CASE Arrive(t) \/ Step(t) \/ Cancel(t)
  BY <1>1, MoverCovered
<1>2. CASE ~(Arrive(t) \/ Step(t) \/ Cancel(t))
  <2>1. task'[t] = task[t]
    BY <1>2, MovesOne
  <2> QED BY <2>1, OthersCovered
<1> QED BY <1>1, <1>2

(* The invariant as a whole: who has what, and that no loop leaves one out. *)
THEOREM Safe == Spec => []SafeInv
BY CoreInit, CoreStep, LoopsInit, LoopsStep, PTL DEF Spec, SafeInv

(* How a step may leave r without a home. *)
Losing(t, r) ==
  \/ r \in Fresh(t) /\ UNCHANGED post
  \/ task[t].pc = "drop" /\ r \in post[task[t].post].listed \ task[t].got
  \/ Faults /\ task[t].pc = "swap" /\ r \in task[t].todo
  \/ Faults /\ r \in Collected(t) /\ UNCHANGED post

(* A post that shows r and then no longer does has lost it to the end of a    *)
(* swap that was cut short, or to its own removal.                            *)
LEMMA ListLoses ==
  ASSUME CoreInv, LoopsCover, [Next]_vars, NEW r \in Resource, NEW p \in Post,
         res'[r] = "used", IsLive(p), r \in post[p].listed, ~Housed(r)'
  PROVE  \E t \in Task : task'[t] # task[t] /\ Losing(t, r)
<1>0. /\ post \in [Post -> PostRecord] /\ task \in [Task -> TaskRecord] /\ TypeOK
      /\ ~(IsLive(p)' /\ r \in post'[p].listed)
  BY DEF CoreInv, TypeOK, Housed
<1>1. PICK t \in Task :
        \/ InsertPost(t, p)
        \/ /\ task[t].post = p
           /\ \/ \E renew \in BOOLEAN : ModifyText(t, renew)
              \/ EndSwap(t)
              \/ \E v \in Verdict : Pass(t, v)
              \/ DropPost(t)
  BY <1>0, PostChanges DEF IsLive
<1>2. ~InsertPost(t, p)
  BY DEF InsertPost, IsLive, Live, Verdict
<1>3. ASSUME NEW renew \in BOOLEAN, ModifyText(t, renew), task[t].post = p
      PROVE  FALSE
  BY <1>0, <1>3 DEF ModifyText, SetTime, IsLive, Live, PostRecord
<1>4. ASSUME NEW v \in Verdict, Pass(t, v), task[t].post = p
      PROVE  FALSE
  BY <1>0, <1>4 DEF Pass, IsLive, Live, PostRecord
<1>5. ASSUME EndSwap(t), task[t].post = p
      PROVE  task'[t] # task[t] /\ Losing(t, r)
  <2>1. task[t].pc = "swap" /\ LoopDone(t) /\ Set(t, Idle) /\ UNCHANGED res
    BY <1>5 DEF EndSwap, Finish
  <2>2. task'[t] # task[t]
    BY <1>0, <2>1 DEF Set, Idle
  <2>3. post'[p].listed = task[t].got /\ post'[p].status = "pending"
    BY <1>0, <1>5 DEF EndSwap, Swapped, PostRecord
  <2>4. r \notin task[t].got
    BY <1>0, <2>3 DEF IsLive, Live
  <2>5. r \in task[t].todo
    BY <1>5, <2>1, <2>4 DEF LoopsCover, Covered
  <2> QED BY <2>1, <2>2, <2>5 DEF LoopDone, Losing
<1>6. ASSUME DropPost(t), task[t].post = p
      PROVE  task'[t] # task[t] /\ Losing(t, r)
  <2>1. task[t].pc = "drop"
    BY <1>6 DEF DropPost
  <2>2. CASE Set(t, Idle) /\ ~Bulk(t)
    <3>1. task'[t] # task[t] /\ task[t].got = {}
      BY <1>0, <2>1, <2>2 DEF Set, Idle, LoopsCover, Covered
    <3> QED BY <1>6, <2>1, <3>1 DEF Losing
  <2>3. CASE Set(t, [task[t] EXCEPT !.pc = "gather", !.post = NoPost])
    <3>1. task'[t].pc = "gather" /\ task'[t].got = task[t].got
      BY <1>0, <2>3 DEF Set, TaskRecord
    <3>2. r \notin task[t].got
      BY <3>1 DEF Housed
    <3> QED BY <1>6, <2>1, <3>1, <3>2 DEF Losing
  <2> QED BY <1>6, <2>2, <2>3 DEF DropPost, Finish
<1> QED BY <1>1, <1>2, <1>3, <1>4, <1>5, <1>6

(* A request that has r and no longer does has blocked it itself and fails,   *)
(* or has stopped in the middle of a sweep.                                   *)
LEMMA HolderLoses ==
  ASSUME CoreInv, LoopsCover, [Next]_vars, NEW r \in Resource, NEW t \in Task,
         res'[r] = "used", r \in task[t].got, ~Housed(r)'
  PROVE  task'[t] # task[t] /\ Losing(t, r)
<1>0. /\ post \in [Post -> PostRecord] /\ task \in [Task -> TaskRecord] /\ TypeOK
      /\ task[t] \in TaskRecord /\ r \notin task'[t].got
      /\ \A p \in Post : ~(IsLive(p)' /\ r \in post'[p].listed)
  BY DEF CoreInv, TypeOK, Housed
<1>1. task'[t] # task[t]
  BY <1>0
<1>2. Arrive(t) \/ Step(t) \/ Cancel(t)
  BY <1>1, MovesOne
<1>3. task[t].pc \notin {"idle", "open", "clear"}
  BY DEF CoreInv, TypeOK, Idle, ClearsListed
<1>4. ~Arrive(t)
  BY <1>3 DEF Arrive, NewPost, Modify, Review, Remove, BulkRemove, RemoveUnused, Start
<1>5. ASSUME UNCHANGED post, task[t].pc \in {"claim", "swap"}
      PROVE  Losing(t, r)
  <2>1. CASE r \in Fresh(t)
    BY <1>5, <2>1 DEF Losing
  <2>2. CASE r \notin Fresh(t)
    <3>1. task[t].pc = "swap" /\ r \in post[task[t].post].listed
      BY <1>5, <2>2 DEF Fresh
    <3>2. task[t].post \in Post /\ IsLive(task[t].post)
      BY <3>1 DEF CoreInv, TypeOK, Guards
    <3> QED BY <1>0, <1>5, <3>1, <3>2 DEF IsLive
  <2> QED BY <2>1, <2>2
<1>6. CASE Cancel(t)
  <2>1. Faults /\ UNCHANGED post
    BY <1>6 DEF Cancel
  <2>2. task[t].pc \in {"claim", "swap", "gather", "read", "drop", "sweep"}
    BY <1>0, <1>3 DEF TaskRecord, Pc
  <2> QED BY <1>1, <1>5, <2>1, <2>2 DEF Losing, Collected
<1>7. ASSUME NEW s \in Resource, ClaimOne(t, s) \/ SwapOne(t, s)
      PROVE  Losing(t, r)
  BY <1>5, <1>7 DEF ClaimOne, SwapOne
<1>8. ASSUME NEW s \in Resource, ClearOne(t, s) \/ SweepOne(t, s)
      PROVE  FALSE
  BY <1>0, <1>8 DEF ClearOne, SweepOne, Set, TaskRecord
<1>9. ASSUME NEW p \in Post, InsertPost(t, p)
      PROVE  FALSE
  <2>1. post'[p].status = "pending" /\ post'[p].listed = task[t].got
    BY <1>0, <1>9 DEF InsertPost, Complete
  <2> QED BY <1>0, <2>1 DEF IsLive, Live
<1>10. CASE AbandonPost(t)
  BY <1>1, <1>5, <1>10 DEF AbandonPost
<1>11. CASE EndSwap(t)
  <2>1. task[t].post \in Post
    BY <1>11 DEF EndSwap, CoreInv, TypeOK
  <2>2. post'[task[t].post].listed = task[t].got /\ post'[task[t].post].status = "pending"
    BY <1>0, <1>11, <2>1 DEF EndSwap, Swapped, PostRecord
  <2> QED BY <1>0, <2>1, <2>2 DEF IsLive, Live
<1>12. CASE EndSweep(t)
  <2>1. task[t].pc = "sweep" /\ LoopDone(t) /\ UNCHANGED <<res, post>>
    BY <1>12 DEF EndSweep
  <2>2. r \in task[t].todo
    BY <2>1 DEF LoopsCover, Covered
  <2> QED BY <1>1, <2>1, <2>2 DEF LoopDone, Losing, Collected
<1>13. ASSUME DropPost(t)
       PROVE  FALSE
  <2>1. task[t].pc = "drop"
    BY <1>13 DEF DropPost
  <2>2. Bulk(t)
    BY <2>1 DEF LoopsCover, Covered
  <2>3. Set(t, [task[t] EXCEPT !.pc = "gather", !.post = NoPost])
    BY <1>13, <2>2 DEF DropPost
  <2>4. task'[t].got = task[t].got
    BY <1>0, <2>3 DEF Set, TaskRecord
  <2> QED BY <1>0, <2>4
<1>14. ASSUME EndGather(t) \/ GatherOne(t) \/ \E p \in Post : NextPost(t, p)
       PROVE  FALSE
  <2>1. CASE EndGather(t)
    BY <1>0, <2>1 DEF EndGather, Set, TaskRecord
  <2>2. CASE GatherOne(t)
    BY <1>0, <2>2 DEF GatherOne, Set, TaskRecord
  <2>3. ASSUME NEW p \in Post, NextPost(t, p)
        PROVE  FALSE
    BY <1>0, <2>3 DEF NextPost, Set, TaskRecord
  <2> QED BY <1>14, <2>1, <2>2, <2>3
<1> QED
  BY <1>1, <1>2, <1>3, <1>4, <1>6, <1>7, <1>8, <1>9, <1>10, <1>11, <1>12, <1>13, <1>14
     DEF Step, Refused, RefuseTime, ModifyText, BeginSwap, Pass, BeginClear, EndClear

(* A blocked resource loses its home only to the request that has blocked it  *)
(* itself, to the removal of its post, or to a loop that was cut short.       *)
THEOREM OrphanedByHolderAlways == Spec => OrphanedByHolder
<1> DEFINE A == \A r \in Resource :
       res'[r] = "used" /\ Housed(r) /\ ~Housed(r)' =>
         \E t \in Task :
           /\ task'[t] # task[t]
           /\ \/ r \in Fresh(t) /\ UNCHANGED post
              \/ task[t].pc = "drop" /\ r \in post[task[t].post].listed \ task[t].got
              \/ Faults /\ task[t].pc = "swap" /\ r \in task[t].todo
              \/ Faults /\ r \in Collected(t) /\ UNCHANGED post
<1>1. SafeInv /\ [Next]_vars => A
  <2> SUFFICES ASSUME SafeInv, [Next]_vars, NEW r \in Resource,
                      res'[r] = "used", Housed(r), ~Housed(r)'
               PROVE  \E t \in Task : task'[t] # task[t] /\ Losing(t, r)
    BY DEF Losing
  <2>1. CASE \E p \in Post : IsLive(p) /\ r \in post[p].listed
    BY <2>1, ListLoses DEF SafeInv
  <2>2. CASE \E t \in Task : r \in Fresh(t) \cup task[t].got
    <3>1. PICK t \in Task : r \in task[t].got
      BY <2>2 DEF Fresh
    <3> QED BY <3>1, HolderLoses DEF SafeInv
  <2> QED BY <2>1, <2>2 DEF Housed
<1>2. SafeInv /\ [Next]_vars => [A]_vars
  BY <1>1
<1> QED BY <1>2, Safe, PTL DEF Spec, OrphanedByHolder

-------------------------------------------------------------------------------
(* Progress: no deadlock, and every step of a handler goes down a well-founded *)
(* order.  What is left to fairness is that a handler which can go does.       *)

(* Only requests in "swap" and "clear" hold guards, and these two can go on. *)
THEOREM NeverStuckAnywhere == Spec => []NeverStuck
<1>1. ASSUME CoreInv
      PROVE  NeverStuck
  <2>1. SUFFICES ASSUME NEW t \in Task, task[t].pc # "idle", \A u \in Task : ~CanGo(u)
                 PROVE  FALSE
    BY DEF NeverStuck
  <2>2. \A p \in Post : Readers(p) = {} /\ Writers(p) = {}
    BY <2>1 DEF CanGo, Readers, Writers
  <2>3. task[t].pc \in {"open", "read", "drop"} /\ task[t].post \in Post
    BY <1>1, <2>1 DEF CoreInv, TypeOK, TaskRecord, Pc, CanGo
  <2> QED
    BY <2>1, <2>2, <2>3 DEF CanGo, Admitted, CanRead, CanWrite
<1> QED BY <1>1, CoreAlways, PTL

(* Setting a task is all a step does to the tasks. *)
LEMMA SetIs ==
  ASSUME TypeOK, NEW t \in Task, NEW rec, Set(t, rec)
  PROVE  task'[t] = rec /\ task[t] \in TaskRecord
BY DEF TypeOK, Set

(* Phases are numbers. *)
LEMMA PhaseType == Phase \in [Pc -> 0..4]
BY DEF Phase, Pc

(* Whoever is not idle gets nearer by ending. *)
LEMMA FinishNearer ==
  ASSUME TypeOK, NEW t \in Task, task[t].pc # "idle", Finish(t)
  PROVE  Nearer(task'[t], task[t])
<1>1. task'[t] = Idle /\ task[t].pc \in Pc
  BY SetIs DEF Finish, TaskRecord
<1>2. Phase["idle"] = 0 /\ \A c \in Pc : c # "idle" => Phase[c] > 0
  BY DEF Phase, Pc
<1> QED BY <1>1, <1>2 DEF Nearer, Idle

(* A turn of a loop over resources: one id less to visit. *)
LEMMA TurnNearer ==
  ASSUME TypeOK, NEW t \in Task, NEW r \in task[t].todo, NEW got,
         Set(t, [task[t] EXCEPT !.todo = @ \ {r}, !.got = got])
  PROVE  Nearer(task'[t], task[t])
<1>1. task'[t] = [task[t] EXCEPT !.todo = @ \ {r}, !.got = got] /\ task[t] \in TaskRecord
  BY SetIs
<1>2. /\ task'[t].pc = task[t].pc /\ task'[t].posts = task[t].posts
      /\ task'[t].todo = task[t].todo \ {r}
  BY <1>1 DEF TaskRecord
<1> QED BY <1>2 DEF Nearer, Fewer

(* The loops of new_post, modify, remove and bulk_remove. *)
LEMMA LoopsNearer ==
  ASSUME TypeOK, NEW t \in Task, NEW r \in Resource,
         ClaimOne(t, r) \/ SwapOne(t, r) \/ ClearOne(t, r) \/ SweepOne(t, r)
  PROVE  Nearer(task'[t], task[t])
<1>0. task[t] \in TaskRecord /\ task[t].pc # "idle" /\ r \in task[t].todo
  BY DEF TypeOK, ClaimOne, SwapOne, ClearOne, SweepOne
<1>1. \/ Finish(t)
      \/ Set(t, [task[t] EXCEPT !.todo = @ \ {r}])
      \/ Set(t, [task[t] EXCEPT !.todo = @ \ {r}, !.got = @ \cup {r}])
  BY DEF ClaimOne, SwapOne, ClearOne, SweepOne
<1>2. [task[t] EXCEPT !.todo = @ \ {r}] = [task[t] EXCEPT !.todo = @ \ {r}, !.got = task[t].got]
  BY <1>0 DEF TaskRecord
<1>3. [task[t] EXCEPT !.todo = @ \ {r}, !.got = @ \cup {r}]
        = [task[t] EXCEPT !.todo = @ \ {r}, !.got = task[t].got \cup {r}]
  BY <1>0 DEF TaskRecord
<1> QED BY <1>0, <1>1, <1>2, <1>3, FinishNearer, TurnNearer

(* The steps that change the phase or take a post off the list of a bulk_remove. *)
LEMMA StagesNearer ==
  ASSUME TypeOK, NEW t \in Task,
         \/ \E renew \in BOOLEAN : BeginSwap(t, renew)
         \/ BeginClear(t) \/ EndClear(t) \/ DropPost(t) \/ GatherOne(t) \/ EndGather(t)
         \/ \E p \in Post : NextPost(t, p)
  PROVE  Nearer(task'[t], task[t])
<1>0. task[t] \in TaskRecord
  BY DEF TypeOK
<1>1. ASSUME NEW renew \in BOOLEAN, BeginSwap(t, renew)
      PROVE  Nearer(task'[t], task[t])
  <2>1. task[t].pc = "open" /\ task'[t].pc = "swap"
    BY <1>0, <1>1 DEF BeginSwap, Set, TypeOK, TaskRecord
  <2> QED BY <2>1 DEF Nearer, Phase
<1>2. CASE BeginClear(t)
  <2>1. task[t].pc = "open" /\ task'[t].pc = "clear"
    BY <1>0, <1>2 DEF BeginClear, Set, TypeOK, TaskRecord
  <2> QED BY <2>1 DEF Nearer, Phase
<1>3. CASE EndClear(t)
  <2>1. task[t].pc = "clear" /\ task'[t].pc = "drop"
    BY <1>0, <1>3 DEF EndClear, Set, TypeOK, TaskRecord
  <2> QED BY <2>1 DEF Nearer, Phase
<1>4. CASE DropPost(t)
  <2>1. CASE Finish(t)
    BY <1>4, <2>1, FinishNearer DEF DropPost
  <2>2. CASE Set(t, [task[t] EXCEPT !.pc = "gather", !.post = NoPost])
    <3>1. task[t].pc = "drop" /\ task'[t].pc = "gather" /\ task'[t].posts = task[t].posts
      BY <1>0, <1>4, <2>2 DEF DropPost, Set, TypeOK, TaskRecord
    <3> QED BY <3>1 DEF Nearer
  <2> QED BY <1>4, <2>1, <2>2 DEF DropPost
<1>5. CASE EndGather(t)
  <2>1. task[t].pc = "gather" /\ task'[t].pc = "sweep"
    BY <1>0, <1>5 DEF EndGather, Set, TypeOK, TaskRecord
  <2> QED BY <2>1 DEF Nearer, Phase
<1>6. ASSUME NEW p \in Post, NextPost(t, p)
      PROVE  Nearer(task'[t], task[t])
  <2>1. task[t].pc = "gather" /\ p \in task[t].posts
    BY <1>6 DEF NextPost
  <2>2. task'[t].pc = "read" /\ task'[t].posts = task[t].posts \ {p}
    BY <1>0, <1>6 DEF NextPost, Set, TypeOK, TaskRecord
  <2> QED BY <2>1, <2>2 DEF Nearer, Phase, Fewer
<1>7. CASE GatherOne(t)
  <2>1. task[t].pc = "read" /\ task'[t].pc \in {"drop", "gather"}
        /\ task'[t].posts = task[t].posts
    BY <1>0, <1>7 DEF GatherOne, Set, TypeOK, TaskRecord
  <2> QED BY <2>1 DEF Nearer
<1> QED BY <1>1, <1>2, <1>3, <1>4, <1>5, <1>6, <1>7

(* Every step of a handler is one of these, or its last. *)
LEMMA StepNearer ==
  ASSUME TypeOK, NEW t \in Task, Step(t)
  PROVE  Nearer(task'[t], task[t])
<1>1. \/ \E r \in Resource : ClaimOne(t, r) \/ SwapOne(t, r) \/ ClearOne(t, r) \/ SweepOne(t, r)
      \/ \E renew \in BOOLEAN : BeginSwap(t, renew)
      \/ BeginClear(t) \/ EndClear(t) \/ DropPost(t) \/ GatherOne(t) \/ EndGather(t)
      \/ \E p \in Post : NextPost(t, p)
      \/ task[t].pc # "idle" /\ Finish(t)
  BY DEF Step, InsertPost, AbandonPost, Refused, RefuseTime, ModifyText, EndSwap, Pass, EndSweep
<1> QED BY <1>1, LoopsNearer, StagesNearer, FinishNearer

(* However posts and resources change under it, a handler never goes back. *)
THEOREM AnswerAlwaysGetsNearer == Spec => AnswerGetsNearer
<1> DEFINE A == \A t \in Task : task[t].pc # "idle" /\ task'[t] # task[t]
                  => Nearer(task'[t], task[t])
<1>1. TypeOK /\ [Next]_vars => A
  <2> SUFFICES ASSUME TypeOK, [Next]_vars, NEW t \in Task, task[t].pc # "idle", task'[t] # task[t]
               PROVE  Nearer(task'[t], task[t])
    OBVIOUS
  <2>1. PICK u \in Task : Arrive(u) \/ Step(u) \/ Cancel(u)
    BY DEF Next, vars, Environment, Upload, End
  <2>2. u = t
    <3>1. Set(u, task'[u])
      BY <2>1, ArrivalOK, StepTask DEF Cancel, Finish, Set, TypeOK
    <3> QED BY <3>1 DEF Set, TypeOK
  <2>3. ~Arrive(t)
    BY DEF Arrive, NewPost, Modify, Review, Remove, BulkRemove, RemoveUnused, Start
  <2> QED BY <2>1, <2>2, <2>3, StepNearer, FinishNearer DEF Cancel
<1>2. TypeOK /\ [Next]_vars => [A]_vars
  BY <1>1
<1> QED BY <1>2, TypeCorrect, PTL DEF Spec, AnswerGetsNearer

-------------------------------------------------------------------------------
(* The order of `Nearer`, as a lexicographic one. *)

Turns  == Nat \X (SUBSET Resource)
Rounds == (SUBSET Post) \X Turns
Ways   == Nat \X Rounds

NatOrder   == {ss \in Nat \X Nat : ss[1] < ss[2]}
TurnOrder  == LexPairOrdering(NatOrder, StrictSubsetOrdering(Resource), Nat, SUBSET Resource)
RoundOrder == LexPairOrdering(StrictSubsetOrdering(Post), TurnOrder, SUBSET Post, Turns)
Way        == LexPairOrdering(NatOrder, RoundOrder, Nat, Rounds)

AtPost(rec) == IF rec.pc = "read" THEN 2 ELSE IF rec.pc = "drop" THEN 1 ELSE 0
Left(rec) == <<Phase[rec.pc], <<rec.posts, <<AtPost(rec), rec.todo>>>>>>

(* With finitely many posts and resources there is no endless way down. *)
LEMMA WayEnds ==
  ASSUME IsFiniteSet(Post), IsFiniteSet(Resource)
  PROVE  IsWellFoundedOn(Way, Ways)
<1>1. IsWellFoundedOn(StrictSubsetOrdering(Resource), SUBSET Resource)
  BY FS_StrictSubsetOrderingWellFounded, FS_FiniteSubsetsOfFinite
<1>2. IsWellFoundedOn(StrictSubsetOrdering(Post), SUBSET Post)
  BY FS_StrictSubsetOrderingWellFounded, FS_FiniteSubsetsOfFinite
<1>3. IsWellFoundedOn(NatOrder, Nat)
  <2>1. OpToRel(<, Nat) = NatOrder
    BY Zenon DEF OpToRel, NatOrder
  <2> QED BY <2>1, NatLessThanWellFounded
<1>4. IsWellFoundedOn(TurnOrder, Turns)
  BY <1>1, <1>3, WFLexPairOrdering DEF TurnOrder, Turns
<1>5. IsWellFoundedOn(RoundOrder, Rounds)
  BY <1>2, <1>4, WFLexPairOrdering DEF RoundOrder, Rounds
<1> QED BY <1>3, <1>5, WFLexPairOrdering DEF Way, Ways

(* A record that is nearer has less left. *)
LEMMA NearerIsLess ==
  ASSUME NEW a \in TaskRecord, NEW b \in TaskRecord, Nearer(b, a)
  PROVE  <<Left(b), Left(a)>> \in Way
<1>1. Phase[a.pc] \in Nat /\ Phase[b.pc] \in Nat
  BY PhaseType DEF TaskRecord
<1>2. AtPost(a) \in Nat /\ AtPost(b) \in Nat
  BY DEF AtPost
<1>3. /\ a.posts \in SUBSET Post /\ b.posts \in SUBSET Post
      /\ a.todo \in SUBSET Resource /\ b.todo \in SUBSET Resource
  BY DEF TaskRecord
<1>4. CASE Phase[b.pc] < Phase[a.pc]
  BY <1>1, <1>2, <1>3, <1>4 DEF Left, Way, LexPairOrdering, NatOrder, Rounds, Turns
<1>5. CASE Phase[b.pc] = Phase[a.pc] /\ Fewer(b.posts, a.posts)
  <2>1. <<b.posts, a.posts>> \in StrictSubsetOrdering(Post)
    BY <1>3, <1>5 DEF StrictSubsetOrdering, Fewer
  <2>2. <<<<b.posts, <<AtPost(b), b.todo>>>>, <<a.posts, <<AtPost(a), a.todo>>>>>> \in RoundOrder
    BY <1>2, <1>3, <2>1 DEF RoundOrder, LexPairOrdering, Turns
  <2> QED BY <1>1, <1>2, <1>3, <1>5, <2>2 DEF Left, Way, LexPairOrdering, Rounds, Turns
<1>6. ASSUME Phase[b.pc] = Phase[a.pc], b.posts = a.posts,
             <<<<AtPost(b), b.todo>>, <<AtPost(a), a.todo>>>> \in TurnOrder
      PROVE  <<Left(b), Left(a)>> \in Way
  <2>1. <<<<b.posts, <<AtPost(b), b.todo>>>>, <<a.posts, <<AtPost(a), a.todo>>>>>> \in RoundOrder
    BY <1>2, <1>3, <1>6 DEF RoundOrder, LexPairOrdering, Turns
  <2> QED BY <1>1, <1>2, <1>3, <1>6, <2>1 DEF Left, Way, LexPairOrdering, Rounds, Turns
<1>7. CASE b.posts = a.posts /\ <<a.pc, b.pc>> \in {<<"read", "drop">>, <<"read", "gather">>,
                                                  <<"drop", "gather">>}
  <2>1. AtPost(b) < AtPost(a) /\ Phase[b.pc] = Phase[a.pc]
    BY <1>7 DEF AtPost, Phase
  <2>2. <<<<AtPost(b), b.todo>>, <<AtPost(a), a.todo>>>> \in TurnOrder
    BY <1>2, <1>3, <2>1 DEF TurnOrder, LexPairOrdering, NatOrder
  <2> QED BY <1>6, <1>7, <2>1, <2>2
<1>8. CASE a.pc = b.pc /\ b.posts = a.posts /\ Fewer(b.todo, a.todo)
  <2>1. <<b.todo, a.todo>> \in StrictSubsetOrdering(Resource) /\ AtPost(b) = AtPost(a)
    BY <1>3, <1>8 DEF StrictSubsetOrdering, Fewer, AtPost
  <2>2. <<<<AtPost(b), b.todo>>, <<AtPost(a), a.todo>>>> \in TurnOrder
    BY <1>2, <1>3, <2>1 DEF TurnOrder, LexPairOrdering
  <2> QED BY <1>6, <1>8, <2>2
<1> QED BY <1>4, <1>5, <1>7, <1>8 DEF Nearer

(* What a handler can still do before its answer. *)
Ahead == {ss \in TaskRecord \X TaskRecord : Nearer(ss[1], ss[2])}

(* No sequence of steps of one handler is endless: among finitely many posts  *)
(* and resources, every request has a last step, unless it waits for a guard. *)
THEOREM HandlersEnd ==
  ASSUME IsFiniteSet(Post), IsFiniteSet(Resource)
  PROVE  IsWellFoundedOn(Ahead, TaskRecord)
<1>1. ASSUME NEW T \in SUBSET TaskRecord, T # {}
      PROVE  \E x \in T : \A y \in T : <<y, x>> \notin Ahead
  <2> DEFINE lefts == {Left(x) : x \in T}
  <2>1. lefts \subseteq Ways /\ lefts # {}
    <3>1. ASSUME NEW x \in T
          PROVE  Left(x) \in Ways
      <4>1. x.pc \in Pc /\ x.posts \in SUBSET Post /\ x.todo \in SUBSET Resource
        BY <1>1, <3>1 DEF TaskRecord
      <4>2. Phase[x.pc] \in Nat /\ AtPost(x) \in Nat
        BY <4>1, PhaseType DEF AtPost
      <4> QED BY <4>1, <4>2 DEF Left, Ways, Rounds, Turns
    <3> QED BY <1>1, <3>1
  <2>2. PICK m \in lefts : \A l \in lefts : <<l, m>> \notin Way
    <3> HIDE DEF lefts
    <3> QED BY <2>1, WayEnds, WFMin
  <2>3. PICK x \in T : m = Left(x)
    OBVIOUS
  <2>4. ASSUME NEW y \in T, <<y, x>> \in Ahead
        PROVE  FALSE
    BY <1>1, <2>2, <2>3, <2>4, NearerIsLess DEF Ahead
  <2> QED BY <2>4
<1> QED BY <1>1, MinWF
===============================================================================
