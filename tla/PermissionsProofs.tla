--------------------------- MODULE PermissionsProofs ---------------------------
(***************************************************************************)
(* Proofs about Permissions, for every set of accounts, tasks, permissions  *)
(* and initial grants, deadlocked states included.                          *)
(***************************************************************************)
EXTENDS Permissions, FiniteSetTheorems, WellFoundedInduction, TLAPS

(* Only Grant touches the tags: it demotes nobody who holds a read guard,    *)
(* and leaves its caller, who holds one, a setter.                           *)
LEMMA GrantKeeps ==
  ASSUME SafeInv, NEW t \in Task, Grant(t)
  PROVE  /\ Setter \in perms[task[t].who] /\ task[t].who \in Account
         /\ \A a \in Account : a # task[t].target => perms'[a] = perms[a]
         /\ \A u \in Task : task[u].kind = "set" /\ task[u].pc \in {"lock", "wait"}
                               => task[u].who # task[t].target
  BY DEF SafeInv, TypeOK, GuardKeepsSetter, Grant, Readers, TaskRecord

(* The tags keep their type, and no step but Grant writes them. *)
LEMMA PermsTyped ==
  ASSUME SafeInv, [Next]_vars
  PROVE  perms' \in [Account -> SUBSET Permission]
<1> USE DEF SafeInv, TypeOK
<1>1. CASE UNCHANGED vars
  BY <1>1 DEF vars
<1>2. ASSUME NEW t \in Task, Grant(t)
      PROVE  perms' \in [Account -> SUBSET Permission]
  <2>1. Legal(t) \subseteq Permission
    BY DEF Legal, TaskRecord
  <2> QED
    BY <1>2, <2>1 DEF Grant
<1>3. ASSUME NEW t \in Task, ~Grant(t), Step(t) \/ Cancel(t)
      PROVE  UNCHANGED perms
  BY <1>3 DEF Step, Cancel, Check, Missing, Lock, Look, WriteOwn
<1>4. ASSUME NEW t \in Task, Arrive(t)
      PROVE  UNCHANGED perms
  BY <1>4 DEF Arrive, SetPermissions, GetInfo, ModifyOwn
<1> QED
  BY <1>1, <1>2, <1>3, <1>4 DEF Next

(* A new request holds no guard yet. *)
LEMMA ArriveIsCheck ==
  ASSUME NEW t \in Task, Arrive(t)
  PROVE  \E k \in Kind, a \in Account, b \in Account \cup {NoAccount}, want \in SUBSET Permission :
           task' = [task EXCEPT ![t] =
                      [kind |-> k, pc |-> "check", who |-> a, target |-> b, want |-> want]]
<1>1. ASSUME NEW a \in Account, NEW b \in Account \cup {NoAccount}, NEW want \in SUBSET Permission,
             SetPermissions(t, a, b, want)
      PROVE  task' = [task EXCEPT ![t] =
                        [kind |-> "set", pc |-> "check", who |-> a, target |-> b, want |-> want]]
  BY <1>1 DEF SetPermissions, Set
<1>2. ASSUME NEW a \in Account, NEW b \in Account \cup {NoAccount}, GetInfo(t, a, b)
      PROVE  task' = [task EXCEPT ![t] =
                        [kind |-> "info", pc |-> "check", who |-> a, target |-> b, want |-> {}]]
  BY <1>2 DEF GetInfo, Set
<1>3. ASSUME NEW a \in Account, ModifyOwn(t, a)
      PROVE  task' = [task EXCEPT ![t] =
                        [kind |-> "own", pc |-> "check", who |-> a, target |-> a, want |-> {}]]
  BY <1>3 DEF ModifyOwn, Set
<1>4. {"set", "info", "own"} \subseteq Kind /\ {} \in SUBSET Permission
  BY DEF Kind
<1> QED
  BY <1>1, <1>2, <1>3, <1>4 DEF Arrive

(* Requests keep their type, and one writer is queued per account. *)
LEMMA TaskTyped ==
  ASSUME SafeInv, [Next]_vars
  PROVE  TypeOK'
<1> USE DEF SafeInv, TypeOK
<1>0. perms' \in [Account -> SUBSET Permission]
  BY PermsTyped
<1>1. CASE UNCHANGED vars
  BY <1>1 DEF vars
<1>2. ASSUME NEW t \in Task, Arrive(t)
      PROVE  TypeOK'
  <2>1. PICK k \in Kind, a \in Account, b \in Account \cup {NoAccount}, want \in SUBSET Permission :
          task' = [task EXCEPT ![t] =
                     [kind |-> k, pc |-> "check", who |-> a, target |-> b, want |-> want]]
    BY <1>2, ArriveIsCheck
  <2>2. [kind |-> k, pc |-> "check", who |-> a, target |-> b, want |-> want] \in TaskRecord
    BY DEF TaskRecord, Pc
  <2> QED
    BY <1>0, <2>1, <2>2
<1>3. Idle \in TaskRecord
  BY DEF Idle, TaskRecord, Pc, Kind
<1>4. ASSUME NEW t \in Task, Finish(t)
      PROVE  TypeOK'
  BY <1>0, <1>3, <1>4 DEF Finish, Set, Idle
<1>5. ASSUME NEW t \in Task, Check(t)
      PROVE  TypeOK'
  <2>1. CASE Finish(t)
    BY <1>4, <2>1
  <2>2. CASE Set(t, [task[t] EXCEPT !.pc = "lock"])
    BY <1>0, <1>5, <2>2 DEF Check, Set, TaskRecord, Pc
  <2> QED
    BY <1>5, <2>1, <2>2 DEF Check
<1>6. ASSUME NEW t \in Task, Lock(t)
      PROVE  TypeOK'
  BY <1>0, <1>6 DEF Lock, Set, TaskRecord, Pc, Queued
<1> QED
  BY <1>1, <1>2, <1>4, <1>5, <1>6 DEF Next, Step, Missing, Look, WriteOwn, Grant, Cancel

(* The invariant of `Spec`. *)
THEOREM Safe == Spec => []SafeInv
<1>1. Init => SafeInv
  BY GrantedAssumption, NullAssumption
     DEF Init, SafeInv, TypeOK, GuardKeepsSetter, SetterRemains, TaskRecord, Idle, Pc, Kind
<1>2. ASSUME SafeInv, [Next]_vars
      PROVE  SafeInv'
  <2>1. TypeOK'
    BY <1>2, TaskTyped
  <2>2. CASE UNCHANGED vars
    BY <1>2, <2>1, <2>2 DEF vars, SafeInv, GuardKeepsSetter, SetterRemains
  <2>3. ASSUME NEW t \in Task, Grant(t)
        PROVE  GuardKeepsSetter' /\ SetterRemains'
    <3>1. /\ Setter \in perms[task[t].who] /\ task[t].who \in Account
          /\ \A a \in Account : a # task[t].target => perms'[a] = perms[a]
          /\ \A u \in Task : task[u].kind = "set" /\ task[u].pc \in {"lock", "wait"}
                               => task[u].who # task[t].target
      BY <1>2, <2>3, GrantKeeps
    <3>2. task[t].kind = "set" /\ task[t].pc = "wait" /\ task' = [task EXCEPT ![t] = Idle]
      BY <2>3 DEF Grant, Finish, Set
    <3>3. SetterRemains'
      BY <3>1, <3>2 DEF SetterRemains
    <3>4. GuardKeepsSetter'
      BY <1>2, <3>1, <3>2 DEF SafeInv, TypeOK, GuardKeepsSetter, Idle
    <3> QED
      BY <3>3, <3>4
  <2>4. ASSUME NEW t \in Task, UNCHANGED perms,
               task' = [task EXCEPT ![t] = task'[t]],
               task'[t].kind = "set" /\ task'[t].pc \in {"lock", "wait"} => Setter \in perms[task'[t].who]
        PROVE  GuardKeepsSetter' /\ SetterRemains'
    BY <1>2, <2>4 DEF SafeInv, TypeOK, GuardKeepsSetter, SetterRemains
  <2>5. ASSUME NEW t \in Task, Arrive(t)
        PROVE  GuardKeepsSetter' /\ SetterRemains'
    <3>1. PICK k \in Kind, a \in Account, b \in Account \cup {NoAccount}, want \in SUBSET Permission :
            task' = [task EXCEPT ![t] =
                       [kind |-> k, pc |-> "check", who |-> a, target |-> b, want |-> want]]
      BY <2>5, ArriveIsCheck
    <3>2. UNCHANGED perms
      BY <2>5 DEF Arrive, SetPermissions, GetInfo, ModifyOwn
    <3> QED
      BY <1>2, <2>4, <3>1, <3>2 DEF SafeInv, TypeOK
  <2>6. ASSUME NEW t \in Task, Check(t)
        PROVE  GuardKeepsSetter' /\ SetterRemains'
    BY <1>2, <2>4, <2>6 DEF Check, Set, Finish, Idle, SafeInv, TypeOK, TaskRecord
  <2>7. ASSUME NEW t \in Task, Missing(t) \/ Look(t) \/ WriteOwn(t) \/ Cancel(t)
        PROVE  GuardKeepsSetter' /\ SetterRemains'
    BY <1>2, <2>4, <2>7 DEF Missing, Look, WriteOwn, Cancel, Set, Finish, Idle, SafeInv, TypeOK
  <2>8. ASSUME NEW t \in Task, Lock(t)
        PROVE  GuardKeepsSetter' /\ SetterRemains'
    BY <1>2, <2>4, <2>8 DEF Lock, Set, SafeInv, TypeOK, TaskRecord, GuardKeepsSetter
  <2>9. CASE Next
    <3>1. PICK t \in Task :
            \/ Arrive(t) \/ Check(t) \/ Missing(t) \/ Lock(t) \/ Look(t)
            \/ WriteOwn(t) \/ Grant(t) \/ Cancel(t)
      BY <2>9 DEF Next, Step
    <3> QED
      BY <3>1, <2>1, <2>3, <2>5, <2>6, <2>7, <2>8 DEF SafeInv
  <2> QED
    BY <1>2, <2>2, <2>9
<1> QED
  BY <1>1, <1>2, PTL DEF Spec

(* Shape of the state, and one queued writer per account. *)
THEOREM TypeCorrect == Spec => []TypeOK
<1>1. SafeInv => TypeOK
  BY DEF SafeInv
<1> QED
  BY <1>1, Safe, PTL

(* However accounts demote each other, some account can set permissions. *)
THEOREM SetterAlwaysRemains == Spec => []SetterRemains
<1>1. SafeInv => SetterRemains
  BY DEF SafeInv
<1> QED
  BY <1>1, Safe, PTL

(* No grant rests on a permission that was lost since va! looked at it. *)
THEOREM NoEscalationAlways == Spec => NoEscalation
<1> DEFINE Backed == \A b \in Account : perms'[b] # perms[b] =>
                       \E t \in Task :
                         /\ task'[t] # task[t]
                         /\ Setter \in perms[task[t].who]
                         /\ perms'[b] \cup perms[b] \subseteq perms[task[t].who]
<1>1. ASSUME SafeInv, Next
      PROVE  Backed
  <2>1. ASSUME NEW t \in Task, Grant(t)
        PROVE  Backed
    <3>1. Setter \in perms[task[t].who]
      BY <1>1, <2>1, GrantKeeps
    <3>2. task'[t] # task[t]
      BY <1>1, <2>1 DEF Grant, Finish, Set, Idle, SafeInv, TypeOK
    <3>3. ASSUME NEW b \in Account, perms'[b] # perms[b]
          PROVE  perms'[b] \cup perms[b] \subseteq perms[task[t].who]
      BY <1>1, <2>1, <3>3 DEF Grant, Legal, SafeInv, TypeOK
    <3> QED
      BY <3>1, <3>2, <3>3
  <2>2. ASSUME UNCHANGED perms
        PROVE  Backed
    BY <2>2
  <2>3. \/ UNCHANGED perms
        \/ \E t \in Task : Grant(t)
    BY <1>1 DEF Next, Step, Check, Missing, Lock, Look, WriteOwn, Cancel,
                 Arrive, SetPermissions, GetInfo, ModifyOwn
  <2> QED
    BY <2>1, <2>2, <2>3
<1>2. UNCHANGED vars => Backed
  BY DEF vars
<1>3. SafeInv /\ [Next]_vars => [Backed]_vars
  BY <1>1, <1>2
<1> QED
  BY <1>3, Safe, PTL DEF Spec, NoEscalation

-------------------------------------------------------------------------------
(* No circle of requests that wait. *)

(* Tasks that wait for readers to go, and what the least of them asks for. *)
Waiting == {t \in Task : task[t].pc = "wait"}
Asked   == {Granted[task[t].target] : t \in Waiting}

(* Some waiting request asks for an account that could do no more at the      *)
(* start than any other account that is asked for.                            *)
LEMMA LeastAsked ==
  ASSUME TypeOK, Waiting # {}
  PROVE  \E t \in Waiting : \A u \in Waiting :
           Granted[task[u].target] \subseteq Granted[task[t].target]
             => Granted[task[u].target] = Granted[task[t].target]
<1>1. IsWellFoundedOn(StrictSubsetOrdering(Permission), SUBSET Permission)
  BY SetterAssumption, FS_StrictSubsetOrderingWellFounded, FS_FiniteSubsetsOfFinite
<1>2. Asked \subseteq SUBSET Permission /\ Asked # {}
  BY GrantedAssumption DEF Asked, Waiting, TypeOK
<1>3. PICK least \in Asked : \A g \in Asked : <<g, least>> \notin StrictSubsetOrdering(Permission)
  BY <1>1, <1>2, WFMin
<1>4. PICK t \in Waiting : least = Granted[task[t].target]
  BY DEF Asked
<1>5. ASSUME NEW u \in Waiting, Granted[task[u].target] \subseteq Granted[task[t].target]
      PROVE  Granted[task[u].target] = Granted[task[t].target]
  <2> DEFINE g == Granted[task[u].target]
  <2>1. g \in Asked
    BY DEF Asked
  <2>2. <<g, least>> \in (SUBSET Permission) \X (SUBSET Permission)
    BY <1>2, <2>1
  <2>3. ~(<<g, least>>[1] \subseteq <<g, least>>[2] /\ <<g, least>>[1] # <<g, least>>[2])
    BY <1>3, <2>1, <2>2 DEF StrictSubsetOrdering
  <2> QED
    BY <1>4, <1>5, <2>3
<1> QED
  BY <1>5

(* The account a waiting request asks for is read by a request that asks for  *)
(* an account below; if that one cannot go, its account is waited for.        *)
LEMMA WaitsDescend ==
  ASSUME TypeOK, Downward, NEW t \in Waiting, \A u \in Task : ~CanGo(u)
  PROVE  \E w \in Waiting :
           /\ Granted[task[w].target] \subseteq Granted[task[t].target]
           /\ Granted[task[w].target] # Granted[task[t].target]
<1>1. PICK u \in Task : /\ task[u].kind # "own" /\ task[u].pc \in {"lock", "wait"}
                        /\ task[u].who = task[t].target
  BY DEF Waiting, CanGo, Readers
<1>2. \E w \in Waiting : task[w].target = task[u].target
  BY <1>1 DEF CanGo, Queued, Waiting
<1>3. task[u].target # NoAccount
  BY <1>1, NullAssumption DEF CanGo, TypeOK
<1> QED
  BY <1>1, <1>2, <1>3 DEF Downward

(* For any number of accounts and requests: a hierarchy rules deadlock out. *)
THEOREM NeverStuckAnywhere == Spec => []NeverStuck
<1>1. ASSUME SafeInv
      PROVE  NeverStuck
  <2>0. TypeOK
    BY <1>1 DEF SafeInv
  <2>1. SUFFICES ASSUME Downward, NEW t \in Task, task[t].pc # "idle", \A u \in Task : ~CanGo(u)
                 PROVE  FALSE
    BY DEF NeverStuck
  <2>2. Waiting # {}
    <3>1. task[t].pc \in {"check", "lock", "wait"}
      BY <2>0, <2>1 DEF TypeOK, TaskRecord, Pc
    <3> QED
      BY <2>1, <3>1 DEF CanGo, Queued, Waiting
  <2> QED
    BY <2>0, <2>1, <2>2, LeastAsked, WaitsDescend
<1> QED
  BY <1>1, Safe, PTL
===============================================================================
