------------------------------ MODULE Permissions ------------------------------
(***************************************************************************)
(* The guards of accounts (src/handle/account.rs, world `account`):         *)
(* set_permissions, get_info, and the handlers that write the caller's own  *)
(* account (modify, logout).                                                *)
(*                                                                         *)
(* va! takes the read guard of the caller's account.  set_permissions and   *)
(* get_info keep it until they return, and ask for the write or the read    *)
(* guard of the target's on top; modify and logout give it up at once for   *)
(* the write guard.  The lock prefers writers: who waits for the write guard *)
(* keeps new readers and other writers out.                                 *)
(***************************************************************************)
EXTENDS FiniteSets

CONSTANTS
  Account, Task,
  Permission,
  Setter,     \* Permission::SetPermissions
  Granted,    \* what each account may do to begin with
  NoAccount,  \* also: an id nobody has
  Faults      \* may clients disconnect and storage calls fail?

ASSUME SetterAssumption == Setter \in Permission /\ IsFiniteSet(Permission)
ASSUME GrantedAssumption ==
  /\ Granted \in [Account -> SUBSET Permission]
  /\ \E a \in Account : Setter \in Granted[a]
ASSUME NullAssumption == NoAccount \notin Account
ASSUME FaultsAssumption == Faults \in BOOLEAN

VARIABLES
  perms,  \* the Permission tags of each account
  task    \* the requests being served

vars == <<perms, task>>

(* "set": set_permissions, "info": get_info, "own": modify or logout. *)
Kind == {"set", "info", "own"}

(* "check" before va!, "lock" with the guard of the caller's account, "wait" *)
(* queued for the write guard of the target as well.                         *)
Pc == {"idle", "check", "lock", "wait"}

TaskRecord == [kind : Kind, pc : Pc, who : Account \cup {NoAccount},
               target : Account \cup {NoAccount}, want : SUBSET Permission]
Idle == [kind |-> "set", pc |-> "idle", who |-> NoAccount, target |-> NoAccount, want |-> {}]

Set(t, rec) == task' = [task EXCEPT ![t] = rec]
Finish(t)   == Set(t, Idle)

(* Read guards held, and the writer that is queued, for one account. *)
ReadersMutant(a) == {t \in Task : task[t].kind # "own" /\ task[t].pc # "idle" /\ task[t].who = a}
ReadersEarlyMutant(a) == {t \in Task : task[t].kind # "own" /\ task[t].pc = "lock" /\ task[t].who = a}
Readers(a) ==
  {t \in Task : task[t].kind # "own" /\ task[t].pc \in {"lock", "wait"} /\ task[t].who = a}
Queued(a)  == {t \in Task : task[t].pc = "wait" /\ task[t].target = a}

SetPermissions(t, a, b, want) ==
  /\ task[t].pc = "idle"
  /\ Set(t, [kind |-> "set", pc |-> "check", who |-> a, target |-> b, want |-> want])
  /\ UNCHANGED perms

GetInfo(t, a, b) ==
  /\ task[t].pc = "idle"
  /\ Set(t, [kind |-> "info", pc |-> "check", who |-> a, target |-> b, want |-> {}])
  /\ UNCHANGED perms

ModifyOwn(t, a) ==
  /\ task[t].pc = "idle"
  /\ Set(t, [kind |-> "own", pc |-> "check", who |-> a, target |-> a, want |-> {}])
  /\ UNCHANGED perms

(* va!, for set_permissions with SetPermissions, which no other contains. *)
Check(t) ==
  /\ task[t].pc = "check" /\ Queued(task[t].who) = {}
  /\ IF task[t].kind = "set" /\ Setter \notin perms[task[t].who]
     THEN Finish(t) ELSE Set(t, [task[t] EXCEPT !.pc = "lock"])
  /\ UNCHANGED perms

(* AccountNotFound *)
Missing(t) ==
  /\ task[t].pc = "lock" /\ task[t].target = NoAccount
  /\ Finish(t)
  /\ UNCHANGED perms

Lock(t) ==
  /\ task[t].pc = "lock" /\ task[t].target # NoAccount /\ task[t].kind # "info"
  /\ Queued(task[t].target) = {}
  /\ Set(t, [task[t] EXCEPT !.pc = "wait"])
  /\ UNCHANGED perms

(* get_info reads the target beside the caller, which may be the same account. *)
Look(t) ==
  /\ task[t].pc = "lock" /\ task[t].target # NoAccount /\ task[t].kind = "info"
  /\ Queued(task[t].target) = {}
  /\ Finish(t)
  /\ UNCHANGED perms

(* modify and logout do not touch permissions. *)
WriteOwn(t) ==
  /\ task[t].pc = "wait" /\ task[t].kind = "own" /\ Readers(task[t].target) = {}
  /\ Finish(t)
  /\ UNCHANGED perms

(* Only of accounts that may do no more than the caller, and only what the   *)
(* caller may do: the tags themselves, not what they contain.                *)
Legal(t) == task[t].want \cap perms[task[t].who]

GrantMutant(t) ==
  LET b == task[t].target IN
  /\ task[t].pc = "wait" /\ task[t].kind = "set" /\ Readers(b) = {}
  /\ perms' = [perms EXCEPT ![b] = Legal(t)]
  /\ Finish(t)
Grant(t) ==
  LET a == task[t].who  b == task[t].target IN
  /\ task[t].pc = "wait" /\ task[t].kind = "set" /\ Readers(b) = {}
  /\ perms' = IF perms[b] \subseteq perms[a] THEN [perms EXCEPT ![b] = Legal(t)] ELSE perms
  /\ Finish(t)

Cancel(t) ==
  /\ Faults /\ task[t].pc # "idle"
  /\ Finish(t)
  /\ UNCHANGED perms

Init == perms = Granted /\ task = [t \in Task |-> Idle]

Step(t) == Check(t) \/ Missing(t) \/ Lock(t) \/ Look(t) \/ WriteOwn(t) \/ Grant(t)

Arrive(t) ==
  \E a \in Account :
    \/ \E b \in Account \cup {NoAccount} :
         \/ \E want \in SUBSET Permission : SetPermissions(t, a, b, want)
         \/ GetInfo(t, a, b)
    \/ ModifyOwn(t, a)

Next == \E t \in Task : Arrive(t) \/ Step(t) \/ Cancel(t)

Spec == Init /\ [][Next]_vars

(* tokio polls every handler that can go on, and the lock lets nobody wait   *)
(* for ever whose turn comes up again and again.                             *)
FairSpec == Spec /\ \A t \in Task : SF_vars(Step(t))

-------------------------------------------------------------------------------
(* Properties *)

(* Shape of the state; at most one writer is queued for an account. *)
TypeOK ==
  /\ perms \in [Account -> SUBSET Permission]
  /\ task \in [Task -> TaskRecord]
  /\ \A t \in Task : /\ task[t].pc # "idle" => task[t].who \in Account
                     /\ task[t].pc = "wait" => task[t].target \in Account
  /\ \A t, u \in Task :
       task[t].pc = "wait" /\ task[u].pc = "wait" /\ task[t].target = task[u].target => t = u

(* Whoever sets permissions still has SetPermissions when it does, however   *)
(* long ago va! looked and whoever demoted accounts in between: it gives     *)
(* nothing it does not have and touches nobody who has more.                 *)
NoEscalation ==
  [][\A b \in Account : perms'[b] # perms[b] =>
       \E t \in Task :
         /\ task'[t] # task[t]
         /\ Setter \in perms[task[t].who]
         /\ perms'[b] \cup perms[b] \subseteq perms[task[t].who]]_vars

(* The system never runs out of accounts that can set permissions, even when *)
(* all of them demote each other at once.                                    *)
SetterRemains == \E a \in Account : Setter \in perms[a]

(* Requests go down: accounts set the permissions of, and look at, accounts    *)
(* that could do strictly less at the start.                                  *)
Downward ==
  \A t \in Task : task[t].target # NoAccount /\ task[t].kind # "own" =>
    /\ Granted[task[t].target] \subseteq Granted[task[t].who]
    /\ Granted[task[t].target] # Granted[task[t].who]

(* As long as requests go down, every one is answered. *)
EveryRequestEnds ==
  []Downward => \A t \in Task : task[t].pc # "idle" ~> task[t].pc = "idle"

(* The guards that the next step of a handler asks for are there. *)
CanGo(t) ==
  \/ task[t].pc = "check" /\ Queued(task[t].who) = {}
  \/ task[t].pc = "lock" /\ (task[t].target = NoAccount \/ Queued(task[t].target) = {})
  \/ task[t].pc = "wait" /\ Readers(task[t].target) = {}

(* The two guards a request needs are never waited for in a circle: while     *)
(* requests go down, one of those being served has what its next step needs,  *)
(* however many hold one guard and wait for another.                          *)
NeverStuck == Downward /\ (\E t \in Task : task[t].pc # "idle") => \E t \in Task : CanGo(t)

-------------------------------------------------------------------------------
(* The inductive invariant: a held guard keeps the caller's permission. *)
GuardKeepsSetter ==
  \A t \in Task : task[t].kind = "set" /\ task[t].pc \in {"lock", "wait"} => Setter \in perms[task[t].who]

SafeInv == TypeOK /\ GuardKeepsSetter /\ SetterRemains
===============================================================================
