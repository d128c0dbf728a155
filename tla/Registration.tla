------------------------------ MODULE Registration ------------------------------
(***************************************************************************)
(* Registration of one email address: send_captcha and register of         *)
(* src/handle/account.rs over the worlds `account` and                     *)
(* `unverified_account`.  Addresses do not influence each other.            *)
(*                                                                         *)
(* send_captcha mails under the write guard of the entry it found, but      *)
(* stores a new entry only after the mail has gone.  register takes the     *)
(* entry out of the world, and puts it back when the captcha is wrong.      *)
(* Each world is written to disk by a daemon of its own at its own interval; *)
(* a restart finds the two as old as their last flushes.                     *)
(***************************************************************************)
EXTENDS VerifyCx

CONSTANTS
  Task,
  MaxTime,     \* the clock stops here
  MaxCaptcha,  \* draws of a captcha
  Faults       \* may mails fail, clients disconnect and the process stop?

ASSUME BoundAssumption == MaxTime \in Nat /\ MaxCaptcha \in Nat
ASSUME FaultsAssumption == Faults \in BOOLEAN

VARIABLES
  now,
  drawn,    \* captchas drawn so far
  account,  \* captcha the account was registered with, 0 when there is none
  entry,    \* what the world `unverified_account` holds: at most one entry
  task,
  mails,    \* mails the SMTP server took, with the time of their request
  failed,   \* has a mail, a client or the process failed so far?
  disk      \* what restarts find: account and entry when they were last flushed

vars == <<now, drawn, account, entry, task, mails, failed, disk>>

Captcha == 1..MaxCaptcha
Entry   == Cx(Captcha, 0..MaxTime)

Pc == {"idle", "lookup", "resend", "first", "store", "take", "admit", "return"}

(* cx: the entries (none or one) the handler owns; input: captcha given.   *)
TaskRecord == [pc : Pc, cx : SUBSET Entry, input : 0..MaxCaptcha]
Idle == [pc |-> "idle", cx |-> {}, input |-> 0]

Set(t, rec) == task' = [task EXCEPT ![t] = rec]
Finish(t)   == Set(t, Idle)

(* The write guard of the stored entry is free. *)
FreeMutant == TRUE
Free == \A t \in Task : task[t].pc # "resend"

Mail(cx) == mails' = mails \cup {[captcha |-> cx.captcha, asked |-> cx.last]}

-------------------------------------------------------------------------------
(* send_captcha *)

SendCaptcha(t) ==
  /\ task[t].pc = "idle" /\ account = 0
  /\ Set(t, [Idle EXCEPT !.pc = "lookup"])
  /\ UNCHANGED <<now, drawn, account, entry, mails, failed, disk>>

(* The entry is there: update it under its guard, or ReqTooFrequent. *)
LookupFound(t) ==
  /\ task[t].pc = "lookup" /\ Free /\ entry # {}
  /\ IF \A cx \in entry : MayUpdate(cx, now)
     THEN /\ drawn < MaxCaptcha /\ drawn' = drawn + 1
          /\ entry' = {Updated(now, drawn + 1)}
          /\ Set(t, [task[t] EXCEPT !.pc = "resend"])
     ELSE /\ Finish(t)
          /\ UNCHANGED <<drawn, entry>>
  /\ UNCHANGED <<now, account, mails, failed, disk>>

(* It is not: update an entry of one's own, which nobody else can see. *)
LookupMissed(t) ==
  /\ task[t].pc = "lookup" /\ entry = {} /\ MayUpdate(New, now)
  /\ drawn < MaxCaptcha /\ drawn' = drawn + 1
  /\ Set(t, [task[t] EXCEPT !.pc = "first", !.cx = {Updated(now, drawn + 1)}])
  /\ UNCHANGED <<now, account, entry, mails, failed, disk>>

Resend(t) ==
  /\ task[t].pc = "resend"
  /\ \A cx \in entry : Mail(cx)
  /\ Finish(t)
  /\ UNCHANGED <<now, drawn, account, entry, failed, disk>>

SendFirst(t) ==
  /\ task[t].pc = "first"
  /\ \A cx \in task[t].cx : Mail(cx)
  /\ Set(t, [task[t] EXCEPT !.pc = "store"])
  /\ UNCHANGED <<now, drawn, account, entry, failed, disk>>

(* `insert` replaces whatever entry has appeared meanwhile. *)
Store(t) ==
  /\ task[t].pc = "store" /\ Free
  /\ entry' = task[t].cx
  /\ Finish(t)
  /\ UNCHANGED <<now, drawn, account, mails, failed, disk>>

-------------------------------------------------------------------------------
(* register *)

Register(t, c) ==
  /\ task[t].pc = "idle"
  /\ Set(t, [Idle EXCEPT !.pc = "take", !.input = c])
  /\ UNCHANGED <<now, drawn, account, entry, mails, failed, disk>>

(* The entry leaves the world before its captcha is looked at. *)
TakeMutant(t) ==
  /\ task[t].pc = "take" /\ Free
  /\ IF entry = {} THEN Finish(t)
     ELSE Set(t, [task[t] EXCEPT !.cx = entry,
            !.pc = IF \E cx \in entry : cx.captcha = task[t].input THEN "admit" ELSE "return"])
  /\ UNCHANGED <<now, drawn, account, entry, mails, failed, disk>>
Take(t) ==
  /\ task[t].pc = "take" /\ Free
  /\ IF entry = {} THEN Finish(t)
     ELSE Set(t, [task[t] EXCEPT !.cx = entry,
            !.pc = IF \E cx \in entry : cx.captcha = task[t].input THEN "admit" ELSE "return"])
  /\ entry' = {}
  /\ UNCHANGED <<now, drawn, account, mails, failed, disk>>

(* try_insert refuses to replace an account. *)
AdmitMutant(t) ==
  /\ task[t].pc = "admit"
  /\ account' = task[t].input
  /\ Finish(t)
  /\ UNCHANGED <<now, drawn, entry, mails, failed, disk>>
Admit(t) ==
  /\ task[t].pc = "admit"
  /\ account' = IF account = 0 THEN task[t].input ELSE account
  /\ Finish(t)
  /\ UNCHANGED <<now, drawn, entry, mails, failed, disk>>

ReturnMutant(t) ==
  /\ task[t].pc = "return" /\ Finish(t)
  /\ UNCHANGED <<now, drawn, account, entry, mails, failed, disk>>
Return(t) ==
  /\ task[t].pc = "return" /\ Free
  /\ entry' = task[t].cx
  /\ Finish(t)
  /\ UNCHANGED <<now, drawn, account, mails, failed, disk>>

-------------------------------------------------------------------------------
(* The SMTP server refuses, or the client goes away: what was updated stays. *)
Fail(t) ==
  /\ Faults /\ task[t].pc # "idle"
  /\ Finish(t)
  /\ failed' = TRUE
  /\ UNCHANGED <<now, drawn, account, entry, mails, disk>>

Tick ==
  /\ now < MaxTime /\ now' = now + 1
  /\ UNCHANGED <<drawn, account, entry, task, mails, failed, disk>>

(* The daemons. *)
FlushAccounts ==
  /\ disk.account # account /\ disk' = [disk EXCEPT !.account = account]
  /\ UNCHANGED <<now, drawn, account, entry, task, mails, failed>>

FlushEntries ==
  /\ Free /\ disk.entry # entry /\ disk' = [disk EXCEPT !.entry = entry]
  /\ UNCHANGED <<now, drawn, account, entry, task, mails, failed>>

(* The process stops and comes up with what is on disk. *)
Restart ==
  /\ Faults
  /\ account' = disk.account /\ entry' = disk.entry
  /\ task' = [t \in Task |-> Idle] /\ failed' = TRUE
  /\ UNCHANGED <<now, drawn, mails, disk>>

Init ==
  /\ now = 0 /\ drawn = 0 /\ account = 0
  /\ entry = {} /\ mails = {} /\ failed = FALSE
  /\ disk = [account |-> 0, entry |-> {}]
  /\ task = [t \in Task |-> Idle]

(* A client knows the captchas it was mailed; 0 stands for a wrong one. *)
Inputs == {0} \cup {m.captcha : m \in mails}

Next ==
  \/ Tick \/ FlushAccounts \/ FlushEntries \/ Restart
  \/ \E t \in Task :
       \/ SendCaptcha(t) \/ LookupFound(t) \/ LookupMissed(t)
       \/ Resend(t) \/ SendFirst(t) \/ Store(t)
       \/ \E c \in Inputs : Register(t, c)
       \/ Take(t) \/ Admit(t) \/ Return(t) \/ Fail(t)

Spec == Init /\ [][Next]_vars

-------------------------------------------------------------------------------
(* Properties *)

TypeOK ==
  /\ now \in 0..MaxTime /\ drawn \in 0..MaxCaptcha /\ account \in 0..MaxCaptcha
  /\ entry \subseteq Entry /\ \A x, y \in entry : x = y
  /\ task \in [Task -> TaskRecord]
  /\ \A t \in Task : /\ \A x, y \in task[t].cx : x = y
                     /\ task[t].pc = "idle" => task[t] = Idle
                     /\ task[t].pc = "resend" => entry # {}
  /\ mails \subseteq [captcha : Captcha, asked : 0..MaxTime] /\ failed \in BOOLEAN
  /\ disk \in [account : 0..MaxCaptcha, entry : SUBSET Entry]

(* An entry is in one place: the world, or one request that took or made it: *)
(* of any number of concurrent registers with the right captcha one succeeds. *)
EntryInOnePlace ==
  \A t \in Task :
    /\ task[t].cx \cap entry = {}
    /\ \A u \in Task : t # u => task[t].cx \cap task[u].cx = {}

(* An account is registered once: no late register replaces it, neither one  *)
(* that passed its check before nor one with an entry stored since, nor one    *)
(* with an entry that a restart has brought back.  Only a restart before its   *)
(* first flush loses it.                                                      *)
AccountKept ==
  [][/\ account # 0 => account' \in {account, disk.account}
     /\ disk.account # 0 => account' = disk.account]_vars

(* Tries with a wrong captcha cost nothing, however they overlap with each    *)
(* other and with send_captcha: once all are answered, the address has an     *)
(* entry with a captcha that was mailed (register puts back what it took).    *)
EntryKept ==
  (\A t \in Task : task[t].pc = "idle") /\ ~failed /\ account = 0 /\ mails # {}
    => \E cx \in entry, m \in mails : cx = [captcha |-> m.captcha, last |-> m.asked]

(* register never takes a captcha whose mail has not gone: a second request   *)
(* keeps the guard of the entry it has updated until the mail is out, and a   *)
(* first one stores its entry after that (send_captcha).                      *)
TakenWasMailed ==
  ~failed => \A t \in Task : task[t].pc \in {"admit", "return"} =>
    \A cx \in task[t].cx : \E m \in mails : cx = [captcha |-> m.captcha, last |-> m.asked]

(* The handlers implement the life of the captchas of an address: it takes a  *)
(* mailed one that lives to register, once; of any number of registers with   *)
(* it, beside new captchas and restarts, no other finds it alive again unless *)
(* a restart has brought it back from disk (register, send_captcha).          *)
Captchas(entries) == {cx.captcha : cx \in entries}

Address == INSTANCE Signup
  WITH drawn <- 1..drawn,
       live  <- Captchas(entry \cup UNION {task[t].cx : t \in Task}),
       mailed <- {m.captcha : m \in mails},
       savedAccount <- disk.account, savedLive <- Captchas(disk.entry)

ImplementsSignup == Address!Spec

-------------------------------------------------------------------------------
(* The inductive invariant behind these. *)

(* Entries carry captchas that were drawn and the time of a request; what is  *)
(* on disk is an account there is, and an entry of which there may be copies. *)
Dated(cx) == cx.captcha <= drawn /\ cx.last \in 0..MaxTime
Numbered ==
  /\ \A cx \in entry \cup disk.entry : Dated(cx)
  /\ \A x, y \in disk.entry : x = y
  /\ \A t \in Task : \A cx \in task[t].cx : Dated(cx)
  /\ disk.account \in {0, account}

Holds(t) == task[t].pc \in {"store", "admit", "return"}
Mailed(cx) == [captcha |-> cx.captcha, asked |-> cx.last] \in mails

(* A handler that is to store, to admit or to put back has an entry; without *)
(* failures it was mailed, as is the stored one unless its mail is going out, *)
(* and a mailed address without account has an entry in one of these places.  *)
Kept ==
  /\ \A t \in Task : Holds(t) \/ task[t].pc = "first" => task[t].cx # {}
  /\ \A t \in Task : task[t].pc = "admit" => task[t].input # 0
  /\ ~failed =>
       /\ \A t \in Task : Holds(t) => \A cx \in task[t].cx : Mailed(cx)
       /\ Free => \A cx \in entry : Mailed(cx)
       /\ account = 0 /\ mails # {} => entry # {} \/ \E t \in Task : Holds(t)

(* No two of the entries that handlers hold and the world has are for one     *)
(* captcha; what a handler was given is a captcha that was mailed, and what it *)
(* admits is for that one.                                                   *)
Distinct ==
  \A t \in Task :
    /\ \A x \in task[t].cx :
         /\ \A y \in entry : x.captcha # y.captcha
         /\ \A u \in Task : t # u => \A y \in task[u].cx : x.captcha # y.captcha
    /\ task[t].input \in Inputs
    /\ task[t].pc = "admit" => task[t].input \in Captchas(task[t].cx)
    /\ task[t].cx # {} => Holds(t) \/ task[t].pc = "first"

CoreInv == TypeOK /\ EntryInOnePlace /\ Numbered /\ Kept
SafeInv == CoreInv /\ Distinct
===============================================================================
