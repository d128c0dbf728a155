--------------------------- MODULE RegistrationProofs ---------------------------
(***************************************************************************)
(* Proofs about Registration, for any number of requests and captchas, any  *)
(* limit, and any faults.                                                   *)
(***************************************************************************)
EXTENDS Registration, TLAPS

(* What CoreInv says of one handler by itself. *)
HandlerOK(rec) ==
  /\ rec \in TaskRecord
  /\ \A x, y \in rec.cx : x = y
  /\ rec.pc = "idle" => rec = Idle
  /\ rec.pc \in {"first", "store", "admit", "return"} => rec.cx # {}
  /\ rec.pc = "admit" => rec.input # 0

(* What it says of the worlds, the mails and the disk. *)
WorldsOK ==
  /\ now \in 0..MaxTime /\ drawn \in 0..MaxCaptcha /\ account \in 0..MaxCaptcha
  /\ entry \subseteq Entry /\ \A x, y \in entry : x = y
  /\ mails \subseteq [captcha : Captcha, asked : 0..MaxTime] /\ failed \in BOOLEAN
  /\ disk \in [account : 0..MaxCaptcha, entry : SUBSET Entry]
  /\ \A x, y \in disk.entry : x = y
  /\ disk.account \in {0, account}

(* What it says of handlers and entries together. *)
PlacesOK ==
  /\ \A cx \in entry \cup disk.entry : Dated(cx)
  /\ \A t \in Task : \A cx \in task[t].cx : Dated(cx)
  /\ EntryInOnePlace
  /\ \A t \in Task : task[t].pc = "resend" => entry # {}

(* And of what was mailed, as long as nothing has failed. *)
MailsOK ==
  ~failed =>
    /\ \A t \in Task : Holds(t) => \A cx \in task[t].cx : Mailed(cx)
    /\ Free => \A cx \in entry : Mailed(cx)
    /\ account = 0 /\ mails # {} => entry # {} \/ \E t \in Task : Holds(t)

HandlersOK == task \in [Task -> TaskRecord] /\ \A t \in Task : HandlerOK(task[t])

(* These are the parts of CoreInv. *)
LEMMA Parts ==
  /\ CoreInv => HandlersOK /\ WorldsOK /\ PlacesOK /\ MailsOK
  /\ HandlersOK /\ WorldsOK /\ PlacesOK /\ MailsOK => CoreInv
<1>1. CoreInv => HandlersOK
  BY DEF CoreInv, TypeOK, Kept, HandlersOK, HandlerOK, Holds
<1>2. CoreInv => WorldsOK /\ PlacesOK /\ MailsOK
  BY DEF CoreInv, TypeOK, Numbered, Kept, WorldsOK, PlacesOK, MailsOK
<1>3. HandlersOK /\ WorldsOK /\ PlacesOK => TypeOK /\ Numbered /\ EntryInOnePlace
  BY DEF TypeOK, Numbered, HandlersOK, HandlerOK, WorldsOK, PlacesOK
<1>4. HandlersOK /\ MailsOK => Kept
  BY DEF Kept, Holds, HandlersOK, HandlerOK, MailsOK
<1> QED BY <1>1, <1>2, <1>3, <1>4 DEF CoreInv

(* And so after a step. *)
LEMMA PartsThen == HandlersOK' /\ WorldsOK' /\ PlacesOK' /\ MailsOK' => CoreInv'
BY Parts, PTL

(* Set gives one handler a record and leaves the others alone. *)
LEMMA SetOK ==
  ASSUME HandlersOK, NEW t \in Task, NEW rec, HandlerOK(rec), Set(t, rec)
  PROVE  /\ HandlersOK' /\ task'[t] = rec
         /\ \A u \in Task \ {t} : task'[u] = task[u]
BY DEF HandlersOK, HandlerOK, Set

(* A handler that has nothing in hand. *)
LEMMA IdleOK == HandlerOK(Idle) /\ Idle.pc = "idle" /\ Idle.cx = {}
BY BoundAssumption DEF HandlerOK, Idle, TaskRecord, Pc

(* Dated, after the step. *)
DatedThen(cx) == cx.captcha <= drawn' /\ cx.last \in 0..MaxTime

(* What was dated stays so as captchas are drawn. *)
LEMMA DatedStays ==
  ASSUME NEW cx \in Entry, Dated(cx), drawn \in Int, drawn' \in Int, drawn <= drawn'
  PROVE  DatedThen(cx)
<1>1. cx.captcha \in Int
  BY BoundAssumption DEF Entry, Cx, Captcha
<1> QED BY <1>1 DEF Dated, DatedThen

(* The next entry differs from all there are. *)
LEMMA FreshEntry ==
  ASSUME WorldsOK, drawn < MaxCaptcha, drawn' = drawn + 1
  PROVE  LET c == Updated(now, drawn + 1) IN
         /\ c \in Entry /\ DatedThen(c) /\ drawn' \in 0..MaxCaptcha /\ drawn \in Int /\ drawn <= drawn'
         /\ \A cx \in Entry : Dated(cx) => cx # c
<1>1. drawn \in 0..MaxCaptcha /\ now \in 0..MaxTime /\ MaxCaptcha \in Nat
  BY BoundAssumption DEF WorldsOK
<1>2. Updated(now, drawn + 1).captcha = drawn + 1 /\ Updated(now, drawn + 1).last = now
      /\ Updated(now, drawn + 1) \in Entry
  BY <1>1 DEF Updated, Entry, Cx, Captcha
<1>3. \A cx \in Entry : cx.captcha \in Int
  BY <1>1 DEF Entry, Cx, Captcha
<1>4. DatedThen(Updated(now, drawn + 1))
  BY <1>1, <1>2 DEF DatedThen
<1> QED BY <1>1, <1>2, <1>3, <1>4 DEF Dated

-------------------------------------------------------------------------------
(* A handler that comes, or goes without having been needed. *)
LEMMA Drop ==
  ASSUME CoreInv, NEW t \in Task, NEW rec, HandlerOK(rec), Set(t, rec),
         rec.pc \in {"idle", "lookup", "take"}, rec.cx = {},
         UNCHANGED <<now, drawn, account, entry, mails, disk>>,
         \/ failed' = TRUE
         \/ failed' = failed /\ ~Holds(t) /\ task[t].pc # "resend"
  PROVE  CoreInv'
<1>0. HandlersOK /\ WorldsOK /\ PlacesOK /\ MailsOK
  BY Parts
<1>1. HandlersOK' /\ task'[t] = rec /\ \A u \in Task \ {t} : task'[u] = task[u]
  BY <1>0, SetOK
<1>2. WorldsOK'
  BY <1>0 DEF WorldsOK
<1>3. PlacesOK'
  BY <1>0, <1>1 DEF PlacesOK, EntryInOnePlace, Dated
<1>4. MailsOK'
  <2>1. CASE failed' = TRUE
    BY <2>1 DEF MailsOK
  <2>2. CASE failed' = failed /\ ~Holds(t) /\ task[t].pc # "resend"
    BY <1>0, <1>1, <2>2 DEF MailsOK, Holds, Free, Mailed
  <2> QED BY <2>1, <2>2
<1> QED BY <1>1, <1>2, <1>3, <1>4, PartsThen

(* An arriving handler. *)
LEMMA ArriveStep ==
  ASSUME CoreInv, NEW t \in Task, SendCaptcha(t) \/ \E c \in Inputs : Register(t, c)
  PROVE  CoreInv'
<1>1. ASSUME SendCaptcha(t) PROVE CoreInv'
  <2> DEFINE rec == [Idle EXCEPT !.pc = "lookup"]
  <2>1. HandlerOK(rec) /\ rec.pc = "lookup" /\ rec.cx = {}
    BY IdleOK DEF HandlerOK, Idle, TaskRecord, Pc
  <2>2. Set(t, rec) /\ UNCHANGED <<now, drawn, account, entry, mails, disk, failed>>
        /\ task[t].pc = "idle"
    BY <1>1 DEF SendCaptcha
  <2> HIDE DEF rec
  <2> QED BY <2>1, <2>2, Drop DEF Holds
<1>2. ASSUME NEW c \in Inputs, Register(t, c) PROVE CoreInv'
  <2> DEFINE rec == [Idle EXCEPT !.pc = "take", !.input = c]
  <2>1. c \in 0..MaxCaptcha
    BY BoundAssumption DEF CoreInv, TypeOK, Inputs, Captcha
  <2>2. HandlerOK(rec) /\ rec.pc = "take" /\ rec.cx = {}
    BY <2>1, IdleOK DEF HandlerOK, Idle, TaskRecord, Pc
  <2>3. Set(t, rec) /\ UNCHANGED <<now, drawn, account, entry, mails, disk, failed>>
        /\ task[t].pc = "idle"
    BY <1>2 DEF Register
  <2> HIDE DEF rec
  <2> QED BY <2>2, <2>3, Drop DEF Holds
<1> QED BY <1>1, <1>2

(* LookupFound renews the entry, or refuses. *)
LEMMA LookupFoundStep ==
  ASSUME CoreInv, NEW t \in Task, LookupFound(t)
  PROVE  CoreInv'
<1>0. HandlersOK /\ WorldsOK /\ PlacesOK /\ MailsOK
  BY Parts
<1>1. CASE Finish(t) /\ UNCHANGED <<drawn, entry>>
  BY <1>1, IdleOK, Drop DEF LookupFound, Finish, Holds
<1>2. CASE /\ drawn < MaxCaptcha /\ drawn' = drawn + 1
           /\ entry' = {Updated(now, drawn + 1)}
           /\ Set(t, [task[t] EXCEPT !.pc = "resend"])
  <2> DEFINE rec == [task[t] EXCEPT !.pc = "resend"]
             c == Updated(now, drawn + 1)
  <2>1. /\ c \in Entry /\ DatedThen(c) /\ drawn' \in 0..MaxCaptcha /\ drawn \in Int /\ drawn <= drawn'
        /\ \A cx \in Entry : Dated(cx) => cx # c
    BY <1>0, <1>2, FreshEntry
  <2>2. HandlerOK(rec) /\ rec.pc = "resend" /\ rec.cx = task[t].cx
    BY <1>0 DEF HandlersOK, HandlerOK, TaskRecord, Pc
  <2>3. /\ entry' = {c} /\ Set(t, rec) /\ Free /\ task[t].pc = "lookup"
        /\ UNCHANGED <<now, account, mails, failed, disk>>
    BY <1>2 DEF LookupFound
  <2> HIDE DEF rec, c
  <2>4. HandlersOK' /\ task'[t] = rec /\ \A u \in Task \ {t} : task'[u] = task[u]
    BY <1>0, <2>2, <2>3, SetOK
  <2>5. WorldsOK'
    BY <1>0, <2>1, <2>3 DEF WorldsOK
  <2>6. \A u \in Task : task'[u].cx = task[u].cx /\ task[u].cx \subseteq Entry
    BY <1>0, <2>2, <2>4 DEF HandlersOK, TaskRecord
  <2>7. PlacesOK'
    <3>1. \A u \in Task : \A cx \in task'[u].cx : DatedThen(cx) /\ cx # c
      BY <1>0, <2>1, <2>6, DatedStays DEF PlacesOK
    <3>2. \A cx \in entry' \cup disk'.entry : DatedThen(cx)
      BY <1>0, <2>1, <2>3, DatedStays DEF PlacesOK, WorldsOK
    <3>3. EntryInOnePlace'
      BY <1>0, <2>3, <2>6, <3>1 DEF PlacesOK, EntryInOnePlace
    <3> QED BY <2>3, <3>1, <3>2, <3>3 DEF PlacesOK, Dated, DatedThen
  <2>8. MailsOK'
    BY <1>0, <2>2, <2>3, <2>4 DEF MailsOK, Holds, Free, Mailed
  <2> QED BY <2>4, <2>5, <2>7, <2>8, PartsThen
<1> QED BY <1>1, <1>2 DEF LookupFound

(* LookupMissed makes an entry nobody else has. *)
LEMMA LookupMissedStep ==
  ASSUME CoreInv, NEW t \in Task, LookupMissed(t)
  PROVE  CoreInv'
<1>0. HandlersOK /\ WorldsOK /\ PlacesOK /\ MailsOK
  BY Parts
<1> DEFINE c == Updated(now, drawn + 1)
           rec == [task[t] EXCEPT !.pc = "first", !.cx = {c}]
<1>1. /\ c \in Entry /\ DatedThen(c) /\ drawn' \in 0..MaxCaptcha /\ drawn \in Int /\ drawn <= drawn'
      /\ \A cx \in Entry : Dated(cx) => cx # c
  BY <1>0, FreshEntry DEF LookupMissed
<1>2. /\ Set(t, rec) /\ task[t].pc = "lookup"
      /\ UNCHANGED <<now, account, entry, mails, failed, disk>>
  BY DEF LookupMissed
<1> HIDE DEF c
<1>3. HandlerOK(rec) /\ rec.pc = "first" /\ rec.cx = {c}
  BY <1>0, <1>1 DEF HandlersOK, HandlerOK, TaskRecord, Pc
<1> HIDE DEF rec
<1>4. HandlersOK' /\ task'[t] = rec /\ \A u \in Task \ {t} : task'[u] = task[u]
  BY <1>0, <1>2, <1>3, SetOK
<1>5. WorldsOK'
  BY <1>0, <1>1, <1>2 DEF WorldsOK
<1>6. \A u \in Task : task[u].cx \subseteq Entry
  BY <1>0 DEF HandlersOK, TaskRecord
<1>7. PlacesOK'
  <2>1. \A u \in Task \ {t} : \A cx \in task'[u].cx : DatedThen(cx) /\ cx # c
    BY <1>0, <1>1, <1>4, <1>6, DatedStays DEF PlacesOK
  <2>2. \A cx \in entry' \cup disk'.entry : DatedThen(cx) /\ cx # c
    BY <1>0, <1>1, <1>2, DatedStays DEF PlacesOK, WorldsOK
  <2>3. \A u \in Task : \A cx \in task'[u].cx : DatedThen(cx)
    BY <1>1, <1>3, <1>4, <2>1
  <2>4. EntryInOnePlace'
    BY <1>0, <1>2, <1>3, <1>4, <2>1, <2>2 DEF PlacesOK, EntryInOnePlace
  <2>5. \A u \in Task : task'[u].pc = "resend" => entry' # {}
    BY <1>0, <1>2, <1>3, <1>4 DEF PlacesOK
  <2> QED BY <2>2, <2>3, <2>4, <2>5 DEF PlacesOK, Dated, DatedThen
<1>8. MailsOK'
  BY <1>0, <1>2, <1>3, <1>4 DEF MailsOK, Holds, Free, Mailed
<1> QED BY <1>4, <1>5, <1>7, <1>8, PartsThen

(* Mail takes one entry to the server. *)
LEMMA MailOK ==
  ASSUME WorldsOK, NEW S \in SUBSET Entry, S # {}, \A x, y \in S : x = y,
         \A cx \in S : Dated(cx), \A cx \in S : Mail(cx)
  PROVE  /\ mails \subseteq mails' /\ mails' \subseteq [captcha : Captcha, asked : 0..MaxTime]
         /\ \A cx \in S : [captcha |-> cx.captcha, asked |-> cx.last] \in mails'
<1>1. PICK cx \in S : TRUE
  OBVIOUS
<1>2. mails' = mails \cup {[captcha |-> cx.captcha, asked |-> cx.last]}
  BY <1>1 DEF Mail
<1>3. cx.captcha \in Captcha /\ cx.last \in 0..MaxTime
  BY <1>1 DEF Entry, Cx, Dated
<1> QED BY <1>1, <1>2, <1>3 DEF WorldsOK

(* Resend mails the stored entry. *)
LEMMA ResendStep ==
  ASSUME CoreInv, NEW t \in Task, Resend(t)
  PROVE  CoreInv'
<1>0. HandlersOK /\ WorldsOK /\ PlacesOK /\ MailsOK
  BY Parts
<1>1. /\ task[t].pc = "resend" /\ Set(t, Idle) /\ \A cx \in entry : Mail(cx)
      /\ UNCHANGED <<now, drawn, account, entry, failed, disk>>
  BY DEF Resend, Finish
<1>2. HandlersOK' /\ task'[t] = Idle /\ \A u \in Task \ {t} : task'[u] = task[u]
  BY <1>0, <1>1, IdleOK, SetOK
<1>3. entry # {} /\ entry \in SUBSET Entry /\ \A cx \in entry : Dated(cx)
  BY <1>0, <1>1 DEF PlacesOK, WorldsOK
<1>4. /\ mails \subseteq mails' /\ mails' \subseteq [captcha : Captcha, asked : 0..MaxTime]
      /\ \A cx \in entry : [captcha |-> cx.captcha, asked |-> cx.last] \in mails'
  <2>1. \A x, y \in entry : x = y
    BY <1>0 DEF WorldsOK
  <2> QED BY <1>0, <1>1, <1>3, <2>1, MailOK
<1>5. WorldsOK'
  BY <1>0, <1>1, <1>4 DEF WorldsOK
<1>6. PlacesOK'
  BY <1>0, <1>1, <1>2, IdleOK DEF PlacesOK, EntryInOnePlace, Dated
<1>7. MailsOK'
  BY <1>0, <1>1, <1>2, <1>3, <1>4, IdleOK DEF MailsOK, Holds, Mailed
<1> QED BY <1>2, <1>5, <1>6, <1>7, PartsThen

(* SendFirst mails the entry of the handler. *)
LEMMA SendFirstStep ==
  ASSUME CoreInv, NEW t \in Task, SendFirst(t)
  PROVE  CoreInv'
<1>0. HandlersOK /\ WorldsOK /\ PlacesOK /\ MailsOK
  BY Parts
<1> DEFINE rec == [task[t] EXCEPT !.pc = "store"]
<1>1. /\ task[t].pc = "first" /\ Set(t, rec) /\ \A cx \in task[t].cx : Mail(cx)
      /\ UNCHANGED <<now, drawn, account, entry, failed, disk>>
  BY DEF SendFirst
<1>2. HandlerOK(rec) /\ rec.pc = "store" /\ rec.cx = task[t].cx
  BY <1>0, <1>1 DEF HandlersOK, HandlerOK, TaskRecord, Pc
<1> HIDE DEF rec
<1>3. HandlersOK' /\ task'[t] = rec /\ \A u \in Task \ {t} : task'[u] = task[u]
  BY <1>0, <1>1, <1>2, SetOK
<1>4. /\ mails \subseteq mails' /\ mails' \subseteq [captcha : Captcha, asked : 0..MaxTime]
      /\ \A cx \in task[t].cx : [captcha |-> cx.captcha, asked |-> cx.last] \in mails'
  <2>1. /\ task[t].cx # {} /\ task[t].cx \in SUBSET Entry /\ \A x, y \in task[t].cx : x = y
        /\ \A cx \in task[t].cx : Dated(cx)
    BY <1>0, <1>1 DEF HandlersOK, HandlerOK, TaskRecord, PlacesOK
  <2> QED BY <1>0, <1>1, <2>1, MailOK
<1>5. WorldsOK'
  BY <1>0, <1>1, <1>4 DEF WorldsOK
<1>6. PlacesOK'
  BY <1>0, <1>1, <1>2, <1>3 DEF PlacesOK, EntryInOnePlace, Dated
<1>7. MailsOK'
  BY <1>0, <1>1, <1>2, <1>3, <1>4 DEF MailsOK, Holds, Free, Mailed
<1> QED BY <1>3, <1>5, <1>6, <1>7, PartsThen

(* Store and Return give the world the entry of the handler. *)
LEMMA StoreStep ==
  ASSUME CoreInv, NEW t \in Task, Store(t) \/ Return(t)
  PROVE  CoreInv'
<1>0. HandlersOK /\ WorldsOK /\ PlacesOK /\ MailsOK
  BY Parts
<1>1. /\ task[t].pc \in {"store", "return"} /\ Free /\ Set(t, Idle) /\ entry' = task[t].cx
      /\ UNCHANGED <<now, drawn, account, mails, failed, disk>>
  BY DEF Store, Return, Finish
<1>2. HandlersOK' /\ task'[t] = Idle /\ \A u \in Task \ {t} : task'[u] = task[u]
  BY <1>0, <1>1, IdleOK, SetOK
<1>3. task[t].cx # {} /\ task[t].cx \subseteq Entry /\ \A x, y \in task[t].cx : x = y
  BY <1>0, <1>1 DEF HandlersOK, HandlerOK, TaskRecord
<1>4. WorldsOK'
  BY <1>0, <1>1, <1>3 DEF WorldsOK
<1>5. PlacesOK'
  BY <1>0, <1>1, <1>2, <1>3, IdleOK DEF PlacesOK, EntryInOnePlace, Dated
<1>6. MailsOK'
  BY <1>0, <1>1, <1>2, <1>3, IdleOK DEF MailsOK, Holds, Free, Mailed
<1> QED BY <1>2, <1>4, <1>5, <1>6, PartsThen

(* Take moves the entry from the world to the handler. *)
LEMMA TakeStep ==
  ASSUME CoreInv, NEW t \in Task, Take(t)
  PROVE  CoreInv'
<1>0. HandlersOK /\ WorldsOK /\ PlacesOK /\ MailsOK
  BY Parts
<1>1. CASE entry = {}
  BY <1>1, IdleOK, Drop DEF Take, Finish, Holds
<1>2. CASE entry # {}
  <2> DEFINE rec == [task[t] EXCEPT !.cx = entry,
             !.pc = IF \E cx \in entry : cx.captcha = task[t].input THEN "admit" ELSE "return"]
  <2>1. /\ task[t].pc = "take" /\ Free /\ Set(t, rec) /\ entry' = {}
        /\ UNCHANGED <<now, drawn, account, mails, failed, disk>>
    BY <1>2 DEF Take
  <2>2. entry \in SUBSET Entry /\ \A x, y \in entry : x = y
    BY <1>0 DEF WorldsOK
  <2>3. \A cx \in entry : cx.captcha # 0
    BY <2>2, BoundAssumption DEF Entry, Cx, Captcha
  <2>4. task[t] \in TaskRecord
    BY <1>0 DEF HandlersOK
  <2>5. /\ rec \in TaskRecord /\ rec.cx = entry /\ rec.input = task[t].input
        /\ rec.pc = IF \E cx \in entry : cx.captcha = task[t].input THEN "admit" ELSE "return"
    BY <2>2, <2>4 DEF TaskRecord, Pc
  <2> HIDE DEF rec
  <2>6. HandlerOK(rec) /\ rec.pc \in {"admit", "return"}
    BY <1>2, <2>2, <2>3, <2>5 DEF HandlerOK
  <2>7. HandlersOK' /\ task'[t] = rec /\ \A u \in Task \ {t} : task'[u] = task[u]
    BY <1>0, <2>1, <2>6, SetOK
  <2>8. WorldsOK'
    BY <1>0, <2>1 DEF WorldsOK
  <2>9. PlacesOK'
    BY <1>0, <2>1, <2>5, <2>6, <2>7 DEF PlacesOK, EntryInOnePlace, Dated, Free
  <2>10. MailsOK'
    BY <1>0, <2>1, <2>5, <2>6, <2>7 DEF MailsOK, Holds, Free, Mailed
  <2> QED BY <2>7, <2>8, <2>9, <2>10, PartsThen
<1> QED BY <1>1, <1>2

(* Admit makes an account, unless there is one. *)
LEMMA AdmitStep ==
  ASSUME CoreInv, NEW t \in Task, Admit(t)
  PROVE  CoreInv'
<1>0. HandlersOK /\ WorldsOK /\ PlacesOK /\ MailsOK
  BY Parts
<1>1. /\ task[t].pc = "admit" /\ Set(t, Idle)
      /\ account' = IF account = 0 THEN task[t].input ELSE account
      /\ UNCHANGED <<now, drawn, entry, mails, failed, disk>>
  BY DEF Admit, Finish
<1>2. HandlersOK' /\ task'[t] = Idle /\ \A u \in Task \ {t} : task'[u] = task[u]
  BY <1>0, <1>1, IdleOK, SetOK
<1>3. task[t].input \in 0..MaxCaptcha /\ task[t].input # 0
  BY <1>0, <1>1 DEF HandlersOK, HandlerOK, TaskRecord
<1>4. WorldsOK'
  BY <1>0, <1>1, <1>3 DEF WorldsOK
<1>5. PlacesOK'
  BY <1>0, <1>1, <1>2, IdleOK DEF PlacesOK, EntryInOnePlace, Dated
<1>6. MailsOK'
  BY <1>0, <1>1, <1>2, <1>3, IdleOK DEF MailsOK, Holds, Free, Mailed
<1> QED BY <1>2, <1>4, <1>5, <1>6, PartsThen

(* The clock, the daemons and restarts. *)
LEMMA EnvironmentStep ==
  ASSUME CoreInv, Tick \/ FlushAccounts \/ FlushEntries \/ Restart \/ UNCHANGED vars
  PROVE  CoreInv'
<1>0. HandlersOK /\ WorldsOK /\ PlacesOK /\ MailsOK
  BY Parts
<1>1. CASE Tick \/ UNCHANGED vars
  <2>1. /\ UNCHANGED <<drawn, account, entry, task, mails, failed, disk>>
        /\ \/ now' = now
           \/ now < MaxTime /\ now' = now + 1
    BY <1>1 DEF Tick, vars
  <2>2. WorldsOK'
    BY <1>0, <2>1, BoundAssumption DEF WorldsOK
  <2> QED BY <1>0, <2>1, <2>2, PartsThen DEF HandlersOK, PlacesOK, MailsOK, EntryInOnePlace, Dated, Holds,
            Free, Mailed
<1>2. CASE FlushAccounts \/ FlushEntries
  <2>1. /\ UNCHANGED <<now, drawn, account, entry, task, mails, failed>>
        /\ disk' \in {[disk EXCEPT !.account = account], [disk EXCEPT !.entry = entry]}
    BY <1>2 DEF FlushAccounts, FlushEntries
  <2>2. /\ disk' \in [account : 0..MaxCaptcha, entry : SUBSET Entry]
        /\ disk'.account \in {disk.account, account} /\ disk'.entry \in {disk.entry, entry}
    BY <1>0, <2>1 DEF WorldsOK
  <2>3. WorldsOK'
    BY <1>0, <2>1, <2>2 DEF WorldsOK
  <2>4. PlacesOK'
    BY <1>0, <2>1, <2>2 DEF PlacesOK, EntryInOnePlace, Dated
  <2> QED BY <1>0, <2>1, <2>3, <2>4, PartsThen DEF HandlersOK, MailsOK, Holds, Free, Mailed
<1>3. CASE Restart
  <2>1. /\ account' = disk.account /\ entry' = disk.entry /\ failed' = TRUE
        /\ task' = [t \in Task |-> Idle] /\ UNCHANGED <<now, drawn, mails, disk>>
    BY <1>3 DEF Restart
  <2>2. HandlersOK'
    BY <2>1, IdleOK DEF HandlersOK, HandlerOK
  <2>3. WorldsOK'
    BY <1>0, <2>1 DEF WorldsOK
  <2>4. PlacesOK'
    BY <1>0, <2>1, IdleOK DEF PlacesOK, EntryInOnePlace, Dated
  <2>5. MailsOK'
    BY <2>1 DEF MailsOK
  <2> QED BY <2>2, <2>3, <2>4, <2>5, PartsThen
<1> QED BY <1>1, <1>2, <1>3

-------------------------------------------------------------------------------
(* CoreInv holds initially. *)
LEMMA CoreInit == Init => CoreInv
<1> SUFFICES ASSUME Init PROVE CoreInv
  OBVIOUS
<1>1. HandlersOK
  BY IdleOK DEF Init, HandlersOK, HandlerOK
<1>2. WorldsOK
  <2>1. 0 \in 0..MaxTime /\ 0 \in 0..MaxCaptcha
    BY BoundAssumption
  <2>2. disk = [account |-> 0, entry |-> {}]
    BY DEF Init
  <2>3. /\ disk \in [account : 0..MaxCaptcha, entry : SUBSET Entry]
        /\ disk.account = 0 /\ disk.entry = {}
    BY <2>1, <2>2
  <2> QED BY <2>1, <2>3 DEF Init, WorldsOK
<1>3. PlacesOK
  BY IdleOK DEF Init, PlacesOK, EntryInOnePlace
<1>4. MailsOK
  BY IdleOK DEF Init, MailsOK, Holds
<1> QED BY <1>1, <1>2, <1>3, <1>4, Parts

(* Every step keeps CoreInv. *)
LEMMA CoreStep == CoreInv /\ [Next]_vars => CoreInv'
<1> SUFFICES ASSUME CoreInv, [Next]_vars PROVE CoreInv'
  OBVIOUS
<1>1. ASSUME NEW t \in Task, Fail(t) PROVE CoreInv'
  BY <1>1, IdleOK, Drop DEF Fail, Finish
<1> QED BY <1>1, ArriveStep, LookupFoundStep, LookupMissedStep, ResendStep, SendFirstStep, StoreStep,
          TakeStep, AdmitStep, EnvironmentStep DEF Next

-------------------------------------------------------------------------------
(* Distinct: one captcha, one entry.                                         *)

(* A handler that comes or goes, or moves on with the entry it has. *)
LEMMA DistinctLess ==
  ASSUME CoreInv, Distinct, NEW t \in Task, NEW rec, Set(t, rec),
         rec.cx \subseteq task[t].cx, rec.input \in Inputs, rec.pc # "admit",
         rec.cx = {} \/ rec.pc = "store",
         entry' \subseteq entry, mails \subseteq mails'
  PROVE  Distinct'
<1>1. task'[t] = rec /\ \A u \in Task \ {t} : task'[u] = task[u]
  BY DEF Set, CoreInv, TypeOK
<1>2. Inputs \subseteq Inputs'
  BY DEF Inputs
<1>3. \A u \in Task : task'[u].cx \subseteq task[u].cx /\ task'[u].input \in Inputs'
  BY <1>1, <1>2 DEF Distinct
<1>4. \A u \in Task : /\ task'[u].pc = "admit" => task'[u].input \in Captchas(task'[u].cx)
                      /\ task'[u].cx # {} => Holds(u)' \/ task'[u].pc = "first"
  BY <1>1 DEF Distinct, Holds
<1> QED BY <1>3, <1>4 DEF Distinct, Holds

(* What is drawn next is for none of the entries there are. *)
LEMMA NextCaptcha ==
  ASSUME CoreInv
  PROVE  /\ \A cx \in entry : cx.captcha # drawn + 1
         /\ \A u \in Task : \A cx \in task[u].cx : cx.captcha # drawn + 1
         /\ \A c : Updated(now, c).captcha = c
<1>1. drawn \in Int /\ \A u \in Task : task[u].cx \subseteq Entry
  BY BoundAssumption DEF CoreInv, TypeOK, TaskRecord
<1>2. \A cx \in Entry : cx.captcha \in Int
  BY BoundAssumption DEF Entry, Cx, Captcha
<1>3. entry \subseteq Entry
  BY DEF CoreInv, TypeOK
<1>4. (\A cx \in entry : Dated(cx)) /\ \A u \in Task : \A cx \in task[u].cx : Dated(cx)
  BY DEF CoreInv, Numbered
<1> QED BY <1>1, <1>2, <1>3, <1>4 DEF Dated, Updated

(* Every step keeps Distinct. *)
LEMMA DistinctStep ==
  ASSUME CoreInv, Distinct, [Next]_vars
  PROVE  Distinct'
<1>0. task \in [Task -> TaskRecord] /\ \A t \in Task : task[t].pc = "idle" => task[t] = Idle
  BY DEF CoreInv, TypeOK
<1>1. CASE Tick \/ FlushAccounts \/ FlushEntries \/ UNCHANGED vars
  BY <1>1 DEF Tick, FlushAccounts, FlushEntries, vars, Distinct, Inputs, Holds
<1>2. CASE Restart
  BY <1>2, IdleOK DEF Restart, Distinct, Inputs, Idle
(* The steps after which a handler is idle, and no entry is new. *)
<1>3. ASSUME NEW t \in Task, Finish(t), entry' \subseteq entry, mails \subseteq mails'
      PROVE  Distinct'
  <2>1. Idle.cx = {} /\ Idle.input \in Inputs /\ Idle.pc # "admit"
    BY IdleOK DEF Idle, Inputs
  <2> QED BY <1>3, <2>1, DistinctLess DEF Finish
<1>4. ASSUME NEW t \in Task, Fail(t) \/ Admit(t)
      PROVE  Distinct'
  BY <1>3, <1>4 DEF Fail, Admit
<1>5. ASSUME NEW t \in Task, Resend(t)
      PROVE  Distinct'
  <2>1. entry # {}
    BY <1>5 DEF Resend, CoreInv, TypeOK
  <2> QED BY <1>3, <1>5, <2>1 DEF Resend, Mail
<1>6. ASSUME NEW t \in Task, SendCaptcha(t)
      PROVE  Distinct'
  <2> DEFINE rec == [Idle EXCEPT !.pc = "lookup"]
  <2>1. rec.cx = {} /\ rec.input \in Inputs /\ rec.pc = "lookup"
    BY DEF Idle, Inputs
  <2>2. Set(t, rec) /\ UNCHANGED <<entry, mails>>
    BY <1>6 DEF SendCaptcha
  <2> HIDE DEF rec
  <2> QED BY <2>1, <2>2, DistinctLess
<1>7. ASSUME NEW t \in Task, NEW c \in Inputs, Register(t, c)
      PROVE  Distinct'
  <2> DEFINE rec == [Idle EXCEPT !.pc = "take", !.input = c]
  <2>1. rec.cx = {} /\ rec.input \in Inputs /\ rec.pc = "take"
    BY DEF Idle
  <2>2. Set(t, rec) /\ UNCHANGED <<entry, mails>>
    BY <1>7 DEF Register
  <2> HIDE DEF rec
  <2> QED BY <2>1, <2>2, DistinctLess
<1>8. ASSUME NEW t \in Task, LookupFound(t)
      PROVE  Distinct'
  <2>1. CASE Finish(t) /\ UNCHANGED <<drawn, entry>>
    BY <1>3, <1>8, <2>1 DEF LookupFound
  <2>2. CASE entry' = {Updated(now, drawn + 1)} /\ Set(t, [task[t] EXCEPT !.pc = "resend"])
    <3>0. task[t].cx = {} /\ task[t].pc = "lookup"
      BY <1>8 DEF LookupFound, Distinct, Holds
    <3>1. /\ \A u \in Task : task'[u].cx = task[u].cx /\ task'[u].input = task[u].input
          /\ \A u \in Task : u # t => task'[u] = task[u]
          /\ task'[t].pc = "resend"
      BY <1>0, <2>2 DEF Set, TaskRecord
    <3>2. \A x \in entry' : x.captcha = drawn + 1
      BY <2>2, NextCaptcha
    <3>3. Inputs' = Inputs
      BY <1>8 DEF LookupFound, Inputs
    <3> QED BY <3>0, <3>1, <3>2, <3>3, NextCaptcha DEF Distinct, Holds
  <2> QED BY <1>8, <2>1, <2>2 DEF LookupFound
<1>9. ASSUME NEW t \in Task, LookupMissed(t)
      PROVE  Distinct'
  <2> DEFINE rec == [task[t] EXCEPT !.pc = "first", !.cx = {Updated(now, drawn + 1)}]
  <2>1. rec.pc = "first" /\ rec.cx = {Updated(now, drawn + 1)} /\ rec.input = task[t].input
    BY <1>0 DEF TaskRecord
  <2>2. Set(t, rec) /\ UNCHANGED <<entry, mails>>
    BY <1>9 DEF LookupMissed
  <2> HIDE DEF rec
  <2>3. task'[t] = rec /\ \A u \in Task \ {t} : task'[u] = task[u]
    BY <1>0, <2>2 DEF Set
  <2>4. \A x \in rec.cx : x.captcha = drawn + 1
    BY <2>1, NextCaptcha
  <2>5. Inputs' = Inputs
    BY <2>2 DEF Inputs
  <2> QED BY <2>1, <2>2, <2>3, <2>4, <2>5, NextCaptcha DEF Distinct, Holds
<1>10. ASSUME NEW t \in Task, SendFirst(t)
       PROVE  Distinct'
  <2> DEFINE rec == [task[t] EXCEPT !.pc = "store"]
  <2>1. rec.pc = "store" /\ rec.cx = task[t].cx /\ rec.input \in Inputs
    BY <1>0 DEF TaskRecord, Distinct
  <2>2. Set(t, rec) /\ entry' = entry /\ task[t].cx # {}
    BY <1>10 DEF SendFirst, CoreInv, Kept
  <2>3. mails \subseteq mails'
    BY <1>10, <2>2 DEF SendFirst, Mail
  <2> HIDE DEF rec
  <2> QED BY <2>1, <2>2, <2>3, DistinctLess
<1>11. ASSUME NEW t \in Task, Store(t) \/ Return(t)
       PROVE  Distinct'
  <2>1. Set(t, Idle) /\ entry' = task[t].cx /\ mails' = mails
    BY <1>11 DEF Store, Return, Finish
  <2>2. task'[t] = Idle /\ \A u \in Task \ {t} : task'[u] = task[u]
    BY <1>0, <2>1 DEF Set
  <2>3. Inputs' = Inputs /\ Idle.input \in Inputs
    BY <2>1 DEF Inputs, Idle
  <2> QED BY <2>1, <2>2, <2>3, IdleOK DEF Distinct, Holds
<1>12. ASSUME NEW t \in Task, Take(t)
       PROVE  Distinct'
  <2>1. CASE entry = {}
    BY <1>3, <1>12, <2>1 DEF Take
  <2>2. CASE entry # {}
    <3> DEFINE rec == [task[t] EXCEPT !.cx = entry,
               !.pc = IF \E cx \in entry : cx.captcha = task[t].input THEN "admit" ELSE "return"]
    <3>1. rec.cx = entry /\ rec.input = task[t].input /\ rec.pc \in {"admit", "return"}
          /\ (rec.pc = "admit" => \E cx \in entry : cx.captcha = task[t].input)
      BY <1>0 DEF TaskRecord
    <3>2. Set(t, rec) /\ entry' = {} /\ mails' = mails
      BY <1>12, <2>2 DEF Take
    <3> HIDE DEF rec
    <3>3. task'[t] = rec /\ \A u \in Task \ {t} : task'[u] = task[u]
      BY <1>0, <3>2 DEF Set
    <3>4. Inputs' = Inputs
      BY <3>2 DEF Inputs
    <3>5. rec.pc = "admit" => rec.input \in Captchas(rec.cx)
      BY <3>1 DEF Captchas
    <3> QED BY <3>1, <3>2, <3>3, <3>4, <3>5 DEF Distinct, Holds
  <2> QED BY <2>1, <2>2
<1> QED BY <1>1, <1>2, <1>4, <1>5, <1>6, <1>7, <1>8, <1>9, <1>10, <1>11, <1>12 DEF Next

(* SafeInv holds throughout: it is inductive. *)
THEOREM Safe == Spec => []SafeInv
<1>1. Init => SafeInv
  BY CoreInit, IdleOK DEF SafeInv, Init, Distinct, Inputs, Idle
<1>2. SafeInv /\ [Next]_vars => SafeInv'
  BY CoreStep, DistinctStep DEF SafeInv
<1> QED BY <1>1, <1>2, PTL DEF Spec

(* Every state is well formed, and what is being mailed again is stored. *)
THEOREM TypeCorrect == Spec => []TypeOK
<1>1. SafeInv => TypeOK
  BY DEF SafeInv, CoreInv
<1> QED BY <1>1, Safe, PTL

(* An entry is in the world or with one handler, however they interleave. *)
THEOREM EntryAlwaysInOnePlace == Spec => []EntryInOnePlace
<1>1. SafeInv => EntryInOnePlace
  BY DEF SafeInv, CoreInv
<1> QED BY <1>1, Safe, PTL

(* Wrong captchas cost nothing. *)
THEOREM EntryAlwaysKept == Spec => []EntryKept
<1>1. ASSUME SafeInv PROVE EntryKept
  <2>1. SUFFICES ASSUME \A t \in Task : task[t].pc = "idle", ~failed, account = 0, mails # {}
                 PROVE  \E cx \in entry, m \in mails : cx = [captcha |-> m.captcha, last |-> m.asked]
    BY DEF EntryKept
  <2>2. PICK cx \in entry : Mailed(cx)
    BY <1>1, <2>1 DEF SafeInv, CoreInv, Kept, Free, Holds
  <2>3. cx \in Entry
    BY <1>1 DEF SafeInv, CoreInv, TypeOK
  <2>4. cx = [captcha |-> cx.captcha, last |-> cx.last]
    BY <2>3 DEF Entry, Cx
  <2> DEFINE m == [captcha |-> cx.captcha, asked |-> cx.last]
  <2>5. m \in mails /\ cx = [captcha |-> m.captcha, last |-> m.asked]
    BY <2>2, <2>4 DEF Mailed
  <2> QED BY <2>5
<1> QED BY <1>1, Safe, PTL

(* What register has taken was mailed: no entry can be met before its mail is out. *)
THEOREM TakenAlwaysMailed == Spec => []TakenWasMailed
<1>1. ASSUME SafeInv PROVE TakenWasMailed
  <2>1. SUFFICES ASSUME ~failed, NEW t \in Task, task[t].pc \in {"admit", "return"},
                        NEW cx \in task[t].cx
                 PROVE  \E m \in mails : cx = [captcha |-> m.captcha, last |-> m.asked]
    BY DEF TakenWasMailed
  <2>2. Mailed(cx)
    BY <1>1, <2>1 DEF SafeInv, CoreInv, Kept, Holds
  <2>3. cx \in Entry
    BY <1>1, <2>1 DEF SafeInv, CoreInv, TypeOK, TaskRecord
  <2>4. cx = [captcha |-> cx.captcha, last |-> cx.last]
    BY <2>3 DEF Entry, Cx
  <2> DEFINE m == [captcha |-> cx.captcha, asked |-> cx.last]
  <2>5. m \in mails /\ cx = [captcha |-> m.captcha, last |-> m.asked]
    BY <2>2, <2>4 DEF Mailed
  <2> QED BY <2>5
<1> QED BY <1>1, Safe, PTL

(* Only Admit makes an account, and only a restart takes one back. *)
LEMMA AccountStep ==
  ASSUME SafeInv, [Next]_vars
  PROVE  /\ account # 0 => account' \in {account, disk.account}
         /\ disk.account # 0 => account' = disk.account
<1>1. disk.account \in {0, account}
  BY DEF SafeInv, CoreInv, Numbered
<1>2. account' = account \/ account' = disk.account \/ account = 0
  BY DEF Next, vars, Tick, FlushAccounts, FlushEntries, Restart, SendCaptcha, LookupFound, LookupMissed,
         Resend, SendFirst, Store, Register, Take, Admit, Return, Fail
<1> QED BY <1>1, <1>2

(* An account is registered once, and kept once it is flushed. *)
THEOREM AccountAlwaysKept == Spec => AccountKept
<1>1. SafeInv /\ [Next]_vars
      => [/\ account # 0 => account' \in {account, disk.account}
          /\ disk.account # 0 => account' = disk.account]_vars
  BY AccountStep
<1> QED BY <1>1, Safe, PTL DEF Spec, AccountKept
-------------------------------------------------------------------------------
(* The refinement of Signup. *)

Live == Captchas(entry \cup UNION {task[t].cx : t \in Task})

(* The captchas that live are those of the entry and of what handlers hold. *)
LEMMA LiveMembers ==
  /\ Captchas(entry) \subseteq Live
  /\ \A t \in Task : Captchas(task[t].cx) \subseteq Live
  /\ \A c \in Live : \/ \E cx \in entry : cx.captcha = c
                     \/ \E t \in Task : \E cx \in task[t].cx : cx.captcha = c
BY DEF Live, Captchas

LEMMA LiveMembersThen ==
  /\ \A cx \in entry' : cx.captcha \in Live'
  /\ \A t \in Task : \A cx \in task'[t].cx : cx.captcha \in Live'
  /\ \A c \in Live' : \/ \E cx \in entry' : cx.captcha = c
                      \/ \E t \in Task : \E cx \in task'[t].cx : cx.captcha = c
BY DEF Live, Captchas

(* Entries that stay where they are, or move, or go: no captcha comes alive. *)
LEMMA LiveLess ==
  ASSUME CoreInv, NEW t \in Task, NEW rec, Set(t, rec),
         entry' \subseteq entry \cup task[t].cx, rec.cx \subseteq entry \cup task[t].cx
  PROVE  Live' \subseteq Live
<1>1. task'[t] = rec /\ \A u \in Task \ {t} : task'[u] = task[u]
  BY DEF Set, CoreInv, TypeOK
<1>2. entry' \cup UNION {task'[u].cx : u \in Task} \subseteq entry \cup UNION {task[u].cx : u \in Task}
  BY <1>1
<1> QED BY <1>2 DEF Live, Captchas

(* They die, if anything. *)
LEMMA DieStep ==
  ASSUME Live' \subseteq Live, UNCHANGED <<account, drawn, mails, disk>>
  PROVE  Address!Next
BY DEF Live, Address!Next, Address!Die

(* Init maps to Init. *)
LEMMA SignupInit == Init => Address!Init
<1> SUFFICES ASSUME Init PROVE Address!Init
  OBVIOUS
<1>1. 1..drawn = {} /\ Captchas(disk.entry) = {} /\ {m.captcha : m \in mails} = {}
      /\ account = 0 /\ disk.account = 0
  BY DEF Init, Captchas
<1>2. Live = {}
  BY IdleOK DEF Init, Live, Captchas
<1> QED BY <1>1, <1>2 DEF Address!Init, Live

(* The next captcha comes alive, whatever dies. *)
LEMMA DrawStep ==
  ASSUME CoreInv, drawn < MaxCaptcha, drawn' = drawn + 1,
         drawn + 1 \in Live', Live' \subseteq Live \cup {drawn + 1},
         UNCHANGED <<account, mails, disk>>
  PROVE  Address!Next
<1>1. drawn \in Nat /\ MaxCaptcha \in Nat
  BY BoundAssumption DEF CoreInv, TypeOK
<1>2. drawn + 1 \in Captcha /\ drawn + 1 \notin 1..drawn /\ 1..drawn' = (1..drawn) \cup {drawn + 1}
  BY <1>1 DEF Captcha
<1>3. \E gone \in SUBSET Live : Live' = (Live \ gone) \cup {drawn + 1}
  <2> WITNESS Live \ Live' \in SUBSET Live
  <2> QED OBVIOUS
<1>4. Address!Draw(drawn + 1)
  BY <1>2, <1>3 DEF Address!Draw, Live
<1> QED BY <1>2, <1>4 DEF Address!Next

(* A mail carries a captcha that lives. *)
LEMMA SendStep ==
  ASSUME NEW cx \in entry \cup UNION {task[t].cx : t \in Task}, cx.captcha \in Captcha,
         Mail(cx), Live' = Live, UNCHANGED <<account, drawn, disk>>
  PROVE  Address!Next
<1> DEFINE m == [captcha |-> cx.captcha, asked |-> cx.last]
<1>1. mails' = mails \cup {m} /\ m.captcha = cx.captcha
  BY DEF Mail
<1> HIDE DEF m
<1>2. {n.captcha : n \in mails'} = {n.captcha : n \in mails} \cup {cx.captcha}
  BY <1>1
<1>3. cx.captcha \in Live
  BY DEF Live, Captchas
<1>4. Address!Send(cx.captcha)
  BY <1>2, <1>3 DEF Address!Send, Live
<1> QED BY <1>4 DEF Address!Next

(* What a handler gives up as it registers lives nowhere else. *)
LEMMA AdmitMaps ==
  ASSUME SafeInv, NEW t \in Task, Admit(t)
  PROVE  Address!Next
<1>1. task[t].pc = "admit" /\ Finish(t) /\ UNCHANGED <<drawn, entry, mails, disk>>
      /\ account' = IF account = 0 THEN task[t].input ELSE account
  BY DEF Admit
<1>2. Live' \subseteq Live
  BY <1>1, IdleOK, LiveLess DEF Finish, SafeInv
<1>3. CASE account # 0
  BY <1>1, <1>2, <1>3, DieStep
<1>4. CASE account = 0
  <2> DEFINE c == task[t].input
  <2>1. PICK cx \in task[t].cx : cx.captcha = c
    BY <1>1 DEF SafeInv, Distinct, Captchas
  <2>2. c \in Live
    BY <2>1 DEF Live, Captchas
  <2>3. c \in Captcha /\ c \in {m.captcha : m \in mails}
    <3>1. cx \in Entry /\ c # 0
      BY <1>1, <2>1 DEF SafeInv, CoreInv, TypeOK, TaskRecord, Kept
    <3>2. c \in Inputs
      BY DEF SafeInv, Distinct
    <3>3. 0 \notin Captcha
      BY BoundAssumption DEF Captcha
    <3>4. cx.captcha \in Captcha
      <4>1. cx \in [captcha : Captcha, last : 0..MaxTime \cup {Epoch}]
        BY <3>1 DEF Entry, Cx
      <4> QED BY <4>1
    <3> QED BY <2>1, <3>1, <3>2, <3>4 DEF Inputs
  <2>4. task'[t] = Idle /\ \A u \in Task \ {t} : task'[u] = task[u]
    BY <1>1 DEF Finish, Set, SafeInv, CoreInv, TypeOK
  <2> HIDE DEF c
  <2>5. c \notin Live'
    <3>1. \A y \in entry' : y.captcha # c
      BY <1>1, <2>1 DEF SafeInv, Distinct
    <3>2. \A u \in Task : \A y \in task'[u].cx : y.captcha # c
      BY <2>1, <2>4, IdleOK DEF SafeInv, Distinct
    <3> QED BY <3>1, <3>2, LiveMembersThen
  <2>6. \A d \in Live : d # c => d \in Live'
    <3> SUFFICES ASSUME NEW d \in Live, d # c PROVE d \in Live'
      OBVIOUS
    <3>1. \A y \in task[t].cx : y.captcha = c
      BY <2>1 DEF SafeInv, CoreInv, TypeOK
    <3>2. CASE \E y \in entry : y.captcha = d
      BY <1>1, <3>2 DEF Live, Captchas
    <3>3. CASE \E u \in Task : \E y \in task[u].cx : y.captcha = d
      <4>1. PICK u \in Task \ {t} : \E y \in task[u].cx : y.captcha = d
        BY <3>1, <3>3
      <4>2. PICK y \in task[u].cx : y.captcha = d
        BY <4>1
      <4>3. y \in task'[u].cx
        BY <2>4, <4>1, <4>2
      <4> QED BY <4>2, <4>3 DEF Live, Captchas
    <3> QED BY <3>2, <3>3, LiveMembers
  <2>7. Live' = Live \ {c}
    BY <1>2, <2>5, <2>6
  <2>8. account' = c
    BY <1>1, <1>4 DEF c
  <2>9. Address!Register(c)
    BY <1>1, <1>4, <2>2, <2>3, <2>7, <2>8 DEF Address!Register, Live
  <2> QED BY <2>3, <2>9 DEF Address!Next
<1> QED BY <1>3, <1>4

(* Every step maps to a step or a stutter. *)
LEMMA SignupStep == SafeInv /\ [Next]_vars => [Address!Next]_(Address!vars)
<1> SUFFICES ASSUME SafeInv, [Next]_vars PROVE [Address!Next]_(Address!vars)
  OBVIOUS
<1>0. /\ CoreInv /\ Distinct /\ entry \subseteq Entry
      /\ task \in [Task -> TaskRecord] /\ \A t \in Task : task[t].pc = "idle" => task[t] = Idle
  BY DEF SafeInv, CoreInv, TypeOK
<1>1. CASE Tick \/ UNCHANGED vars
  BY <1>1 DEF Tick, vars, Address!vars
<1>2. CASE FlushAccounts \/ FlushEntries
  <2>1. /\ UNCHANGED <<now, drawn, account, entry, task, mails, failed>>
        /\ disk \in [account : 0..MaxCaptcha, entry : SUBSET Entry]
    BY <1>2 DEF FlushAccounts, FlushEntries, SafeInv, CoreInv, TypeOK
  <2>2. CASE disk' = [disk EXCEPT !.account = account]
    <3>1. disk'.account = account /\ disk'.entry = disk.entry
      BY <2>1, <2>2
    <3> QED BY <2>1, <3>1 DEF Address!Next, Address!SaveAccount
  <2>3. CASE disk' = [disk EXCEPT !.entry = entry]
    <3>1. disk'.account = disk.account /\ disk'.entry = entry
      BY <2>1, <2>3
    <3>2. Captchas(disk'.entry) \in SUBSET Live
      BY <3>1, LiveMembers
    <3> QED BY <2>1, <3>1, <3>2 DEF Address!Next, Address!SaveLive, Live
  <2> QED BY <1>2, <2>2, <2>3 DEF FlushAccounts, FlushEntries
<1>3. CASE Restart
  <2>1. /\ account' = disk.account /\ entry' = disk.entry /\ task' = [t \in Task |-> Idle]
        /\ UNCHANGED <<drawn, mails, disk>>
    BY <1>3 DEF Restart
  <2>2. entry' \cup UNION {task'[t].cx : t \in Task} = disk.entry
    BY <2>1, IdleOK
  <2>3. Live' = Captchas(disk.entry)
    BY <2>2 DEF Live
  <2> QED BY <2>1, <2>3 DEF Address!Next, Address!Restart, Live
<1>4. ASSUME NEW t \in Task, SendCaptcha(t) \/ \E c \in Inputs : Register(t, c)
      PROVE  Address!Next
  <2>1. UNCHANGED <<account, drawn, entry, mails, disk>>
    BY <1>4 DEF SendCaptcha, Register
  <2>2. ASSUME NEW rec, Set(t, rec), rec.cx = {}
        PROVE  Address!Next
    BY <1>0, <2>1, <2>2, LiveLess, DieStep
  <2>3. /\ [Idle EXCEPT !.pc = "lookup"].cx = {}
        /\ \A c \in Inputs : [Idle EXCEPT !.pc = "take", !.input = c].cx = {}
    BY DEF Idle
  <2> QED BY <1>4, <2>2, <2>3 DEF SendCaptcha, Register
(* The steps after which a handler is idle, having stored what it held or not. *)
<1>5. ASSUME NEW t \in Task, Finish(t), entry' \subseteq entry \cup task[t].cx,
             UNCHANGED <<account, drawn, mails, disk>>
      PROVE  Address!Next
  BY <1>0, <1>5, IdleOK, LiveLess, DieStep DEF Finish
<1>6. ASSUME NEW t \in Task, Fail(t) \/ Store(t) \/ Return(t)
      PROVE  Address!Next
  BY <1>5, <1>6 DEF Fail, Store, Return
<1>7. ASSUME NEW t \in Task, LookupFound(t)
      PROVE  Address!Next
  <2>1. CASE Finish(t) /\ UNCHANGED <<drawn, entry>>
    BY <1>5, <1>7, <2>1 DEF LookupFound
  <2>2. CASE /\ drawn < MaxCaptcha /\ drawn' = drawn + 1 /\ entry' = {Updated(now, drawn + 1)}
             /\ Set(t, [task[t] EXCEPT !.pc = "resend"])
    <3>1. \A u \in Task : task'[u].cx = task[u].cx
      BY <1>0, <2>2 DEF Set, TaskRecord
    <3>2. drawn + 1 \in Live'
      BY <1>0, <2>2, NextCaptcha, LiveMembersThen
    <3>3. Live' \subseteq Live \cup {drawn + 1}
      BY <2>2, <3>1, LiveMembersThen DEF Live, Captchas, Updated
    <3> QED BY <1>0, <1>7, <2>2, <3>2, <3>3, DrawStep DEF LookupFound
  <2> QED BY <1>7, <2>1, <2>2 DEF LookupFound
<1>8. ASSUME NEW t \in Task, LookupMissed(t)
      PROVE  Address!Next
  <2>1. /\ drawn < MaxCaptcha /\ drawn' = drawn + 1
        /\ Set(t, [task[t] EXCEPT !.pc = "first", !.cx = {Updated(now, drawn + 1)}])
        /\ UNCHANGED <<account, entry, mails, disk>>
    BY <1>8 DEF LookupMissed
  <2>2. task'[t].cx = {Updated(now, drawn + 1)} /\ \A u \in Task \ {t} : task'[u] = task[u]
    BY <1>0, <2>1 DEF Set, TaskRecord
  <2>3. drawn + 1 \in Live'
    BY <1>0, <2>2, NextCaptcha, LiveMembersThen
  <2>4. Live' \subseteq Live \cup {drawn + 1}
    BY <2>1, <2>2, LiveMembersThen DEF Live, Captchas, Updated
  <2> QED BY <1>0, <2>1, <2>3, <2>4, DrawStep
<1>9. ASSUME NEW t \in Task, Resend(t)
      PROVE  Address!Next
  <2>1. /\ Finish(t) /\ UNCHANGED <<account, drawn, entry, disk>> /\ task[t].cx = {}
        /\ entry # {} /\ \A cx \in entry : Mail(cx)
    BY <1>0, <1>9 DEF Resend, Distinct, Holds, CoreInv, TypeOK
  <2>2. PICK cx \in entry : cx.captcha \in Captcha /\ Mail(cx)
    BY <1>0, <2>1 DEF Entry, Cx
  <2>3. \A u \in Task : task'[u].cx = task[u].cx
    BY <1>0, <2>1, IdleOK DEF Finish, Set
  <2>4. Live' = Live
    BY <2>1, <2>3 DEF Live
  <2> QED BY <2>1, <2>2, <2>4, SendStep
<1>10. ASSUME NEW t \in Task, SendFirst(t)
       PROVE  Address!Next
  <2>1. /\ Set(t, [task[t] EXCEPT !.pc = "store"]) /\ UNCHANGED <<account, drawn, entry, disk>>
        /\ task[t].cx # {} /\ task[t].cx \subseteq Entry /\ \A cx \in task[t].cx : Mail(cx)
    BY <1>0, <1>10 DEF SendFirst, CoreInv, Kept, TaskRecord
  <2>2. PICK cx \in task[t].cx : cx.captcha \in Captcha /\ Mail(cx)
    BY <2>1 DEF Entry, Cx
  <2>3. \A u \in Task : task'[u].cx = task[u].cx
    BY <1>0, <2>1 DEF Set, TaskRecord
  <2>4. Live' = Live
    BY <2>1, <2>3 DEF Live
  <2> QED BY <2>1, <2>2, <2>4, SendStep
<1>11. ASSUME NEW t \in Task, Take(t)
       PROVE  Address!Next
  <2>1. CASE entry = {}
    BY <1>5, <1>11, <2>1 DEF Take
  <2>2. CASE entry # {}
    <3> DEFINE rec == [task[t] EXCEPT !.cx = entry,
               !.pc = IF \E cx \in entry : cx.captcha = task[t].input THEN "admit" ELSE "return"]
    <3>1. rec.cx = entry
      BY <1>0 DEF TaskRecord
    <3>2. Set(t, rec) /\ entry' = {} /\ UNCHANGED <<account, drawn, mails, disk>>
      BY <1>11, <2>2 DEF Take
    <3> HIDE DEF rec
    <3> QED BY <1>0, <3>1, <3>2, LiveLess, DieStep
  <2> QED BY <2>1, <2>2
<1> QED BY <1>1, <1>2, <1>3, <1>4, <1>6, <1>7, <1>8, <1>9, <1>10, <1>11, AdmitMaps DEF Next

(* The handlers implement the life of the captchas of an address: a mailed    *)
(* one registers one account, and lives again only if a restart finds it.     *)
THEOREM SignupImplemented == Spec => ImplementsSignup
BY SignupInit, SignupStep, Safe, PTL DEF Spec, ImplementsSignup, Address!Spec

(* What Signup entails, so of the handlers too. *)
LEMMA DeadStaysDead ==
  ASSUME [Address!Next]_(Address!vars), NEW c \in 1..drawn,
         c \notin Live \cup Captchas(disk.entry)
  PROVE  c \notin Live' \cup Captchas(disk.entry)'
<1> DEFINE Saved == Captchas(disk.entry)
<1>1. CASE \E d \in Captcha : Address!Draw(d)
  <2>1. PICK d \in Captcha : Address!Draw(d)
    BY <1>1
  <2>2. d # c /\ Live' \subseteq Live \cup {d} /\ Saved' = Saved
    BY <2>1 DEF Address!Draw, Live
  <2> QED BY <2>2
<1>2. CASE ~\E d \in Captcha : Address!Draw(d)
  <2>1. Live' \subseteq Live \cup Saved /\ Saved' \subseteq Live \cup Saved
    BY <1>2 DEF Address!Next, Address!vars, Address!Send, Address!Die, Address!Register,
                Address!SaveAccount, Address!SaveLive, Address!Restart, Live
  <2> QED BY <2>1
<1> QED BY <1>1, <1>2

(* A captcha that was used, replaced or lost, and is not on disk, registers   *)
(* nobody later: no request that still runs has kept it.                      *)
THEOREM CaptchasStayDead == Spec => Address!DeadForGood
<1>1. [Address!Next]_(Address!vars) => [Address!StaysDead]_(Address!vars)
  BY DeadStaysDead DEF Live, Address!StaysDead
<1> QED BY <1>1, SignupImplemented, PTL
        DEF ImplementsSignup, Address!Spec, Address!DeadForGood
===============================================================================
