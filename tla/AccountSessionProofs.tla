-------------------------- MODULE AccountSessionProofs --------------------------
(***************************************************************************)
(* Proofs about AccountSession, for any number of requests, passwords,      *)
(* captchas and tokens, any limit and any faults.                           *)
(***************************************************************************)
EXTENDS AccountSession, TLAPS

(* What an idle handler holds. *)
LEMMA IdleType == Idle \in TaskRecord /\ Idle.pc = "idle"
BY BoundAssumption DEF Idle, TaskRecord, Pc

(* What a request for a captcha holds. *)
LEMMA RequestType ==
  LET rec == [Idle EXCEPT !.pc = "request"] IN rec \in TaskRecord /\ rec.pc = "request"
BY IdleType DEF Idle, TaskRecord, Pc

(* What is being mailed. *)
LEMMA MailType ==
  ASSUME NEW cx \in SUBSET Session
  PROVE  LET rec == [Idle EXCEPT !.pc = "mail", !.cx = cx] IN
         rec \in TaskRecord /\ rec.pc = "mail" /\ rec.cx = cx
BY IdleType DEF Idle, TaskRecord, Pc

(* A session that is asked for now, with the next captcha. *)
LEMMA UpdatedType ==
  ASSUME now \in 0..MaxTime, drawn \in 0..MaxCaptcha, drawn < MaxCaptcha
  PROVE  LET cx == Updated(now, drawn + 1) IN
         /\ cx \in Session /\ cx.captcha = drawn + 1 /\ cx.last = now
         /\ drawn + 1 \in 0..MaxCaptcha
BY BoundAssumption DEF Updated, Session, Cx, Captcha

(* The invariant says nothing but this of the tasks: each is well formed,     *)
(* what it mails is the session, and its token was issued.                   *)
TasksOK ==
  /\ task \in [Task -> TaskRecord]
  /\ \A t \in Task : /\ task[t].pc = "mail" => task[t].cx = session
                     /\ task[t].pc = "modify" => task[t].new \in Password
                     /\ task[t].pc \in {"logout", "modify"} => task[t].token \in 1..issued

RestOK ==
  /\ now \in 0..MaxTime /\ drawn \in 0..MaxCaptcha /\ issued \in 0..MaxToken
  /\ password \in Password
  /\ tokens \subseteq 1..issued
  /\ session \subseteq Session /\ \A x, y \in session : x = y
  /\ mails \subseteq [captcha : Captcha, asked : 0..MaxTime]
  /\ refusal \in -1..MaxTime
  /\ resets \subseteq [captcha : Captcha, issued : 0..MaxToken]

(* They are the two parts of TypeOK. *)
LEMMA TypeParts ==
  /\ TypeOK <=> TasksOK /\ RestOK
  /\ TypeOK' <=> TasksOK' /\ RestOK'
BY DEF TypeOK, TasksOK, RestOK

(* Giving a task a record that mails nothing is safe while the session stays. *)
LEMMA SetOK ==
  ASSUME TasksOK, NEW t \in Task, NEW rec \in TaskRecord, Set(t, rec),
         UNCHANGED <<session, issued>>, rec.pc # "mail",
         rec.pc \in {"logout", "modify"} => rec.token \in 1..issued,
         rec.pc = "modify" => rec.new \in Password
  PROVE  TasksOK'
BY DEF TasksOK, Set

(* When nobody mails, the session may change, and one task may mail it. *)
LEMMA FreeOK ==
  ASSUME TasksOK, Free, NEW t \in Task, NEW rec \in TaskRecord, Set(t, rec),
         UNCHANGED issued, rec.pc = "mail" => rec.cx = session',
         rec.pc \notin {"logout", "modify"}
  PROVE  TasksOK'
BY DEF TasksOK, Set, Free

-------------------------------------------------------------------------------
(* SafeInv holds initially. *)
LEMMA SafeInit == Init => SafeInv
<1> SUFFICES ASSUME Init PROVE SafeInv
  OBVIOUS
<1>1. TasksOK
  BY IdleType DEF Init, TasksOK
<1>2. RestOK
  BY BoundAssumption DEF Init, RestOK
<1> QED BY <1>1, <1>2, TypeParts DEF Init, SafeInv, Numbered, ResetRevokes, CaptchaSpent

(* Every step keeps SafeInv. *)
LEMMA SafeStep == SafeInv /\ [Next]_vars => SafeInv'
<1> SUFFICES ASSUME SafeInv, [Next]_vars PROVE SafeInv'
  OBVIOUS
<1>0. /\ TasksOK /\ RestOK /\ Numbered /\ ResetRevokes /\ CaptchaSpent
      /\ MaxTime \in Nat /\ MaxCaptcha \in Nat /\ MaxToken \in Nat
  BY TypeParts, BoundAssumption DEF SafeInv
(* The steps of a task that change no more than it and the password. *)
<1>1. ASSUME TasksOK', UNCHANGED <<now, drawn, tokens, issued, session, mails, refusal, resets>>,
             password' \in Password
      PROVE  SafeInv'
  <2>1. RestOK'
    BY <1>0, <1>1 DEF RestOK
  <2>2. Numbered' /\ ResetRevokes' /\ CaptchaSpent'
    BY <1>0, <1>1 DEF Numbered, ResetRevokes, CaptchaSpent
  <2> QED BY <1>1, <2>1, <2>2, TypeParts DEF SafeInv
<1>2. CASE UNCHANGED vars
  BY <1>0, <1>1, <1>2 DEF vars, TasksOK, RestOK
<1>3. CASE Tick
  <2>1. TasksOK'
    BY <1>0, <1>3 DEF Tick, TasksOK
  <2>2. RestOK'
    BY <1>0, <1>3 DEF Tick, RestOK
  <2>3. Numbered' /\ ResetRevokes' /\ CaptchaSpent'
    BY <1>0, <1>3 DEF Tick, Numbered, ResetRevokes, CaptchaSpent
  <2> QED BY <2>1, <2>2, <2>3, TypeParts DEF SafeInv
<1>4. ASSUME NEW t \in Task, NEW pw \in Password, Login(t, pw)
      PROVE  SafeInv'
  <2>1. TasksOK'
    <3>1. issued \in Nat /\ issued' \in {issued, issued + 1} /\ UNCHANGED <<task, session>>
      BY <1>0, <1>4 DEF Login, RestOK
    <3>2. \A n \in 1..issued : n \in 1..issued'
      BY <3>1
    <3> QED BY <1>0, <3>1, <3>2 DEF TasksOK
  <2>2. RestOK'
    <3>1. issued \in Nat /\ tokens \subseteq 1..issued
      BY <1>0 DEF RestOK
    <3>2. issued' \in 0..MaxToken /\ tokens' \subseteq 1..issued'
      <4>1. CASE UNCHANGED <<issued, tokens>>
        BY <1>0, <4>1 DEF RestOK
      <4>2. CASE issued < MaxToken /\ issued' = issued + 1 /\ tokens' = tokens \cup {issued + 1}
        BY <1>0, <3>1, <4>2
      <4> QED BY <1>4, <4>1, <4>2 DEF Login
    <3> QED BY <1>0, <1>4, <3>2 DEF Login, RestOK
  <2>3. Numbered' /\ CaptchaSpent'
    BY <1>0, <1>4 DEF Login, Numbered, RestOK, CaptchaSpent
  <2>4. ResetRevokes'
    <3>1. \A r \in resets : r.issued \in 0..MaxToken /\ r.issued <= issued
      BY <1>0 DEF RestOK, Numbered
    <3>2. issued \in Nat /\ resets' = resets /\ tokens' \subseteq tokens \cup {issued + 1}
      BY <1>0, <1>4 DEF Login, RestOK
    <3> QED BY <1>0, <3>1, <3>2 DEF ResetRevokes
  <2> QED BY <2>1, <2>2, <2>3, <2>4, TypeParts DEF SafeInv
<1>5. ASSUME NEW t \in Task, NEW k \in tokens, NEW pc \in {"logout", "modify"},
             NEW old \in Password \cup {Unknown}, NEW new \in Password \cup {Unknown},
             pc = "modify" => new \in Password,
             Authorise(t, k, pc, old, new)
      PROVE  SafeInv'
  <2> DEFINE rec == [Idle EXCEPT !.pc = pc, !.token = k, !.old = old, !.new = new]
  <2>1. k \in 0..MaxToken /\ k \in 1..issued /\ pc \in Pc /\ pc # "mail"
    BY <1>0 DEF RestOK, Pc
  <2>2. rec \in TaskRecord /\ rec.pc = pc /\ rec.new = new /\ rec.token = k
    BY <2>1, IdleType DEF Idle, TaskRecord
  <2>3. Set(t, rec) /\ UNCHANGED <<session, issued>>
    BY <1>5 DEF Authorise
  <2> HIDE DEF rec
  <2>4. TasksOK'
    BY <1>0, <1>5, <2>1, <2>2, <2>3, SetOK
  <2> QED BY <1>0, <1>1, <1>5, <2>4 DEF Authorise, RestOK
<1>6. ASSUME NEW t \in Task, Logout(t)
      PROVE  SafeInv'
  <2>1. TasksOK'
    BY <1>0, <1>6, IdleType, SetOK DEF Logout, Finish
  <2>2. RestOK'
    BY <1>0, <1>6 DEF Logout, RestOK
  <2>3. Numbered' /\ ResetRevokes' /\ CaptchaSpent'
    BY <1>0, <1>6 DEF Logout, Numbered, ResetRevokes, CaptchaSpent
  <2> QED BY <2>1, <2>2, <2>3, TypeParts DEF SafeInv
<1>7. ASSUME NEW t \in Task, ModifyPassword(t)
      PROVE  SafeInv'
  <2>1. TasksOK'
    BY <1>0, <1>7, IdleType, SetOK DEF ModifyPassword, Finish
  <2>2. password' \in Password
    BY <1>0, <1>7 DEF ModifyPassword, TasksOK, RestOK
  <2> QED BY <1>1, <1>7, <2>1, <2>2 DEF ModifyPassword
<1>8. ASSUME NEW t \in Task, Request(t)
      PROVE  SafeInv'
  <2>1. TasksOK'
    <3> DEFINE rec == [Idle EXCEPT !.pc = "request"]
    <3>1. rec \in TaskRecord /\ rec.pc = "request"
      BY RequestType
    <3>2. Set(t, rec) /\ UNCHANGED <<session, issued>>
      BY <1>8 DEF Request
    <3> HIDE DEF rec
    <3> QED BY <1>0, <3>1, <3>2, SetOK
  <2> QED BY <1>0, <1>1, <1>8, <2>1 DEF Request, RestOK
<1>9. ASSUME NEW t \in Task, RequestFirst(t)
      PROVE  SafeInv'
  <2> DEFINE cx == Updated(now, drawn + 1)
  <2>1. cx \in Session /\ cx.captcha = drawn + 1 /\ cx.last = now /\ drawn + 1 \in 0..MaxCaptcha
    BY <1>0, <1>9, UpdatedType DEF RequestFirst, RestOK
  <2>2. session' = {cx} /\ drawn' = drawn + 1 /\ Set(t, [Idle EXCEPT !.pc = "mail", !.cx = {cx}]) /\ Free
        /\ UNCHANGED <<now, password, tokens, issued, mails, refusal, resets>>
    BY <1>9 DEF RequestFirst
  <2> HIDE DEF cx
  <2>3. TasksOK'
    <3> DEFINE rec == [Idle EXCEPT !.pc = "mail", !.cx = {cx}]
    <3>1. rec \in TaskRecord /\ rec.pc = "mail" /\ rec.cx = {cx}
      BY <2>1, MailType
    <3>2. Set(t, rec)
      BY <2>2
    <3> HIDE DEF rec
    <3> QED BY <1>0, <2>2, <3>1, <3>2, FreeOK
  <2>4. RestOK'
    BY <1>0, <2>1, <2>2 DEF RestOK
  <2>5. \A r \in resets : r.captcha \in Nat /\ r.captcha <= drawn /\ drawn \in Nat
    BY <1>0 DEF RestOK, Numbered, Captcha
  <2>6. Numbered' /\ ResetRevokes' /\ CaptchaSpent'
    BY <1>0, <2>1, <2>2, <2>5 DEF RestOK, Numbered, ResetRevokes, CaptchaSpent
  <2> QED BY <2>3, <2>4, <2>6, TypeParts DEF SafeInv
<1>10. ASSUME NEW t \in Task, RequestAgain(t)
       PROVE  SafeInv'
  <2> DEFINE cx == Updated(now, drawn + 1)
  <2>0. TasksOK'
    BY <1>0, <1>10, IdleType, FreeOK DEF RequestAgain, Finish
  <2>1. CASE UNCHANGED <<drawn, session>>
    <3>1. RestOK'
      BY <1>0, <1>10, <2>1 DEF RequestAgain, RestOK
    <3>2. Numbered' /\ ResetRevokes' /\ CaptchaSpent'
      BY <1>0, <1>10, <2>1 DEF RequestAgain, Numbered, ResetRevokes, CaptchaSpent
    <3> QED BY <2>0, <3>1, <3>2, TypeParts DEF SafeInv
  <2>2. CASE drawn < MaxCaptcha /\ drawn' = drawn + 1 /\ session' = {cx}
    <3>1. cx \in Session /\ cx.captcha = drawn + 1 /\ cx.last = now /\ drawn + 1 \in 0..MaxCaptcha
      BY <1>0, <2>2, UpdatedType DEF RestOK
    <3> HIDE DEF cx
    <3>2. UNCHANGED <<now, password, tokens, issued, mails, resets>> /\ refusal' = now
      BY <1>10 DEF RequestAgain
    <3>3. RestOK'
      BY <1>0, <2>2, <3>1, <3>2 DEF RestOK
    <3>4. \A r \in resets : r.captcha \in Nat /\ r.captcha <= drawn /\ drawn \in Nat
      BY <1>0 DEF RestOK, Numbered, Captcha
    <3>5. Numbered' /\ ResetRevokes' /\ CaptchaSpent'
      BY <1>0, <2>2, <3>1, <3>2, <3>4 DEF RestOK, Numbered, ResetRevokes, CaptchaSpent
    <3> QED BY <2>0, <3>3, <3>5, TypeParts DEF SafeInv
  <2> QED BY <1>10, <2>1, <2>2 DEF RequestAgain
<1>11. ASSUME NEW t \in Task, Mail(t)
       PROVE  SafeInv'
  <2>1. TasksOK'
    BY <1>0, <1>11, IdleType, SetOK DEF Mail, Finish
  <2>2. \A cx \in task[t].cx : [captcha |-> cx.captcha, asked |-> cx.last]
                               \in [captcha : Captcha, asked : 0..MaxTime]
    <3>1. task[t].cx = session
      BY <1>0, <1>11 DEF Mail, TasksOK
    <3>2. \A cx \in session : cx.captcha \in Captcha /\ cx.last \in 0..MaxTime
      BY <1>0 DEF RestOK, Numbered, Session, Cx
    <3> QED BY <3>1, <3>2
  <2>3. RestOK'
    BY <1>0, <1>11, <2>2 DEF Mail, RestOK
  <2>4. Numbered' /\ ResetRevokes' /\ CaptchaSpent'
    BY <1>0, <1>11 DEF Mail, Numbered, ResetRevokes, CaptchaSpent
  <2> QED BY <2>1, <2>3, <2>4, TypeParts DEF SafeInv
<1>12. ASSUME NEW t \in Task, NEW c, NEW pw \in Password, ResetPassword(t, c, pw)
       PROVE  SafeInv'
  <2>1. PICK cx \in session : cx.captcha = c
    BY <1>12 DEF ResetPassword
  <2>2. c \in Captcha /\ c <= drawn
    BY <1>0, <2>1 DEF RestOK, Numbered, Session, Cx
  <2>3. TasksOK'
    BY <1>0, <1>12 DEF ResetPassword, TasksOK, Free
  <2>4. /\ session' = {x \in session : x.captcha # c} /\ tokens' = {}
        /\ resets' = resets \cup {[captcha |-> c, issued |-> issued]} /\ password' = pw
        /\ UNCHANGED <<now, drawn, issued, mails, task, refusal>>
    BY <1>12 DEF ResetPassword, Verified, Kept
  <2>5. RestOK'
    BY <1>0, <2>2, <2>4 DEF RestOK
  <2>6. Numbered'
    BY <1>0, <2>2, <2>4 DEF RestOK, Numbered
  <2>7. ResetRevokes' /\ CaptchaSpent'
    BY <1>0, <2>4 DEF ResetRevokes, CaptchaSpent
  <2> QED BY <2>3, <2>5, <2>6, <2>7, TypeParts DEF SafeInv
<1>13. ASSUME NEW t \in Task, Fail(t)
       PROVE  SafeInv'
  <2>1. TasksOK'
    BY <1>0, <1>13, IdleType, SetOK DEF Fail, Finish
  <2> QED BY <1>0, <1>1, <1>13, <2>1 DEF Fail, RestOK
<1> QED BY <1>2, <1>3, <1>4, <1>5, <1>6, <1>7, <1>8, <1>9, <1>10, <1>11, <1>12, <1>13 DEF Next

(* SafeInv holds throughout: it is inductive. *)
THEOREM Safe == Spec => []SafeInv
BY SafeInit, SafeStep, PTL DEF Spec

(* Every state is well formed, and what is being mailed is the session. *)
THEOREM TypeCorrect == Spec => []TypeOK
<1>1. SafeInv => TypeOK
  BY DEF SafeInv
<1> QED BY <1>1, Safe, PTL

(* A reset revokes every token issued before it, for good. *)
THEOREM ResetAlwaysRevokes == Spec => []ResetRevokes
<1>1. SafeInv => ResetRevokes
  BY DEF SafeInv
<1> QED BY <1>1, Safe, PTL

(* A captcha that has reset a password never opens a session again. *)
THEOREM CaptchaAlwaysSpent == Spec => []CaptchaSpent
<1>1. SafeInv => CaptchaSpent
  BY DEF SafeInv
<1> QED BY <1>1, Safe, PTL

(* Only Mail sends, and what it sends is the session. *)
LEMMA MailStep ==
  ASSUME SafeInv, [Next]_vars, NEW m \in mails' \ mails
  PROVE  \E cx \in session' : cx.captcha = m.captcha
<1>1. PICK t \in Task : Mail(t)
  BY DEF Next, vars, Tick, Login, Authorise, Logout, ModifyPassword, Request, RequestFirst,
         RequestAgain, ResetPassword, Fail
<1>2. task[t].cx = session /\ session' = session
  BY <1>1 DEF Mail, SafeInv, TypeOK
<1>3. PICK cx \in task[t].cx : m = [captcha |-> cx.captcha, asked |-> cx.last]
  BY <1>1 DEF Mail
<1> QED BY <1>2, <1>3

(* The captcha that goes out is the one the session compares with. *)
THEOREM MailAlwaysCurrent == Spec => MailIsCurrent
<1>1. SafeInv /\ [Next]_vars
      => [\A m \in mails' \ mails : \E cx \in session' : cx.captcha = m.captcha]_vars
  BY MailStep
<1> QED BY <1>1, Safe, PTL DEF Spec, MailIsCurrent
-------------------------------------------------------------------------------
(* The refinement of Credentials: lemmas about secrets that are numbered as  *)
(* they are drawn, then one step of the abstract specification, or none, for  *)
(* every action.                                                             *)
Numbers(D, valid, n) == [x \in D |-> Secret(x, valid, n)]

LEMMA ValidNumbers ==
  ASSUME NEW D, NEW n, NEW valid \in SUBSET D
  PROVE  Secrets!Valid(Numbers(D, valid, n)) = valid
BY DEF Numbers, Secret, Secrets!Valid

(* What stops being valid has been drawn: it is void. *)
LEMMA VoidNumbers ==
  ASSUME NEW D, NEW n \in Nat, NEW valid, NEW S \in SUBSET (1..n)
  PROVE  Numbers(D, valid \ S, n) = Secrets!Voided(Numbers(D, valid, n), S)
<1>1. \A x \in S : x <= n
  OBVIOUS
<1> QED BY <1>1 DEF Numbers, Secret, Secrets!Voided

(* The next number was new, and is the only one to change. *)
LEMMA NextNumber ==
  ASSUME NEW D \in SUBSET Nat, NEW n \in Nat, n + 1 \in D, NEW valid \in SUBSET (1..n)
  PROVE  /\ Numbers(D, valid, n)[n + 1] = "new"
         /\ Numbers(D, valid \cup {n + 1}, n + 1)
              = [Numbers(D, valid, n) EXCEPT ![n + 1] = "valid"]
<1> DEFINE f == Numbers(D, valid, n)
           g == Numbers(D, valid \cup {n + 1}, n + 1)
<1>1. n + 1 \notin valid /\ ~(n + 1 <= n)
  OBVIOUS
<1>2. f[n + 1] = "new"
  BY <1>1 DEF Numbers, Secret
<1>3. \A x \in D : x # n + 1 => g[x] = f[x]
  BY DEF Numbers, Secret
<1>4. g[n + 1] = "valid"
  BY DEF Numbers, Secret
<1>5. f = [x \in D |-> f[x]] /\ g = [x \in D |-> g[x]]
  BY DEF Numbers
<1> HIDE DEF f, g
<1>6. g = [f EXCEPT ![n + 1] = "valid"]
  BY <1>3, <1>4, <1>5
<1> QED BY <1>2, <1>6 DEF f, g

SessionCaptchas == {cx.captcha : cx \in session}

(* What is drawn takes the place of what was valid. *)
LEMMA DrawNumber ==
  ASSUME NEW D \in SUBSET Nat, NEW n \in Nat, n + 1 \in D, NEW valid \in SUBSET (1..n),
         valid \subseteq D
  PROVE  /\ Numbers(D, valid, n)[n + 1] = "new"
         /\ Numbers(D, {n + 1}, n + 1)
              = [Secrets!Voided(Numbers(D, valid, n), Secrets!Valid(Numbers(D, valid, n)))
                  EXCEPT ![n + 1] = "valid"]
<1>1. Secrets!Voided(Numbers(D, valid, n), valid) = Numbers(D, {}, n)
  <2>1. valid \ valid = {}
    OBVIOUS
  <2>2. Numbers(D, valid \ valid, n) = Secrets!Voided(Numbers(D, valid, n), valid)
    BY VoidNumbers
  <2> QED BY <2>1, <2>2
<1>2. Secrets!Valid(Numbers(D, valid, n)) = valid
  BY ValidNumbers
<1>3. Numbers(D, {} \cup {n + 1}, n + 1) = [Numbers(D, {}, n) EXCEPT ![n + 1] = "valid"]
  BY NextNumber
<1>4. {} \cup {n + 1} = {n + 1}
  OBVIOUS
<1> QED BY <1>1, <1>2, <1>3, <1>4, NextNumber

(* The mapped state. *)
TokenBar   == Numbers(Token, tokens, issued)
CaptchaBar == Numbers(Captcha, SessionCaptchas, drawn)
MailedBar  == {m.captcha : m \in mails}

LEMMA Mapped ==
  /\ [k \in Token |-> Secret(k, tokens, issued)] = TokenBar
  /\ [c \in Captcha |-> Secret(c, {cx.captcha : cx \in session}, drawn)] = CaptchaBar
  /\ ([k \in Token |-> Secret(k, tokens, issued)])' = TokenBar'
  /\ ([c \in Captcha |-> Secret(c, {cx.captcha : cx \in session}, drawn)])' = CaptchaBar'
BY DEF TokenBar, CaptchaBar, Numbers, SessionCaptchas

(* What SafeInv says of the mapped state. *)
LEMMA MappedType ==
  ASSUME SafeInv
  PROVE  /\ issued \in Nat /\ issued <= MaxToken /\ drawn \in Nat /\ drawn <= MaxCaptcha
         /\ tokens \in SUBSET (1..issued) /\ tokens \subseteq Token
         /\ SessionCaptchas \in SUBSET (1..drawn) /\ SessionCaptchas \subseteq Captcha
<1>1. issued \in 0..MaxToken /\ drawn \in 0..MaxCaptcha /\ tokens \subseteq 1..issued
  BY DEF SafeInv, TypeOK
<1>2. \A cx \in session : cx.captcha \in Captcha /\ cx.captcha <= drawn
  BY DEF SafeInv, TypeOK, Numbered, Session, Cx
<1> QED BY <1>1, <1>2, BoundAssumption DEF SessionCaptchas, Captcha, Token

(* Init maps to Init: nothing was drawn. *)
LEMMA SecretsInit == Init => Secrets!Init
<1> SUFFICES ASSUME Init PROVE Secrets!Init
  OBVIOUS
<1>1. \A x \in Nat \ {0} : Secret(x, {}, 0) = "new"
  BY DEF Secret
<1>2. {cx.captcha : cx \in session} = {} /\ {m.captcha : m \in mails} = {}
      /\ tokens = {} /\ issued = 0 /\ drawn = 0 /\ password \in Password
  BY DEF Init
<1>3. (\A k \in Token : k \in Nat \ {0}) /\ (\A c \in Captcha : c \in Nat \ {0})
  BY BoundAssumption DEF Token, Captcha
<1> QED BY <1>1, <1>2, <1>3 DEF Secrets!Init

(* Every step maps to a step or a stutter. *)
LEMMA SecretsStep == SafeInv /\ [Next]_vars => [Secrets!Next]_(Secrets!vars)
<1> SUFFICES ASSUME SafeInv, [Next]_vars PROVE [Secrets!Next]_(Secrets!vars)
  OBVIOUS
<1>0. /\ issued \in Nat /\ issued <= MaxToken /\ drawn \in Nat /\ drawn <= MaxCaptcha
      /\ tokens \in SUBSET (1..issued) /\ tokens \subseteq Token
      /\ SessionCaptchas \in SUBSET (1..drawn) /\ SessionCaptchas \subseteq Captcha
      /\ Token \in SUBSET Nat /\ Captcha \in SUBSET Nat
      /\ MaxToken \in Nat /\ MaxCaptcha \in Nat
  BY MappedType, BoundAssumption DEF Token, Captcha
(* The steps that change none of the secrets. *)
<1>1. ASSUME UNCHANGED <<password, tokens, issued, session, drawn, mails>>
      PROVE  UNCHANGED Secrets!vars
  BY <1>1 DEF Secrets!vars
<1>2. CASE UNCHANGED vars
  BY <1>1, <1>2 DEF vars
<1>3. CASE Tick
  BY <1>1, <1>3 DEF Tick
<1>4. ASSUME NEW t \in Task, NEW pw \in Password, Login(t, pw)
      PROVE  [Secrets!Next]_(Secrets!vars)
  <2>1. UNCHANGED <<password, session, drawn, mails>>
    BY <1>4 DEF Login
  <2>2. CASE UNCHANGED <<issued, tokens>>
    BY <1>1, <2>1, <2>2
  <2>3. CASE issued < MaxToken /\ issued' = issued + 1 /\ tokens' = tokens \cup {issued + 1}
    <3>1. issued + 1 \in Token
      BY <1>0, <2>3 DEF Token
    <3>2. TokenBar[issued + 1] = "new" /\ TokenBar' = [TokenBar EXCEPT ![issued + 1] = "valid"]
      BY <1>0, <2>3, <3>1, NextNumber DEF TokenBar
    <3>3. Secrets!Issue(issued + 1)
      BY <2>1, <3>2, Mapped DEF Secrets!Issue
    <3> QED BY <3>1, <3>3 DEF Secrets!Next
  <2> QED BY <1>4, <2>2, <2>3 DEF Login
<1>5. ASSUME NEW t \in Task, NEW k, NEW pc, NEW old, NEW new, Authorise(t, k, pc, old, new)
      PROVE  [Secrets!Next]_(Secrets!vars)
  BY <1>1, <1>5 DEF Authorise
<1>6. ASSUME NEW t \in Task, Logout(t)
      PROVE  [Secrets!Next]_(Secrets!vars)
  <2> DEFINE k == task[t].token
  <2>1. k \in 1..issued
    BY <1>6 DEF Logout, SafeInv, TypeOK
  <2>2. UNCHANGED <<password, issued, session, drawn, mails>> /\ tokens' = tokens \ {k}
    BY <1>6 DEF Logout
  <2>3. CASE k \notin tokens
    BY <1>1, <2>2, <2>3
  <2>4. CASE k \in tokens
    <3>1. k \in Token /\ TokenBar[k] = "valid"
      BY <1>0, <2>4 DEF TokenBar, Numbers, Secret
    <3>2. {k} \in SUBSET (1..issued)
      BY <1>0, <2>1
    <3>3. TokenBar' = Secrets!Voided(TokenBar, {k})
      BY <1>0, <2>2, <3>2, VoidNumbers DEF TokenBar
    <3>4. Secrets!Revoke(k)
      BY <2>2, <3>1, <3>3, Mapped DEF Secrets!Revoke
    <3> QED BY <3>1, <3>4 DEF Secrets!Next
  <2> QED BY <2>3, <2>4
<1>7. ASSUME NEW t \in Task, ModifyPassword(t)
      PROVE  [Secrets!Next]_(Secrets!vars)
  <2> DEFINE k == task[t].token
  <2>1. k \in 1..issued /\ k \in Token /\ k <= issued
    BY <1>0, <1>7 DEF ModifyPassword, SafeInv, TypeOK, Token
  <2>2. UNCHANGED <<tokens, issued, session, drawn, mails>> /\ password' \in Password
    BY <1>7 DEF ModifyPassword, SafeInv, TypeOK
  <2> HIDE DEF k
  <2>3. TokenBar[k] # "new"
    BY <2>1 DEF TokenBar, Numbers, Secret
  <2>4. Secrets!Change(k, password')
    BY <2>2, <2>3, Mapped DEF Secrets!Change
  <2> QED BY <2>1, <2>2, <2>4 DEF Secrets!Next
<1>8. ASSUME NEW t \in Task, Request(t)
      PROVE  [Secrets!Next]_(Secrets!vars)
  BY <1>1, <1>8 DEF Request
(* Both requests that are not refused. *)
<1>9. ASSUME drawn < MaxCaptcha, drawn' = drawn + 1, session' = {Updated(now, drawn + 1)},
             UNCHANGED <<password, tokens, issued, mails>>
      PROVE  [Secrets!Next]_(Secrets!vars)
  <2>1. drawn + 1 \in Captcha
    BY <1>0, <1>9 DEF Captcha
  <2>2. SessionCaptchas' = {drawn + 1}
    BY <1>9 DEF SessionCaptchas, Updated
  <2>3. /\ CaptchaBar[drawn + 1] = "new"
        /\ CaptchaBar' = [Secrets!Voided(CaptchaBar, Secrets!Valid(CaptchaBar))
                           EXCEPT ![drawn + 1] = "valid"]
    BY <1>0, <1>9, <2>1, <2>2, DrawNumber DEF CaptchaBar
  <2>4. Secrets!Draw(drawn + 1)
    BY <1>9, <2>3, Mapped DEF Secrets!Draw
  <2> QED BY <2>1, <2>4 DEF Secrets!Next
<1>10. ASSUME NEW t \in Task, RequestFirst(t)
       PROVE  [Secrets!Next]_(Secrets!vars)
  BY <1>9, <1>10 DEF RequestFirst
<1>11. ASSUME NEW t \in Task, RequestAgain(t)
       PROVE  [Secrets!Next]_(Secrets!vars)
  BY <1>1, <1>9, <1>11 DEF RequestAgain
<1>12. ASSUME NEW t \in Task, Mail(t)
       PROVE  [Secrets!Next]_(Secrets!vars)
  <2>1. /\ mails' = mails \cup {[captcha |-> cx.captcha, asked |-> cx.last] : cx \in session}
        /\ UNCHANGED <<password, tokens, issued, session, drawn>>
    BY <1>12 DEF Mail, SafeInv, TypeOK
  <2>2. CASE session = {}
    BY <1>1, <2>1, <2>2
  <2>3. CASE session # {}
    <3>1. PICK cx \in session : session = {cx}
      BY <2>3 DEF SafeInv, TypeOK
    <3>2. SessionCaptchas = {cx.captcha}
      BY <3>1 DEF SessionCaptchas
    <3>3. cx.captcha \in Captcha /\ CaptchaBar[cx.captcha] = "valid"
      BY <1>0, <3>2 DEF CaptchaBar, Numbers, Secret
    <3> DEFINE sent == [captcha |-> cx.captcha, asked |-> cx.last]
    <3>4. mails' = mails \cup {sent} /\ sent.captcha = cx.captcha
      BY <2>1, <3>1
    <3> HIDE DEF sent
    <3>5. {m.captcha : m \in mails'} = {m.captcha : m \in mails} \cup {cx.captcha}
      BY <3>4
    <3>6. Secrets!Send(cx.captcha)
      BY <2>1, <3>3, <3>5, Mapped DEF Secrets!Send
    <3> QED BY <3>3, <3>6 DEF Secrets!Next
  <2> QED BY <2>2, <2>3
<1>13. ASSUME NEW t \in Task, NEW m \in mails, NEW pw \in Password, ResetPassword(t, m.captcha, pw)
       PROVE  [Secrets!Next]_(Secrets!vars)
  <2> DEFINE c == m.captcha
  <2>1. c \in SessionCaptchas /\ c \in {n.captcha : n \in mails}
    BY <1>13 DEF ResetPassword, SessionCaptchas
  <2>2. /\ session' = {cx \in session : cx.captcha # c} /\ tokens' = {} /\ password' = pw
        /\ UNCHANGED <<issued, drawn, mails>>
    BY <1>13 DEF ResetPassword, Verified, Kept
  <2> HIDE DEF c
  <2>3. c \in Captcha /\ CaptchaBar[c] = "valid"
    BY <1>0, <2>1 DEF CaptchaBar, Numbers, Secret
  <2>4. CaptchaBar' = Secrets!Voided(CaptchaBar, {c})
    <3>1. SessionCaptchas' = SessionCaptchas \ {c}
      BY <2>2 DEF SessionCaptchas
    <3>2. {c} \in SUBSET (1..drawn)
      BY <1>0, <2>1
    <3> QED BY <1>0, <2>2, <3>1, <3>2, VoidNumbers DEF CaptchaBar
  <2>5. TokenBar' = Secrets!Voided(TokenBar, Secrets!Valid(TokenBar))
    <3>1. tokens' = tokens \ tokens
      BY <2>2
    <3>2. tokens \in SUBSET (1..issued)
      BY <1>0
    <3>3. Secrets!Valid(TokenBar) = tokens
      <4>1. tokens \in SUBSET Token
        BY <1>0
      <4> QED BY <4>1, ValidNumbers DEF TokenBar
    <3> QED BY <1>0, <2>2, <3>1, <3>2, <3>3, VoidNumbers DEF TokenBar
  <2>6. Secrets!Reset(c, pw)
    BY <2>1, <2>2, <2>3, <2>4, <2>5, Mapped DEF Secrets!Reset
  <2> QED BY <2>3, <2>6 DEF Secrets!Next
<1>14. ASSUME NEW t \in Task, Fail(t)
       PROVE  [Secrets!Next]_(Secrets!vars)
  BY <1>1, <1>14 DEF Fail
<1> QED BY <1>2, <1>3, <1>4, <1>5, <1>6, <1>7, <1>8, <1>10, <1>11, <1>12, <1>13, <1>14 DEF Next

(* The handlers of an account implement the life of its secrets: one captcha  *)
(* at a time, mailed while it works, void for good once used or replaced, and *)
(* every token void after a reset.                                           *)
THEOREM CredentialsImplemented == Spec => ImplementsCredentials
BY SecretsInit, SecretsStep, Safe, PTL DEF Spec, ImplementsCredentials, Secrets!Spec

(* What Credentials entails, so of the handlers too. *)
LEMMA OneValidInit == Secrets!Init => Secrets!OneValid
BY DEF Secrets!Init, Secrets!OneValid

(* The steps of Credentials on captchas, in the terms of the mapped state. *)
CaptchaSteps ==
  \/ CaptchaBar' = CaptchaBar /\ MailedBar' = MailedBar
  \/ \E c \in Captcha :
       \/ /\ CaptchaBar[c] = "new" /\ MailedBar' = MailedBar
          /\ CaptchaBar' = [Secrets!Voided(CaptchaBar, Secrets!Valid(CaptchaBar))
                             EXCEPT ![c] = "valid"]
       \/ CaptchaBar[c] = "valid" /\ CaptchaBar' = CaptchaBar /\ MailedBar' = MailedBar \cup {c}
       \/ /\ CaptchaBar[c] = "valid" /\ c \in MailedBar /\ MailedBar' = MailedBar
          /\ CaptchaBar' = Secrets!Voided(CaptchaBar, {c})

LEMMA CaptchaStepsTaken == [Secrets!Next]_(Secrets!vars) => CaptchaSteps
BY Mapped DEF CaptchaSteps, MailedBar, Secrets!Next, Secrets!vars, Secrets!Issue, Secrets!Revoke,
              Secrets!Change, Secrets!Draw, Secrets!Send, Secrets!Reset

LEMMA VoidedAt ==
  ASSUME NEW S, NEW f, f = [c \in S |-> f[c]], NEW Gone, NEW c \in S
  PROVE  /\ Secrets!Voided(f, Gone)[c] = IF c \in Gone THEN "void" ELSE f[c]
         /\ DOMAIN Secrets!Voided(f, Gone) = S
         /\ c \in Secrets!Valid(f) <=> f[c] = "valid"
BY DEF Secrets!Voided, Secrets!Valid

LEMMA OneValidStep == Secrets!OneValid /\ [Secrets!Next]_(Secrets!vars) => Secrets!OneValid'
<1> SUFFICES ASSUME Secrets!OneValid, CaptchaSteps PROVE Secrets!OneValid'
  BY CaptchaStepsTaken
<1>0. CaptchaBar = [c \in Captcha |-> CaptchaBar[c]]
  BY DEF CaptchaBar, Numbers
<1>1. /\ \A c, d \in Captcha : CaptchaBar[c] = "valid" /\ CaptchaBar[d] = "valid" => c = d
      /\ \A c \in MailedBar \cap Captcha : CaptchaBar[c] # "new"
  BY Mapped DEF Secrets!OneValid, MailedBar
<1>2. CASE CaptchaBar' = CaptchaBar /\ MailedBar' = MailedBar
  BY <1>1, <1>2, Mapped DEF Secrets!OneValid, MailedBar
<1>3. ASSUME NEW b \in Captcha,
             CaptchaBar[b] = "new", MailedBar' = MailedBar,
             CaptchaBar' = [Secrets!Voided(CaptchaBar, Secrets!Valid(CaptchaBar))
                             EXCEPT ![b] = "valid"]
      PROVE  Secrets!OneValid'
  <2>1. \A c \in Captcha : CaptchaBar'[c] = IF c = b THEN "valid"
                             ELSE IF CaptchaBar[c] = "valid" THEN "void" ELSE CaptchaBar[c]
    BY <1>0, <1>3, VoidedAt
  <2>2. /\ \A c, d \in Captcha : CaptchaBar'[c] = "valid" /\ CaptchaBar'[d] = "valid" => c = d
        /\ \A c \in MailedBar' \cap Captcha : CaptchaBar'[c] # "new"
    BY <1>1, <1>3, <2>1
  <2> QED BY <2>2, Mapped DEF Secrets!OneValid, MailedBar
<1>4. ASSUME NEW b \in Captcha,
             CaptchaBar[b] = "valid", CaptchaBar' = CaptchaBar, MailedBar' = MailedBar \cup {b}
      PROVE  Secrets!OneValid'
  <2>1. /\ \A c, d \in Captcha : CaptchaBar'[c] = "valid" /\ CaptchaBar'[d] = "valid" => c = d
        /\ \A c \in MailedBar' \cap Captcha : CaptchaBar'[c] # "new"
    BY <1>1, <1>4
  <2> QED BY <2>1, Mapped DEF Secrets!OneValid, MailedBar
<1>5. ASSUME NEW b \in Captcha, MailedBar' = MailedBar,
             CaptchaBar' = Secrets!Voided(CaptchaBar, {b})
      PROVE  Secrets!OneValid'
  <2>1. \A c \in Captcha : CaptchaBar'[c] = IF c = b THEN "void" ELSE CaptchaBar[c]
    BY <1>0, <1>5, VoidedAt
  <2>2. /\ \A c, d \in Captcha : CaptchaBar'[c] = "valid" /\ CaptchaBar'[d] = "valid" => c = d
        /\ \A c \in MailedBar' \cap Captcha : CaptchaBar'[c] # "new"
    BY <1>1, <1>5, <2>1
  <2> QED BY <2>2, Mapped DEF Secrets!OneValid, MailedBar
<1> QED BY <1>2, <1>3, <1>4, <1>5 DEF CaptchaSteps

(* One captcha is valid at a time, whatever requests for one overlap, and     *)
(* none was sent that had not been drawn.                                    *)
THEOREM OneCaptchaValid == Spec => []Secrets!OneValid
BY CredentialsImplemented, OneValidInit, OneValidStep, PTL DEF ImplementsCredentials, Secrets!Spec

(* What Credentials says of one step that is no stutter. *)
VoidStays ==
  /\ \A k \in Token : TokenBar[k] = "void" => TokenBar'[k] = "void"
  /\ \A c \in Captcha : CaptchaBar[c] = "void" => CaptchaBar'[c] = "void"
  /\ password' # password =>
       \/ \E k \in Token : TokenBar[k] # "new"
       \/ \E c \in MailedBar : CaptchaBar[c] = "valid" /\ CaptchaBar'[c] = "void"

LEMMA VoidStaysVoid == [Secrets!Next]_(Secrets!vars) => VoidStays
<1> SUFFICES ASSUME [Secrets!Next]_(Secrets!vars) PROVE VoidStays
  OBVIOUS
<1>0. /\ CaptchaBar = [c \in Captcha |-> CaptchaBar[c]]
      /\ TokenBar = [k \in Token |-> TokenBar[k]]
  BY DEF CaptchaBar, TokenBar, Numbers
<1>1. CASE UNCHANGED Secrets!vars
  BY <1>1, Mapped DEF VoidStays, Secrets!vars
<1>2. ASSUME NEW k \in Token, Secrets!Issue(k) \/ Secrets!Revoke(k)
      PROVE  VoidStays
  <2>1. CaptchaBar' = CaptchaBar /\ password' = password
    BY <1>2, Mapped DEF Secrets!Issue, Secrets!Revoke
  <2>2. \/ TokenBar[k] = "new" /\ TokenBar' = [TokenBar EXCEPT ![k] = "valid"]
        \/ TokenBar' = Secrets!Voided(TokenBar, {k})
    BY <1>2, Mapped DEF Secrets!Issue, Secrets!Revoke
  <2>3. \A j \in Token : TokenBar[j] = "void" => TokenBar'[j] = "void"
    BY <1>0, <2>2, VoidedAt
  <2> QED BY <2>1, <2>3 DEF VoidStays
<1>3. ASSUME NEW k \in Token, NEW pw \in Password, Secrets!Change(k, pw)
      PROVE  VoidStays
  <2>1. CaptchaBar' = CaptchaBar /\ TokenBar' = TokenBar /\ TokenBar[k] # "new"
    BY <1>3, Mapped DEF Secrets!Change
  <2> QED BY <2>1 DEF VoidStays
<1>4. ASSUME NEW c \in Captcha, Secrets!Draw(c)
      PROVE  VoidStays
  <2>1. TokenBar' = TokenBar /\ password' = password /\ CaptchaBar[c] = "new"
    BY <1>4, Mapped DEF Secrets!Draw
  <2>2. CaptchaBar' = [Secrets!Voided(CaptchaBar, Secrets!Valid(CaptchaBar)) EXCEPT ![c] = "valid"]
    BY <1>4, Mapped DEF Secrets!Draw
  <2>3. \A d \in Captcha : CaptchaBar[d] = "void" => CaptchaBar'[d] = "void"
    BY <1>0, <2>1, <2>2, VoidedAt
  <2> QED BY <2>1, <2>3 DEF VoidStays
<1>5. ASSUME NEW c \in Captcha, Secrets!Send(c)
      PROVE  VoidStays
  <2>1. TokenBar' = TokenBar /\ CaptchaBar' = CaptchaBar /\ password' = password
    BY <1>5, Mapped DEF Secrets!Send
  <2> QED BY <2>1 DEF VoidStays
<1>6. ASSUME NEW c \in Captcha, NEW pw \in Password, Secrets!Reset(c, pw)
      PROVE  VoidStays
  <2>1. /\ CaptchaBar[c] = "valid" /\ c \in MailedBar
        /\ CaptchaBar' = Secrets!Voided(CaptchaBar, {c})
        /\ TokenBar' = Secrets!Voided(TokenBar, Secrets!Valid(TokenBar))
    BY <1>6, Mapped DEF Secrets!Reset, MailedBar
  <2>2. /\ \A d \in Captcha : CaptchaBar[d] = "void" => CaptchaBar'[d] = "void"
        /\ \A k \in Token : TokenBar[k] = "void" => TokenBar'[k] = "void"
        /\ CaptchaBar'[c] = "void"
    BY <1>0, <2>1, VoidedAt
  <2> QED BY <2>1, <2>2 DEF VoidStays
<1> QED BY <1>1, <1>2, <1>3, <1>4, <1>5, <1>6 DEF Secrets!Next

(* A token or captcha that is void once is void for good, and the password    *)
(* changes only with a token that was issued or with a mailed captcha that    *)
(* dies of it.                                                               *)
THEOREM SecretsVoidForGood == Spec => Secrets!VoidForGood
<1>1. [Secrets!Next]_(Secrets!vars) => [Secrets!StaysVoid]_(Secrets!vars)
  BY VoidStaysVoid, Mapped DEF VoidStays, MailedBar, Secrets!StaysVoid
<1> QED BY <1>1, CredentialsImplemented, PTL
        DEF ImplementsCredentials, Secrets!Spec, Secrets!VoidForGood
===============================================================================
