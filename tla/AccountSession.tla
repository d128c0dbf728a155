----------------------------- MODULE AccountSession -----------------------------
(***************************************************************************)
(* One registered account: login, logout, modify (of the password),         *)
(* send_reset_password_captcha and reset_password of src/handle/account.rs  *)
(* over the verify session of src/account.rs.                               *)
(*                                                                         *)
(* Every mutation happens under the write guard of the account; a captcha   *)
(* is mailed while that guard is held.  Requests authorised by a token are  *)
(* checked under a read guard first and do their work under the write guard *)
(* in a second step.                                                        *)
(***************************************************************************)
EXTENDS VerifyCx

CONSTANTS
  Task, Password,
  Unknown,     \* no password at all
  MaxTime, MaxCaptcha,
  MaxToken,    \* tokens issued
  Faults       \* may mails fail and clients disconnect?

ASSUME BoundAssumption ==
  MaxTime \in Nat /\ MaxCaptcha \in Nat /\ MaxToken \in Nat
ASSUME UnknownAssumption == Unknown \notin Password
ASSUME FaultsAssumption == Faults \in BOOLEAN

VARIABLES
  now, drawn,
  password,
  tokens,    \* valid tokens, numbered as they are issued
  issued,    \* tokens issued so far
  session,   \* the ResetPassword session: none or one VerifyCx
  mails,     \* mails the SMTP server took, with the time of their request
  task,
  refusal,   \* time of the last ReqTooFrequent, -1 when there was none
  resets     \* what every reset did: its captcha, the tokens issued before it

vars == <<now, drawn, password, tokens, issued, session, mails, task, refusal, resets>>

Captcha == 1..MaxCaptcha
Token   == 1..MaxToken

Pc == {"idle", "request", "mail", "check", "logout", "modify"}

Session == Cx(Captcha, 0..MaxTime)

(* cx: what is being mailed, none or one. *)
TaskRecord == [pc : Pc, token : 0..MaxToken, old : Password \cup {Unknown},
               new : Password \cup {Unknown}, cx : SUBSET Session]
Idle == [pc |-> "idle", token |-> 0, old |-> Unknown, new |-> Unknown, cx |-> {}]

Set(t, rec) == task' = [task EXCEPT ![t] = rec]
Finish(t)   == Set(t, Idle)

(* Nobody holds the write guard across a step, except to mail. *)
FreeMutant == TRUE
Free == \A t \in Task : task[t].pc # "mail"

-------------------------------------------------------------------------------
Login(t, pw) ==
  /\ task[t].pc = "idle" /\ Free
  /\ IF pw = password
     THEN issued < MaxToken /\ issued' = issued + 1 /\ tokens' = tokens \cup {issued + 1}
     ELSE UNCHANGED <<issued, tokens>>
  /\ UNCHANGED <<now, drawn, password, session, mails, task, refusal, resets>>

(* va!: the token is valid at this moment. *)
Authorise(t, k, pc, old, new) ==
  /\ task[t].pc = "idle" /\ Free /\ k \in tokens
  /\ Set(t, [Idle EXCEPT !.pc = pc, !.token = k, !.old = old, !.new = new])
  /\ UNCHANGED <<now, drawn, password, tokens, issued, session, mails, refusal, resets>>

Logout(t) ==
  /\ task[t].pc = "logout" /\ Free
  /\ tokens' = tokens \ {task[t].token}
  /\ Finish(t)
  /\ UNCHANGED <<now, drawn, password, issued, session, mails, refusal, resets>>

(* The old password is compared under the guard that changes it. *)
ModifyPassword(t) ==
  /\ task[t].pc = "modify" /\ Free
  /\ password' = IF task[t].old = password THEN task[t].new ELSE password
  /\ Finish(t)
  /\ UNCHANGED <<now, drawn, tokens, issued, session, mails, refusal, resets>>

-------------------------------------------------------------------------------
(* req_verify, no session yet: a new one, and the update made by send_email. *)
RequestFirst(t) ==
  /\ task[t].pc = "request" /\ Free /\ session = {} /\ MayUpdate(New, now)
  /\ drawn < MaxCaptcha /\ drawn' = drawn + 1
  /\ session' = {Updated(now, drawn + 1)}
  /\ Set(t, [Idle EXCEPT !.pc = "mail", !.cx = {Updated(now, drawn + 1)}])
  /\ UNCHANGED <<now, password, tokens, issued, mails, refusal, resets>>

(* req_verify, session found: its own update, which may refuse, and then the *)
(* update of send_email, which always refuses: the first one was just now.   *)
RequestAgain(t) ==
  /\ task[t].pc = "request" /\ Free /\ session # {}
  /\ IF \A cx \in session : MayUpdate(cx, now)
     THEN /\ drawn < MaxCaptcha /\ drawn' = drawn + 1
          /\ session' = {Updated(now, drawn + 1)}
     ELSE UNCHANGED <<drawn, session>>
  /\ refusal' = now
  /\ Finish(t)
  /\ UNCHANGED <<now, password, tokens, issued, mails, resets>>

Request(t) ==
  /\ task[t].pc = "idle"
  /\ Set(t, [Idle EXCEPT !.pc = "request"])
  /\ UNCHANGED <<now, drawn, password, tokens, issued, session, mails, refusal, resets>>

(* The captcha `update` returned goes out while the guard is still held. *)
Mail(t) ==
  /\ task[t].pc = "mail"
  /\ mails' = mails \cup {[captcha |-> cx.captcha, asked |-> cx.last] : cx \in task[t].cx}
  /\ Finish(t)
  /\ UNCHANGED <<now, drawn, password, tokens, issued, session, refusal, resets>>

(* do_verify removes the session it accepts. *)
VerifiedMutant(c) == session
Verified(c) == {cx \in session : cx.captcha # c}

(* clear_tokens *)
KeptMutant == tokens
Kept == {}

ResetPassword(t, c, pw) ==
  /\ task[t].pc = "idle" /\ Free
  /\ \E cx \in session : cx.captcha = c
  /\ session' = Verified(c)
  /\ password' = pw
  /\ tokens' = Kept
  /\ resets' = resets \cup {[captcha |-> c, issued |-> issued]}
  /\ UNCHANGED <<now, drawn, issued, mails, task, refusal>>

Fail(t) ==
  /\ Faults /\ task[t].pc # "idle"
  /\ Finish(t)
  /\ UNCHANGED <<now, drawn, password, tokens, issued, session, mails, refusal, resets>>

Tick ==
  /\ now < MaxTime /\ now' = now + 1
  /\ UNCHANGED <<drawn, password, tokens, issued, session, mails, task, refusal, resets>>

Init ==
  /\ now = 0 /\ drawn = 0 /\ issued = 0 /\ refusal = -1
  /\ password \in Password
  /\ tokens = {} /\ session = {} /\ mails = {} /\ resets = {}
  /\ task = [t \in Task |-> Idle]

(* Clients know the captchas that were mailed. *)
Next ==
  \/ Tick
  \/ \E t \in Task :
       \/ \E pw \in Password :
            \/ Login(t, pw)
            \/ \E m \in mails : ResetPassword(t, m.captcha, pw)
            \/ \E k \in tokens, new \in Password : Authorise(t, k, "modify", pw, new)
       \/ \E k \in tokens : Authorise(t, k, "logout", Unknown, Unknown)
       \/ Logout(t) \/ ModifyPassword(t)
       \/ Request(t) \/ RequestFirst(t) \/ RequestAgain(t)
       \/ Mail(t) \/ Fail(t)

Spec == Init /\ [][Next]_vars

-------------------------------------------------------------------------------
(* Properties *)

(* Ranges, and: what is on its way to the mail server is the session, and the *)
(* token a request was authorised by was issued.                              *)
TypeOK ==
  /\ now \in 0..MaxTime /\ drawn \in 0..MaxCaptcha /\ issued \in 0..MaxToken
  /\ password \in Password
  /\ tokens \subseteq 1..issued
  /\ session \subseteq Session /\ \A x, y \in session : x = y
  /\ mails \subseteq [captcha : Captcha, asked : 0..MaxTime]
  /\ task \in [Task -> TaskRecord]
  /\ \A t \in Task : /\ task[t].pc = "mail" => task[t].cx = session
                     /\ task[t].pc = "modify" => task[t].new \in Password
                     /\ task[t].pc \in {"logout", "modify"} => task[t].token \in 1..issued
  /\ refusal \in -1..MaxTime
  /\ resets \subseteq [captcha : Captcha, issued : 0..MaxToken]

(* No token issued before a reset is valid after it, whatever requests were  *)
(* half way through when the password changed (reset_password, clear_tokens). *)
ResetRevokes == \A r \in resets, k \in tokens : k > r.issued

(* One captcha resets one password once: do_verify ends its session, and no   *)
(* request, not one that was mailing meanwhile either, brings it back.        *)
CaptchaSpent == \A r \in resets, cx \in session : cx.captcha # r.captcha

(* The captcha that goes out is the one the session compares with when it    *)
(* does: no other request renews or ends the session under a mail in flight. *)
MailIsCurrent ==
  [][\A m \in mails' \ mails : \E cx \in session' : cx.captcha = m.captcha]_vars

(* The handlers implement the life of the secrets of an account: one captcha  *)
(* works at a time, it was mailed while it did, what is used or replaced never *)
(* works again, and a reset ends all that was given out before.               *)
Secret(x, valid, drawnSoFar) ==
  IF x \in valid THEN "valid" ELSE IF x <= drawnSoFar THEN "void" ELSE "new"

Secrets == INSTANCE Credentials
  WITH token   <- [k \in Token |-> Secret(k, tokens, issued)],
       captcha <- [c \in Captcha |-> Secret(c, {cx.captcha : cx \in session}, drawn)],
       mailed  <- {m.captcha : m \in mails}

ImplementsCredentials == Secrets!Spec

(* src/account.rs:250 (req_verify) "Errors if the difference between the     *)
(* last request time and the current time is no more than 10 minutes": what  *)
(* is refused as too frequent follows a mailed request within that time.     *)
RefusedOnlyWhenRecent ==
  refusal # -1 => \E m \in mails : refusal - m.asked <= Least

-------------------------------------------------------------------------------
(* The inductive invariant: what was drawn or issued is not drawn or issued   *)
(* again, so a later captcha or token is not one that a reset has dealt with. *)
Numbered ==
  /\ \A cx \in session : cx.captcha <= drawn /\ cx.last \in 0..MaxTime
  /\ \A r \in resets : r.captcha <= drawn /\ r.issued <= issued

SafeInv == TypeOK /\ Numbered /\ ResetRevokes /\ CaptchaSpent
===============================================================================
