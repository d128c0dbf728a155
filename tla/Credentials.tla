------------------------------ MODULE Credentials ------------------------------
(***************************************************************************)
(* What an account promises of its secrets, whatever its handlers do at      *)
(* once: a token or a captcha is drawn once, is valid for a time, and is     *)
(* void for good.  Of captchas one at most is valid, only a valid one is      *)
(* mailed, and it takes a mailed one to set a password without having logged  *)
(* in; that ends the captcha and every token.                                *)
(***************************************************************************)
CONSTANTS Password, Token, Captcha

VARIABLES
  password,
  token,    \* new, valid or void
  captcha,  \* the same
  mailed    \* captchas that were sent

vars == <<password, token, captcha, mailed>>

Valid(secret) == {x \in DOMAIN secret : secret[x] = "valid"}
Voided(secret, S) == [x \in DOMAIN secret |-> IF x \in S THEN "void" ELSE secret[x]]

Init ==
  /\ password \in Password
  /\ token = [k \in Token |-> "new"]
  /\ captcha = [c \in Captcha |-> "new"]
  /\ mailed = {}

(* login *)
Issue(k) ==
  /\ token[k] = "new" /\ token' = [token EXCEPT ![k] = "valid"]
  /\ UNCHANGED <<password, captcha, mailed>>

(* logout *)
Revoke(k) ==
  /\ token[k] = "valid" /\ token' = Voided(token, {k})
  /\ UNCHANGED <<password, captcha, mailed>>

(* modify: by somebody who has logged in before. *)
Change(k, pw) ==
  /\ token[k] # "new" /\ password' = pw
  /\ UNCHANGED <<token, captcha, mailed>>

(* A new captcha takes the place of the one before. *)
Draw(c) ==
  /\ captcha[c] = "new"
  /\ captcha' = [Voided(captcha, Valid(captcha)) EXCEPT ![c] = "valid"]
  /\ UNCHANGED <<password, token, mailed>>

Send(c) ==
  /\ captcha[c] = "valid" /\ mailed' = mailed \cup {c}
  /\ UNCHANGED <<password, token, captcha>>

Reset(c, pw) ==
  /\ captcha[c] = "valid" /\ c \in mailed
  /\ captcha' = Voided(captcha, {c}) /\ token' = Voided(token, Valid(token))
  /\ password' = pw
  /\ UNCHANGED mailed

Next ==
  \/ \E k \in Token : Issue(k) \/ Revoke(k) \/ \E pw \in Password : Change(k, pw)
  \/ \E c \in Captcha : Draw(c) \/ Send(c) \/ \E pw \in Password : Reset(c, pw)

Spec == Init /\ [][Next]_vars

-------------------------------------------------------------------------------
(* What follows from it. *)

(* One captcha at most is valid, and none was mailed before it was drawn.     *)
OneValid ==
  /\ \A c, d \in Captcha : captcha[c] = "valid" /\ captcha[d] = "valid" => c = d
  /\ \A c \in mailed \cap Captcha : captcha[c] # "new"

(* What has been void once is void for good, and nobody who never had one of   *)
(* the secrets changes the password.                                         *)
StaysVoid ==
  /\ \A k \in Token : token[k] = "void" => token'[k] = "void"
  /\ \A c \in Captcha : captcha[c] = "void" => captcha'[c] = "void"
  /\ password' # password =>
       \/ \E k \in Token : token[k] # "new"
       \/ \E c \in mailed : captcha[c] = "valid" /\ captcha'[c] = "void"

VoidForGood == [][StaysVoid]_vars
===============================================================================
