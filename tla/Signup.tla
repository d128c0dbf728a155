--------------------------------- MODULE Signup ---------------------------------
(***************************************************************************)
(* What registration promises of one email address: a captcha is drawn once *)
(* and mailed only while it lives; it takes a mailed, living one to register, *)
(* and only when there is no account; that ends the captcha.  A captcha dies  *)
(* for good, and an account stays for good, but for a stop of the process,   *)
(* which goes back to what was saved.                                        *)
(***************************************************************************)
CONSTANT Captcha   \* 0 is none of them

VARIABLES
  account,      \* the captcha it was registered with, 0 when there is none
  drawn, live, mailed,
  savedAccount, savedLive

vars == <<account, drawn, live, mailed, savedAccount, savedLive>>

Init ==
  /\ account = 0 /\ savedAccount = 0
  /\ drawn = {} /\ live = {} /\ mailed = {} /\ savedLive = {}

(* A new captcha may take the place of others. *)
Draw(c) ==
  /\ c \notin drawn /\ drawn' = drawn \cup {c}
  /\ \E gone \in SUBSET live : live' = (live \ gone) \cup {c}
  /\ UNCHANGED <<account, mailed, savedAccount, savedLive>>

Send(c) ==
  /\ c \in live /\ mailed' = mailed \cup {c}
  /\ UNCHANGED <<account, drawn, live, savedAccount, savedLive>>

Die ==
  /\ live' \in SUBSET live
  /\ UNCHANGED <<account, drawn, mailed, savedAccount, savedLive>>

Register(c) ==
  /\ account = 0 /\ c \in live \cap mailed
  /\ account' = c /\ live' = live \ {c}
  /\ UNCHANGED <<drawn, mailed, savedAccount, savedLive>>

SaveAccount ==
  /\ savedAccount' = account
  /\ UNCHANGED <<account, drawn, live, mailed, savedLive>>

SaveLive ==
  /\ savedLive' \in SUBSET live
  /\ UNCHANGED <<account, drawn, live, mailed, savedAccount>>

Restart ==
  /\ account' = savedAccount /\ live' = savedLive
  /\ UNCHANGED <<drawn, mailed, savedAccount, savedLive>>

Next ==
  \/ Die \/ SaveAccount \/ SaveLive \/ Restart
  \/ \E c \in Captcha : Draw(c) \/ Send(c) \/ Register(c)

Spec == Init /\ [][Next]_vars

-------------------------------------------------------------------------------
(* What follows from it. *)

(* A captcha that is dead, in memory and on disk, does not live again.        *)
StaysDead ==
  \A c \in drawn : c \notin live \cup savedLive => c \notin live' \cup savedLive'

DeadForGood == [][StaysDead]_vars
===============================================================================
