-------------------------------- MODULE VerifyCx --------------------------------
(***************************************************************************)
(* VerifyCx of src/account/verify.rs: a captcha and the time it was last    *)
(* asked for.  Captchas are numbered in the order they are drawn, so two    *)
(* draws never agree; 0 is no captcha.                                      *)
(***************************************************************************)
EXTENDS Integers

CONSTANT Least   \* LEAST_DURATION, in ticks of the clock

ASSUME LeastAssumption == Least \in Nat \ {0}

(* OffsetDateTime::UNIX_EPOCH: longer ago than any limit. *)
Epoch == -Least

Cx(captchas, times) == [captcha : captchas, last : times \cup {Epoch}]

New == [captcha |-> 0, last |-> Epoch]

(* The test and the effect of `update`. *)
MayUpdate(cx, now) == now - cx.last >= Least
Updated(now, c) == [captcha |-> c, last |-> now]
===============================================================================
