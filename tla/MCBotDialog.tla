----------------------------- MODULE MCBotDialog -----------------------------
(* Model checking the bot's dialogs: the part of the bot a user stays in is  *)
(* chosen at the start, so one run covers them all.                          *)
EXTENDS BotDialog

(* Where Redis has not taken a write every property lets go, and for good:   *)
(* slip is never cleared, and it has cost a fault. Such states are checked,  *)
(* their successors are not.                                                 *)
Unslipped == ~slip
=============================================================================
