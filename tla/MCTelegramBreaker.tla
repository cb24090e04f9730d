------------------------- MODULE MCTelegramBreaker -------------------------
(* Senders for the runs of TelegramBreaker: the main loop, the digest and  *)
(* the accumulation cron.                                                  *)
EXTENDS TelegramBreaker

CONSTANTS main, digest, accumulation
=============================================================================
