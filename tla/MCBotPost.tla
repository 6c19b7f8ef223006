----------------------------- MODULE MCBotPost -----------------------------
(* BotPost for TLC, with the three attempts of the code. *)
EXTENDS BotPost
============================================================================
