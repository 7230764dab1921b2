-------------------------- MODULE MCDiscordWebhook --------------------------
(***************************************************************************)
(* Model values of DiscordWebhook for TLC.                                 *)
(***************************************************************************)
EXTENDS DiscordWebhook

CONSTANTS digest, summary, watch
=============================================================================
