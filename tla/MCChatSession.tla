---------------------------- MODULE MCChatSession ----------------------------
(* ChatSession for TLC: what differs is in the configuration. *)
EXTENDS ChatSession
=============================================================================
