---------------------------- MODULE MCChatServer ----------------------------
(* ChatServer for the safety configurations: requests of a kind are alike. *)
EXTENDS ChatServer, TLC

Symmetry == Permutations(Chats) \cup Permutations(Approves)
=============================================================================
