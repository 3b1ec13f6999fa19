------------------------ MODULE MCConversationMemory ------------------------
(* ConversationMemory for TLC: some chats get an over-long answer; the others are alike. *)
EXTENDS ConversationMemory, TLC

CONSTANT LongChats

LongAnswers == {[from |-> "assistant", chat |-> c] : c \in LongChats}

Symmetry == Permutations(Chats \ LongChats)
=============================================================================
