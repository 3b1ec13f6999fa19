------------------------- MODULE ConversationMemory -------------------------
(***************************************************************************)
(* The conversations of quickstart/eino_assistant (pkg/mem/simple.go) and   *)
(* the agent that answers from them (cmd/einoagent/agent): the agent's      *)
(* cached conversation, its file, and the goroutine that saves a question   *)
(* and its answer once the answer has been streamed.                        *)
(*                                                                         *)
(* One conversation is modelled: files and cache entries of different ids   *)
(* have nothing in common.  The history handlers make a memory of their     *)
(* own, so they see the file and never the agent's cache.  A line and its   *)
(* line end are written by two calls, and the errors of both are dropped; a *)
(* message written behind a line that was not ended joins it.  Such a line  *)
(* cannot be read, nor can one that is longer than the scanner's buffer.    *)
(***************************************************************************)
EXTENDS Naturals, Sequences, FiniteSets, Functions

CONSTANTS Chats,       \* requests to /api/chat
          Window,      \* MaxWindowSize
          TooLong,     \* the messages whose line the scanner's buffer does not hold
          None, Nil, Zero, Garbled,
          MaxCrashes,  \* bound on the number of crashes
          MaxFaults    \* bound on the number of writes that fail

Message == [from : {"user", "assistant"}, chat : Chats]

ASSUME ConversationAssumption ==
    /\ Window \in Nat \ {0}
    /\ MaxCrashes \in Nat /\ MaxFaults \in Nat
    /\ TooLong \subseteq Message
    /\ {Nil, Zero, Garbled} \cap Message = {}
    /\ Garbled \notin {Nil, Zero}
    /\ None \notin Seq(Message \cup {Nil, Zero})

VARIABLES
    crashes, faults,
    conv,      \* the agent's Conversation.Messages; None: not cached
    file,      \* the conversation's .jsonl
    stage,     \* where each chat is
    history,   \* the messages each chat was given
    broken,    \* the chats whose stream has answered with an error
    apart,     \* history: may cache and file differ?
    deleted,   \* history: the messages that a deletion has taken off the disk
    owed,      \* history: the messages saved since the last crash or deletion
    owes,      \* history: owed, when each chat started
    overlapped \* history: the chats that ran beside another

chatVars == <<stage, history, broken, owed, owes, overlapped>>
vars == <<crashes, faults, conv, file, chatVars, apart, deleted>>

Saving == {"ask", "asked", "answer", "answered"}
Ending == {"asked", "answered"}         \* holding the lock, line not ended yet
Ended == {"done", "failed", "lost"}
Active == {c \in Chats : stage[c] \in {"running"} \cup Saving}

NoFile == [there |-> FALSE, lines |-> <<>>, open |-> FALSE]

\* A nil message is written as null, which is read as a message with nothing in it.
Json(m) == IF m = Nil THEN Zero ELSE m

\* What keeps a line from being read: it holds no message (Garbled: two of them, a part
\* of one, or nothing), or one that is over-long.
Unreadable == TooLong \cup {Garbled}

\* load stops at the first line it cannot read; its error is dropped.
Load(f) ==
    LET readable == {i \in DOMAIN f.lines : \A j \in 1..i : f.lines[j] \notin Unreadable}
    IN  SubSeq(f.lines, 1, Cardinality(readable))

Init ==
    /\ crashes = 0 /\ faults = 0
    /\ conv = None
    /\ file = NoFile
    /\ stage = [c \in Chats |-> "idle"]
    /\ history = [c \in Chats |-> <<>>]
    /\ broken = {}
    /\ apart = FALSE
    /\ deleted = {}
    /\ owed = {}
    /\ owes = [c \in Chats |-> {}]
    /\ overlapped = {}

-----------------------------------------------------------------------------
(* RunAgent                                                                *)

ReadAgain == Load(file)
NotLoaded == IF conv = None THEN <<>> ELSE conv
\* The agent's conversation: cached, or made from the file, which is created if
\* there is none.
Conversation == IF conv = None THEN Load(file) ELSE conv

\* GetMessages
LastOf(s) == IF Len(s) > Window THEN SubSeq(s, Len(s) - Window + 1, Len(s)) ELSE s

Start(c) ==
    /\ stage[c] = "idle"
    /\ \A d \in Chats : stage[d] \notin Ending
    /\ conv' = Conversation
    /\ file' = IF conv = None THEN [file EXCEPT !.there = TRUE] ELSE file
    /\ \/ /\ stage' = [stage EXCEPT ![c] = "running"]
          /\ history' = [history EXCEPT ![c] = LastOf(conv')]
          /\ owes' = [owes EXCEPT ![c] = owed]
          /\ overlapped' = IF Active = {} THEN overlapped
                           ELSE overlapped \cup Active \cup {c}
       \/ /\ stage' = [stage EXCEPT ![c] = "failed"]      \* the agent does not start
          /\ UNCHANGED <<history, owes, overlapped>>
    /\ UNCHANGED <<crashes, faults, broken, apart, deleted, owed>>

\* The agent cannot be built, or the file cannot be created and there is no
\* conversation.
StartFails(c) ==
    /\ stage[c] = "idle"
    /\ stage' = [stage EXCEPT ![c] = "failed"]
    /\ UNCHANGED <<crashes, faults, conv, file, history, broken, apart, deleted, owed, owes, overlapped>>

\* An error of Recv is passed over, and a nil chunk is kept with the others.
RecvError(c) ==
    /\ stage[c] = "running"
    /\ broken' = broken \cup {c}
    /\ UNCHANGED <<crashes, faults, conv, file, stage, history, apart, deleted, owed, owes, overlapped>>

\* The stream or the context is at its end: what has come is saved.
StreamEnd(c) ==
    /\ stage[c] = "running"
    /\ stage' = [stage EXCEPT ![c] = "ask"]
    /\ UNCHANGED <<crashes, faults, conv, file, history, broken, apart, deleted, owed, owes, overlapped>>

-----------------------------------------------------------------------------
(* Conversation.Append                                                     *)

Question(c) == [from |-> "user", chat |-> c]

\* Chunks with a nil among them cannot be joined: ConcatMessages returns nil.
Answer(c) == IF c \in broken THEN Nil ELSE [from |-> "assistant", chat |-> c]

SavesBackwards(c) == IF stage[c] = "ask" THEN Answer(c) ELSE Question(c)
\* What the goroutine saves, in order: the question and then the answer.
Saves(c) == IF stage[c] = "ask" THEN Question(c) ELSE Answer(c)

After == [ask |-> "asked", asked |-> "answer", answer |-> "answered", answered |-> "done"]

WrittenOver(m) == [there |-> TRUE, lines |-> <<Json(m)>>, open |-> TRUE]
WrittenAll(m) == [there |-> TRUE, lines |-> [i \in DOMAIN conv' |-> Json(conv'[i])], open |-> TRUE]
\* The file is opened for appending, and made if it is gone.
Written(m) ==
    IF file.open
    THEN [file EXCEPT !.lines[Len(file.lines)] = Garbled]
    ELSE [there |-> TRUE, lines |-> Append(file.lines, Json(m)), open |-> TRUE]

\* A chat that has saved both is over, and later chats are to know of it.
Advance(c, to) ==
    /\ stage' = [stage EXCEPT ![c] = to]
    /\ owed' = IF to = "done" THEN owed \cup ({Question(c), Answer(c)} \ {Nil}) ELSE owed

\* A write fails, and nobody is told.
Fault ==
    /\ faults < MaxFaults
    /\ faults' = faults + 1
    /\ apart' = TRUE

\* The message is added to the memory, then written; c.mu is held until its line ends.
AppendMessage(c) ==
    /\ stage[c] \in {"ask", "answer"}
    /\ \A d \in Chats : stage[d] \notin Ending
    /\ conv' = Append(conv, Saves(c))
    /\ \/ /\ file' = Written(Saves(c))
          /\ Advance(c, After[stage[c]])
          /\ UNCHANGED <<faults, apart>>
       \/ /\ file' \in {Written(Garbled), [file EXCEPT !.there = TRUE]}
          /\ Advance(c, After[stage[c]])            \* cut short, or nothing is written
          /\ Fault
       \/ /\ Advance(c, After[After[stage[c]]])     \* the file cannot be opened
          /\ Fault
          /\ UNCHANGED file
    /\ UNCHANGED <<crashes, history, broken, deleted, owes, overlapped>>

\* The line end; lost with the file if that was deleted meanwhile.
EndLine(c) ==
    /\ stage[c] \in Ending
    /\ \/ /\ file.open \/ ~file.there
          /\ file' = [file EXCEPT !.open = FALSE]
          /\ UNCHANGED <<faults, apart>>
       \/ /\ file.there /\ ~file.open             \* nothing was written before it
          /\ file' = [file EXCEPT !.lines = Append(@, Garbled)]
          /\ apart' = TRUE
          /\ UNCHANGED faults
       \/ /\ Fault                               \* it cannot be written
          /\ UNCHANGED file
    /\ Advance(c, After[stage[c]])
    /\ UNCHANGED <<crashes, conv, history, broken, deleted, owes, overlapped>>

-----------------------------------------------------------------------------
(* The history handlers, and a kill                                        *)

\* GET: a memory of the handler's own loads the file.
HandleHistory == Load(file)

\* DELETE: a memory of the handler's own removes the file, and forgets a
\* conversation it has never had.
HandleDeleteHistory ==
    /\ file.there
    /\ deleted' = deleted \cup (Range(file.lines) \ {Zero, Garbled})
    /\ file' = NoFile
    /\ apart' = (conv # None)
    /\ owed' = {}
    /\ UNCHANGED <<crashes, faults, conv, stage, history, broken, owes, overlapped>>

Clean(f) == ~f.open /\ Range(f.lines) \cap Unreadable = {}

Crash ==
    /\ crashes < MaxCrashes
    /\ crashes' = crashes + 1
    /\ conv' = None
    /\ stage' = [c \in Chats |-> IF c \in Active THEN "lost" ELSE stage[c]]
    /\ apart' = ~Clean(file)
    /\ owed' = {}
    /\ UNCHANGED <<faults, file, history, broken, deleted, owes, overlapped>>

ChatStep(c) ==
    \/ Start(c) \/ StartFails(c)
    \/ RecvError(c) \/ StreamEnd(c)
    \/ AppendMessage(c) \/ EndLine(c)

Next == (\E c \in Chats : ChatStep(c)) \/ HandleDeleteHistory \/ Crash

Spec == Init /\ [][Next]_vars

-----------------------------------------------------------------------------
(* Properties                                                              *)

\* Types of the state.
TypeOK ==
    /\ crashes \in 0..MaxCrashes /\ faults \in 0..MaxFaults
    /\ conv \in Seq(Message \cup {Nil, Zero}) \cup {None}
    /\ file \in [there : BOOLEAN, lines : Seq(Message \cup {Zero, Garbled}), open : BOOLEAN]
    /\ stage \in [Chats -> {"idle", "running"} \cup Saving \cup Ended]
    /\ history \in [Chats -> Seq(Message \cup {Nil, Zero})]
    /\ broken \subseteq Chats
    /\ apart \in BOOLEAN
    /\ deleted \subseteq Message
    /\ owed \subseteq Message
    /\ owes \in [Chats -> SUBSET Message]
    /\ overlapped \subseteq Chats

\* What the history handler and the next start read from the file is what the agent
\* answers from, message for message, also while a line is being written and also for
\* answers that could not be joined; and only an over-long message ends it early, with
\* all that came after (simple.go:180).  The exceptions: a write has failed, the file
\* was deleted under the agent, or it was restarted over a line without its end or one
\* that cannot be read.
MemoryOnDisk ==
    conv # None /\ ~apart =>
        \E n \in 0..Len(conv) :
            /\ HandleHistory = [i \in 1..n |-> Json(conv[i])]
            /\ n < Len(conv) => conv[n + 1] \in TooLong

\* Whatever failed, was deleted or was cut short: the file never shows a message the
\* agent does not have, nor two messages in another order than the agent has them.
FileWithinMemory ==
    conv # None =>
        LET read == HandleHistory
        IN  \A i, j \in DOMAIN read : i <= j =>
                \E k, l \in DOMAIN conv :
                    /\ k <= l
                    /\ i # j => k # l
                    /\ Json(conv[k]) = read[i]
                    /\ Json(conv[l]) = read[j]

\* The agent keeps a deleted conversation in its cache and goes on appending to a new
\* file (server.go:182, simple.go:201); what was deleted never returns to the disk.
DeletedStaysOffDisk == Range(file.lines) \cap deleted = {}

\* An answer takes into account everything that was saved before its question came, be
\* the file writable or not: since the last start and deletion, and up to the window.
FinishedAreSeen ==
    \A c \in Chats :
        Len(history[c]) < Window => owes[c] \subseteq Range(history[c])

\* A question asked while nobody else was chatting is followed at once by its own
\* answer, if that could be joined and was not lost at a restart.  Of chats that run
\* side by side the questions and answers mix (agent.go:140).
TurnsAreAdjacent ==
    \A c \in Chats \ (overlapped \cup broken) :
        stage[c] = "done" /\ conv # None =>
            \A i \in DOMAIN conv : conv[i] = Question(c) =>
                \/ i < Len(conv) /\ conv[i + 1] = Answer(c)
                \/ crashes > 0 /\ Answer(c) \notin Range(conv)
=============================================================================
