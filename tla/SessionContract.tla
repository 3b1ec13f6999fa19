-------------------------- MODULE SessionContract ---------------------------
(***************************************************************************)
(* What a chat session promises a client that lets it come to rest,        *)
(* whatever handlers, loops, channels and checkpoints are behind it: one   *)
(* turn at a time; a question is asked once, while nothing waits for a     *)
(* decision, and its own answer follows it at once; and a decision on an   *)
(* interrupt is taken once, and resumes that interrupt before anything     *)
(* else happens in the session.                                            *)
(***************************************************************************)
EXTENDS Naturals, Sequences

CONSTANTS Chats, Approves, None

VARIABLES turn,      \* the question or approval being worked on, or None
          history,   \* the messages persisted
          pending,   \* the interrupt offered for approval, or None
          granted,   \* the interrupt decided about and not resumed yet, or None
          resumed,   \* <<interrupt checkpointed, interrupt approved>>
          replies    \* <<turn, turn its result describes>>

vars == <<turn, history, pending, granted, resumed, replies>>

Init ==
    /\ turn = None
    /\ history = << >>
    /\ pending = None
    /\ granted = None
    /\ resumed = {}
    /\ replies = {}

AtRest == turn = None /\ granted = None
Asked(c) == \E k \in 1..Len(history) : history[k] = <<"user", c>>

Ask(c) ==
    /\ AtRest
    /\ pending = None
    /\ ~Asked(c)
    /\ turn' = c
    /\ history' = Append(history, <<"user", c>>)
    /\ UNCHANGED <<pending, granted, resumed, replies>>

Decide ==
    /\ AtRest
    /\ pending # None
    /\ granted' = pending
    /\ pending' = None
    /\ UNCHANGED <<turn, history, resumed, replies>>

Resume(a) ==
    /\ turn = None
    /\ granted # None
    /\ turn' = a
    /\ granted' = None
    /\ resumed' = resumed \cup {<<granted, granted>>}
    /\ UNCHANGED <<history, pending, replies>>

\* A result, which may be an interrupt; a resumed turn persists nothing.
Finish ==
    /\ turn # None
    /\ turn' = None
    /\ history' = IF turn \in Chats THEN Append(history, <<"answer", turn>>) ELSE history
    /\ pending' \in {pending, turn}
    /\ replies' = replies \cup {<<turn, turn>>}
    /\ UNCHANGED <<granted, resumed>>

\* Aborted or preempted.
Cancel ==
    /\ turn # None
    /\ turn' = None
    /\ UNCHANGED <<history, pending, granted, resumed, replies>>

Next ==
    \/ \E c \in Chats : Ask(c)
    \/ Decide
    \/ \E a \in Approves : Resume(a)
    \/ Finish
    \/ Cancel

Spec == Init /\ [][Next]_vars
=============================================================================
