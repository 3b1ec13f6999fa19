---------------------------- MODULE ConsoleAgents ----------------------------
(***************************************************************************)
(* Two graphs that stop before a node to ask the user at the console, and   *)
(* go on from the checkpoint: flow/agent/manus, which asks for a new query  *)
(* before it ends, and compose/graph/react_with_interrupt, which books a    *)
(* ticket and lets the user change the arguments of every call first.  What *)
(* the user says goes into the graph by a state modifier.                   *)
(***************************************************************************)
EXTENDS GraphRun

CONSTANTS
    CallSets,   \* the calls a model's message may hold: sequences of tools
    MaxAsks     \* bound: how often the user is asked

ASSUME ConsoleAssumption ==
    /\ CallSets \subseteq Seq({"browser", "other"})
    /\ MaxAsks \in Nat

VARIABLES
    UserInput,  \* manus: of the graph's state
    ckpt,       \* the checkpoint under the id "1"
    answer,     \* main's variable that the state modifier puts into the state
    asks        \* how often the user was asked

consoleVars == <<UserInput, ckpt, answer, asks>>

NoCheckpoint == [at |-> "none", input |-> <<>>, msgs |-> <<>>]

ManusStart == Start("manus", "InputConverter", <<>>) /\ said = <<>>
BookingStart == Start("booking", "ChatTemplate", <<>>) /\ said = <<>>
NoAnswer == [query |-> "", history |-> <<>>]
ConsoleInit == UserInput = "" /\ ckpt = NoCheckpoint /\ answer = NoAnswer /\ asks = 0
ConsoleOver == UserInput' = "" /\ ckpt' = NoCheckpoint /\ answer' = NoAnswer /\ asks' = 0

\* The call stops before the node, and its checkpoint is saved.
InterruptBefore == [manus |-> "Human", booking |-> "ToolsNode"]
ArrivesAt(node, in) ==
    /\ GoesTo(node, in)
    /\ IF node = InterruptBefore[prog]
         THEN /\ st' = "asking"
              /\ ckpt' = [at |-> node, input |-> in, msgs |-> msgs']
         ELSE UNCHANGED <<st, ckpt>>

\* manus's InputConvert and the booking's ChatTemplate.
Prompt == <<Message("system", "prompt", <<>>), User("question")>>
FirstNode ==
    /\ Runs("InputConverter") \/ Runs("ChatTemplate")
    /\ GoesTo("ChatModel", Prompt)
    /\ said' = said \o Prompt
    /\ UNCHANGED <<prog, st, msgs, consoleVars>>

\* What follows the model: its calls, or manus's human, or the end of the booking.
AfterModel(m) ==
    IF m.calls # <<>> THEN "ToolsNode" ELSE IF prog = "manus" THEN "Human" ELSE "END"

BeforeModel == msgs \o input            \* its state handlers
WithAnswer(ms, m) == Append(ms, m)
ChatModel ==
    \E calls \in CallSets :
        LET m == Message("assistant", "text", calls) IN
        /\ asks >= MaxAsks /\ prog = "booking" => calls = <<>>
        /\ Runs("ChatModel")
        /\ msgs' = WithAnswer(BeforeModel, m)
        /\ said' = Append(said, m)
        /\ ArrivesAt(AfterModel(m), <<m>>)
        /\ UNCHANGED <<prog, UserInput, answer, asks>>

-----------------------------------------------------------------------------
(* manus                                                                   *)

\* appendNextPrompt: the browser's state if the model called the browser.
IsCalled(t, m) == \E i \in DOMAIN m.calls : m.calls[i] = t
NextPrompt(ms) ==
    User(IF IsCalled("browser", Last(ms)) THEN "browser state" ELSE "next step")
ManusTools ==
    /\ prog = "manus"
    /\ Runs("ToolsNode")
    /\ LET out == Append(Results(input[1]), NextPrompt(msgs)) IN
         /\ GoesTo("ChatModel", out)
         /\ said' = said \o out
    /\ UNCHANGED <<prog, st, msgs, consoleVars>>

\* The node passes on the user's query, if there is one.
HumanOutput == IF UserInput # "" THEN <<User(UserInput)>> ELSE input
Human ==
    /\ Runs("Human")
    /\ GoesTo(IF Last(HumanOutput).role = "user" THEN "ChatModel" ELSE "OutputConverter",
              HumanOutput)
    /\ UNCHANGED <<prog, st, msgs, said, consoleVars>>

OutputConverter ==
    /\ Runs("OutputConverter")
    /\ st' = "ended"
    /\ UNCHANGED <<prog, at, input, msgs, said, consoleVars>>

\* main: "y" and a query, which may be left empty; or anything else.
ManusAsks ==
    /\ prog = "manus"
    /\ st = "asking"
    /\ \E query \in {"", "query"} :
         /\ asks >= MaxAsks => query = ""
         /\ answer' = [answer EXCEPT !.query = query]
         /\ said' = IF query = "" THEN said ELSE Append(said, User(query))
    /\ asks' = asks + 1
    /\ st' = "answered"
    /\ UNCHANGED <<prog, at, input, msgs, steps, UserInput, ckpt>>

-----------------------------------------------------------------------------
(* react_with_interrupt                                                    *)

\* The state handler gives the tools the last message of the history.
ToolsInput == Last(msgs)
BookingTools ==
    /\ prog = "booking"
    /\ Runs("ToolsNode")
    /\ GoesTo("ChatModel", Results(ToolsInput))
    /\ said' = said \o Results(ToolsInput)
    /\ UNCHANGED <<prog, st, msgs, consoleVars>>

BookingEnds ==
    /\ prog = "booking"
    /\ st = "running"
    /\ at = "END"
    /\ st' = "ended"
    /\ UNCHANGED <<prog, at, input, msgs, steps, said, consoleVars>>

\* main: for every call, the user leaves its arguments or writes others.
Edited(m, E) ==
    [m EXCEPT !.calls = [i \in DOMAIN @ |-> IF i \in E THEN "edited" ELSE @[i]]]
WithLast(ms, m) == Append(Front(ms), m)
BookingAsks ==
    /\ prog = "booking"
    /\ st = "asking"
    /\ \E E \in SUBSET DOMAIN Last(ckpt.msgs).calls :
         LET m == Edited(Last(ckpt.msgs), E) IN
         /\ answer' = [answer EXCEPT !.history = WithLast(ckpt.msgs, m)]
         /\ said' = WithLast(said, m)
    /\ asks' = asks + 1
    /\ st' = "answered"
    /\ UNCHANGED <<prog, at, input, msgs, steps, UserInput, ckpt>>

-----------------------------------------------------------------------------
\* Mutant: an empty query leaves the one before in the state.
ModifiedOnce ==
    /\ UserInput' = IF prog = "manus" /\ answer.query # "" THEN answer.query ELSE UserInput
    /\ msgs' = IF prog = "booking" THEN answer.history ELSE ckpt.msgs

\* The loop of main calls the graph again, which finds the checkpoint; the state
\* modifier changes its state, and the node it stopped before runs.
Modified ==
    /\ UserInput' = IF prog = "manus" THEN answer.query ELSE UserInput
    /\ msgs' = IF prog = "booking" THEN answer.history ELSE ckpt.msgs
Resume ==
    /\ st = "answered"
    /\ st' = "running"
    /\ GoesTo(ckpt.at, ckpt.input)
    /\ Modified
    /\ steps' = 0
    /\ UNCHANGED <<prog, said, ckpt, answer, asks>>

ConsoleStep ==
    \/ FirstNode \/ ChatModel \/ ManusTools \/ Human \/ OutputConverter \/ BookingTools
    \/ BookingEnds \/ Resume
Asked == ManusAsks \/ BookingAsks
=============================================================================
