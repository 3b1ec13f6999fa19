----------------------------- MODULE GraphAgents -----------------------------
(***************************************************************************)
(* The graph agents: one of the plan-execute agent, manus and the booking   *)
(* agent, each with the console it prints to or asks at.                    *)
(***************************************************************************)
EXTENDS PlanExecute, ConsoleAgents

vars == <<graphVars, planVars, consoleVars>>

Init ==
    /\ prog \in Programs
    /\ PlanStart \/ ManusStart \/ BookingStart
    /\ PrinterInit
    /\ ConsoleInit

GraphFails == callback = None /\ (OutOfSteps \/ NodeFails) /\ PrinterOver /\ ConsoleOver

Next ==
    \/ PlanStep /\ UNCHANGED consoleVars
    \/ (ConsoleStep \/ Asked) /\ UNCHANGED planVars
    \/ GraphFails

Spec == Init /\ [][Next]_vars

-----------------------------------------------------------------------------
\* Goroutines that can go on do, the graph's nodes among them, and the user answers.
FairSpec ==
    /\ Spec
    /\ WF_vars((GraphStep \/ Banner \/ StartReader) /\ UNCHANGED consoleVars)
    /\ WF_vars(printStream /\ UNCHANGED consoleVars)
    /\ WF_vars(Exit /\ UNCHANGED consoleVars)
    /\ WF_vars((\E r \in Readers : ReaderStep(r)) /\ UNCHANGED consoleVars)
    /\ WF_vars((\E i \in DOMAIN tool : ToolStep(i)) /\ UNCHANGED consoleVars)
    /\ WF_vars((ConsoleStep \/ Asked) /\ UNCHANGED planVars)
    /\ WF_vars(GraphFails /\ steps = MaxSteps[prog])

-----------------------------------------------------------------------------
(* Properties                                                              *)

ModelNodes == Agents \cup {"ChatModel"}

\* A model is given all that was said, once and in its order: the state handlers put
\* every node's output into the local state before the next model is called, through
\* interrupts, checkpoints and state modifiers (compose.go:119-129, 172-175;
\* manus.go:195-202, 225-230); and the tools of a booking run what the user agreed to
\* (react_with_interrupt/main.go:90-106, 197-199).
ConversationKept ==
    st = "running" =>
        /\ at \in ModelNodes => msgs \o input = said
        /\ at = "ToolsNode" => ToolsInput = Last(said)
        /\ at = "OutputConverter" => Last(input) = Last(said)

\* The messages answer every call of c, and nothing else is a tool's.
AnswersCalls(c) ==
    LET n(i) == Len(c[i].calls) IN
    /\ \A i \in DOMAIN c : \A k \in 1..n(i) : i + k \in DOMAIN c /\ c[i + k].role = "tool"
    /\ \A j \in DOMAIN c : c[j].role = "tool" => \E k \in 1..(j - 1) : n(j - k) >= k

\* What a model is sent is a conversation its provider takes: every call is followed
\* by its results and every result follows its call, and the DeepSeek models are sent
\* neither (compose.go:254-298).
ContextIsAccepted ==
    st = "running" =>
        /\ at \in Agents => AnswersCalls(ContextOf(at))
        /\ at \in {"planner", "reviser"} =>
             \A m \in ToSet(ContextOf(at)) : m.role # "tool" /\ m.calls = <<>>
        /\ at = "ChatModel" => AnswersCalls(BeforeModel)

\* When the program ends, all that the models have streamed was printed, each stream in
\* its order, though the graph may return before its streams are read ("wait until all
\* output is handled", plan_execute/main.go:121).
Printable(r) == {i \in DOMAIN reader[r].chunks : reader[r].chunks[i] \in {"content", "reasoning"}}
InOrder(s) == \A i, j \in DOMAIN s : i < j => s[i] < s[j]
AllShownAtEnd ==
    st = "ended" =>
        /\ callback = None
        /\ \A r \in Readers : ToSet(reader[r].shown) = Printable(r) /\ InOrder(reader[r].shown)

\* Every program comes to its end: a call's nodes are bounded, nobody waits for the
\* console for ever, and the wait group comes to zero.
ProgramEnds == <>(st \in {"ended", "failed", "crashed"})
=============================================================================
