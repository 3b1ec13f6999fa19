----------------------------- MODULE PlanExecute -----------------------------
(***************************************************************************)
(* flow/agent/multiagent/plan_execute: a planner, an executor with tools    *)
(* and a reviser over one list of messages (compose.go), and the printer    *)
(* of what they write (main.go): a goroutine per model call that reads a    *)
(* copy of its stream, one that prints, and an unbuffered channel between   *)
(* them.  A goroutine may still be reading when the next model is called.   *)
(***************************************************************************)
EXTENDS GraphRun

CONSTANTS
    Streams,    \* what each model may stream, chunk by chunk
    MaxToolCalls,
    None

Agents == {"planner", "executor", "reviser"}

ChunkKinds == {"content", "reasoning", "call", "error"}

\* An error ends its stream; the executor's chunks of calls have neither text.
ASSUME PlanExecuteAssumption ==
    /\ \A a \in Agents : Streams[a] \subseteq Seq(ChunkKinds)
    /\ \A a \in Agents : \A s \in Streams[a] :
         \A i \in DOMAIN s : s[i] = "error" => i = Len(s)
    /\ MaxToolCalls \in Nat
    /\ None \notin [agent : Agents, chunks : Seq(ChunkKinds)] \cup (Nat \X Nat)

VARIABLES
    callback,   \* the model call whose callback has not returned, or None
    tool,       \* the tool calls that run: "start", "run", "end", "done"
    current,    \* currentAgentName
    phase,      \* agentReasoning
    reader,     \* the goroutines of onChatModelEndWithStreamOutput, in the order they began
    wg,         \* the wait group's counter
    console     \* what printStream has received and not printed, or None

printerVars == <<current, phase, reader, wg, console>>
planVars == <<callback, tool, printerVars>>

PlanStart ==
    /\ Start("plan_execute", "planner", <<User("question")>>)
    /\ said = <<User("question")>>
NewPhase == [a \in Agents |-> "content"]
PrinterInit ==
    /\ callback = None
    /\ tool = <<>>
    /\ current = None
    /\ phase = NewPhase
    /\ reader = <<>>
    /\ wg = 0
    /\ console = None
PrinterOver ==
    /\ callback' = None
    /\ tool' = <<>>
    /\ current' = None
    /\ phase' = NewPhase
    /\ reader' = <<>>
    /\ wg' = 0
    /\ console' = None

-----------------------------------------------------------------------------
(* compose.go                                                              *)

\* What the loop over the messages appends for each of them.
Converted(parts) ==
    LET converted[i \in 0..Len(parts)] ==
            IF i = 0 THEN <<>> ELSE converted[i - 1] \o parts[i]
    IN  converted[Len(parts)]

\* For the planner and the reviser: no calls, no messages of tools.
DeepSeekMessages(m) ==
    CASE m.role = "tool" -> <<Message("assistant", m.text, <<>>)>>
      [] m.role = "assistant" ->
            (IF m.text # "" THEN <<Message("assistant", m.text, <<>>)>> ELSE <<>>)
            \o [i \in DOMAIN m.calls |-> Message("assistant", "call", <<>>)]
      [] OTHER -> <<m>>
convertMessagesForDeepSeek(ms) == Converted([i \in DOMAIN ms |-> DeepSeekMessages(ms[i])])

\* Mutant: a message without text is empty, whatever it calls.
HasText(m) == m.role = "assistant" => m.text # ""
\* For the executor: nothing that is empty.
SaysSomething(m) == m.role = "assistant" => (m.calls # <<>> \/ m.text # "")
ArkMessages(m) == IF SaysSomething(m) THEN <<m>> ELSE <<>>
convertMessagesForArk(ms) == Converted([i \in DOMAIN ms |-> ArkMessages(ms[i])])

modelPreHandle == msgs \o input
ContextOf(agent) ==
    IF agent = "executor" THEN convertMessagesForArk(modelPreHandle)
                          ELSE convertMessagesForDeepSeek(modelPreHandle)

IsIn(chunk, s) == \E i \in DOMAIN s : s[i] = chunk
Texts(agent, s) ==
    IF ~IsIn("content", s) THEN {""}
    ELSE IF agent = "reviser" THEN {"advice", "final answer"} ELSE {"text"}
Calls(agent, s) == 0..(IF agent = "executor" /\ IsIn("call", s) THEN MaxToolCalls ELSE 0)
Answers(agent, s) ==
    {Message("assistant", text, [i \in 1..n |-> "call"]) :
        text \in Texts(agent, s), n \in Calls(agent, s)}

executorPostBranchCondition(m) == IF m.calls = <<>> THEN "executor_to_list" ELSE "tools"

\* The reviser's stream is read until the final answer is named, or to its end.
reviserPostBranchCondition(m) == IF m.text = "final answer" THEN "END" ELSE "reviser_to_list"

NextNode(agent, m) ==
    CASE agent = "planner" -> "planner_to_list"
      [] agent = "executor" -> executorPostBranchCondition(m)
      [] agent = "reviser" -> reviserPostBranchCondition(m)

\* The graph reads a stream to its end, or to the final answer: an error before is the
\* call's.
Broken(m, s) == IsIn("error", s) /\ m.text # "final answer"

\* A model node: its state handler, and the model's answer, which is printed by the
\* callback while the graph reads it.
CallModel(agent) ==
    \E s \in Streams[agent] : \E m \in Answers(agent, s) :
        /\ callback = None
        /\ Runs(agent)
        /\ msgs' = modelPreHandle
        /\ said' = Append(said, m)
        /\ IF Broken(m, s) THEN GoesTo("broken", <<>>)
                           ELSE GoesTo(NextNode(agent, m), <<m>>)
        /\ callback' = [agent |-> agent, chunks |-> s]
        /\ UNCHANGED <<prog, st, tool, printerVars>>

AfterList == [planner_to_list |-> "executor", executor_to_list |-> "reviser",
              reviser_to_list |-> "executor"]
ToList ==
    /\ callback = None
    /\ \E node \in DOMAIN AfterList : Runs(node) /\ GoesTo(AfterList[node], input)
    /\ UNCHANGED <<prog, st, msgs, said, planVars>>

\* The tools' state handler; the calls of one message run at the same time.
StartTools ==
    /\ callback = None
    /\ Runs("tools")
    /\ msgs' = modelPreHandle
    /\ GoesTo("tools running", input)
    /\ tool' = [i \in DOMAIN input[1].calls |-> "start"]
    /\ UNCHANGED <<prog, st, said, callback, printerVars>>

ToolsDone ==
    /\ st = "running"
    /\ at = "tools running"
    /\ \A i \in DOMAIN tool : tool[i] = "done"
    /\ GoesTo("executor", Results(input[1]))
    /\ said' = said \o Results(input[1])
    /\ tool' = <<>>
    /\ UNCHANGED <<prog, st, msgs, steps, callback, printerVars>>

\* A stream that ends with an error ends the call, and Stream's error the program; at
\* END the call returns.
StreamReturns ==
    /\ prog = "plan_execute"
    /\ st = "running"
    /\ callback = None
    /\ \/ at = "broken" /\ Over("failed") /\ PrinterOver
       \/ /\ at = "END"
          /\ st' = "returned"
          /\ UNCHANGED <<prog, at, input, msgs, steps, said, planVars>>

GraphStep ==
    \/ \E agent \in Agents : CallModel(agent)
    \/ ToList \/ StartTools \/ ToolsDone \/ StreamReturns

-----------------------------------------------------------------------------
(* main.go                                                                 *)

Alive == st \in {"running", "returned"}
Dies(how) == Over(how) /\ PrinterOver

Line == <<0, 0>>            \* a line that is no chunk of a stream
\* s.ch <- x: nobody goes on before printStream has taken it.
Sends(x) == Alive /\ console = None /\ console' = x

\* onChatModelEndWithStreamOutput: the agent's name, then a goroutine for its stream.
Banner ==
    /\ callback # None
    /\ callback.agent # current
    /\ Sends(Line)
    /\ current' = callback.agent
    /\ UNCHANGED <<graphVars, callback, tool, phase, reader, wg>>

NewReader(chunks) == [agent |-> callback.agent, chunks |-> chunks, next |-> 1,
                      pc |-> "recv", shown |-> <<>>]
StartReader ==
    /\ Alive
    /\ callback # None
    /\ callback.agent = current
    /\ wg' = wg + 1
    /\ reader' = Append(reader, NewReader(callback.chunks))
    /\ callback' = None
    /\ UNCHANGED <<graphVars, tool, current, phase, console>>

Readers == DOMAIN reader
Chunk(r) == reader[r].chunks[reader[r].next]
Moves(r, pc) == reader' = [reader EXCEPT ![r].pc = pc]
Onward(r) == reader' = [reader EXCEPT ![r].pc = "recv", ![r].next = @ + 1]
InMap(r) == reader[r].pc = "write"     \* between s.mu.Lock and s.mu.Unlock
Header == [content |-> "answer begin", reasoning |-> "reasoning begin"]
readerRest == <<graphVars, callback, tool, current, phase, console>>

\* Mutant: the wait group is not told.
DoneUnsaid(r) == Moves(r, "done") /\ UNCHANGED <<readerRest, wg>>
\* The end of its stream.
Done(r) == Moves(r, "done") /\ wg' = wg - 1 /\ UNCHANGED readerRest

\* An error ends the program, a chunk of neither text is passed over.  For any other the
\* map agentReasoning is read without s.mu: beside a write that is a data race, which
\* the runtime may notice and end the program, or the read is as good as any.
Takes(r) ==
    \/ Chunk(r) = "error" /\ Dies("failed")
    \/ Chunk(r) = "call" /\ Onward(r) /\ UNCHANGED <<readerRest, wg>>
    \/ /\ Chunk(r) \in DOMAIN Header
       /\ Moves(r, IF phase[reader[r].agent] # Chunk(r) THEN "mark" ELSE "send")
       /\ UNCHANGED <<readerRest, wg>>
    \/ /\ Chunk(r) \in DOMAIN Header
       /\ \E q \in Readers : InMap(q)
       /\ Dies("crashed")

\* output.Recv().
Recv(r) ==
    /\ Alive
    /\ reader[r].pc = "recv"
    /\ \/ reader[r].next > Len(reader[r].chunks) /\ Done(r)
       \/ reader[r].next <= Len(reader[r].chunks) /\ Takes(r)

\* The header of the new phase.
Mark(r) ==
    /\ reader[r].pc = "mark"
    /\ Sends(Line)
    /\ Moves(r, "lock")
    /\ UNCHANGED <<graphVars, callback, tool, current, phase, wg>>

Lock(r) ==
    /\ Alive
    /\ reader[r].pc = "lock"
    /\ \A q \in Readers : ~InMap(q)
    /\ Moves(r, "write")
    /\ UNCHANGED <<graphVars, callback, tool, current, phase, wg, console>>

Write(r) ==
    /\ Alive
    /\ reader[r].pc = "write"
    /\ phase' = [phase EXCEPT ![reader[r].agent] = Chunk(r)]
    /\ Moves(r, "send")
    /\ UNCHANGED <<graphVars, callback, tool, current, wg, console>>

SendChunk(r) ==
    /\ reader[r].pc = "send"
    /\ Sends(<<r, reader[r].next>>)
    /\ Onward(r)
    /\ UNCHANGED <<graphVars, callback, tool, current, phase, wg>>

ReaderStep(r) == Recv(r) \/ Mark(r) \/ Lock(r) \/ Write(r) \/ SendChunk(r)

\* onToolStart, the tool, onToolEnd.
ToolStep(i) ==
    /\ i \in DOMAIN tool
    /\ \/ tool[i] = "start" /\ Sends(Line) /\ tool' = [tool EXCEPT ![i] = "run"]
       \/ tool[i] = "run" /\ Alive /\ tool' = [tool EXCEPT ![i] = "end"] /\ UNCHANGED console
       \/ tool[i] = "end" /\ Sends(Line) /\ tool' = [tool EXCEPT ![i] = "done"]
    /\ UNCHANGED <<graphVars, callback, current, phase, reader, wg>>

\* The goroutine that prints: one value at a time.
printStream ==
    /\ Alive
    /\ console # None
    /\ console' = None
    /\ reader' = IF console = Line THEN reader
                 ELSE [reader EXCEPT ![console[1]].shown = Append(@, console[2])]
    /\ UNCHANGED <<graphVars, callback, tool, current, phase, wg>>

\* Mutant: the program does not wait.
ExitAtOnce ==
    /\ st = "returned"
    /\ console = None
    /\ st' = "ended"
    /\ UNCHANGED <<prog, at, input, msgs, steps, said, planVars>>
\* printer.wait, and a sleep of three seconds that is long enough for the last print.
Exit ==
    /\ st = "returned"
    /\ wg = 0
    /\ console = None
    /\ st' = "ended"
    /\ UNCHANGED <<prog, at, input, msgs, steps, said, planVars>>

PlanStep ==
    \/ GraphStep
    \/ Banner \/ StartReader \/ printStream \/ Exit
    \/ \E r \in Readers : ReaderStep(r)
    \/ \E i \in DOMAIN tool : ToolStep(i)
=============================================================================
