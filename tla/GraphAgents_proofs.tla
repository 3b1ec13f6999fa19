------------------------- MODULE GraphAgents_proofs -------------------------
(***************************************************************************)
(* For all streams, calls, limits and programs: what the graph agents'      *)
(* models are given is all that was said, in a form that their provider      *)
(* takes, and what the plan-execute agent's models stream is printed before  *)
(* the program ends.                                                         *)
(***************************************************************************)
EXTENDS GraphAgents, SequenceTheorems, FiniteSetTheorems, WellFoundedInduction, TLAPS

-----------------------------------------------------------------------------
(* The inductive invariant                                                 *)

CallNames == {"browser", "other", "call", "edited"}
Roles == {"system", "user", "assistant", "tool"}
Queries == {"", "query"}
Contents == Queries \cup {"question", "text", "advice", "final answer", "result", "prompt",
                          "browser state", "next step", "call"}
Record == [role : Roles, text : Contents, calls : Seq(CallNames)]
Msg == {m \in Record : m.role = "assistant" \/ m.calls = <<>>}
Dialogue == Seq(Msg)

\* Everything that holds messages holds messages, and what the user changes or a call
\* names is there.
DialogueInv ==
    /\ msgs \in Dialogue
    /\ input \in Dialogue
    /\ said \in Dialogue
    /\ ckpt \in [at : {"none", "Human", "ToolsNode"}, input : Dialogue, msgs : Dialogue]
    /\ answer \in [query : Queries, history : Dialogue]
    /\ UserInput \in Queries

Ends == {"returned", "ended", "failed", "crashed"}
Whole == Agents \cup {"planner_to_list", "executor_to_list", "reviser_to_list", "tools",
                      "ChatModel"}

\* Between two nodes the local state and the next node's input are all that was said;
\* a node that runs tools, or asks the user, has its input in the state already.
RunningInv ==
    st = "running" =>
        /\ at \in Whole => msgs \o input = said
        /\ at \in {"tools", "tools running", "ToolsNode"} => input # <<>>
        /\ at \in {"tools running", "ToolsNode", "InputConverter", "ChatTemplate"} =>
             msgs = said
        /\ at = "ToolsNode" => said # <<>>
        /\ at = "Human" =>
             /\ msgs # <<>>
             /\ Last(msgs).role = "assistant"
             /\ input = <<Last(msgs)>>
             /\ said = IF UserInput = "" THEN msgs ELSE Append(msgs, User(UserInput))
        /\ at = "OutputConverter" => input = <<Last(said)>>
        /\ at \in {"InputConverter", "ChatTemplate", "ChatModel", "ToolsNode", "Human"} =>
             prog \in {"manus", "booking"}

\* While the user is asked, the checkpoint is all that was said.
AskingInv ==
    st = "asking" =>
        /\ said # <<>>
        /\ ckpt.msgs = said
        /\ prog = "manus" =>
             /\ ckpt.at = "Human"
             /\ ckpt.input = <<Last(said)>>
             /\ Last(said).role = "assistant"
        /\ prog = "booking" => ckpt.at = "ToolsNode" /\ ckpt.input # <<>>
        /\ prog \in {"manus", "booking"}

\* Then it is so together with the user's answer, which the state modifier adds.
AnsweredInv ==
    st = "answered" =>
        /\ ckpt.msgs # <<>>
        /\ prog = "manus" =>
             /\ ckpt.at = "Human"
             /\ ckpt.input = <<Last(ckpt.msgs)>>
             /\ Last(ckpt.msgs).role = "assistant"
             /\ said = IF answer.query = "" THEN ckpt.msgs
                       ELSE Append(ckpt.msgs, User(answer.query))
        /\ prog = "booking" =>
             /\ ckpt.at = "ToolsNode"
             /\ ckpt.input # <<>>
             /\ said = answer.history
             /\ said # <<>>
        /\ prog \in {"manus", "booking"}

StInv == st \in {"running", "asking", "answered"} \cup Ends

ConvInv == DialogueInv /\ RunningInv /\ AskingInv /\ AnsweredInv /\ StInv

-----------------------------------------------------------------------------
(* Messages and dialogues                                                  *)

LEMMA FunctionIsSeq ==
  ASSUME NEW S, NEW n \in Nat, NEW f \in [1..n -> S]
  PROVE  f \in Seq(S)
BY SeqDef

LEMMA AppendSaid ==
  ASSUME NEW d \in Dialogue, NEW m \in Msg
  PROVE  /\ Append(d, m) = d \o <<m>>
         /\ Append(d, m) \in Dialogue
         /\ Append(d, m) # <<>>
         /\ Last(Append(d, m)) = m
         /\ <<m>> \in Dialogue
         /\ <<m>> # <<>>
BY AppendProperties, AppendIsConcat DEF Dialogue, Last

LEMMA Empty == <<>> \in Dialogue
BY DEF Dialogue

LEMMA Joins ==
  ASSUME NEW d \in Dialogue, NEW e \in Dialogue
  PROVE  d \o e \in Dialogue
BY ConcatProperties DEF Dialogue

LEMMA Ending ==
  ASSUME NEW d \in Dialogue, d # <<>>
  PROVE  Last(d) \in Msg /\ d[1] \in Msg
<1>1. Len(d) \in 1..Len(d) /\ 1 \in 1..Len(d)
  BY EmptySeq, LenProperties DEF Dialogue
<1> QED
  BY <1>1, ElementOfSeq DEF Dialogue, Last

LEMMA MessageType ==
  ASSUME NEW r \in Roles, NEW t \in Contents, NEW cs \in Seq(CallNames),
         r = "assistant" \/ cs = <<>>
  PROVE  Message(r, t, cs) \in Msg
BY DEF Message, Msg, Record

LEMMA NoCalls == <<>> \in Seq(CallNames)
OBVIOUS

LEMMA UserType == ASSUME NEW t \in Contents PROVE User(t) \in Msg
BY MessageType, NoCalls DEF User, Roles

LEMMA ResultsType ==
  ASSUME NEW m \in Msg
  PROVE  Results(m) \in Dialogue
<1>1. Result \in Msg
  BY MessageType, NoCalls DEF Result, Roles, Contents
<1>2. m.calls \in Seq(CallNames)
  BY DEF Msg, Record
<1>3. DOMAIN m.calls = 1..Len(m.calls) /\ Len(m.calls) \in Nat
  BY <1>2
<1> QED
  BY <1>1, <1>3, FunctionIsSeq DEF Results, Dialogue

LEMMA AnswersType ==
  ASSUME NEW agent \in Agents, NEW s \in Streams[agent], NEW m \in Answers(agent, s)
  PROVE  m \in Msg
<1>1. PICK text \in Texts(agent, s), n \in Calls(agent, s) :
        m = Message("assistant", text, [i \in 1..n |-> "call"])
  BY DEF Answers
<1>2. text \in Contents
  BY DEF Texts, Contents, Queries
<1>3. n \in Nat
  BY PlanExecuteAssumption DEF Calls
<1>4. [i \in 1..n |-> "call"] \in Seq(CallNames)
  BY <1>3, FunctionIsSeq DEF CallNames
<1> QED
  BY <1>1, <1>2, <1>4, MessageType DEF Roles

LEMMA CallSetsType == \A calls \in CallSets : calls \in Seq(CallNames)
BY ConsoleAssumption, SeqMonotonic DEF CallNames

LEMMA EditedType ==
  ASSUME NEW m \in Msg, NEW E
  PROVE  Edited(m, E) \in Msg
<1> DEFINE cs == [i \in DOMAIN m.calls |-> IF i \in E THEN "edited" ELSE m.calls[i]]
<1>1. m.calls \in Seq(CallNames) /\ m.role \in Roles /\ m.text \in Contents
  BY DEF Msg, Record
<1>2. DOMAIN m.calls = 1..Len(m.calls) /\ Len(m.calls) \in Nat
  BY <1>1
<1>3. \A i \in DOMAIN m.calls : m.calls[i] \in CallNames
  BY <1>1, ElementOfSeq, <1>2
<1>4. cs \in [1..Len(m.calls) -> CallNames]
  BY <1>2, <1>3 DEF CallNames
<1>5. cs \in Seq(CallNames)
  BY <1>2, <1>4, FunctionIsSeq
<1>6. Edited(m, E) = [m EXCEPT !.calls = cs]
  BY DEF Edited
<1>7. m.calls = <<>> => cs = <<>>
  OBVIOUS
<1> HIDE DEF cs
<1> QED
  BY <1>5, <1>6, <1>7 DEF Msg, Record

LEMMA WithLastType ==
  ASSUME NEW d \in Dialogue, d # <<>>, NEW m \in Msg
  PROVE  WithLast(d, m) \in Dialogue /\ WithLast(d, m) # <<>>
<1>1. Len(d) \in Nat \ {0}
  BY EmptySeq, LenProperties DEF Dialogue
<1>2. \A i \in 1..(Len(d) - 1) : d[i] \in Msg
  BY <1>1, ElementOfSeq DEF Dialogue
<1>3. Front(d) \in Dialogue
  BY <1>1, <1>2, SubSeqProperties DEF Front, Dialogue
<1> QED
  BY <1>3, AppendSaid DEF WithLast

-----------------------------------------------------------------------------
(* The steps                                                               *)

LEMMA Started == Init => ConvInv
<1> SUFFICES ASSUME Init PROVE ConvInv
  OBVIOUS
<1> USE DEF Init, ConsoleInit, NoCheckpoint, NoAnswer, Start
<1>0. User("question") \in Msg
  BY UserType DEF Contents
<1>1. <<>> \in Dialogue /\ <<User("question")>> \in Dialogue
  BY <1>0, Empty, AppendSaid
<1>2. input \in Dialogue /\ said \in Dialogue /\ msgs = <<>>
  BY <1>1 DEF PlanStart, ManusStart, BookingStart
<1>3. DialogueInv
  BY <1>1, <1>2 DEF DialogueInv, Queries
<1>4. msgs \o input = input
  BY <1>2, ConcatEmptySeq DEF Dialogue
<1>5. RunningInv
  BY <1>4 DEF RunningInv, PlanStart, ManusStart, BookingStart, Whole, Agents
<1>6. st = "running"
  BY DEF PlanStart, ManusStart, BookingStart
<1> QED
  BY <1>3, <1>5, <1>6 DEF ConvInv, AskingInv, AnsweredInv, StInv

\* When the program is over, or the graph has returned, nothing is left to keep.
LEMMA Stopped ==
  ASSUME DialogueInv', st' \in Ends
  PROVE  ConvInv'
BY DEF ConvInv, RunningInv, AskingInv, AnsweredInv, StInv, Ends

LEMMA Emptied ==
  ASSUME ConvInv, NEW how \in Ends, Over(how), UNCHANGED consoleVars \/ ConsoleOver
  PROVE  ConvInv'
<1>1. /\ ckpt' \in [at : {"none", "Human", "ToolsNode"}, input : Dialogue, msgs : Dialogue]
      /\ answer' \in [query : Queries, history : Dialogue]
      /\ UserInput' \in Queries
  <2>1. CASE UNCHANGED consoleVars
    BY <2>1 DEF ConvInv, DialogueInv, consoleVars
  <2>2. CASE ConsoleOver
    BY <2>2, Empty DEF ConsoleOver, NoCheckpoint, NoAnswer, Queries
  <2> QED
    BY <2>1, <2>2
<1>2. DialogueInv'
  BY <1>1, Empty DEF DialogueInv, Over, GoesTo
<1> QED
  BY <1>2, Stopped DEF Over

LEMMA Unchanged ==
  ASSUME ConvInv, UNCHANGED graphVars, UNCHANGED consoleVars
  PROVE  ConvInv'
BY ZenonT(60) DEF ConvInv, DialogueInv, RunningInv, AskingInv, AnsweredInv, StInv, graphVars,
       consoleVars

LEMMA Ended ==
  ASSUME ConvInv, st' \in Ends, UNCHANGED <<input, msgs, said, consoleVars>>
  PROVE  ConvInv'
<1>1. DialogueInv'
  BY DEF ConvInv, DialogueInv, consoleVars
<1> QED
  BY <1>1, Stopped

\* A node's output becomes the next node's input.
LEMMA CallModelKeeps ==
  ASSUME ConvInv, UNCHANGED consoleVars, NEW agent \in Agents, CallModel(agent)
  PROVE  ConvInv'
<1>0. PICK s \in Streams[agent] : \E m \in Answers(agent, s) :
        /\ st = "running" /\ at = agent
        /\ msgs' = msgs \o input
        /\ said' = Append(said, m)
        /\ IF Broken(m, s) THEN GoesTo("broken", <<>>)
                           ELSE GoesTo(NextNode(agent, m), <<m>>)
        /\ st' = st
  BY DEF CallModel, Runs, modelPreHandle
<1>1. PICK m \in Answers(agent, s) :
        /\ st = "running" /\ at = agent
        /\ msgs' = msgs \o input
        /\ said' = Append(said, m)
        /\ IF Broken(m, s) THEN GoesTo("broken", <<>>)
                           ELSE GoesTo(NextNode(agent, m), <<m>>)
        /\ st' = st
  BY <1>0
<1>2. m \in Msg
  BY AnswersType
<1>3. msgs' = said
  BY <1>1 DEF ConvInv, RunningInv, Whole
<1>4. said \in Dialogue
  BY DEF ConvInv, DialogueInv
<1>5. said' = said \o <<m>> /\ said' \in Dialogue /\ <<m>> \in Dialogue /\ <<m>> # <<>>
  BY <1>1, <1>2, <1>4, AppendSaid
<1>6. \/ at' = "broken" /\ input' = <<>>
      \/ /\ at' \in {"planner_to_list", "executor_to_list", "reviser_to_list", "tools", "END"}
         /\ input' = <<m>>
  BY <1>1 DEF GoesTo, NextNode, executorPostBranchCondition, reviserPostBranchCondition,
              Agents
<1>7. DialogueInv'
  BY <1>3, <1>4, <1>5, <1>6, Empty DEF ConvInv, DialogueInv, consoleVars
<1>8. RunningInv'
  <2>1. CASE at' = "broken"
    BY <2>1 DEF RunningInv, Whole, Agents
  <2>2. CASE /\ at' \in {"planner_to_list", "executor_to_list", "reviser_to_list",
                         "tools", "END"}
             /\ input' = <<m>>
    <3>1. msgs' \o input' = said' /\ input' # <<>>
      BY <1>3, <1>5, <2>2
    <3> QED
      BY <2>2, <3>1 DEF RunningInv, Whole, Agents
  <2> QED
    BY <1>6, <2>1, <2>2
<1> QED
  BY <1>1, <1>7, <1>8 DEF ConvInv, AskingInv, AnsweredInv, StInv

LEMMA ToListKeeps ==
  ASSUME ConvInv, UNCHANGED consoleVars, ToList
  PROVE  ConvInv'
<1>1. /\ st = "running" /\ at \in DOMAIN AfterList
      /\ at' \in {"executor", "reviser"}
      /\ UNCHANGED <<st, input, msgs, said>>
  BY DEF ToList, Runs, GoesTo, AfterList
<1>2. msgs \o input = said
  BY <1>1 DEF ConvInv, RunningInv, Whole, AfterList
<1>3. RunningInv'
  BY <1>1, <1>2 DEF RunningInv, Whole, Agents
<1>4. DialogueInv'
  BY <1>1 DEF ConvInv, DialogueInv, consoleVars
<1> QED
  BY <1>1, <1>3, <1>4 DEF ConvInv, AskingInv, AnsweredInv, StInv

LEMMA StartToolsKeeps ==
  ASSUME ConvInv, UNCHANGED consoleVars, StartTools
  PROVE  ConvInv'
<1>1. /\ st = "running" /\ at = "tools" /\ at' = "tools running"
      /\ msgs' = msgs \o input
      /\ UNCHANGED <<st, input, said>>
  BY DEF StartTools, Runs, GoesTo, modelPreHandle
<1>2. msgs \o input = said /\ input # <<>>
  BY <1>1 DEF ConvInv, RunningInv, Whole
<1>3. RunningInv'
  BY <1>1, <1>2 DEF RunningInv, Whole, Agents
<1>4. DialogueInv'
  BY <1>1, <1>2 DEF ConvInv, DialogueInv, consoleVars
<1> QED
  BY <1>1, <1>3, <1>4 DEF ConvInv, AskingInv, AnsweredInv, StInv

\* A node whose input is in the state already, and its output.
LEMMA OutputKeeps ==
  ASSUME ConvInv, st = "running", msgs = said, NEW out \in Dialogue,
         GoesTo("executor", out) \/ (GoesTo("ChatModel", out) /\ prog \in {"manus", "booking"}),
         said' = said \o out, UNCHANGED <<prog, st, msgs, consoleVars>>
  PROVE  ConvInv'
<1>1. said' \in Dialogue /\ input' = out /\ at' \in {"executor", "ChatModel"}
  BY Joins DEF ConvInv, DialogueInv, GoesTo
<1>2. DialogueInv'
  BY <1>1 DEF ConvInv, DialogueInv, consoleVars
<1>3. RunningInv'
  BY <1>1 DEF RunningInv, Whole, Agents, GoesTo
<1> QED
  BY <1>2, <1>3 DEF ConvInv, AskingInv, AnsweredInv, StInv

LEMMA ToolsDoneKeeps ==
  ASSUME ConvInv, UNCHANGED consoleVars, ToolsDone
  PROVE  ConvInv'
<1>1. st = "running" /\ at = "tools running"
  BY DEF ToolsDone
<1>2. msgs = said /\ input # <<>> /\ input \in Dialogue
  BY <1>1 DEF ConvInv, RunningInv, DialogueInv
<1>3. Results(input[1]) \in Dialogue
  BY <1>2, Ending, ResultsType
<1> QED
  BY <1>1, <1>2, <1>3, OutputKeeps DEF ToolsDone

LEMMA GraphStepKeeps ==
  ASSUME ConvInv, UNCHANGED consoleVars, GraphStep
  PROVE  ConvInv'
<1>1. CASE StreamReturns
  <2>1. CASE Over("failed")
    BY <2>1, Emptied DEF Ends
  <2>2. CASE st' = "returned" /\ UNCHANGED <<prog, at, input, msgs, steps, said, planVars>>
    BY <2>2, Ended DEF Ends
  <2> QED
    BY <1>1, <2>1, <2>2 DEF StreamReturns
<1> QED
  BY <1>1, CallModelKeeps, ToListKeeps, StartToolsKeeps, ToolsDoneKeeps DEF GraphStep

\* The printer does not touch the graph, unless it ends the program.
LEMMA PlanStepKeeps ==
  ASSUME ConvInv, UNCHANGED consoleVars, PlanStep
  PROVE  ConvInv'
<1>1. CASE GraphStep
  BY <1>1, GraphStepKeeps
<1>2. CASE Banner \/ StartReader \/ printStream
  BY <1>2, Unchanged DEF Banner, StartReader, printStream
<1>3. CASE Exit
  BY <1>3, Ended DEF Exit, Ends
<1>4. ASSUME NEW r \in Readers, ReaderStep(r) PROVE ConvInv'
  <2>1. UNCHANGED graphVars \/ Dies("failed") \/ Dies("crashed")
    BY <1>4 DEF ReaderStep, Recv, Done, Takes, Mark, Lock, Write, SendChunk, readerRest
  <2> QED
    BY <2>1, Unchanged, Emptied DEF Dies, Ends
<1>5. ASSUME NEW i \in DOMAIN tool, ToolStep(i) PROVE ConvInv'
  BY <1>5, Unchanged DEF ToolStep
<1> QED
  BY <1>1, <1>2, <1>3, <1>4, <1>5 DEF PlanStep

LEMMA FirstNodeKeeps ==
  ASSUME ConvInv, FirstNode
  PROVE  ConvInv'
<1>1. st = "running" /\ at \in {"InputConverter", "ChatTemplate"}
  BY DEF FirstNode, Runs
<1>2. msgs = said /\ prog \in {"manus", "booking"}
  BY <1>1 DEF ConvInv, RunningInv
<1>3. Prompt \in Dialogue
  <2>1. Message("system", "prompt", <<>>) \in Msg /\ User("question") \in Msg
    BY MessageType, NoCalls, UserType DEF Roles, Contents
  <2> QED
    BY <2>1 DEF Prompt, Dialogue
<1> QED
  BY <1>1, <1>2, <1>3, OutputKeeps DEF FirstNode

LEMMA ChatModelKeeps ==
  ASSUME ConvInv, ChatModel
  PROVE  ConvInv'
<1>1. PICK calls \in CallSets :
        LET m == Message("assistant", "text", calls) IN
        /\ st = "running" /\ at = "ChatModel"
        /\ msgs' = Append(msgs \o input, m)
        /\ said' = Append(said, m)
        /\ ArrivesAt(AfterModel(m), <<m>>)
        /\ UNCHANGED <<prog, UserInput, answer>>
  BY DEF ChatModel, Runs, WithAnswer, BeforeModel
<1> DEFINE m == Message("assistant", "text", calls)
<1>2. m \in Msg
  BY CallSetsType, MessageType DEF Roles, Contents
<1>3. m.role = "assistant"
  BY DEF Message
<1> HIDE DEF m
<1>4. msgs \o input = said /\ prog \in {"manus", "booking"} /\ said \in Dialogue
  BY <1>1 DEF ConvInv, RunningInv, Whole, DialogueInv
<1>5. /\ said' = Append(said, m) /\ msgs' = said'
      /\ ArrivesAt(AfterModel(m), <<m>>)
      /\ UNCHANGED <<prog, UserInput, answer>>
  BY <1>1, <1>4 DEF m
<1>6. said' \in Dialogue /\ said' # <<>> /\ Last(said') = m /\ <<m>> \in Dialogue
  BY <1>2, <1>4, <1>5, AppendSaid
<1>7. at' = AfterModel(m) /\ input' = <<m>> /\ <<m>> # <<>>
  BY <1>5 DEF ArrivesAt, GoesTo
<1>8. AfterModel(m) \in {"ToolsNode", "Human", "END"}
      /\ (AfterModel(m) = "Human" => prog = "manus")
  BY <1>4 DEF AfterModel
<1>9. CASE AfterModel(m) = InterruptBefore[prog]
  <2>1. /\ st' = "asking"
        /\ ckpt' = [at |-> AfterModel(m), input |-> <<m>>, msgs |-> said']
    BY <1>5, <1>9 DEF ArrivesAt
  <2>2. DialogueInv'
    <3>1. AfterModel(m) \in {"Human", "ToolsNode"}
      BY <1>4, <1>9 DEF InterruptBefore
    <3> QED
      BY <1>5, <1>6, <1>7, <2>1, <3>1 DEF ConvInv, DialogueInv
  <2>3. AskingInv'
    BY <1>3, <1>4, <1>5, <1>6, <1>7, <1>9, <2>1 DEF AskingInv, InterruptBefore
  <2> QED
    BY <2>1, <2>2, <2>3 DEF ConvInv, RunningInv, AnsweredInv, StInv
<1>10. CASE AfterModel(m) # InterruptBefore[prog]
  <2>1. UNCHANGED <<st, ckpt>>
    BY <1>5, <1>10 DEF ArrivesAt
  <2>2. DialogueInv'
    BY <1>5, <1>6, <1>7, <2>1 DEF ConvInv, DialogueInv
  <2>3. at' \in {"ToolsNode", "END"}
    BY <1>4, <1>7, <1>8, <1>10 DEF InterruptBefore
  <2>4. RunningInv'
    BY <1>4, <1>5, <1>6, <1>7, <2>3 DEF RunningInv, Whole, Agents
  <2> QED
    BY <1>1, <2>1, <2>2, <2>4 DEF ConvInv, AskingInv, AnsweredInv, StInv
<1> QED
  BY <1>9, <1>10

LEMMA ManusToolsKeeps ==
  ASSUME ConvInv, ManusTools
  PROVE  ConvInv'
<1>1. st = "running" /\ at = "ToolsNode" /\ prog = "manus"
  BY DEF ManusTools, Runs
<1>2. msgs = said /\ input # <<>> /\ input \in Dialogue
  BY <1>1 DEF ConvInv, RunningInv, DialogueInv
<1>3. Results(input[1]) \in Dialogue
  BY <1>2, Ending, ResultsType
<1>4. NextPrompt(msgs) \in Msg
  <2>1. \A t \in {"browser state", "next step"} : User(t) \in Msg
    BY UserType DEF Contents
  <2> QED
    BY <2>1 DEF NextPrompt
<1>5. Append(Results(input[1]), NextPrompt(msgs)) \in Dialogue
  BY <1>3, <1>4, AppendSaid
<1> QED
  BY <1>1, <1>2, <1>5, OutputKeeps DEF ManusTools

LEMMA BookingToolsKeeps ==
  ASSUME ConvInv, BookingTools
  PROVE  ConvInv'
<1>1. st = "running" /\ at = "ToolsNode" /\ prog = "booking"
  BY DEF BookingTools, Runs
<1>2. msgs = said /\ said # <<>> /\ said \in Dialogue
  BY <1>1 DEF ConvInv, RunningInv, DialogueInv
<1>3. Results(ToolsInput) \in Dialogue
  BY <1>2, Ending, ResultsType DEF ToolsInput
<1> QED
  BY <1>1, <1>2, <1>3, OutputKeeps DEF BookingTools

LEMMA HumanKeeps ==
  ASSUME ConvInv, Human
  PROVE  ConvInv'
<1>1. /\ st = "running" /\ at = "Human"
      /\ GoesTo(IF Last(HumanOutput).role = "user" THEN "ChatModel" ELSE "OutputConverter",
                HumanOutput)
      /\ UNCHANGED <<prog, st, msgs, said, consoleVars>>
  BY DEF Human, Runs
<1>2. /\ msgs # <<>> /\ Last(msgs).role = "assistant" /\ input = <<Last(msgs)>>
      /\ said = IF UserInput = "" THEN msgs ELSE Append(msgs, User(UserInput))
      /\ prog \in {"manus", "booking"}
  BY <1>1 DEF ConvInv, RunningInv
<1>3. msgs \in Dialogue /\ input \in Dialogue /\ said \in Dialogue /\ UserInput \in Queries
  BY DEF ConvInv, DialogueInv
<1>4. CASE UserInput # ""
  <2>1. User(UserInput) \in Msg /\ User(UserInput).role = "user"
    BY <1>3, UserType DEF Contents, User, Message
  <2>2. said = msgs \o <<User(UserInput)>> /\ <<User(UserInput)>> \in Dialogue
    BY <1>2, <1>3, <1>4, <2>1, AppendSaid
  <2>3. HumanOutput = <<User(UserInput)>>
    BY <1>4 DEF HumanOutput
  <2>4. Last(HumanOutput) = User(UserInput)
    BY <2>3 DEF Last
  <2>5. at' = "ChatModel" /\ input' = <<User(UserInput)>>
    BY <1>1, <2>1, <2>3, <2>4 DEF GoesTo
  <2>6. RunningInv'
    BY <1>1, <1>2, <2>2, <2>5 DEF RunningInv, Whole, Agents
  <2>7. DialogueInv'
    BY <1>1, <2>2, <2>5 DEF ConvInv, DialogueInv, consoleVars
  <2> QED
    BY <1>1, <2>6, <2>7 DEF ConvInv, AskingInv, AnsweredInv, StInv
<1>5. CASE UserInput = ""
  <2>1. HumanOutput = <<Last(msgs)>> /\ said = msgs
    BY <1>2, <1>5 DEF HumanOutput
  <2>2. Last(HumanOutput) = Last(msgs)
    BY <2>1 DEF Last
  <2>3. at' = "OutputConverter" /\ input' = <<Last(said)>> /\ input' = input
    BY <1>1, <1>2, <2>1, <2>2 DEF GoesTo
  <2>4. RunningInv'
    BY <1>1, <2>3 DEF RunningInv, Whole, Agents
  <2>5. DialogueInv'
    BY <1>1, <2>3 DEF ConvInv, DialogueInv, consoleVars
  <2> QED
    BY <1>1, <2>4, <2>5 DEF ConvInv, AskingInv, AnsweredInv, StInv
<1> QED
  BY <1>4, <1>5

LEMMA ResumeKeeps ==
  ASSUME ConvInv, Resume
  PROVE  ConvInv'
<1>1. /\ st = "answered" /\ st' = "running"
      /\ at' = ckpt.at /\ input' = ckpt.input
      /\ UserInput' = IF prog = "manus" THEN answer.query ELSE UserInput
      /\ msgs' = IF prog = "booking" THEN answer.history ELSE ckpt.msgs
      /\ UNCHANGED <<prog, said, ckpt, answer>>
  BY DEF Resume, Modified, GoesTo
<1>2. DialogueInv'
  BY <1>1 DEF ConvInv, DialogueInv
<1>5. RunningInv' /\ prog \in {"manus", "booking"}
  <2>1. prog \in {"manus", "booking"}
    BY <1>1 DEF ConvInv, AnsweredInv
  <2>2. CASE prog = "manus"
    <3>1. at' = "Human"
      BY <1>1, <2>2 DEF ConvInv, AnsweredInv
    <3> QED
      BY <1>1, <2>2, <3>1 DEF ConvInv, AnsweredInv, RunningInv, Whole, Agents
  <2>3. CASE prog = "booking"
    <3>1. at' = "ToolsNode" /\ input' # <<>> /\ msgs' = said' /\ said' # <<>>
      BY <1>1, <2>3 DEF ConvInv, AnsweredInv
    <3> QED
      BY <1>1, <2>3, <3>1 DEF RunningInv, Whole, Agents
  <2> QED
    BY <2>1, <2>2, <2>3
<1> QED
  BY <1>1, <1>2, <1>5 DEF ConvInv, AskingInv, AnsweredInv, StInv

LEMMA ManusAsksKeeps ==
  ASSUME ConvInv, ManusAsks
  PROVE  ConvInv'
<1>1. PICK query \in {"", "query"} :
        /\ prog = "manus" /\ st = "asking" /\ st' = "answered"
        /\ answer' = [answer EXCEPT !.query = query]
        /\ said' = IF query = "" THEN said ELSE Append(said, User(query))
        /\ UNCHANGED <<prog, input, msgs, UserInput, ckpt>>
  BY DEF ManusAsks
<1>2. /\ said # <<>> /\ ckpt.msgs = said /\ ckpt.at = "Human"
      /\ ckpt.input = <<Last(said)>> /\ Last(said).role = "assistant"
  BY <1>1 DEF ConvInv, AskingInv
<1>3. said \in Dialogue /\ answer \in [query : Queries, history : Dialogue]
  BY DEF ConvInv, DialogueInv
<1>4. User(query) \in Msg
  BY UserType DEF Contents, Queries
<1>5. said' \in Dialogue
  BY <1>1, <1>3, <1>4, AppendSaid
<1>6. answer' \in [query : Queries, history : Dialogue] /\ answer'.query = query
  BY <1>1, <1>3 DEF Queries
<1>7. DialogueInv'
  BY <1>1, <1>5, <1>6 DEF ConvInv, DialogueInv
<1>8. AnsweredInv'
  BY <1>1, <1>2, <1>6 DEF AnsweredInv
<1> QED
  BY <1>1, <1>7, <1>8 DEF ConvInv, RunningInv, AskingInv, StInv

LEMMA BookingAsksKeeps ==
  ASSUME ConvInv, BookingAsks
  PROVE  ConvInv'
<1>1. PICK E \in SUBSET DOMAIN Last(ckpt.msgs).calls :
        LET m == Edited(Last(ckpt.msgs), E) IN
        /\ prog = "booking" /\ st = "asking" /\ st' = "answered"
        /\ answer' = [answer EXCEPT !.history = WithLast(ckpt.msgs, m)]
        /\ said' = WithLast(said, m)
        /\ UNCHANGED <<prog, input, msgs, UserInput, ckpt>>
  BY DEF BookingAsks
<1> DEFINE m == Edited(Last(ckpt.msgs), E)
<1>2. said # <<>> /\ ckpt.msgs = said /\ ckpt.at = "ToolsNode" /\ ckpt.input # <<>>
  BY <1>1 DEF ConvInv, AskingInv
<1>3. said \in Dialogue /\ answer \in [query : Queries, history : Dialogue]
  BY DEF ConvInv, DialogueInv
<1>0. Last(ckpt.msgs) \in Msg
  BY <1>2, <1>3, Ending
<1>4. m \in Msg
  BY <1>0, EditedType
<1> HIDE DEF m
<1>5. /\ prog = "booking" /\ st = "asking" /\ st' = "answered"
      /\ answer' = [answer EXCEPT !.history = WithLast(said, m)]
      /\ said' = WithLast(said, m)
      /\ UNCHANGED <<prog, input, msgs, UserInput, ckpt>>
  BY <1>1, <1>2 DEF m
<1>6. said' \in Dialogue /\ said' # <<>>
  BY <1>2, <1>3, <1>4, <1>5, WithLastType
<1>7. answer' \in [query : Queries, history : Dialogue] /\ answer'.history = said'
  BY <1>3, <1>5, <1>6
<1>8. DialogueInv'
  BY <1>5, <1>6, <1>7 DEF ConvInv, DialogueInv
<1>9. AnsweredInv'
  BY <1>2, <1>5, <1>6, <1>7 DEF AnsweredInv
<1> QED
  BY <1>5, <1>8, <1>9 DEF ConvInv, RunningInv, AskingInv, StInv

LEMMA ConsoleStepKeeps ==
  ASSUME ConvInv, ConsoleStep
  PROVE  ConvInv'
<1>1. CASE OutputConverter
  BY <1>1, Ended DEF OutputConverter, Ends
<1>2. CASE BookingEnds
  BY <1>2, Ended DEF BookingEnds, Ends
<1> QED
  BY <1>1, <1>2, FirstNodeKeeps, ChatModelKeeps, ManusToolsKeeps, HumanKeeps,
     BookingToolsKeeps, ResumeKeeps DEF ConsoleStep

LEMMA ConvStep == ConvInv /\ [Next]_vars => ConvInv'
<1> SUFFICES ASSUME ConvInv, [Next]_vars PROVE ConvInv'
  OBVIOUS
<1>1. CASE PlanStep /\ UNCHANGED consoleVars
  BY <1>1, PlanStepKeeps
<1>2. CASE (ConsoleStep \/ Asked) /\ UNCHANGED planVars
  BY <1>2, ConsoleStepKeeps, ManusAsksKeeps, BookingAsksKeeps DEF Asked
<1>3. CASE GraphFails
  BY <1>3, Emptied DEF GraphFails, OutOfSteps, NodeFails, Ends
<1>4. CASE UNCHANGED vars
  BY <1>4, Unchanged DEF vars
<1> QED
  BY <1>1, <1>2, <1>3, <1>4 DEF Next

LEMMA ConvKept == ConvInv => ConversationKept
<1> SUFFICES ASSUME ConvInv, st = "running" PROVE
      /\ at \in ModelNodes => msgs \o input = said
      /\ at = "ToolsNode" => ToolsInput = Last(said)
      /\ at = "OutputConverter" => Last(input) = Last(said)
  BY DEF ConversationKept
<1>1. at \in ModelNodes => msgs \o input = said
  BY DEF ConvInv, RunningInv, ModelNodes, Whole, Agents
<1>2. at = "ToolsNode" => ToolsInput = Last(said)
  BY DEF ConvInv, RunningInv, ToolsInput
<1>3. at = "OutputConverter" => Last(input) = Last(said)
  <2>1. Last(<<Last(said)>>) = Last(said)
    BY DEF Last
  <2> QED
    BY <2>1 DEF ConvInv, RunningInv
<1> QED
  BY <1>1, <1>2, <1>3

\* A model is given all that was said, and the tools of a booking what the user agreed
\* to: for all streams, calls, bounds and programs (compose.go:119-129, manus.go:195-202,
\* react_with_interrupt/main.go:197-199).
THEOREM ConversationIsKept == Spec => []ConversationKept
BY Started, ConvStep, ConvKept, PTL DEF Spec
-----------------------------------------------------------------------------
(* The printer: what a goroutine has read of its stream was printed, or is the value  *)
(* that printStream holds; and the wait group counts the goroutines that still read.  *)

Plan == "plan_execute"
PlanNodes == Agents \cup {"planner_to_list", "executor_to_list", "reviser_to_list", "tools",
                          "tools running", "broken", "END"}
ConsoleNodes == {"InputConverter", "ChatTemplate", "ChatModel", "ToolsNode", "Human",
                 "OutputConverter", "END"}
Idle == callback = None /\ tool = <<>> /\ reader = <<>> /\ wg = 0 /\ console = None

\* A program runs its own nodes, and only plan_execute prints streams.
PathInv ==
    /\ prog \in {Plan, "manus", "booking"}
    /\ st = "running" => at \in (IF prog = Plan THEN PlanNodes ELSE ConsoleNodes)
    /\ st \in {"asking", "answered"} => prog # Plan
    /\ prog # Plan => Idle

Text == {"content", "reasoning"}
Callback == [agent : Agents, chunks : Seq(ChunkKinds)]
Reader == [agent : Agents, chunks : Seq(ChunkKinds), next : Nat,
           pc : {"recv", "mark", "lock", "write", "send", "done"}, shown : Seq(Nat)]
PrinterType ==
    /\ callback \in Callback \cup {None}
    /\ reader \in Seq(Reader)
    /\ console \in Readers \X Nat \cup {Line, None}

\* What printStream holds of the stream of r, and what has been read of it.
HeldBy(x, r) == IF x \in {r} \X Nat THEN {x[2]} ELSE {}
Held(r) == HeldBy(console, r)
Passed(c) == {i \in DOMAIN c.chunks : c.chunks[i] \in Text /\ i < c.next}
Follows(c, held) ==
    /\ c.next \in 1..(Len(c.chunks) + 1)
    /\ c.pc \in {"mark", "lock", "write", "send"} =>
          c.next <= Len(c.chunks) /\ c.chunks[c.next] \in Text
    /\ c.pc = "done" => c.next = Len(c.chunks) + 1
    /\ ToSet(c.shown) \cup held = Passed(c)
    /\ InOrder(c.shown)
    /\ \A k \in held : \A x \in ToSet(c.shown) : x < k
ReadersInv == \A r \in Readers : Follows(reader[r], Held(r))

Unread == {r \in Readers : reader[r].pc # "done"}
WaitInv == wg = Cardinality(Unread)

\* A graph that has returned has had its last callback; a program that ended has read all.
EndInv ==
    /\ st \in {"returned", "ended"} => callback = None
    /\ st = "ended" => Unread = {} /\ console = None

PrintInv == PathInv /\ PrinterType /\ ReadersInv /\ WaitInv /\ EndInv

LEMMA Apart ==
    /\ None \notin Callback
    /\ None \notin Nat \X Nat
    /\ Line \in Nat \X Nat
    /\ \A a \in Agents : Streams[a] \subseteq Seq(ChunkKinds)
BY PlanExecuteAssumption DEF Callback, Line

LEMMA ReadersAre ==
  ASSUME PrinterType
  PROVE  /\ Len(reader) \in Nat /\ Readers = 1..Len(reader)
         /\ \A r \in Readers : r \in Nat /\ r # 0 /\ reader[r] \in Reader
BY ElementOfSeq, LenProperties DEF PrinterType, Readers

LEMMA HeldIs ==
  ASSUME NEW r \in Nat, r # 0
  PROVE  /\ HeldBy(None, r) = {}
         /\ HeldBy(Line, r) = {}
         /\ \A q \in Nat, k \in Nat : HeldBy(<<q, k>>, r) = IF q = r THEN {k} ELSE {}
BY Apart DEF HeldBy, Line

\* A step that leaves the goroutines of the streams alone.
LEMMA PrinterFrame ==
  ASSUME PrintInv, UNCHANGED <<reader, wg, console>>, PathInv',
         callback' \in Callback \cup {None},
         st' \in {"returned", "ended"} => callback' = None,
         st' = "ended" => Unread = {} /\ console = None
  PROVE  PrintInv'
<1>1. PrinterType'
  BY DEF PrintInv, PrinterType, Readers
<1>2. ReadersInv' /\ WaitInv' /\ EndInv'
  BY DEF PrintInv, ReadersInv, WaitInv, EndInv, Readers, Held, Unread
<1> QED
  BY <1>1, <1>2 DEF PrintInv

LEMMA PrinterReset ==
  ASSUME PrintInv, NEW how \in {"failed", "crashed"}, Over(how), PrinterOver
  PROVE  PrintInv'
<1>1. /\ st' = how /\ prog' = prog
      /\ callback' = None /\ tool' = <<>> /\ reader' = <<>> /\ wg' = 0 /\ console' = None
  BY DEF Over, PrinterOver
<1>2. Readers' = {} /\ Unread' = {}
  BY <1>1 DEF Readers, Unread
<1>3. PathInv' /\ PrinterType' /\ ReadersInv' /\ EndInv'
  BY <1>1, <1>2 DEF PrintInv, PathInv, Idle, PrinterType, ReadersInv, EndInv
<1>4. WaitInv'
  BY <1>1, <1>2, FS_EmptySet DEF WaitInv
<1> QED
  BY <1>3, <1>4 DEF PrintInv

\* A step of one goroutine, or of the one that prints what it read.
LEMMA ReaderFrame ==
  ASSUME PrintInv, NEW r \in Readers, NEW c \in Reader,
         reader' = [reader EXCEPT ![r] = c],
         UNCHANGED <<prog, st, at, callback, tool>>, st # "ended",
         console' \in Readers \X Nat \cup {Line, None},
         Follows(c, HeldBy(console', r)),
         \A q \in Readers \ {r} : HeldBy(console', q) = HeldBy(console, q),
         \/ (c.pc = "done" <=> reader[r].pc = "done") /\ wg' = wg
         \/ c.pc = "done" /\ reader[r].pc # "done" /\ wg' = wg - 1
  PROVE  PrintInv'
<1>1. /\ Readers' = Readers /\ reader'[r] = c
      /\ \A q \in Readers \ {r} : reader'[q] = reader[q]
      /\ Len(reader) \in Nat /\ Readers = 1..Len(reader) /\ IsFiniteSet(Readers)
  BY ReadersAre, FS_Interval DEF PrintInv, Readers
<1>2. prog = Plan
  <2>1. reader # <<>>
    BY <1>1 DEF Readers
  <2> QED
    BY <2>1 DEF PrintInv, PathInv, Idle
<1>3. PathInv'
  BY <1>2 DEF PrintInv, PathInv
<1>4. PrinterType'
  <2>1. reader' \in Seq(Reader)
    BY ExceptSeq DEF PrintInv, PrinterType, Readers
  <2> QED
    BY <1>1, <2>1 DEF PrintInv, PrinterType
<1>5. ReadersInv'
  <2>1. Follows(reader'[r], HeldBy(console', r))
    BY <1>1
  <2>2. ASSUME NEW q \in Readers \ {r} PROVE Follows(reader'[q], HeldBy(console', q))
    BY <1>1 DEF PrintInv, ReadersInv, Held
  <2>3. \A q \in Readers : Follows(reader'[q], HeldBy(console', q))
    BY <2>1, <2>2
  <2> QED
    BY <1>1, <2>3 DEF ReadersInv, Held
<1>6. WaitInv'
  <2>1. IsFiniteSet(Unread)
    BY <1>1, FS_Subset DEF Unread
  <2>2. CASE (c.pc = "done" <=> reader[r].pc = "done") /\ wg' = wg
    <3>1. Unread' = Unread
      BY <1>1, <2>2 DEF Unread
    <3> QED
      BY <2>2, <3>1 DEF PrintInv, WaitInv
  <2>3. CASE c.pc = "done" /\ reader[r].pc # "done" /\ wg' = wg - 1
    <3>1. Unread' = Unread \ {r} /\ r \in Unread
      BY <1>1, <2>3 DEF Unread
    <3>2. Cardinality(Unread \ {r}) = Cardinality(Unread) - 1
      BY <2>1, <3>1, FS_RemoveElement
    <3> QED
      BY <2>3, <3>1, <3>2 DEF PrintInv, WaitInv
  <2> QED
    BY <2>2, <2>3
<1>7. EndInv'
  BY DEF PrintInv, EndInv
<1> QED
  BY <1>3, <1>4, <1>5, <1>6, <1>7 DEF PrintInv

-----------------------------------------------------------------------------
(* What a goroutine has passed of its stream                               *)

LEMMA Moved ==
  ASSUME NEW c \in Reader, NEW held, Follows(c, held),
         NEW p \in {"recv", "mark", "lock", "write", "send", "done"},
         p \in {"mark", "lock", "write", "send"} =>
            c.next <= Len(c.chunks) /\ c.chunks[c.next] \in Text,
         p = "done" => c.next > Len(c.chunks)
  PROVE  LET d == [c EXCEPT !.pc = p] IN
         d \in Reader /\ d.pc = p /\ Follows(d, held)
<1> DEFINE d == [c EXCEPT !.pc = p]
<1>1. /\ d \in Reader /\ d.pc = p
      /\ d.chunks = c.chunks /\ d.next = c.next /\ d.shown = c.shown
  BY DEF Reader
<1> HIDE DEF d
<1>2. Passed(d) = Passed(c)
  BY <1>1 DEF Passed
<1>3. Len(c.chunks) \in Nat /\ c.next \in Nat
  BY DEF Reader
<1>4. Follows(d, held)
  BY <1>1, <1>2, <1>3 DEF Follows
<1> QED
  BY <1>1, <1>4 DEF d

\* before and held: what the console has of the stream.
LEMMA MovedOn ==
  ASSUME NEW c \in Reader, NEW before, Follows(c, before), c.next <= Len(c.chunks), NEW held,
         \/ c.chunks[c.next] \notin Text /\ held = before
         \/ c.chunks[c.next] \in Text /\ before = {} /\ held = {c.next}
  PROVE  LET d == [c EXCEPT !.pc = "recv", !.next = @ + 1] IN
         d \in Reader /\ d.pc = "recv" /\ Follows(d, held)
<1> DEFINE d == [c EXCEPT !.pc = "recv", !.next = @ + 1]
<1>0. c.next \in Nat /\ c.next + 1 \in Nat /\ Len(c.chunks) \in Nat /\ c.next \in 1..Len(c.chunks)
      /\ DOMAIN c.chunks = 1..Len(c.chunks)
  BY DEF Reader, Follows
<1>1. /\ d \in Reader /\ d.pc = "recv"
      /\ d.chunks = c.chunks /\ d.next = c.next + 1 /\ d.shown = c.shown
  BY <1>0 DEF Reader
<1> HIDE DEF d
<1>2. ToSet(d.shown) \cup held = Passed(d)
  <2>1. Passed(d) = Passed(c) \cup {i \in {c.next} : c.chunks[i] \in Text}
    BY <1>0, <1>1 DEF Passed
  <2>2. ToSet(c.shown) \cup before = Passed(c)
    BY DEF Follows
  <2> QED
    BY <1>1, <2>1, <2>2
<1>3. \A k \in held : \A x \in ToSet(c.shown) : x < k
  BY <1>0 DEF Follows, Passed
<1>4. Follows(d, held)
  BY <1>0, <1>1, <1>2, <1>3 DEF Follows
<1> QED
  BY <1>1, <1>4 DEF d

LEMMA Printed ==
  ASSUME NEW c \in Reader, NEW k \in Nat, Follows(c, {k})
  PROVE  LET d == [c EXCEPT !.shown = Append(@, k)] IN
         d \in Reader /\ d.pc = c.pc /\ Follows(d, {})
<1> DEFINE d == [c EXCEPT !.shown = Append(@, k)]
           s == c.shown
           t == Append(c.shown, k)
<1>0. /\ s \in Seq(Nat) /\ t \in Seq(Nat) /\ Len(s) \in Nat /\ Len(t) = Len(s) + 1
      /\ \A i \in 1..Len(s) : t[i] = s[i]
      /\ t[Len(s) + 1] = k
      /\ DOMAIN s = 1..Len(s) /\ DOMAIN t = 1..(Len(s) + 1)
  BY AppendProperties, LenProperties DEF Reader
<1>1. /\ d \in Reader /\ d.pc = c.pc
      /\ d.chunks = c.chunks /\ d.next = c.next /\ d.shown = t
  BY <1>0 DEF Reader
<1>3. InOrder(s) /\ \A x \in ToSet(s) : x < k
  BY DEF Follows
<1> HIDE DEF d, s, t
<1>2. ToSet(t) = ToSet(s) \cup {k}
  <2>1. \A i \in DOMAIN t : t[i] \in ToSet(s) \cup {k}
    BY <1>0 DEF ToSet
  <2>2. \A i \in DOMAIN s : s[i] \in ToSet(t)
    BY <1>0 DEF ToSet
  <2>3. Len(s) + 1 \in DOMAIN t
    BY <1>0
  <2>4. k \in ToSet(t)
    BY <1>0, <2>3 DEF ToSet
  <2> QED
    BY <2>1, <2>2, <2>4 DEF ToSet
<1>4. InOrder(t)
  <2> SUFFICES ASSUME NEW i \in DOMAIN t, NEW j \in DOMAIN t, i < j PROVE t[i] < t[j]
    BY DEF InOrder
  <2>1. i \in 1..Len(s) /\ t[i] = s[i] /\ s[i] \in ToSet(s)
    BY <1>0 DEF ToSet
  <2>2. CASE j = Len(s) + 1
    BY <1>0, <1>3, <2>1, <2>2
  <2>3. CASE j \in 1..Len(s)
    BY <1>0, <1>3, <2>1, <2>3 DEF InOrder
  <2> QED
    BY <1>0, <2>2, <2>3
<1>5. Passed(d) = Passed(c)
  BY <1>1 DEF Passed
<1>6. Follows(d, {})
  BY <1>1, <1>2, <1>4, <1>5 DEF Follows, s
<1> QED
  BY <1>1, <1>6 DEF d

-----------------------------------------------------------------------------
(* The printer's steps                                                     *)

LEMMA PrintStarts == Init => PrintInv
<1> SUFFICES ASSUME Init PROVE PrintInv
  OBVIOUS
<1>1. Idle /\ Readers = {} /\ Unread = {}
  BY DEF Init, PrinterInit, Idle, Readers, Unread
<1>2. st = "running" /\ prog \in {Plan, "manus", "booking"}
  BY DEF Init, PlanStart, ManusStart, BookingStart, Start, Plan
<1>3. PathInv
  BY <1>1, <1>2 DEF Init, PlanStart, ManusStart, BookingStart, Start, PathInv, Plan, PlanNodes,
     ConsoleNodes, Agents
<1>4. PrinterType /\ ReadersInv /\ EndInv
  BY <1>1, <1>2 DEF PrinterType, ReadersInv, EndInv, Idle
<1>5. WaitInv
  BY <1>1, FS_EmptySet DEF WaitInv, Idle
<1> QED
  BY <1>3, <1>4, <1>5 DEF PrintInv

LEMMA CallModelPrints ==
  ASSUME PrintInv, NEW agent \in Agents, CallModel(agent)
  PROVE  PrintInv'
<1>1. PICK s \in Streams[agent] : \E m \in Answers(agent, s) :
        /\ st = "running" /\ at = agent /\ at' \in {"broken", NextNode(agent, m)}
        /\ callback' = [agent |-> agent, chunks |-> s]
        /\ UNCHANGED <<prog, st, reader, wg, console, tool>>
  BY DEF CallModel, Runs, GoesTo, printerVars
<1>2. /\ st = "running" /\ at = agent
      /\ at' \in {"broken", "planner_to_list", "executor_to_list", "reviser_to_list",
                  "tools", "END"}
      /\ callback' = [agent |-> agent, chunks |-> s]
      /\ UNCHANGED <<prog, st, reader, wg, console, tool>>
  BY <1>1 DEF NextNode, executorPostBranchCondition, reviserPostBranchCondition, Agents
<1>3. prog = Plan
  BY <1>2 DEF PrintInv, PathInv, ConsoleNodes, Agents
<1>4. callback' \in Callback
  BY <1>2, Apart DEF Callback
<1>5. PathInv'
  BY <1>2, <1>3 DEF PrintInv, PathInv, PlanNodes
<1> QED
  BY <1>2, <1>4, <1>5, PrinterFrame

LEMMA GraphStepPrints ==
  ASSUME PrintInv, GraphStep
  PROVE  PrintInv'
<1>1. ASSUME NEW agent \in Agents, CallModel(agent) PROVE PrintInv'
  BY <1>1, CallModelPrints
<1>2. CASE ToList
  <2>1. /\ st = "running" /\ at \in DOMAIN AfterList /\ at' \in {"executor", "reviser"}
        /\ UNCHANGED <<prog, st, callback, tool, reader, wg, console>>
    BY <1>2 DEF ToList, Runs, GoesTo, AfterList, planVars, printerVars
  <2>2. PathInv'
    BY <2>1 DEF PrintInv, PathInv, PlanNodes, ConsoleNodes, Agents, AfterList
  <2> QED
    BY <2>1, <2>2, PrinterFrame DEF PrintInv, PrinterType
<1>3. CASE StartTools
  <2>1. /\ st = "running" /\ at = "tools" /\ at' = "tools running"
        /\ UNCHANGED <<prog, st, callback, reader, wg, console>>
    BY <1>3 DEF StartTools, Runs, GoesTo, printerVars
  <2>2. PathInv'
    BY <2>1 DEF PrintInv, PathInv, PlanNodes, ConsoleNodes, Agents
  <2> QED
    BY <2>1, <2>2, PrinterFrame DEF PrintInv, PrinterType
<1>4. CASE ToolsDone
  <2>1. /\ st = "running" /\ at = "tools running" /\ at' = "executor"
        /\ UNCHANGED <<prog, st, callback, reader, wg, console>>
    BY <1>4 DEF ToolsDone, GoesTo, printerVars
  <2>2. PathInv'
    BY <2>1 DEF PrintInv, PathInv, PlanNodes, ConsoleNodes, Agents
  <2> QED
    BY <2>1, <2>2, PrinterFrame DEF PrintInv, PrinterType
<1>5. CASE StreamReturns
  <2>1. CASE Over("failed") /\ PrinterOver
    BY <2>1, PrinterReset
  <2>2. CASE st' = "returned" /\ UNCHANGED <<prog, at, input, msgs, steps, said, planVars>>
    <3>1. prog = Plan /\ callback = None /\ UNCHANGED <<prog, callback, tool, reader, wg, console>>
      BY <1>5, <2>2 DEF StreamReturns, Plan, planVars, printerVars
    <3>2. PathInv'
      BY <2>2, <3>1 DEF PrintInv, PathInv
    <3> QED
      BY <2>2, <3>1, <3>2, PrinterFrame
  <2> QED
    BY <1>5, <2>1, <2>2 DEF StreamReturns
<1> QED
  BY <1>1, <1>2, <1>3, <1>4, <1>5 DEF GraphStep

\* A line that is no chunk comes to the console, or nothing does.
LEMMA LineFrame ==
  ASSUME PrintInv, prog = Plan, UNCHANGED <<prog, st, at, callback, reader, wg>>,
         st # "ended", console = None, console' = Line
  PROVE  PrintInv'
<1>1. PathInv' /\ PrinterType' /\ WaitInv' /\ EndInv'
  BY DEF PrintInv, PathInv, PrinterType, WaitInv, EndInv, Readers, Unread
<1>2. \A r \in Readers : HeldBy(Line, r) = HeldBy(None, r)
  BY ReadersAre, HeldIs DEF PrintInv
<1>3. ReadersInv'
  BY <1>2 DEF PrintInv, ReadersInv, Held, Readers
<1> QED
  BY <1>1, <1>3 DEF PrintInv

LEMMA BannerPrints ==
  ASSUME PrintInv, Banner
  PROVE  PrintInv'
<1>1. /\ callback # None /\ console = None /\ console' = Line /\ st # "ended"
      /\ UNCHANGED <<prog, st, at, callback, reader, wg>>
  BY DEF Banner, Sends, Alive, graphVars
<1>2. prog = Plan
  BY <1>1 DEF PrintInv, PathInv, Idle
<1> QED
  BY <1>1, <1>2, LineFrame

LEMMA ToolPrints ==
  ASSUME PrintInv, NEW i \in DOMAIN tool, ToolStep(i)
  PROVE  PrintInv'
<1>1. prog = Plan /\ st # "ended"
  <2>1. tool # <<>>
    OBVIOUS
  <2> QED
    BY <2>1 DEF PrintInv, PathInv, Idle, ToolStep, Sends, Alive
<1>2. UNCHANGED <<prog, st, at, callback, reader, wg>>
  BY DEF ToolStep, graphVars
<1>3. (console = None /\ console' = Line) \/ UNCHANGED console
  BY DEF ToolStep, Sends
<1>4. CASE UNCHANGED console
  <2>1. PathInv'
    BY <1>1, <1>2 DEF PrintInv, PathInv
  <2> QED
    BY <1>1, <1>2, <1>4, <2>1, PrinterFrame DEF PrintInv, PrinterType, EndInv
<1> QED
  BY <1>1, <1>2, <1>3, <1>4, LineFrame

LEMMA StartReaderPrints ==
  ASSUME PrintInv, StartReader
  PROVE  PrintInv'
<1> DEFINE c == NewReader(callback.chunks)
           n == Len(reader) + 1
<1>1. /\ callback \in Callback /\ callback # None /\ st # "ended"
      /\ reader' = Append(reader, c) /\ wg' = wg + 1 /\ callback' = None
      /\ UNCHANGED <<prog, st, at, tool, console>>
  BY DEF StartReader, Alive, PrintInv, PrinterType, graphVars
<1>2. prog = Plan
  BY <1>1 DEF PrintInv, PathInv, Idle
<1>3. /\ c \in Reader /\ c.pc = "recv" /\ c.next = 1 /\ c.shown = <<>>
      /\ Len(c.chunks) \in Nat
  BY <1>1 DEF NewReader, Reader, Callback
<1> HIDE DEF c
<1>4. /\ Len(reader) \in Nat /\ Readers = 1..Len(reader) /\ IsFiniteSet(Readers)
      /\ reader' \in Seq(Reader) /\ Readers' = 1..n /\ reader'[n] = c
      /\ \A r \in Readers : reader'[r] = reader[r]
  <2>1. reader \in Seq(Reader)
    BY DEF PrintInv, PrinterType
  <2>2. /\ Len(reader) \in Nat /\ Readers = 1..Len(reader) /\ n \in Nat
        /\ Len(Append(reader, c)) = n /\ Append(reader, c) \in Seq(Reader)
        /\ Append(reader, c)[n] = c
        /\ \A r \in 1..Len(reader) : Append(reader, c)[r] = reader[r]
    BY <1>3, <2>1, AppendProperties, LenProperties DEF Readers
  <2>3. Readers' = 1..n
    BY <1>1, <2>2, LenProperties DEF Readers
  <2>4. IsFiniteSet(Readers)
    BY <2>2, FS_Interval
  <2> QED
    BY <1>1, <2>2, <2>3, <2>4
<1>5. PathInv' /\ EndInv'
  BY <1>1, <1>2 DEF PrintInv, PathInv, EndInv
<1>6. PrinterType'
  BY <1>1, <1>4 DEF PrintInv, PrinterType
<1>7. HeldBy(console, n) = {}
  <2>1. n \in Nat /\ n # 0 /\ \A q \in Readers : q # n /\ q \in Nat
    BY <1>4
  <2>2. console = None \/ console = Line \/ \E q \in Readers, k \in Nat : console = <<q, k>>
    BY DEF PrintInv, PrinterType
  <2> QED
    BY <2>1, <2>2, HeldIs
<1>8. Follows(c, {})
  BY <1>3 DEF Follows, Passed, ToSet, InOrder
<1>9. ReadersInv'
  <2>1. \A r \in Readers : Follows(reader'[r], HeldBy(console, r))
    BY <1>4 DEF PrintInv, ReadersInv, Held
  <2>2. Follows(reader'[n], HeldBy(console, n))
    BY <1>4, <1>7, <1>8
  <2>3. \A r \in 1..n : r = n \/ r \in Readers
    BY <1>4
  <2>4. \A r \in 1..n : Follows(reader'[r], HeldBy(console, r))
    BY <2>1, <2>2, <2>3
  <2> QED
    BY <1>1, <1>4, <2>4 DEF ReadersInv, Held
<1>10. WaitInv'
  <2>1. Unread' = Unread \cup {n} /\ n \notin Unread
    BY <1>3, <1>4 DEF Unread
  <2>2. IsFiniteSet(Unread)
    BY <1>4, FS_Subset DEF Unread
  <2>3. Cardinality(Unread \cup {n}) = Cardinality(Unread) + 1
    BY <2>1, <2>2, FS_AddElement
  <2> QED
    BY <1>1, <2>1, <2>3 DEF PrintInv, WaitInv
<1> QED
  BY <1>5, <1>6, <1>9, <1>10 DEF PrintInv

\* A goroutine at work belongs to a program that goes on.
LEMMA AtWork ==
  ASSUME PrintInv, NEW r \in Readers
  PROVE  /\ reader[r] \in Reader /\ r \in Nat /\ r # 0
         /\ Follows(reader[r], HeldBy(console, r))
         /\ console \in {None, Line} => HeldBy(console, r) = {}
         /\ console \in Readers \X Nat \cup {Line, None}
BY ReadersAre, HeldIs DEF PrintInv, ReadersInv, Held, PrinterType

LEMMA MovePrints ==
  ASSUME PrintInv, NEW r \in Readers,
         NEW p \in {"recv", "mark", "lock", "write", "send", "done"}, Moves(r, p),
         p \in {"mark", "lock", "write", "send"} =>
            reader[r].next <= Len(reader[r].chunks) /\ Chunk(r) \in Text,
         p = "done" => reader[r].next > Len(reader[r].chunks),
         reader[r].pc # "done", st # "ended",
         wg' = IF p = "done" THEN wg - 1 ELSE wg,
         console' = console \/ (console = None /\ console' = Line),
         UNCHANGED <<prog, st, at, callback, tool>>
  PROVE  PrintInv'
<1> DEFINE d == [reader[r] EXCEPT !.pc = p]
<1>1. reader[r] \in Reader /\ Follows(reader[r], HeldBy(console, r))
  BY AtWork
<1>2. d \in Reader /\ d.pc = p /\ Follows(d, HeldBy(console, r))
  BY <1>1, Moved DEF Chunk
<1>3. reader' = [reader EXCEPT ![r] = d]
  BY DEF Moves
<1> HIDE DEF d
<1>4. \A q \in Readers : HeldBy(console', q) = HeldBy(console, q)
  BY AtWork, HeldIs
<1>5. console' \in Readers \X Nat \cup {Line, None}
  BY AtWork
<1> QED
  BY <1>2, <1>3, <1>4, <1>5, ReaderFrame

LEMMA OnwardPrints ==
  ASSUME PrintInv, NEW r \in Readers, Onward(r),
         reader[r].next <= Len(reader[r].chunks), reader[r].pc # "done", st # "ended",
         \/ Chunk(r) \notin Text /\ console' = console
         \/ Chunk(r) \in Text /\ console = None /\ console' = <<r, reader[r].next>>,
         UNCHANGED <<prog, st, at, callback, tool, wg>>
  PROVE  PrintInv'
<1> DEFINE d == [reader[r] EXCEPT !.pc = "recv", !.next = @ + 1]
<1>1. /\ reader[r] \in Reader /\ reader[r].next \in Nat /\ r \in Nat
      /\ Follows(reader[r], HeldBy(console, r))
  BY AtWork DEF Reader
<1>2. \A q \in Readers : q \in Nat /\ q # 0
  BY AtWork
<1>3. \/ Chunk(r) \notin Text /\ HeldBy(console', r) = HeldBy(console, r)
      \/ Chunk(r) \in Text /\ HeldBy(console, r) = {} /\ HeldBy(console', r) = {reader[r].next}
  BY <1>1, <1>2, HeldIs
<1>5. d \in Reader /\ d.pc = "recv" /\ Follows(d, HeldBy(console', r))
  BY <1>1, <1>3, MovedOn DEF Chunk
<1>6. reader' = [reader EXCEPT ![r] = d]
  BY DEF Onward
<1> HIDE DEF d
<1>7. \A q \in Readers \ {r} : HeldBy(console', q) = HeldBy(console, q)
  BY <1>1, <1>2, HeldIs
<1>8. console' \in Readers \X Nat \cup {Line, None}
  BY <1>1, AtWork
<1> QED
  BY <1>5, <1>6, <1>7, <1>8, ReaderFrame

LEMMA ReaderPrints ==
  ASSUME PrintInv, NEW r \in Readers, ReaderStep(r)
  PROVE  PrintInv'
<1> USE DEF graphVars
<1>1. Text = DOMAIN Header
  BY DEF Text, Header
<1>0. /\ reader[r] \in Reader /\ reader[r].next \in Nat /\ Len(reader[r].chunks) \in Nat
      /\ Follows(reader[r], HeldBy(console, r))
      /\ console \in {None, Line} => HeldBy(console, r) = {}
  BY AtWork DEF Reader
<1>2. CASE Recv(r) /\ reader[r].next > Len(reader[r].chunks)
  <2>1. /\ Moves(r, "done") /\ wg' = wg - 1 /\ reader[r].pc # "done" /\ st # "ended"
        /\ UNCHANGED <<prog, st, at, callback, tool, console>>
    BY <1>0, <1>2 DEF Recv, Alive, Done, readerRest
  <2> QED
    BY <1>2, <2>1, MovePrints
<1>3. CASE Recv(r) /\ reader[r].next <= Len(reader[r].chunks)
  <2>0. Takes(r) /\ reader[r].pc # "done" /\ st # "ended"
    BY <1>0, <1>3 DEF Recv, Alive
  <2>1. CASE Dies("failed") \/ Dies("crashed")
    BY <2>1, PrinterReset DEF Dies
  <2>2. CASE Chunk(r) = "call" /\ Onward(r) /\ UNCHANGED <<readerRest, wg>>
    <3>1. Chunk(r) \notin Text /\ UNCHANGED <<prog, st, at, callback, tool, wg, console>>
      BY <2>2 DEF Text, readerRest
    <3> QED
      BY <1>3, <2>0, <2>2, <3>1, OnwardPrints
  <2>3. CASE /\ Chunk(r) \in DOMAIN Header
             /\ Moves(r, IF phase[reader[r].agent] # Chunk(r) THEN "mark" ELSE "send")
             /\ UNCHANGED <<readerRest, wg>>
    <3>1. PICK p \in {"mark", "send"} : Moves(r, p)
      BY <2>3
    <3>2. UNCHANGED <<prog, st, at, callback, tool, wg, console>>
      BY <2>3 DEF readerRest
    <3> QED
      BY <1>1, <1>3, <2>0, <2>3, <3>1, <3>2, MovePrints
  <2> QED
    BY <2>0, <2>1, <2>2, <2>3 DEF Takes
<1>4. CASE Mark(r)
  <2>1. /\ Moves(r, "lock") /\ reader[r].pc = "mark" /\ st # "ended"
        /\ console = None /\ console' = Line
        /\ UNCHANGED <<prog, st, at, callback, tool, wg>>
    BY <1>4 DEF Mark, Sends, Alive
  <2> QED
    BY <1>0, <2>1, MovePrints DEF Follows, Chunk
<1>5. CASE Lock(r)
  <2>1. /\ Moves(r, "write") /\ reader[r].pc = "lock" /\ st # "ended"
        /\ UNCHANGED <<prog, st, at, callback, tool, wg, console>>
    BY <1>5 DEF Lock, Alive
  <2> QED
    BY <1>0, <2>1, MovePrints DEF Follows, Chunk
<1>6. CASE Write(r)
  <2>1. /\ Moves(r, "send") /\ reader[r].pc = "write" /\ st # "ended"
        /\ UNCHANGED <<prog, st, at, callback, tool, wg, console>>
    BY <1>6 DEF Write, Alive
  <2> QED
    BY <1>0, <2>1, MovePrints DEF Follows, Chunk
<1>7. CASE SendChunk(r)
  <2>1. /\ Onward(r) /\ reader[r].pc = "send" /\ st # "ended"
        /\ console = None /\ console' = <<r, reader[r].next>>
        /\ UNCHANGED <<prog, st, at, callback, tool, wg>>
    BY <1>7 DEF SendChunk, Sends, Alive
  <2> QED
    BY <1>0, <2>1, OnwardPrints DEF Follows, Chunk
<1> QED
  BY <1>0, <1>2, <1>3, <1>4, <1>5, <1>6, <1>7 DEF ReaderStep, Recv

LEMMA PrintPrints ==
  ASSUME PrintInv, printStream
  PROVE  PrintInv'
<1>1. /\ console # None /\ console' = None /\ st # "ended"
      /\ UNCHANGED <<prog, st, at, callback, tool, wg>>
  BY DEF printStream, Alive, graphVars
<1>2. CASE console = Line
  <2>1. reader' = reader
    BY <1>2 DEF printStream
  <2>2. \A r \in Readers : HeldBy(None, r) = HeldBy(Line, r)
    BY AtWork, HeldIs
  <2>3. ReadersInv'
    BY <1>1, <1>2, <2>1, <2>2 DEF PrintInv, ReadersInv, Held, Readers
  <2>4. prog = Plan
    BY <1>1 DEF PrintInv, PathInv, Idle
  <2>5. PathInv' /\ PrinterType' /\ WaitInv' /\ EndInv'
    BY <1>1, <2>1, <2>4 DEF PrintInv, PathInv, PrinterType, WaitInv, EndInv, Readers, Unread
  <2> QED
    BY <2>3, <2>5 DEF PrintInv
<1>3. CASE console # Line
  <2>1. PICK r \in Readers, k \in Nat : console = <<r, k>>
    BY <1>1, <1>3 DEF PrintInv, PrinterType
  <2> DEFINE d == [reader[r] EXCEPT !.shown = Append(@, k)]
  <2>2. reader' = [reader EXCEPT ![r] = d]
    BY <1>3, <2>1 DEF printStream
  <2>3. reader[r] \in Reader /\ Follows(reader[r], {k}) /\ HeldBy(None, r) = {}
    BY <2>1, AtWork, HeldIs
  <2>4. d \in Reader /\ d.pc = reader[r].pc /\ Follows(d, {})
    BY <2>3, Printed
  <2> HIDE DEF d
  <2>5. \A q \in Readers \ {r} : HeldBy(console', q) = HeldBy(console, q)
    BY <1>1, <2>1, AtWork, HeldIs
  <2> QED
    BY <1>1, <2>2, <2>3, <2>4, <2>5, ReaderFrame
<1> QED
  BY <1>2, <1>3

LEMMA ExitPrints ==
  ASSUME PrintInv, Exit
  PROVE  PrintInv'
<1>1. /\ st = "returned" /\ wg = 0 /\ console = None
      /\ UNCHANGED <<prog, callback, tool, reader, wg, console>> /\ st' = "ended"
  BY DEF Exit, planVars, printerVars
<1>2. Unread = {}
  <2>0. IsFiniteSet(Readers)
    BY ReadersAre, FS_Interval DEF PrintInv
  <2>1. IsFiniteSet(Unread)
    BY <2>0, FS_Subset DEF Unread
  <2> QED
    BY <1>1, <2>1, FS_EmptySet DEF PrintInv, WaitInv
<1>3. callback = None
  BY <1>1 DEF PrintInv, EndInv
<1>4. PathInv'
  BY <1>1 DEF PrintInv, PathInv, Idle
<1> QED
  BY <1>1, <1>2, <1>3, <1>4, PrinterFrame

\* The programs that ask have no printer.
LEMMA ConsolePrints ==
  ASSUME PrintInv, UNCHANGED planVars, ConvInv, ConsoleStep \/ Asked
  PROVE  PrintInv'
<1>1. UNCHANGED <<prog, callback, tool, reader, wg, console>>
  BY DEF planVars, printerVars, ConsoleStep, Asked, FirstNode, ChatModel, ManusTools, Human,
     OutputConverter, BookingTools, BookingEnds, Resume, ManusAsks, BookingAsks
<1>2. /\ prog # Plan
      /\ st' # "returned"
      /\ st' = "running" => at' \in ConsoleNodes
  <2>1. CASE FirstNode
    BY <2>1 DEF FirstNode, Runs, GoesTo, PrintInv, PathInv, PlanNodes, ConsoleNodes, Agents
  <2>2. CASE ChatModel
    <3>1. /\ st = "running" /\ at = "ChatModel"
          /\ at' \in {"ToolsNode", "Human", "END"}
          /\ st' \in {st, "asking"}
      BY <2>2 DEF ChatModel, Runs, ArrivesAt, GoesTo, AfterModel
    <3> QED
      BY <3>1 DEF PrintInv, PathInv, PlanNodes, ConsoleNodes, Agents
  <2>3. CASE ManusTools \/ BookingTools
    BY <2>3 DEF ManusTools, BookingTools, GoesTo, PrintInv, PathInv, ConsoleNodes, Runs, Plan
  <2>4. CASE Human
    BY <2>4 DEF Human, Runs, GoesTo, PrintInv, PathInv, PlanNodes, ConsoleNodes, Agents
  <2>5. CASE OutputConverter
    BY <2>5 DEF OutputConverter, Runs, PrintInv, PathInv, PlanNodes, ConsoleNodes, Agents
  <2>6. CASE BookingEnds \/ ManusAsks \/ BookingAsks
    BY <2>6 DEF BookingEnds, ManusAsks, BookingAsks, Plan
  <2>7. CASE Resume
    <3>1. st = "answered" /\ st' = "running" /\ at' = ckpt.at
      BY <2>7 DEF Resume, GoesTo
    <3>2. ckpt.at \in {"Human", "ToolsNode"} /\ prog # Plan
      BY <3>1 DEF ConvInv, AnsweredInv, PrintInv, PathInv
    <3> QED
      BY <3>1, <3>2 DEF ConsoleNodes
  <2> QED
    BY <2>1, <2>2, <2>3, <2>4, <2>5, <2>6, <2>7 DEF ConsoleStep, Asked
<1>3. Idle
  BY <1>2 DEF PrintInv, PathInv
<1>4. PathInv'
  BY <1>1, <1>2, <1>3 DEF PrintInv, PathInv, Idle
<1>5. callback = None /\ Unread = {} /\ console = None
  BY <1>3 DEF Idle, Unread, Readers
<1> QED
  BY <1>1, <1>4, <1>5, PrinterFrame

LEMMA PrintStep == ConvInv /\ PrintInv /\ [Next]_vars => PrintInv'
<1> SUFFICES ASSUME ConvInv, PrintInv, [Next]_vars PROVE PrintInv'
  OBVIOUS
<1>1. CASE PlanStep
  BY <1>1, GraphStepPrints, BannerPrints, StartReaderPrints, PrintPrints, ExitPrints,
     ReaderPrints, ToolPrints DEF PlanStep
<1>2. CASE (ConsoleStep \/ Asked) /\ UNCHANGED planVars
  BY <1>2, ConsolePrints
<1>3. CASE GraphFails
  BY <1>3, PrinterReset DEF GraphFails, OutOfSteps, NodeFails
<1>4. CASE UNCHANGED vars
  <2>1. UNCHANGED <<prog, st, at, callback, tool, reader, wg, console>>
    BY <1>4 DEF vars, graphVars, planVars, printerVars
  <2>2. PathInv'
    BY <2>1 DEF PrintInv, PathInv, Idle
  <2> QED
    BY <2>1, <2>2, PrinterFrame DEF PrintInv, PrinterType, EndInv
<1> QED
  BY <1>1, <1>2, <1>3, <1>4 DEF Next

LEMMA PrintedAll == PrintInv => AllShownAtEnd
<1> SUFFICES ASSUME PrintInv, st = "ended" PROVE
      /\ callback = None
      /\ \A r \in Readers : ToSet(reader[r].shown) = Printable(r) /\ InOrder(reader[r].shown)
  BY DEF AllShownAtEnd
<1>1. callback = None /\ Unread = {} /\ console = None
  BY DEF PrintInv, EndInv
<1>2. ASSUME NEW r \in Readers
      PROVE  ToSet(reader[r].shown) = Printable(r) /\ InOrder(reader[r].shown)
  <2>1. reader[r] \in Reader /\ Follows(reader[r], {}) /\ reader[r].pc = "done"
    BY <1>1, AtWork DEF Unread
  <2>2. Passed(reader[r]) = Printable(r)
    BY <2>1 DEF Follows, Passed, Printable, Text, Reader
  <2> QED
    BY <2>1, <2>2 DEF Follows
<1> QED
  BY <1>1, <1>2

\* When a program ends, all that its models have streamed was printed, every stream once and
\* in its order, for any streams, any number of calls and any interleaving of the goroutines
\* that read them with the graph and the console (plan_execute/main.go:105-122, 190-223).
THEOREM AllIsShown == Spec => []AllShownAtEnd
<1>1. Init => ConvInv /\ PrintInv
  BY Started, PrintStarts
<1>2. ConvInv /\ PrintInv /\ [Next]_vars => (ConvInv /\ PrintInv)'
  BY ConvStep, PrintStep
<1>3. PrintInv => AllShownAtEnd
  BY PrintedAll
<1> QED
  BY <1>1, <1>2, <1>3, PTL DEF Spec

-----------------------------------------------------------------------------
(* What the models accept.  First, induction, for a set in the place of a   *)
(* predicate, and what Converted returns.                                   *)

LEMMA Least ==
  ASSUME NEW T, T \subseteq Nat, T # {}
  PROVE  \E x \in T : \A y \in T : ~(y < x)
<1>1. \A x, y \in Nat : x < y => <<x, y>> \in OpToRel(<, Nat)
  BY DEF OpToRel
<1>2. PICK x \in T : \A y \in T : ~(<<y, x>> \in OpToRel(<, Nat))
  BY NatLessThanWellFounded, WFMin
<1> QED
  BY <1>1, <1>2

LEMMA Induction ==
  ASSUME NEW T, 0 \in T, \A n \in Nat : n \in T => n + 1 \in T
  PROVE  Nat \subseteq T
<1> SUFFICES ASSUME Nat \ T # {} PROVE FALSE
  OBVIOUS
<1>1. PICK x \in Nat \ T : \A y \in Nat \ T : ~(y < x)
  BY Least
<1>2. x - 1 \in Nat /\ x - 1 < x /\ (x - 1) + 1 = x
  BY <1>1
<1> QED
  BY <1>1, <1>2

\* converted, in the definition of Converted, up to n.
ConvertedAt(parts, k, i) == IF i = 0 THEN <<>> ELSE k[i - 1] \o parts[i]
Converts(parts, n, k) == k = [i \in 0..n |-> ConvertedAt(parts, k, i)]
ConvertsUpTo(parts, n, k) == k[0] = <<>> /\ \A i \in 1..n : k[i] = k[i - 1] \o parts[i]

LEMMA ConvertsAt ==
  ASSUME NEW parts, NEW n \in Nat, NEW k, Converts(parts, n, k), NEW i \in 0..n
  PROVE  k[i] = ConvertedAt(parts, k, i)
<1> DEFINE g == [j \in 0..n |-> ConvertedAt(parts, k, j)]
<1>1. k = g
  BY Zenon DEF Converts
<1>2. g[i] = ConvertedAt(parts, k, i)
  OBVIOUS
<1> HIDE DEF g
<1> QED
  BY <1>1, <1>2, Zenon

LEMMA ConvertsExists ==
  ASSUME NEW parts, NEW n \in Nat
  PROVE  \E k : Converts(parts, n, k)
<1> DEFINE T == {m \in Nat : \E k : Converts(parts, m, k)}
<1>1. 0 \in T
  <2> DEFINE k == [i \in 0..0 |-> <<>>]
  <2>1. \A i \in 0..0 : ConvertedAt(parts, k, i) = <<>>
    BY DEF ConvertedAt
  <2>2. Converts(parts, 0, k)
    BY <2>1 DEF Converts
  <2> QED
    BY <2>2
<1>2. ASSUME NEW m \in Nat, m \in T PROVE m + 1 \in T
  <2>1. PICK k : Converts(parts, m, k)
    BY <1>2
  <2>2. \A i \in 0..m : k[i] = ConvertedAt(parts, k, i)
    BY <2>1, ConvertsAt
  <2> DEFINE l == [i \in 0..(m + 1) |-> IF i = m + 1 THEN ConvertedAt(parts, k, i) ELSE k[i]]
  <2>3. \A i \in 0..(m + 1) : ConvertedAt(parts, l, i) = ConvertedAt(parts, k, i)
    <3> SUFFICES ASSUME NEW i \in 0..(m + 1)
                 PROVE  ConvertedAt(parts, l, i) = ConvertedAt(parts, k, i)
      OBVIOUS
    <3>1. i # 0 => l[i - 1] = k[i - 1]
      OBVIOUS
    <3> HIDE DEF l
    <3> QED
      BY <3>1 DEF ConvertedAt
  <2>4. \A i \in 0..(m + 1) : l[i] = ConvertedAt(parts, l, i)
    BY <2>2, <2>3
  <2>5. l = [i \in 0..(m + 1) |-> l[i]]
    OBVIOUS
  <2>6. Converts(parts, m + 1, l)
    <3> HIDE DEF l
    <3> QED
      BY <2>4, <2>5 DEF Converts
  <2> QED
    BY <2>6
<1> HIDE DEF T
<1>3. n \in T
  BY <1>1, <1>2, Induction
<1> QED
  BY <1>3 DEF T

LEMMA ConvertedSteps ==
  ASSUME NEW parts, Len(parts) \in Nat
  PROVE  \E k : ConvertsUpTo(parts, Len(parts), k) /\ Converted(parts) = k[Len(parts)]
<1> DEFINE k == CHOOSE j : Converts(parts, Len(parts), j)
<1>1. Converted(parts) = k[Len(parts)]
  BY Zenon DEF Converted, Converts, ConvertedAt
<1>2. \E j : Converts(parts, Len(parts), j)
  BY ConvertsExists
<1>3. Converts(parts, Len(parts), k)
  BY <1>2, Zenon
<1> HIDE DEF k
<1>4. \A i \in 0..Len(parts) : k[i] = ConvertedAt(parts, k, i)
  BY <1>3, ConvertsAt
<1>5. ConvertsUpTo(parts, Len(parts), k)
  <2>1. 0 \in 0..Len(parts) /\ ConvertedAt(parts, k, 0) = <<>>
    BY DEF ConvertedAt
  <2>2. \A i \in 1..Len(parts) :
           i \in 0..Len(parts) /\ ConvertedAt(parts, k, i) = k[i - 1] \o parts[i]
    <3> SUFFICES ASSUME NEW i \in 1..Len(parts)
                 PROVE  /\ i \in 0..Len(parts)
                        /\ ConvertedAt(parts, k, i) = k[i - 1] \o parts[i]
      OBVIOUS
    <3>1. i # 0 /\ i \in 0..Len(parts)
      OBVIOUS
    <3> QED
      BY <3>1, Zenon DEF ConvertedAt
  <2> QED
    BY <1>4, <2>1, <2>2 DEF ConvertsUpTo
<1> QED
  BY <1>1, <1>5

\* A conversion whose parts are of S is a sequence of S.
LEMMA ConvertedType ==
  ASSUME NEW S, NEW parts, Len(parts) \in Nat, \A i \in 1..Len(parts) : parts[i] \in Seq(S)
  PROVE  Converted(parts) \in Seq(S)
<1> DEFINE n == Len(parts)
<1>1. PICK k : ConvertsUpTo(parts, n, k) /\ Converted(parts) = k[n]
  BY ConvertedSteps
<1> DEFINE T == {m \in Nat : m <= n => k[m] \in Seq(S)}
<1>2. 0 \in T
  <2>1. k[0] = <<>> /\ <<>> \in Seq(S)
    BY <1>1 DEF ConvertsUpTo
  <2> QED
    BY <2>1
<1>3. ASSUME NEW m \in Nat, m \in T PROVE m + 1 \in T
  <2> SUFFICES ASSUME m + 1 <= n PROVE k[m + 1] \in Seq(S)
    BY <1>3
  <2>1. m + 1 \in 1..n /\ (m + 1) - 1 = m /\ k[m] \in Seq(S) /\ parts[m + 1] \in Seq(S)
    BY <1>3
  <2>2. k[m + 1] = k[m] \o parts[m + 1]
    BY <1>1, <2>1 DEF ConvertsUpTo
  <2> QED
    BY <2>1, <2>2, ConcatProperties
<1> HIDE DEF T
<1>4. n \in T
  BY <1>2, <1>3, Induction
<1> QED
  BY <1>1, <1>4 DEF T

-----------------------------------------------------------------------------
(* The DeepSeek models are sent neither calls nor tools' messages.          *)

Plain == {m \in Msg : m.role # "tool" /\ m.calls = <<>>}

LEMMA PlainAccepted ==
  ASSUME NEW c \in Seq(Plain)
  PROVE  AnswersCalls(c) /\ \A m \in ToSet(c) : m.role # "tool" /\ m.calls = <<>>
<1>1. \A i \in DOMAIN c : c[i] \in Plain
  BY ElementOfSeq, LenProperties
<1>2. \A i \in DOMAIN c : c[i].role # "tool" /\ c[i].calls = <<>> /\ Len(c[i].calls) = 0
  BY <1>1 DEF Plain
<1> QED
  BY <1>2 DEF AnswersCalls, ToSet

LEMMA DeepSeekPart ==
  ASSUME NEW m \in Msg
  PROVE  DeepSeekMessages(m) \in Seq(Plain)
<1>1. m.text \in Contents /\ m.role \in Roles /\ m.calls \in Seq(CallNames)
  BY DEF Msg, Record
<1>2. \A t \in Contents : Message("assistant", t, <<>>) \in Plain
  <2> SUFFICES ASSUME NEW t \in Contents PROVE Message("assistant", t, <<>>) \in Plain
    OBVIOUS
  <2>1. Message("assistant", t, <<>>) \in Msg
    BY MessageType, NoCalls DEF Roles
  <2>2. /\ Message("assistant", t, <<>>).role = "assistant"
        /\ Message("assistant", t, <<>>).calls = <<>>
    BY DEF Message
  <2> QED
    BY <2>1, <2>2 DEF Plain
<1>3. CASE m.role = "tool"
  <2>1. DeepSeekMessages(m) = <<Message("assistant", m.text, <<>>)>>
    BY <1>3 DEF DeepSeekMessages
  <2> QED
    BY <1>1, <1>2, <2>1
<1>4. CASE m.role = "assistant"
  <2> DEFINE head == IF m.text # "" THEN <<Message("assistant", m.text, <<>>)>> ELSE <<>>
             tail == [i \in DOMAIN m.calls |-> Message("assistant", "call", <<>>)]
  <2>1. head \in Seq(Plain)
    <3>1. <<Message("assistant", m.text, <<>>)>> \in Seq(Plain) /\ <<>> \in Seq(Plain)
      BY <1>1, <1>2
    <3> QED
      BY <3>1
  <2>2. tail \in Seq(Plain)
    <3>1. DOMAIN m.calls = 1..Len(m.calls) /\ Len(m.calls) \in Nat
      BY <1>1
    <3>2. "call" \in Contents
      BY DEF Contents
    <3> QED
      BY <1>2, <3>1, <3>2, FunctionIsSeq
  <2>3. DeepSeekMessages(m) = head \o tail
    BY <1>4 DEF DeepSeekMessages
  <2> HIDE DEF head, tail
  <2> QED
    BY <2>1, <2>2, <2>3, ConcatProperties
<1>5. CASE m.role \in {"user", "system"}
  <2>1. m \in Plain /\ DeepSeekMessages(m) = <<m>>
    BY <1>5 DEF Plain, DeepSeekMessages, Msg
  <2> QED
    BY <2>1
<1> QED
  BY <1>1, <1>3, <1>4, <1>5 DEF Roles

LEMMA DeepSeekPlain ==
  ASSUME NEW ms \in Dialogue
  PROVE  convertMessagesForDeepSeek(ms) \in Seq(Plain)
<1> DEFINE parts == [i \in DOMAIN ms |-> DeepSeekMessages(ms[i])]
<1>1. DOMAIN ms = 1..Len(ms) /\ Len(ms) \in Nat /\ \A i \in DOMAIN ms : ms[i] \in Msg
  BY ElementOfSeq, LenProperties DEF Dialogue
<1>2. \A i \in 1..Len(ms) : DeepSeekMessages(ms[i]) \in Seq(Plain)
  BY <1>1, DeepSeekPart
<1>3. parts \in Seq(Seq(Plain)) /\ Len(parts) = Len(ms) /\ \A i \in 1..Len(ms) : parts[i] \in Seq(Plain)
  <2>1. parts \in [1..Len(ms) -> Seq(Plain)]
    BY <1>1, <1>2
  <2>2. parts \in Seq(Seq(Plain))
    BY <1>1, <2>1, FunctionIsSeq
  <2> HIDE DEF parts
  <2>3. Len(parts) = Len(ms)
    BY <1>1, <2>1, <2>2, LenProperties
  <2> QED
    BY <2>1, <2>2, <2>3
<1> HIDE DEF parts
<1>4. Converted(parts) \in Seq(Plain)
  BY <1>1, <1>3, ConvertedType
<1> QED
  BY <1>4 DEF convertMessagesForDeepSeek, parts

-----------------------------------------------------------------------------
(* The executor is sent what says something: what is left out holds no calls *)
(* and answers none, so that calls and their results stay beside each other. *)

\* c is what the first n messages of ms say, in their order.
Picks(c, ms, n, g) ==
    /\ g \in [DOMAIN c -> 1..n]
    /\ \A j \in DOMAIN c : c[j] = ms[g[j]]
    /\ \A i, j \in DOMAIN c : i < j => g[i] < g[j]
    /\ \A i \in 1..n : SaysSomething(ms[i]) => \E j \in DOMAIN c : g[j] = i

LEMMA PicksNext ==
  ASSUME NEW ms, NEW n \in Nat, NEW c \in Dialogue, NEW g, Picks(c, ms, n, g), ms[n + 1] \in Msg,
         SaysSomething(ms[n + 1])
  PROVE  \E h : Picks(Append(c, ms[n + 1]), ms, n + 1, h)
<1> DEFINE d == Append(c, ms[n + 1])
           l == Len(c)
           h == [j \in 1..(l + 1) |-> IF j = l + 1 THEN n + 1 ELSE g[j]]
<1>1. /\ l \in Nat /\ DOMAIN c = 1..l /\ DOMAIN d = 1..(l + 1)
      /\ d[l + 1] = ms[n + 1]
      /\ \A j \in 1..l : d[j] = c[j]
  BY AppendProperties, LenProperties DEF Dialogue
<1> HIDE DEF d, l
<1>2. /\ h[l + 1] = n + 1
      /\ \A j \in 1..l : h[j] = g[j] /\ g[j] \in 1..n
  BY <1>1 DEF Picks
<1>3. h \in [DOMAIN d -> 1..(n + 1)]
  <2>1. \A j \in 1..(l + 1) : h[j] \in 1..(n + 1)
    <3>1. \A j \in 1..(l + 1) : j = l + 1 \/ j \in 1..l
      BY <1>1
    <3>2. n + 1 \in 1..(n + 1) /\ 1..n \subseteq 1..(n + 1)
      OBVIOUS
    <3> HIDE DEF h
    <3> QED
      BY <1>2, <3>1, <3>2
  <2>2. h = [j \in 1..(l + 1) |-> h[j]]
    OBVIOUS
  <2> HIDE DEF h
  <2> QED
    BY <1>1, <2>1, <2>2
<1> HIDE DEF h
<1>4. \A j \in DOMAIN d : d[j] = ms[h[j]]
  BY <1>1, <1>2 DEF Picks
<1>5. \A i, j \in DOMAIN d : i < j => h[i] < h[j]
  <2> SUFFICES ASSUME NEW i \in DOMAIN d, NEW j \in DOMAIN d, i < j PROVE h[i] < h[j]
    OBVIOUS
  <2>1. i \in 1..l
    BY <1>1
  <2>2. CASE j = l + 1
    BY <1>2, <2>1, <2>2
  <2>3. CASE j \in 1..l
    BY <1>1, <1>2, <2>1, <2>3 DEF Picks
  <2> QED
    BY <1>1, <2>2, <2>3
<1>6. \A i \in 1..(n + 1) : SaysSomething(ms[i]) => \E j \in DOMAIN d : h[j] = i
  <2> SUFFICES ASSUME NEW i \in 1..(n + 1), SaysSomething(ms[i]) PROVE \E j \in DOMAIN d : h[j] = i
    OBVIOUS
  <2>1. CASE i = n + 1
    <3>1. l + 1 \in DOMAIN d
      BY <1>1
    <3> QED
      BY <1>2, <2>1, <3>1
  <2>2. CASE i \in 1..n
    <3>1. PICK j \in 1..l : g[j] = i
      BY <1>1, <2>2 DEF Picks
    <3> QED
      BY <1>1, <1>2, <3>1
  <2> QED
    BY <2>1, <2>2
<1>7. Picks(d, ms, n + 1, h)
  BY <1>3, <1>4, <1>5, <1>6 DEF Picks
<1> QED
  BY <1>7 DEF d

LEMMA PicksSame ==
  ASSUME NEW ms, NEW n \in Nat, NEW c, NEW g, Picks(c, ms, n, g), ~SaysSomething(ms[n + 1])
  PROVE  Picks(c, ms, n + 1, g)
<1>1. \A i \in 1..(n + 1) : i \in 1..n \/ i = n + 1
  OBVIOUS
<1>2. g \in [DOMAIN c -> 1..(n + 1)]
  <2>1. \A j \in 1..n : j \in 1..(n + 1)
    OBVIOUS
  <2> QED
    BY <2>1 DEF Picks
<1> QED
  BY <1>1, <1>2 DEF Picks

LEMMA ArkPicks ==
  ASSUME NEW ms \in Dialogue
  PROVE  /\ convertMessagesForArk(ms) \in Dialogue
         /\ \E g : Picks(convertMessagesForArk(ms), ms, Len(ms), g)
<1> DEFINE n == Len(ms)
           parts == [i \in DOMAIN ms |-> ArkMessages(ms[i])]
<1>1. DOMAIN ms = 1..n /\ n \in Nat /\ \A i \in 1..n : ms[i] \in Msg
  BY ElementOfSeq, LenProperties DEF Dialogue
<1>2. \A i \in 1..n : ArkMessages(ms[i]) \in Dialogue
  BY <1>1 DEF ArkMessages, Dialogue
<1>3. parts \in [1..n -> Dialogue]
  BY <1>1, <1>2
<1>4. Len(parts) = n
  <2>1. parts \in Seq(Dialogue)
    BY <1>1, <1>3, FunctionIsSeq
  <2> HIDE DEF parts
  <2> QED
    BY <1>1, <1>3, <2>1, LenProperties
<1>5. \A i \in 1..n : parts[i] = ArkMessages(ms[i])
  BY <1>1
<1>6. convertMessagesForArk(ms) = Converted(parts)
  BY DEF convertMessagesForArk
<1> HIDE DEF parts
<1>7. PICK k : ConvertsUpTo(parts, n, k) /\ Converted(parts) = k[n]
  BY <1>1, <1>4, ConvertedSteps
<1> HIDE DEF n
<1> DEFINE T == {m \in Nat : m <= n => k[m] \in Dialogue /\ \E g : Picks(k[m], ms, m, g)}
<1>8. 0 \in T
  <2>1. k[0] = <<>> /\ <<>> \in Dialogue
    BY <1>7, Empty DEF ConvertsUpTo
  <2>2. Picks(<<>>, ms, 0, <<>>)
    BY DEF Picks
  <2> QED
    BY <2>1, <2>2
<1>9. ASSUME NEW m \in Nat, m \in T PROVE m + 1 \in T
  <2> SUFFICES ASSUME m + 1 <= n
               PROVE  k[m + 1] \in Dialogue /\ \E g : Picks(k[m + 1], ms, m + 1, g)
    BY <1>9
  <2>1. m <= n /\ m + 1 \in 1..n /\ (m + 1) - 1 = m
    BY <1>1
  <2>2. k[m] \in Dialogue /\ \E g : Picks(k[m], ms, m, g)
    BY <1>9, <2>1
  <2>3. PICK g : Picks(k[m], ms, m, g)
    BY <2>2
  <2>4. k[m + 1] = k[m] \o ArkMessages(ms[m + 1]) /\ ms[m + 1] \in Msg
    BY <1>1, <1>5, <1>7, <2>1 DEF ConvertsUpTo
  <2>5. CASE SaysSomething(ms[m + 1])
    <3>1. k[m] \in Dialogue /\ ms[m + 1] \in Msg
      BY <2>2, <2>4
    <3>2. /\ Append(k[m], ms[m + 1]) = k[m] \o <<ms[m + 1]>>
          /\ Append(k[m], ms[m + 1]) \in Dialogue
      BY <3>1, AppendSaid
    <3>3. ArkMessages(ms[m + 1]) = <<ms[m + 1]>>
      BY <2>5 DEF ArkMessages
    <3>4. k[m + 1] = Append(k[m], ms[m + 1])
      BY <2>4, <3>2, <3>3
    <3>5. k[m + 1] \in Dialogue
      BY <3>2, <3>4
    <3>6. \E h : Picks(Append(k[m], ms[m + 1]), ms, m + 1, h)
      BY <2>3, <2>5, <3>1, PicksNext
    <3> QED
      BY <3>4, <3>5, <3>6
  <2>6. CASE ~SaysSomething(ms[m + 1])
    <3>1. k[m + 1] = k[m]
      BY <2>2, <2>4, <2>6, ConcatEmptySeq DEF ArkMessages, Dialogue
    <3> QED
      BY <2>2, <2>3, <2>6, <3>1, PicksSame
  <2> QED
    BY <2>5, <2>6
<1> HIDE DEF T
<1>10. n \in T
  BY <1>1, <1>8, <1>9, Induction
<1> QED
  BY <1>1, <1>6, <1>7, <1>10 DEF T, n

\* Messages that follow one another and all say something follow one another in c.
LEMMA Contiguous ==
  ASSUME NEW ms \in Dialogue, NEW c \in Dialogue, NEW g, Picks(c, ms, Len(ms), g),
         NEW a \in DOMAIN c, NEW n \in Nat,
         \A k \in 1..n : g[a] + k \in DOMAIN ms /\ SaysSomething(ms[g[a] + k])
  PROVE  \A k \in 0..n : a + k \in DOMAIN c /\ g[a + k] = g[a] + k
<1> DEFINE T == {k \in Nat : k <= n => a + k \in DOMAIN c /\ g[a + k] = g[a] + k}
<1>1. /\ DOMAIN c = 1..Len(c) /\ Len(c) \in Nat
      /\ DOMAIN ms = 1..Len(ms) /\ Len(ms) \in Nat
      /\ \A j \in DOMAIN c : g[j] \in 1..Len(ms)
  BY LenProperties DEF Dialogue, Picks
<1>2. 0 \in T
  BY <1>1
<1>3. ASSUME NEW k \in Nat, k \in T PROVE k + 1 \in T
  <2> SUFFICES ASSUME k + 1 <= n
               PROVE  a + (k + 1) \in DOMAIN c /\ g[a + (k + 1)] = g[a] + (k + 1)
    BY <1>3
  <2> DEFINE i == a + k
  <2>1. i \in DOMAIN c /\ g[i] = g[a] + k /\ k + 1 \in 1..n
    BY <1>3
  <2>2. PICK b \in DOMAIN c : g[b] = g[a] + (k + 1)
    BY <1>1, <2>1 DEF Picks
  <2>0. a \in Nat /\ b \in Nat /\ g[a] \in Nat
    BY <1>1, <2>2
  <2>3. i \in Nat /\ b \in Nat /\ g[a] \in Nat /\ g[b] = g[i] + 1 /\ i + 1 = a + (k + 1)
    BY <2>0, <2>1, <2>2
  <2> HIDE DEF i
  <2>4. ~(b <= i)
    <3>1. b # i
      BY <2>1, <2>2, <2>3
    <3>2. ~(b < i)
      BY <1>1, <2>1, <2>2, <2>3 DEF Picks
    <3> QED
      BY <2>3, <3>1, <3>2
  <2>5. ~(b > i + 1)
    <3> SUFFICES ASSUME b > i + 1 PROVE FALSE
      OBVIOUS
    <3>1. i + 1 \in DOMAIN c /\ i < i + 1 /\ i + 1 < b
      BY <1>1, <2>1, <2>3
    <3>2. g[i] < g[i + 1] /\ g[i + 1] < g[b] /\ g[i + 1] \in Nat /\ g[i] \in Nat
      BY <1>1, <2>1, <2>2, <3>1 DEF Picks
    <3> QED
      BY <2>3, <3>2
  <2>6. b = i + 1
    BY <2>3, <2>4, <2>5
  <2> QED
    BY <2>2, <2>3, <2>6
<1> HIDE DEF T
<1>4. \A k \in 0..n : k \in T
  <2>1. Nat \subseteq T
    BY <1>2, <1>3, Induction
  <2> QED
    BY <2>1
<1> QED
  BY <1>4 DEF T

LEMMA CallsOf ==
  ASSUME NEW m \in Msg
  PROVE  Len(m.calls) \in Nat /\ (Len(m.calls) > 0 => m.calls # <<>> /\ m.role = "assistant")
BY DEF Msg, Record

LEMMA ArkAnswers ==
  ASSUME NEW ms \in Dialogue, AnswersCalls(ms)
  PROVE  AnswersCalls(convertMessagesForArk(ms))
<1> DEFINE c == convertMessagesForArk(ms)
<1>1. c \in Dialogue /\ \E g : Picks(c, ms, Len(ms), g)
  BY ArkPicks
<1>2. PICK g : Picks(c, ms, Len(ms), g)
  BY <1>1
<1> HIDE DEF c
<1>3. /\ DOMAIN c = 1..Len(c) /\ Len(c) \in Nat
      /\ DOMAIN ms = 1..Len(ms) /\ Len(ms) \in Nat
      /\ \A i \in DOMAIN ms : ms[i] \in Msg
  BY <1>1, ElementOfSeq, LenProperties DEF Dialogue
<1>4. \A j \in DOMAIN c : g[j] \in DOMAIN ms /\ c[j] = ms[g[j]] /\ c[j] \in Msg
  BY <1>2, <1>3 DEF Picks
<1>5. /\ \A i \in DOMAIN ms : \A k \in 1..Len(ms[i].calls) :
            i + k \in DOMAIN ms /\ ms[i + k].role = "tool"
      /\ \A j \in DOMAIN ms : ms[j].role = "tool" =>
            \E k \in 1..(j - 1) : Len(ms[j - k].calls) >= k
  BY DEF AnswersCalls
<1>6. ASSUME NEW a \in DOMAIN c
      PROVE  \A k \in 1..Len(c[a].calls) : a + k \in DOMAIN c /\ g[a + k] = g[a] + k
  <2>1. Len(c[a].calls) \in Nat
    BY <1>4, CallsOf
  <2>2. \A k \in 1..Len(c[a].calls) : g[a] + k \in DOMAIN ms /\ SaysSomething(ms[g[a] + k])
    BY <1>4, <1>5 DEF SaysSomething
  <2>3. PICK n \in Nat : n = Len(c[a].calls)
    BY <2>1
  <2>4. c \in Dialogue /\ \A k \in 1..n : g[a] + k \in DOMAIN ms /\ SaysSomething(ms[g[a] + k])
    BY <1>1, <2>2, <2>3
  <2>5. \A k \in 0..n : a + k \in DOMAIN c /\ g[a + k] = g[a] + k
    BY <1>2, <2>4, Contiguous
  <2>6. \A k \in 1..n : k \in 0..n
    OBVIOUS
  <2> QED
    BY <2>3, <2>5, <2>6
<1>7. ASSUME NEW i \in DOMAIN c, NEW k \in 1..Len(c[i].calls)
      PROVE  i + k \in DOMAIN c /\ c[i + k].role = "tool"
  BY <1>4, <1>5, <1>6
<1>8. ASSUME NEW j \in DOMAIN c, c[j].role = "tool"
      PROVE  \E k \in 1..(j - 1) : Len(c[j - k].calls) >= k
  <2>1. PICK k \in 1..(g[j] - 1) : Len(ms[g[j] - k].calls) >= k
    BY <1>4, <1>5, <1>8
  <2> DEFINE q == g[j] - k
  <2>2. q \in DOMAIN ms /\ k \in Nat /\ k > 0 /\ q + k = g[j] /\ ms[q] \in Msg
    BY <1>3, <1>4, <2>1
  <2>3. Len(ms[q].calls) \in Nat /\ Len(ms[q].calls) > 0 /\ k \in 1..Len(ms[q].calls)
    BY <2>1, <2>2, CallsOf
  <2>4. SaysSomething(ms[q])
    BY <2>2, <2>3, CallsOf DEF SaysSomething
  <2> HIDE DEF q
  <2>5. PICK a \in DOMAIN c : g[a] = q
    BY <1>2, <1>3, <2>2, <2>4 DEF Picks
  <2>6. a + k \in DOMAIN c /\ g[a + k] = g[j] /\ c[a] = ms[q]
    BY <1>4, <1>6, <2>2, <2>3, <2>5
  <2>7. a + k = j
    <3>1. a + k \in Nat /\ j \in Nat /\ g[j] \in Nat
      BY <1>3, <1>4, <2>6
    <3>2. ~(a + k < j) /\ ~(j < a + k)
      BY <1>2, <2>6, <3>1 DEF Picks
    <3> QED
      BY <3>1, <3>2
  <2>8. a \in Nat /\ a > 0 /\ j - k = a /\ k \in 1..(j - 1)
    BY <1>3, <2>2, <2>7
  <2> QED
    BY <2>3, <2>6, <2>8
<1>9. AnswersCalls(c)
  BY <1>7, <1>8 DEF AnswersCalls
<1> QED
  BY <1>9 DEF c

-----------------------------------------------------------------------------
(* In all that was said, every call is followed by its results, but for those of the  *)
(* last message while its tools are still to run.                                     *)

\* The last message may hold calls, whose results are to come.
Waiting(c) == c # <<>> /\ AnswersCalls(Front(c)) /\ Last(c).role # "tool"

Settled == (Whole \ {"tools"}) \cup {"InputConverter", "ChatTemplate", "Human"}
AnswersInv ==
    /\ st = "running" =>
          /\ at \in Settled => AnswersCalls(said)
          /\ at \in {"tools", "tools running", "ToolsNode"} => Waiting(said)
          /\ at \in {"tools", "tools running"} \/ (at = "ToolsNode" /\ prog = "manus") =>
                input = <<Last(said)>>
    /\ st \in {"asking", "answered"} =>
          /\ prog = "manus" => AnswersCalls(said)
          /\ prog = "booking" => Waiting(said)

LEMMA NothingAsked == AnswersCalls(<<>>)
BY DEF AnswersCalls

LEMMA Appended ==
  ASSUME NEW c \in Dialogue, NEW m \in Msg
  PROVE  /\ Len(c) \in Nat /\ DOMAIN c = 1..Len(c)
         /\ DOMAIN Append(c, m) = 1..(Len(c) + 1) /\ Len(Append(c, m)) = Len(c) + 1
         /\ \A i \in 1..Len(c) : Append(c, m)[i] = c[i] /\ c[i] \in Msg
         /\ Append(c, m)[Len(c) + 1] = m
BY AppendProperties, LenProperties, ElementOfSeq DEF Dialogue

LEMMA FrontIs ==
  ASSUME NEW c \in Dialogue, NEW m \in Msg
  PROVE  Front(Append(c, m)) = c
<1> DEFINE d == Append(c, m)
<1>1. /\ Len(c) \in Nat /\ Len(d) = Len(c) + 1 /\ d \in Dialogue /\ c \in Seq(Msg)
      /\ DOMAIN c = 1..Len(c)
      /\ \A i \in 1..Len(c) : d[i] = c[i]
  BY Appended, AppendSaid DEF Dialogue
<1> HIDE DEF d
<1>2. (Len(c) + 1) - 1 = Len(c)
  BY <1>1
<1>3. Front(d) = SubSeq(d, 1, Len(c))
  BY <1>1, <1>2 DEF Front
<1>4. /\ SubSeq(d, 1, Len(c)) \in Seq(Msg)
      /\ Len(SubSeq(d, 1, Len(c))) = Len(c)
      /\ \A i \in 1..Len(c) : SubSeq(d, 1, Len(c))[i] = d[i]
  <2>1. \A i \in 1..Len(c) : d[i] \in Msg
    BY <1>1, ElementOfSeq
  <2> QED
    BY <1>1, <2>1, SubSeqProperties
<1>5. SubSeq(d, 1, Len(c)) = c
  BY <1>1, <1>4, SeqEqual
<1> QED
  BY <1>3, <1>5 DEF d

LEMMA AnswersAppend ==
  ASSUME NEW c \in Dialogue, AnswersCalls(c), NEW m \in Msg, m.role # "tool", m.calls = <<>>
  PROVE  AnswersCalls(Append(c, m))
<1> DEFINE d == Append(c, m)
           l == Len(c)
<1>1. /\ l \in Nat /\ DOMAIN c = 1..l /\ DOMAIN d = 1..(l + 1) /\ d[l + 1] = m
      /\ \A i \in 1..l : d[i] = c[i]
  BY Appended
<1> HIDE DEF d, l
<1>2. Len(m.calls) = 0
  OBVIOUS
<1>3. ASSUME NEW i \in DOMAIN d, NEW k \in 1..Len(d[i].calls)
      PROVE  i + k \in DOMAIN d /\ d[i + k].role = "tool"
  <2>1. i \in 1..l
    BY <1>1, <1>2, <1>3
  <2>2. i + k \in 1..l /\ c[i + k].role = "tool"
    BY <1>1, <1>3, <2>1 DEF AnswersCalls
  <2> QED
    BY <1>1, <2>2
<1>4. ASSUME NEW j \in DOMAIN d, d[j].role = "tool"
      PROVE  \E k \in 1..(j - 1) : Len(d[j - k].calls) >= k
  <2>1. j \in 1..l /\ c[j].role = "tool"
    BY <1>1, <1>4
  <2>2. PICK k \in 1..(j - 1) : Len(c[j - k].calls) >= k
    BY <1>1, <2>1 DEF AnswersCalls
  <2>3. j - k \in 1..l
    BY <1>1, <2>1, <2>2
  <2> QED
    BY <1>1, <2>2, <2>3
<1>5. AnswersCalls(d)
  BY <1>3, <1>4 DEF AnswersCalls
<1> QED
  BY <1>5 DEF d

LEMMA WaitingAppend ==
  ASSUME NEW c \in Dialogue, AnswersCalls(c), NEW m \in Msg, m.role # "tool"
  PROVE  Waiting(Append(c, m))
BY FrontIs, AppendSaid DEF Waiting

\* A dialogue is its front and its last message.
LEMMA Splits ==
  ASSUME NEW c \in Dialogue, c # <<>>
  PROVE  /\ Front(c) \in Dialogue /\ Last(c) \in Msg /\ Len(c) \in Nat \ {0}
         /\ Len(Front(c)) = Len(c) - 1 /\ DOMAIN Front(c) = 1..(Len(c) - 1)
         /\ \A i \in 1..(Len(c) - 1) : Front(c)[i] = c[i]
<1>1. Len(c) \in Nat \ {0} /\ c \in Seq(Msg)
  BY EmptySeq, LenProperties DEF Dialogue
<1>2. \A i \in 1..(Len(c) - 1) : c[i] \in Msg
  BY <1>1, ElementOfSeq
<1>3. /\ Front(c) \in Seq(Msg) /\ Len(Front(c)) = Len(c) - 1
      /\ \A i \in 1..(Len(c) - 1) : Front(c)[i] = c[i]
  <2>1. PICK n \in Nat : n = Len(c) - 1
    BY <1>1
  <2>2. /\ SubSeq(c, 1, n) \in Seq(Msg) /\ Len(SubSeq(c, 1, n)) = n
        /\ \A i \in 1..n : SubSeq(c, 1, n)[i] = c[i]
    BY <1>1, <1>2, <2>1, SubSeqProperties
  <2> QED
    BY <2>1, <2>2 DEF Front
<1>4. DOMAIN Front(c) = 1..(Len(c) - 1)
  BY <1>3, LenProperties
<1> QED
  BY <1>1, <1>3, <1>4, Ending DEF Dialogue

LEMMA ResultsAre ==
  ASSUME NEW m \in Msg
  PROVE  /\ Len(m.calls) \in Nat /\ Len(Results(m)) = Len(m.calls)
         /\ DOMAIN Results(m) = 1..Len(m.calls)
         /\ \A i \in 1..Len(m.calls) : Results(m)[i].role = "tool" /\ Results(m)[i].calls = <<>>
<1>1. m.calls \in Seq(CallNames)
  BY DEF Msg, Record
<1>2. DOMAIN m.calls = 1..Len(m.calls) /\ Len(m.calls) \in Nat
  BY <1>1
<1>3. Results(m) \in Dialogue
  BY ResultsType
<1>4. DOMAIN Results(m) = 1..Len(m.calls)
  BY <1>2 DEF Results
<1>5. Len(Results(m)) = Len(m.calls)
  BY <1>2, <1>3, <1>4, LenProperties DEF Dialogue
<1>6. \A i \in 1..Len(m.calls) : Results(m)[i] = Result
  BY <1>2 DEF Results
<1>7. Result.role = "tool" /\ Result.calls = <<>>
  BY DEF Result, Message
<1> QED
  BY <1>2, <1>4, <1>5, <1>6, <1>7

LEMMA ResultsAnswer ==
  ASSUME NEW c \in Dialogue, Waiting(c)
  PROVE  c \o Results(Last(c)) \in Dialogue /\ AnswersCalls(c \o Results(Last(c)))
<1> DEFINE m == Last(c)
           r == Results(m)
           d == c \o r
           f == Front(c)
           l == Len(c)
           n == Len(m.calls)
<1>1. /\ f \in Dialogue /\ m \in Msg /\ l \in Nat \ {0} /\ m = c[l] /\ m.role # "tool"
      /\ DOMAIN f = 1..(l - 1) /\ AnswersCalls(f)
      /\ \A i \in 1..(l - 1) : f[i] = c[i]
  BY Splits DEF Waiting, Last
<1>2. /\ n \in Nat /\ Len(r) = n /\ r \in Dialogue
      /\ \A i \in 1..n : r[i].role = "tool" /\ r[i].calls = <<>>
  BY <1>1, ResultsAre, ResultsType
<1>3. /\ d \in Dialogue /\ DOMAIN d = 1..(l + n)
      /\ \A i \in 1..l : d[i] = c[i]
      /\ \A i \in (l + 1)..(l + n) : d[i] = r[i - l]
  <2> HIDE DEF r, n, m, f
  <2>1. c \in Seq(Msg) /\ r \in Seq(Msg) /\ Len(r) = n
    BY <1>2 DEF Dialogue
  <2>2. /\ d \in Seq(Msg) /\ Len(d) = l + n
        /\ \A i \in 1..(l + n) : d[i] = IF i <= l THEN c[i] ELSE r[i - l]
    BY <2>1, ConcatProperties
  <2> HIDE DEF d, l
  <2>3. DOMAIN d = 1..(l + n)
    BY <2>2, LenProperties
  <2> QED
    BY <1>1, <1>2, <2>2, <2>3 DEF Dialogue
<1> HIDE DEF m, r, d, f, l, n
<1>4. /\ \A i \in 1..(l - 1) : d[i] = f[i]
      /\ d[l] = m
      /\ \A k \in 1..n : l + k \in DOMAIN d /\ d[l + k].role = "tool" /\ d[l + k].calls = <<>>
  <2>1. \A k \in 1..n : l + k \in (l + 1)..(l + n) /\ (l + k) - l = k
    BY <1>1, <1>2
  <2>2. \A i \in 1..(l - 1) : i \in 1..l
    BY <1>1
  <2>3. l \in 1..l /\ DOMAIN d = 1..(l + n)
    BY <1>1, <1>3
  <2> QED
    BY <1>1, <1>2, <1>3, <2>1, <2>2, <2>3
<1>5. \A i \in DOMAIN d : i \in 1..(l - 1) \/ i = l \/ \E k \in 1..n : i = l + k
  <2> SUFFICES ASSUME NEW i \in DOMAIN d, i \notin 1..(l - 1), i # l PROVE \E k \in 1..n : i = l + k
    OBVIOUS
  <2>1. i - l \in 1..n /\ i = l + (i - l)
    BY <1>1, <1>2, <1>3
  <2> QED
    BY <2>1
<1>6. ASSUME NEW i \in DOMAIN d, NEW k \in 1..Len(d[i].calls)
      PROVE  i + k \in DOMAIN d /\ d[i + k].role = "tool"
  <2>1. CASE i \in 1..(l - 1)
    <3>1. i + k \in 1..(l - 1) /\ f[i + k].role = "tool"
      BY <1>1, <1>4, <1>6, <2>1 DEF AnswersCalls
    <3> QED
      BY <1>1, <1>2, <1>3, <1>4, <3>1
  <2>2. CASE i = l
    BY <1>4, <1>6, <2>2 DEF n
  <2>3. CASE \E q \in 1..n : i = l + q
    <3>1. Len(d[i].calls) = 0
      BY <1>4, <2>3
    <3> QED
      BY <1>6, <3>1
  <2> QED
    BY <1>5, <2>1, <2>2, <2>3
<1>7. ASSUME NEW j \in DOMAIN d, d[j].role = "tool"
      PROVE  \E k \in 1..(j - 1) : Len(d[j - k].calls) >= k
  <2>1. CASE j \in 1..(l - 1)
    <3>1. PICK k \in 1..(j - 1) : Len(f[j - k].calls) >= k
      BY <1>1, <1>4, <1>7, <2>1 DEF AnswersCalls
    <3>2. j - k \in 1..(l - 1)
      BY <1>1, <2>1, <3>1
    <3> QED
      BY <1>4, <3>1, <3>2
  <2>2. CASE \E k \in 1..n : j = l + k
    <3>1. PICK k \in 1..n : j = l + k
      BY <2>2
    <3>2. j - k = l /\ k \in 1..(j - 1) /\ n >= k
      BY <1>1, <1>2, <3>1
    <3>3. Len(d[j - k].calls) = n
      BY <1>4, <3>2 DEF n
    <3> QED
      BY <3>2, <3>3
  <2> QED
    BY <1>1, <1>4, <1>5, <1>7, <2>1, <2>2
<1>8. AnswersCalls(d)
  BY <1>6, <1>7 DEF AnswersCalls
<1> QED
  BY <1>3, <1>8 DEF d, r, m

-----------------------------------------------------------------------------
(* The steps                                                               *)

LEMMA AnswersStart == Init => AnswersInv
<1> SUFFICES ASSUME Init PROVE AnswersInv
  OBVIOUS
<1>1. st = "running" /\ at \in {"planner", "InputConverter", "ChatTemplate"}
      /\ (said = <<>> \/ said = <<User("question")>>)
  BY DEF Init, PlanStart, ManusStart, BookingStart, Start
<1>2. AnswersCalls(<<User("question")>>)
  <2>1. User("question") \in Msg /\ User("question").role # "tool" /\ User("question").calls = <<>>
    BY UserType DEF User, Message, Contents
  <2>2. Append(<<>>, User("question")) = <<User("question")>>
    OBVIOUS
  <2> QED
    BY <2>1, <2>2, Empty, NothingAsked, AnswersAppend
<1> QED
  BY <1>1, <1>2, NothingAsked DEF AnswersInv

LEMMA AnswersSame ==
  ASSUME AnswersInv, UNCHANGED <<prog, st, at, said, input>>
  PROVE  AnswersInv'
BY DEF AnswersInv

LEMMA AnswersOver == ASSUME st' \in Ends PROVE AnswersInv'
BY DEF AnswersInv, Ends

LEMMA CallModelAnswers ==
  ASSUME ConvInv, AnswersInv, NEW agent \in Agents, CallModel(agent)
  PROVE  AnswersInv'
<1>1. PICK s \in Streams[agent] : \E m \in Answers(agent, s) :
        /\ st = "running" /\ at = agent /\ st' = st
        /\ said' = Append(said, m)
        /\ IF Broken(m, s) THEN GoesTo("broken", <<>>)
                           ELSE GoesTo(NextNode(agent, m), <<m>>)
  BY DEF CallModel, Runs
<1>2. PICK m \in Answers(agent, s) :
        /\ st = "running" /\ at = agent /\ st' = st
        /\ said' = Append(said, m)
        /\ at' = "broken" \/ (at' = NextNode(agent, m) /\ input' = <<m>>)
  BY <1>1 DEF GoesTo
<1>3. m \in Msg /\ said \in Dialogue /\ AnswersCalls(said)
  <2>1. m \in Msg
    BY <1>2, AnswersType
  <2>2. said \in Dialogue
    BY DEF ConvInv, DialogueInv
  <2>3. st \notin Ends /\ at \in Settled
    BY <1>2 DEF Settled, Whole, Agents, Ends
  <2>4. AnswersCalls(said)
    BY <1>2, <2>3 DEF AnswersInv
  <2> QED
    BY <2>1, <2>2, <2>4
<1>4. m.role = "assistant" /\ (agent # "executor" => m.calls = <<>>)
  <2>1. PICK text \in Texts(agent, s), n \in Calls(agent, s) :
          m = Message("assistant", text, [i \in 1..n |-> "call"])
    BY DEF Answers
  <2>2. m.role = "assistant" /\ m.calls = [i \in 1..n |-> "call"]
    BY <2>1 DEF Message
  <2>3. agent # "executor" => n = 0
    BY DEF Calls
  <2>4. agent # "executor" => m.calls = <<>>
    BY <2>2, <2>3
  <2> QED
    BY <2>2, <2>4
<1>5. Waiting(said') /\ Last(said') = m
  BY <1>2, <1>3, <1>4, WaitingAppend, AppendSaid
<1>6. m.calls = <<>> => AnswersCalls(said')
  BY <1>2, <1>3, <1>4, AnswersAppend
<1>7. CASE at' = "broken"
  BY <1>2, <1>7 DEF AnswersInv, Settled, Whole, Agents
<1>8. CASE at' = NextNode(agent, m) /\ input' = <<m>>
  <2>1. CASE agent = "planner"
    <3>1. at' = "planner_to_list"
      BY <1>8, <2>1 DEF NextNode
    <3> QED
      BY <1>2, <1>4, <1>6, <2>1, <3>1 DEF AnswersInv
  <2>2. CASE agent = "executor" /\ m.calls = <<>>
    <3>1. at' = "executor_to_list"
      BY <1>8, <2>2 DEF NextNode, executorPostBranchCondition
    <3> QED
      BY <1>2, <1>6, <2>2, <3>1 DEF AnswersInv
  <2>3. CASE agent = "executor" /\ m.calls # <<>>
    <3>1. at' = "tools"
      BY <1>8, <2>3 DEF NextNode, executorPostBranchCondition
    <3> QED
      BY <1>2, <1>5, <1>8, <3>1 DEF AnswersInv, Settled, Agents
  <2>4. CASE agent = "reviser"
    <3>1. at' \in {"END", "reviser_to_list"}
      BY <1>8, <2>4 DEF NextNode, reviserPostBranchCondition
    <3> QED
      BY <1>2, <1>4, <1>6, <2>4, <3>1 DEF AnswersInv
  <2> QED
    BY <2>1, <2>2, <2>3, <2>4 DEF Agents
<1> QED
  BY <1>2, <1>7, <1>8

LEMMA GraphStepAnswers ==
  ASSUME ConvInv, AnswersInv, GraphStep
  PROVE  AnswersInv'
<1>1. ASSUME NEW agent \in Agents, CallModel(agent) PROVE AnswersInv'
  BY <1>1, CallModelAnswers
<1>2. CASE ToList
  <2>1. /\ st = "running" /\ at \in DOMAIN AfterList /\ at' \in {"executor", "reviser"}
        /\ UNCHANGED <<st, said>>
    BY <1>2 DEF ToList, Runs, GoesTo, AfterList
  <2>2. AnswersCalls(said)
    BY <2>1 DEF AnswersInv, Settled, Whole, AfterList
  <2> QED
    BY <2>1, <2>2 DEF AnswersInv
<1>3. CASE StartTools
  <2>1. /\ st = "running" /\ at = "tools" /\ at' = "tools running"
        /\ UNCHANGED <<st, said, input>>
    BY <1>3 DEF StartTools, Runs, GoesTo
  <2> QED
    BY <2>1 DEF AnswersInv, Settled, Whole, Agents
<1>4. CASE ToolsDone
  <2>1. /\ st = "running" /\ at = "tools running" /\ at' = "executor" /\ st' = st
        /\ said' = said \o Results(input[1])
    BY <1>4 DEF ToolsDone, GoesTo
  <2>2. Waiting(said) /\ input = <<Last(said)>> /\ said \in Dialogue
    BY <2>1 DEF AnswersInv, ConvInv, DialogueInv
  <2>3. AnswersCalls(said')
    BY <2>1, <2>2, ResultsAnswer
  <2> QED
    BY <2>1, <2>3 DEF AnswersInv
<1>5. CASE StreamReturns
  BY <1>5, AnswersOver DEF StreamReturns, Over, Ends
<1> QED
  BY <1>1, <1>2, <1>3, <1>4, <1>5 DEF GraphStep

LEMMA PlanStepAnswers ==
  ASSUME ConvInv, AnswersInv, PlanStep
  PROVE  AnswersInv'
<1>1. CASE GraphStep
  BY <1>1, GraphStepAnswers
<1>2. CASE Banner \/ StartReader \/ printStream
  BY <1>2, AnswersSame DEF Banner, StartReader, printStream, graphVars
<1>3. CASE Exit
  BY <1>3, AnswersOver DEF Exit, Ends
<1>4. ASSUME NEW r \in Readers, ReaderStep(r) PROVE AnswersInv'
  <2>1. UNCHANGED graphVars \/ Dies("failed") \/ Dies("crashed")
    BY <1>4 DEF ReaderStep, Recv, Done, Takes, Mark, Lock, Write, SendChunk, readerRest
  <2> QED
    BY <2>1, AnswersSame, AnswersOver DEF Dies, Over, Ends, graphVars
<1>5. ASSUME NEW i \in DOMAIN tool, ToolStep(i) PROVE AnswersInv'
  BY <1>5, AnswersSame DEF ToolStep, graphVars
<1> QED
  BY <1>1, <1>2, <1>3, <1>4, <1>5 DEF PlanStep

\* What is neither a call nor a tool's leaves the dialogue as it is.
LEMMA UserSays ==
  ASSUME NEW t \in Contents
  PROVE  User(t) \in Msg /\ User(t).role = "user" /\ User(t).calls = <<>>
BY UserType DEF User, Message

LEMMA FirstNodeAnswers ==
  ASSUME ConvInv, AnswersInv, FirstNode
  PROVE  AnswersInv'
<1> DEFINE sys == Message("system", "prompt", <<>>)
           usr == User("question")
<1>1. /\ st = "running" /\ at \in {"InputConverter", "ChatTemplate"} /\ at' = "ChatModel"
      /\ st' = st /\ said' = said \o <<sys, usr>>
  BY DEF FirstNode, Runs, GoesTo, Prompt
<1>2. said \in Dialogue /\ AnswersCalls(said)
  BY <1>1 DEF ConvInv, DialogueInv, AnswersInv, Settled
<1>3. sys \in Msg /\ sys.role = "system" /\ sys.calls = <<>>
  <2>1. sys \in Msg
    BY MessageType, NoCalls DEF Roles, Contents
  <2> QED
    BY <2>1 DEF Message
<1>4. usr \in Msg /\ usr.role = "user" /\ usr.calls = <<>>
  BY UserSays DEF Contents
<1> HIDE DEF sys, usr
<1>5. Append(said, sys) \in Dialogue /\ AnswersCalls(Append(said, sys))
  BY <1>2, <1>3, AnswersAppend, AppendSaid
<1>6. AnswersCalls(Append(Append(said, sys), usr))
  BY <1>4, <1>5, AnswersAppend
<1>7. said \o <<sys, usr>> = Append(Append(said, sys), usr)
  BY <1>2, <1>3, <1>4 DEF Dialogue
<1> QED
  BY <1>1, <1>6, <1>7 DEF AnswersInv

LEMMA ChatModelAnswers ==
  ASSUME ConvInv, AnswersInv, ChatModel
  PROVE  AnswersInv'
<1>1. PICK calls \in CallSets :
        LET m == Message("assistant", "text", calls) IN
        /\ st = "running" /\ at = "ChatModel"
        /\ said' = Append(said, m)
        /\ ArrivesAt(AfterModel(m), <<m>>)
        /\ prog' = prog
  BY DEF ChatModel, Runs
<1> DEFINE m == Message("assistant", "text", calls)
<1>2. m \in Msg /\ m.role = "assistant"
  <2>1. m \in Msg
    BY CallSetsType, MessageType DEF Roles, Contents
  <2> QED
    BY <2>1 DEF Message
<1> HIDE DEF m
<1>3. /\ st = "running" /\ at = "ChatModel" /\ said' = Append(said, m) /\ prog' = prog
      /\ at' = AfterModel(m) /\ input' = <<m>>
      /\ st' = IF AfterModel(m) = InterruptBefore[prog] THEN "asking" ELSE st
  BY <1>1 DEF m, ArrivesAt, GoesTo
<1>4. said \in Dialogue /\ AnswersCalls(said) /\ prog \in {"manus", "booking"}
  BY <1>3 DEF ConvInv, DialogueInv, RunningInv, AnswersInv, Settled, Whole
<1>5. Waiting(said') /\ Last(said') = m
  BY <1>2, <1>3, <1>4, WaitingAppend, AppendSaid
<1>6. CASE m.calls # <<>>
  <2>1. at' = "ToolsNode" /\ (st' = "asking" => prog = "booking") /\ st' \in {"running", "asking"}
    BY <1>3, <1>4, <1>6 DEF AfterModel, InterruptBefore
  <2> QED
    BY <1>3, <1>5, <2>1 DEF AnswersInv, Settled, Whole, Agents
<1>7. CASE m.calls = <<>>
  <2>1. /\ st' \in {"running", "asking"} /\ at' \in {"Human", "END"}
        /\ st' = "asking" => prog = "manus"
    BY <1>3, <1>4, <1>7 DEF AfterModel, InterruptBefore
  <2>2. AnswersCalls(said')
    BY <1>2, <1>3, <1>4, <1>7, AnswersAppend
  <2> QED
    BY <1>3, <2>1, <2>2 DEF AnswersInv
<1> QED
  BY <1>6, <1>7

LEMMA ManusToolsAnswers ==
  ASSUME ConvInv, AnswersInv, ManusTools
  PROVE  AnswersInv'
<1> DEFINE p == NextPrompt(msgs)
           res == Results(input[1])
<1>1. /\ st = "running" /\ at = "ToolsNode" /\ prog = "manus" /\ at' = "ChatModel" /\ st' = st
      /\ said' = said \o Append(res, p)
  BY DEF ManusTools, Runs, GoesTo
<1>2. Waiting(said) /\ input = <<Last(said)>> /\ said \in Dialogue
  BY <1>1 DEF AnswersInv, ConvInv, DialogueInv
<1>3. said \o res \in Dialogue /\ AnswersCalls(said \o res)
  BY <1>2, ResultsAnswer
<1>4. p \in Msg /\ p.role = "user" /\ p.calls = <<>>
  BY UserSays DEF NextPrompt, Contents
<1>5. res \in Dialogue
  BY <1>2, Splits, ResultsType DEF Waiting
<1> HIDE DEF p, res
<1>6. said \o Append(res, p) = Append(said \o res, p)
  BY <1>2, <1>4, <1>5 DEF Dialogue
<1>7. AnswersCalls(said')
  BY <1>1, <1>3, <1>4, <1>6, AnswersAppend
<1> QED
  BY <1>1, <1>7 DEF AnswersInv

LEMMA BookingToolsAnswers ==
  ASSUME ConvInv, AnswersInv, BookingTools
  PROVE  AnswersInv'
<1>1. /\ st = "running" /\ at = "ToolsNode" /\ at' = "ChatModel" /\ st' = st
      /\ said' = said \o Results(Last(msgs))
  BY DEF BookingTools, Runs, GoesTo, ToolsInput
<1>2. Waiting(said) /\ msgs = said /\ said \in Dialogue
  BY <1>1 DEF AnswersInv, ConvInv, DialogueInv, RunningInv
<1>3. AnswersCalls(said')
  BY <1>1, <1>2, ResultsAnswer
<1> QED
  BY <1>1, <1>3 DEF AnswersInv

LEMMA ManusAsksAnswers ==
  ASSUME ConvInv, AnswersInv, ManusAsks
  PROVE  AnswersInv'
<1>1. PICK query \in Queries :
        /\ prog = "manus" /\ st = "asking" /\ st' = "answered" /\ prog' = prog
        /\ said' = IF query = "" THEN said ELSE Append(said, User(query))
  BY DEF ManusAsks, Queries
<1>2. said \in Dialogue /\ AnswersCalls(said)
  BY <1>1 DEF ConvInv, DialogueInv, AnswersInv
<1>3. User(query) \in Msg /\ User(query).role = "user" /\ User(query).calls = <<>>
  BY UserSays DEF Contents
<1>4. AnswersCalls(said')
  BY <1>1, <1>2, <1>3, AnswersAppend
<1> QED
  BY <1>1, <1>4 DEF AnswersInv

LEMMA BookingAsksAnswers ==
  ASSUME ConvInv, AnswersInv, BookingAsks
  PROVE  AnswersInv'
<1>1. PICK E \in SUBSET DOMAIN Last(ckpt.msgs).calls :
        /\ prog = "booking" /\ st = "asking" /\ st' = "answered" /\ prog' = prog
        /\ said' = WithLast(said, Edited(Last(ckpt.msgs), E))
  BY DEF BookingAsks
<1> DEFINE m == Edited(Last(said), E)
<1>2. said \in Dialogue /\ Waiting(said) /\ ckpt.msgs = said
  BY <1>1 DEF ConvInv, DialogueInv, AskingInv, AnswersInv
<1>3. Last(said) \in Msg /\ Front(said) \in Dialogue /\ AnswersCalls(Front(said))
      /\ Last(said).role # "tool"
  BY <1>2, Splits DEF Waiting
<1>4. m \in Msg
  BY <1>3, EditedType
<1>5. m.role = Last(said).role
  BY <1>3 DEF Edited, Msg, Record
<1>6. said' = Append(Front(said), m)
  BY <1>1, <1>2 DEF WithLast
<1> HIDE DEF m
<1>7. Waiting(said')
  BY <1>3, <1>4, <1>5, <1>6, WaitingAppend
<1> QED
  BY <1>1, <1>7 DEF AnswersInv

LEMMA ConsoleStepAnswers ==
  ASSUME ConvInv, AnswersInv, ConsoleStep \/ Asked
  PROVE  AnswersInv'
<1>1. CASE Human
  <2>1. /\ st = "running" /\ at = "Human" /\ at' \in {"ChatModel", "OutputConverter"}
        /\ UNCHANGED <<st, said>>
    BY <1>1 DEF Human, Runs, GoesTo
  <2>2. AnswersCalls(said)
    BY <2>1 DEF AnswersInv, Settled
  <2> QED
    BY <2>1, <2>2 DEF AnswersInv
<1>2. CASE OutputConverter \/ BookingEnds
  BY <1>2, AnswersOver DEF OutputConverter, BookingEnds, Ends
<1>3. CASE Resume
  <2>1. st = "answered" /\ st' = "running" /\ at' = ckpt.at /\ UNCHANGED <<prog, said>>
    BY <1>3 DEF Resume, GoesTo
  <2>2. prog \in {"manus", "booking"} /\ at' = (IF prog = "manus" THEN "Human" ELSE "ToolsNode")
    BY <2>1 DEF ConvInv, AnsweredInv
  <2> QED
    BY <2>1, <2>2 DEF AnswersInv, Settled, Whole, Agents
<1> QED
  BY <1>1, <1>2, <1>3, FirstNodeAnswers, ChatModelAnswers, ManusToolsAnswers, BookingToolsAnswers,
     ManusAsksAnswers, BookingAsksAnswers DEF ConsoleStep, Asked

LEMMA AnswersStep == ConvInv /\ AnswersInv /\ [Next]_vars => AnswersInv'
<1> SUFFICES ASSUME ConvInv, AnswersInv, [Next]_vars PROVE AnswersInv'
  OBVIOUS
<1>1. CASE GraphFails
  BY <1>1, AnswersOver DEF GraphFails, OutOfSteps, NodeFails, Over, Ends
<1>2. CASE UNCHANGED vars
  BY <1>2, AnswersSame DEF vars, graphVars
<1> QED
  BY <1>1, <1>2, PlanStepAnswers, ConsoleStepAnswers DEF Next

LEMMA Accepted == ConvInv /\ AnswersInv => ContextIsAccepted
<1> SUFFICES ASSUME ConvInv, AnswersInv, st = "running", at \in Agents \/ at = "ChatModel"
             PROVE  /\ at \in Agents => AnswersCalls(ContextOf(at))
                    /\ at \in {"planner", "reviser"} =>
                         \A m \in ToSet(ContextOf(at)) : m.role # "tool" /\ m.calls = <<>>
                    /\ at = "ChatModel" => AnswersCalls(BeforeModel)
  BY DEF ContextIsAccepted, Agents
<1>1. said \in Dialogue /\ AnswersCalls(said) /\ msgs \o input = said
  BY DEF ConvInv, DialogueInv, RunningInv, AnswersInv, Settled, Whole, Agents
<1>2. CASE at = "ChatModel"
  BY <1>1, <1>2 DEF BeforeModel, Agents
<1>3. CASE at = "executor"
  <2>1. ContextOf(at) = convertMessagesForArk(said)
    BY <1>1, <1>3 DEF ContextOf, modelPreHandle
  <2> QED
    BY <1>1, <1>3, <2>1, ArkAnswers
<1>4. CASE at \in {"planner", "reviser"}
  <2>1. ContextOf(at) = convertMessagesForDeepSeek(said)
    BY <1>1, <1>4 DEF ContextOf, modelPreHandle
  <2>2. /\ AnswersCalls(ContextOf(at))
        /\ \A m \in ToSet(ContextOf(at)) : m.role # "tool" /\ m.calls = <<>>
    BY <1>1, <2>1, DeepSeekPlain, PlainAccepted
  <2> QED
    BY <1>4, <2>2
<1> QED
  BY <1>2, <1>3, <1>4 DEF Agents

\* What a model is sent is a conversation its provider takes, for all streams, calls, bounds
\* and programs: the executor and the console agents' models see every call answered at once,
\* though what says nothing is left out, and the DeepSeek models see neither calls nor
\* results (compose.go:254-298).
THEOREM ContextsAreAccepted == Spec => []ContextIsAccepted
<1>1. Init => ConvInv /\ AnswersInv
  BY Started, AnswersStart
<1>2. ConvInv /\ AnswersInv /\ [Next]_vars => (ConvInv /\ AnswersInv)'
  BY ConvStep, AnswersStep
<1> QED
  BY <1>1, <1>2, Accepted, PTL DEF Spec
=============================================================================
