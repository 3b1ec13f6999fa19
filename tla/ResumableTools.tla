--------------------------- MODULE ResumableTools ---------------------------
(***************************************************************************)
(* adk/common/tool: tools that interrupt the run of an agent to ask the     *)
(* user, and go on when the run is resumed: InvokableApprovableTool (and    *)
(* the approval middleware of chatwitheino), InvokableReviewEditTool,       *)
(* FollowUp, and the graph tool, whose inner graph may interrupt too.       *)
(*                                                                         *)
(* One run: a model that answers with tool calls until it has no more, the  *)
(* calls of an answer side by side, and a user who is asked about one       *)
(* interrupt at a time.  A resume executes every call of the answer that    *)
(* has not returned, whichever the user's decision was about.               *)
(***************************************************************************)
EXTENDS Naturals, Sequences

CONSTANTS Calls,    \* the tool calls the model may make
          Kind,     \* what each of them calls
          Args,     \* arguments
          Risky,    \* those the inner graph asks about (a transfer above 1000)
          Zero,     \* the zero value of an arguments string
          None,
          Counting  \* does the client type a decision by counting the interrupts?

Kinds == {"approval", "review", "followup", "graph", "approvable graph"}

ASSUME ToolsAssumption ==
    /\ Kind \in [Calls -> Kinds]
    /\ Risky \subseteq Args
    /\ Zero \notin Args
    /\ Counting \in BOOLEAN

VARIABLES
    phase,   \* of the run: "model", "tools", "interrupted", "done", "failed"
    call,    \* each call: where it is, its arguments, its interrupt's state and info
    target,  \* the call the resume is aimed at, with the decision, or None
    count,   \* interruptCount of the client: none, the first, a later one
    did,     \* history: what each call has executed, with which arguments
    said     \* history: the user's decisions on each call

vars == <<phase, call, target, count, did, said>>

Text == Args \cup {Zero}
\* The state an interrupt carries: the wrapper's arguments, or graphToolInterruptState
\* with the inner graph's checkpoint.
NoState == [by |-> "nobody", args |-> Zero]
InterruptState == [by : {"nobody", "wrapper", "graph"}, args : Text]
\* What the user is shown: a question about the call, or the inner graph's.
Info == [layer : {"call", "risk"}, args : Text]
Call == [st : {"unasked", "todo", "asking", "returned", "failed"},
         args : Text, state : InterruptState, info : Info \cup {None}]
Verdicts == {"yes", "no", "edit"}
Decision == [call : Calls, layer : {"call", "risk"}, verdict : Verdicts, args : Text]

ASSUME NoneAssumption == None \notin Decision

Fresh(st, a) == [st |-> st, args |-> a, state |-> NoState, info |-> None]

Init ==
    /\ phase = "model"
    /\ call = [c \in Calls |-> Fresh("unasked", Zero)]
    /\ target = None
    /\ count = 0
    /\ did = [c \in Calls |-> <<>>]
    /\ said = [c \in Calls |-> {}]

-----------------------------------------------------------------------------
(* The agent's loop around the tools                                       *)

\* The model answers with calls, or with text, which ends the run.
ModelAnswers ==
    /\ phase = "model"
    /\ \/ \E S \in SUBSET {c \in Calls : call[c].st = "unasked"} :
            /\ S # {}
            /\ \E a \in [S -> Args] :
                 call' = [c \in Calls |-> IF c \in S THEN Fresh("todo", a[c]) ELSE call[c]]
            /\ phase' = "tools"
       \/ /\ phase' = "done"
          /\ UNCHANGED call
    /\ UNCHANGED <<target, count, did, said>>

In(st) == {c \in Calls : call[c].st = st}

\* The calls of the answer have been executed: an error ends the run, an interrupt
\* saves its checkpoint, and the model is given the results otherwise.
ToolsEnd ==
    /\ phase = "tools"
    /\ In("todo") = {}
    /\ phase' = IF In("failed") # {} THEN "failed"
                ELSE IF In("asking") # {} THEN "interrupted" ELSE "model"
    /\ count' = IF phase' = "interrupted" /\ count < 2 THEN count + 1 ELSE count
    /\ target' = None
    /\ UNCHANGED <<call, did, said>>

\* What the client makes of the user's input.  The nested-interrupt example counts the
\* interrupts; the other clients send the one type of decision that their tools ask for.
Verdict(c) ==
    IF call[c].info.layer = "call" /\ Kind[c] = "review" THEN Verdicts ELSE {"yes", "no"}
TypedByInfo(c) == call[c].info.layer
TypedByCount(c) == IF count = 1 THEN "call" ELSE "risk"
DecisionLayer(c) == IF Counting THEN TypedByCount(c) ELSE TypedByInfo(c)

\* ResumeWithParams with one target.
UserDecides ==
    /\ phase = "interrupted"
    /\ \E c \in In("asking") : \E v \in Verdict(c), a \in Args :
        /\ target' = [call |-> c, layer |-> DecisionLayer(c), verdict |-> v,
                      args |-> IF v = "edit" THEN a ELSE call[c].info.args]
        /\ said' = [said EXCEPT ![c] = @ \cup {[call |-> c, layer |-> call[c].info.layer,
                                                 verdict |-> v, args |-> target'.args]}]
    /\ call' = [c \in Calls |-> IF call[c].st = "asking" THEN [call[c] EXCEPT !.st = "todo"]
                                ELSE call[c]]
    /\ phase' = "tools"
    /\ UNCHANGED <<count, did>>

-----------------------------------------------------------------------------
(* The tools                                                               *)

\* StatefulInterrupt and CompositeInterrupt
Asking(r, layer, a, by) ==
    [st |-> "asking", args |-> r.args, state |-> [by |-> by, args |-> a],
     info |-> [layer |-> layer, args |-> a]]
Asks(c, layer, a, by) ==
    call' = [call EXCEPT ![c] = Asking(@, layer, a, by)] /\ UNCHANGED did

Returns(c) == call' = [call EXCEPT ![c].st = "returned"] /\ UNCHANGED did
Fails(c) == call' = [call EXCEPT ![c].st = "failed"] /\ UNCHANGED did
Executes(c, what, a) ==
    /\ did' = [did EXCEPT ![c] = Append(@, <<what, a>>)]
    /\ \E st \in {"returned", "failed"} : call' = [call EXCEPT ![c].st = st]

WasInterrupted(c) == call[c].state.by # "nobody"
StoredNothing(c) == Zero
\* GetInterruptState[string]: the state of an interrupt of the graph is no string, and
\* the stored arguments are then the zero value.
StoredArgs(c) == IF call[c].state.by = "wrapper" THEN call[c].state.args ELSE Zero
NeverTarget(c) == FALSE
IsTarget(c) == target # None /\ target.call = c
HasData(c, layer) == IsTarget(c) /\ target.layer = layer

GraphForgets(c, a) == [resumed |-> FALSE, input |-> a]
\* graphToolInterruptState
GraphState(c, a) ==
    IF call[c].state.by = "graph" THEN [resumed |-> TRUE, input |-> call[c].state.args]
    ELSE [resumed |-> FALSE, input |-> a]

\* The inner graph starts: it validates the input, and asks or executes.
GraphStarts(c, a) ==
    \/ a = Zero /\ Fails(c)                 \* it cannot be decoded
    \/ /\ a \in Risky
       /\ call' = [call EXCEPT ![c] = Asking(@, "risk", a, "graph")]
       /\ did' = [did EXCEPT ![c] = Append(@, <<"validate", a>>)]
    \/ /\ a \in Args \ Risky
       /\ did' = [did EXCEPT ![c] = @ \o <<<<"validate", a>>, <<"execute", a>>>>]
       /\ \E st \in {"returned", "failed"} : call' = [call EXCEPT ![c].st = st]

\* It goes on from its own checkpoint, at the node that has interrupted.
GraphResumes(c, a) ==
    \/ ~IsTarget(c) /\ Asks(c, "risk", a, "graph")
    \/ HasData(c, "call") /\ Fails(c)
    \/ HasData(c, "risk") /\ target.verdict = "yes" /\ Executes(c, "execute", a)
    \/ HasData(c, "risk") /\ target.verdict # "yes" /\ Returns(c)

Graph(c, a) ==
    LET s == GraphState(c, a)
    IN  IF s.resumed THEN GraphResumes(c, s.input) ELSE GraphStarts(c, s.input)

\* The tool that a wrapper holds.
Inner(c, a) ==
    IF Kind[c] = "approvable graph" THEN Graph(c, a) ELSE Executes(c, "run", a)

ApprovedWhenTarget(c) == IsTarget(c)
Approved(c) == HasData(c, "call") /\ target.verdict = "yes"
\* The target is an interrupt within the tool, or its data is of another type.
TargetWithoutData(c) == IsTarget(c) /\ ~HasData(c, "call")

\* InvokableApprovableTool.InvokableRun
Approval(c) ==
    /\ Kind[c] \in {"approval", "approvable graph"}
    /\ \/ ~WasInterrupted(c) /\ Asks(c, "call", call[c].args, "wrapper")
       \/ WasInterrupted(c) /\ Approved(c) /\ Inner(c, StoredArgs(c))
       \/ WasInterrupted(c) /\ HasData(c, "call") /\ ~Approved(c) /\ Returns(c)
       \/ WasInterrupted(c) /\ ~IsTarget(c) /\ Asks(c, "call", StoredArgs(c), "wrapper")
       \/ WasInterrupted(c) /\ TargetWithoutData(c) /\ Inner(c, StoredArgs(c))

\* The arguments as the user has left them.
Reviewed(c) == IF target.verdict = "edit" THEN target.args ELSE StoredArgs(c)

\* InvokableReviewEditTool.InvokableRun
Review(c) ==
    /\ Kind[c] = "review"
    /\ \/ ~WasInterrupted(c) /\ Asks(c, "call", call[c].args, "wrapper")
       \/ WasInterrupted(c) /\ ~IsTarget(c) /\ Asks(c, "call", StoredArgs(c), "wrapper")
       \/ TargetWithoutData(c) /\ Fails(c)
       \/ HasData(c, "call") /\ target.verdict = "no" /\ Returns(c)
       \/ HasData(c, "call") /\ target.verdict # "no" /\ Inner(c, Reviewed(c))

\* FollowUp: "no" is an empty answer.
FollowUp(c) ==
    /\ Kind[c] = "followup"
    /\ \/ ~WasInterrupted(c) /\ Asks(c, "call", call[c].args, "wrapper")
       \/ WasInterrupted(c) /\ ~IsTarget(c) /\ Asks(c, "call", StoredArgs(c), "wrapper")
       \/ IsTarget(c) /\ (~HasData(c, "call") \/ target.verdict = "no") /\ Fails(c)
       \/ HasData(c, "call") /\ target.verdict = "yes" /\ Returns(c)

GraphTool(c) == Kind[c] = "graph" /\ Graph(c, call[c].args)

Work(c) ==
    /\ phase = "tools"
    /\ call[c].st = "todo"
    /\ Approval(c) \/ Review(c) \/ FollowUp(c) \/ GraphTool(c)
    /\ UNCHANGED <<phase, target, count, said>>

AgentStep == ModelAnswers \/ ToolsEnd \/ \E c \in Calls : Work(c)
Next == AgentStep \/ UserDecides

Spec == Init /\ [][Next]_vars

\* The run goes on, and the user answers what he is asked.
FairSpec == Spec /\ WF_vars(AgentStep) /\ WF_vars(UserDecides)

-----------------------------------------------------------------------------
(* Properties                                                              *)

\* Types of the state.
TypeOK ==
    /\ phase \in {"model", "tools", "interrupted", "done", "failed"}
    /\ call \in [Calls -> Call]
    /\ target \in Decision \cup {None}
    /\ count \in 0..2
    /\ did \in [Calls -> Seq({"run", "validate", "execute"} \X Text)]
    /\ said \in [Calls -> SUBSET Decision]

Agreed(c, layer) == {d.args : d \in {e \in said[c] : e.layer = layer /\ e.verdict # "no"}}
Executed(c) == {did[c][i] : i \in DOMAIN did[c]}

\* Nothing is executed that the user has not agreed to, with the arguments he was
\* shown or has put in their place: the tool behind a wrapper, and the inner graph's
\* transfer of a risky amount.  And whatever is executed has the arguments of the
\* call as the model made it, or the user's.
RunsAsAgreed ==
    \A c \in Calls :
        /\ Kind[c] # "graph" =>
             \A x \in Executed(c) : x[2] \in Agreed(c, "call")
        /\ \A x \in Executed(c) : x[1] = "execute" /\ x[2] \in Risky => x[2] \in Agreed(c, "risk")
        /\ \A x \in Executed(c) :
             x[2] = call[c].args \/ \E d \in said[c] : d.verdict = "edit" /\ d.args = x[2]

\* No step of a call is executed twice, though every resume executes the call again:
\* what lies before an inner interrupt is kept by the nested checkpoint.
StepsOnce ==
    \A c \in Calls : \A i, j \in DOMAIN did[c] : did[c][i][1] = did[c][j][1] => i = j

\* The wrapper of this call takes the state of its inner graph's interrupt for its own.
GraphForgotten(c) == Kind[c] = "approvable graph" /\ call[c].state.by = "graph"

\* approval_wrapper.go:63-90.  A resume that is aimed at another call executes nothing
\* of an interrupted one, and asks its question again, with the state it has stored.
\* There is one exception, against graphtool/README.md:130-135: an approvable tool
\* whose inner graph has asked asks for the approval it already has, of no arguments,
\* and the graph's checkpoint is lost.
QuestionsStay ==
    [][\A c \in Calls :
        (WasInterrupted(c) /\ ~IsTarget(c) /\ call[c].st = "todo" /\ call'[c].st # "todo")
            => /\ did'[c] = did[c]
               /\ \/ call'[c] = [call[c] EXCEPT !.st = "asking"]
                  \/ GraphForgotten(c) /\ call'[c] = Asking(call[c], "call", Zero, "wrapper")]_vars

\* A user who answers comes to the end of the run.
RunEnds == <>(phase \in {"done", "failed"})
=============================================================================
