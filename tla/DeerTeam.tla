------------------------------ MODULE DeerTeam ------------------------------
(***************************************************************************)
(* flow/agent/deer-go: a team of agents that hand over to each other by a   *)
(* shared state (model.State), whose Goto the branch behind every node      *)
(* follows.  A planner makes a plan, the user accepts or edits it, a        *)
(* researcher and a coder work on its steps, and a reporter writes the      *)
(* report.  On the server the human node interrupts: the state is kept as   *)
(* the thread's checkpoint, and the thread's next request resumes it.       *)
(*                                                                         *)
(* Requests of one thread, which may overlap, and console runs, which       *)
(* accept every plan and keep no checkpoint.  What a model answers is any   *)
(* of Answers; messages are named by the request that brought them.         *)
(***************************************************************************)
EXTENDS Naturals, Sequences

CONSTANTS Requests,    \* of one thread of the server
          Consoles,    \* console runs
          Answers,     \* what the planner's model may answer
          MaxPlanIterations,
          None,
          MaxRestarts  \* bound on the restarts of the server

Runs == Requests \cup Consoles
Feedbacks == {"", "accepted", "edit_plan"}

Step == [type : {"research", "processing", "other"},
         res : {"none", "model", "researcher", "coder"}]
Plan == [enough : BOOLEAN, steps : Seq(Step)]
\* No agent has worked on the plan.
Untouched(p) == \A i \in DOMAIN p.steps : p.steps[i].res \in {"none", "model"}

Working == {"coordinator", "background_investigator", "planner", "human_feedback",
            "research_team", "researcher", "coder", "reporter"}
Over == {"END", "interrupted", "failed", "panicked", "lost"}

ASSUME DeerAssumption ==
    /\ Requests \cap Consoles = {}
    /\ Answers \subseteq [parsed : BOOLEAN, plan : Plan]
    /\ \A a \in Answers : Untouched(a.plan)
    /\ MaxPlanIterations \in Nat
    /\ MaxRestarts \in Nat

VARIABLES
    restarts,
    node,        \* where each run is: State.Goto, or how it ended
    state,       \* model.State of each run
    checkpoint,  \* the thread's state at its last interrupt, or None
    from,        \* history: the node each run was at before
    begun        \* history: the plans each run has begun to work on

vars == <<restarts, node, state, checkpoint, from, begun>>

EmptyPlan == [enough |-> FALSE, steps |-> <<>>]

State == [plan : Plan, iterations : Nat, feedback : Feedbacks, messages : Seq(Runs)]

\* genFunc
NewState(r) == [plan |-> EmptyPlan, iterations |-> 0, feedback |-> "", messages |-> <<r>>]

Init ==
    /\ restarts = 0
    /\ node = [r \in Runs |-> "idle"]
    /\ state = [r \in Runs |-> NewState(r)]
    /\ checkpoint = None
    /\ from = [r \in Runs |-> "idle"]
    /\ begun = [r \in Runs |-> 0]

\* agentHandOff
HandOff(r, to) ==
    /\ node' = [node EXCEPT ![r] = to]
    /\ from' = [from EXCEPT ![r] = node[r]]

-----------------------------------------------------------------------------
(* A request                                                               *)

\* The state modifier of a resume.
Modified(s, r, feedback) ==
    [s EXCEPT !.feedback = feedback,
              !.messages = IF feedback = "edit_plan" THEN Append(@, r) ELSE @]

\* ChatStreamEino: a thread with a checkpoint is resumed at the human node, any other
\* one starts anew, whatever its feedback.
Arrive(r) ==
    /\ node[r] = "idle"
    /\ \/ /\ checkpoint # None
          /\ \E f \in Feedbacks : state' = [state EXCEPT ![r] = Modified(checkpoint, r, f)]
          /\ HandOff(r, "human_feedback")
       \/ /\ checkpoint = None
          /\ HandOff(r, "coordinator")
          /\ UNCHANGED state
    /\ UNCHANGED <<restarts, checkpoint, begun>>

\* runConsole
StartConsole(r) ==
    /\ node[r] = "idle"
    /\ HandOff(r, "coordinator")
    /\ UNCHANGED <<restarts, state, checkpoint, begun>>

-----------------------------------------------------------------------------
(* The agents                                                              *)

\* A request may ask for a background investigation; a model that does not hand over
\* ends the run.
Coordinator(r) ==
    /\ node[r] = "coordinator"
    /\ \E to \in {"background_investigator", "planner", "END"} : HandOff(r, to)
    /\ UNCHANGED <<restarts, state, checkpoint, begun>>

\* Without a search tool the call is one of a nil tool.
Investigator(r) ==
    /\ node[r] = "background_investigator"
    /\ \E to \in {"planner", "panicked"} : HandOff(r, to)
    /\ UNCHANGED <<restarts, state, checkpoint, begun>>

\* An answer that cannot be parsed may have filled a part of the plan.
Planned(s, a) ==
    [s EXCEPT !.plan = a.plan,
              !.iterations = IF a.parsed THEN @ + 1 ELSE @]

Planner(r) ==
    /\ node[r] = "planner"
    /\ \E a \in Answers :
        /\ state' = [state EXCEPT ![r] = Planned(@, a)]
        /\ \/ /\ ~a.parsed
              /\ HandOff(r, IF state[r].iterations > 0 THEN "reporter" ELSE "END")
           \/ /\ a.parsed
              /\ HandOff(r, IF a.plan.enough THEN "reporter" ELSE "human_feedback")
    /\ UNCHANGED <<restarts, checkpoint, begun>>

FeedbackKept(s) == s
\* routerHuman's deferred reset
FeedbackTaken(s) == [s EXCEPT !.feedback = ""]

Accepts(r) ==
    /\ r \in Requests => state[r].feedback = "accepted"
    /\ HandOff(r, "research_team")
    /\ begun' = [begun EXCEPT ![r] = @ + 1]
    /\ UNCHANGED checkpoint

Edits(r) ==
    /\ r \in Requests
    /\ state[r].feedback = "edit_plan"
    /\ HandOff(r, "planner")
    /\ UNCHANGED <<checkpoint, begun>>

\* InterruptAndRerun: the state is the thread's checkpoint.
Interrupts(r) ==
    /\ r \in Requests
    /\ state[r].feedback \notin {"accepted", "edit_plan"}
    /\ HandOff(r, "interrupted")
    /\ checkpoint' = state'[r]
    /\ UNCHANGED begun

Human(r) ==
    /\ node[r] = "human_feedback"
    /\ state' = [state EXCEPT ![r] = FeedbackTaken(@)]
    /\ Accepts(r) \/ Edits(r) \/ Interrupts(r)
    /\ UNCHANGED restarts

Undone(p) == {i \in DOMAIN p.steps : p.steps[i].res = "none"}
\* The first of them, if there is any.
First(S) == {i \in S : \A j \in S : i <= j}

AgentOf == [research |-> "researcher", processing |-> "coder"]
Known(p) == {i \in DOMAIN p.steps : p.steps[i].type \in DOMAIN AgentOf}
\* A step of neither type is passed over.
Todo(p) == Undone(p) \cap Known(p)
NextAgent(p) == {AgentOf[p.steps[i].type] : i \in First(Todo(p))}

LimitFirst(p, n) == IF n >= MaxPlanIterations THEN {"reporter"} ELSE NextAgent(p) \cup {"planner"}
NoLimit(p, n) == IF Todo(p) # {} THEN NextAgent(p) ELSE {"planner"}
\* What the team hands over to.
TeamGoto(p, n) ==
    IF Todo(p) # {} THEN NextAgent(p)
    ELSE IF n >= MaxPlanIterations THEN {"reporter"} ELSE {"planner"}

ResearchTeam(r) ==
    /\ node[r] = "research_team"
    /\ \E to \in TeamGoto(state[r].plan, state[r].iterations) : HandOff(r, to)
    /\ UNCHANGED <<restarts, state, checkpoint, begun>>

LastUndone(p) == {i \in Undone(p) : \A j \in Undone(p) : j <= i}
\* Researcher and coder take the first step that is not done, of whatever type.
Taken(p) == First(Undone(p))

NoResult(p, i, agent) == p
WithResult(p, i, agent) == [p EXCEPT !.steps[i].res = agent]

Work(r, agent) ==
    /\ node[r] = agent
    /\ \/ /\ \E i \in Taken(state[r].plan) :
              state' = [state EXCEPT ![r].plan = WithResult(@, i, agent)]
          /\ HandOff(r, "research_team")
       \/ /\ Undone(state[r].plan) = {}      \* "no step found"
          /\ HandOff(r, "panicked")
          /\ UNCHANGED state
    /\ UNCHANGED <<restarts, checkpoint, begun>>

Research(r) == Work(r, "researcher")
Code(r) == Work(r, "coder")

\* The reporter reads the result of every step; one without is a nil pointer.
Reporter(r) ==
    /\ node[r] = "reporter"
    /\ HandOff(r, IF Undone(state[r].plan) = {} THEN "END" ELSE "panicked")
    /\ UNCHANGED <<restarts, state, checkpoint, begun>>

\* A model, a prompt or a tool answers with an error, or the graph has run as many
\* nodes as it may, which ends the run.
AgentFails(r) ==
    /\ node[r] \in Working
    /\ HandOff(r, "failed")
    /\ UNCHANGED <<restarts, state, checkpoint, begun>>

\* Checkpoints are kept in memory.
Restart ==
    /\ restarts < MaxRestarts
    /\ restarts' = restarts + 1
    /\ checkpoint' = None
    /\ node' = [r \in Runs |-> IF r \in Requests /\ node[r] \in Working THEN "lost" ELSE node[r]]
    /\ UNCHANGED <<state, from, begun>>

AgentStep(r) ==
    \/ Coordinator(r) \/ Investigator(r) \/ Planner(r) \/ Human(r)
    \/ ResearchTeam(r) \/ Research(r) \/ Code(r) \/ Reporter(r)
    \/ AgentFails(r)

Next ==
    \/ \E r \in Requests : Arrive(r)
    \/ \E r \in Consoles : StartConsole(r)
    \/ \E r \in Runs : AgentStep(r)
    \/ Restart

Spec == Init /\ [][Next]_vars

\* Models answer, and the graph goes on with a node that has ended.
FairSpec == Spec /\ \A r \in Runs : WF_vars(AgentStep(r))

-----------------------------------------------------------------------------
(* Properties                                                              *)

\* Types of the state.
TypeOK ==
    /\ restarts \in 0..MaxRestarts
    /\ node \in [Runs -> Working \cup Over \cup {"idle"}]
    /\ state \in [Runs -> State]
    /\ checkpoint \in State \cup {None}
    /\ from \in [Runs -> Working \cup {"idle"}]
    /\ begun \in [Runs -> Nat]

\* A feedback is used up by the plan it was given for (human_feedback.go:32): a request
\* begins no more than one plan, though the team may send it back to the planner, and
\* none of its later plans is worked on without a request of its own.
OneAcceptOnePlan == \A r \in Requests : begun[r] <= 1

\* The user is asked about a plan nobody has begun to work on, however often the team
\* has sent the run back to the planner.
CheckpointAsks == checkpoint # None => Untouched(checkpoint.plan)

\* Planning ends: one plan is made without being asked for, one more for each edit
\* that the plan's messages hold, and the others stay below the limit, which only the
\* research team looks at (research_team.go:53).
PlansAreBounded ==
    \A r \in Runs :
        state[r].iterations <= (IF MaxPlanIterations > 1 THEN MaxPlanIterations ELSE 1)
                               + Len(state[r].messages) - 1

\* The agents' assertion (coder.go:60, researcher.go:61): the team dispatches none
\* when there is nothing left to do.
NoStepFound ==
    \A r \in Runs : node[r] \in {"researcher", "coder"} => Undone(state[r].plan) # {}

\* A step is worked on by the agent for its type, unless a step of neither type comes
\* before it, which shifts every step behind it to another agent.
RightAgent ==
    \A r \in Runs : LET p == state[r].plan IN
        \A i \in DOMAIN p.steps : p.steps[i].res \in {"researcher", "coder"} =>
            \/ i \in Known(p) /\ p.steps[i].res = AgentOf[p.steps[i].type]
            \/ \E j \in 1..i : j \notin Known(p)

\* The report can be written: a plan that comes to the reporter from the team has a
\* result for every step, unless the team has passed over one (reporter.go:52).  A plan
\* that comes from the planner may have none.
TeamReportsAll ==
    \A r \in Runs : node[r] = "reporter" /\ from[r] = "research_team" =>
        /\ Todo(state[r].plan) = {}
        /\ Known(state[r].plan) = DOMAIN state[r].plan.steps => Undone(state[r].plan) = {}

\* Every request and every console run ends, in a report, a question to the user or an
\* error.
RunsEnd == \A r \in Runs : node[r] \in Working ~> node[r] \in Over
=============================================================================
