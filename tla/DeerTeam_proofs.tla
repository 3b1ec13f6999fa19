--------------------------- MODULE DeerTeam_proofs ---------------------------
(***************************************************************************)
(* Theorems about the research team, for all sets of requests and console  *)
(* runs, whatever the models answer, and for every limit on plans.         *)
(***************************************************************************)
EXTENDS DeerTeam, TLAPS

Agents == {"researcher", "coder"}

-----------------------------------------------------------------------------
(* Operators                                                               *)

\* A run that hands over is the only one that moves.
LEMMA HandOffMoves ==
  ASSUME TypeOK, NEW r \in Runs, NEW to, HandOff(r, to)
  PROVE  /\ node'[r] = to /\ from'[r] = node[r]
         /\ \A q \in Runs : q # r => node'[q] = node[q] /\ from'[q] = from[q]
BY DEF TypeOK, HandOff

LEMMA HandOffType ==
  ASSUME TypeOK, NEW r \in Runs, NEW to \in Working \cup Over, HandOff(r, to),
         node[r] \in Working \cup {"idle"}
  PROVE  /\ node' \in [Runs -> Working \cup Over \cup {"idle"}]
         /\ from' \in [Runs -> Working \cup {"idle"}]
BY DEF TypeOK, HandOff

LEMMA StepsOfPlan ==
  ASSUME NEW p \in Plan
  PROVE  /\ p.enough \in BOOLEAN /\ p.steps \in Seq(Step)
         /\ Undone(p) \subseteq DOMAIN p.steps
         /\ Todo(p) \subseteq Undone(p)
         /\ NextAgent(p) \subseteq Agents
         /\ \A n : TeamGoto(p, n) \subseteq Agents \cup {"reporter", "planner"}
BY DEF Plan, Undone, Todo, Known, NextAgent, First, AgentOf, TeamGoto, Agents

\* A plan with a result more.
LEMMA ResultAdded ==
  ASSUME NEW p \in Plan, NEW i \in DOMAIN p.steps, NEW agent \in Agents
  PROVE  LET q == WithResult(p, i, agent)
         IN  /\ q \in Plan
             /\ DOMAIN q.steps = DOMAIN p.steps
             /\ \A j \in DOMAIN p.steps :
                  /\ q.steps[j].type = p.steps[j].type
                  /\ q.steps[j].res = (IF j = i THEN agent ELSE p.steps[j].res)
<1>1. p.steps \in Seq(Step) /\ p.steps[i] \in Step /\ p.enough \in BOOLEAN
  BY DEF Plan
<1>2. [p.steps[i] EXCEPT !.res = agent] \in Step
  BY <1>1 DEF Step, Agents
<1>3. [p.steps EXCEPT ![i].res = agent] \in Seq(Step)
  BY <1>1, <1>2
<1>4. WithResult(p, i, agent) = [enough |-> p.enough, steps |-> [p.steps EXCEPT ![i].res = agent]]
  <2> DEFINE steps == [p.steps EXCEPT ![i].res = agent]
  <2>1. WithResult(p, i, agent) = [p EXCEPT !.steps = steps]
    BY DEF WithResult
  <2>2. \A ss : [p EXCEPT !.steps = ss] = [enough |-> p.enough, steps |-> ss]
    BY DEF Plan
  <2> QED
    BY <2>1, <2>2
<1>5. \A j \in DOMAIN p.steps : p.steps[j] \in Step
  BY <1>1
<1> DEFINE steps == [p.steps EXCEPT ![i].res = agent]
<1>6. /\ steps \in Seq(Step) /\ DOMAIN steps = DOMAIN p.steps
      /\ \A j \in DOMAIN p.steps :
           steps[j] = IF j = i THEN [p.steps[j] EXCEPT !.res = agent] ELSE p.steps[j]
  BY <1>3, <1>1
<1>7. \A j \in DOMAIN p.steps :
        /\ steps[j].type = p.steps[j].type
        /\ steps[j].res = IF j = i THEN agent ELSE p.steps[j].res
  BY <1>5, <1>6 DEF Step
<1> HIDE DEF steps
<1>8. WithResult(p, i, agent) = [enough |-> p.enough, steps |-> steps]
  BY <1>4 DEF steps
<1> QED
  BY <1>1, <1>6, <1>7, <1>8 DEF Plan

-----------------------------------------------------------------------------
(* Types                                                                   *)

LEMMA NewStateType ==
  ASSUME NEW r \in Runs
  PROVE  NewState(r) \in State
BY DEF NewState, State, EmptyPlan, Plan, Feedbacks

LEMMA ModifiedType ==
  ASSUME NEW s \in State, NEW r \in Runs, NEW f \in Feedbacks
  PROVE  /\ Modified(s, r, f) \in State
         /\ Modified(s, r, f).plan = s.plan
         /\ Modified(s, r, f).iterations = s.iterations
         /\ Modified(s, r, f).feedback = f
         /\ Len(Modified(s, r, f).messages)
              = IF f = "edit_plan" THEN Len(s.messages) + 1 ELSE Len(s.messages)
<1>1. /\ s.messages \in Seq(Runs) /\ Append(s.messages, r) \in Seq(Runs)
      /\ Len(Append(s.messages, r)) = Len(s.messages) + 1
  BY DEF State
<1>2. CASE f = "edit_plan"
  BY <1>1, <1>2 DEF Modified, State
<1>3. CASE f # "edit_plan"
  BY <1>1, <1>3 DEF Modified, State
<1> QED
  BY <1>2, <1>3

LEMMA PlannedType ==
  ASSUME NEW s \in State, NEW a \in Answers
  PROVE  /\ Planned(s, a) \in State
         /\ Planned(s, a).plan = a.plan
         /\ Planned(s, a).iterations = IF a.parsed THEN s.iterations + 1 ELSE s.iterations
         /\ Planned(s, a).feedback = s.feedback
         /\ Planned(s, a).messages = s.messages
<1>1. a.plan \in Plan
  BY DeerAssumption
<1> DEFINE n == IF a.parsed THEN s.iterations + 1 ELSE s.iterations
<1>2. n \in Nat
  BY DEF State
<1>3. Planned(s, a) = [s EXCEPT !.plan = a.plan, !.iterations = n]
  BY DEF Planned, State
<1> HIDE DEF n
<1>4. /\ Planned(s, a) \in State
      /\ Planned(s, a).plan = a.plan /\ Planned(s, a).iterations = n
      /\ Planned(s, a).feedback = s.feedback /\ Planned(s, a).messages = s.messages
  BY <1>1, <1>2, <1>3 DEF State
<1> QED
  BY <1>4 DEF n

LEMMA InitType == Init => TypeOK
BY DeerAssumption, NewStateType DEF Init, TypeOK

LEMMA StepType ==
  ASSUME TypeOK, [Next]_vars
  PROVE  TypeOK'
<1> USE DEF Runs
<1>1. ASSUME NEW r \in Requests, Arrive(r) PROVE TypeOK'
  <2>1. PICK to \in {"human_feedback", "coordinator"} : HandOff(r, to)
    BY <1>1 DEF Arrive
  <2>2. state' \in [Runs -> State]
    <3>1. CASE checkpoint = None
      BY <1>1, <3>1 DEF Arrive, TypeOK
    <3>2. CASE checkpoint # None
      <4>1. PICK f \in Feedbacks : state' = [state EXCEPT ![r] = Modified(checkpoint, r, f)]
        BY <1>1, <3>2 DEF Arrive
      <4>2. Modified(checkpoint, r, f) \in State
        BY <3>2, ModifiedType DEF TypeOK
      <4> QED
        BY <4>1, <4>2 DEF TypeOK
    <3> QED
      BY <3>1, <3>2
  <2> QED
    BY <1>1, <2>1, <2>2, HandOffType DEF Arrive, TypeOK, Working
<1>2. ASSUME NEW r \in Consoles, StartConsole(r) PROVE TypeOK'
  BY <1>2, HandOffType DEF StartConsole, TypeOK, Working
<1>3. ASSUME NEW r \in Runs, AgentStep(r) PROVE TypeOK'
  <2>1. CASE Coordinator(r)
    <3>1. PICK to \in {"background_investigator", "planner", "END"} : HandOff(r, to)
      BY <2>1 DEF Coordinator
    <3> QED
      BY <2>1, <3>1, HandOffType DEF Coordinator, TypeOK, Working, Over
  <2>2. CASE Investigator(r)
    <3>1. PICK to \in {"planner", "panicked"} : HandOff(r, to)
      BY <2>2 DEF Investigator
    <3> QED
      BY <2>2, <3>1, HandOffType DEF Investigator, TypeOK, Working, Over
  <2>3. CASE Planner(r)
    <3>1. PICK a \in Answers : state' = [state EXCEPT ![r] = Planned(@, a)]
      BY <2>3 DEF Planner
    <3>2. Planned(state[r], a) \in State
      BY PlannedType DEF TypeOK
    <3>3. state' \in [Runs -> State]
      BY <3>1, <3>2 DEF TypeOK
    <3>4. PICK to \in {"reporter", "human_feedback", "END"} : HandOff(r, to)
      BY <2>3 DEF Planner
    <3> QED
      BY <2>3, <3>3, <3>4, HandOffType DEF Planner, TypeOK, Working, Over
  <2>4. CASE Human(r)
    <3>1. state' \in [Runs -> State]
      <4>1. FeedbackTaken(state[r]) \in State
        BY DEF FeedbackTaken, TypeOK, State, Feedbacks
      <4> QED
        BY <2>4, <4>1 DEF Human, TypeOK
    <3>2. PICK to \in {"research_team", "planner", "interrupted"} : HandOff(r, to)
      BY <2>4 DEF Human, Accepts, Edits, Interrupts
    <3>3. checkpoint' \in State \cup {None} /\ begun' \in [Runs -> Nat]
      BY <2>4, <3>1 DEF Human, Accepts, Edits, Interrupts, TypeOK
    <3> QED
      BY <2>4, <3>1, <3>2, <3>3, HandOffType DEF Human, TypeOK, Working, Over
  <2>5. CASE ResearchTeam(r)
    <3>1. PICK to \in TeamGoto(state[r].plan, state[r].iterations) : HandOff(r, to)
      BY <2>5 DEF ResearchTeam
    <3>2. to \in Agents \cup {"reporter", "planner"}
      BY <3>1, StepsOfPlan DEF TypeOK, State
    <3> QED
      BY <2>5, <3>1, <3>2, HandOffType DEF ResearchTeam, TypeOK, Working, Over, Agents
  <2>6. ASSUME NEW agent \in Agents, Work(r, agent) PROVE TypeOK'
    <3>1. state' \in [Runs -> State]
      <4>1. CASE Undone(state[r].plan) = {}
        BY <2>6, <4>1 DEF Work, TypeOK, Taken, First
      <4>2. CASE Undone(state[r].plan) # {}
        <5>1. PICK i \in Taken(state[r].plan) :
                state' = [state EXCEPT ![r].plan = WithResult(@, i, agent)]
          BY <2>6, <4>2 DEF Work
        <5>2. i \in DOMAIN state[r].plan.steps /\ state[r].plan \in Plan
          BY <5>1, StepsOfPlan DEF Taken, First, TypeOK, State
        <5>3. WithResult(state[r].plan, i, agent) \in Plan
          BY <5>2, ResultAdded
        <5> QED
          BY <5>1, <5>3 DEF TypeOK, State
      <4> QED
        BY <4>1, <4>2
    <3>2. PICK to \in {"research_team", "panicked"} : HandOff(r, to)
      BY <2>6 DEF Work
    <3> QED
      BY <2>6, <3>1, <3>2, HandOffType DEF Work, TypeOK, Working, Over, Agents
  <2>7. CASE Reporter(r)
    <3>1. PICK to \in {"END", "panicked"} : HandOff(r, to)
      BY <2>7 DEF Reporter
    <3> QED
      BY <2>7, <3>1, HandOffType DEF Reporter, TypeOK, Working, Over
  <2>8. CASE AgentFails(r)
    BY <2>8, HandOffType DEF AgentFails, TypeOK, Working, Over
  <2> QED
    BY <1>3, <2>1, <2>2, <2>3, <2>4, <2>5, <2>6, <2>7, <2>8
       DEF AgentStep, Research, Code, Agents
<1>4. CASE Restart
  <2>1. node' \in [Runs -> Working \cup Over \cup {"idle"}]
    BY <1>4 DEF Restart, TypeOK, Over
  <2>2. restarts' \in 0..MaxRestarts
    BY <1>4, DeerAssumption DEF Restart, TypeOK
  <2> QED
    BY <1>4, <2>1, <2>2 DEF Restart, TypeOK
<1>5. CASE UNCHANGED vars
  BY <1>5 DEF vars, TypeOK
<1> QED
  BY <1>1, <1>2, <1>3, <1>4, <1>5 DEF Next

\* State, node and checkpoint keep their types, whatever the models answer: every
\* router sends a run to a node that the graph has, or ends it.
THEOREM TypeCorrect == Spec => []TypeOK
<1>1. Init => TypeOK
  BY InitType
<1>2. TypeOK /\ [Next]_vars => TypeOK'
  BY StepType
<1> QED
  BY <1>1, <1>2, PTL DEF Spec

-----------------------------------------------------------------------------
(* The plans of a run                                                      *)

Bound == IF MaxPlanIterations > 1 THEN MaxPlanIterations ELSE 1
Most(s) == Bound + Len(s.messages) - 1

\* What a run has planned and begun, where it is.  The planner is only reached with a
\* plan to spare, and a feedback only lives until the human node has read it.
RunFacts(r, n, s, b) ==
    /\ Len(s.messages) >= 1
    /\ s.iterations <= Most(s)
    /\ n \in {"idle", "coordinator", "background_investigator"} => s = NewState(r)
    /\ n = "planner" => s.iterations < Most(s)
    /\ s.feedback = "edit_plan" => s.iterations < Most(s)
    /\ n \in Working \ {"human_feedback"} => s.feedback = ""
    /\ r \in Requests => b <= 1
    /\ r \in Requests /\ n = "idle" => b = 0
    /\ r \in Requests /\ s.feedback = "accepted" => b = 0
    /\ n = "human_feedback" => Untouched(s.plan)
RunInv(r) == RunFacts(r, node[r], state[r], begun[r])

CheckpointInv ==
    checkpoint # None =>
        /\ Len(checkpoint.messages) >= 1
        /\ checkpoint.iterations <= Most(checkpoint)
        /\ checkpoint.feedback = ""
        /\ Untouched(checkpoint.plan)

PlanInv == TypeOK /\ CheckpointInv /\ \A r \in Runs : RunInv(r)

LEMMA BoundType == Bound \in Nat /\ Bound >= 1 /\ Bound >= MaxPlanIterations
BY DeerAssumption DEF Bound

LEMMA BoundSums ==
  ASSUME NEW n \in Nat, NEW l \in Nat, l >= 1
  PROVE  /\ n < Bound + l - 1 => n <= Bound + l - 1 /\ n + 1 <= Bound + l - 1
         /\ n < MaxPlanIterations => n < Bound + l - 1
         /\ n <= Bound + l - 1 => n < Bound + (l + 1) - 1 /\ n <= Bound + (l + 1) - 1
BY BoundType, DeerAssumption

LEMMA NewStateInv ==
  ASSUME NEW r \in Runs
  PROVE  /\ Len(NewState(r).messages) = 1 /\ NewState(r).iterations = 0
         /\ NewState(r).feedback = "" /\ Most(NewState(r)) = Bound
         /\ NewState(r).plan = EmptyPlan
BY BoundType DEF NewState, Most

\* A run that has not planned anything yet.
LEMMA FreshRun ==
  ASSUME NEW r \in Runs, NEW n, n \notin {"human_feedback"},
         NEW b \in Nat, r \in Requests => b <= 1 /\ (n = "idle" => b = 0)
  PROVE  RunFacts(r, n, NewState(r), b)
<1> DEFINE s == NewState(r)
<1>1. 0 < Bound /\ 0 <= Bound /\ Bound \in Nat
  BY BoundType
<1>2. /\ Len(s.messages) = 1 /\ s.iterations = 0 /\ s.feedback = "" /\ Most(s) = Bound
      /\ s = NewState(r)
  BY NewStateInv
<1> HIDE DEF s
<1>3. 1 >= 1
  OBVIOUS
<1> QED
  BY <1>1, <1>2, <1>3 DEF RunFacts

LEMMA InitPlan == Init => PlanInv
<1> SUFFICES ASSUME Init PROVE PlanInv
  OBVIOUS
<1>1. TypeOK /\ CheckpointInv
  BY InitType DEF Init, CheckpointInv
<1>2. ASSUME NEW r \in Runs PROVE RunInv(r)
  <2>1. node[r] = "idle" /\ state[r] = NewState(r) /\ begun[r] = 0
    BY DEF Init
  <2> QED
    BY <2>1, FreshRun DEF RunInv
<1> QED
  BY <1>1, <1>2 DEF PlanInv

\* A run that does not move keeps its part of the invariant.
LEMMA RunStays ==
  ASSUME NEW r \in Runs, RunInv(r),
         state'[r] = state[r], node'[r] = node[r], begun'[r] = begun[r]
  PROVE  RunInv(r)'
BY DEF RunInv

LEMMA StepPlan ==
  ASSUME PlanInv, [Next]_vars
  PROVE  PlanInv'
<1>1. TypeOK /\ TypeOK'
  BY StepType DEF PlanInv
<1>2. ASSUME NEW r \in Requests, Arrive(r) PROVE CheckpointInv' /\ \A q \in Runs : RunInv(q)'
  <2> r \in Runs
    BY DEF Runs
  <2>1. CheckpointInv' /\ begun' = begun
    BY <1>2 DEF Arrive, PlanInv, CheckpointInv
  <2>2. RunInv(r)'
    <3>1. CASE checkpoint = None
      <4>1. node'[r] = "coordinator" /\ state' = state /\ node[r] = "idle"
        BY <1>1, <1>2, <3>1, HandOffMoves DEF Arrive
      <4>2. state[r] = NewState(r) /\ begun[r] = 0 /\ begun[r] \in Nat
        BY <1>1, <4>1 DEF PlanInv, RunInv, RunFacts, TypeOK
      <4> QED
        BY <2>1, <4>1, <4>2, FreshRun DEF RunInv
    <3>2. CASE checkpoint # None
      <4>1. PICK f \in Feedbacks : state' = [state EXCEPT ![r] = Modified(checkpoint, r, f)]
        BY <1>2, <3>2 DEF Arrive
      <4>2. checkpoint \in State /\ state'[r] = Modified(checkpoint, r, f)
        BY <1>1, <3>2, <4>1 DEF TypeOK
      <4>3. node'[r] = "human_feedback" /\ begun[r] = 0
        BY <1>1, <1>2, <3>2, HandOffMoves DEF Arrive, PlanInv, RunInv, RunFacts
      <4>4. /\ Len(checkpoint.messages) >= 1 /\ Len(checkpoint.messages) \in Nat
            /\ checkpoint.iterations \in Nat /\ checkpoint.iterations <= Most(checkpoint)
            /\ Untouched(checkpoint.plan)
        <5>1. Len(checkpoint.messages) \in Nat /\ checkpoint.iterations \in Nat
          BY <4>2 DEF State
        <5> QED
          BY <3>2, <5>1 DEF PlanInv, CheckpointInv
      <4> DEFINE s == Modified(checkpoint, r, f)
      <4>5. /\ s.plan = checkpoint.plan /\ s.iterations = checkpoint.iterations /\ s.feedback = f
            /\ Len(s.messages) = IF f = "edit_plan" THEN Len(checkpoint.messages) + 1
                                 ELSE Len(checkpoint.messages)
        BY <4>2, ModifiedType
      <4> HIDE DEF s
      <4>6. RunFacts(r, "human_feedback", s, 0)
        BY <4>4, <4>5, BoundType DEF RunFacts, Most
      <4> QED
        BY <2>1, <4>2, <4>3, <4>6 DEF RunInv, s
    <3> QED
      BY <3>1, <3>2
  <2>3. ASSUME NEW q \in Runs, q # r PROVE RunInv(q)'
    BY <1>1, <1>2, <2>3, HandOffMoves, RunStays DEF Arrive, TypeOK, PlanInv
  <2> QED
    BY <2>1, <2>2, <2>3
<1>3. ASSUME NEW r \in Consoles, StartConsole(r) PROVE CheckpointInv' /\ \A q \in Runs : RunInv(q)'
  <2> r \in Runs
    BY DEF Runs
  <2>1. CheckpointInv' /\ begun' = begun /\ state' = state
    BY <1>3 DEF StartConsole, PlanInv, CheckpointInv
  <2>2. RunInv(r)'
    <3>1. node'[r] = "coordinator" /\ node[r] = "idle"
      BY <1>1, <1>3, HandOffMoves DEF StartConsole
    <3>2. state[r] = NewState(r) /\ begun[r] \in Nat /\ (r \in Requests => begun[r] = 0)
      BY <1>1, <3>1 DEF PlanInv, RunInv, RunFacts, TypeOK
    <3> QED
      BY <2>1, <3>1, <3>2, FreshRun DEF RunInv
  <2>3. ASSUME NEW q \in Runs, q # r PROVE RunInv(q)'
    BY <1>1, <1>3, <2>1, <2>3, HandOffMoves, RunStays DEF StartConsole, PlanInv
  <2> QED
    BY <2>1, <2>2, <2>3
<1>4. ASSUME NEW r \in Runs, AgentStep(r) PROVE CheckpointInv' /\ \A q \in Runs : RunInv(q)'
  <2>1. RunInv(r) /\ state[r] \in State /\ Len(state[r].messages) \in Nat /\ state[r].iterations \in Nat
        /\ begun[r] \in Nat
    BY <1>1 DEF PlanInv, TypeOK, State
  <2>2. ASSUME NEW q \in Runs, q # r PROVE RunInv(q)'
    <3>1. state'[q] = state[q] /\ node'[q] = node[q] /\ begun'[q] = begun[q]
      BY <1>1, <1>4, <2>2 DEF AgentStep, Coordinator, Investigator, Planner, Human, Accepts, Edits,
         Interrupts, ResearchTeam, Research, Code, Work, Reporter, AgentFails, HandOff, TypeOK
    <3> QED
      BY <3>1, RunStays DEF PlanInv
  <2>3. CASE Coordinator(r) \/ Investigator(r)
    <3>1. node'[r] \in {"background_investigator", "planner", "END", "panicked"}
      BY <1>1, <2>3, HandOffMoves DEF Coordinator, Investigator
    <3>2. state' = state /\ begun' = begun /\ CheckpointInv'
      BY <2>3 DEF Coordinator, Investigator, PlanInv, CheckpointInv
    <3>3. state[r] = NewState(r) /\ node[r] # "idle"
      BY <2>1, <2>3 DEF Coordinator, Investigator, RunInv, RunFacts
    <3>4. RunInv(r)'
      BY <2>1, <3>1, <3>2, <3>3, FreshRun DEF RunInv, RunFacts
    <3> QED
      BY <2>2, <3>2, <3>4
  <2>4. CASE Planner(r)
    <3>1. PICK a \in Answers :
            /\ state' = [state EXCEPT ![r] = Planned(@, a)]
            /\ \E to \in {"reporter", "human_feedback", "END"} : HandOff(r, to)
      BY <2>4 DEF Planner
    <3>2. state'[r] = Planned(state[r], a) /\ node'[r] \in {"reporter", "human_feedback", "END"}
      BY <1>1, <3>1, HandOffMoves DEF TypeOK
    <3>3. begun' = begun /\ CheckpointInv' /\ node[r] = "planner"
      BY <2>4 DEF Planner, PlanInv, CheckpointInv
    <3>4. Untouched(a.plan)
      BY DeerAssumption
    <3> DEFINE s == Planned(state[r], a)
    <3>5. /\ s.plan = a.plan /\ s.feedback = state[r].feedback /\ s.messages = state[r].messages
          /\ s.iterations \in {state[r].iterations, state[r].iterations + 1}
      BY <2>1, PlannedType
    <3>6. /\ state[r].iterations < Most(state[r]) /\ state[r].feedback = ""
          /\ Len(state[r].messages) >= 1 /\ (r \in Requests => begun[r] <= 1)
      BY <2>1, <3>3 DEF RunInv, RunFacts, Working
    <3> HIDE DEF s
    <3>7. s.iterations <= Most(s)
      BY <2>1, <3>5, <3>6, BoundSums DEF Most
    <3>9. RunFacts(r, node'[r], s, begun[r])
      BY <3>2, <3>4, <3>5, <3>6, <3>7 DEF RunFacts
    <3>8. RunInv(r)'
      BY <3>2, <3>3, <3>9 DEF RunInv, s
    <3> QED
      BY <2>2, <3>3, <3>8
  <2>5. CASE Human(r)
    <3>1. /\ state'[r] = FeedbackTaken(state[r])
          /\ FeedbackTaken(state[r]).plan = state[r].plan
          /\ FeedbackTaken(state[r]).iterations = state[r].iterations
          /\ FeedbackTaken(state[r]).messages = state[r].messages
          /\ FeedbackTaken(state[r]).feedback = ""
      BY <1>1, <2>1, <2>5 DEF Human, FeedbackTaken, TypeOK, State
    <3>2. node[r] = "human_feedback"
      BY <2>5 DEF Human
    <3>3. CASE Accepts(r)
      <4>1. node'[r] = "research_team" /\ begun'[r] = begun[r] + 1 /\ CheckpointInv'
        BY <1>1, <3>3, HandOffMoves DEF Accepts, TypeOK, PlanInv, CheckpointInv
      <4>2. r \in Requests => state[r].feedback = "accepted"
        BY <3>3 DEF Accepts
      <4>3. r \in Requests => begun'[r] = 1
        <5>1. r \in Requests => begun[r] = 0
          BY <2>1, <4>2 DEF RunInv, RunFacts
        <5> QED
          BY <4>1, <5>1
      <4>4. RunInv(r)'
        <5> DEFINE s == FeedbackTaken(state[r])
        <5>1. Len(s.messages) >= 1 /\ s.iterations <= Most(s) /\ s.feedback = ""
          BY <2>1, <3>1 DEF RunInv, RunFacts, Most
        <5>2. r \in Requests => begun'[r] <= 1
          BY <4>3
        <5> HIDE DEF s
        <5>3. RunFacts(r, "research_team", s, begun'[r])
          BY <5>1, <5>2 DEF RunFacts
        <5> QED
          BY <3>1, <4>1, <5>3 DEF RunInv, s
      <4> QED
        BY <2>2, <4>1, <4>4
    <3>4. CASE Edits(r)
      <4>1. node'[r] = "planner" /\ begun' = begun /\ CheckpointInv' /\ state[r].feedback = "edit_plan"
        BY <1>1, <3>4, HandOffMoves DEF Edits, PlanInv, CheckpointInv
      <4> QED
        BY <2>1, <2>2, <3>1, <4>1, BoundType DEF RunInv, RunFacts, Most
    <3>5. CASE Interrupts(r)
      <4>1. node'[r] = "interrupted" /\ begun' = begun /\ checkpoint' = state'[r]
        BY <1>1, <3>5, HandOffMoves DEF Interrupts
      <4>2. CheckpointInv'
        BY <2>1, <3>1, <3>2, <4>1 DEF CheckpointInv, RunInv, RunFacts, Most
      <4>3. RunInv(r)'
        BY <2>1, <3>1, <4>1, BoundType DEF RunInv, RunFacts, Most, Working
      <4> QED
        BY <2>2, <4>2, <4>3
    <3> QED
      BY <2>5, <3>3, <3>4, <3>5 DEF Human
  <2>6. CASE ResearchTeam(r)
    <3>1. PICK to \in TeamGoto(state[r].plan, state[r].iterations) : node'[r] = to
      BY <1>1, <2>6, HandOffMoves DEF ResearchTeam
    <3>2. to \in Agents \cup {"reporter", "planner"}
      BY <2>1, <3>1, StepsOfPlan DEF State
    <3>3. to = "planner" => state[r].iterations < MaxPlanIterations
      <4>1. NextAgent(state[r].plan) \subseteq Agents
        BY <2>1, StepsOfPlan DEF State
      <4> QED
        BY <2>1, <3>1, <4>1, DeerAssumption DEF TeamGoto, Agents
    <3>4. state' = state /\ begun' = begun /\ CheckpointInv' /\ node[r] = "research_team"
      BY <2>6 DEF ResearchTeam, PlanInv, CheckpointInv
    <3>5. state[r].iterations < MaxPlanIterations => state[r].iterations < Most(state[r])
      <4>1. Len(state[r].messages) >= 1
        BY <2>1 DEF RunInv, RunFacts
      <4> QED
        BY <2>1, <4>1, BoundSums DEF Most
    <3>6. RunFacts(r, node[r], state[r], begun[r]) /\ node[r] \in Working \ {"human_feedback"}
      BY <2>1, <3>4 DEF RunInv, Working
    <3>7. RunFacts(r, to, state[r], begun[r])
      BY <3>2, <3>3, <3>5, <3>6 DEF RunFacts, Agents
    <3>8. RunInv(r)'
      BY <3>1, <3>4, <3>7 DEF RunInv
    <3> QED
      BY <2>2, <3>4, <3>8
  <2>7. ASSUME NEW agent \in Agents, Work(r, agent) PROVE CheckpointInv' /\ RunInv(r)'
    <3>1. node'[r] \in {"research_team", "panicked"} /\ node[r] \in Agents
      BY <1>1, <2>7, HandOffMoves DEF Work
    <3>2. begun' = begun /\ CheckpointInv'
      BY <2>7 DEF Work, PlanInv, CheckpointInv
    <3>3. /\ state'[r].iterations = state[r].iterations /\ state'[r].messages = state[r].messages
          /\ state'[r].feedback = state[r].feedback
      BY <1>1, <2>1, <2>7 DEF Work, TypeOK, State
    <3> QED
      BY <2>1, <3>1, <3>2, <3>3 DEF RunInv, RunFacts, Most, Working, Agents
  <2>8. CASE Reporter(r) \/ AgentFails(r)
    <3>1. node'[r] \in Over
      BY <1>1, <2>8, HandOffMoves DEF Reporter, AgentFails, Over
    <3>2. state' = state /\ begun' = begun /\ CheckpointInv'
      BY <2>8 DEF Reporter, AgentFails, PlanInv, CheckpointInv
    <3> QED
      BY <2>1, <2>2, <3>1, <3>2 DEF RunInv, RunFacts, Most, Working, Over
  <2> QED
    <3>1. Work(r, "researcher") \/ Work(r, "coder") => CheckpointInv' /\ RunInv(r)'
      BY <2>7 DEF Agents
    <3>2. CASE Research(r) \/ Code(r)
      BY <2>2, <3>1, <3>2 DEF Research, Code
    <3> QED
      BY <1>4, <2>3, <2>4, <2>5, <2>6, <2>8, <3>2 DEF AgentStep
<1>5. CASE Restart
  <2>1. CheckpointInv' /\ state' = state /\ begun' = begun
    BY <1>5 DEF Restart, CheckpointInv
  <2>2. ASSUME NEW r \in Runs PROVE RunInv(r)'
    <3>1. node'[r] = node[r] \/ node'[r] = "lost"
      BY <1>5 DEF Restart
    <3>2. RunInv(r)
      BY DEF PlanInv
    <3> QED
      BY <2>1, <3>1, <3>2 DEF RunInv, RunFacts, Most, Working
  <2> QED
    BY <1>1, <2>1, <2>2 DEF PlanInv
<1>6. CASE UNCHANGED vars
  <2>1. \A r \in Runs : RunInv(r)'
    BY <1>6, RunStays DEF vars, PlanInv
  <2> QED
    BY <1>1, <1>6, <2>1 DEF vars, PlanInv, CheckpointInv
<1> QED
  BY <1>1, <1>2, <1>3, <1>4, <1>5, <1>6 DEF Next, PlanInv

LEMMA PlanAlways == Spec => []PlanInv
<1>1. Init => PlanInv
  BY InitPlan
<1>2. PlanInv /\ [Next]_vars => PlanInv'
  BY StepPlan
<1> QED
  BY <1>1, <1>2, PTL DEF Spec

\* human_feedback.go:32.  A request begins no more than one plan, however often the
\* team sends it back to the planner: its feedback is used up with the first.
THEOREM AcceptsOnce == Spec => []OneAcceptOnePlan
<1>1. PlanInv => OneAcceptOnePlan
  BY DEF PlanInv, RunInv, RunFacts, OneAcceptOnePlan, Runs
<1> QED
  BY <1>1, PlanAlways, PTL

\* research_team.go:53.  A run makes no more plans than the limit (or one) and the
\* edits its user asked for.
THEOREM PlanningEnds == Spec => []PlansAreBounded
<1>1. PlanInv => PlansAreBounded
  <2> SUFFICES ASSUME PlanInv, NEW r \in Runs
               PROVE  state[r].iterations <= Bound + Len(state[r].messages) - 1
    BY DEF PlansAreBounded, Bound
  <2> QED
    BY DEF PlanInv, RunInv, RunFacts, Most
<1> QED
  BY <1>1, PlanAlways, PTL

\* human_feedback.go:43.  What the user is asked about is a plan nobody has begun to
\* work on.
THEOREM AskedBefore == Spec => []CheckpointAsks
<1>1. PlanInv => CheckpointAsks
  BY DEF PlanInv, CheckpointInv, CheckpointAsks
<1> QED
  BY <1>1, PlanAlways, PTL

-----------------------------------------------------------------------------
(* The steps of a plan                                                     *)

\* A dispatched agent finds a step, of its own type, and nothing that a run has passed
\* over comes back when the plan is reported.
StepFacts(n, m, p) ==
    /\ n \in Agents => \E i \in First(Todo(p)) : AgentOf[p.steps[i].type] = n
    /\ n = "reporter" /\ m = "research_team" => Todo(p) = {}
    /\ \A i \in DOMAIN p.steps : p.steps[i].res \in Agents =>
         \/ i \in Known(p) /\ p.steps[i].res = AgentOf[p.steps[i].type]
         \/ \E j \in 1..i : j \notin Known(p)
StepInv == \A r \in Runs : StepFacts(node[r], from[r], state[r].plan)

\* In a plan nobody has worked on every step is open to all agents.
LEMMA UntouchedSteps ==
  ASSUME NEW p \in Plan, Untouched(p), NEW n, n \notin Agents, NEW m, m # "research_team"
  PROVE  StepFacts(n, m, p)
BY DEF StepFacts, Untouched, Agents

\* The step that an agent takes: the one it was sent for, or one that was passed over.
LEMMA TakenStep ==
  ASSUME NEW p \in Plan, NEW n \in Agents, NEW m, StepFacts(n, m, p), NEW i \in Taken(p)
  PROVE  StepFacts("research_team", n, WithResult(p, i, n))
<1>1. i \in DOMAIN p.steps /\ i \in Undone(p) /\ \A j \in Undone(p) : i <= j
  BY StepsOfPlan DEF Taken, First
<1> DEFINE q == WithResult(p, i, n)
<1>2. /\ DOMAIN q.steps = DOMAIN p.steps
      /\ \A j \in DOMAIN p.steps :
           /\ q.steps[j].type = p.steps[j].type
           /\ q.steps[j].res = (IF j = i THEN n ELSE p.steps[j].res)
  BY <1>1, ResultAdded
<1> HIDE DEF q
<1>3. Known(q) = Known(p)
  BY <1>2 DEF Known
<1>4. i \in Nat /\ i >= 1
  BY <1>1 DEF Plan
<1>5. i \in Known(p) => AgentOf[p.steps[i].type] = n
  <2> SUFFICES ASSUME i \in Known(p) PROVE AgentOf[p.steps[i].type] = n
    OBVIOUS
  <2>1. PICK k \in First(Todo(p)) : AgentOf[p.steps[k].type] = n
    BY DEF StepFacts
  <2>2. i \in Todo(p) /\ k \in Undone(p) /\ k <= i /\ i <= k
    BY <1>1, <2>1 DEF Todo, First
  <2>3. k = i
    BY <1>1, <2>1, <2>2, StepsOfPlan DEF First, Plan
  <2> QED
    BY <2>1, <2>3
<1>6. ASSUME NEW j \in DOMAIN q.steps, q.steps[j].res \in Agents
      PROVE  \/ j \in Known(q) /\ q.steps[j].res = AgentOf[q.steps[j].type]
             \/ \E k \in 1..j : k \notin Known(q)
  <2>1. CASE j = i
    <3>1. i \in 1..i
      BY <1>4
    <3> QED
      BY <1>2, <1>3, <1>5, <2>1, <3>1
  <2>2. CASE j # i
    BY <1>2, <1>3, <1>6, <2>2 DEF StepFacts
  <2> QED
    BY <2>1, <2>2
<1> QED
  BY <1>6 DEF StepFacts, Agents, q

LEMMA InitSteps == Init => StepInv
<1> SUFFICES ASSUME Init, NEW r \in Runs PROVE StepFacts(node[r], from[r], state[r].plan)
  BY DEF StepInv
<1>1. Untouched(EmptyPlan) /\ EmptyPlan \in Plan
  BY DEF Untouched, EmptyPlan, Plan
<1> QED
  BY <1>1, UntouchedSteps, NewStateInv DEF Init, Agents

LEMMA StepSteps ==
  ASSUME PlanInv, StepInv, [Next]_vars
  PROVE  StepInv'
<1>1. TypeOK /\ TypeOK'
  BY StepType DEF PlanInv
<1>2. \A r \in Runs : StepFacts(node[r], from[r], state[r].plan)
  BY DEF StepInv
<1>3. ASSUME NEW r \in Requests, Arrive(r) PROVE StepInv'
  <2> r \in Runs
    BY DEF Runs
  <2>1. \A q \in Runs : q # r => node'[q] = node[q] /\ from'[q] = from[q] /\ state'[q] = state[q]
    BY <1>1, <1>3, HandOffMoves DEF Arrive, TypeOK
  <2>2. node'[r] \in {"human_feedback", "coordinator"} /\ from'[r] = "idle"
    BY <1>1, <1>3, HandOffMoves DEF Arrive
  <2>3. CASE checkpoint = None
    <3>1. state' = state /\ node[r] = "idle"
      BY <1>3, <2>3 DEF Arrive
    <3>2. StepFacts(node'[r], from'[r], state'[r].plan)
      BY <1>2, <2>2, <3>1 DEF StepFacts, Agents
    <3> QED
      BY <1>2, <2>1, <3>2 DEF StepInv
  <2>4. CASE checkpoint # None
    <3>1. PICK f \in Feedbacks : state' = [state EXCEPT ![r] = Modified(checkpoint, r, f)]
      BY <1>3, <2>4 DEF Arrive
    <3>2. checkpoint \in State /\ state'[r] = Modified(checkpoint, r, f)
      BY <1>1, <2>4, <3>1 DEF TypeOK
    <3>3. state'[r].plan = checkpoint.plan /\ checkpoint.plan \in Plan /\ Untouched(checkpoint.plan)
      <4>1. Untouched(checkpoint.plan)
        BY <2>4 DEF PlanInv, CheckpointInv
      <4>2. checkpoint.plan \in Plan
        BY <3>2 DEF State
      <4> QED
        BY <3>2, <4>1, <4>2, ModifiedType
    <3>4. StepFacts(node'[r], from'[r], state'[r].plan)
      BY <2>2, <3>3, UntouchedSteps DEF Agents
    <3> QED
      BY <1>2, <2>1, <3>4 DEF StepInv
  <2> QED
    BY <2>3, <2>4
<1>4. ASSUME NEW r \in Consoles, StartConsole(r) PROVE StepInv'
  <2> r \in Runs
    BY DEF Runs
  <2>1. \A q \in Runs : q # r => node'[q] = node[q] /\ from'[q] = from[q]
    BY <1>1, <1>4, HandOffMoves DEF StartConsole
  <2>2. node'[r] = "coordinator" /\ from'[r] = "idle" /\ state' = state
    BY <1>1, <1>4, HandOffMoves DEF StartConsole
  <2>3. StepFacts(node'[r], from'[r], state'[r].plan)
    BY <1>2, <2>2 DEF StepFacts, Agents
  <2> QED
    BY <1>2, <2>1, <2>2, <2>3 DEF StepInv
<1>5. ASSUME NEW r \in Runs, AgentStep(r) PROVE StepInv'
  <2>1. \A q \in Runs : q # r => node'[q] = node[q] /\ from'[q] = from[q] /\ state'[q] = state[q]
    BY <1>1, <1>5 DEF AgentStep, Coordinator, Investigator, Planner, Human, Accepts, Edits,
       Interrupts, ResearchTeam, Research, Code, Work, Reporter, AgentFails, HandOff, TypeOK
  <2>2. SUFFICES StepFacts(node'[r], from'[r], state'[r].plan)
    BY <1>2, <2>1 DEF StepInv
  <2>3. state[r].plan \in Plan /\ StepFacts(node[r], from[r], state[r].plan)
    BY <1>1, <1>2 DEF TypeOK, State
  <2>4. CASE Coordinator(r) \/ Investigator(r) \/ Reporter(r) \/ AgentFails(r)
    <3>1. /\ node'[r] \in {"background_investigator", "planner", "END", "panicked", "failed"}
          /\ state' = state
      BY <1>1, <2>4, HandOffMoves DEF Coordinator, Investigator, Reporter, AgentFails
    <3> QED
      BY <2>3, <3>1 DEF StepFacts, Agents
  <2>5. CASE Planner(r)
    <3>1. PICK a \in Answers :
            /\ state' = [state EXCEPT ![r] = Planned(@, a)]
            /\ \E to \in {"reporter", "human_feedback", "END"} : HandOff(r, to)
      BY <2>5 DEF Planner
    <3>2. /\ node'[r] \in {"reporter", "human_feedback", "END"} /\ from'[r] = "planner"
          /\ state'[r] = Planned(state[r], a)
      BY <1>1, <2>5, <3>1, HandOffMoves DEF Planner, TypeOK
    <3>3. state'[r].plan = a.plan /\ a.plan \in Plan /\ Untouched(a.plan)
      BY <1>1, <3>2, PlannedType, DeerAssumption DEF TypeOK
    <3> QED
      BY <3>2, <3>3, UntouchedSteps DEF Agents
  <2>6. CASE Human(r)
    <3>1. node'[r] \in {"research_team", "planner", "interrupted"}
      BY <1>1, <2>6, HandOffMoves DEF Human, Accepts, Edits, Interrupts
    <3>2. state'[r].plan = state[r].plan
      BY <1>1, <2>6 DEF Human, FeedbackTaken, TypeOK, State
    <3> QED
      BY <2>3, <3>1, <3>2 DEF StepFacts, Agents
  <2>7. CASE ResearchTeam(r)
    <3> DEFINE p == state[r].plan
    <3>1. /\ node'[r] \in TeamGoto(p, state[r].iterations) /\ state' = state
          /\ from'[r] = "research_team"
      BY <1>1, <2>7, HandOffMoves DEF ResearchTeam
    <3>2. CASE Todo(p) # {}
      <4>1. PICK i \in First(Todo(p)) : node'[r] = AgentOf[p.steps[i].type]
        BY <3>1, <3>2 DEF TeamGoto, NextAgent
      <4>2. node'[r] \in Agents
        BY <2>3, <3>1, <3>2, StepsOfPlan DEF TeamGoto
      <4> QED
        BY <2>3, <3>1, <4>1, <4>2 DEF StepFacts, Agents
    <3>3. CASE Todo(p) = {}
      <4>1. node'[r] \in {"reporter", "planner"}
        BY <3>1, <3>3 DEF TeamGoto
      <4> QED
        BY <2>3, <3>1, <3>3, <4>1 DEF StepFacts, Agents
    <3> QED
      BY <3>2, <3>3
  <2>8. ASSUME NEW agent \in Agents, Work(r, agent)
        PROVE  StepFacts(node'[r], from'[r], state'[r].plan)
    <3>1. node[r] = agent
      BY <2>8 DEF Work
    <3>2. Undone(state[r].plan) # {}
      BY <2>3, <3>1, StepsOfPlan DEF StepFacts, First
    <3>3. PICK i \in Taken(state[r].plan) :
            state' = [state EXCEPT ![r].plan = WithResult(@, i, agent)]
      BY <2>8, <3>2 DEF Work
    <3>4. node'[r] = "research_team" /\ from'[r] = agent
      BY <1>1, <2>8, <3>1, <3>2, HandOffMoves DEF Work
    <3>5. state'[r].plan = WithResult(state[r].plan, i, agent)
      BY <1>1, <3>3 DEF TypeOK, State
    <3> QED
      BY <2>3, <3>1, <3>4, <3>5, TakenStep
  <2> QED
    BY <1>5, <2>4, <2>5, <2>6, <2>7, <2>8 DEF AgentStep, Research, Code, Agents
<1>6. CASE Restart
  <2>1. state' = state /\ from' = from /\ \A r \in Runs : node'[r] = node[r] \/ node'[r] = "lost"
    BY <1>6 DEF Restart
  <2> QED
    BY <1>2, <2>1 DEF StepInv, StepFacts, Agents
<1>7. CASE UNCHANGED vars
  BY <1>7, <1>2 DEF vars, StepInv
<1> QED
  BY <1>3, <1>4, <1>5, <1>6, <1>7 DEF Next

LEMMA StepsAlways == Spec => [](PlanInv /\ StepInv)
<1>1. Init => PlanInv /\ StepInv
  BY InitPlan, InitSteps
<1>2. (PlanInv /\ StepInv) /\ [Next]_vars => (PlanInv /\ StepInv)'
  BY StepPlan, StepSteps
<1> QED
  BY <1>1, <1>2, PTL DEF Spec

\* coder.go:60, researcher.go:61.  An agent that is dispatched finds a step: its panic
\* "no step found" is never reached.
THEOREM StepsAreFound == Spec => []NoStepFound
<1>1. PlanInv /\ StepInv => NoStepFound
  <2> SUFFICES ASSUME PlanInv, StepInv, NEW r \in Runs, node[r] \in Agents
               PROVE  Undone(state[r].plan) # {}
    BY DEF NoStepFound, Agents
  <2>1. state[r].plan \in Plan
    BY DEF PlanInv, TypeOK, State
  <2> QED
    BY <2>1, StepsOfPlan DEF StepInv, StepFacts, First
<1> QED
  BY <1>1, StepsAlways, PTL

\* research_team.go:44.  A step that an agent has worked on was one of its own, unless a
\* step of neither type comes before it.
THEOREM AgentsMatch == Spec => []RightAgent
<1>1. StepInv => RightAgent
  BY DEF StepInv, StepFacts, RightAgent, Agents
<1> QED
  BY <1>1, StepsAlways, PTL

\* reporter.go:52.  A plan that the team sends to the reporter has a result for every
\* step that is not passed over.
THEOREM ReportsAreWhole == Spec => []TeamReportsAll
<1>1. PlanInv /\ StepInv => TeamReportsAll
  <2> SUFFICES ASSUME PlanInv, StepInv, NEW r \in Runs,
                      node[r] = "reporter", from[r] = "research_team"
               PROVE  /\ Todo(state[r].plan) = {}
                      /\ Known(state[r].plan) = DOMAIN state[r].plan.steps
                           => Undone(state[r].plan) = {}
    BY DEF TeamReportsAll
  <2>1. state[r].plan \in Plan
    BY DEF PlanInv, TypeOK, State
  <2>2. Todo(state[r].plan) = {}
    BY DEF StepInv, StepFacts
  <2> QED
    BY <2>1, <2>2, StepsOfPlan DEF Todo
<1> QED
  BY <1>1, StepsAlways, PTL
=============================================================================
