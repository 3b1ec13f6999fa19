----------------------------- MODULE BatchNode -----------------------------
(***************************************************************************)
(* The batch node of compose/batch/batch: Node.invoke runs an inner graph  *)
(* once per input, the first one on the calling goroutine and the others   *)
(* on goroutines of their own behind a counting semaphore, collects the    *)
(* results from a buffered channel, and either returns the outputs, or the *)
(* first normal error, or one interrupt that bundles the interrupted tasks *)
(* with the state a later Invoke resumes from.                             *)
(*                                                                         *)
(* An input is its index, and the output of its task is that index, so an  *)
(* output slice is correct when it maps every index to itself.             *)
(***************************************************************************)
EXTENDS Integers, Sequences, FiniteSets

CONSTANTS N,               \* len(inputs)
          MaxConcurrency,  \* 0: sequential; > 0: size of the semaphore
          MaxInvocations   \* bound on the calls of Invoke: the first and the resumes

ASSUME BatchAssumption ==
    /\ N \in Nat
    /\ MaxConcurrency \in Nat
    /\ MaxInvocations \in Nat

Index == 0..(N - 1)
Zero == -1                 \* the zero value of O in a freshly allocated output slice
NoTask == -1
NoState == [completed |-> {}, interrupted |-> << >>]

\* What runner.Invoke may return for one task (external: the inner graph).
TaskResults == {"ok", "interrupt", "error"}

VARIABLES
    invocation,   \* how many times Invoke has been called
    pc,           \* "start", "compile", "launch", "main", "collect", "return"
    prevState,    \* the NodeInterruptState kept for the next call
    todo,         \* indicesToProcess
    pos,          \* how many of todo the launch loop has passed
    task,         \* status of each index's task in this call
    sem,          \* the tasks holding a slot of the semaphore
    resultCh,     \* the buffered result channel
    outputs,      \* the output slice of this call
    completedResults,
    interruptedIndices,
    normalErr,    \* the task whose normal error was received first
    outcome,      \* what the latest call returned
    last          \* history: how the latest run of each task ended

callVars == <<invocation, prevState, todo>>
collectVars == <<outputs, completedResults, interruptedIndices, normalErr>>
vars == <<invocation, pc, prevState, todo, pos, task, sem, resultCh, outputs,
          completedResults, interruptedIndices, normalErr, outcome, last>>

Running == {i \in Index : task[i] \in {"main", "running"}}
Spawned == {i \in Index : task[i] = "spawned"}
ToSet(s) == {s[k] : k \in DOMAIN s}

Init ==
    /\ invocation = 0
    /\ pc = "start"
    /\ prevState = NoState
    /\ todo = << >>
    /\ pos = 0
    /\ task = [i \in Index |-> "none"]
    /\ sem = {}
    /\ resultCh = << >>
    /\ outputs = [i \in Index |-> Zero]
    /\ completedResults = {}
    /\ interruptedIndices = << >>
    /\ normalErr = NoTask
    /\ outcome = "none"
    /\ last = [i \in Index |-> "none"]

-----------------------------------------------------------------------------
(* Decisions of the code, each under its own name.  The operator defined   *)
(* just before one of them is a slip a programmer could make in its place. *)

SlotFreeOffByOne == Cardinality(sem) <= MaxConcurrency
\* sem <- struct{}{} goes through.
SlotFree == Cardinality(sem) < MaxConcurrency

SlotsKept(i) == sem
\* defer func() { <-sem }()
SlotsWithout(i) == sem \ {i}

\* resultCh := make(chan taskResult, len(indicesToProcess)) takes one more result.
ChannelHasRoom == Len(resultCh) < Len(todo)

\* Does the launch loop run this task on the calling goroutine?
OnCaller == MaxConcurrency = 0 \/ pos = 0

\* The indices a resumed call processes again.
ResumeIndices == prevState.interrupted

RestoreNothing == {}
\* The indices whose outputs a resumed call copies from the saved state.
RestoreIndices == prevState.completed

CompletedOnReceipt(i, r) == completedResults \cup {i}
CompletedWith(i, r) == completedResults \cup (IF r = "ok" THEN {i} ELSE {})

VerdictInterruptFirst ==
    IF interruptedIndices # << >> THEN "interrupted"
    ELSE IF normalErr # NoTask THEN "error" ELSE "ok"
\* Which of its three ways of returning the collected results call for.
Verdict ==
    IF normalErr # NoTask THEN "error"
    ELSE IF interruptedIndices # << >> THEN "interrupted" ELSE "ok"

-----------------------------------------------------------------------------
\* The local state every call of invoke starts from.
FreshCall(indices, restored) ==
    /\ invocation < MaxInvocations
    /\ invocation' = invocation + 1
    /\ todo' = indices
    /\ pos' = 0
    /\ task' = [i \in Index |-> "none"]
    /\ sem' = {}
    /\ resultCh' = << >>
    /\ outputs' = [i \in Index |-> IF i \in restored THEN i ELSE Zero]
    /\ completedResults' = {}
    /\ interruptedIndices' = << >>
    /\ normalErr' = NoTask
    /\ pc' = "compile"
    /\ outcome' = "none"

FirstInvoke ==
    /\ pc = "start"
    /\ invocation = 0
    /\ FreshCall([k \in 1..N |-> k - 1], {})
    /\ UNCHANGED <<prevState, last>>

ResumeInvoke ==
    /\ pc = "return"
    /\ outcome = "interrupted"
    /\ FreshCall(ResumeIndices, RestoreIndices)
    /\ last' = [i \in Index |-> IF i \in ToSet(prevState.interrupted) THEN "none" ELSE last[i]]
    /\ UNCHANGED prevState

\* Compiling the inner task may fail.  With nothing to process the code returns
\* here; the empty loops below come to the same.
Compile ==
    /\ pc = "compile"
    /\ \/ pc' = "launch" /\ UNCHANGED outcome
       \/ pc' = "return" /\ outcome' = "error"
    /\ UNCHANGED <<callVars, collectVars, pos, task, sem, resultCh, last>>

-----------------------------------------------------------------------------
\* One turn of the launch loop that runs the task on the calling goroutine.
LaunchMain ==
    /\ pc = "launch"
    /\ pos < Len(todo)
    /\ OnCaller
    /\ pos' = pos + 1
    /\ task' = [task EXCEPT ![todo[pos + 1]] = "main"]
    /\ pc' = "main"
    /\ UNCHANGED <<callVars, collectVars, sem, resultCh, outcome, last>>

\* One turn of the launch loop that starts a goroutine and goes on.
LaunchGoroutine ==
    /\ pc = "launch"
    /\ pos < Len(todo)
    /\ ~OnCaller
    /\ pos' = pos + 1
    /\ task' = [task EXCEPT ![todo[pos + 1]] = "spawned"]
    /\ UNCHANGED <<callVars, collectVars, pc, sem, resultCh, outcome, last>>

LaunchDone ==
    /\ pc = "launch"
    /\ pos = Len(todo)
    /\ pc' = "collect"
    /\ UNCHANGED <<callVars, collectVars, pos, task, sem, resultCh, outcome, last>>

\* sem <- struct{}{}
Acquire(i) ==
    /\ task[i] = "spawned"
    /\ SlotFree
    /\ sem' = sem \cup {i}
    /\ task' = [task EXCEPT ![i] = "running"]
    /\ UNCHANGED <<callVars, collectVars, pc, pos, resultCh, outcome, last>>

\* runTask ends: the result is sent once the channel has room for it, wg.Done runs and
\* a goroutine gives its slot back.
Finish(i, r) ==
    /\ i \in Running
    /\ ChannelHasRoom
    /\ resultCh' = Append(resultCh, [index |-> i, result |-> r])
    /\ last' = [last EXCEPT ![i] = r]
    /\ sem' = SlotsWithout(i)
    /\ pc' = IF task[i] = "main" THEN "launch" ELSE pc
    /\ task' = [task EXCEPT ![i] = "done"]
    /\ UNCHANGED <<callVars, collectVars, pos, outcome>>

-----------------------------------------------------------------------------
Collect ==
    /\ pc = "collect"
    /\ resultCh # << >>
    /\ resultCh' = Tail(resultCh)
    /\ LET i == Head(resultCh).index
           r == Head(resultCh).result
       IN  /\ outputs' = IF r = "ok" THEN [outputs EXCEPT ![i] = i] ELSE outputs
           /\ completedResults' = CompletedWith(i, r)
           /\ interruptedIndices' = IF r = "interrupt" THEN Append(interruptedIndices, i)
                                                       ELSE interruptedIndices
           /\ normalErr' = IF r = "error" /\ normalErr = NoTask THEN i ELSE normalErr
    /\ UNCHANGED <<callVars, pc, pos, task, sem, outcome, last>>

\* The channel is closed (the wait group is at zero) and drained.
Return ==
    /\ pc = "collect"
    /\ resultCh = << >>
    /\ Running \cup Spawned = {}
    /\ pc' = "return"
    /\ outcome' = Verdict
    /\ prevState' = IF Verdict = "interrupted"
                    THEN [completed |-> completedResults, interrupted |-> interruptedIndices]
                    ELSE prevState
    /\ UNCHANGED <<invocation, todo, collectVars, pos, task, sem, resultCh, last>>

-----------------------------------------------------------------------------
Step ==
    \/ FirstInvoke
    \/ Compile
    \/ LaunchMain
    \/ LaunchGoroutine
    \/ LaunchDone
    \/ \E i \in Index : Acquire(i)
    \/ \E i \in Index, r \in TaskResults : Finish(i, r)
    \/ Collect
    \/ Return

Next == Step \/ ResumeInvoke

Spec == Init /\ [][Next]_vars

\* The Go scheduler runs every goroutine that can run, and every inner task
\* returns; whether anyone resumes an interrupted batch is up to the caller.
FairSpec == Spec /\ WF_vars(Step)

-----------------------------------------------------------------------------
\* Types of the state.
TypeOK ==
    /\ invocation \in 0..MaxInvocations
    /\ pc \in {"start", "compile", "launch", "main", "collect", "return"}
    /\ prevState \in [completed : SUBSET Index, interrupted : Seq(Index)]
    /\ todo \in Seq(Index)
    /\ pos \in 0..Len(todo)
    /\ task \in [Index -> {"none", "main", "spawned", "running", "done"}]
    /\ sem \in SUBSET Index
    /\ resultCh \in Seq([index : Index, result : TaskResults])
    /\ outputs \in [Index -> Index \cup {Zero}]
    /\ completedResults \in SUBSET Index
    /\ interruptedIndices \in Seq(Index)
    /\ normalErr \in Index \cup {NoTask}
    /\ outcome \in {"none", "ok", "interrupted", "error"}
    /\ last \in [Index -> TaskResults \cup {"none"}]

\* How many inner tasks may run at the same time.
Limit == IF MaxConcurrency = 0 THEN 1 ELSE MaxConcurrency

\* MaxConcurrency is a promise about the whole node, the task on the calling
\* goroutine included, which holds no slot of the semaphore.
ConcurrencyBound == Cardinality(Running) <= Limit

\* The state saved with an interrupt splits the tasks of the call in two:
\* each is either completed or to be run again, and the latter exactly once.
SavedStateSplits ==
    outcome = "interrupted" =>
        /\ ToSet(prevState.interrupted) \cup prevState.completed = ToSet(todo)
        /\ ToSet(prevState.interrupted) \cap prevState.completed = {}
        /\ Cardinality(ToSet(prevState.interrupted)) = Len(prevState.interrupted)

\* A batch that is interrupted at most once hands every output back in place.
OutputsAfterOneResume ==
    (outcome = "ok" /\ invocation <= 2) => \A i \in Index : outputs[i] = i

\* types.go:84-86: the results of tasks that completed before the interrupt
\* are restored, so a successful batch never returns a zero value.
NoResultLost == outcome = "ok" => \A i \in Index : outputs[i] = i

\* Every call of Invoke returns: no goroutine is left without a slot or without
\* room in the result channel, and the closer of the channel sees them all.
InvokeReturns == (pc = "compile") ~> (pc = "return")

\* The contract's state of a task that is not running, by how its latest run ended.
StateAfter == [none |-> "todo", ok |-> "done", interrupt |-> "paused", error |-> "failed"]

StateOfTask(i) == IF i \in Running THEN "running" ELSE StateAfter[last[i]]

Contract == INSTANCE BatchContract
    WITH state <- [i \in Index |-> StateOfTask(i)],
         call <- IF outcome = "none" THEN "open" ELSE outcome

\* The node keeps the contract the containing graph relies on: a task that succeeded in
\* an earlier call is never run again by a resume, and a returned verdict is the one
\* the tasks' own outcomes demand.
ImplementsContract == Contract!Spec
=============================================================================
