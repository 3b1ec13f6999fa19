-------------------------- MODULE BatchNode_proofs --------------------------
(***************************************************************************)
(* Theorems about the batch node, for every number of inputs, every limit  *)
(* and every number of resumes.                                            *)
(***************************************************************************)
EXTENDS BatchNode, FiniteSetTheorems, TLAPS

ResultRec == [index : Index, result : TaskResults]

\* The facts about the constants that the steps below use.
LEMMA Constants ==
    /\ N \in Nat /\ MaxConcurrency \in Nat /\ MaxInvocations \in Nat
    /\ \A i \in Index : i \in Int /\ i # NoTask
    /\ IsFiniteSet(Index)
<1>1. IsFiniteSet(Index)
  BY BatchAssumption, FS_Interval DEF Index
<1> QED
  BY <1>1, BatchAssumption DEF Index, NoTask

-----------------------------------------------------------------------------
(* Types                                                                   *)

LEMMA FreshCallType ==
  ASSUME TypeOK, NEW indices \in Seq(Index), NEW restored \in SUBSET Index,
         FreshCall(indices, restored)
  PROVE  /\ invocation' \in 0..MaxInvocations
         /\ pc' = "compile"
         /\ todo' \in Seq(Index) /\ pos' \in 0..Len(todo')
         /\ task' \in [Index -> {"none", "main", "spawned", "running", "done"}]
         /\ sem' \in SUBSET Index
         /\ resultCh' \in Seq([index : Index, result : TaskResults])
         /\ outputs' \in [Index -> Index \cup {Zero}]
         /\ completedResults' \in SUBSET Index
         /\ interruptedIndices' \in Seq(Index)
         /\ normalErr' \in Index \cup {NoTask}
         /\ outcome' = "none"
<1>1. invocation' \in 0..MaxInvocations
  BY Constants DEF FreshCall, TypeOK
<1>2. outputs' \in [Index -> Index \cup {Zero}]
  BY DEF FreshCall
<1>3. /\ todo' \in Seq(Index) /\ pos' \in 0..Len(todo')
  BY DEF FreshCall
<1> QED
  BY <1>1, <1>2, <1>3 DEF FreshCall

LEMMA InitType == Init => TypeOK
<1> SUFFICES ASSUME Init PROVE TypeOK
  OBVIOUS
<1>1. invocation \in 0..MaxInvocations
  BY Constants DEF Init
<1>2. prevState \in [completed : SUBSET Index, interrupted : Seq(Index)]
  BY DEF Init, NoState
<1> QED
  BY <1>1, <1>2 DEF Init, TypeOK

LEMMA StepType ==
  ASSUME TypeOK, [Next]_vars
  PROVE  TypeOK'
<1>1. CASE FirstInvoke
  <2>1. [k \in 1..N |-> k - 1] \in Seq(Index)
    BY Constants DEF Index
  <2>2. {} \in SUBSET Index
    OBVIOUS
  <2> QED
    BY <1>1, <2>1, <2>2, FreshCallType DEF FirstInvoke, TypeOK
<1>2. CASE ResumeInvoke
  <2>1. ResumeIndices \in Seq(Index) /\ RestoreIndices \in SUBSET Index
    BY DEF TypeOK, ResumeIndices, RestoreIndices
  <2>2. last' \in [Index -> TaskResults \cup {"none"}]
    BY <1>2 DEF ResumeInvoke, TypeOK
  <2> QED
    BY <1>2, <2>1, <2>2, FreshCallType DEF ResumeInvoke, TypeOK
<1>3. CASE Compile
  BY <1>3 DEF Compile, TypeOK, callVars, collectVars
<1>4. CASE LaunchMain
  <2>1. pos' \in 0..Len(todo) /\ todo[pos + 1] \in Index
    BY <1>4 DEF LaunchMain, TypeOK
  <2> QED
    BY <1>4, <2>1 DEF LaunchMain, TypeOK, callVars, collectVars
<1>5. CASE LaunchGoroutine
  <2>1. pos' \in 0..Len(todo) /\ todo[pos + 1] \in Index
    BY <1>5 DEF LaunchGoroutine, TypeOK
  <2> QED
    BY <1>5, <2>1 DEF LaunchGoroutine, TypeOK, callVars, collectVars
<1>6. CASE LaunchDone
  BY <1>6 DEF LaunchDone, TypeOK, callVars, collectVars
<1>7. ASSUME NEW i \in Index, Acquire(i) PROVE TypeOK'
  BY <1>7 DEF Acquire, TypeOK, callVars, collectVars
<1>8. ASSUME NEW i \in Index, NEW r \in TaskResults, Finish(i, r) PROVE TypeOK'
  <2>1. resultCh' \in Seq([index : Index, result : TaskResults])
    BY <1>8 DEF Finish, TypeOK
  <2>2. sem' \in SUBSET Index /\ last' \in [Index -> TaskResults \cup {"none"}]
    BY <1>8 DEF Finish, TypeOK, SlotsWithout
  <2> QED
    BY <1>8, <2>1, <2>2 DEF Finish, TypeOK, callVars, collectVars
<1>9. CASE Collect
  <2> DEFINE i == Head(resultCh).index
             r == Head(resultCh).result
  <2>1. i \in Index /\ r \in TaskResults /\ resultCh' \in Seq(ResultRec)
    <3>1. resultCh \in Seq(ResultRec) /\ resultCh # << >> /\ resultCh' = Tail(resultCh)
      BY <1>9 DEF Collect, TypeOK, ResultRec
    <3>2. Head(resultCh) \in ResultRec /\ Tail(resultCh) \in Seq(ResultRec)
      BY <3>1
    <3> QED
      BY <3>1, <3>2 DEF ResultRec
  <2> HIDE DEF i, r
  <2>2. outputs' = IF r = "ok" THEN [outputs EXCEPT ![i] = i] ELSE outputs
    BY <1>9 DEF Collect, i, r
  <2>3. completedResults' \in SUBSET Index
    BY <1>9, <2>1 DEF Collect, CompletedWith, TypeOK, i, r
  <2>4. interruptedIndices' \in Seq(Index)
    BY <1>9, <2>1 DEF Collect, TypeOK, i, r
  <2>5. normalErr' \in Index \cup {NoTask}
    BY <1>9, <2>1 DEF Collect, TypeOK, i, r
  <2>6. outputs' \in [Index -> Index \cup {Zero}]
    BY <2>1, <2>2 DEF TypeOK
  <2> QED
    BY <1>9, <2>1, <2>3, <2>4, <2>5, <2>6 DEF Collect, TypeOK, callVars, ResultRec
<1>10. CASE Return
  <2>1. prevState' \in [completed : SUBSET Index, interrupted : Seq(Index)]
    BY <1>10 DEF Return, TypeOK
  <2>2. outcome' \in {"ok", "interrupted", "error"}
    BY <1>10 DEF Return, Verdict
  <2> QED
    BY <1>10, <2>1, <2>2 DEF Return, TypeOK, collectVars
<1>11. CASE UNCHANGED vars
  BY <1>11 DEF TypeOK, vars
<1> QED
  BY <1>1, <1>2, <1>3, <1>4, <1>5, <1>6, <1>7, <1>8, <1>9, <1>10, <1>11
     DEF Next, Step

\* Every variable of Node.invoke keeps its type; in particular every index in the
\* result channel, the saved state and the work list is a position of the input slice.
THEOREM TypeCorrect == Spec => []TypeOK
<1>1. Init => TypeOK
  BY InitType
<1>2. TypeOK /\ [Next]_vars => TypeOK'
  BY StepType
<1> QED
  BY <1>1, <1>2, PTL DEF Spec
-----------------------------------------------------------------------------
(* The bound on the tasks that run together                                *)

\* The goroutines that run a task all hold a slot.
RunnersHoldSlots == \A i \in Index : task[i] = "running" => i \in sem

\* Until the caller's own task is over, and in sequential mode, there are none.
NoGoroutinesYet ==
    (MaxConcurrency = 0 \/ pos = 0 \/ pc = "main") =>
        \A i \in Index : task[i] \notin {"spawned", "running"}

\* The calling goroutine runs one task, and waits for it.
OneCallerTask ==
    /\ \A i \in Index : task[i] = "main" => pc = "main"
    /\ \A i, j \in Index : (task[i] = "main" /\ task[j] = "main") => i = j

SlotsBounded == Cardinality(sem) <= MaxConcurrency

SlotInv == RunnersHoldSlots /\ NoGoroutinesYet /\ OneCallerTask /\ SlotsBounded

LEMMA SlotFacts ==
  ASSUME TypeOK
  PROVE  /\ IsFiniteSet(sem) /\ Cardinality(sem) \in Nat
         /\ \A S \in SUBSET sem : Cardinality(S) <= Cardinality(sem)
         /\ \A i : Cardinality(sem \cup {i}) <= Cardinality(sem) + 1
<1>1. IsFiniteSet(sem)
  BY Constants, FS_Subset DEF TypeOK
<1>2. \A S \in SUBSET sem : Cardinality(S) <= Cardinality(sem)
  BY <1>1, FS_Subset
<1>3. Cardinality(sem) \in Nat
  BY <1>1, FS_CardinalityType
<1>4. \A i : Cardinality(sem \cup {i}) <= Cardinality(sem) + 1
  BY <1>1, <1>3, FS_AddElement
<1> QED
  BY <1>1, <1>2, <1>3, <1>4

LEMMA FreshCallSlots ==
  ASSUME TypeOK, NEW indices, NEW restored, FreshCall(indices, restored)
  PROVE  SlotInv'
<1>1. Cardinality({}) = 0
  BY FS_EmptySet
<1>2. \A i \in Index : task'[i] = "none"
  BY DEF FreshCall
<1>3. SlotsBounded'
  BY <1>1, Constants DEF FreshCall, SlotsBounded
<1> QED
  BY <1>2, <1>3 DEF SlotInv, RunnersHoldSlots, NoGoroutinesYet, OneCallerTask

LEMMA StepSlots ==
  ASSUME TypeOK, SlotInv, [Next]_vars
  PROVE  SlotInv'
<1> USE DEF SlotInv
<1>1. CASE FirstInvoke \/ ResumeInvoke
  BY <1>1, FreshCallSlots DEF FirstInvoke, ResumeInvoke
<1>2. CASE LaunchMain
  <2>1. \A i \in Index : task[i] # "main"
    BY <1>2 DEF LaunchMain, OneCallerTask
  <2>2. \A i \in Index : task[i] \notin {"spawned", "running"}
    BY <1>2 DEF LaunchMain, OnCaller, NoGoroutinesYet
  <2>3. \A i \in Index : task'[i] = task[i] \/ (i = todo[pos + 1] /\ task'[i] = "main")
    BY <1>2 DEF LaunchMain, TypeOK
  <2> QED
    BY <1>2, <2>1, <2>2, <2>3
       DEF LaunchMain, RunnersHoldSlots, NoGoroutinesYet, OneCallerTask, SlotsBounded
<1>3. CASE LaunchGoroutine
  <2>1. MaxConcurrency # 0 /\ pos' # 0 /\ pc' # "main"
    BY <1>3, Constants DEF LaunchGoroutine, OnCaller, TypeOK
  <2>2. \A i \in Index : task'[i] = task[i] \/ task'[i] = "spawned"
    BY <1>3 DEF LaunchGoroutine, TypeOK
  <2> QED
    BY <1>3, <2>1, <2>2
       DEF LaunchGoroutine, RunnersHoldSlots, NoGoroutinesYet, OneCallerTask, SlotsBounded
<1>4. ASSUME NEW i \in Index, Acquire(i) PROVE SlotInv'
  <2>1. \A j \in Index : task'[j] = IF j = i THEN "running" ELSE task[j]
    BY <1>4 DEF Acquire, TypeOK
  <2>2. SlotsBounded'
    <3>1. sem' = sem \cup {i} /\ Cardinality(sem) < MaxConcurrency
      BY <1>4 DEF Acquire, SlotFree
    <3>2. Cardinality(sem') <= Cardinality(sem) + 1 /\ Cardinality(sem') \in Nat
      BY <3>1, SlotFacts, FS_AddElement, FS_CardinalityType
    <3> QED
      BY <3>1, <3>2, SlotFacts, Constants DEF SlotsBounded
  <2> QED
    BY <1>4, <2>1, <2>2 DEF Acquire, RunnersHoldSlots, NoGoroutinesYet, OneCallerTask
<1>5. ASSUME NEW i \in Index, NEW r \in TaskResults, Finish(i, r) PROVE SlotInv'
  <2>1. \A j \in Index : task'[j] = IF j = i THEN "done" ELSE task[j]
    BY <1>5 DEF Finish, TypeOK
  <2>2. sem' \in SUBSET sem /\ \A j \in sem : j # i => j \in sem'
    BY <1>5 DEF Finish, SlotsWithout
  <2>3. SlotsBounded'
    <3>1. Cardinality(sem') \in Nat /\ Cardinality(sem') <= Cardinality(sem)
      BY <2>2, SlotFacts, FS_Subset, FS_CardinalityType
    <3> QED
      BY <3>1, SlotFacts, Constants DEF SlotsBounded
  <2>4. RunnersHoldSlots'
    BY <2>1, <2>2 DEF RunnersHoldSlots
  <2>5. OneCallerTask'
    BY <1>5, <2>1 DEF Finish, OneCallerTask
  <2>6. NoGoroutinesYet'
    BY <1>5, <2>1 DEF Finish, NoGoroutinesYet
  <2> QED
    BY <2>3, <2>4, <2>5, <2>6
<1>6. CASE Compile \/ LaunchDone \/ Collect \/ Return \/ UNCHANGED vars
  <2>1. UNCHANGED <<task, pos, sem>> /\ (pc' = "main" <=> pc = "main")
    BY <1>6 DEF Compile, LaunchDone, Collect, Return, vars, callVars, collectVars
  <2> QED
    BY <2>1 DEF RunnersHoldSlots, NoGoroutinesYet, OneCallerTask, SlotsBounded
<1> QED
  BY <1>1, <1>2, <1>3, <1>4, <1>5, <1>6 DEF Next, Step

LEMMA SlotInvBounds ==
  ASSUME TypeOK, SlotInv
  PROVE  ConcurrencyBound
<1> USE DEF SlotInv
<1>1. CASE \E i \in Index : task[i] = "main"
  <2>1. PICK i \in Index : task[i] = "main"
    BY <1>1
  <2>2. Running = {i}
    BY <2>1 DEF Running, OneCallerTask, NoGoroutinesYet
  <2>3. Cardinality(Running) = 1
    BY <2>2, FS_Singleton
  <2> QED
    BY <2>3, Constants DEF ConcurrencyBound, Limit
<1>2. CASE \A i \in Index : task[i] # "main"
  <2>1. Running \in SUBSET sem
    BY <1>2 DEF Running, RunnersHoldSlots
  <2>2. Cardinality(Running) <= Cardinality(sem) /\ Cardinality(Running) \in Nat
    BY <2>1, SlotFacts, FS_Subset, FS_CardinalityType
  <2> QED
    BY <2>2, SlotFacts, Constants DEF ConcurrencyBound, Limit, SlotsBounded
<1> QED
  BY <1>1, <1>2

LEMMA InitSlots == Init => SlotInv
<1> SUFFICES ASSUME Init PROVE SlotInv
  OBVIOUS
<1>1. SlotsBounded
  BY FS_EmptySet, Constants DEF Init, SlotsBounded
<1> QED
  BY <1>1 DEF Init, SlotInv, RunnersHoldSlots, NoGoroutinesYet, OneCallerTask

\* node.go: maxConcurrency bounds the tasks that run together, the one on the
\* calling goroutine included although it takes no slot of the semaphore.
THEOREM ConcurrencyBounded == Spec => []ConcurrencyBound
<1>1. Init => TypeOK /\ SlotInv
  BY InitType, InitSlots
<1>2. TypeOK /\ SlotInv /\ [Next]_vars => TypeOK' /\ SlotInv'
  BY StepType, StepSlots
<1>3. TypeOK /\ SlotInv => ConcurrencyBound
  BY SlotInvBounds
<1> QED
  BY <1>1, <1>2, <1>3, PTL DEF Spec
-----------------------------------------------------------------------------
(* What becomes of every task of a call                                    *)

Distinct(s) == \A j, k \in 1..Len(s) : s[j] = s[k] => j = k

InChannel(i) == \E k \in 1..Len(resultCh) : resultCh[k].index = i

\* The collect loop has seen the result of this task.
Received(i) == task[i] = "done" /\ ~InChannel(i)

\* The work list names no index twice, and the launch loop passes it in order.
WorkList ==
    /\ Distinct(todo)
    /\ \A k \in 1..Len(todo) : task[todo[k]] = "none" <=> k > pos
    /\ \A i \in Index : i \notin ToSet(todo) => task[i] = "none"

Phases ==
    /\ pc = "start" => invocation = 0 /\ todo = << >> /\ \A i \in Index : last[i] = "none"
    /\ pc = "compile" => pos = 0
    /\ pc = "collect" => pos = Len(todo)
    /\ pc = "return" <=> outcome # "none"
    /\ pc = "return" => \A i \in Index : task[i] \in {"none", "done"}

\* A task of the call has an outcome exactly when it is done; what is not in the
\* call succeeded in an earlier one.
Endings ==
    \A i \in Index :
        /\ i \in ToSet(todo) => (last[i] = "none" <=> task[i] # "done")
        /\ (i \notin ToSet(todo) /\ pc # "start") => last[i] = "ok"

\* The channel holds one result of each task that is done and not yet received.
Channel ==
    /\ \A j, k \in 1..Len(resultCh) : resultCh[j].index = resultCh[k].index => j = k
    /\ \A k \in 1..Len(resultCh) :
           /\ task[resultCh[k].index] = "done"
           /\ last[resultCh[k].index] = resultCh[k].result

\* The collect loop has sorted what it received by how it ended.
Gathered ==
    /\ \A i \in Index : i \in completedResults <=> Received(i) /\ last[i] = "ok"
    /\ \A i \in Index : i \in ToSet(interruptedIndices) <=> Received(i) /\ last[i] = "interrupt"
    /\ normalErr # NoTask <=> \E i \in Index : Received(i) /\ last[i] = "error"
    /\ Distinct(interruptedIndices)

\* A call that returned a verdict has received every result, and an interrupt
\* left its two lists in the saved state.
Verdicts ==
    outcome \in {"ok", "interrupted"} =>
        /\ resultCh = << >>
        /\ normalErr = NoTask
        /\ \A i \in Index : i \in ToSet(todo) => task[i] = "done"
        /\ outcome = "ok" => interruptedIndices = << >>
        /\ outcome = "interrupted" => prevState = [completed |-> completedResults,
                                                   interrupted |-> interruptedIndices]

\* Up to the second call, every output outside the work list has been restored.
OutputsKept ==
    /\ \A i \in completedResults : outputs[i] = i
    /\ pc # "start" => invocation >= 1
    /\ (pc # "start" /\ invocation = 1) => \A i \in Index : i \in ToSet(todo)
    /\ (pc # "start" /\ invocation <= 2) =>
           \A i \in Index : i \notin ToSet(todo) => outputs[i] = i

CallInv ==
    WorkList /\ Phases /\ Endings /\ Channel /\ Gathered /\ Verdicts /\ OutputsKept

LEMMA SetOfSeq ==
  ASSUME NEW S, NEW s \in Seq(S)
  PROVE  /\ \A x : x \in ToSet(s) <=> \E k \in 1..Len(s) : s[k] = x
         /\ ToSet(s) \subseteq S
  BY DEF ToSet

LEMMA AppendFacts ==
  ASSUME NEW S, NEW s \in Seq(S), NEW x \in S
  PROVE  /\ \A y : y \in ToSet(Append(s, x)) <=> y \in ToSet(s) \/ y = x
         /\ Distinct(s) /\ x \notin ToSet(s) => Distinct(Append(s, x))
<1>1. /\ Append(s, x) \in Seq(S)
      /\ Len(Append(s, x)) = Len(s) + 1 /\ Len(s) \in Nat
      /\ Append(s, x)[Len(s) + 1] = x
      /\ \A k \in 1..Len(s) : Append(s, x)[k] = s[k]
  OBVIOUS
<1> DEFINE t == Append(s, x)
<1> HIDE DEF t
<1>2. \A y : y \in ToSet(t) <=> y \in ToSet(s) \/ y = x
  <2>1. \A y : y \in ToSet(t) <=> \E k \in 1..Len(t) : t[k] = y
    BY <1>1, SetOfSeq DEF t
  <2>2. \A k \in 1..Len(t) : k \in 1..Len(s) \/ k = Len(s) + 1
    BY <1>1 DEF t
  <2>3. \A k \in 1..Len(s) : k \in 1..Len(t) /\ t[k] = s[k]
    BY <1>1 DEF t
  <2>4. Len(s) + 1 \in 1..Len(t) /\ t[Len(s) + 1] = x
    BY <1>1 DEF t
  <2>5. \A y : y \in ToSet(s) <=> \E k \in 1..Len(s) : s[k] = y
    BY SetOfSeq
  <2> QED
    BY <2>1, <2>2, <2>3, <2>4, <2>5
<1>3. Distinct(s) /\ x \notin ToSet(s) => Distinct(Append(s, x))
  BY <1>1, SetOfSeq DEF Distinct
<1> QED
  BY <1>2, <1>3 DEF t

LEMMA ChannelType ==
  ASSUME TypeOK
  PROVE  /\ resultCh \in Seq(ResultRec)
         /\ \A k \in 1..Len(resultCh) : /\ resultCh[k].index \in Index
                                        /\ resultCh[k].result \in TaskResults
<1>1. resultCh \in Seq(ResultRec)
  BY DEF TypeOK, ResultRec
<1>2. \A k \in 1..Len(resultCh) : resultCh[k] \in ResultRec
  BY <1>1
<1> QED
  BY <1>1, <1>2 DEF ResultRec

LEMMA InitCall == Init => CallInv
<1> SUFFICES ASSUME Init PROVE CallInv
  OBVIOUS
<1>1. ToSet(<< >>) = {} /\ Len(<< >>) = 0 /\ DOMAIN << >> = 1..0
  BY DEF ToSet
<1>2. WorkList
  BY <1>1 DEF Init, WorkList, Distinct
<1>3. Phases
  BY DEF Init, Phases
<1>4. Endings /\ Verdicts /\ OutputsKept
  BY <1>1 DEF Init, Endings, Verdicts, OutputsKept
<1>5. Channel
  BY <1>1 DEF Init, Channel
<1>6. Gathered
  BY <1>1 DEF Init, Gathered, Distinct, Received
<1> QED
  BY <1>2, <1>3, <1>4, <1>5, <1>6 DEF CallInv

\* A fresh call that takes up indices, all others having succeeded before.
LEMMA FreshCallInv ==
  ASSUME TypeOK, NEW indices \in Seq(Index), NEW restored, FreshCall(indices, restored),
         Distinct(indices),
         \A i \in Index : last'[i] = IF i \in ToSet(indices) THEN "none" ELSE "ok"
  PROVE  /\ WorkList' /\ Phases' /\ Endings' /\ Channel' /\ Gathered' /\ Verdicts'
         /\ \A i \in Index : i \in restored => outputs'[i] = i
<1>1. ToSet(<< >>) = {} /\ Len(<< >>) = 0
  BY DEF ToSet
<1>2. /\ todo' = indices /\ pos' = 0 /\ pc' = "compile" /\ outcome' = "none"
      /\ resultCh' = << >> /\ interruptedIndices' = << >> /\ completedResults' = {}
      /\ normalErr' = NoTask
      /\ \A i \in Index : task'[i] = "none"
      /\ \A i \in Index : i \in restored => outputs'[i] = i
  BY DEF FreshCall
<1>3. WorkList'
  <2>1. \A k \in 1..Len(indices) : indices[k] \in Index
    OBVIOUS
  <2> QED
    BY <1>2, <2>1 DEF WorkList, Distinct
<1>4. Phases' /\ Verdicts'
  BY <1>2 DEF Phases, Verdicts
<1>5. Endings'
  BY <1>2 DEF Endings
<1>6. Channel'
  BY <1>1, <1>2 DEF Channel
<1>7. Gathered'
  <2>1. \A i \in Index : ~Received(i)'
    BY <1>2 DEF Received
  <2>2. Distinct(interruptedIndices')
    BY <1>1, <1>2 DEF Distinct
  <2> QED
    BY <1>1, <1>2, <2>1, <2>2 DEF Gathered
<1> QED
  BY <1>2, <1>3, <1>4, <1>5, <1>6, <1>7

LEMMA FirstInvokeCall ==
  ASSUME TypeOK, CallInv, FirstInvoke
  PROVE  CallInv'
<1> DEFINE all == [k \in 1..N |-> k - 1]
<1>1. all \in Seq(Index) /\ Len(all) = N /\ \A k \in 1..N : all[k] = k - 1
  BY Constants DEF Index
<1>2. FreshCall(all, {}) /\ invocation = 0 /\ pc = "start" /\ UNCHANGED <<prevState, last>>
  BY DEF FirstInvoke
<1> HIDE DEF all
<1>3. Distinct(all)
  BY <1>1, Constants DEF Distinct
<1>4. \A i \in Index : i \in ToSet(all)
  <2> TAKE i \in Index
  <2>1. i + 1 \in 1..N /\ (i + 1) - 1 = i
    BY Constants DEF Index
  <2> QED
    BY <1>1, <2>1, SetOfSeq
<1>5. \A i \in Index : last'[i] = IF i \in ToSet(all) THEN "none" ELSE "ok"
  BY <1>2, <1>4 DEF CallInv, Phases
<1>6. WorkList' /\ Phases' /\ Endings' /\ Channel' /\ Gathered' /\ Verdicts'
  BY <1>1, <1>2, <1>3, <1>5, FreshCallInv
<1>7. OutputsKept'
  BY <1>2, <1>4 DEF FreshCall, OutputsKept
<1> QED
  BY <1>6, <1>7 DEF CallInv

\* What an interrupt saved, in terms of how the tasks ended.
LEMMA SavedState ==
  ASSUME TypeOK, CallInv, outcome = "interrupted"
  PROVE  /\ pc = "return"
         /\ prevState.interrupted \in Seq(Index) /\ Distinct(prevState.interrupted)
         /\ \A i \in Index :
               /\ i \in ToSet(prevState.interrupted) <=> i \in ToSet(todo) /\ last[i] = "interrupt"
               /\ i \in prevState.completed <=> i \in ToSet(todo) /\ last[i] = "ok"
               /\ i \in ToSet(todo) => last[i] \in {"ok", "interrupt"}
<1>1. pc = "return"
  BY DEF CallInv, Phases
<1>2. /\ prevState.interrupted = interruptedIndices /\ prevState.completed = completedResults
      /\ normalErr = NoTask /\ resultCh = << >>
      /\ \A i \in Index : i \in ToSet(todo) => task[i] = "done"
  BY DEF CallInv, Verdicts
<1>3. \A i \in Index : i \in ToSet(todo) <=> Received(i)
  <2>1. Len(resultCh) = 0
    BY <1>2
  <2>2. \A i \in Index : ~InChannel(i)
    BY <2>1 DEF InChannel
  <2> QED
    BY <1>2, <2>2 DEF CallInv, WorkList, Received
<1>4. \A i \in Index : i \in ToSet(todo) => last[i] \in {"ok", "interrupt"}
  BY <1>2, <1>3 DEF CallInv, Gathered, Endings, TypeOK, TaskResults
<1> QED
  BY <1>1, <1>2, <1>3, <1>4 DEF CallInv, Gathered, TypeOK

LEMMA ResumeInvokeCall ==
  ASSUME TypeOK, CallInv, ResumeInvoke
  PROVE  CallInv'
<1> DEFINE again == prevState.interrupted
<1>1. /\ FreshCall(again, prevState.completed) /\ outcome = "interrupted"
      /\ last' = [i \in Index |-> IF i \in ToSet(again) THEN "none" ELSE last[i]]
  BY DEF ResumeInvoke, ResumeIndices, RestoreIndices
<1>2. again \in Seq(Index) /\ Distinct(again)
  BY <1>1, SavedState
<1>3. \A i \in Index : i \notin ToSet(again) => last[i] = "ok"
  BY <1>1, SavedState DEF CallInv, Endings
<1>4. \A i \in Index : last'[i] = IF i \in ToSet(again) THEN "none" ELSE "ok"
  BY <1>1, <1>3
<1>5. /\ WorkList' /\ Phases' /\ Endings' /\ Channel' /\ Gathered' /\ Verdicts'
      /\ \A i \in Index : i \in prevState.completed => outputs'[i] = i
  BY <1>1, <1>2, <1>4, FreshCallInv
<1>6. OutputsKept'
  <2>1. pc = "return" /\ invocation >= 1 /\ invocation' = invocation + 1
    BY <1>1, SavedState DEF CallInv, OutputsKept, FreshCall
  <2>2. todo' = again /\ completedResults' = {} /\ pc' = "compile" /\ invocation \in Nat
    BY <1>1 DEF FreshCall, TypeOK
  <2>3. invocation' <= 2 => \A i \in Index : i \in ToSet(todo)
    BY <2>1, <2>2 DEF CallInv, OutputsKept
  <2>4. invocation' <= 2 => \A i \in Index : i \notin ToSet(again) => i \in prevState.completed
    BY <1>1, <2>3, SavedState
  <2> QED
    BY <1>5, <2>1, <2>2, <2>4 DEF OutputsKept
<1> QED
  BY <1>5, <1>6 DEF CallInv

LEMMA LaunchCall ==
  ASSUME TypeOK, CallInv, LaunchMain \/ LaunchGoroutine
  PROVE  CallInv'
<1> DEFINE i == todo[pos + 1]
<1>1. /\ pc = "launch" /\ pc' \in {"launch", "main"} /\ pos < Len(todo) /\ pos' = pos + 1
      /\ UNCHANGED <<callVars, collectVars, resultCh, outcome, last>>
  BY DEF LaunchMain, LaunchGoroutine
<1>2. pos + 1 \in 1..Len(todo) /\ i \in Index /\ i \in ToSet(todo) /\ pos \in Nat
  BY <1>1, SetOfSeq DEF TypeOK
<1>3. \A j \in Index : IF j = i THEN task'[j] \in {"main", "spawned"} ELSE task'[j] = task[j]
  BY <1>2 DEF LaunchMain, LaunchGoroutine, TypeOK
<1>4. task[i] = "none"
  BY <1>2 DEF CallInv, WorkList
<1> HIDE DEF i
<1>5. WorkList'
  <2>1. \A k \in 1..Len(todo) : todo[k] \in Index /\ (todo[k] = i => k = pos + 1)
    BY <1>2 DEF CallInv, WorkList, Distinct, TypeOK, i
  <2>2. \A k \in 1..Len(todo) : task'[todo[k]] = "none" <=> k > pos + 1
    <3> TAKE k \in 1..Len(todo)
    <3>1. CASE k = pos + 1
      BY <3>1, <2>1, <1>2, <1>3 DEF i
    <3>2. CASE k # pos + 1
      BY <3>2, <2>1, <1>2, <1>3 DEF CallInv, WorkList
    <3> QED
      BY <3>1, <3>2
  <2> QED
    BY <1>1, <1>2, <1>3, <2>2 DEF CallInv, WorkList, callVars
<1>6. Phases'
  BY <1>1 DEF CallInv, Phases
<1>7. Endings'
  BY <1>1, <1>3, <1>4 DEF CallInv, Endings, callVars
<1>8. \A j \in Index : /\ task'[j] = "done" <=> task[j] = "done"
                       /\ Received(j)' <=> Received(j)
  BY <1>1, <1>3, <1>4 DEF Received, InChannel
<1>9. Channel'
  <2>1. \A k \in 1..Len(resultCh) : resultCh[k].index \in Index
    BY ChannelType
  <2> QED
    BY <1>1, <1>8, <2>1 DEF CallInv, Channel
<1>10. Gathered'
  BY <1>1, <1>8 DEF CallInv, Gathered, collectVars
<1>11. Verdicts'
  BY <1>1 DEF CallInv, Phases, Verdicts
<1>12. OutputsKept'
  BY <1>1 DEF CallInv, OutputsKept, callVars, collectVars
<1> QED
  BY <1>5, <1>6, <1>7, <1>9, <1>10, <1>11, <1>12 DEF CallInv

LEMMA AcquireCall ==
  ASSUME TypeOK, CallInv, NEW i \in Index, Acquire(i)
  PROVE  CallInv'
<1>1. /\ task[i] = "spawned"
      /\ UNCHANGED <<callVars, collectVars, pc, pos, resultCh, outcome, last>>
      /\ \A j \in Index : task'[j] = IF j = i THEN "running" ELSE task[j]
  BY DEF Acquire, TypeOK
<1>2. \A j \in Index : /\ task'[j] = "done" <=> task[j] = "done"
                       /\ task'[j] = "none" <=> task[j] = "none"
                       /\ Received(j)' <=> Received(j)
  BY <1>1 DEF Received, InChannel
<1>3. WorkList'
  <2>1. \A k \in 1..Len(todo) : todo[k] \in Index
    BY DEF TypeOK
  <2> QED
    BY <1>1, <1>2, <2>1 DEF CallInv, WorkList, callVars
<1>4. Phases'
  BY <1>1 DEF CallInv, Phases, callVars
<1>5. Endings'
  BY <1>1, <1>2 DEF CallInv, Endings, callVars
<1>6. Channel'
  <2>1. \A k \in 1..Len(resultCh) : resultCh[k].index \in Index
    BY ChannelType
  <2> QED
    BY <1>1, <1>2, <2>1 DEF CallInv, Channel
<1>7. Gathered'
  BY <1>1, <1>2 DEF CallInv, Gathered, collectVars
<1>8. Verdicts'
  BY <1>1, <1>2 DEF CallInv, Verdicts, callVars, collectVars
<1>9. OutputsKept'
  BY <1>1 DEF CallInv, OutputsKept, callVars, collectVars
<1> QED
  BY <1>3, <1>4, <1>5, <1>6, <1>7, <1>8, <1>9 DEF CallInv

LEMMA FinishCall ==
  ASSUME TypeOK, CallInv, NEW i \in Index, NEW r \in TaskResults, Finish(i, r)
  PROVE  CallInv'
<1> DEFINE res == [index |-> i, result |-> r]
<1>1. /\ task[i] \in {"main", "running"}
      /\ resultCh' = Append(resultCh, res)
      /\ UNCHANGED <<callVars, collectVars, pos, outcome>>
      /\ \A j \in Index : task'[j] = IF j = i THEN "done" ELSE task[j]
      /\ \A j \in Index : last'[j] = IF j = i THEN r ELSE last[j]
      /\ pc' = IF task[i] = "main" THEN "launch" ELSE pc
  BY DEF Finish, Running, TypeOK
<1>2. /\ Len(resultCh') = Len(resultCh) + 1 /\ Len(resultCh) \in Nat
      /\ resultCh'[Len(resultCh) + 1] = res
      /\ \A k \in 1..Len(resultCh) : resultCh'[k] = resultCh[k] /\ resultCh[k].index \in Index
  <2>1. res \in ResultRec
    BY DEF ResultRec
  <2> HIDE DEF res
  <2> QED
    BY <1>1, <2>1, ChannelType
<1>3. res.index = i /\ res.result = r /\ r # "none"
  BY DEF TaskResults
<1> HIDE DEF res
<1>4. i \in ToSet(todo)
  BY <1>1 DEF CallInv, WorkList
<1>5. ~InChannel(i)
  BY <1>1 DEF CallInv, Channel, InChannel
<1>6. \A k \in 1..Len(resultCh') : k \in 1..Len(resultCh) \/ k = Len(resultCh) + 1
  BY <1>2
<1>7. \A k \in 1..Len(resultCh) : k \in 1..Len(resultCh')
  BY <1>2
<1>8. Len(resultCh) + 1 \in 1..Len(resultCh')
  BY <1>2
<1>9. \A j : InChannel(j)' <=> InChannel(j) \/ j = i
  <2>1. \A j : InChannel(j) \/ j = i => InChannel(j)'
    BY <1>2, <1>3, <1>7, <1>8 DEF InChannel
  <2>2. \A j : InChannel(j)' => InChannel(j) \/ j = i
    BY <1>2, <1>3, <1>6 DEF InChannel
  <2> QED
    BY <2>1, <2>2
<1>10. \A j \in Index : /\ Received(j)' <=> Received(j)
                        /\ Received(j) => last'[j] = last[j]
  BY <1>1, <1>9 DEF Received
<1>11. WorkList'
  <2>1. \A k \in 1..Len(todo) : todo[k] \in Index
    BY DEF TypeOK
  <2>2. \A j \in Index : task'[j] = "none" <=> task[j] = "none"
    BY <1>1
  <2> QED
    BY <1>1, <2>1, <2>2 DEF CallInv, WorkList, callVars
<1>18. pc \notin {"start", "return"}
  <2>1. pc = "start" => Len(todo) = 0
    BY DEF CallInv, Phases
  <2>2. pc # "start"
    BY <1>4, <2>1, SetOfSeq DEF TypeOK
  <2> QED
    BY <1>1, <2>2 DEF CallInv, Phases
<1>12. Phases'
  BY <1>1, <1>18 DEF CallInv, Phases, callVars
<1>13. Endings'
  BY <1>1, <1>3, <1>4, <1>18 DEF CallInv, Endings, callVars
<1>14. Channel'
  <2>1. \A k \in 1..Len(resultCh) : resultCh[k].index # i
    BY <1>5 DEF InChannel
  <2>2. \A j, k \in 1..Len(resultCh') : resultCh'[j].index = resultCh'[k].index => j = k
    BY <1>2, <1>3, <1>6, <2>1 DEF CallInv, Channel
  <2>3. \A k \in 1..Len(resultCh') : /\ task'[resultCh'[k].index] = "done"
                                     /\ last'[resultCh'[k].index] = resultCh'[k].result
    <3> TAKE k \in 1..Len(resultCh')
    <3>1. CASE k \in 1..Len(resultCh)
      BY <3>1, <1>1, <1>2, <2>1 DEF CallInv, Channel
    <3>2. CASE k = Len(resultCh) + 1
      BY <3>2, <1>1, <1>2, <1>3
    <3> QED
      BY <3>1, <3>2, <1>6
  <2> QED
    BY <2>2, <2>3 DEF Channel
<1>15. Gathered'
  BY <1>1, <1>10 DEF CallInv, Gathered, collectVars
<1>16. Verdicts'
  BY <1>1, <1>4 DEF CallInv, Verdicts
<1>17. OutputsKept'
  BY <1>1, <1>18 DEF CallInv, OutputsKept, callVars, collectVars
<1> QED
  BY <1>11, <1>12, <1>13, <1>14, <1>15, <1>16, <1>17 DEF CallInv

LEMMA CollectCall ==
  ASSUME TypeOK, CallInv, Collect
  PROVE  CallInv'
<1> DEFINE i == Head(resultCh).index
           r == Head(resultCh).result
<1>1. /\ pc = "collect" /\ resultCh # << >> /\ resultCh' = Tail(resultCh)
      /\ outputs' = IF r = "ok" THEN [outputs EXCEPT ![i] = i] ELSE outputs
      /\ completedResults' = CompletedWith(i, r)
      /\ interruptedIndices' = IF r = "interrupt" THEN Append(interruptedIndices, i)
                                                  ELSE interruptedIndices
      /\ normalErr' = IF r = "error" /\ normalErr = NoTask THEN i ELSE normalErr
      /\ UNCHANGED <<callVars, pc, pos, task, sem, outcome, last>>
  BY DEF Collect
<1>2. /\ Len(resultCh) \in Nat /\ Len(resultCh) >= 1 /\ Len(resultCh') = Len(resultCh) - 1
      /\ Head(resultCh) = resultCh[1]
      /\ \A k \in 1..Len(resultCh') : resultCh'[k] = resultCh[k + 1]
  BY <1>1, ChannelType
<1>3. i \in Index /\ r \in TaskResults /\ i = resultCh[1].index /\ r = resultCh[1].result
  BY <1>2, ChannelType
<1> HIDE DEF i, r
<1>4. task[i] = "done" /\ last[i] = r /\ InChannel(i)
  BY <1>2, <1>3 DEF CallInv, Channel, InChannel
<1>5. \A k \in 1..Len(resultCh') : k + 1 \in 1..Len(resultCh) /\ k + 1 # 1
  BY <1>2
<1>6. \A j : InChannel(j)' <=> InChannel(j) /\ j # i
  <2>1. ASSUME NEW j, InChannel(j)' PROVE InChannel(j) /\ j # i
    <3>1. PICK k \in 1..Len(resultCh') : resultCh'[k].index = j
      BY <2>1 DEF InChannel
    <3>2. resultCh[k + 1].index = j /\ k + 1 \in 1..Len(resultCh)
      BY <1>2, <1>5, <3>1
    <3>3. resultCh[k + 1].index # resultCh[1].index
      BY <1>2, <1>5, <3>2 DEF CallInv, Channel
    <3> QED
      BY <1>3, <3>2, <3>3 DEF InChannel
  <2>2. ASSUME NEW j, InChannel(j), j # i PROVE InChannel(j)'
    <3>1. PICK k \in 1..Len(resultCh) : resultCh[k].index = j
      BY <2>2 DEF InChannel
    <3>2. k # 1
      BY <1>3, <2>2, <3>1
    <3>3. k - 1 \in 1..Len(resultCh') /\ (k - 1) + 1 = k
      BY <1>2, <3>2
    <3>4. resultCh'[k - 1].index = j
      BY <1>2, <3>1, <3>3
    <3> QED
      BY <3>3, <3>4 DEF InChannel
  <2> QED
    BY <2>1, <2>2
<1>7. \A j \in Index : Received(j)' <=> Received(j) \/ j = i
  BY <1>1, <1>4, <1>6 DEF Received
<1>8. ~Received(i)
  BY <1>4 DEF Received
<1>9. WorkList' /\ Endings'
  BY <1>1 DEF CallInv, WorkList, Endings, callVars
<1>10. Phases'
  BY <1>1 DEF CallInv, Phases, callVars
<1>11. Channel'
  BY <1>1, <1>2, <1>5 DEF CallInv, Channel
<1>12. Gathered'
  <2>1. \A j \in Index : j \in completedResults' <=> Received(j)' /\ last[j] = "ok"
    BY <1>1, <1>4, <1>7 DEF CallInv, Gathered, CompletedWith
  <2>2. interruptedIndices \in Seq(Index) /\ i \notin ToSet(interruptedIndices)
    BY <1>3, <1>8 DEF CallInv, Gathered, TypeOK
  <2>3. /\ \A j \in Index : j \in ToSet(interruptedIndices') <=> Received(j)' /\ last[j] = "interrupt"
        /\ Distinct(interruptedIndices')
    BY <1>1, <1>3, <1>4, <1>7, <2>2, AppendFacts DEF CallInv, Gathered
  <2>4. normalErr' # NoTask <=> \E j \in Index : Received(j)' /\ last[j] = "error"
    BY <1>1, <1>3, <1>4, <1>7, Constants DEF CallInv, Gathered
  <2> QED
    BY <1>1, <2>1, <2>3, <2>4 DEF Gathered
<1>13. Verdicts'
  BY <1>1 DEF CallInv, Phases, Verdicts
<1>14. OutputsKept'
  <2>1. \A j \in Index : (outputs[j] = j \/ (j = i /\ r = "ok")) => outputs'[j] = j
    BY <1>1, <1>3 DEF TypeOK
  <2>2. completedResults \subseteq Index
    BY DEF TypeOK
  <2>3. \A j \in completedResults' : j \in completedResults \/ (j = i /\ r = "ok")
    BY <1>1 DEF CompletedWith
  <2>4. \A j \in completedResults' : outputs'[j] = j
    BY <1>3, <2>1, <2>2, <2>3 DEF CallInv, OutputsKept
  <2> QED
    BY <1>1, <2>1, <2>4 DEF CallInv, OutputsKept, callVars
<1> QED
  BY <1>9, <1>10, <1>11, <1>12, <1>13, <1>14 DEF CallInv

LEMMA ReturnCall ==
  ASSUME TypeOK, CallInv, Return
  PROVE  CallInv' /\ \A i \in Index : i \in ToSet(todo) => task[i] = "done"
<1>1. /\ pc = "collect" /\ pc' = "return" /\ resultCh = << >> /\ outcome' = Verdict
      /\ Running = {} /\ Spawned = {}
      /\ prevState' = IF Verdict = "interrupted"
                      THEN [completed |-> completedResults, interrupted |-> interruptedIndices]
                      ELSE prevState
      /\ UNCHANGED <<invocation, todo, collectVars, pos, task, sem, resultCh, last>>
  BY DEF Return
<1>2. \A i \in Index : task[i] \in {"none", "done"}
  BY <1>1 DEF Running, Spawned, TypeOK
<1>3. \A i \in Index : i \in ToSet(todo) => task[i] = "done"
  <2> SUFFICES ASSUME NEW i \in Index, i \in ToSet(todo) PROVE task[i] # "none"
    BY <1>2
  <2>1. PICK k \in 1..Len(todo) : todo[k] = i
    BY SetOfSeq DEF TypeOK
  <2>2. pos = Len(todo) /\ Len(todo) \in Nat
    BY <1>1 DEF CallInv, Phases, TypeOK
  <2> QED
    BY <2>1, <2>2 DEF CallInv, WorkList
<1>4. Verdict \in {"ok", "interrupted", "error"}
  BY DEF Verdict
<1>5. \A i \in Index : Received(i)' <=> Received(i)
  BY <1>1 DEF Received, InChannel
<1>6. WorkList' /\ Channel'
  BY <1>1 DEF CallInv, WorkList, Channel
<1>7. Phases'
  BY <1>1, <1>2, <1>4 DEF CallInv, Phases
<1>8. Endings' /\ OutputsKept'
  BY <1>1 DEF CallInv, Endings, OutputsKept, collectVars
<1>9. Gathered'
  BY <1>1, <1>5 DEF CallInv, Gathered, collectVars
<1>10. Verdicts'
  BY <1>1, <1>3 DEF Verdicts, Verdict, collectVars
<1> QED
  BY <1>3, <1>6, <1>7, <1>8, <1>9, <1>10 DEF CallInv

LEMMA NothingLaunched ==
  ASSUME TypeOK, CallInv, pos = 0
  PROVE  \A i \in Index : task[i] = "none"
<1> SUFFICES ASSUME NEW i \in Index, i \in ToSet(todo) PROVE task[i] = "none"
  BY DEF CallInv, WorkList
<1>1. PICK k \in 1..Len(todo) : todo[k] = i
  BY SetOfSeq DEF TypeOK
<1>2. k > pos
  OBVIOUS
<1> QED
  BY <1>1, <1>2 DEF CallInv, WorkList

LEMMA StepCall ==
  ASSUME TypeOK, CallInv, [Next]_vars
  PROVE  CallInv'
<1>1. CASE Compile
  <2>1. /\ pc = "compile"
        /\ \/ pc' = "launch" /\ outcome' = outcome
           \/ pc' = "return" /\ outcome' = "error"
        /\ UNCHANGED <<callVars, collectVars, pos, task, sem, resultCh, last>>
    BY <1>1 DEF Compile, callVars, collectVars
  <2>2. \A i \in Index : task[i] = "none"
    BY <2>1, NothingLaunched DEF CallInv, Phases
  <2>3. WorkList' /\ Endings' /\ Channel' /\ OutputsKept'
    BY <2>1 DEF CallInv, WorkList, Endings, Channel, OutputsKept, callVars, collectVars
  <2>4. Phases'
    BY <2>1, <2>2 DEF CallInv, Phases, callVars
  <2>5. Gathered'
    BY <2>1, <2>2 DEF CallInv, Gathered, Received, InChannel, collectVars
  <2>6. Verdicts'
    BY <2>1 DEF CallInv, Phases, Verdicts, callVars, collectVars
  <2> QED
    BY <2>3, <2>4, <2>5, <2>6 DEF CallInv
<1>2. CASE LaunchDone \/ UNCHANGED vars
  <2>1. /\ UNCHANGED <<callVars, collectVars, pos, task, sem, resultCh, outcome, last>>
        /\ pc' = pc \/ (pc = "launch" /\ pc' = "collect" /\ pos = Len(todo))
    BY <1>2 DEF LaunchDone, vars, callVars, collectVars
  <2>2. WorkList' /\ Endings' /\ Channel' /\ OutputsKept'
    BY <2>1 DEF CallInv, WorkList, Endings, Channel, OutputsKept, callVars, collectVars
  <2>3. Phases'
    BY <2>1 DEF CallInv, Phases, callVars
  <2>4. Gathered'
    BY <2>1 DEF CallInv, Gathered, Received, InChannel, collectVars
  <2>5. Verdicts'
    BY <2>1 DEF CallInv, Phases, Verdicts, callVars, collectVars
  <2> QED
    BY <2>2, <2>3, <2>4, <2>5 DEF CallInv
<1> QED
  BY <1>1, <1>2, FirstInvokeCall, ResumeInvokeCall, LaunchCall, AcquireCall, FinishCall,
     CollectCall, ReturnCall DEF Next, Step

LEMMA CallInvAlways == Spec => [](TypeOK /\ CallInv)
<1>1. Init => TypeOK /\ CallInv
  BY InitType, InitCall
<1>2. TypeOK /\ CallInv /\ [Next]_vars => TypeOK' /\ CallInv'
  BY StepType, StepCall
<1> QED
  BY <1>1, <1>2, PTL DEF Spec

\* A sequence without repetitions is as long as the set of its elements.
LEMMA DistinctLength ==
  ASSUME NEW S, NEW s \in Seq(S), Distinct(s)
  PROVE  Cardinality(ToSet(s)) = Len(s)
<1>1. s \in Bijection(1..Len(s), ToSet(s))
  <2>1. s \in [1..Len(s) -> ToSet(s)]
    BY SetOfSeq
  <2>2. \A x \in ToSet(s) : \E k \in 1..Len(s) : s[k] = x
    BY SetOfSeq
  <2>3. \A j, k \in 1..Len(s) : s[j] = s[k] => j = k
    BY DEF Distinct
  <2> HIDE DEF Distinct
  <2>4. s \in Injection(1..Len(s), ToSet(s))
    BY <2>1, <2>3 DEF Injection, IsInjective
  <2>5. s \in Surjection(1..Len(s), ToSet(s))
    BY <2>1, <2>2 DEF Surjection
  <2> QED
    BY <2>4, <2>5 DEF Bijection
<1>2. Len(s) \in Nat
  OBVIOUS
<1>3. ExistsBijection(1..Len(s), ToSet(s))
  BY <1>1 DEF ExistsBijection
<1> QED
  BY <1>2, <1>3, FS_CountingElements

\* node.go, invoke: the state a batch saves with its interrupt splits the tasks of the
\* call into the completed ones and those to run again, and names none of them twice.
THEOREM SavedStateIsASplit == Spec => []SavedStateSplits
<1>1. TypeOK /\ CallInv => SavedStateSplits
  <2> SUFFICES ASSUME TypeOK, CallInv, outcome = "interrupted"
               PROVE  SavedStateSplits
    BY DEF SavedStateSplits
  <2> DEFINE again == prevState.interrupted
  <2>1. again \in Seq(Index) /\ Distinct(again)
    BY SavedState
  <2>2. ToSet(again) \subseteq Index /\ ToSet(todo) \subseteq Index /\ prevState.completed \subseteq Index
    BY <2>1, SetOfSeq DEF TypeOK
  <2>3. \A i \in Index : /\ i \in ToSet(again) \cup prevState.completed <=> i \in ToSet(todo)
                         /\ i \notin ToSet(again) \cap prevState.completed
    BY SavedState
  <2>4. Cardinality(ToSet(again)) = Len(again)
    BY <2>1, DistinctLength
  <2> HIDE DEF again
  <2> QED
    BY <2>2, <2>3, <2>4 DEF SavedStateSplits, again
<1> QED
  BY <1>1, CallInvAlways, PTL

\* types.go:84-86: a batch that was interrupted at most once and succeeds hands back
\* every output at its input's place, the restored ones included.
THEOREM OutputsComeBack == Spec => []OutputsAfterOneResume
<1>1. TypeOK /\ CallInv => OutputsAfterOneResume
  <2> SUFFICES ASSUME TypeOK, CallInv, outcome = "ok", invocation <= 2, NEW i \in Index
               PROVE  outputs[i] = i
    BY DEF OutputsAfterOneResume
  <2>1. /\ resultCh = << >> /\ interruptedIndices = << >> /\ normalErr = NoTask
        /\ i \in ToSet(todo) => task[i] = "done"
    BY DEF CallInv, Verdicts
  <2>2. pc = "return"
    BY DEF CallInv, Phases
  <2>3. CASE i \notin ToSet(todo)
    BY <2>2, <2>3 DEF CallInv, OutputsKept
  <2>4. CASE i \in ToSet(todo)
    <3>1. Len(resultCh) = 0 /\ i \notin ToSet(interruptedIndices)
      BY <2>1 DEF ToSet
    <3>2. Received(i)
      BY <2>1, <2>4, <3>1 DEF Received, InChannel
    <3>3. last[i] \in TaskResults
      BY <2>1, <2>4 DEF CallInv, Endings, TypeOK
    <3>4. last[i] = "ok"
      BY <2>1, <3>1, <3>2, <3>3 DEF CallInv, Gathered, TaskResults
    <3> QED
      BY <3>2, <3>4 DEF CallInv, Gathered, OutputsKept
  <2> QED
    BY <2>3, <2>4
<1> QED
  BY <1>1, CallInvAlways, PTL

-----------------------------------------------------------------------------
(* The node implements the contract                                        *)

\* The contract's state of a task, from its status and how its latest run ended.
Shown(status, ended) ==
    IF status \in {"main", "running"} THEN "running" ELSE StateAfter[ended]

Tasks == [i \in Index |-> StateOfTask(i)]
Call == IF outcome = "none" THEN "open" ELSE outcome

LEMMA EndingsShown ==
  /\ StateAfter["none"] = "todo" /\ StateAfter["ok"] = "done"
  /\ StateAfter["interrupt"] = "paused" /\ StateAfter["error"] = "failed"
  BY DEF StateAfter

LEMMA SameCardinality == \A S : Contract!Cardinality(S) = Cardinality(S)
  BY DEF Contract!Cardinality, Cardinality

LEMMA ShownTasks ==
  /\ Tasks = [i \in Index |-> Shown(task[i], last[i])]
  /\ Tasks' = [i \in Index |-> Shown(task'[i], last'[i])]
<1>1. \A i \in Index : StateOfTask(i) = Shown(task[i], last[i])
  BY DEF StateOfTask, Shown, Running
<1>2. \A i \in Index : StateOfTask(i)' = Shown(task'[i], last'[i])
  BY DEF StateOfTask, Shown, Running
<1> QED
  BY <1>1, <1>2 DEF Tasks

LEMMA ShownRunning ==
  ASSUME TypeOK
  PROVE  {i \in Index : Tasks[i] = "running"} = Running
<1>1. \A i \in Index : Tasks[i] = "running" <=> task[i] \in {"main", "running"}
  BY ShownTasks, EndingsShown DEF Shown, TypeOK, TaskResults
<1> QED
  BY <1>1 DEF Running

\* A step that moves no task across the contract's states.
LEMMA Stutters ==
  ASSUME \A i \in Index : Shown(task'[i], last'[i]) = Shown(task[i], last[i]),
         Call' = Call
  PROVE  UNCHANGED Contract!vars
<1>1. Tasks' = Tasks
  BY ShownTasks
<1> QED
  BY <1>1 DEF Contract!vars, Tasks, Call

LEMMA RunningStep ==
  ASSUME TypeOK, SlotInv, SlotInv', TypeOK', NEW i \in Index, task[i] \notin {"main", "running"},
         task'[i] \in {"main", "running"},
         \A j \in Index : j # i => task'[j] = task[j]
  PROVE  Cardinality(Running) < Limit
<1>1. Running' = Running \cup {i} /\ i \notin Running
  BY DEF Running
<1>2. ConcurrencyBound
  BY SlotInvBounds
<1>3. ConcurrencyBound'
  BY SlotInvBounds, PTL
<1>4. IsFiniteSet(Running)
  BY Constants, FS_Subset DEF Running
<1>5. Cardinality(Running') = Cardinality(Running) + 1 /\ Cardinality(Running) \in Nat
  BY <1>1, <1>4, FS_AddElement, FS_CardinalityType
<1> QED
  BY <1>3, <1>5, Constants DEF ConcurrencyBound, Limit

LEMMA TakeStep ==
  ASSUME TypeOK, SlotInv, CallInv, TypeOK', SlotInv', NEW i \in Index,
         outcome = "none", UNCHANGED <<outcome, last>>, last[i] = "none",
         task[i] \notin {"main", "running"}, task'[i] \in {"main", "running"},
         \A j \in Index : j # i => task'[j] = task[j]
  PROVE  Contract!Take(i)
<1>1. Cardinality(Running) < Limit
  BY RunningStep
<1>2. {j \in Index : Tasks[j] = "running"} = Running
  BY ShownRunning
<1>3. Tasks[i] = "todo"
  BY ShownTasks, EndingsShown DEF Shown
<1>4. Tasks' = [Tasks EXCEPT ![i] = "running"]
  BY ShownTasks, EndingsShown DEF Shown
<1>5. Call = "open" /\ Call' = Call
  BY DEF Call
<1> QED
  BY <1>1, <1>2, <1>3, <1>4, <1>5, SameCardinality DEF Contract!Take, Contract!InState, Tasks, Call

LEMMA InitRefines == Init => Contract!Init
<1> SUFFICES ASSUME Init PROVE Contract!Init
  OBVIOUS
<1>1. Tasks = [i \in Index |-> "todo"] /\ Call = "open"
  BY ShownTasks, EndingsShown DEF Init, Shown, Call
<1> QED
  BY <1>1 DEF Contract!Init, Tasks, Call

LEMMA StepRefines ==
  ASSUME TypeOK, SlotInv, CallInv, TypeOK', SlotInv', CallInv', [Next]_vars
  PROVE  [Contract!Next]_(Contract!vars)
<1>1. CASE FirstInvoke
  <2>1. pc = "start" /\ outcome' = "none" /\ last' = last /\ \A i \in Index : task'[i] = "none"
    BY <1>1 DEF FirstInvoke, FreshCall
  <2>2. outcome = "none" /\ \A i \in Index : task[i] = "none"
    <3>1. pos = 0
      BY <2>1 DEF CallInv, Phases, TypeOK
    <3> QED
      BY <2>1, <3>1, NothingLaunched DEF CallInv, Phases
  <2> QED
    BY <2>1, <2>2, Stutters, EndingsShown DEF Shown, Call
<1>2. CASE ResumeInvoke
  <2>1. /\ outcome = "interrupted" /\ outcome' = "none" /\ pc = "return"
        /\ \A i \in Index : task'[i] = "none"
        /\ \A i \in Index : last'[i] = IF i \in ToSet(prevState.interrupted) THEN "none" ELSE last[i]
    BY <1>2 DEF ResumeInvoke, FreshCall
  <2>2. \A i \in Index : task[i] \notin {"main", "running"}
    BY <2>1 DEF CallInv, Phases
  <2>3. \A i \in Index : i \in ToSet(prevState.interrupted) <=> last[i] = "interrupt"
    BY <2>1, SavedState DEF CallInv, Endings
  <2>4. \A i \in Index : Tasks[i] = "paused" <=> last[i] = "interrupt"
    BY <2>2, ShownTasks, EndingsShown DEF Shown, TypeOK, TaskResults
  <2>5. Tasks' = [i \in Index |-> IF Tasks[i] = "paused" THEN "todo" ELSE Tasks[i]]
    BY <2>1, <2>2, <2>3, <2>4, ShownTasks, EndingsShown DEF Shown
  <2>6. Call = "interrupted" /\ Call' = "open"
    BY <2>1 DEF Call
  <2>7. Contract!Resume
    BY <2>5, <2>6 DEF Contract!Resume, Tasks, Call
  <2> QED
    BY <2>7 DEF Contract!Next
<1>3. CASE Compile
  <2>1. pc = "compile" /\ task' = task /\ last' = last /\ (outcome' = outcome \/ outcome' = "error")
    BY <1>3 DEF Compile
  <2>2. \A i \in Index : task[i] = "none"
    BY <2>1, NothingLaunched DEF CallInv, Phases
  <2>3. \A i \in Index : last[i] \in {"none", "ok"}
    BY <2>1, <2>2 DEF CallInv, Endings
  <2>4. CASE outcome' = outcome
    BY <2>1, <2>4, Stutters DEF Call
  <2>5. CASE outcome' = "error"
    <3>1. Call = "open" /\ Call' = "error"
      BY <2>1, <2>5 DEF Call, CallInv, Phases
    <3>2. Tasks' = Tasks /\ \A i \in Index : Tasks[i] \in {"todo", "done"}
      BY <2>1, <2>2, <2>3, ShownTasks, EndingsShown DEF Shown
    <3>3. Contract!Refuse
      BY <3>1, <3>2 DEF Contract!Refuse, Contract!InState, Tasks, Call
    <3> QED
      BY <3>3 DEF Contract!Next
  <2> QED
    BY <2>1, <2>4, <2>5
<1>4. CASE LaunchMain
  <2> DEFINE i == todo[pos + 1]
  <2>1. i \in Index /\ i \in ToSet(todo) /\ pos + 1 \in 1..Len(todo) /\ pos \in Nat
    BY <1>4, SetOfSeq DEF LaunchMain, TypeOK
  <2>2. task[i] = "none"
    BY <2>1 DEF CallInv, WorkList
  <2>3. last[i] = "none"
    BY <2>1, <2>2 DEF CallInv, Endings
  <2>4. /\ UNCHANGED <<outcome, last>> /\ outcome = "none"
        /\ task'[i] = "main" /\ \A j \in Index : j # i => task'[j] = task[j]
    BY <1>4, <2>1 DEF LaunchMain, CallInv, Phases, TypeOK
  <2> HIDE DEF i
  <2>5. Contract!Take(i)
    BY <2>1, <2>2, <2>3, <2>4, TakeStep
  <2> QED
    BY <2>1, <2>5 DEF Contract!Next
<1>5. CASE LaunchGoroutine
  <2> DEFINE i == todo[pos + 1]
  <2>1. i \in Index /\ pos + 1 \in 1..Len(todo) /\ pos \in Nat
    BY <1>5, SetOfSeq DEF LaunchGoroutine, TypeOK
  <2>2. task[i] = "none"
    BY <2>1 DEF CallInv, WorkList
  <2>3. /\ UNCHANGED <<outcome, last>>
        /\ task'[i] = "spawned" /\ \A j \in Index : j # i => task'[j] = task[j]
    BY <1>5, <2>1 DEF LaunchGoroutine, TypeOK
  <2> HIDE DEF i
  <2> QED
    BY <2>1, <2>2, <2>3, Stutters, EndingsShown DEF Shown, Call
<1>6. ASSUME NEW i \in Index, Acquire(i) PROVE [Contract!Next]_(Contract!vars)
  <2>1. /\ UNCHANGED <<outcome, last>> /\ task[i] = "spawned"
        /\ task'[i] = "running" /\ \A j \in Index : j # i => task'[j] = task[j]
    BY <1>6 DEF Acquire, TypeOK
  <2>2. i \in ToSet(todo) /\ last[i] = "none"
    BY <2>1 DEF CallInv, WorkList, Endings
  <2>3. outcome = "none"
    BY <2>1 DEF CallInv, Phases
  <2>4. Contract!Take(i)
    BY <2>1, <2>2, <2>3, TakeStep
  <2> QED
    BY <2>4 DEF Contract!Next
<1>7. ASSUME NEW i \in Index, NEW r \in TaskResults, Finish(i, r)
      PROVE  [Contract!Next]_(Contract!vars)
  <2>1. /\ UNCHANGED outcome /\ task[i] \in {"main", "running"}
        /\ \A j \in Index : task'[j] = IF j = i THEN "done" ELSE task[j]
        /\ \A j \in Index : last'[j] = IF j = i THEN r ELSE last[j]
    BY <1>7 DEF Finish, Running, TypeOK
  <2>2. Tasks[i] = "running" /\ Call' = Call
    BY <2>1, ShownTasks, EndingsShown DEF Shown, Call
  <2>3. \E s \in {"done", "paused", "failed"} : Tasks' = [Tasks EXCEPT ![i] = s]
    <3>1. Tasks' = [Tasks EXCEPT ![i] = Shown("done", r)]
      BY <2>1, ShownTasks, EndingsShown DEF Shown
    <3>2. Shown("done", r) \in {"done", "paused", "failed"}
      BY EndingsShown DEF Shown, TaskResults
    <3> QED
      BY <3>1, <3>2
  <2>4. Contract!Settle(i)
    BY <2>2, <2>3 DEF Contract!Settle, Tasks, Call
  <2> QED
    BY <2>4 DEF Contract!Next
<1>8. CASE Return
  <2>1. /\ pc = "collect" /\ outcome' = Verdict /\ UNCHANGED <<task, last>> /\ resultCh = << >>
        /\ Running = {}
    BY <1>8 DEF Return
  <2>2. \A i \in Index : i \in ToSet(todo) => task[i] = "done"
    BY <1>8, ReturnCall
  <2>3. \A i \in Index : /\ last[i] # "none" /\ task[i] \notin {"main", "running"}
                         /\ i \notin ToSet(todo) => last[i] = "ok"
    BY <2>1, <2>2 DEF CallInv, Endings, Running
  <2>4. \A i \in Index : /\ Tasks[i] \notin {"todo", "running"}
                         /\ Tasks[i] = "failed" <=> last[i] = "error"
                         /\ Tasks[i] = "paused" <=> last[i] = "interrupt"
    BY <2>3, ShownTasks, EndingsShown DEF Shown, TypeOK, TaskResults
  <2>5. Len(resultCh) = 0 /\ \A i \in Index : i \in ToSet(todo) <=> Received(i)
    BY <2>1, <2>2 DEF Received, InChannel, CallInv, WorkList
  <2>6. normalErr # NoTask <=> \E i \in Index : Tasks[i] = "failed"
    BY <2>3, <2>4, <2>5 DEF CallInv, Gathered
  <2>7. interruptedIndices # << >> <=> \E i \in Index : Tasks[i] = "paused"
    <3>1. \A i \in Index : i \in ToSet(interruptedIndices) <=> Tasks[i] = "paused"
      BY <2>3, <2>4, <2>5 DEF CallInv, Gathered
    <3>2. interruptedIndices # << >> <=> \E i \in Index : i \in ToSet(interruptedIndices)
      <4>1. interruptedIndices \in Seq(Index)
        BY DEF TypeOK
      <4>2. interruptedIndices # << >> <=> 1 \in 1..Len(interruptedIndices)
        BY <4>1
      <4> QED
        BY <4>1, <4>2, SetOfSeq
    <3> QED
      BY <3>1, <3>2
  <2>8. Call = "open" /\ Call' = Verdict
    BY <2>1 DEF Call, CallInv, Phases, Verdict
  <2>9. Tasks' = Tasks
    BY <2>1, ShownTasks
  <2>10. /\ {i \in Index : Tasks[i] = "failed"} # {} <=> normalErr # NoTask
         /\ {i \in Index : Tasks[i] = "paused"} # {} <=> interruptedIndices # << >>
         /\ {i \in Index : Tasks[i] = "todo"} \cup {i \in Index : Tasks[i] = "running"} = {}
    BY <2>4, <2>6, <2>7
  <2>11. Contract!Return
    BY <2>8, <2>9, <2>10 DEF Contract!Return, Contract!InState, Verdict, Tasks, Call
  <2> QED
    BY <2>11 DEF Contract!Next
<1>9. CASE LaunchDone \/ Collect \/ UNCHANGED vars
  <2>1. UNCHANGED <<task, last, outcome>>
    BY <1>9 DEF LaunchDone, Collect, vars
  <2> QED
    BY <2>1, Stutters DEF Call
<1> QED
  BY <1>1, <1>2, <1>3, <1>4, <1>5, <1>6, <1>7, <1>8, <1>9 DEF Next, Step

\* The whole of node.go's invoke keeps the contract the containing graph relies on: no
\* input beyond the limit is taken up, none that succeeded is taken up again by a
\* resume, and the verdict returned is the one the tasks' outcomes demand.
THEOREM NodeKeepsContract == Spec => ImplementsContract
<1>1. Init => Contract!Init
  BY InitRefines
<1>2. TypeOK /\ SlotInv /\ CallInv /\ TypeOK' /\ SlotInv' /\ CallInv' /\ [Next]_vars
        => [Contract!Next]_(Contract!vars)
  BY StepRefines
<1>3. Spec => [](TypeOK /\ SlotInv)
  <2>1. Init => TypeOK /\ SlotInv
    BY InitType, InitSlots
  <2>2. TypeOK /\ SlotInv /\ [Next]_vars => TypeOK' /\ SlotInv'
    BY StepType, StepSlots
  <2> QED
    BY <2>1, <2>2, PTL DEF Spec
<1> QED
  BY <1>1, <1>2, <1>3, CallInvAlways, PTL DEF Spec, ImplementsContract, Contract!Spec
=============================================================================
