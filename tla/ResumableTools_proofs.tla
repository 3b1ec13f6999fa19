------------------------ MODULE ResumableTools_proofs ------------------------
(***************************************************************************)
(* Theorems about the tools that ask the user, for every set of calls of    *)
(* every kind and all arguments.                                            *)
(***************************************************************************)
EXTENDS ResumableTools, SequenceTheorems, TLAPS

-----------------------------------------------------------------------------
(* What a step of a tool leaves of its call                                *)

Steps == {"run", "validate", "execute"} \X Text

Over(r, st) == [st |-> st, args |-> r.args, state |-> r.state, info |-> r.info]

Effect(c, r, ds) ==
    /\ call' = [call EXCEPT ![c] = r]
    /\ did' = [did EXCEPT ![c] = ds]

LEMMA EndsEffect ==
  ASSUME TypeOK, NEW c \in Calls, Returns(c) \/ Fails(c)
  PROVE  \E st \in {"returned", "failed"} : Effect(c, Over(call[c], st), did[c])
<1> PICK st \in {"returned", "failed"} : call' = [call EXCEPT ![c].st = st] /\ did' = did
  BY DEF Returns, Fails
<1>1. call \in [Calls -> Call] /\ did = [did EXCEPT ![c] = did[c]]
  BY DEF TypeOK
<1>2. [call[c] EXCEPT !.st = st] = Over(call[c], st)
  BY <1>1 DEF Over, Call
<1> QED
  BY <1>1, <1>2 DEF Effect

LEMMA AsksEffect ==
  ASSUME TypeOK, NEW c \in Calls, NEW layer, NEW a, NEW by, Asks(c, layer, a, by)
  PROVE  Effect(c, Asking(call[c], layer, a, by), did[c])
<1>1. call \in [Calls -> Call] /\ did = [did EXCEPT ![c] = did[c]]
  BY DEF TypeOK
<1> QED
  BY <1>1 DEF Effect, Asks

LEMMA ExecutesEffect ==
  ASSUME TypeOK, NEW c \in Calls, NEW what, NEW a, Executes(c, what, a)
  PROVE  \E st \in {"returned", "failed"} :
            Effect(c, Over(call[c], st), Append(did[c], <<what, a>>))
<1> PICK st \in {"returned", "failed"} : call' = [call EXCEPT ![c].st = st]
  BY DEF Executes
<1>1. call \in [Calls -> Call] /\ did' = [did EXCEPT ![c] = Append(did[c], <<what, a>>)]
  BY DEF TypeOK, Executes
<1>2. [call[c] EXCEPT !.st = st] = Over(call[c], st)
  BY <1>1 DEF Over, Call
<1> QED
  BY <1>1, <1>2 DEF Effect

\* What comes of the inner graph, started anew.
LEMMA StartsEffect ==
  ASSUME TypeOK, NEW c \in Calls, NEW a, GraphStarts(c, a)
  PROVE  \/ a = Zero /\ \E st \in {"returned", "failed"} : Effect(c, Over(call[c], st), did[c])
         \/ a \in Risky /\ Effect(c, Asking(call[c], "risk", a, "graph"), Append(did[c], <<"validate", a>>))
         \/ a \in Args \ Risky /\ \E st \in {"returned", "failed"} :
              Effect(c, Over(call[c], st), did[c] \o <<<<"validate", a>>, <<"execute", a>>>>)
<1>1. call \in [Calls -> Call]
  BY DEF TypeOK
<1>2. CASE a = Zero /\ Fails(c)
  BY <1>2, EndsEffect
<1>3. CASE /\ a \in Risky
           /\ call' = [call EXCEPT ![c] = Asking(@, "risk", a, "graph")]
           /\ did' = [did EXCEPT ![c] = Append(@, <<"validate", a>>)]
  BY <1>1, <1>3 DEF Effect, TypeOK
<1>4. CASE /\ a \in Args \ Risky
           /\ did' = [did EXCEPT ![c] = @ \o <<<<"validate", a>>, <<"execute", a>>>>]
           /\ \E st \in {"returned", "failed"} : call' = [call EXCEPT ![c].st = st]
  <2> PICK st \in {"returned", "failed"} : call' = [call EXCEPT ![c].st = st]
    BY <1>4
  <2>1. [call[c] EXCEPT !.st = st] = Over(call[c], st)
    BY <1>1 DEF Over, Call
  <2> QED
    BY <1>1, <1>4, <2>1 DEF Effect
<1> QED
  BY <1>2, <1>3, <1>4 DEF GraphStarts

-----------------------------------------------------------------------------
(* Types                                                                   *)

\* A call that asks has a question.
Types == TypeOK /\ \A c \in Calls : call[c].st = "asking" => call[c].info \in Info

Typed(r, ds) ==
    /\ r \in Call /\ r.st \in {"asking", "returned", "failed"}
    /\ r.st = "asking" => r.info \in Info
    /\ ds \in Seq(Steps)

LEMMA TypedEnds ==
  ASSUME NEW r \in Call, NEW ds \in Seq(Steps), NEW st \in {"returned", "failed"}
  PROVE  Typed(Over(r, st), ds)
BY DEF Typed, Over, Call

LEMMA TypedAsks ==
  ASSUME NEW r \in Call, NEW ds \in Seq(Steps), NEW layer \in {"call", "risk"}, NEW a \in Text,
         NEW by \in {"wrapper", "graph"}
  PROVE  Typed(Asking(r, layer, a, by), ds)
<1> DEFINE i == [layer |-> layer, args |-> a]
           s == [by |-> by, args |-> a]
<1>1. i \in Info /\ s \in InterruptState
  BY DEF Info, InterruptState
<1>2. Asking(r, layer, a, by) = [st |-> "asking", args |-> r.args, state |-> s, info |-> i]
  BY DEF Asking
<1> HIDE DEF i, s
<1> QED
  BY <1>1, <1>2 DEF Typed, Call

LEMMA WorkType ==
  ASSUME TypeOK, NEW c \in Calls, Work(c)
  PROVE  \E r, ds : Effect(c, r, ds) /\ Typed(r, ds)
<1> USE ToolsAssumption
<1>1. /\ call[c] \in Call /\ call[c].args \in Text /\ call[c].state.args \in Text
      /\ did[c] \in Seq(Steps)
      /\ Zero \in Text /\ Args \subseteq Text /\ Risky \subseteq Text
  BY DEF TypeOK, Call, InterruptState, Text, Steps
<1>2. ASSUME NEW a \in Text, NEW w \in {"run", "validate", "execute"}
      PROVE  Append(did[c], <<w, a>>) \in Seq(Steps)
  <2>1. <<w, a>> \in Steps
    BY DEF Steps
  <2> QED
    BY <1>1, <2>1, AppendProperties
<1>3. ASSUME Returns(c) \/ Fails(c) PROVE \E r, ds : Effect(c, r, ds) /\ Typed(r, ds)
  BY <1>1, <1>3, EndsEffect, TypedEnds
<1>4. ASSUME NEW a \in Text, NEW layer \in {"call", "risk"}, NEW by \in {"wrapper", "graph"}, Asks(c, layer, a, by)
      PROVE \E r, ds : Effect(c, r, ds) /\ Typed(r, ds)
  BY <1>1, <1>4, AsksEffect, TypedAsks
<1>5. ASSUME NEW a \in Text, NEW w \in {"run", "validate", "execute"}, Executes(c, w, a)
      PROVE \E r, ds : Effect(c, r, ds) /\ Typed(r, ds)
  BY <1>1, <1>2, <1>5, ExecutesEffect, TypedEnds
<1>6. ASSUME NEW a \in Text, GraphStarts(c, a) PROVE \E r, ds : Effect(c, r, ds) /\ Typed(r, ds)
  <2>1. CASE \E st \in {"returned", "failed"} : Effect(c, Over(call[c], st), did[c])
    BY <1>1, <2>1, TypedEnds
  <2>2. CASE Effect(c, Asking(call[c], "risk", a, "graph"), Append(did[c], <<"validate", a>>))
    <3> DEFINE ds == Append(did[c], <<"validate", a>>)
               r == Asking(call[c], "risk", a, "graph")
    <3>1. ds \in Seq(Steps)
      BY <1>2
    <3> HIDE DEF ds
    <3>2. Typed(r, ds)
      BY <1>1, <3>1, TypedAsks
    <3>3. Effect(c, r, ds)
      BY <2>2 DEF ds
    <3> HIDE DEF r
    <3> QED
      BY <3>2, <3>3
  <2>3. CASE \E st \in {"returned", "failed"} :
               Effect(c, Over(call[c], st), did[c] \o <<<<"validate", a>>, <<"execute", a>>>>)
    <3> DEFINE v == <<"validate", a>>
               e == <<"execute", a>>
               ds == did[c] \o <<v, e>>
    <3>1. v \in Steps /\ e \in Steps
      BY DEF Steps
    <3> HIDE DEF v, e
    <3>2. ds \in Seq(Steps)
      BY <1>1, <3>1, ConcatProperties
    <3> HIDE DEF ds
    <3>3. PICK st \in {"returned", "failed"} : Effect(c, Over(call[c], st), ds)
      BY <2>3 DEF ds, v, e
    <3> QED
      BY <1>1, <3>2, <3>3, TypedEnds
  <2> QED
    BY <1>6, <2>1, <2>2, <2>3, StartsEffect
<1>7. ASSUME NEW a \in Text, Graph(c, a) PROVE \E r, ds : Effect(c, r, ds) /\ Typed(r, ds)
  <2> DEFINE s == GraphState(c, a)
  <2>1. s.input \in Text
    BY <1>1 DEF GraphState
  <2>2. CASE GraphStarts(c, s.input)
    BY <1>6, <2>1, <2>2
  <2>3. CASE GraphResumes(c, s.input)
    BY <1>3, <1>4, <1>5, <2>1, <2>3 DEF GraphResumes
  <2> QED
    BY <1>7, <2>2, <2>3 DEF Graph
<1>8. ASSUME NEW a \in Text, Inner(c, a) PROVE \E r, ds : Effect(c, r, ds) /\ Typed(r, ds)
  BY <1>5, <1>7, <1>8 DEF Inner
<1>9. StoredArgs(c) \in Text
  BY <1>1 DEF StoredArgs
<1>10. CASE Approval(c)
  BY <1>1, <1>3, <1>4, <1>8, <1>9, <1>10 DEF Approval
<1>11. CASE Review(c)
  <2>1. HasData(c, "call") => Reviewed(c) \in Text
    BY <1>9 DEF Reviewed, HasData, IsTarget, TypeOK, Decision
  <2> QED
    BY <1>1, <1>3, <1>4, <1>8, <1>9, <1>11, <2>1 DEF Review
<1>12. CASE FollowUp(c)
  BY <1>1, <1>3, <1>4, <1>9, <1>12 DEF FollowUp
<1>13. CASE GraphTool(c)
  BY <1>1, <1>7, <1>13 DEF GraphTool
<1> QED
  BY <1>10, <1>11, <1>12, <1>13 DEF Work

LEMMA FreshType ==
  ASSUME NEW st \in {"unasked", "todo"}, NEW a \in Text
  PROVE  Fresh(st, a) \in Call
BY DEF Fresh, Call, NoState, InterruptState, Text

LEMMA InitType == Init => Types
<1> SUFFICES ASSUME Init PROVE Types
  OBVIOUS
<1>1. Zero \in Text
  BY DEF Text
<1>2. call \in [Calls -> Call] /\ \A c \in Calls : call[c].st = "unasked"
  BY <1>1, FreshType DEF Init, Fresh
<1>3. did \in [Calls -> Seq(Steps)] /\ said \in [Calls -> SUBSET Decision]
  BY DEF Init
<1> QED
  BY <1>2, <1>3 DEF Init, Types, TypeOK, Steps

LEMMA StepType ==
  ASSUME Types, [Next]_vars
  PROVE  Types'
<1> TypeOK
  BY DEF Types
<1>1. CASE ModelAnswers
  <2>1. call' \in [Calls -> Call] /\ \A c \in Calls : call'[c].st = "asking" => call'[c] = call[c]
    <3>1. CASE UNCHANGED call
      BY <3>1 DEF TypeOK
    <3>2. ASSUME NEW S \in SUBSET Calls, NEW a \in [S -> Args],
                 call' = [c \in Calls |-> IF c \in S THEN Fresh("todo", a[c]) ELSE call[c]]
          PROVE  call' \in [Calls -> Call] /\ \A c \in Calls : call'[c].st = "asking" => call'[c] = call[c]
      <4>1. \A c \in S : Fresh("todo", a[c]) \in Call /\ Fresh("todo", a[c]).st = "todo"
        BY FreshType DEF Text, Fresh
      <4> QED
        BY <3>2, <4>1 DEF TypeOK
    <3> QED
      BY <1>1, <3>1, <3>2 DEF ModelAnswers
  <2> QED
    BY <1>1, <2>1 DEF ModelAnswers, Types, TypeOK
<1>2. CASE ToolsEnd
  BY <1>2 DEF ToolsEnd, Types, TypeOK
<1>3. ASSUME NEW c \in Calls, Work(c) PROVE Types'
  <2>1. PICK r, ds : Effect(c, r, ds) /\ Typed(r, ds)
    BY <1>3, WorkType
  <2>2. UNCHANGED <<phase, target, count, said>>
    BY <1>3 DEF Work
  <2>3. call' \in [Calls -> Call] /\ did' \in [Calls -> Seq(Steps)]
    BY <2>1 DEF Effect, Typed, TypeOK, Steps
  <2>4. \A d \in Calls : call'[d].st = "asking" => call'[d].info \in Info
    BY <2>1 DEF Effect, Typed, Types, TypeOK
  <2> QED
    BY <2>2, <2>3, <2>4 DEF Types, TypeOK, Steps
<1>4. CASE UserDecides
  <2>0. PICK c \in In("asking") : \E v \in Verdict(c), a \in Args :
          /\ target' = [call |-> c, layer |-> DecisionLayer(c), verdict |-> v,
                        args |-> IF v = "edit" THEN a ELSE call[c].info.args]
          /\ said' = [said EXCEPT ![c] = @ \cup {[call |-> c, layer |-> call[c].info.layer,
                                                   verdict |-> v, args |-> target'.args]}]
    BY <1>4 DEF UserDecides
  <2>1. PICK v \in Verdict(c), a \in Args :
          /\ target' = [call |-> c, layer |-> DecisionLayer(c), verdict |-> v,
                        args |-> IF v = "edit" THEN a ELSE call[c].info.args]
          /\ said' = [said EXCEPT ![c] = @ \cup {[call |-> c, layer |-> call[c].info.layer,
                                                   verdict |-> v, args |-> target'.args]}]
    BY <2>0
  <2>2. c \in Calls /\ call[c].info \in Info /\ v \in Verdicts /\ a \in Text
    BY DEF In, Types, Verdict, Verdicts, Text
  <2>3. call[c].info.layer \in {"call", "risk"} /\ call[c].info.args \in Text
    BY <2>2 DEF Info
  <2>4. DecisionLayer(c) \in {"call", "risk"}
    BY <2>3 DEF DecisionLayer, TypedByCount, TypedByInfo
  <2> DEFINE layer == DecisionLayer(c)
             args == IF v = "edit" THEN a ELSE call[c].info.args
             shown == call[c].info.layer
  <2>5. args \in Text
    BY <2>2, <2>3
  <2> HIDE DEF layer, args, shown
  <2>6. target' = [call |-> c, layer |-> layer, verdict |-> v, args |-> args]
    BY <2>1 DEF layer, args
  <2>7. target' \in Decision
    BY <2>2, <2>4, <2>5, <2>6 DEF Decision, layer
  <2>8. said' = [said EXCEPT ![c] = @ \cup {[call |-> c, layer |-> shown, verdict |-> v, args |-> args]}]
    <3>1. target'.args = args
      BY <2>6
    <3> QED
      BY <2>1, <3>1 DEF shown
  <2>9. [call |-> c, layer |-> shown, verdict |-> v, args |-> args] \in Decision
    BY <2>2, <2>3, <2>5 DEF Decision, shown
  <2>10. said' \in [Calls -> SUBSET Decision]
    BY <2>2, <2>8, <2>9 DEF TypeOK
  <2>11. call' \in [Calls -> Call] /\ \A d \in Calls : call'[d].st # "asking"
    <3>1. call' = [d \in Calls |-> IF call[d].st = "asking" THEN Over(call[d], "todo") ELSE call[d]]
      <4>1. \A d \in Calls : [call[d] EXCEPT !.st = "todo"] = Over(call[d], "todo")
        BY DEF TypeOK, Call, Over
      <4> QED
        BY <1>4, <4>1 DEF UserDecides
    <3>2. \A d \in Calls : Over(call[d], "todo") \in Call /\ Over(call[d], "todo").st = "todo"
      BY DEF TypeOK, Call, Over
    <3> QED
      BY <3>1, <3>2 DEF TypeOK
  <2> QED
    BY <1>4, <2>7, <2>10, <2>11 DEF UserDecides, Types, TypeOK
<1>5. CASE UNCHANGED vars
  BY <1>5 DEF vars, Types, TypeOK
<1> QED
  BY <1>1, <1>2, <1>3, <1>4, <1>5 DEF Next, AgentStep

\* The calls, the decisions and what is executed keep their types; in particular a
\* call that asks always has a question to show.
THEOREM TypeCorrect == Spec => []TypeOK
<1>1. Init => Types
  BY InitType
<1>2. Types /\ [Next]_vars => Types'
  BY StepType
<1>3. Types => TypeOK
  BY DEF Types
<1> QED
  BY <1>1, <1>2, <1>3, PTL DEF Spec

-----------------------------------------------------------------------------
(* What is agreed to                                                       *)

Yes(ss, layer, a) == \E d \in ss : d.layer = layer /\ d.verdict # "no" /\ d.args = a
Put(ss, a) == \E d \in ss : d.verdict = "edit" /\ d.args = a

\* A step that a call of kind k has executed, after the decisions ss.
GoodStep(k, args, x, ss) ==
    /\ k # "graph" => Yes(ss, "call", x[2])
    /\ x[1] = "execute" /\ x[2] \in Risky => Yes(ss, "risk", x[2])
    /\ x[2] = args \/ Put(ss, x[2])
Good(k, args, ds, ss) == \A i \in DOMAIN ds : GoodStep(k, args, ds[i], ss)
Once(ds) == \A i, j \in DOMAIN ds : ds[i][1] = ds[j][1] => i = j

\* Where a call can be that has not returned: not begun; at the wrapper's question; at
\* the inner graph's, of which the wrapper's arguments have been agreed to; or at the
\* wrapper's question again, which is then of no arguments.
Unstarted(r, ds) == r.st = "todo" /\ r.state.by = "nobody" /\ ds = <<>>
InWrapper(k, r, ds) ==
    /\ k # "graph" /\ ds = <<>>
    /\ r.state = [by |-> "wrapper", args |-> r.args]
    /\ r.info = [layer |-> "call", args |-> r.args]
InGraph(k, r, ds, ss) ==
    /\ k \in {"graph", "approvable graph"} /\ ds = <<<<"validate", r.args>>>>
    /\ r.state = [by |-> "graph", args |-> r.args]
    /\ r.info = [layer |-> "risk", args |-> r.args]
    /\ k # "graph" => Yes(ss, "call", r.args)
Forgotten(k, r, ds) ==
    /\ k = "approvable graph" /\ ds = <<<<"validate", r.args>>>>
    /\ r.state = [by |-> "wrapper", args |-> Zero]
    /\ r.info = [layer |-> "call", args |-> Zero]

Facts(k, r, ds, ss) ==
    /\ Good(k, r.args, ds, ss)
    /\ Once(ds)
    /\ r.st = "unasked" => ds = <<>>
    /\ r.st \in {"todo", "asking"} =>
         Unstarted(r, ds) \/ InWrapper(k, r, ds) \/ InGraph(k, r, ds, ss) \/ Forgotten(k, r, ds)

LEMMA FactsGrow ==
  ASSUME NEW k, NEW r, NEW ds, NEW ss, NEW tt, ss \subseteq tt, Facts(k, r, ds, ss)
  PROVE  Facts(k, r, ds, tt)
<1>1. \A layer, a : Yes(ss, layer, a) => Yes(tt, layer, a)
  BY DEF Yes
<1>2. \A a : Put(ss, a) => Put(tt, a)
  BY DEF Put
<1> QED
  BY <1>1, <1>2 DEF Facts, Good, GoodStep, InGraph

LEMMA FactsOver ==
  ASSUME NEW k, NEW r, NEW ds, NEW ss, Facts(k, r, ds, ss),
         NEW st, st \in {"returned", "failed"} \/ (st = "todo" /\ r.st \in {"todo", "asking"})
  PROVE  Facts(k, Over(r, st), ds, ss) /\ Over(r, st).st = st
<1> DEFINE o == Over(r, st)
<1>1. o.st = st /\ o.args = r.args /\ o.state = r.state /\ o.info = r.info
  BY DEF Over
<1> HIDE DEF o
<1>2. Good(k, o.args, ds, ss) /\ Once(ds) /\ o.st # "unasked"
  BY <1>1 DEF Facts
<1>3. ASSUME st \in {"returned", "failed"} PROVE Facts(k, o, ds, ss)
  BY <1>1, <1>2, <1>3 DEF Facts
<1>4. ASSUME st = "todo", r.st \in {"todo", "asking"} PROVE Facts(k, o, ds, ss)
  <2>1. Unstarted(r, ds) => Unstarted(o, ds)
    BY <1>1, <1>4 DEF Unstarted
  <2>2. /\ InWrapper(k, r, ds) => InWrapper(k, o, ds)
        /\ InGraph(k, r, ds, ss) => InGraph(k, o, ds, ss)
        /\ Forgotten(k, r, ds) => Forgotten(k, o, ds)
    BY <1>1 DEF InWrapper, InGraph, Forgotten
  <2> QED
    BY <1>1, <1>2, <1>4, <2>1, <2>2 DEF Facts
<1>5. Facts(k, o, ds, ss)
  BY <1>3, <1>4
<1> QED
  BY <1>1, <1>5 DEF o

\* One step more, and the call is over.
LEMMA FactsStep ==
  ASSUME NEW k, NEW r, NEW ds \in Seq(Steps), NEW ss, NEW x \in Steps, Facts(k, r, ds, ss),
         GoodStep(k, r.args, x, ss),
         \A i \in DOMAIN ds : ds[i][1] # x[1],
         NEW st \in {"returned", "failed"}
  PROVE  Facts(k, Over(r, st), Append(ds, x), ss)
<1> DEFINE o == Over(r, st)
           es == Append(ds, x)
<1>1. o.st = st /\ o.args = r.args
  BY DEF Over
<1>2. /\ Len(ds) \in Nat /\ DOMAIN ds = 1..Len(ds) /\ DOMAIN es = 1..(Len(ds) + 1)
      /\ \A i \in 1..Len(ds) : es[i] = ds[i]
      /\ es[Len(ds) + 1] = x
  BY AppendProperties
<1> HIDE DEF o, es
<1>3. \A i \in DOMAIN es : (i \in DOMAIN ds /\ es[i] = ds[i]) \/ (i = Len(ds) + 1 /\ es[i] = x)
  BY <1>2
<1>4. Good(k, o.args, es, ss)
  BY <1>1, <1>3 DEF Facts, Good
<1>5. Once(es)
  BY <1>3 DEF Facts, Once
<1>6. Facts(k, o, es, ss)
  BY <1>1, <1>4, <1>5 DEF Facts
<1> QED
  BY <1>6 DEF o, es

\* The two steps of a graph that does not ask.
LEMMA FactsTwo ==
  ASSUME NEW k, NEW r, NEW ss, NEW a, a \notin Risky, NEW st \in {"returned", "failed"},
         a = r.args, k # "graph" => Yes(ss, "call", a)
  PROVE  Facts(k, Over(r, st), <<>> \o <<<<"validate", a>>, <<"execute", a>>>>, ss)
<1> DEFINE v == <<"validate", a>>
           e == <<"execute", a>>
           o == Over(r, st)
           es == <<v, e>>
<1>1. o.st = st /\ o.args = r.args
  BY DEF Over
<1>2. v[1] = "validate" /\ v[2] = a /\ e[1] = "execute" /\ e[2] = a
  OBVIOUS
<1>3. GoodStep(k, r.args, v, ss) /\ GoodStep(k, r.args, e, ss)
  BY <1>2 DEF GoodStep
<1> HIDE DEF v, e, o
<1>4. DOMAIN es = 1..2 /\ es[1] = v /\ es[2] = e
  OBVIOUS
<1>5. \A i \in DOMAIN es : (i = 1 /\ es[i] = v) \/ (i = 2 /\ es[i] = e)
  BY <1>4
<1>6. <<>> \o es = es
  OBVIOUS
<1> HIDE DEF es
<1>7. Good(k, o.args, es, ss) /\ Once(es)
  BY <1>1, <1>2, <1>3, <1>5 DEF Good, Once
<1>8. Facts(k, o, es, ss)
  BY <1>1, <1>7 DEF Facts
<1> QED
  BY <1>6, <1>8 DEF o, es, v, e

-----------------------------------------------------------------------------
(* The invariant                                                           *)

Open(c) == call[c].st \in {"todo", "asking"}

\* The decision a resume carries is one the user has taken, of the question he was
\* shown; it is for a call that has asked.
TargetInv ==
    target # None =>
        LET c == target.call
        IN  /\ phase = "tools"
            /\ target \in said[c]
            /\ call[c].st = "todo" =>
                 /\ WasInterrupted(c)
                 /\ target.layer = call[c].info.layer
                 /\ target.verdict # "edit" => target.args = call[c].info.args
                 /\ target.verdict = "edit" => Kind[c] = "review"

\* Calls are open while the answer that made them is worked on.
OpenInv ==
    /\ phase = "model" => \A c \in Calls : ~Open(c)
    /\ \A c \in Calls : call[c].st = "todo" => phase = "tools"

Inv ==
    /\ \A c \in Calls : Facts(Kind[c], call[c], did[c], said[c])
    /\ TargetInv
    /\ OpenInv

\* What becomes of a question that is not the target.
Stays(c, r) ==
    \/ r = Over(call[c], "asking")
    \/ GraphForgotten(c) /\ r = Asking(call[c], "call", Zero, "wrapper")

\* What a step makes of a call.
Result(c) ==
    \E r, ds :
        /\ Effect(c, r, ds)
        /\ Facts(Kind[c], r, ds, said[c])
        /\ r.st \in {"asking", "returned", "failed"}
        /\ WasInterrupted(c) /\ ~IsTarget(c) => Stays(c, r) /\ ds = did[c]

LEMMA WrapperFacts ==
  ASSUME NEW k, NEW r, NEW ds, InWrapper(k, r, ds)
  PROVE  /\ k # "graph" /\ ds = <<>>
         /\ r.state.by = "wrapper" /\ r.state.args = r.args
         /\ r.info.layer = "call" /\ r.info.args = r.args
BY DEF InWrapper

LEMMA GraphFacts ==
  ASSUME NEW k, NEW r, NEW ds, NEW ss, InGraph(k, r, ds, ss)
  PROVE  /\ k \in {"graph", "approvable graph"} /\ ds = <<<<"validate", r.args>>>>
         /\ r.state.by = "graph" /\ r.state.args = r.args
         /\ r.info.layer = "risk" /\ r.info.args = r.args
         /\ k # "graph" => Yes(ss, "call", r.args)
<1> DEFINE a == r.args
           ask == [layer |-> "risk", args |-> a]
           keep == [by |-> "graph", args |-> a]
           begun == <<<<"validate", a>>>>
<1>1. ask.layer = "risk" /\ ask.args = a /\ keep.by = "graph" /\ keep.args = a
  OBVIOUS
<1> HIDE DEF ask, keep, begun
<1>2. k \in {"graph", "approvable graph"} /\ ds = begun /\ r.state = keep /\ r.info = ask
      /\ (k # "graph" => Yes(ss, "call", a))
  BY DEF InGraph, ask, keep, begun
<1>3. r.state.by = "graph" /\ r.state.args = a /\ r.info.layer = "risk" /\ r.info.args = a
  BY <1>1, <1>2
<1> QED
  BY <1>2, <1>3 DEF begun

LEMMA ForgottenFacts ==
  ASSUME NEW k, NEW r, NEW ds, Forgotten(k, r, ds)
  PROVE  /\ k = "approvable graph"
         /\ r.state.by = "wrapper" /\ r.state.args = Zero
         /\ r.info.layer = "call" /\ r.info.args = Zero
<1> DEFINE ask == [layer |-> "call", args |-> Zero]
           keep == [by |-> "wrapper", args |-> Zero]
<1>1. ask.layer = "call" /\ ask.args = Zero /\ keep.by = "wrapper" /\ keep.args = Zero
  OBVIOUS
<1> HIDE DEF ask, keep
<1>2. k = "approvable graph" /\ r.state = keep /\ r.info = ask
  BY DEF Forgotten, ask, keep
<1> QED
  BY <1>1, <1>2

LEMMA OverResult ==
  ASSUME NEW c \in Calls, Facts(Kind[c], call[c], did[c], said[c]),
         IsTarget(c) \/ ~WasInterrupted(c),
         NEW st \in {"returned", "failed"}, Effect(c, Over(call[c], st), did[c])
  PROVE  Result(c)
<1>1. Facts(Kind[c], Over(call[c], st), did[c], said[c]) /\ Over(call[c], st).st = st
  BY FactsOver
<1> QED
  BY <1>1 DEF Result

LEMMA EndsResult ==
  ASSUME TypeOK, NEW c \in Calls, Facts(Kind[c], call[c], did[c], said[c]),
         IsTarget(c) \/ ~WasInterrupted(c), Returns(c) \/ Fails(c)
  PROVE  Result(c)
BY EndsEffect, OverResult

\* The first question, and the same one again.
LEMMA AsksResult ==
  ASSUME TypeOK, NEW c \in Calls, Facts(Kind[c], call[c], did[c], said[c]), Kind[c] # "graph",
         Asks(c, "call", call[c].args, "wrapper"),
         Unstarted(call[c], did[c]) \/ InWrapper(Kind[c], call[c], did[c])
  PROVE  Result(c)
<1> DEFINE r == Asking(call[c], "call", call[c].args, "wrapper")
<1>1. Effect(c, r, did[c])
  BY AsksEffect
<1>2. /\ r.st = "asking" /\ r.args = call[c].args
      /\ r.state = [by |-> "wrapper", args |-> r.args]
      /\ r.info = [layer |-> "call", args |-> r.args]
  BY DEF Asking
<1>3. WasInterrupted(c) => r = Over(call[c], "asking")
  BY DEF WasInterrupted, Unstarted, InWrapper, Asking, Over
<1> HIDE DEF r
<1>4. did[c] = <<>>
  BY DEF Unstarted, InWrapper
<1>5. InWrapper(Kind[c], r, did[c])
  BY <1>2, <1>4 DEF InWrapper
<1>6. Facts(Kind[c], r, did[c], said[c])
  BY <1>2, <1>5 DEF Facts
<1> QED
  BY <1>1, <1>2, <1>3, <1>6 DEF Result, Stays

\* The wrapper's question again, of no arguments.
LEMMA ForgetsResult ==
  ASSUME TypeOK, NEW c \in Calls, Facts(Kind[c], call[c], did[c], said[c]),
         Kind[c] = "approvable graph", ~IsTarget(c), Asks(c, "call", Zero, "wrapper"),
         InGraph(Kind[c], call[c], did[c], said[c]) \/ Forgotten(Kind[c], call[c], did[c])
  PROVE  Result(c)
<1> DEFINE r == Asking(call[c], "call", Zero, "wrapper")
<1>1. Effect(c, r, did[c])
  BY AsksEffect
<1>2. /\ r.st = "asking" /\ r.args = call[c].args
      /\ r.state = [by |-> "wrapper", args |-> Zero]
      /\ r.info = [layer |-> "call", args |-> Zero]
  BY DEF Asking
<1>3. Forgotten(Kind[c], call[c], did[c]) => r = Over(call[c], "asking")
  BY DEF Forgotten, Asking, Over
<1>4. InGraph(Kind[c], call[c], did[c], said[c]) => GraphForgotten(c)
  BY GraphFacts DEF GraphForgotten
<1>5. Stays(c, r)
  BY <1>3, <1>4 DEF Stays
<1> HIDE DEF r
<1>6. did[c] = <<<<"validate", r.args>>>>
  BY <1>2 DEF InGraph, Forgotten
<1>7. Forgotten(Kind[c], r, did[c])
  BY <1>2, <1>6 DEF Forgotten
<1>8. Facts(Kind[c], r, did[c], said[c])
  BY <1>2, <1>7 DEF Facts
<1> QED
  BY <1>1, <1>2, <1>5, <1>8 DEF Result

\* A tool that is executed with what was agreed to.
LEMMA RunsResult ==
  ASSUME TypeOK, NEW c \in Calls, Facts(Kind[c], call[c], did[c], said[c]),
         IsTarget(c), did[c] = <<>>,
         NEW a \in Text, Executes(c, "run", a), Yes(said[c], "call", a),
         a = call[c].args \/ Put(said[c], a)
  PROVE  Result(c)
<1> DEFINE x == <<"run", a>>
<1>1. PICK st \in {"returned", "failed"} : Effect(c, Over(call[c], st), Append(did[c], x))
  BY ExecutesEffect
<1>2. x \in Steps /\ x[1] = "run" /\ x[2] = a
  BY DEF Steps
<1> HIDE DEF x
<1>3. GoodStep(Kind[c], call[c].args, x, said[c])
  BY <1>2 DEF GoodStep
<1>4. did[c] \in Seq(Steps) /\ \A i \in DOMAIN did[c] : did[c][i][1] # x[1]
  <2>1. DOMAIN <<>> = {}
    OBVIOUS
  <2> QED
    BY <2>1 DEF TypeOK, Steps
<1>5. Facts(Kind[c], Over(call[c], st), Append(did[c], x), said[c])
  BY <1>2, <1>3, <1>4, FactsStep
<1>6. Over(call[c], st).st = st
  BY DEF Over
<1> QED
  BY <1>1, <1>5, <1>6 DEF Result

LEMMA OneStep ==
  ASSUME NEW x
  PROVE  Append(<<>>, x) = <<x>> /\ <<x>>[1] = x /\ \A i \in DOMAIN <<x>> : i = 1
<1>1. Append(<<>>, x) = <<x>> /\ DOMAIN <<x>> = 1..1 /\ <<x>>[1] = x
  OBVIOUS
<1>2. \A i \in 1..1 : i = 1
  OBVIOUS
<1> QED
  BY <1>1, <1>2

\* The inner graph begins, behind an approval or with none.
LEMMA StartsResult ==
  ASSUME TypeOK, NEW c \in Calls, Facts(Kind[c], call[c], did[c], said[c]),
         Kind[c] \in {"graph", "approvable graph"},
         IsTarget(c) \/ ~WasInterrupted(c), did[c] = <<>>,
         Kind[c] # "graph" => Yes(said[c], "call", call[c].args),
         GraphStarts(c, call[c].args)
  PROVE  Result(c)
<1> DEFINE a == call[c].args
           k == Kind[c]
           v == <<"validate", a>>
<1>1. CASE \E st \in {"returned", "failed"} : Effect(c, Over(call[c], st), did[c])
  BY <1>1, OverResult
<1>2. CASE Effect(c, Asking(call[c], "risk", a, "graph"), Append(did[c], v))
  <2> DEFINE r == Asking(call[c], "risk", a, "graph")
  <2>1. /\ r.st = "asking" /\ r.args = a
        /\ r.state = [by |-> "graph", args |-> r.args]
        /\ r.info = [layer |-> "risk", args |-> r.args]
    BY DEF Asking
  <2>2. v[1] = "validate" /\ v[2] = a
    OBVIOUS
  <2>3. InGraph(k, r, <<v>>, said[c])
    <3> HIDE DEF r
    <3> QED
      BY <2>1 DEF InGraph
  <2> HIDE DEF r, v
  <2>4. GoodStep(k, a, v, said[c])
    BY <2>2 DEF GoodStep
  <2>5. (\A i \in DOMAIN <<v>> : i = 1) /\ <<v>>[1] = v
    BY OneStep
  <2>6. Good(k, r.args, <<v>>, said[c]) /\ Once(<<v>>)
    BY <2>1, <2>4, <2>5 DEF Good, Once
  <2>7. Facts(k, r, <<v>>, said[c])
    BY <2>1, <2>3, <2>6 DEF Facts
  <2>8. Effect(c, r, <<v>>)
    <3>1. Append(did[c], v) = <<v>>
      BY OneStep
    <3> QED
      BY <1>2, <3>1 DEF r, v
  <2> QED
    BY <2>1, <2>7, <2>8 DEF Result
<1>3. CASE a \notin Risky /\ \E st \in {"returned", "failed"} :
             Effect(c, Over(call[c], st), did[c] \o <<v, <<"execute", a>>>>)
  <2> DEFINE ds == <<>> \o <<v, <<"execute", a>>>>
  <2>1. PICK st \in {"returned", "failed"} : Effect(c, Over(call[c], st), ds)
    BY <1>3
  <2>2. Facts(k, Over(call[c], st), ds, said[c])
    BY <1>3, FactsTwo
  <2>3. Over(call[c], st).st = st
    BY DEF Over
  <2> HIDE DEF ds
  <2> QED
    BY <2>1, <2>2, <2>3 DEF Result
<1> QED
  BY <1>1, <1>2, <1>3, StartsEffect

\* The decision is of the question that the target has asked.
LEMMA TargetAgreed ==
  ASSUME TargetInv, NEW c \in Calls, IsTarget(c), call[c].st = "todo"
  PROVE  /\ WasInterrupted(c) /\ target.layer = call[c].info.layer
         /\ target.verdict # "no" => Yes(said[c], target.layer, target.args)
         /\ target.verdict # "edit" => target.args = call[c].info.args
         /\ target.verdict = "edit" => Put(said[c], target.args) /\ Kind[c] = "review"
<1>1. target # None /\ target.call = c
  BY DEF IsTarget
<1>2. target \in said[c]
  BY <1>1 DEF TargetInv
<1>3. target.verdict # "no" => Yes(said[c], target.layer, target.args)
  BY <1>2 DEF Yes
<1>4. target.verdict = "edit" => Put(said[c], target.args)
  BY <1>2 DEF Put
<1> QED
  BY <1>1, <1>3, <1>4 DEF TargetInv

\* The inner graph goes on.
LEMMA ResumesResult ==
  ASSUME TypeOK, TargetInv, NEW c \in Calls, Facts(Kind[c], call[c], did[c], said[c]),
         call[c].st = "todo", InGraph(Kind[c], call[c], did[c], said[c]),
         GraphResumes(c, call[c].args)
  PROVE  Result(c)
<1> DEFINE a == call[c].args
           k == Kind[c]
<1>1. CASE ~IsTarget(c) /\ Asks(c, "risk", a, "graph")
  <2> DEFINE r == Asking(call[c], "risk", a, "graph")
  <2>1. Effect(c, r, did[c])
    BY <1>1, AsksEffect
  <2>2. /\ r.st = "asking" /\ r.args = a
        /\ r.state = [by |-> "graph", args |-> a]
        /\ r.info = [layer |-> "risk", args |-> a]
    BY DEF Asking
  <2>3. r = Over(call[c], "asking")
    BY DEF InGraph, Asking, Over
  <2> HIDE DEF r
  <2>4. InGraph(k, r, did[c], said[c])
    BY <2>2 DEF InGraph
  <2>5. Facts(k, r, did[c], said[c])
    BY <2>2, <2>4 DEF Facts
  <2> QED
    BY <2>1, <2>2, <2>3, <2>5 DEF Result, Stays
<1>2. CASE IsTarget(c) /\ (Fails(c) \/ Returns(c))
  BY <1>2, EndsResult
<1>3. CASE HasData(c, "risk") /\ target.verdict = "yes" /\ Executes(c, "execute", a)
  <2> DEFINE x == <<"execute", a>>
             v == <<"validate", a>>
  <2>1. IsTarget(c) /\ target.layer = "risk" /\ target.verdict = "yes"
    BY <1>3 DEF HasData
  <2>2. call[c].info.args = a
    BY GraphFacts
  <2>3. Yes(said[c], "risk", a)
    BY <2>1, <2>2, TargetAgreed
  <2>4. k # "graph" => Yes(said[c], "call", a)
    BY DEF InGraph
  <2>5. x[1] = "execute" /\ x[2] = a /\ v[1] = "validate"
    OBVIOUS
  <2>6. x \in Steps
    BY DEF TypeOK, Call, Steps
  <2>7. did[c] = <<v>>
    BY DEF InGraph
  <2>8. PICK st \in {"returned", "failed"} : Effect(c, Over(call[c], st), Append(did[c], x))
    BY <1>3, ExecutesEffect
  <2> HIDE DEF x, v
  <2>9. GoodStep(k, a, x, said[c])
    BY <2>3, <2>4, <2>5 DEF GoodStep
  <2>10. \A i \in DOMAIN did[c] : did[c][i][1] # x[1]
    BY <2>5, <2>7, OneStep
  <2>11. did[c] \in Seq(Steps)
    BY DEF TypeOK, Steps
  <2>12. Facts(k, Over(call[c], st), Append(did[c], x), said[c])
    BY <2>6, <2>9, <2>10, <2>11, FactsStep
  <2>13. Over(call[c], st).st = st
    BY DEF Over
  <2> QED
    BY <2>1, <2>8, <2>12, <2>13 DEF Result
<1> QED
  BY <1>1, <1>2, <1>3 DEF GraphResumes, HasData

LEMMA WorkResult ==
  ASSUME Types, Inv, NEW c \in Calls, Work(c)
  PROVE  Result(c)
<1> DEFINE k == Kind[c]
           a == call[c].args
<1> TypeOK /\ TargetInv /\ OpenInv /\ Facts(Kind[c], call[c], did[c], said[c])
  BY DEF Types, Inv
<1>0. call[c].st = "todo" /\ a \in Text
  BY DEF Work, TypeOK, Call
<1>1. \/ ~WasInterrupted(c) /\ Unstarted(call[c], did[c])
      \/ WasInterrupted(c) /\ InWrapper(k, call[c], did[c])
      \/ WasInterrupted(c) /\ InGraph(k, call[c], did[c], said[c])
      \/ WasInterrupted(c) /\ Forgotten(k, call[c], did[c])
  <2>1. Unstarted(call[c], did[c]) => ~WasInterrupted(c)
    BY DEF Unstarted, WasInterrupted
  <2>2. InWrapper(k, call[c], did[c]) \/ InGraph(k, call[c], did[c], said[c]) \/ Forgotten(k, call[c], did[c])
          => WasInterrupted(c)
    BY WrapperFacts, GraphFacts, ForgottenFacts DEF WasInterrupted
  <2> QED
    BY <1>0, <2>1, <2>2 DEF Facts
\* What the state of the interrupt tells the wrapper and the graph.
<1>2. /\ InWrapper(k, call[c], did[c]) => StoredArgs(c) = a /\ call[c].info.layer = "call"
                                          /\ call[c].info.args = a /\ did[c] = <<>>
      /\ InGraph(k, call[c], did[c], said[c]) => call[c].info.layer = "risk" /\ StoredArgs(c) = Zero
      /\ Forgotten(k, call[c], did[c]) => StoredArgs(c) = Zero /\ call[c].info.layer = "call"
                                          /\ call[c].info.args = Zero
  <2>1. ASSUME InWrapper(k, call[c], did[c])
        PROVE  StoredArgs(c) = a /\ call[c].info.layer = "call" /\ call[c].info.args = a /\ did[c] = <<>>
    BY <2>1, WrapperFacts DEF StoredArgs
  <2>2. ASSUME InGraph(k, call[c], did[c], said[c]) PROVE call[c].info.layer = "risk" /\ StoredArgs(c) = Zero
    BY <2>2, GraphFacts DEF StoredArgs
  <2>3. ASSUME Forgotten(k, call[c], did[c])
        PROVE  StoredArgs(c) = Zero /\ call[c].info.layer = "call" /\ call[c].info.args = Zero
    BY <2>3, ForgottenFacts DEF StoredArgs
  <2> QED
    BY <2>1, <2>2, <2>3
<1>3. ASSUME NEW b, ~InGraph(k, call[c], did[c], said[c]), Graph(c, b) PROVE GraphStarts(c, b)
  <2>1. call[c].state.by # "graph"
    BY <1>1, <1>3, WrapperFacts, ForgottenFacts DEF Unstarted
  <2>2. GraphState(c, b) = [resumed |-> FALSE, input |-> b]
    BY <2>1 DEF GraphState
  <2> QED
    BY <1>3, <2>2 DEF Graph
<1>4. ASSUME NEW b, InGraph(k, call[c], did[c], said[c]), Graph(c, b) PROVE Result(c)
  <2>1. GraphState(c, b) = [resumed |-> TRUE, input |-> a]
    <3>1. call[c].state.by = "graph" /\ call[c].state.args = a
      BY <1>4, GraphFacts
    <3> QED
      BY <3>1 DEF GraphState
  <2>2. GraphResumes(c, a)
    BY <1>4, <2>1 DEF Graph
  <2> QED
    BY <1>0, <1>4, <2>2, ResumesResult
\* Where a wrapper asks.
<1>5. ASSUME k \in {"approval", "approvable graph", "review", "followup"},
             \/ ~WasInterrupted(c) /\ Asks(c, "call", a, "wrapper")
             \/ WasInterrupted(c) /\ ~IsTarget(c) /\ Asks(c, "call", StoredArgs(c), "wrapper")
      PROVE  Result(c)
  <2>1. CASE InGraph(k, call[c], did[c], said[c]) \/ Forgotten(k, call[c], did[c])
    <3>1. k = "approvable graph" /\ WasInterrupted(c)
      BY <1>5, <2>1, GraphFacts, ForgottenFacts DEF WasInterrupted
    <3>2. ~IsTarget(c) /\ Asks(c, "call", Zero, "wrapper")
      BY <1>2, <1>5, <2>1, <3>1
    <3> QED
      BY <2>1, <3>1, <3>2, ForgetsResult
  <2>2. CASE ~(InGraph(k, call[c], did[c], said[c]) \/ Forgotten(k, call[c], did[c]))
    <3>1. Asks(c, "call", a, "wrapper")
      BY <1>1, <1>2, <1>5, <2>2
    <3> QED
      BY <1>1, <1>5, <2>2, <3>1, AsksResult
  <2> QED
    BY <2>1, <2>2
<1>6. ASSUME IsTarget(c), Returns(c) \/ Fails(c) PROVE Result(c)
  BY <1>6, EndsResult
\* Where a wrapper executes its tool.
<1>7. ASSUME HasData(c, "call"), target.verdict # "no",
             NEW b, b = target.args, Inner(c, b), k # "graph"
      PROVE  Result(c)
  <2>1. IsTarget(c) /\ target.layer = "call"
    BY <1>7 DEF HasData
  <2>2. InWrapper(k, call[c], did[c]) \/ Forgotten(k, call[c], did[c])
    BY <1>0, <1>1, <1>2, <2>1, TargetAgreed
  <2>3. CASE Forgotten(k, call[c], did[c])
    <3>1. k = "approvable graph" /\ b = Zero
      BY <1>0, <1>2, <1>7, <2>1, <2>3, TargetAgreed, ForgottenFacts
    <3>2. ~InGraph(k, call[c], did[c], said[c])
      BY <2>3, ForgottenFacts, GraphFacts
    <3>3. GraphStarts(c, Zero)
      BY <1>3, <1>7, <3>1, <3>2 DEF Inner
    <3>4. Fails(c)
      BY <3>3, ToolsAssumption DEF GraphStarts
    <3> QED
      BY <2>1, <3>4, EndsResult
  <2>4. CASE InWrapper(k, call[c], did[c])
    <3>1. /\ Yes(said[c], "call", b) /\ b \in Text
          /\ b = a \/ (Put(said[c], b) /\ k = "review")
      BY <1>0, <1>2, <1>7, <2>1, <2>4, TargetAgreed DEF IsTarget, TypeOK, Decision
    <3>2. CASE k = "approvable graph"
      <4>1. Graph(c, a) /\ b = a
        BY <1>7, <3>1, <3>2 DEF Inner
      <4>2. GraphStarts(c, a)
        BY <1>3, <2>4, <4>1, WrapperFacts, GraphFacts
      <4> QED
        BY <1>2, <2>1, <2>4, <3>1, <3>2, <4>1, <4>2, StartsResult
    <3>3. CASE k # "approvable graph"
      BY <1>2, <1>7, <2>1, <2>4, <3>1, <3>3, RunsResult DEF Inner
    <3> QED
      BY <3>2, <3>3
  <2> QED
    BY <2>2, <2>3, <2>4
<1>8. CASE Approval(c)
  <2>1. CASE WasInterrupted(c) /\ Approved(c) /\ Inner(c, StoredArgs(c))
    <3>1. HasData(c, "call") /\ target.verdict = "yes" /\ IsTarget(c) /\ target.layer = "call"
      BY <2>1 DEF Approved, HasData
    <3>2. StoredArgs(c) = target.args
      BY <1>0, <1>1, <1>2, <2>1, <3>1, TargetAgreed
    <3> QED
      BY <1>7, <1>8, <2>1, <3>1, <3>2 DEF Approval
  <2>2. CASE WasInterrupted(c) /\ TargetWithoutData(c) /\ Inner(c, StoredArgs(c))
    <3>1. IsTarget(c) /\ target.layer # "call"
      BY <2>2 DEF TargetWithoutData, HasData
    <3>2. InGraph(k, call[c], did[c], said[c])
      BY <1>0, <1>1, <1>2, <2>2, <3>1, TargetAgreed
    <3>3. Graph(c, StoredArgs(c))
      BY <1>8, <2>2, <3>2 DEF Inner, Approval, InGraph
    <3> QED
      BY <1>4, <3>2, <3>3
  <2> QED
    BY <1>5, <1>6, <1>8, <2>1, <2>2 DEF Approval, HasData
<1>9. CASE Review(c)
  <2>1. CASE HasData(c, "call") /\ target.verdict # "no" /\ Inner(c, Reviewed(c))
    <3>1. IsTarget(c) /\ target.layer = "call"
      BY <2>1 DEF HasData
    <3>2. Reviewed(c) = target.args
      BY <1>0, <1>1, <1>2, <2>1, <3>1, TargetAgreed DEF Reviewed
    <3> QED
      BY <1>7, <1>9, <2>1, <3>2 DEF Review
  <2> QED
    BY <1>5, <1>6, <1>9, <2>1 DEF Review, HasData, TargetWithoutData
<1>10. CASE FollowUp(c)
  BY <1>5, <1>6, <1>10 DEF FollowUp, HasData
<1>11. CASE GraphTool(c)
  <2>1. k = "graph" /\ Graph(c, a)
    BY <1>11 DEF GraphTool
  <2>2. CASE InGraph(k, call[c], did[c], said[c])
    BY <1>4, <2>1, <2>2
  <2>3. CASE ~InGraph(k, call[c], did[c], said[c])
    <3>1. ~WasInterrupted(c) /\ did[c] = <<>>
      BY <1>1, <2>1, <2>3, ForgottenFacts DEF InWrapper, Unstarted
    <3> QED
      BY <1>3, <2>1, <2>3, <3>1, StartsResult
  <2> QED
    BY <2>2, <2>3
<1> QED
  BY <1>8, <1>9, <1>10, <1>11 DEF Work

-----------------------------------------------------------------------------
(* The invariant is kept                                                   *)

LEMMA FactsFresh ==
  ASSUME NEW k, NEW st \in {"unasked", "todo"}, NEW a, NEW ss
  PROVE  /\ Facts(k, Fresh(st, a), <<>>, ss)
         /\ Fresh(st, a).st = st /\ Fresh(st, a).state.by = "nobody"
<1> DEFINE r == Fresh(st, a)
<1>1. r.st = st /\ r.args = a /\ r.state.by = "nobody"
  BY DEF Fresh, NoState
<1> HIDE DEF r
<1>2. Good(k, r.args, <<>>, ss) /\ Once(<<>>)
  BY DEF Good, Once
<1>3. Facts(k, r, <<>>, ss)
  BY <1>1, <1>2 DEF Facts, Unstarted
<1> QED
  BY <1>1, <1>3 DEF r

LEMMA InitInv == Init => Inv
<1> SUFFICES ASSUME Init PROVE Inv
  OBVIOUS
<1>1. \A c \in Calls : call[c] = Fresh("unasked", Zero) /\ did[c] = <<>> /\ said[c] = {}
  BY DEF Init
<1>2. \A c \in Calls : Facts(Kind[c], call[c], did[c], said[c]) /\ call[c].st = "unasked"
  BY <1>1, FactsFresh
<1>3. target = None
  BY DEF Init
<1> QED
  BY <1>2, <1>3 DEF Inv, TargetInv, OpenInv, Open

LEMMA AnswersInv ==
  ASSUME Types, Inv, ModelAnswers
  PROVE  Inv'
<1> TypeOK /\ TargetInv /\ OpenInv
  BY DEF Types, Inv
<1>1. target' = None
  BY DEF ModelAnswers, TargetInv
<1>2. CASE phase' = "done" /\ UNCHANGED call
  <2>1. \A c \in Calls : ~Open(c)
    BY DEF ModelAnswers, OpenInv
  <2> QED
    BY <1>1, <1>2, <2>1 DEF ModelAnswers, Inv, TargetInv, OpenInv, Open, WasInterrupted
<1>3. ASSUME NEW S \in SUBSET {c \in Calls : call[c].st = "unasked"}, NEW a \in [S -> Args],
             call' = [c \in Calls |-> IF c \in S THEN Fresh("todo", a[c]) ELSE call[c]],
             phase' = "tools"
      PROVE  Inv'
  <2>1. ASSUME NEW c \in S
        PROVE  /\ Facts(Kind[c], call'[c], did'[c], said'[c])
               /\ call'[c].st = "todo" /\ ~WasInterrupted(c)'
    <3>1. c \in Calls /\ call[c].st = "unasked" /\ did[c] = <<>>
      BY DEF Inv, Facts
    <3>2. call'[c] = Fresh("todo", a[c]) /\ did'[c] = <<>>
      BY <1>3, <3>1 DEF ModelAnswers
    <3> QED
      BY <3>2, FactsFresh DEF WasInterrupted
  <2>2. ASSUME NEW c \in Calls, c \notin S
        PROVE  Facts(Kind[c], call'[c], did'[c], said'[c]) /\ ~Open(c)'
    <3>1. call'[c] = call[c] /\ did' = did /\ said' = said /\ ~Open(c)
      BY <1>3, <2>2 DEF ModelAnswers, OpenInv
    <3> QED
      BY <3>1 DEF Inv, Open
  <2>3. OpenInv'
    BY <1>3 DEF OpenInv
  <2> QED
    BY <1>1, <2>1, <2>2, <2>3 DEF Inv, TargetInv
<1> QED
  BY <1>2, <1>3 DEF ModelAnswers

LEMMA DecidesInv ==
  ASSUME Types, Inv, ~Counting, UserDecides
  PROVE  Inv'
<1> TypeOK /\ TargetInv /\ OpenInv /\ Types'
  BY StepType DEF Types, Inv, Next
<1>1. PICK c \in In("asking") : \E v \in Verdict(c), a \in Args :
          /\ target' = [call |-> c, layer |-> DecisionLayer(c), verdict |-> v,
                        args |-> IF v = "edit" THEN a ELSE call[c].info.args]
          /\ said' = [said EXCEPT ![c] = @ \cup {[call |-> c, layer |-> call[c].info.layer,
                                                   verdict |-> v, args |-> target'.args]}]
  BY DEF UserDecides
<1>2. PICK v \in Verdict(c), a \in Args :
          /\ target' = [call |-> c, layer |-> DecisionLayer(c), verdict |-> v,
                        args |-> IF v = "edit" THEN a ELSE call[c].info.args]
          /\ said' = [said EXCEPT ![c] = @ \cup {[call |-> c, layer |-> call[c].info.layer,
                                                   verdict |-> v, args |-> target'.args]}]
  BY <1>1
<1> DEFINE layer == call[c].info.layer
           args == IF v = "edit" THEN a ELSE call[c].info.args
           e == [call |-> c, layer |-> layer, verdict |-> v, args |-> args]
<1>3. c \in Calls /\ call[c].st = "asking"
  BY DEF In
<1>4. e.call = c /\ e.layer = layer /\ e.verdict = v /\ e.args = args
  OBVIOUS
<1>5. DecisionLayer(c) = layer
  BY DEF DecisionLayer, TypedByInfo
<1> HIDE DEF layer, args, e
<1>6. target' = e
  BY <1>2, <1>5 DEF e, args
<1>7. said' = [said EXCEPT ![c] = @ \cup {e}]
  <2>1. target'.args = args
    BY <1>4, <1>6
  <2> QED
    BY <1>2, <2>1 DEF e, layer
<1>8. e \in said'[c] /\ \A d \in Calls : said[d] \subseteq said'[d]
  BY <1>3, <1>7 DEF TypeOK
<1>9. ASSUME NEW d \in Calls
      PROVE  /\ call'[d] = IF call[d].st = "asking" THEN Over(call[d], "todo") ELSE call[d]
             /\ Facts(Kind[d], call'[d], did'[d], said'[d])
             /\ call'[d].info = call[d].info /\ call'[d].state = call[d].state
             /\ Open(d)' <=> Open(d)
             /\ call'[d].st = "todo" => call[d].st = "asking"
  <2>1. [call[d] EXCEPT !.st = "todo"] = Over(call[d], "todo")
    BY DEF TypeOK, Call, Over
  <2>2. call'[d] = IF call[d].st = "asking" THEN Over(call[d], "todo") ELSE call[d]
    BY <2>1 DEF UserDecides
  <2>3. did' = did /\ phase = "interrupted" /\ call[d].st # "todo"
    BY DEF UserDecides, OpenInv
  <2>4. Facts(Kind[d], call[d], did[d], said'[d])
    BY <1>8, FactsGrow DEF Inv
  <2>5. CASE call[d].st = "asking"
    <3>1. call'[d] = Over(call[d], "todo")
      BY <2>2, <2>5
    <3>2. Facts(Kind[d], Over(call[d], "todo"), did[d], said'[d]) /\ Over(call[d], "todo").st = "todo"
      BY <2>4, <2>5, FactsOver
    <3>3. Over(call[d], "todo").info = call[d].info /\ Over(call[d], "todo").state = call[d].state
      BY DEF Over
    <3> QED
      BY <2>2, <2>3, <2>5, <3>1, <3>2, <3>3 DEF Open
  <2>6. CASE call[d].st # "asking"
    BY <2>2, <2>3, <2>4, <2>6 DEF Open
  <2> QED
    BY <2>5, <2>6
<1>10. WasInterrupted(c)
  <2>1. \/ InWrapper(Kind[c], call[c], did[c]) \/ InGraph(Kind[c], call[c], did[c], said[c])
        \/ Forgotten(Kind[c], call[c], did[c])
    BY <1>3 DEF Inv, Facts, Unstarted
  <2> QED
    BY <2>1, WrapperFacts, GraphFacts, ForgottenFacts DEF WasInterrupted
<1>11. TargetInv'
  <2>1. WasInterrupted(c)' /\ call'[c].info = call[c].info
    BY <1>3, <1>9, <1>10 DEF WasInterrupted
  <2>2. v # "edit" => args = call[c].info.args
    BY DEF args
  <2>3. v = "edit" => Kind[c] = "review"
    BY DEF Verdict
  <2>4. phase' = "tools"
    BY DEF UserDecides
  <2> QED
    BY <1>4, <1>6, <1>8, <2>1, <2>2, <2>3, <2>4 DEF TargetInv, layer
<1>12. OpenInv'
  BY DEF UserDecides, OpenInv
<1> QED
  BY <1>9, <1>11, <1>12 DEF Inv

LEMMA WorkInv ==
  ASSUME Types, Inv, NEW c \in Calls, Work(c)
  PROVE  Inv'
<1> TypeOK /\ TargetInv /\ OpenInv
  BY DEF Types, Inv
<1>1. PICK r, ds :
        /\ Effect(c, r, ds)
        /\ Facts(Kind[c], r, ds, said[c])
        /\ r.st \in {"asking", "returned", "failed"}
  BY WorkResult DEF Result
<1>2. call'[c] = r /\ did'[c] = ds /\ UNCHANGED <<phase, target, said>> /\ Open(c)
  BY <1>1 DEF Effect, TypeOK, Work, Open
<1>3. \A d \in Calls : d # c => call'[d] = call[d] /\ did'[d] = did[d]
  BY <1>1 DEF Effect, TypeOK
<1>4. \A d \in Calls : call'[d].st = "todo" => d # c
  BY <1>1, <1>2
<1>5. \A d \in Calls : Facts(Kind[d], call[d], did[d], said[d])'
  BY <1>1, <1>2, <1>3 DEF Inv
<1>6. TargetInv'
  <2>1. target # None => target.call \in Calls
    BY DEF TypeOK, Decision
  <2> QED
    BY <1>2, <1>3, <1>4, <2>1 DEF TargetInv, WasInterrupted
<1>7. OpenInv'
  <2>1. phase' = "tools"
    BY <1>2 DEF Work
  <2> QED
    BY <2>1 DEF OpenInv
<1> QED
  BY <1>5, <1>6, <1>7 DEF Inv

\* The user is asked one thing, and answers that: then the invariant is kept.
LEMMA StepInv ==
  ASSUME Types, Inv, ~Counting, [Next]_vars
  PROVE  Inv'
<1>1. CASE ToolsEnd
  <2>1. call' = call /\ did' = did /\ said' = said /\ target' = None /\ In("todo") = {}
    BY <1>1 DEF ToolsEnd
  <2>2. \A c \in Calls : call[c].st # "todo"
    BY <2>1 DEF In
  <2>3. phase' = "model" => \A c \in Calls : call[c].st # "asking"
    BY <1>1 DEF ToolsEnd, In
  <2> QED
    BY <2>1, <2>2, <2>3 DEF Inv, TargetInv, OpenInv, Open
<1>2. CASE UNCHANGED vars
  BY <1>2 DEF vars, Inv, TargetInv, OpenInv, Open, WasInterrupted, IsTarget
<1> QED
  BY <1>1, <1>2, AnswersInv, DecidesInv, WorkInv DEF Next, AgentStep

\* A client that types its decisions by the question.
Careful == ~Counting

LEMMA InvKept == Careful /\ Spec => [](Types /\ Inv)
<1>1. Init => Types /\ Inv
  BY InitType, InitInv
<1>2. Careful /\ (Types /\ Inv) /\ [Next]_vars => (Types /\ Inv)'
  BY StepType, StepInv DEF Careful
<1>3. Careful => []Careful
  <2>1. Careful => Careful'
    BY DEF Careful
  <2> QED
    BY <2>1, PTL
<1> QED
  BY <1>1, <1>2, <1>3, PTL DEF Spec

\* approval_wrapper.go:63-92, review_edit_wrapper.go:62-112.  Whatever else is asked and
\* answered meanwhile, a tool is only ever executed with the arguments that the user
\* has agreed to, and a risky step of the inner graph only after he was asked again.
THEOREM ExecutedAsAgreed == Careful /\ Spec => []RunsAsAgreed
<1>1. Inv => RunsAsAgreed
  <2> SUFFICES ASSUME Inv, NEW c \in Calls, NEW x \in Executed(c)
               PROVE  /\ Kind[c] # "graph" => x[2] \in Agreed(c, "call")
                      /\ x[1] = "execute" /\ x[2] \in Risky => x[2] \in Agreed(c, "risk")
                      /\ x[2] = call[c].args \/ \E d \in said[c] : d.verdict = "edit" /\ d.args = x[2]
    BY DEF RunsAsAgreed
  <2>1. GoodStep(Kind[c], call[c].args, x, said[c])
    BY DEF Executed, Inv, Facts, Good
  <2>2. \A layer : Yes(said[c], layer, x[2]) => x[2] \in Agreed(c, layer)
    BY DEF Yes, Agreed
  <2> QED
    BY <2>1, <2>2 DEF GoodStep, Put
<1> QED
  BY <1>1, InvKept, PTL

\* graph_tool.go:90-112.  No step of a tool is executed twice: a resume of the graph
\* goes on behind what was done before its question.
THEOREM ExecutedOnce == Careful /\ Spec => []StepsOnce
<1>1. Inv => StepsOnce
  BY DEF Inv, Facts, Once, StepsOnce
<1> QED
  BY <1>1, InvKept, PTL

\* approval_wrapper.go:63-90.  A resume that is aimed at another call executes nothing of
\* an interrupted one, and asks its question again with the state it has stored; only
\* of an approvable tool whose inner graph has asked does it ask, of no arguments, for
\* the approval again.
THEOREM OtherQuestionsStay == Careful /\ Spec => QuestionsStay
<1>1. Types /\ Inv /\ [Next]_vars =>
        [\A c \in Calls :
            (WasInterrupted(c) /\ ~IsTarget(c) /\ call[c].st = "todo" /\ call'[c].st # "todo")
                => /\ did'[c] = did[c]
                   /\ \/ call'[c] = [call[c] EXCEPT !.st = "asking"]
                      \/ GraphForgotten(c) /\ call'[c] = Asking(call[c], "call", Zero, "wrapper")]_vars
  <2> SUFFICES ASSUME Types, Inv, Next, NEW c \in Calls,
                      WasInterrupted(c), ~IsTarget(c), call[c].st = "todo", call'[c].st # "todo"
               PROVE  /\ did'[c] = did[c]
                      /\ \/ call'[c] = [call[c] EXCEPT !.st = "asking"]
                         \/ GraphForgotten(c) /\ call'[c] = Asking(call[c], "call", Zero, "wrapper")
    OBVIOUS
  <2> TypeOK /\ OpenInv
    BY DEF Types, Inv
  <2>1. CASE ModelAnswers \/ ToolsEnd
    BY <2>1 DEF ModelAnswers, ToolsEnd, TypeOK
  <2>2. CASE UserDecides
    BY <2>2 DEF UserDecides, OpenInv
  <2>3. ASSUME NEW d \in Calls, d # c, Work(d) PROVE FALSE
    <3>1. Result(d)
      BY <2>3, WorkResult
    <3> QED
      BY <2>3, <3>1 DEF Result, Effect, TypeOK
  <2>4. CASE Work(c)
    <3>1. PICK r, ds : Effect(c, r, ds) /\ Stays(c, r) /\ ds = did[c]
      BY <2>4, WorkResult DEF Result
    <3>2. [call[c] EXCEPT !.st = "asking"] = Over(call[c], "asking")
      BY DEF TypeOK, Call, Over
    <3> QED
      BY <3>1, <3>2 DEF Effect, TypeOK, Stays
  <2> QED
    BY <2>1, <2>2, <2>3, <2>4 DEF Next, AgentStep
<1>2. Spec => [][Next]_vars
  BY PTL DEF Spec
<1> QED
  BY <1>1, <1>2, InvKept, PTL DEF QuestionsStay
=============================================================================
