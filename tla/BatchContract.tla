--------------------------- MODULE BatchContract ---------------------------
(***************************************************************************)
(* What a batch node promises to the graph that contains it, independently *)
(* of goroutines, channels and semaphores: every input is taken up at most *)
(* once until it is done, at most Limit of them run together, and a call   *)
(* returns only when none is left, with the verdict the outcomes demand.   *)
(***************************************************************************)
EXTENDS Naturals, FiniteSets

CONSTANTS Index,   \* the positions of the input slice
          Limit    \* how many inputs may be in progress together

VARIABLES state,   \* what became of each input
          call     \* the verdict of the latest Invoke, "open" until it returns

vars == <<state, call>>

InState(s) == {i \in Index : state[i] = s}

Init ==
    /\ state = [i \in Index |-> "todo"]
    /\ call = "open"

Take(i) ==
    /\ call = "open"
    /\ state[i] = "todo"
    /\ Cardinality(InState("running")) < Limit
    /\ state' = [state EXCEPT ![i] = "running"]
    /\ UNCHANGED call

Settle(i) ==
    /\ state[i] = "running"
    /\ \E s \in {"done", "paused", "failed"} : state' = [state EXCEPT ![i] = s]
    /\ UNCHANGED call

\* The call cannot even start its work: nothing has been taken up.
Refuse ==
    /\ call = "open"
    /\ InState("running") \cup InState("paused") \cup InState("failed") = {}
    /\ call' = "error"
    /\ UNCHANGED state

Return ==
    /\ call = "open"
    /\ InState("todo") \cup InState("running") = {}
    /\ call' = IF InState("failed") # {} THEN "error"
               ELSE IF InState("paused") # {} THEN "interrupted" ELSE "ok"
    /\ UNCHANGED state

\* The caller resumes: exactly the paused inputs are to be done again.
Resume ==
    /\ call = "interrupted"
    /\ call' = "open"
    /\ state' = [i \in Index |-> IF state[i] = "paused" THEN "todo" ELSE state[i]]

Next ==
    \/ \E i \in Index : Take(i) \/ Settle(i)
    \/ Refuse
    \/ Return
    \/ Resume

Spec == Init /\ [][Next]_vars
=============================================================================
