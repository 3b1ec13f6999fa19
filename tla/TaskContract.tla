---------------------------- MODULE TaskContract ----------------------------
(***************************************************************************)
(* What the task manager promises its callers, whatever its cache, its     *)
(* files and its lock do: one change at a time, at once seen by all; a     *)
(* deletion is final and changes nothing else of the task; and what a      *)
(* restart brings back of a task is what was acknowledged last, or a       *)
(* change since then that was not.                                         *)
(***************************************************************************)
CONSTANTS Ids, Task, None

VARIABLES up,     \* is the task manager there?
          tasks,  \* what a list is made from
          safe,   \* what a restart may bring back
          open    \* the task whose change has no answer yet, or None

vars == <<up, tasks, safe, open>>

Init ==
    /\ up = TRUE
    /\ tasks = [i \in Ids |-> None]
    /\ safe = [i \in Ids |-> {None}]
    /\ open = None

There(i) == tasks[i] \in Task /\ ~tasks[i].deleted

\* An addition, an update, or a deletion.
MayBecome(i, t) ==
    \/ tasks[i] = None /\ ~t.deleted
    \/ There(i) /\ ~t.deleted
    \/ There(i) /\ t = [tasks[i] EXCEPT !.deleted = TRUE]

Change(i) ==
    /\ up
    /\ open = None
    /\ open' = i
    /\ \E t \in Task :
          /\ t.id = i
          /\ MayBecome(i, t)
          /\ tasks' = [tasks EXCEPT ![i] = t]
          /\ safe' = [safe EXCEPT ![i] = @ \cup {t}]
    /\ UNCHANGED up

Acknowledge ==
    /\ up
    /\ open # None
    /\ open' = None
    /\ safe' = [safe EXCEPT ![open] = {tasks[open]}]
    /\ UNCHANGED <<up, tasks>>

\* The change was answered with an error: it is seen, and may yet be saved.
GiveUp ==
    /\ up
    /\ open # None
    /\ open' = None
    /\ UNCHANGED <<up, tasks, safe>>

Crash ==
    /\ up
    /\ up' = FALSE
    /\ open' = None
    /\ UNCHANGED <<tasks, safe>>

Restart ==
    /\ ~up
    /\ up' = TRUE
    /\ tasks' \in [Ids -> Task \cup {None}]
    /\ \A i \in Ids : tasks'[i] \in safe[i]
    /\ safe' = [i \in Ids |-> {tasks'[i]}]
    /\ UNCHANGED open

Next ==
    \/ \E i \in Ids : Change(i)
    \/ Acknowledge
    \/ GiveUp
    \/ Crash
    \/ Restart

Spec == Init /\ [][Next]_vars
=============================================================================
