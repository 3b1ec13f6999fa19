------------------------------ MODULE GraphRun ------------------------------
(***************************************************************************)
(* A compose graph of models and tools over one list of messages, as the    *)
(* programs that are built on it see it: nodes that run one after another,  *)
(* a bound on the nodes of one call, an error that ends the call.  Compose  *)
(* itself is not in the repository.                                         *)
(***************************************************************************)
EXTENDS Naturals, Sequences, SequencesExt

CONSTANTS
    Programs,   \* which of the programs are run
    MaxSteps    \* the nodes that one call of a program's graph may run

ASSUME GraphAssumption ==
    /\ Programs \subseteq DOMAIN MaxSteps
    /\ \A p \in Programs : MaxSteps[p] \in Nat

VARIABLES
    prog,   \* the program
    st,     \* "running", "returned" from the graph, "asking" its user, "answered" by
            \* the user, "ended", "failed", "crashed"
    at,     \* the node that runs next
    input,  \* its input, a sequence of messages
    msgs,   \* the messages in the graph's local state
    steps,  \* the nodes this call has run
    said    \* history: everything said so far, in its order

graphVars == <<prog, st, at, input, msgs, steps, said>>

Message(role, text, calls) == [role |-> role, text |-> text, calls |-> calls]
User(text) == Message("user", text, <<>>)
Result == Message("tool", "result", <<>>)
Results(m) == [i \in DOMAIN m.calls |-> Result]

Start(p, node, in) ==
    /\ prog = p
    /\ st = "running"
    /\ at = node
    /\ input = in
    /\ msgs = <<>>
    /\ steps = 0

Runs(node) ==
    /\ st = "running"
    /\ at = node
    /\ steps < MaxSteps[prog]
    /\ steps' = steps + 1

GoesTo(node, in) == at' = node /\ input' = in

\* The program is over, and what it held in memory with it.
Over(how) ==
    /\ st' = how
    /\ GoesTo("none", <<>>)
    /\ msgs' = <<>>
    /\ steps' = 0
    /\ said' = <<>>
    /\ UNCHANGED prog

\* A node is due, and the call has run as many as it may.
OutOfSteps ==
    /\ st = "running"
    /\ at \notin {"END", "broken", "tools running"}
    /\ steps = MaxSteps[prog]
    /\ Over("failed")

\* A model, a tool or a handler returns an error, and so does the call.
NodeFails ==
    /\ st = "running"
    /\ at \notin {"END", "broken"}
    /\ Over("failed")
=============================================================================
