-------------------------- MODULE MCResumableTools --------------------------
(* ResumableTools for TLC: a call of each kind, two arguments, one of them risky. *)
EXTENDS ResumableTools

CONSTANTS a, r, f, g, n

MCKind == [c \in {a, r, f, g, n} |->
    IF c = a THEN "approval" ELSE IF c = r THEN "review" ELSE IF c = f THEN "followup"
    ELSE IF c = g THEN "graph" ELSE "approvable graph"]
=============================================================================
