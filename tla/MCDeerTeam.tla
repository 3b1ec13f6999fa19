----------------------------- MODULE MCDeerTeam -----------------------------
(* DeerTeam for TLC: plans of no step, of one the model has filled in, and of two. *)
EXTENDS DeerTeam

NewStep(t) == [type |-> t, res |-> "none"]
Prefilled == [type |-> "research", res |-> "model"]
Steps == {<<>>, <<Prefilled>>, <<NewStep("processing"), NewStep("research")>>,
          <<NewStep("other"), NewStep("research")>>}
MCAnswers ==
    [parsed : {TRUE}, plan : [enough : {FALSE}, steps : Steps]]
    \cup [parsed : BOOLEAN, plan : [enough : {TRUE}, steps : {<<>>, <<NewStep("research")>>}]]
=============================================================================
