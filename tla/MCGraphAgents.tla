---------------------------- MODULE MCGraphAgents ----------------------------
(* GraphAgents with streams of up to two chunks and small limits. *)
EXTENDS GraphAgents

TheStreams == [planner |-> {<<"reasoning", "content">>},
               executor |-> {<<"call">>, <<"content", "call">>},
               reviser |-> {<<"reasoning", "content">>, <<"content", "error">>}]
TheCalls == {<<>>, <<"other">>, <<"browser", "other">>}
Limits == [plan_execute |-> 7, manus |-> 6, booking |-> 4]
=============================================================================
