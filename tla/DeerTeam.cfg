\* Two requests of a thread and a console run, with one restart of the server.
SPECIFICATION FairSpec
CONSTANTS
    Requests = {q1, q2}
    Consoles = {k1}
    Answers <- MCAnswers
    MaxPlanIterations = 2
    None = None
    MaxRestarts = 1
INVARIANTS
    OneAcceptOnePlan
    PlansAreBounded
    RightAgent
    TeamReportsAll
PROPERTIES
    RunsEnd
CHECK_DEADLOCK FALSE
