SPECIFICATION FairSpec
CONSTANTS
    Programs = {"plan_execute", "manus", "booking"}
    None = None
    MaxSteps <- Limits
    Streams <- TheStreams
    CallSets <- TheCalls
    MaxToolCalls = 2
    MaxAsks = 2
INVARIANTS
    ConversationKept
    ContextIsAccepted
    AllShownAtEnd
PROPERTIES
    ProgramEnds
CHECK_DEADLOCK FALSE
