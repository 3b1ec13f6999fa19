\* Requests at any moment, one of them an approval, with the 60 s timeout.  The
\* clients may stop sending, and so may the system.
SPECIFICATION FairSpec
CONSTANTS
    Chats = {c1, c2}
    Approves = {p1}
    Aborts = {}
    Deletes = {}
    None = None
    StreamEnds = {"ok", "intr"}
    Timeouts = TRUE
    Pace = "any"
INVARIANTS
    NoDoubleClose
PROPERTIES
    DeadLoopForgotten
    PreemptedTurnsEnd
CHECK_DEADLOCK FALSE
