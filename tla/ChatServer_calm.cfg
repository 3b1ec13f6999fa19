\* Two questions, two approvals and an abort; approvals wait for the interrupted
\* loop to be gone.
SPECIFICATION Spec
CONSTANTS
    Chats = {c1, c2}
    Approves = {p1, p2}
    Aborts = {b1}
    Deletes = {}
    None = None
    StreamEnds = {"ok", "intr", "err"}
    Timeouts = FALSE
    Pace = "calm"
INVARIANT PendingMatchesCheckpoint
PROPERTY KeepsContract
SYMMETRY Symmetry
CHECK_DEADLOCK FALSE
