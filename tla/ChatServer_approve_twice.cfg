\* Two approvals of one interrupt.
SPECIFICATION Spec
CONSTANTS
    Chats = {c1}
    Approves = {p1, p2}
    Aborts = {}
    Deletes = {}
    None = None
    StreamEnds = {"ok", "intr"}
    Timeouts = FALSE
    Pace = "any"
INVARIANTS
    ApprovedOnce
SYMMETRY Symmetry
CHECK_DEADLOCK FALSE
