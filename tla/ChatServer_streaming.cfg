\* Three questions, each of which may interrupt an answer its sender sees streaming,
\* an abort and a deletion; no timeout helps.
SPECIFICATION FairSpec
CONSTANTS
    Chats = {c1, c2, c3}
    Approves = {}
    Aborts = {b1}
    Deletes = {d1}
    None = None
    StreamEnds = {"ok"}
    Timeouts = FALSE
    Pace = "streaming"
INVARIANTS
    ReplyToOwnTurn
    OneLiveLoop
    HistoryInOrder
PROPERTIES
    RequestsFinish
CHECK_DEADLOCK FALSE
