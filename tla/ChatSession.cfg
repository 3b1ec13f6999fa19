\* Two questions, an approval, a deletion, a kill and a failed file operation; the
\* line of the third message is too long for a load.
SPECIFICATION Spec
CONSTANTS
    None = None
    TooLong = {3}
    MaxObjects = 2
    MaxFaults = 1
    MaxEvents = 4
    MaxQuestions = 2
    MaxApprovals = 1
    MaxDeletes = 1
    MaxKills = 1
INVARIANTS
    TreeIsWhole
    FaultsCostOne
    FileWithinSession
PROPERTIES
    TurnsAreSaved
    DeletedStaysDeleted
CHECK_DEADLOCK FALSE
