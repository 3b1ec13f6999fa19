\* Three chats, which may run side by side, one of them with an over-long answer;
\* deletions at any moment, writes that fail, and two kills anywhere; the window holds
\* less than two turns.
SPECIFICATION Spec
CONSTANTS
    Chats = {c1, c2, c3}
    LongChats = {c3}
    Window = 3
    TooLong <- LongAnswers
    None = None
    Nil = Nil
    Zero = Zero
    Garbled = Garbled
    MaxCrashes = 2
    MaxFaults = 1
INVARIANTS
    MemoryOnDisk
    FileWithinMemory
    DeletedStaysOffDisk
    FinishedAreSeen
    TurnsAreAdjacent
SYMMETRY Symmetry
CHECK_DEADLOCK FALSE
