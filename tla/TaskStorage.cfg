\* Two tasks, an update, a deletion and a list, with failing file operations and a
\* crash anywhere but between the two renames of syncToDisk.
SPECIFICATION Spec
CONSTANTS
    Adds = {a1, a2}
    Updates = {u1}
    Deletes = {d1}
    Lists = {l1}
    None = None
    CrashAt = {"rest", "append", "tmp", "backup", "unbak"}
    Fails = {"append", "tmp", "backup", "swap", "unbak"}
    MaxCrashes = 1
SYMMETRY Symmetry
INVARIANTS
    CacheOnDisk
    AnswersAreSnapshots
PROPERTY KeepsContract
CHECK_DEADLOCK FALSE
