\* A call of each kind, side by side in any answers.
SPECIFICATION FairSpec
CONSTANTS
    a = a
    r = r
    f = f
    g = g
    n = n
    Calls = {a, r, f, g, n}
    Kind <- MCKind
    Args = {low, high}
    Risky = {high}
    Zero = zero
    None = None
    Counting = FALSE
INVARIANTS
    RunsAsAgreed
    StepsOnce
PROPERTIES
    QuestionsStay
    RunEnds
CHECK_DEADLOCK FALSE
