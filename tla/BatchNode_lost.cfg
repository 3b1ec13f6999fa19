\* Two inputs and two interrupts are enough to lose the first call's result.
SPECIFICATION Spec
CONSTANTS
    N = 2
    MaxConcurrency = 0
    MaxInvocations = 3
INVARIANT NoResultLost
CHECK_DEADLOCK FALSE
