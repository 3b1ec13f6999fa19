\* Four inputs, two slots, two resumes: goroutines wait for a slot, and every mix
\* of successes, interrupts and errors occurs in each call.
\* A call that has returned may be the last one.
SPECIFICATION FairSpec
CONSTANTS
    N = 4
    MaxConcurrency = 2
    MaxInvocations = 3
INVARIANTS
    ConcurrencyBound
    SavedStateSplits
    OutputsAfterOneResume
PROPERTIES
    ImplementsContract
    InvokeReturns
CHECK_DEADLOCK FALSE
