SPECIFICATION FairSpec
CONSTANTS
    c1 = c1
    r1 = r1
    r2 = r2
    o1 = o1
    o2 = o2
    NoId = NoId
    MaxId = 2
    Callers = {c1}
    Retriers = {r1, r2}
    Operators = {o1, o2}
    Deployments <- InlineOrQueued
    Batch = 2
    Keep = 1
INVARIANT RowIsTrue
PROPERTY GivenUpOnlyExhausted NeverReopened ReopenedOnlyByFirstRetry EventuallySettled
CHECK_DEADLOCK FALSE
