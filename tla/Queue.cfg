SPECIFICATION FairSpec
CONSTANTS
    j1 = j1
    j2 = j2
    j3 = j3
    w1 = w1
    w2 = w2
    NoJob = NoJob
    Unlocked = Unlocked
    Jobs = {j1, j2, j3}
    Workers = {w1, w2}
    Priority <- Urgent
    MaxRetries <- RetryTwice
    Delay <- SecondLater
    Registered = {j1, j2}
    Lease = 2
    Base = 1
    MaxCrashes = 1
    MayOverrun = FALSE
INVARIANT RunByOne OutcomeIsTrue AttemptsAccounted
PROPERTY SettledForGood ImplementsExclusiveWork EventuallySettled
CHECK_DEADLOCK FALSE
