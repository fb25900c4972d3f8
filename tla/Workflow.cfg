SPECIFICATION FairSpec
CONSTANTS
    d1 = d1
    d2 = d2
    NoApproval = NoApproval
    N = 2
    Gated = {1}
    Handled = {0, 1}
    Approvals = {1, 2, 3}
    Drivers = {d1, d2}
    OneDriver = TRUE
    Rerun = FALSE
    MayCrash = TRUE
INVARIANT KeyActsOnce CompletedMeansDone
PROPERTY ActsInOrder RunningRests
CHECK_DEADLOCK FALSE
