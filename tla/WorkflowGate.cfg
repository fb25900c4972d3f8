SPECIFICATION Spec
CONSTANTS
    d1 = d1
    d2 = d2
    NoApproval = NoApproval
    N = 2
    Gated = {0, 1}
    Handled = {0, 1}
    Approvals = {1, 2}
    Drivers = {d1}
    OneDriver = TRUE
    Rerun = FALSE
    MayCrash = FALSE
INVARIANT GatedNeedsOwnGrant
CHECK_DEADLOCK FALSE
