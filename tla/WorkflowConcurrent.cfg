SPECIFICATION Spec
CONSTANTS
    d1 = d1
    d2 = d2
    NoApproval = NoApproval
    N = 2
    Gated = {1}
    Handled = {0, 1}
    Approvals = {1, 2, 3}
    Drivers = {d1, d2}
    OneDriver = FALSE
    Rerun = TRUE
    MayCrash = FALSE
SYMMETRY Symmetric
INVARIANT GatedNeedsGrant
PROPERTY ImplementsGuardedEffect
CHECK_DEADLOCK FALSE
