SPECIFICATION Spec
CONSTANTS
    a1 = a1
    a2 = a2
    a3 = a3
    e1 = e1
    w1 = w1
    w2 = w2
    k1 = k1
    k2 = k2
    NoKey = NoKey
    NoApproval = NoApproval
    Nobody = Nobody
    Requester = Requester
    Approvals = {a1, a2}
    Workers = {w1, w2}
    Emails = {e1}
    Keys = {k1, k2}
    Kind <- TwoReplies
    EmailOf <- SameEmail
    RequestKey <- NoRequestKeys
    AutoApproveOn = FALSE
    MayFail = TRUE
    AmbiguousSend = FALSE
INVARIANT TypeOK AtMostOnce EffectNeedsGrant SucceededIsReal
PROPERTY ReleasedUnused ImplementsGuardedEffect
CHECK_DEADLOCK FALSE
