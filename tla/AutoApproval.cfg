SPECIFICATION Spec
CONSTANTS
    p1 = p1
    p2 = p2
    d1 = d1
    d2 = d2
    a1 = a1
    a2 = a2
    e1 = e1
    w1 = w1
    w2 = w2
    r1 = r1
    NoPattern = NoPattern
    Patterns = {p1, p2}
    Deciders = {d1, d2}
    Thresholds = {1, 2}
    MaxDecisions = 3
    Admins = {a1, a2}
    Editors = {e1}
    Executors = {w1, w2}
    Caps = {1, 2}
    MaxVersions = 2
    Requests = {r1}
    Scenarios <- All
INVARIANT CountsWereDecided InStep StartsUnderSwitch CapNearlyKept ApprovedByRule
PROPERTY WritesItsColumns
CHECK_DEADLOCK FALSE
