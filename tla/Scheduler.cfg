SPECIFICATION FairSpec
CONSTANTS
    a = a
    b = b
    s1 = s1
    s2 = s2
    w1 = w1
    d1 = d1
    d2 = d2
    q1 = q1
    NoOrg = NoOrg
    Orgs = {a, b}
    Syncers = {s1, s2}
    Automators = {w1}
    OnDemand = {d1, d2}
    Requests = {q1}
    Apis <- Api
    Jobs <- TwoJobs
    Unlisted = {"email"}
    Threshold = 2
    Deployments <- Crews
INVARIANT JoinedAfterAll OneRunEach PausedAfterFailures CalledOnUsableSession NothingAfterStop
PROPERTY RoundEnds
