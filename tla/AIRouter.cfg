SPECIFICATION FairSpec
CONSTANTS
    openai = openai
    groq = groq
    gemini = gemini
    n1 = n1
    n2 = n2
    c1 = c1
    c2 = c2
    envA = envA
    old = old
    good = good
    bad = bad
    NoKey = NoKey
    NoProvider = NoProvider
    Procs = {n1, n2}
    Providers = {openai, groq, gemini}
    Keys = {envA, old, good, bad}
    BadKeys = {bad}
    Vague = {gemini}
    Untimed = {gemini}
    TTL = 2
    Callers = {c1, c2}
    Threshold = 2
    Attempts = 2
    Deployments <- Hosts
INVARIANT StaleKeyBounded OpenAfterFailures
PROPERTY CallsEnd
