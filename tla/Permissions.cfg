SPECIFICATION FewSpec
CONSTANTS
    s1 = s1
    s2 = s2
    r1 = r1
    r2 = r2
    p1 = p1
    p2 = p2
    p3 = p3
    h1 = h1
    h2 = h2
    d1 = d1
    Sessions = {s1, s2}
    Runs = {r1, r2}
    Perms = {p1, p2, p3}
    Requests = {h1, h2}
    Directs = {d1}
    SessionOf <- TwoSessions
    RunOf <- ThreePerms
    Repeated <- FirstAgain
    MaxSessions = 1
    MaxBreaks = 1
    None = None
CHECK_DEADLOCK FALSE
INVARIANTS
    OneAnswer
PROPERTIES
    CardSurvives
    ClaimEnds
