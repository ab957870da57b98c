SPECIFICATION Spec
CONSTANTS
    s1 = s1
    s2 = s2
    r1 = r1
    r2 = r2
    p1 = p1
    p2 = p2
    p3 = p3
    h1 = h1
    h2 = h2
    d1 = d1
    Sessions = {s1}
    Runs = {r1}
    Perms = {p1}
    Requests = {h1, h2}
    Directs = {d1}
    SessionOf <- OneSession
    RunOf <- OnePerm
    Repeated <- FirstAgain
    MaxSessions = 1
    MaxBreaks = 0
    None = None
CHECK_DEADLOCK FALSE
INVARIANT OneAnswerEver
