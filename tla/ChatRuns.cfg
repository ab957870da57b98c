SPECIFICATION FewSpec
CONSTANTS
    q1 = q1
    q2 = q2
    a1 = a1
    a2 = a2
    a3 = a3
    a4 = a4
    b1 = b1
    b2 = b2
    b3 = b3
    k1 = k1
    Requests = {q1, q2}
    Streams = {a1, a2, a4, b1, b3}
    Chats = {a3, b2}
    Cancels = {k1}
    RequestOf <- TwoRequests
    Breaking = {a1}
    MaxRecords = 1
    MaxCrashes = 1
    None = None
CHECK_DEADLOCK FALSE
INVARIANTS
    NoPhantomRun
    OneLiveRun
    OutcomesAgree
PROPERTIES
    CancelStands
    RunSettles
