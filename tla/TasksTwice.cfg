SPECIFICATION Spec
CONSTANTS
    t1 = t1
    t2 = t2
    p1 = p1
    e1 = e1
    e2 = e2
    e3 = e3
    c1 = c1
    None = None
    Tasks = {t1, t2}
    Portals = {p1}
    Execs = {e1, e2, e3}
    Cancels = {}
    TaskOf <- TwoTasks
    PortalOf <- OnePortal
    Answers = {"success"}
    MaxCrashes = 0
INVARIANTS
    SuccessIsOwnEver
CHECK_DEADLOCK FALSE
