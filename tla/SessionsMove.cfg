SPECIFICATION MoveSpec
CONSTANTS
    p1 = p1
    p2 = p2
    c0 = c0
    c1 = c1
    c2 = c2
    c3 = c3
    b1 = b1
    x1 = x1
    e1 = e1
    e2 = e2
    d1 = d1
    k1 = k1
    r1 = r1
    f1 = f1
    Portals = {p1, p2}
    Chats = {c0, c1, c2, c3, b1}
    Executes = {x1}
    Edits = {e1, e2}
    Deletes = {d1}
    Clears = {k1}
    Renames = {r1}
    Forces = {f1}
    PortalOf <- Owner
    ResendOf <- Again
    Fragile = {c0}
    None = None
CHECK_DEADLOCK FALSE
PROPERTY FieldsSurviveMove
