SPECIFICATION MCSpec
CONSTANTS
    c1 = c1
    callback = callback
    worker = worker
    b1 = b1
    b2 = b2
    p1 = p1
    p2 = p2
    l1 = l1
    l2 = l2
    Change = {c1}
    Handler = {callback}
    Worker = {worker}
    NoCall = NoCall
    TrialOffered = TRUE
    MaxVersion = 2
    Client = {b1, b2}
    Password = {p1, p2}
    Link = {l1, l2}
    None = None
    MaxSessionVersion = 2
SYMMETRY UserSymmetry
INVARIANTS
    RefundedNotGranted
    SessionsFollowPassword
    AccountsIInv
PROPERTY PlansSpec
CHECK_DEADLOCK FALSE
