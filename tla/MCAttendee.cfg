SPECIFICATION MCSpec
CONSTANTS
    b1 = b1
    b2 = b2
    m1 = m1
    m2 = m2
    v1 = v1
    o1 = o1
    o2 = o2
    Browser = {b1, b2}
    NoBrowser = NoBrowser
    Mail = {m1, m2}
    MaxTries = 2
    MaxCodes = 3
    MaxAccounts = 2
    MaxVersion = 1
    Visitor = {v1}
    Request = {m1, m2}
    NoRequest = NoRequest
    Offer = {o1, o2}
    MaxKeys = 2
    Price = {1, 2}
    Operator = {o1, o2}
    Badge = {m1, m2}
    NoBadge = NoBadge
    Tab = {b1, b2}
    PageSize = 1
    PdfMaxRows = 1
    Days = 2
    KeptDays = 1
    LastDay = 1
    MaxScans = 3
    MaxLoads = 1
    MaxStamps = 2
SYMMETRY Interchangeable
INVARIANTS
    SubmissionsHold
    AttemptBuysOnce
    PagesLeaveNoGap
    FiguresHold
PROPERTY BoxIsKept
CHECK_DEADLOCK FALSE
