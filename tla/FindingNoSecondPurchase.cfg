SPECIFICATION MCSpec
CONSTANTS
    b1 = b1
    b2 = b2
    m1 = m1
    m2 = m2
    v1 = v1
    o1 = o1
    o2 = o2
    Browser = {b1}
    NoBrowser = NoBrowser
    Mail = {m1}
    MaxTries = 1
    MaxCodes = 1
    MaxAccounts = 1
    MaxVersion = 0
    Visitor = {v1}
    Request = {m1}
    NoRequest = NoRequest
    Offer = {o1}
    MaxKeys = 2
    Price = {1, 2}
    Operator = {o1}
    Badge = {m1}
    NoBadge = NoBadge
    Tab = {b1}
    PageSize = 1
    PdfMaxRows = 1
    Days = 2
    KeptDays = 1
    LastDay = 0
    MaxScans = 1
    MaxLoads = 1
    MaxStamps = 1
INVARIANTS
    NoSecondPurchase
CHECK_DEADLOCK FALSE
