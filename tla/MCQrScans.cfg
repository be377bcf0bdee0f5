SPECIFICATION MCSpec
CONSTANTS
    s1 = s1
    s2 = s2
    p1 = p1
    a1 = a1
    a2 = a2
    Scanner = {s1, s2}
    Phone = {p1}
    Admin = {a1, a2}
    UsageLimit = 1
    PeriodLimit = 1
    LastValid = 1
    Credit = {1}
    MaxLimit = 3
    LastPeriod = 1
    NoScan = NoScan
    NoPhone = NoPhone
    NoCode = NoCode
    Page = {s1, s2}
    Issuer = {a1, a2}
    QrLimits = {1, 2, 3}
    PassQrLimit = 2
    PartSize = 1
    MaxRows = 2
    MaxAttempts = 3
    Editor = {s1, s2}
    Area = {a1, a2}
    MaxUpdates = 3
    Viewer = {s1, s2}
    MaxSaves = 2
SYMMETRY ScanSymmetry
INVARIANTS
    UsageKept
    OverrunBounded
    DownloadIsComplete
    SchedulesWhole
    PhotoIsNotOlder
PROPERTIES
    ShownIsAccounted
    OldCodesAreDead
    IssuanceSound
CHECK_DEADLOCK FALSE
