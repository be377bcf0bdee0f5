CONSTANTS
    r1 = r1
    r2 = r2
    w1 = w1
    w2 = w2
    Registration = {r1}
    Capacity = 1
    QrLimit = 1
    MaxAttempts = 3
    Worker = {w1}
    Nobody = Nobody
    NoTask = NoTask
SPECIFICATION IdleRetriesSpec
PROPERTY JobsSettle
