CONSTANTS
    p1 = p1
    p2 = p2
    callback = callback
    worker = worker
    Payout = {p1, p2}
    Credit = {1}
    MaxBalance = 1
    Worker = {worker}
    Handler = {callback}
    NoCall = NoCall
    RejectionsAreFinal = TRUE
SPECIFICATION MCSpec
INVARIANT StatusTruthful
PROPERTIES
    FundsSpec
    ApprovedIsSettled
CHECK_DEADLOCK FALSE
