CONSTANTS
    p1 = p1
    p2 = p2
    callback = callback
    polling = polling
    worker = worker
    Payment = {p1, p2}
    Capacity = 1
    Handler = {callback, polling}
    Worker = {worker}
    NoCall = NoCall
SPECIFICATION MCSpec
INVARIANTS
    TicketOnlyIfPaid
    NeverOversold
PROPERTIES
    SalesSpec
    PaidIsServed
CHECK_DEADLOCK FALSE
