SPECIFICATION FairSpec
CONSTANTS
    Deposit = {d1}
    Handler = {callback}
    Worker = {worker}
    NoCall = NoCall
    Page = {p1, p2}
    Low = Low
    High = High
    EventLimit <- MCEventLimit
    Month = 1
    MaxEvents = 2
    MaxNow = 1
PROPERTIES
    EventsArePaidFor
    PaidPassIsGranted
CHECK_DEADLOCK FALSE
