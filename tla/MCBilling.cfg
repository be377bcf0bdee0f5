CONSTANTS
    t1 = t1
    t2 = t2
    r1 = r1
    r2 = r2
    a1 = a1
    a2 = a2
    Sale = {t1, t2}
    Prices = {100, 105}
    Rates = {5000}
    NoRate = NoRate
    DefaultRate = 1000
    Payouts = {1}
    Asked = {0, 50}
    Offer <- MCOffer
    Configuration <- MCConfiguration
    First <- MCFirst
    Base <- MCBase
    Factor <- MCFactor
    Length <- MCLength
    Start <- MCStart
    Payment = {1}
    NoAccount = NoAccount
    NoQuote = NoQuote
    MaxOverrides = 1
    MaxQuotes = 2
    MaxPolls = 1
    EndOfTime = 2
    Attempt = {a1, a2}
    NoAttempt = NoAttempt
    Runner = {r1, r2}
    NoRun = NoRun
SPECIFICATION MCSpec
INVARIANTS
    PageSound
    AmountsHold
    RefundsHold
PROPERTY GrantsWhatIsPaid
CHECK_DEADLOCK FALSE
