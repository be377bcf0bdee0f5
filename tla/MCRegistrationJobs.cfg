CONSTANTS
    r1 = r1
    r2 = r2
    w1 = w1
    w2 = w2
    Registration = {r1, r2}
    Capacity = 1
    QrLimit = 1
    MaxAttempts = 1
    Worker = {w1, w2}
    Nobody = Nobody
    NoTask = NoTask
SPECIFICATION Spec
INVARIANTS
    PlacesFit
    PassesSound
    ShownIsReal
SYMMETRY RegistrationSymmetry
