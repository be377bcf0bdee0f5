SPECIFICATION MCSpec
CONSTANTS
    Template = {t1, t2}
    Image = {i1, i2}
    Card = {c1}
    Admin = {a1, a2}
    MaxAssets = 1
    Standard = Standard
    NoImage = NoImage
    NoRequest = NoRequest
    Badge = {b1}
    Design = {d1}
    BuiltIn = BuiltIn
    NoCopy = NoCopy
    Staff = {s1, s2}
    NoErrand = NoErrand
    MaxRevisions = 2
    MaxDrawings = 2
SYMMETRY Symmetry
INVARIANTS
    LibrarySound
    TemplatesSound
    BadgesHold
CHECK_DEADLOCK FALSE
