SPECIFICATION Spec
CONSTANTS
    Device = {d1}
    User = {u1}
    Pin = {p1, p2}
    NoPin = NoPin
    Slot = {s1, s2, s3}
    Admin = {a1, a2}
    MaxFailures = 2
    Window = 2
    MaxTime = 4
SYMMETRY CallSymmetry
CONSTRAINT Bound
INVARIANTS TypeOK NoNewGuessUnderLock GuessBudget LockEnds UnlockJustified
PROPERTY LockNotExtended
CHECK_DEADLOCK FALSE
