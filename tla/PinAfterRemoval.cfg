SPECIFICATION Spec
CONSTANTS
    Device = {d1}
    User = {u1}
    Pin = {p1, p2}
    NoPin = NoPin
    Slot = {s1}
    Admin = {a1, a2}
    MaxFailures = 1
    Window = 1
    MaxTime = 0
INVARIANT UnlockOfEnrolledUser
CHECK_DEADLOCK FALSE
