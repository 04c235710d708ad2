SPECIFICATION Spec
CONSTANTS
    f1 = f1
    f2 = f2
    mid = mid
    far = far
    User = {1, 2}
    Face = {f1, f2, mid, far}
    Call = {c1, c2}
    Enrolments <- MCEnrolments
    Sim <- MCSim
    Alike <- MCAlike
    Decay <- MCDecay
    MinWeight = 30
    High = 75
    Medium = 60
    PruneBelow = 65
    Tol = 1
    MaxAdaptive = 2
    Allowed = {1, 2}
    MediumUnlock = TRUE
    Learning = TRUE
    MaxTime = 1
    NoUser = NoUser
SYMMETRY CallSymmetry
INVARIANTS
    TypeOK
    LearnedFits
    StableChoice
    EnrolledFaceOpens
PROPERTIES
    OnlyWeakLost
CHECK_DEADLOCK FALSE
