SPECIFICATION Spec
CONSTANTS
    u1 = u1
    u2 = u2
    Entry = {1, 2, 3}
    Users <- MCUsers
    Owner <- MCOwner
    Everybody = Everybody
    Load = {l1, l2}
    Limit = 1
    MaxTime = 1
    MaxPages = 3
SYMMETRY LoadSymmetry
INVARIANTS TypeOK NewestFirst NothingSkipped
CHECK_DEADLOCK FALSE
