SPECIFICATION FairSpec
CONSTANTS
    Face = {f1}
    PinCall = {p1}
    Device = {d1}
    Remover = {a1, a2}
    Nobody = Nobody
INVARIANTS TypeOK EntryOutlivesImage UserLast
PROPERTIES NeverRecreated MarkedAreDeleted
CHECK_DEADLOCK FALSE
