SPECIFICATION Spec
CONSTANTS
    Face = {f1}
    PinCall = {}
    Device = {}
    Remover = {a1}
    Nobody = Nobody
INVARIANTS
    ImagesErased
CHECK_DEADLOCK FALSE
