SPECIFICATION Spec
CONSTANTS
    Nonce = {n1}
    Module = "LOW"
    Wrap = 3
    Refresh = 1
    Pulse = 1
    Gap = 1
    Watchdog = 1
    Never = Never
    NoRequest = NoRequest
PROPERTY SavedLevelHolds
