SPECIFICATION FairSpec
CONSTANTS
    Token = {t1, t2}
    NoToken = NoToken
    Unused = Unused
    Deleted = Deleted
    Doc = {1, 2}
    Call = {c1, c2}
    Unlock = {u1}
    ChunkSize = 1
INVARIANTS TypeOK OneDocument DisabledIsQuiet EachTriedOnce
PROPERTIES SwitchedOffForCause DeadAreCleaned
CHECK_DEADLOCK FALSE
