SPECIFICATION FairSpec
CONSTANTS
    det = det
    rec = rec
    age = age
    v1 = v1
    v2 = v2
    Process = {p1, p2}
    File <- MCFile
    Expected <- MCExpected
    Content = {v1, v2}
    NoFile = NoFile
    NoDir = NoDir
    NoManifest = NoManifest
    Foreign = Foreign
    Manifest <- MCManifest
INVARIANTS TypeOK NeverHalfInstalled DownloadsOnlyDisturbed LoadsItsPack PackKept
PROPERTY GetsReady
CHECK_DEADLOCK FALSE
