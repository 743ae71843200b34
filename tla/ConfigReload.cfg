SPECIFICATION Spec
CONSTANTS
    a = a
    b = b
    None = None
    Bad = Bad
    NoTable = NoTable
    Folders <- TwoFolders
    Dirs = {a, b}
    Chain <- Beside
    Within <- WithinBeside
    RootLength <- RootLengths
    Values = {0, 1, 2, 9}
    Invalid <- Rejected
    Default <- Default0
    FileTexts <- Files
    Payloads <- Editor
    MaxChanges = 2
INVARIANT TypeOK
INVARIANT ValidFileValidSettings
INVARIANT FollowsDisk
INVARIANT ScanFollowsSettings
PROPERTY ImplementsLayers
CHECK_DEADLOCK FALSE
