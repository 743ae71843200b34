SPECIFICATION Spec
CONSTANTS
    None = None
    Empty = Empty
    k1 = k1
    k2 = k2
    Keys = {k1}
    Slots = {1, 2, 3}
    MaxMessages = 4
    Owner <- AllInPrimary
    Folders <- OneFolder
    Deps <- Standalone
    Configs = {0, 4}
    Broken = {4}
    Layout <- LayoutOf
    RegistryOf <- Registry0
    ClientSupport = TRUE
    Jinja = {k1}
    Kinds <- WatchKinds
INVARIANT MarksOnlyTracked
INVARIANT ClosedDocumentsLeaveNoSession
