SPECIFICATION Spec
CONSTANTS
    None = None
    Empty = Empty
    k1 = k1
    k2 = k2
    Keys = {k1, k2}
    Slots = {1, 2}
    MaxMessages = 3
    Owner <- SecondInExtra
    Folders <- TwoFolders
    Deps <- Standalone
    Configs = {0, 1, 2, 4}
    Broken = {4}
    Layout <- LayoutOf
    RegistryOf <- Registry0
    ClientSupport = TRUE
    Jinja = {k1, k2}
    Kinds <- ReloadKinds
INVARIANT TypeOK
INVARIANT PublishedIsCurrent

