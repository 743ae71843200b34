SPECIFICATION Spec
CONSTANTS
    base = base
    sub = sub
    theme = theme
    cwd = cwd
    None = None
    Bad = Bad
    Stdout = Stdout
    Absent = Absent
    Unreadable = Unreadable
    EmptyText = "empty"
    Known <- Classes
    W106 <- CodeW106
    W107 <- CodeW107
    Files <- TheFiles
    Dirs <- TheDirs
    CWD = cwd
    Inside <- Above
    Walks <- TheWalks
    RelativeTo <- Names
    Parent <- Parents
    Parts <- NameParts
    Relative = {1, 2, 4, base, sub, theme}
    Texts <- TheTexts
    Lines <- TheLines
    Finds <- TheFinds
    Needs <- TheNeeds
    HtmlFormatted <- Html
    JinjaFormatted <- Jinja
    Markers = {"sh"}
    TemplateSuffixes = {"j2"}
    Layouts <- TheLayouts
    DefaultConfig <- Default0
    Edited = {"empty", "plain"}
    Disks <- TheDisks
    ReadOnly = {4}
    Commands <- TheCommands
    MaxCommands = 2
    MaxEdits = 1
INVARIANT ReportIsWanted
INVARIANT ReportIsGolden
INVARIANT FormatOutcome
INVARIANT GatePasses
CHECK_DEADLOCK FALSE
