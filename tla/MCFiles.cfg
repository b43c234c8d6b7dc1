SPECIFICATION Spec
CONSTANTS
    mainFile = mainFile
    libFile = libFile
    useLib = useLib
    useLibToo = useLibToo
    alone = alone
    good = good
    wrong = wrong
    broken = broken
    shared = shared
    None = None
    Sources <- MCSources
    Workspace <- MCSources
    Texts <- MCTexts
    Imports <- MCImports
    Defect <- MCDefect
    Places <- NoPlaces
    Word <- NoNames
    Declares <- NoNames
    InitialDisk <- BothOnDisk
    MayContain <- MainMayDropLib
    Configured = {}
    EditorMoves = {"open", "close", "write", "remove"}
    MaxEdits = 4
INVARIANTS
    TablesAgree
    DeletedEntriesStayGone
    ClientShowsDiagnostics
