SPECIFICATION Spec
CONSTANTS
    mainFile = mainFile
    otherFile = otherFile
    libFile = libFile
    useLib = useLib
    alone = alone
    good = good
    broken = broken
    unparsed = unparsed
    shared = shared
    None = None
    Sources <- MCSources
    Workspace <- MCSources
    Texts <- MCTexts
    Imports <- MCImports
    Defect <- MCDefect
    Places <- OnePlace
    Word <- MCWord
    Declares <- MCDeclares
    InitialDisk <- MCDisk
    MayContain <- MCMayContain
    Configured <- MCConfigured
    EditorMoves = {"write", "rename"}
    MaxEdits = 4
INVARIANTS
    NoLeakedDiagnostics
    SnapshotsAreFresh
    RenamesEditTheName
