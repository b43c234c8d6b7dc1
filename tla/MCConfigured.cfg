SPECIFICATION Spec
CONSTANTS
    mainFile = mainFile
    libFile = libFile
    useLib = useLib
    useLibToo = useLibToo
    alone = alone
    good = good
    wrong = wrong
    broken = broken
    shared = shared
    None = None
    Sources <- MCSources
    Workspace <- MCSources
    Texts <- MCTexts
    Imports <- MCImports
    Defect <- MCDefect
    Places <- TwoPlaces
    Word <- SharedWord
    Declares <- SharedDeclared
    InitialDisk <- BothOnDisk
    MayContain <- MainImports
    Configured <- JustMain
    EditorMoves = {"open", "change", "close", "rename"}
    MaxEdits = 4
INVARIANTS
    SettledRenamesAreWhole
    SnapshotsAreFresh
    OpenSourcesAreCovered
    ImportedSourcesAreNotEntries
