SPECIFICATION FairSpec
CONSTANTS
    mainFile = mainFile
    libFile = libFile
    useLib = useLib
    useLibToo = useLibToo
    alone = alone
    good = good
    wrong = wrong
    broken = broken
    shared = shared
    None = None
    Sources <- MCSources
    Workspace <- MCSources
    Texts <- MCTexts
    Imports <- MCImports
    Defect <- MCDefect
    Places <- NoPlaces
    Word <- NoNames
    Declares <- NoNames
    InitialDisk <- BothOnDisk
    MayContain <- MainImports
    Configured = {}
    EditorMoves = {"open", "change", "exit"}
    MaxEdits = 4
INVARIANTS
    TypeOK
    TablesAgree
    NoLostWakeup
    ImportedSourcesAreNotEntries
    SnapshotsAreFresh
    OpenSourcesAreCovered
PROPERTIES
    ImplementsQueue
    QueueIsServed
    ServerComesToRest
    ExitCompletes
