SPECIFICATION Spec
CONSTANTS
    x = x
    y = y
    note1 = note1
    note2 = note2
    Names = {x, y}
    Instances = {note1, note2}
    None = None
    Shadowing = FALSE
    MaxLength = 9
    MaxCallbacks = 2
CHECK_DEADLOCK FALSE
SYMMETRY Symmetries
INVARIANTS
    StorageTypeOK
    StorageIsInOnePlace
    ReadsItsOwnValue
