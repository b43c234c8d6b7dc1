SPECIFICATION Spec
CONSTANTS
    Engine = Engine
    Rack = Rack
    Cable = Cable
    Socket = Socket
    cable = cable
    rack = rack
    socket = socket
    back = back
    over = over
    top = top
    s1 = s1
    r1 = r1
    e1 = e1
    Structs <- MCStructs
    Members <- MCMembers
    Owner <- MCOwner
    Vars <- MCVars
    Tmp = {}
    TypeOf <- MCTypeOf
    Recursive <- MCRecursive
    Params <- MCParams
    Others <- MCOthers
    MaxStructs <- MCMaxStructs
    Programs <- MCPrograms
    Overlaps = FALSE
    Outside = 0
    MaxStatements <- MCMaxStatements
INVARIANTS
    StacksAreDrained
