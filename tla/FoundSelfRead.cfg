SPECIFICATION Spec
CONSTANTS
    Tree = Tree
    Zone = Zone
    Instrument = Instrument
    Group = Group
    Node = Node
    Edge = Edge
    left = left
    right = right
    zone = zone
    groups = groups
    next = next
    out = out
    end = end
    t1 = t1
    t2 = t2
    z1 = z1
    i1 = i1
    g1 = g1
    n1 = n1
    e1 = e1
    tmpTree = tmpTree
    tmpGroup = tmpGroup
    tmpZone = tmpZone
    tmpInstrument = tmpInstrument
    tmpNode = tmpNode
    tmpEdge = tmpEdge
    Structs <- MCStructs
    Members <- MCMembers
    Owner <- MCOwner
    Vars <- MCVars
    Tmp <- MCTmp
    TypeOf <- MCTypeOf
    Recursive <- MCRecursive
    Params <- MCParams
    Others <- MCOthers
    MaxStructs <- MCMaxStructs
    Programs <- MCPrograms
    Overlaps = TRUE
    Outside = 0
    MaxStatements <- MCMaxStatements
INVARIANTS
    AssignmentTakesEffect
