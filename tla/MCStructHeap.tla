---------------------------- MODULE MCStructHeap ----------------------------
(***************************************************************************)
(* Instances of StructHeap.  Three kinds of programs: a tree, whose nodes   *)
(* are released by a loop over their own stack; an instrument with a plain  *)
(* object and groups, where the release of the instrument drains the stack  *)
(* of the groups, which by themselves are a list; nodes and edges that      *)
(* point to each other.                                                    *)
(***************************************************************************)
EXTENDS StructHeap, RecursiveStructs, TLC

CONSTANTS
    Tree, Zone, Instrument, Group, Node, Edge,    \* structs
    left, right, zone, groups, next, out, end,     \* members
    t1, t2, z1, i1, g1, n1, e1,                   \* variables
    tmpTree, tmpGroup, tmpZone, tmpInstrument, tmpNode, tmpEdge

MCStructs == {Tree, Zone, Instrument, Group, Node, Edge}
MCMembers == {left, right, zone, groups, next, out, end}
MCOwner == [m \in MCMembers |-> CASE m \in {left, right}  -> Tree
                                  [] m \in {groups, zone} -> Instrument
                                  [] m = next             -> Group
                                  [] m = out              -> Node
                                  [] m = end              -> Edge]
MCTmp == {tmpTree, tmpGroup, tmpZone, tmpInstrument, tmpNode, tmpEdge}
MCVars == {t1, t2, z1, i1, g1, n1, e1} \cup MCTmp
MCTypeOf == [x \in MCMembers \cup MCVars |->
    CASE x \in {left, right, t1, t2, tmpTree} -> Tree
      [] x \in {groups, next, g1, tmpGroup}   -> Group
      [] x \in {zone, z1, tmpZone}            -> Zone
      [] x \in {i1, tmpInstrument}            -> Instrument
      [] x \in {end, n1, tmpNode}              -> Node
      [] x \in {out, e1, tmpEdge}             -> Edge]
MCPointers == [S \in MCStructs |-> CASE S = Tree       -> <<Tree, Tree>>
                                     [] S = Zone       -> <<>>
                                     [] S = Instrument -> <<Group, Zone>>
                                     [] S = Group      -> <<Group>>
                                     [] S = Node       -> <<Edge>>
                                     [] S = Edge       -> <<Node>>]
MCRecursive == [S \in MCStructs |-> CASE S = Tree -> {Tree}
                                      [] S = Zone -> {}
                                      [] S \in {Instrument, Group} -> {Group}
                                      [] S \in {Node, Edge} -> {Node, Edge}]

(* This is what collect_recursive_structs finds, all there is to find here, *)
(* and closed, as the theorems about the heap require.                     *)
ASSUME RecursionIsFound ==
    /\ \A S \in MCStructs : /\ MCRecursive[S] = CollectRecursiveStructs(MCPointers, S)
                            /\ MCRecursive[S] = OnCycles(MCPointers, S)
    /\ RecursionIsClosed

(* With three structs of at most two members the search finds only structs  *)
(* on cycles, and may miss some, but what it finds is closed.               *)
Shapes == LET three == {Tree, Zone, Group}
          IN  [three -> UNION { [1 .. n -> three] : n \in 0 .. 2 }]
ASSUME SmallRecursionIsClosed ==
    \A shape \in Shapes :
        LET found == [S \in DOMAIN shape |-> CollectRecursiveStructs(shape, S)]
        IN  \A S \in DOMAIN shape :
               /\ found[S] \subseteq OnCycles(shape, S)
               /\ \A R \in {S} \cup found[S] : Range(shape[R]) \cap found[R] \subseteq {S} \cup found[S]

MCParams == [S \in MCStructs |-> CASE S = Tree       -> <<left>>
                                   [] S = Instrument -> <<zone>>
                                   [] S = Group      -> <<next>>
                                   [] S = Node       -> <<out>>
                                   [] S = Edge       -> <<end>>
                                   [] S = Zone       -> <<>>]
MCOthers == [S \in MCStructs |-> CASE S = Instrument -> <<Group>>
                                   [] S = Node -> <<Edge>>
                                   [] S = Edge -> <<Node>>
                                   [] OTHER    -> <<>>]
MCMaxStructs == [S \in MCStructs |-> IF S \in {Tree, Group, Node} THEN 2 ELSE 1]
MCPrograms == {{Tree}, {Instrument, Group, Zone}, {Node, Edge}}
MCMaxStatements == [P \in MCPrograms |-> IF P = {Node, Edge} THEN 5 ELSE 4]
=============================================================================
