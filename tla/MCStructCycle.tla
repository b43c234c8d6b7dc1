--------------------------- MODULE MCStructCycle ----------------------------
(***************************************************************************)
(* Four structs on common cycles, of which collect_recursive_structs misses *)
(* one: the search from Engine goes through Cable and Rack to Socket, whose *)
(* only member leads back to Cable, where the search has been and which is  *)
(* no longer on its path.  So Socket is recursive for Rack and not for      *)
(* Engine.  The program declares objects and leaves their scopes.           *)
(***************************************************************************)
EXTENDS StructHeap, RecursiveStructs, TLC

CONSTANTS
    Engine, Rack, Cable, Socket,               \* structs
    cable, rack, socket, back, over, top,      \* members
    s1, r1, e1                                 \* variables

MCStructs == {Engine, Rack, Cable, Socket}
MCMembers == {cable, rack, socket, back, over, top}
MCOwner == [m \in MCMembers |-> CASE m \in {cable, rack}  -> Engine
                                  [] m \in {socket, back} -> Rack
                                  [] m = top              -> Cable
                                  [] m = over             -> Socket]
MCVars == {s1, r1, e1}
MCTypeOf == [x \in MCMembers \cup MCVars |->
    CASE x \in {back, top, e1} -> Engine
      [] x \in {rack, r1}      -> Rack
      [] x \in {cable, over}   -> Cable
      [] x \in {socket, s1}    -> Socket]

(* The members in the order of their table, which is not the declaration's. *)
MCPointers == [S \in MCStructs |-> CASE S = Engine -> <<Cable, Rack>>
                                     [] S = Rack   -> <<Socket, Engine>>
                                     [] S = Cable  -> <<Engine>>
                                     [] S = Socket -> <<Cable>>]
MCRecursive == [S \in MCStructs |-> CollectRecursiveStructs(MCPointers, S)]

MCParams == [S \in MCStructs |-> CASE S = Engine -> <<rack>>
                                   [] S = Rack   -> <<socket>>
                                   [] OTHER      -> <<>>]
Order == <<Cable, Engine, Rack, Socket>>
MCOthers == [S \in MCStructs |-> SelectSeq(Order, LAMBDA R : R \in MCRecursive[S] \ {S})]
MCMaxStructs == [S \in MCStructs |-> 1]
MCPrograms == {MCStructs}
MCMaxStatements == [P \in MCPrograms |-> 6]
=============================================================================
