-------------------------- MODULE RecursiveStructs --------------------------
(***************************************************************************)
(* NodeStruct::collect_recursive_structs: the structs among those that a    *)
(* struct reaches through its members that lie on a cycle.  It is a depth-  *)
(* first search; members[S] lists the structs that the members of S point   *)
(* to, in the order of the member table, a hash table.                     *)
(***************************************************************************)
EXTENDS Naturals, Sequences, SequencesExt, FiniteSets

(* The structs on the path of the search from child on. *)
LoopFrom(path, child) ==
    LET first == CHOOSE k \in DOMAIN path : path[k] = child
    IN  { path[k] : k \in first .. Len(path) }

(* dfsVisit: path ends with the struct that is visited, found is what the   *)
(* search has visited and what it has found to be on a cycle: an edge back  *)
(* into the path closes one, an edge to a struct visited before and left is *)
(* passed over.                                                            *)
RECURSIVE Visit(_, _, _)
Visit(members, path, found) ==
    LET current == Last(path)
        follow(seen, child) ==
            CASE child \notin seen.visited -> Visit(members, Append(path, child), seen)
              [] child \in Range(path)     -> [seen EXCEPT !.cycle = @ \cup LoopFrom(path, child)]
              [] OTHER                     -> seen
    IN  FoldLeft(follow, [found EXCEPT !.visited = @ \cup {current}], members[current])

CollectRecursiveStructs(members, S) == Visit(members, <<S>>, [visited |-> {}, cycle |-> {}]).cycle

-----------------------------------------------------------------------------
(* Reference definition: a struct is reached from another one by a chain of *)
(* at most as many members as there are structs.                           *)
Reached(members, S) ==
    LET structs == DOMAIN members
        beyond(set) == UNION { Range(members[R]) : R \in set }
        within[n \in 0 .. Cardinality(structs)] ==
            IF n = 0 THEN beyond({S}) ELSE within[n - 1] \cup beyond(within[n - 1])
    IN  within[Cardinality(structs)]

OnCycles(members, S) == { R \in Reached(members, S) \cup {S} : R \in Reached(members, R) }
=============================================================================
