---------------------------- MODULE ImportGraph ----------------------------
(***************************************************************************)
(* The value of an ImportGraph (cksp/Source/ImportGraph.h): the edges      *)
(* importer -> imported that one analysis found.  m_imports and            *)
(* m_dependents are the two directions of this one relation;               *)
(* ImportGraphWalk models both maps, and the walk over them, step by step. *)
(***************************************************************************)
CONSTANT Sources           \* the normalised paths (SourceId) in play

(* A hash map: a function from some members of S to members of T. *)
HashMaps(S, T) == UNION { [D -> T] : D \in SUBSET S }
IsHashMap(map, S, T) == DOMAIN map \in SUBSET S /\ map \in [DOMAIN map -> T]

ImportEdges == SUBSET (Sources \X Sources)

(* A set of sources that contains, with a source, everything importing it. *)
ClosedUnderDependents(graph, set) ==
    \A importer, imported \in Sources :
        <<importer, imported>> \in graph /\ imported \in set => importer \in set

(* The sources from which a path of imports leads to source. *)
Reaching(graph, source) ==
    { s \in Sources : \A set \in SUBSET Sources :
        source \in set /\ ClosedUnderDependents(graph, set) => s \in set }

(* What transitive_dependents_of returns: the start itself is never in it,  *)
(* also when it lies on a cycle.                                            *)
TransitiveDependents(graph, source) == Reaching(graph, source) \ {source}
=============================================================================
