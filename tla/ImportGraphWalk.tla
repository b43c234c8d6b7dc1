-------------------------- MODULE ImportGraphWalk --------------------------
(***************************************************************************)
(* The class ImportGraph as a state machine: the two hash maps, the        *)
(* operations that maintain them, and transitive_dependents_of as the      *)
(* explicit-stack walk the code runs, one loop iteration per step.         *)
(*                                                                         *)
(* A walk is a const member call of one thread, so the maps do not change  *)
(* while it runs; every start on every reachable graph is explored.        *)
(***************************************************************************)
EXTENDS ImportGraph, Naturals, Sequences

CONSTANT MaxEdits          \* bound: calls that change the maps

ASSUME MaxEditsAssumption == MaxEdits \in Nat

VARIABLES
    imports,       \* m_imports:    the sources added -> the sets they import
    dependents,    \* m_dependents: the sources added -> the sets importing them
    edits,         \* map-changing calls so far (bounded by MaxEdits)
    phase,         \* "idle", or where transitive_dependents_of is
    start,         \* its argument
    visited,       \* its visited set
    stack,         \* its stack
    iterating,     \* dependents of the popped source the for loop has left
    result         \* its result vector

maps == <<imports, dependents, edits>>
walk == <<phase, start, visited, stack, iterating, result>>
vars == <<imports, dependents, edits, phase, start, visited, stack, iterating, result>>

TypeOK ==
    /\ imports \in HashMaps(Sources, SUBSET Sources)
    /\ dependents \in HashMaps(Sources, SUBSET Sources)
    /\ edits \in 0..MaxEdits
    /\ phase \in {"idle", "pop", "each", "done"}
    /\ start \in Sources
    /\ visited \in SUBSET Sources
    /\ stack \in Seq(Sources)
    /\ iterating \in SUBSET Sources
    /\ result \in Seq(Sources)
    /\ phase \in {"pop", "each"} => start \in visited

(* The graph the maps stand for, read from m_imports. *)
Edges == { edge \in Sources \X Sources :
             edge[1] \in DOMAIN imports /\ edge[2] \in imports[edge[1]] }

Init ==
    /\ imports = [s \in {} |-> {}]
    /\ dependents = [s \in {} |-> {}]
    /\ edits = 0
    /\ phase = "idle"
    /\ start \in Sources
    /\ visited = {} /\ stack = <<>> /\ iterating = {} /\ result = <<>>

(* try_emplace: an entry that exists is left alone. *)
Emplace(map, set) ==
    [s \in DOMAIN map \cup set |-> IF s \in DOMAIN map THEN map[s] ELSE {}]

Edit == /\ phase = "idle" /\ edits < MaxEdits
        /\ edits' = edits + 1
        /\ UNCHANGED walk

AddSource(source) ==
    /\ Edit
    /\ imports' = Emplace(imports, {source})
    /\ dependents' = Emplace(dependents, {source})

AddImport(importer, imported) ==
    /\ Edit
    /\ imports' = [Emplace(imports, {importer, imported})
                     EXCEPT ![importer] = @ \cup {imported}]
    /\ dependents' = [Emplace(dependents, {importer, imported})
                        EXCEPT ![imported] = @ \cup {importer}]

(* Mutant of RemoveImport: the reverse edge is forgotten. *)
RemoveImportOneWay(importer, imported) ==
    /\ Edit
    /\ imports' = [s \in DOMAIN imports |->
                     IF s = importer THEN imports[s] \ {imported} ELSE imports[s]]
    /\ UNCHANGED dependents

RemoveImport(importer, imported) ==
    /\ Edit
    /\ imports' = [s \in DOMAIN imports |->
                     IF s = importer THEN imports[s] \ {imported} ELSE imports[s]]
    /\ dependents' = [s \in DOMAIN dependents |->
                        IF s = imported THEN dependents[s] \ {importer} ELSE dependents[s]]

(* add_source, then remove_import of every old import, then add_import of   *)
(* every new one.                                                           *)
SetImports(importer, imported) ==
    /\ Edit
    /\ imports' = [Emplace(imports, {importer} \cup imported) EXCEPT ![importer] = imported]
    /\ dependents' = [s \in DOMAIN dependents \cup {importer} \cup imported |->
                        (IF s \in DOMAIN dependents THEN dependents[s] \ {importer} ELSE {})
                          \cup (IF s \in imported THEN {importer} ELSE {})]

(***************************************************************************)
(* transitive_dependents_of                                                *)
(***************************************************************************)
(* Mutant of StartWalk: the start is not marked visited. *)
StartWalkUnmarked(source) ==
    /\ phase = "idle"
    /\ start' = source
    /\ visited' = {} /\ stack' = <<source>> /\ iterating' = {} /\ result' = <<>>
    /\ phase' = "pop"
    /\ UNCHANGED maps

StartWalk(source) ==
    /\ phase = "idle"
    /\ start' = source
    /\ visited' = {source} /\ stack' = <<source>> /\ iterating' = {} /\ result' = <<>>
    /\ phase' = "pop"
    /\ UNCHANGED maps

(* Mutant of Pop: the source is read off the stack but not removed. *)
PopWithoutRemoving ==
    /\ phase = "pop" /\ stack # <<>>
    /\ LET current == stack[Len(stack)]
       IN  iterating' = IF current \in DOMAIN dependents THEN dependents[current] ELSE {}
    /\ phase' = "each"
    /\ UNCHANGED <<maps, start, visited, stack, result>>

(* One turn of the while loop's head; an unknown source has no dependents.  *)
Pop ==
    /\ phase = "pop" /\ stack # <<>>
    /\ LET current == stack[Len(stack)]
       IN  iterating' = IF current \in DOMAIN dependents THEN dependents[current] ELSE {}
    /\ stack' = SubSeq(stack, 1, Len(stack) - 1)
    /\ phase' = "each"
    /\ UNCHANGED <<maps, start, visited, result>>

(* Mutants of Visit: a new dependent is not pushed, so only direct           *)
(* dependents are found; the visited check is dropped.                      *)
VisitWithoutPush(dependent) ==
    /\ phase = "each" /\ dependent \in iterating
    /\ iterating' = iterating \ {dependent}
    /\ visited' = visited \cup {dependent}
    /\ result' = IF dependent \in visited THEN result ELSE Append(result, dependent)
    /\ UNCHANGED <<maps, start, phase, stack>>

VisitUnchecked(dependent) ==
    /\ phase = "each" /\ dependent \in iterating
    /\ iterating' = iterating \ {dependent}
    /\ visited' = visited \cup {dependent}
    /\ result' = Append(result, dependent)
    /\ stack' = Append(stack, dependent)
    /\ UNCHANGED <<maps, start, phase>>

(* One turn of the for loop; hash order is arbitrary. *)
Visit(dependent) ==
    /\ phase = "each" /\ dependent \in iterating
    /\ iterating' = iterating \ {dependent}
    /\ visited' = visited \cup {dependent}
    /\ IF dependent \in visited
       THEN UNCHANGED <<result, stack>>
       ELSE /\ result' = Append(result, dependent)
            /\ stack' = Append(stack, dependent)
    /\ UNCHANGED <<maps, start, phase>>

EndOfDependents ==
    /\ phase = "each" /\ iterating = {}
    /\ phase' = "pop"
    /\ UNCHANGED <<maps, start, visited, stack, iterating, result>>

Return ==
    /\ phase = "pop" /\ stack = <<>>
    /\ phase' = "done"
    /\ UNCHANGED <<maps, start, visited, stack, iterating, result>>

(* The caller has used the vector. *)
Finish ==
    /\ phase = "done"
    /\ phase' = "idle"
    /\ visited' = {} /\ result' = <<>>
    /\ UNCHANGED <<maps, start, stack, iterating>>

Walk == Pop \/ (\E s \in Sources : Visit(s)) \/ EndOfDependents \/ Return

Next ==
    \/ \E s \in Sources : AddSource(s)
    \/ \E p, i \in Sources : AddImport(p, i)
    \/ \E p, i \in Sources : RemoveImport(p, i)
    \/ \E p \in Sources, set \in SUBSET Sources : SetImports(p, set)
    \/ \E s \in Sources : StartWalk(s)
    \/ Walk
    \/ Finish

Spec == Init /\ [][Next]_vars
FairSpec == Spec /\ WF_vars(Walk)

(***************************************************************************)
(* Properties                                                              *)
(***************************************************************************)

(* The two maps hold the same relation in both directions, whatever mix of  *)
(* add_import, remove_import and set_imports produced them: the walk reads  *)
(* only m_dependents, the file links only m_imports.                        *)
MapsAgree ==
    /\ DOMAIN imports = DOMAIN dependents
    /\ \A p, i \in Sources :
         (p \in DOMAIN imports /\ i \in imports[p])
           <=> (i \in DOMAIN dependents /\ p \in dependents[i])

(* When transitive_dependents_of returns, its vector holds exactly the      *)
(* sources from which the start is reachable, on cyclic graphs too.         *)
WalkIsExact ==
    phase = "done" =>
      { result[k] : k \in DOMAIN result } = TransitiveDependents(Edges, start)

(* No source is handed to the caller twice: each would be an entry analysed *)
(* or subsumed twice.                                                       *)
NoDuplicateDependents ==
    \A j, k \in DOMAIN result : result[j] = result[k] => j = k

(* The walk ends on every graph: the visited set stops circular imports.    *)
WalkTerminates == phase \in {"pop", "each"} ~> phase = "done"
=============================================================================
