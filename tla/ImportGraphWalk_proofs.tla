----------------------- MODULE ImportGraphWalk_proofs -----------------------
(***************************************************************************)
(* Proofs about ImportGraphWalk, for every set of sources (an infinite one  *)
(* too) and every bound on the edits.                                       *)
(***************************************************************************)
EXTENDS ImportGraphWalk, TLAPS

Members(seq) == { seq[k] : k \in DOMAIN seq }

-----------------------------------------------------------------------------
(* Sequences used as a stack and as an output vector. *)

(* Append adds one member, at the end. *)
LEMMA AppendMembers ==
    ASSUME NEW S, NEW seq \in Seq(S), NEW x \in S
    PROVE  /\ Append(seq, x) \in Seq(S)
           /\ Len(Append(seq, x)) = Len(seq) + 1
           /\ Append(seq, x)[Len(seq) + 1] = x
           /\ \A k \in 1..Len(seq) : Append(seq, x)[k] = seq[k]
           /\ Members(Append(seq, x)) = Members(seq) \cup {x}
  <1>1. /\ Append(seq, x) \in Seq(S)
        /\ Len(Append(seq, x)) = Len(seq) + 1
        /\ Append(seq, x)[Len(seq) + 1] = x
        /\ \A k \in 1..Len(seq) : Append(seq, x)[k] = seq[k]
    OBVIOUS
  <1>2. DOMAIN seq = 1..Len(seq) /\ DOMAIN Append(seq, x) = 1..(Len(seq) + 1) /\ Len(seq) \in Nat
    OBVIOUS
  <1>3. Members(Append(seq, x)) = Members(seq) \cup {x}
    BY <1>1, <1>2 DEF Members
  <1> QED BY <1>1, <1>3

(* Popping removes at most the last member. *)
LEMMA PopMembers ==
    ASSUME NEW S, NEW seq \in Seq(S), seq # <<>>
    PROVE  /\ seq[Len(seq)] \in S
           /\ seq[Len(seq)] \in Members(seq)
           /\ SubSeq(seq, 1, Len(seq) - 1) \in Seq(S)
           /\ Members(seq) = Members(SubSeq(seq, 1, Len(seq) - 1)) \cup {seq[Len(seq)]}
  <1> DEFINE n == Len(seq)
             rest == SubSeq(seq, 1, n - 1)
  <1>1. n \in Nat /\ n > 0 /\ DOMAIN seq = 1..n /\ \A k \in 1..n : seq[k] \in S
    OBVIOUS
  <1>2. rest \in Seq(S) /\ DOMAIN rest = 1..(n - 1) /\ \A k \in 1..(n - 1) : rest[k] = seq[k]
    BY <1>1
  <1> HIDE DEF rest
  <1>3. Members(seq) = Members(rest) \cup {seq[n]}
    <2>1. 1..n = 1..(n - 1) \cup {n}
      BY <1>1
    <2> QED BY <1>1, <1>2, <2>1 DEF Members
  <1>4. seq[n] \in Members(seq)
    BY <1>1 DEF Members
  <1> QED BY <1>1, <1>2, <1>3, <1>4 DEF rest

-----------------------------------------------------------------------------
(* Reaching is the least set that contains its source and, with a source,   *)
(* everything importing it.                                                 *)
LEMMA ReachingIsLeast ==
    ASSUME NEW graph, NEW s \in Sources
    PROVE  /\ s \in Reaching(graph, s)
           /\ Reaching(graph, s) \subseteq Sources
           /\ ClosedUnderDependents(graph, Reaching(graph, s))
           /\ \A set \in SUBSET Sources :
                s \in set /\ ClosedUnderDependents(graph, set) => Reaching(graph, s) \subseteq set
  <1>1. s \in Reaching(graph, s) /\ Reaching(graph, s) \subseteq Sources
    BY DEF Reaching
  <1>2. \A set \in SUBSET Sources :
          s \in set /\ ClosedUnderDependents(graph, set) => Reaching(graph, s) \subseteq set
    BY DEF Reaching
  <1>3. ClosedUnderDependents(graph, Reaching(graph, s))
    <2> SUFFICES ASSUME NEW p \in Sources, NEW i \in Sources,
                        <<p, i>> \in graph, i \in Reaching(graph, s)
                 PROVE  p \in Reaching(graph, s)
      BY DEF ClosedUnderDependents
    <2>1. ASSUME NEW set \in SUBSET Sources, s \in set, ClosedUnderDependents(graph, set)
          PROVE  p \in set
      BY <2>1, <1>2 DEF ClosedUnderDependents
    <2> QED BY <2>1 DEF Reaching
  <1> QED BY <1>1, <1>2, <1>3

-----------------------------------------------------------------------------
(* Type correctness: every handler keeps the maps, the walk's locals and    *)
(* its result among the sources, and a walk has its start among the         *)
(* visited sources.                                                         *)
LEMMA EmplaceType ==
    ASSUME NEW map \in HashMaps(Sources, SUBSET Sources), NEW set \in SUBSET Sources
    PROVE  /\ Emplace(map, set) \in HashMaps(Sources, SUBSET Sources)
           /\ DOMAIN Emplace(map, set) = DOMAIN map \cup set
           /\ \A s \in DOMAIN map : Emplace(map, set)[s] = map[s]
           /\ \A s \in set \ DOMAIN map : Emplace(map, set)[s] = {}
  <1>1. /\ DOMAIN map \in SUBSET Sources
        /\ \A s \in DOMAIN map : map[s] \in SUBSET Sources
    BY DEF HashMaps
  <1>2. /\ DOMAIN Emplace(map, set) = DOMAIN map \cup set
        /\ \A s \in DOMAIN map : Emplace(map, set)[s] = map[s]
        /\ \A s \in set \ DOMAIN map : Emplace(map, set)[s] = {}
    BY DEF Emplace
  <1>3. Emplace(map, set) \in [DOMAIN map \cup set -> SUBSET Sources]
    BY <1>1 DEF Emplace
  <1> QED BY <1>1, <1>2, <1>3 DEF HashMaps

(* The maps after each call that changes them: their type, and both          *)
(* directions of the relation.                                              *)
MapsInv ==
    /\ imports \in HashMaps(Sources, SUBSET Sources)
    /\ dependents \in HashMaps(Sources, SUBSET Sources)
    /\ MapsAgree

LEMMA HashMapIntro ==
    ASSUME NEW D \in SUBSET Sources, NEW map \in [D -> SUBSET Sources]
    PROVE  map \in HashMaps(Sources, SUBSET Sources)
  BY DEF HashMaps

LEMMA HashMapElim ==
    ASSUME NEW map \in HashMaps(Sources, SUBSET Sources)
    PROVE  /\ DOMAIN map \in SUBSET Sources
           /\ map \in [DOMAIN map -> SUBSET Sources]
  BY DEF HashMaps

LEMMA AddSourceKeepsMaps ==
    ASSUME MapsInv, NEW s \in Sources, AddSource(s)
    PROVE  MapsInv'
  <1>1. /\ imports' = Emplace(imports, {s})
        /\ dependents' = Emplace(dependents, {s})
    BY DEF AddSource
  <1>2. /\ imports' \in HashMaps(Sources, SUBSET Sources)
        /\ dependents' \in HashMaps(Sources, SUBSET Sources)
    <2>1. {s} \in SUBSET Sources
      OBVIOUS
    <2> QED BY <1>1, <2>1, EmplaceType DEF MapsInv
  <1>3. MapsAgree'
    BY <1>1 DEF MapsInv, MapsAgree, Emplace
  <1> QED BY <1>2, <1>3 DEF MapsInv

LEMMA AddImportKeepsMaps ==
    ASSUME MapsInv, NEW p \in Sources, NEW i \in Sources, AddImport(p, i)
    PROVE  MapsInv'
  <1> DEFINE newImports == Emplace(imports, {p, i})
             newDependents == Emplace(dependents, {p, i})
  <1>1. /\ imports' = [newImports EXCEPT ![p] = @ \cup {i}]
        /\ dependents' = [newDependents EXCEPT ![i] = @ \cup {p}]
    BY DEF AddImport
  <1>2. /\ newImports \in HashMaps(Sources, SUBSET Sources)
        /\ newDependents \in HashMaps(Sources, SUBSET Sources)
        /\ DOMAIN newImports = DOMAIN imports \cup {p, i}
        /\ DOMAIN newDependents = DOMAIN dependents \cup {p, i}
        /\ \A s \in DOMAIN imports : newImports[s] = imports[s]
        /\ \A s \in DOMAIN dependents : newDependents[s] = dependents[s]
        /\ \A s \in {p, i} \ DOMAIN imports : newImports[s] = {}
        /\ \A s \in {p, i} \ DOMAIN dependents : newDependents[s] = {}
    <2>1. {p, i} \in SUBSET Sources
      OBVIOUS
    <2> QED BY <2>1, EmplaceType DEF MapsInv
  <1> HIDE DEF newImports, newDependents
  <1>3. /\ newImports \in [DOMAIN newImports -> SUBSET Sources]
        /\ newDependents \in [DOMAIN newDependents -> SUBSET Sources]
        /\ DOMAIN newImports \in SUBSET Sources /\ DOMAIN newDependents \in SUBSET Sources
    BY <1>2, HashMapElim
  <1>4. /\ imports' \in [DOMAIN newImports -> SUBSET Sources]
        /\ dependents' \in [DOMAIN newDependents -> SUBSET Sources]
    BY <1>1, <1>2, <1>3
  <1>5. /\ imports' \in HashMaps(Sources, SUBSET Sources)
        /\ dependents' \in HashMaps(Sources, SUBSET Sources)
    BY <1>3, <1>4, HashMapIntro
  <1>6. /\ DOMAIN imports' = DOMAIN imports \cup {p, i}
        /\ DOMAIN dependents' = DOMAIN dependents \cup {p, i}
    BY <1>2, <1>4
  <1>7. MapsAgree'
    <2>1. DOMAIN imports' = DOMAIN dependents'
      BY <1>6 DEF MapsInv, MapsAgree
    <2>2. ASSUME NEW q \in Sources, NEW j \in Sources
          PROVE  (q \in DOMAIN imports' /\ j \in imports'[q])
                   <=> (j \in DOMAIN dependents' /\ q \in dependents'[j])
      <3>1. (q \in DOMAIN imports' /\ j \in imports'[q])
              <=> (q \in DOMAIN imports /\ j \in imports[q]) \/ (q = p /\ j = i)
        BY <1>1, <1>2, <1>3, <1>6
      <3>2. (j \in DOMAIN dependents' /\ q \in dependents'[j])
              <=> (j \in DOMAIN dependents /\ q \in dependents[j]) \/ (q = p /\ j = i)
        BY <1>1, <1>2, <1>3, <1>6
      <3> QED BY <3>1, <3>2 DEF MapsInv, MapsAgree
    <2> QED BY <2>1, <2>2 DEF MapsAgree
  <1> QED BY <1>5, <1>7 DEF MapsInv

LEMMA RemoveImportKeepsMaps ==
    ASSUME MapsInv, NEW p \in Sources, NEW i \in Sources, RemoveImport(p, i)
    PROVE  MapsInv'
  <1>1. /\ imports' = [s \in DOMAIN imports |-> IF s = p THEN imports[s] \ {i} ELSE imports[s]]
        /\ dependents' = [s \in DOMAIN dependents |->
                            IF s = i THEN dependents[s] \ {p} ELSE dependents[s]]
    BY DEF RemoveImport
  <1>2. /\ DOMAIN imports \in SUBSET Sources /\ imports \in [DOMAIN imports -> SUBSET Sources]
        /\ DOMAIN dependents \in SUBSET Sources
        /\ dependents \in [DOMAIN dependents -> SUBSET Sources]
    BY HashMapElim DEF MapsInv
  <1>3. /\ imports' \in [DOMAIN imports -> SUBSET Sources]
        /\ dependents' \in [DOMAIN dependents -> SUBSET Sources]
    BY <1>1, <1>2
  <1>4. /\ imports' \in HashMaps(Sources, SUBSET Sources)
        /\ dependents' \in HashMaps(Sources, SUBSET Sources)
    BY <1>2, <1>3, HashMapIntro
  <1>5. MapsAgree'
    BY <1>1, <1>2 DEF MapsInv, MapsAgree
  <1> QED BY <1>4, <1>5 DEF MapsInv

LEMMA SetImportsKeepsMaps ==
    ASSUME MapsInv, NEW p \in Sources, NEW set \in SUBSET Sources, SetImports(p, set)
    PROVE  MapsInv'
  <1> DEFINE newImports == Emplace(imports, {p} \cup set)
  <1>1. /\ imports' = [newImports EXCEPT ![p] = set]
        /\ dependents' = [s \in DOMAIN dependents \cup {p} \cup set |->
                            (IF s \in DOMAIN dependents THEN dependents[s] \ {p} ELSE {})
                              \cup (IF s \in set THEN {p} ELSE {})]
    BY DEF SetImports
  <1>2. /\ newImports \in HashMaps(Sources, SUBSET Sources)
        /\ DOMAIN newImports = DOMAIN imports \cup {p} \cup set
        /\ \A s \in DOMAIN imports : newImports[s] = imports[s]
        /\ \A s \in ({p} \cup set) \ DOMAIN imports : newImports[s] = {}
    <2> DEFINE added == {p} \cup set
    <2>1. added \in SUBSET Sources
      OBVIOUS
    <2>2. /\ newImports = Emplace(imports, added)
          /\ DOMAIN imports \cup added = DOMAIN imports \cup {p} \cup set
      OBVIOUS
    <2> HIDE DEF added, newImports
    <2>3. /\ newImports \in HashMaps(Sources, SUBSET Sources)
          /\ DOMAIN newImports = DOMAIN imports \cup added
          /\ \A s \in DOMAIN imports : newImports[s] = imports[s]
          /\ \A s \in added \ DOMAIN imports : newImports[s] = {}
      <3>1. imports \in HashMaps(Sources, SUBSET Sources)
        BY DEF MapsInv
      <3>2. /\ Emplace(imports, added) \in HashMaps(Sources, SUBSET Sources)
            /\ DOMAIN Emplace(imports, added) = DOMAIN imports \cup added
            /\ \A s \in DOMAIN imports : Emplace(imports, added)[s] = imports[s]
            /\ \A s \in added \ DOMAIN imports : Emplace(imports, added)[s] = {}
        BY <2>1, <3>1, EmplaceType
      <3> QED BY <2>2, <3>2
    <2> QED BY <2>2, <2>3 DEF added
  <1> HIDE DEF newImports
  <1>3. /\ newImports \in [DOMAIN newImports -> SUBSET Sources]
        /\ DOMAIN newImports \in SUBSET Sources
        /\ DOMAIN dependents \in SUBSET Sources
        /\ dependents \in [DOMAIN dependents -> SUBSET Sources]
    BY <1>2, HashMapElim DEF MapsInv
  <1>4. /\ imports' \in [DOMAIN newImports -> SUBSET Sources]
        /\ dependents' \in [DOMAIN dependents \cup {p} \cup set -> SUBSET Sources]
    BY <1>1, <1>3
  <1>5. /\ imports' \in HashMaps(Sources, SUBSET Sources)
        /\ dependents' \in HashMaps(Sources, SUBSET Sources)
    BY <1>3, <1>4, HashMapIntro
  <1>6. DOMAIN imports' = DOMAIN imports \cup {p} \cup set
    BY <1>2, <1>4
  <1>7. DOMAIN imports' = DOMAIN dependents'
    BY <1>4, <1>6 DEF MapsInv, MapsAgree
  <1>8. ASSUME NEW q \in Sources, NEW j \in Sources
        PROVE  (q \in DOMAIN imports' /\ j \in imports'[q])
                 <=> (j \in DOMAIN dependents' /\ q \in dependents'[j])
    <2>1. (q \in DOMAIN imports' /\ j \in imports'[q])
            <=> IF q = p THEN j \in set ELSE q \in DOMAIN imports /\ j \in imports[q]
      BY <1>1, <1>2, <1>3, <1>6
    <2>2. (j \in DOMAIN dependents' /\ q \in dependents'[j])
            <=> IF q = p THEN j \in set ELSE j \in DOMAIN dependents /\ q \in dependents[j]
      BY <1>1, <1>3
    <2> QED BY <2>1, <2>2 DEF MapsInv, MapsAgree
  <1>9. MapsAgree'
    BY <1>7, <1>8 DEF MapsAgree
  <1> QED BY <1>5, <1>9 DEF MapsInv

(* A step of a walk leaves both maps alone. *)
LEMMA UnchangedMapsKept ==
    ASSUME MapsInv, UNCHANGED maps
    PROVE  MapsInv'
  BY DEF MapsInv, MapsAgree, maps

LEMMA MapsInductive == MapsInv /\ [Next]_vars => MapsInv'
  <1> SUFFICES ASSUME MapsInv, [Next]_vars PROVE MapsInv'
    OBVIOUS
  <1>1. ASSUME NEW s \in Sources, AddSource(s) PROVE MapsInv'
    BY <1>1, AddSourceKeepsMaps
  <1>2. ASSUME NEW p \in Sources, NEW i \in Sources, AddImport(p, i) PROVE MapsInv'
    BY <1>2, AddImportKeepsMaps
  <1>3. ASSUME NEW p \in Sources, NEW i \in Sources, RemoveImport(p, i) PROVE MapsInv'
    BY <1>3, RemoveImportKeepsMaps
  <1>4. ASSUME NEW p \in Sources, NEW set \in SUBSET Sources, SetImports(p, set) PROVE MapsInv'
    BY <1>4, SetImportsKeepsMaps
  <1>5. ASSUME (\E s \in Sources : StartWalk(s)) \/ Walk \/ Finish \/ UNCHANGED vars
        PROVE  MapsInv'
    <2>1. UNCHANGED maps
      BY <1>5 DEF StartWalk, Walk, Pop, Visit, EndOfDependents, Return, Finish, vars, maps
    <2> QED BY <2>1, UnchangedMapsKept
  <1> QED BY <1>1, <1>2, <1>3, <1>4, <1>5 DEF Next

LEMMA MapsInitially == Init => MapsInv
  <1> SUFFICES ASSUME Init PROVE MapsInv
    OBVIOUS
  <1>1. /\ imports \in [{} -> SUBSET Sources] /\ dependents \in [{} -> SUBSET Sources]
        /\ DOMAIN imports = {} /\ DOMAIN dependents = {}
    BY DEF Init
  <1>2. {} \in SUBSET Sources
    OBVIOUS
  <1>3. /\ imports \in HashMaps(Sources, SUBSET Sources)
        /\ dependents \in HashMaps(Sources, SUBSET Sources)
    BY <1>1, <1>2, HashMapIntro
  <1> QED BY <1>1, <1>3 DEF MapsInv, MapsAgree

(* m_imports and m_dependents always hold the same relation, in whatever     *)
(* order add_source, add_import, remove_import and set_imports are called.   *)
THEOREM MapsAlwaysAgree == Spec => []MapsAgree
  <1>1. MapsInv => MapsAgree
    BY DEF MapsInv
  <1> QED BY MapsInitially, MapsInductive, <1>1, PTL DEF Spec

-----------------------------------------------------------------------------
(***************************************************************************)
(* The walk.  Between two iterations every visited source that is not on    *)
(* the stack has had all its dependents visited, but for those the for loop *)
(* has still to reach; everything visited reaches the start.  When the      *)
(* stack is empty the visited set is therefore closed under dependents, and *)
(* it is the least such set.                                                *)
(***************************************************************************)
Walking == phase \in {"pop", "each", "done"}

(* Visited sources reach the start, and the result holds all but the start. *)
Sound ==
    Walking => /\ start \in visited
               /\ visited \subseteq Reaching(Edges, start)
               /\ iterating \subseteq Reaching(Edges, start)
               /\ Members(stack) \subseteq visited
               /\ Members(result) = visited \ {start}

(* What is left to visit is still ahead of the loops. *)
NothingSkipped ==
    Walking =>
      \A i \in visited \ Members(stack), p \in Sources :
        <<p, i>> \in Edges => p \in visited \cup iterating

LoopState ==
    /\ phase # "each" => iterating = {}
    /\ phase = "done" => stack = <<>>
    /\ phase = "idle" => result = <<>>

WalkType ==
    /\ edits \in 0..MaxEdits
    /\ phase \in {"idle", "pop", "each", "done"}
    /\ start \in Sources /\ visited \in SUBSET Sources /\ iterating \in SUBSET Sources
    /\ stack \in Seq(Sources) /\ result \in Seq(Sources)

WalkInv == WalkType /\ LoopState /\ Sound /\ NothingSkipped /\ NoDuplicateDependents

IInv == MapsInv /\ WalkInv

LEMMA EmptyMembers == Members(<<>>) = {}
  BY DEF Members

LEMMA SingletonMembers ==
    ASSUME NEW x PROVE Members(<<x>>) = {x}
  BY DEF Members

(* Both maps describe Edges. *)
LEMMA EdgesInDependents ==
    ASSUME MapsInv, NEW p \in Sources, NEW i \in Sources
    PROVE  <<p, i>> \in Edges <=> i \in DOMAIN dependents /\ p \in dependents[i]
  BY DEF MapsInv, MapsAgree, Edges

LEMMA WalkInitially == Init => WalkInv
  <1> SUFFICES ASSUME Init PROVE WalkInv
    OBVIOUS
  <1> USE MaxEditsAssumption DEF Init
  <1>1. WalkType
    BY DEF WalkType
  <1>2. LoopState /\ Sound /\ NothingSkipped
    BY DEF LoopState, Sound, NothingSkipped, Walking
  <1>3. NoDuplicateDependents
    BY DEF NoDuplicateDependents
  <1> QED BY <1>1, <1>2, <1>3 DEF WalkInv

(* The maps only change while no walk is under way. *)
LEMMA EditKeepsWalk ==
    ASSUME WalkInv, Edit
    PROVE  WalkInv'
  <1>1. /\ phase = "idle" /\ phase' = phase /\ start' = start /\ visited' = visited
        /\ stack' = stack /\ iterating' = iterating /\ result' = result
        /\ edits' \in 0..MaxEdits
    BY MaxEditsAssumption DEF Edit, walk, WalkInv, WalkType
  <1>2. WalkType' /\ LoopState'
    BY <1>1 DEF WalkInv, WalkType, LoopState
  <1>3. Sound' /\ NothingSkipped'
    BY <1>1 DEF Sound, NothingSkipped, Walking
  <1>4. NoDuplicateDependents'
    BY <1>1 DEF WalkInv, NoDuplicateDependents
  <1> QED BY <1>2, <1>3, <1>4 DEF WalkInv

LEMMA StartKeepsWalk ==
    ASSUME IInv, NEW s \in Sources, StartWalk(s)
    PROVE  WalkInv'
  <1> USE DEF StartWalk, maps
  <1>1. WalkType'
    <2>1. <<s>> \in Seq(Sources) /\ <<>> \in Seq(Sources)
      OBVIOUS
    <2> QED BY <2>1 DEF IInv, WalkInv, WalkType
  <1>2. LoopState'
    BY DEF LoopState
  <1>3. Sound'
    <2>1. Members(stack') = {s} /\ Members(result') = {}
      BY EmptyMembers, SingletonMembers
    <2>2. s \in Reaching(Edges', s)
      BY ReachingIsLeast
    <2> QED BY <2>1, <2>2 DEF Sound, Members
  <1>4. NothingSkipped'
    <2>1. Members(stack') = {s}
      BY SingletonMembers
    <2> QED BY <2>1 DEF NothingSkipped, Members
  <1>5. NoDuplicateDependents'
    BY DEF NoDuplicateDependents
  <1> QED BY <1>1, <1>2, <1>3, <1>4, <1>5 DEF WalkInv

LEMMA PopKeepsWalk ==
    ASSUME IInv, Pop
    PROVE  WalkInv'
  <1> DEFINE current == stack[Len(stack)]
             rest == SubSeq(stack, 1, Len(stack) - 1)
  <1>1. /\ phase = "pop" /\ stack # <<>> /\ phase' = "each" /\ stack' = rest
        /\ iterating' = IF current \in DOMAIN dependents THEN dependents[current] ELSE {}
        /\ imports' = imports /\ edits' = edits /\ start' = start
        /\ visited' = visited /\ result' = result /\ iterating = {}
    BY DEF Pop, maps, IInv, WalkInv, LoopState
  <1>2. /\ WalkType /\ Sound /\ NothingSkipped /\ NoDuplicateDependents /\ MapsInv
    BY DEF IInv, WalkInv
  <1>3. /\ current \in Sources /\ current \in Members(stack) /\ rest \in Seq(Sources)
        /\ Members(stack) = Members(rest) \cup {current}
    BY <1>1, <1>2, PopMembers DEF WalkType
  <1>4. Edges' = Edges
    BY <1>1 DEF Edges
  <1> HIDE DEF current, rest
  <1>5. /\ iterating' \in SUBSET Sources
        /\ \A p \in Sources : p \in iterating' <=> <<p, current>> \in Edges
    <2>1. dependents \in [DOMAIN dependents -> SUBSET Sources]
      BY <1>2, HashMapElim DEF MapsInv
    <2>2. iterating' \in SUBSET Sources
      BY <1>1, <2>1
    <2> QED BY <1>1, <1>2, <1>3, <2>2, EdgesInDependents
  <1>6. /\ start \in visited /\ visited \subseteq Reaching(Edges, start)
        /\ Members(stack) \subseteq visited /\ Members(result) = visited \ {start}
    BY <1>1, <1>2 DEF Sound, Walking
  <1>7. WalkType'
    BY <1>1, <1>2, <1>3, <1>5 DEF WalkType
  <1>8. LoopState'
    BY <1>1 DEF LoopState
  <1>9. Sound'
    <2>1. current \in Reaching(Edges, start)
      BY <1>3, <1>6
    <2>2. ClosedUnderDependents(Edges, Reaching(Edges, start))
      BY <1>2, ReachingIsLeast DEF WalkType
    <2>3. iterating' \subseteq Reaching(Edges, start)
      BY <1>3, <1>5, <2>1, <2>2 DEF ClosedUnderDependents
    <2>4. Members(stack') \subseteq visited
      BY <1>1, <1>3, <1>6
    <2>5. Members(result') = Members(result) /\ Members(stack)' = Members(stack')
      BY <1>1 DEF Members
    <2> QED BY <1>1, <1>4, <1>6, <2>3, <2>4, <2>5 DEF Sound, Members
  <1>10. NothingSkipped'
    <2>1. ASSUME NEW i \in visited, i \notin Members(rest), NEW p \in Sources, <<p, i>> \in Edges
          PROVE  p \in visited \cup iterating'
      <3>1. CASE i = current
        BY <3>1, <2>1, <1>5
      <3>2. CASE i # current
        <4>1. i \notin Members(stack)
          BY <3>2, <2>1, <1>3
        <4> QED BY <4>1, <2>1, <1>1, <1>2 DEF NothingSkipped, Walking
      <3> QED BY <3>1, <3>2
    <2>2. Members(stack)' = Members(rest)
      BY <1>1 DEF Members
    <2> QED BY <1>1, <1>4, <2>1, <2>2 DEF NothingSkipped
  <1>11. NoDuplicateDependents'
    BY <1>1, <1>2 DEF NoDuplicateDependents
  <1> QED BY <1>7, <1>8, <1>9, <1>10, <1>11 DEF WalkInv

LEMMA VisitKeepsWalk ==
    ASSUME IInv, NEW d \in Sources, Visit(d)
    PROVE  WalkInv'
  <1>1. /\ phase = "each" /\ phase' = phase /\ d \in iterating
        /\ iterating' = iterating \ {d} /\ visited' = visited \cup {d}
        /\ imports' = imports /\ edits' = edits /\ start' = start
    BY DEF Visit, maps
  <1>2. /\ WalkType /\ Sound /\ NothingSkipped /\ NoDuplicateDependents
    BY DEF IInv, WalkInv
  <1>3. /\ start \in visited /\ visited \subseteq Reaching(Edges, start)
        /\ iterating \subseteq Reaching(Edges, start)
        /\ Members(stack) \subseteq visited /\ Members(result) = visited \ {start}
        /\ \A i \in visited \ Members(stack), p \in Sources :
             <<p, i>> \in Edges => p \in visited \cup iterating
    BY <1>1, <1>2 DEF Sound, NothingSkipped, Walking
  <1>4. Edges' = Edges
    BY <1>1 DEF Edges
  <1>5. LoopState'
    BY <1>1 DEF LoopState
  <1>6. CASE d \in visited
    <2>1. result' = result /\ stack' = stack /\ visited' = visited
      BY <1>1, <1>6 DEF Visit
    <2>2. WalkType'
      BY <1>1, <1>2, <2>1 DEF WalkType
    <2>3. Members(stack)' = Members(stack) /\ Members(result)' = Members(result)
      BY <2>1 DEF Members
    <2>4. Sound'
      BY <1>1, <1>3, <1>4, <2>1, <2>3 DEF Sound
    <2>5. NothingSkipped'
      BY <1>1, <1>3, <1>4, <1>6, <2>1, <2>3 DEF NothingSkipped
    <2>6. NoDuplicateDependents'
      BY <1>2, <2>1 DEF NoDuplicateDependents
    <2> QED BY <1>5, <2>2, <2>4, <2>5, <2>6 DEF WalkInv
  <1>7. CASE d \notin visited
    <2>1. result' = Append(result, d) /\ stack' = Append(stack, d)
      BY <1>7 DEF Visit
    <2>2. /\ stack' \in Seq(Sources) /\ Members(stack)' = Members(stack) \cup {d}
      BY <1>2, <2>1, AppendMembers DEF WalkType
    <2>3. /\ result' \in Seq(Sources) /\ Members(result)' = Members(result) \cup {d}
          /\ Len(result') = Len(result) + 1 /\ result'[Len(result) + 1] = d
          /\ \A k \in 1..Len(result) : result'[k] = result[k]
      BY <1>2, <2>1, AppendMembers DEF WalkType
    <2>4. WalkType'
      BY <1>1, <1>2, <2>2, <2>3 DEF WalkType
    <2>5. Sound'
      <3>1. visited' \subseteq Reaching(Edges, start) /\ d # start
        BY <1>1, <1>3, <1>7
      <3> QED BY <1>1, <1>3, <1>4, <2>2, <2>3, <3>1 DEF Sound
    <2>6. NothingSkipped'
      BY <1>1, <1>3, <1>4, <2>2 DEF NothingSkipped
    <2>7. NoDuplicateDependents'
      <3>1. /\ Len(result) \in Nat /\ DOMAIN result = 1..Len(result)
            /\ DOMAIN result' = 1..(Len(result) + 1)
        BY <1>2, <2>3 DEF WalkType
      <3>2. \A k \in 1..Len(result) : result[k] # d
        <4>1. d \notin Members(result)
          BY <1>3, <1>7
        <4> QED BY <3>1, <4>1 DEF Members
      <3>3. \A j, k \in 1..Len(result) : result[j] = result[k] => j = k
        BY <1>2, <3>1 DEF NoDuplicateDependents
      <3>4. ASSUME NEW j \in 1..(Len(result) + 1), NEW k \in 1..(Len(result) + 1),
                   result'[j] = result'[k]
            PROVE  j = k
        <4>1. (j \in 1..Len(result) \/ j = Len(result) + 1)
                /\ (k \in 1..Len(result) \/ k = Len(result) + 1)
          BY <3>1
        <4> QED BY <4>1, <3>2, <3>3, <3>4, <2>3
      <3> QED BY <3>1, <3>4 DEF NoDuplicateDependents
    <2> QED BY <1>5, <2>4, <2>5, <2>6, <2>7 DEF WalkInv
  <1> QED BY <1>6, <1>7

(* The steps that only move between the loops, and the return. *)
LEMMA LoopEndKeepsWalk ==
    ASSUME IInv, EndOfDependents \/ Return
    PROVE  WalkInv'
  <1>1. /\ imports' = imports /\ edits' = edits /\ start' = start /\ visited' = visited
        /\ stack' = stack /\ iterating' = iterating /\ result' = result
        /\ phase \in {"pop", "each"} /\ phase' \in {"pop", "done"}
        /\ iterating = {} /\ (phase' = "done" => stack = <<>>)
    BY DEF EndOfDependents, Return, maps, IInv, WalkInv, LoopState
  <1>2. WalkType /\ Sound /\ NothingSkipped /\ NoDuplicateDependents
    BY DEF IInv, WalkInv
  <1>3. WalkType' /\ LoopState' /\ NoDuplicateDependents'
    BY <1>1, <1>2 DEF WalkType, LoopState, NoDuplicateDependents
  <1>4. /\ Edges' = Edges /\ Members(stack)' = Members(stack)
        /\ Members(result)' = Members(result) /\ Walking
    BY <1>1 DEF Edges, Members, Walking
  <1>5. Sound' /\ NothingSkipped'
    BY <1>1, <1>2, <1>4 DEF Sound, NothingSkipped
  <1> QED BY <1>3, <1>5 DEF WalkInv

LEMMA FinishKeepsWalk ==
    ASSUME IInv, Finish
    PROVE  WalkInv'
  <1>1. /\ phase' = "idle" /\ edits' = edits /\ start' = start /\ stack' = stack
        /\ visited' = {} /\ result' = <<>> /\ iterating' = {}
    BY DEF Finish, maps, IInv, WalkInv, LoopState
  <1>2. WalkType' /\ LoopState'
    <2>1. <<>> \in Seq(Sources)
      OBVIOUS
    <2> QED BY <1>1, <2>1 DEF IInv, WalkInv, WalkType, LoopState
  <1>3. Sound' /\ NothingSkipped'
    BY <1>1 DEF Sound, NothingSkipped, Walking
  <1>4. NoDuplicateDependents'
    BY <1>1 DEF NoDuplicateDependents
  <1> QED BY <1>2, <1>3, <1>4 DEF WalkInv

LEMMA StutterKeepsWalk ==
    ASSUME WalkInv, UNCHANGED vars
    PROVE  WalkInv'
  <1>1. /\ WalkType' /\ LoopState' /\ NoDuplicateDependents'
    BY DEF vars, WalkInv, WalkType, LoopState, NoDuplicateDependents
  <1>2. /\ Edges' = Edges /\ Members(stack)' = Members(stack)
        /\ Members(result)' = Members(result) /\ (Walking' <=> Walking)
    BY DEF vars, Edges, Members, Walking
  <1>3. Sound' /\ NothingSkipped'
    BY <1>2 DEF vars, WalkInv, Sound, NothingSkipped
  <1> QED BY <1>1, <1>3 DEF WalkInv

LEMMA Inductive == IInv /\ [Next]_vars => IInv'
  <1> SUFFICES ASSUME IInv, [Next]_vars PROVE WalkInv'
    BY MapsInductive DEF IInv
  <1>1. CASE \/ \E s \in Sources : AddSource(s)
             \/ \E p, i \in Sources : AddImport(p, i)
             \/ \E p, i \in Sources : RemoveImport(p, i)
             \/ \E p \in Sources, set \in SUBSET Sources : SetImports(p, set)
    <2>1. Edit
      BY <1>1 DEF AddSource, AddImport, RemoveImport, SetImports
    <2> QED BY <2>1, EditKeepsWalk DEF IInv
  <1>2. ASSUME NEW s \in Sources, StartWalk(s) PROVE WalkInv'
    BY <1>2, StartKeepsWalk
  <1>3. CASE Pop
    BY <1>3, PopKeepsWalk
  <1>4. ASSUME NEW s \in Sources, Visit(s) PROVE WalkInv'
    BY <1>4, VisitKeepsWalk
  <1>5. CASE EndOfDependents \/ Return
    BY <1>5, LoopEndKeepsWalk
  <1>6. CASE Finish
    BY <1>6, FinishKeepsWalk
  <1>7. CASE UNCHANGED vars
    BY <1>7, StutterKeepsWalk DEF IInv
  <1> QED BY <1>1, <1>2, <1>3, <1>4, <1>5, <1>6, <1>7 DEF Next, Walk

LEMMA Invariance == Spec => []IInv
  <1>1. Init => IInv
    BY MapsInitially, WalkInitially DEF IInv
  <1> QED BY <1>1, Inductive, PTL DEF Spec

(* The maps, the walk's locals and its result keep their types.              *)
THEOREM TypeCorrect == Spec => []TypeOK
  <1>1. IInv => TypeOK
    BY DEF IInv, MapsInv, WalkInv, WalkType, Sound, Walking, TypeOK
  <1> QED BY <1>1, Invariance, PTL

(* transitive_dependents_of returns exactly the sources from which a path of *)
(* imports leads to its argument, for every graph, cyclic or not, and every  *)
(* order in which the hash set of dependents is iterated.                    *)
THEOREM WalkComputesDependents == Spec => []WalkIsExact
  <1>1. IInv => WalkIsExact
    <2> SUFFICES ASSUME IInv, phase = "done"
                 PROVE  Members(result) = TransitiveDependents(Edges, start)
      BY DEF WalkIsExact, Members
    <2>1. /\ start \in Sources /\ visited \in SUBSET Sources /\ start \in visited
          /\ visited \subseteq Reaching(Edges, start) /\ Members(result) = visited \ {start}
          /\ stack = <<>> /\ iterating = {}
          /\ \A i \in visited \ Members(stack), p \in Sources :
               <<p, i>> \in Edges => p \in visited \cup iterating
      BY DEF IInv, WalkInv, WalkType, Sound, NothingSkipped, LoopState, Walking
    <2>2. ClosedUnderDependents(Edges, visited)
      BY <2>1, EmptyMembers DEF ClosedUnderDependents
    <2>3. Reaching(Edges, start) \subseteq visited
      BY <2>1, <2>2, ReachingIsLeast
    <2> QED BY <2>1, <2>3 DEF TransitiveDependents
  <1> QED BY <1>1, Invariance, PTL

(* No source is in the result twice.                                         *)
THEOREM DependentsAreDistinct == Spec => []NoDuplicateDependents
  <1>1. IInv => NoDuplicateDependents
    BY DEF IInv, WalkInv
  <1> QED BY <1>1, Invariance, PTL
=============================================================================
