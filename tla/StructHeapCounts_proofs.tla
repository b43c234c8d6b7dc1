---------------------- MODULE StructHeapCounts_proofs -----------------------
(***************************************************************************)
(* Lemmas about the generated heap: cells and stacks as what references are *)
(* counted in, what a reference to an object says about it, and where the   *)
(* moves of a statement read and write.                                     *)
(***************************************************************************)
EXTENDS StructHeapInvariant, FiniteSetTheorems, FunctionTheorems, WellFoundedInduction, TLAPS

(* Slots and cells *)

(* A non-empty set of slots has a least element, so the search for a free   *)
(* slot returns one.                                                        *)
LEMMA LeastExists ==
    ASSUME NEW n \in Int, NEW T \in SUBSET (0..n), T # {}
    PROVE  /\ Least(T) \in T
           /\ \A y \in T : Least(T) <= y
<1> DEFINE S == 0..n
           D == { 0..x : x \in T }
<1>1. IsFiniteSet(S)
  BY FS_Interval
<1>2. IsWellFoundedOn(StrictSubsetOrdering(S), FiniteSubsetsOf(S))
  BY <1>1, FS_StrictSubsetOrderingWellFounded, Zenon
<1>3. D \subseteq FiniteSubsetsOf(S) /\ D # {}
  <2>1. ASSUME NEW x \in T PROVE 0..x \in SUBSET S /\ IsFiniteSet(0..x)
    BY FS_Interval
  <2> QED BY <2>1 DEF FiniteSubsetsOf
<1> HIDE DEF D
<1>4. PICK d \in D : \A e \in D : <<e, d>> \notin StrictSubsetOrdering(S)
  BY <1>2, <1>3, WFMin, Zenon
<1>5. PICK x \in T : d = 0..x
  BY DEF D
<1>6. ASSUME NEW y \in T, y < x PROVE FALSE
  <2>1. 0..y \in D /\ 0..y \in SUBSET S /\ 0..x \in SUBSET S
    BY DEF D
  <2>2. 0..y \subseteq 0..x /\ 0..y # 0..x
    <3>1. x \in 0..x /\ x \notin 0..y
      BY <1>6
    <3> QED BY <3>1, <1>6
  <2> QED BY <2>1, <2>2, <1>4, <1>5 DEF StrictSubsetOrdering
<1>7. \A y \in T : x <= y
  BY <1>6
<1> QED BY <1>7 DEF Least

(* There are finitely many cells: variables and the members of the slots of *)
(* every struct.                                                            *)
LEMMA CellsFinite == IsFiniteSet(Cells)
<1> DEFINE row(m) == {m} \X Slots(Owner[m])
           rows == { row(m) : m \in Members }
           f == [m \in Members |-> row(m)]
<1>1. ASSUME NEW m \in Members PROVE IsFiniteSet(row(m))
  <2>1. Owner[m] \in Structs /\ MaxStructs[Owner[m]] \in Nat \ {0}
    BY StructsAssumption
  <2>2. IsFiniteSet(Slots(Owner[m]))
    BY <2>1, FS_Interval DEF Slots
  <2>3. IsFiniteSet({m})
    BY FS_Singleton
  <2> QED BY <2>2, <2>3, FS_Product
<1>2. f \in Surjection(Members, rows)
  BY Fun_IsSurj, Zenon
<1>3. IsFiniteSet(rows)
  BY <1>2, StructsAssumption, FS_Surjection, Zenon
<1>4. \A r \in rows : IsFiniteSet(r)
  BY <1>1
<1>5. IsFiniteSet(UNION rows)
  BY <1>3, <1>4, FS_UNION
<1>6. IsFiniteSet(Vars \X {Nil})
  BY StructsAssumption, FS_Singleton, FS_Product
<1> QED BY <1>5, <1>6, FS_Union DEF Cells

-----------------------------------------------------------------------------
(* Stacks and references *)

(* Counting in sequences *)
Occurrences(s, x) == Cardinality({ k \in DOMAIN s : s[k] = x })

(* The positions of an entry in a stack are a finite set, and their number  *)
(* a natural number.                                                        *)
LEMMA OccurrencesType ==
    ASSUME NEW T, NEW s \in Seq(T), NEW x
    PROVE  /\ IsFiniteSet({ k \in DOMAIN s : s[k] = x })
           /\ Occurrences(s, x) \in Nat
<1>1. IsFiniteSet(DOMAIN s)
  BY FS_Interval
<1> QED BY <1>1, FS_Subset, FS_CardinalityType DEF Occurrences

(* What is not on a stack occurs on it no times. *)
LEMMA OccurrencesOfNone ==
    ASSUME NEW T, NEW s \in Seq(T), NEW x, \A k \in DOMAIN s : s[k] # x
    PROVE  Occurrences(s, x) = 0
<1>1. { k \in DOMAIN s : s[k] = x } = {}
  OBVIOUS
<1> QED BY <1>1, FS_EmptySet DEF Occurrences

(* A push adds an occurrence of what it pushes, and of nothing else. *)
LEMMA OccurrencesAppend ==
    ASSUME NEW T, NEW s \in Seq(T), NEW y \in T, NEW x
    PROVE  Occurrences(Append(s, y), x) = Occurrences(s, x) + (IF y = x THEN 1 ELSE 0)
<1> DEFINE old == { k \in DOMAIN s : s[k] = x }
           new == { k \in DOMAIN Append(s, y) : Append(s, y)[k] = x }
<1>1. IsFiniteSet(old) /\ Cardinality(old) \in Nat
  BY OccurrencesType DEF Occurrences
<1>a. Len(s) + 1 \notin old
  OBVIOUS
<1>b. Occurrences(s, x) = Cardinality(old) /\ Occurrences(Append(s, y), x) = Cardinality(new)
  BY Zenon DEF Occurrences
<1> HIDE DEF old, new
<1>2. CASE y = x
  <2>1. new = old \cup {Len(s) + 1}
    BY <1>2 DEF old, new
  <2> QED BY <2>1, <1>1, <1>a, <1>b, <1>2, FS_AddElement
<1>3. CASE y # x
  <2>1. new = old
    BY <1>3 DEF old, new
  <2> QED BY <2>1, <1>1, <1>b, <1>3
<1> QED BY <1>2, <1>3

(* A pop takes an occurrence of the top away, and of nothing else. *)
LEMMA OccurrencesFront ==
    ASSUME NEW T, NEW s \in Seq(T), s # <<>>, NEW x
    PROVE  /\ SubSeq(s, 1, Len(s) - 1) \in Seq(T)
           /\ Occurrences(SubSeq(s, 1, Len(s) - 1), x)
                = Occurrences(s, x) - (IF s[Len(s)] = x THEN 1 ELSE 0)
<1> DEFINE front == SubSeq(s, 1, Len(s) - 1)
           old == { k \in DOMAIN s : s[k] = x }
           new == { k \in DOMAIN front : front[k] = x }
<1>1. /\ front \in Seq(T) /\ DOMAIN front = 1 .. Len(s) - 1
      /\ \A k \in 1 .. Len(s) - 1 : front[k] = s[k]
      /\ Len(s) \in DOMAIN s /\ Len(s) >= 1
  OBVIOUS
<1>2. new = old \ {Len(s)}
  BY <1>1
<1>3. IsFiniteSet(old)
  BY OccurrencesType
<1>4. (Len(s) \in old) <=> s[Len(s)] = x
  BY <1>1
<1>5. Cardinality(new) = IF s[Len(s)] = x THEN Cardinality(old) - 1 ELSE Cardinality(old)
  BY <1>2, <1>3, <1>4, FS_RemoveElement
<1>6. Cardinality(old) \in Nat
  BY <1>3, FS_CardinalityType
<1>7. Occurrences(s, x) = Cardinality(old) /\ Occurrences(front, x) = Cardinality(new)
  BY Zenon DEF Occurrences
<1> HIDE DEF old, new
<1> QED BY <1>1, <1>5, <1>6, <1>7

-----------------------------------------------------------------------------
CellRefs(S, i) == { c \in CellsOf[S] : CellValue(c) = i } \ Uncounted
HeldBy(S, i) == { k \in DOMAIN calls : calls[k].of = S /\ calls[k].current = i }

(* The references to a slot are in cells, on the stack of its struct, or    *)
(* held by an activation of __decr__.                                       *)
LEMMA ReferencesAre ==
    \A S, i : ReferencesTo(S, i)
                = Cardinality(CellRefs(S, i)) + Occurrences(stack[S], i) + Cardinality(HeldBy(S, i))
BY DEF ReferencesTo, CellRefs, Occurrences, HeldBy

(* A set of cells that point to one struct is finite. *)
LEMMA CellsOfFinite ==
    ASSUME NEW S \in Structs, NEW C, C \subseteq CellsOf[S]
    PROVE  IsFiniteSet(C) /\ Cardinality(C) \in Nat
<1>1. C \subseteq Cells
  BY DEF CellsOf
<1> QED BY <1>1, CellsFinite, FS_Subset, FS_CardinalityType

(* The cells that are not counted, one by one: the left side of the move    *)
(* that is under way, and the members of released objects that have been    *)
(* passed on.                                                               *)
LEMMA UncountedAre ==
    \A c : c \in Uncounted <=>
        \/ phase \in {"store", "retain"} /\ c = Cell(Head(todo).to)
        \/ \E k \in DOMAIN calls : /\ calls[k].self # Nil
                                   /\ \E m \in MembersOf(Releasing(calls[k])) \ calls[k].left :
                                         c = <<m, calls[k].self>>
BY DEF Uncounted

-----------------------------------------------------------------------------
(* Types, turns and places *)

(* The types of the constants, and that nil is no slot. *)
LEMMA StructTypes ==
    /\ \A m \in Members : Owner[m] \in Structs /\ TypeOf[m] \in Structs
    /\ \A v \in Vars : TypeOf[v] \in Structs
    /\ \A S \in Structs : /\ MaxStructs[S] \in Nat \ {0} /\ Recursive[S] \subseteq Structs
                          /\ Others[S] \in Seq(Structs) /\ Params[S] \in Seq(Members)
                          /\ Nil \notin Slots(S) /\ Slots(S) \subseteq Nat
                          /\ 0 \in Slots(S)
BY StructsAssumption DEF Slots, Nil

(* The stacks that __decr__ of a struct drains: its own first, then those   *)
(* of the structs it recurses through, all of them unless all recursion is  *)
(* direct.                                                                  *)
LEMMA TurnsOf ==
    ASSUME NEW S \in Structs
    PROVE  /\ Turns(S) \in Seq(Structs) /\ Len(Turns(S)) >= 1 /\ Turns(S)[1] = S
           /\ \A t \in DOMAIN Turns(S) : Turns(S)[t] \in {S} \cup Recursive[S]
           /\ IsLinear(S) => Turns(S) = <<S>>
           /\ ~IsDirect(S) => \A R \in {S} \cup Recursive[S] : \E t \in DOMAIN Turns(S) : Turns(S)[t] = R
<1>1. Others[S] \in Seq(Structs) /\ { Others[S][k] : k \in DOMAIN Others[S] } = Recursive[S] \ {S}
  BY StructsAssumption
<1>2. CASE IsDirect(S)
  <2>1. Turns(S) = <<S>>
    BY <1>2 DEF Turns
  <2> QED BY <2>1, <1>2
<1>3. CASE ~IsDirect(S)
  <2>1. Turns(S) = <<S>> \o Others[S]
    BY <1>3 DEF Turns
  <2>2. /\ Turns(S) \in Seq(Structs) /\ Len(Turns(S)) = Len(Others[S]) + 1
        /\ Turns(S)[1] = S
        /\ \A t \in 2 .. Len(Others[S]) + 1 : Turns(S)[t] = Others[S][t - 1]
    BY <2>1, <1>1
  <2>3. ASSUME NEW t \in DOMAIN Turns(S) PROVE Turns(S)[t] \in {S} \cup Recursive[S]
    <3>1. CASE t = 1
      BY <3>1, <2>2
    <3>2. CASE t # 1
      <4>1. t \in 2 .. Len(Others[S]) + 1 /\ t - 1 \in DOMAIN Others[S]
        BY <3>2, <2>2, <1>1
      <4> QED BY <4>1, <2>2, <1>1
    <3> QED BY <3>1, <3>2
  <2>4. ASSUME NEW R \in {S} \cup Recursive[S]
        PROVE  \E t \in DOMAIN Turns(S) : Turns(S)[t] = R
    <3>1. CASE R = S
      BY <3>1, <2>2
    <3>2. CASE R # S
      <4>1. PICK k \in DOMAIN Others[S] : Others[S][k] = R
        BY <3>2, <1>1
      <4>2. k + 1 \in DOMAIN Turns(S) /\ k + 1 \in 2 .. Len(Others[S]) + 1 /\ k + 1 - 1 = k
        BY <2>2, <1>1
      <4> QED BY <4>1, <4>2, <2>2
    <3> QED BY <3>1, <3>2
  <2>5. ~IsLinear(S)
    BY <1>3, StructsAssumption DEF IsLinear, IsDirect, RecursiveMembersOf, MembersOf, IsRecursive
  <2> QED BY <2>2, <2>3, <2>4, <2>5
<1> QED BY <1>2, <1>3

(* The struct whose objects an activation releases. *)
LEMMA ReleasingTyped ==
    ASSUME NEW f, ActivationOK(f)
    PROVE  /\ f.of \in Structs /\ Releasing(f) \in Structs
           /\ Releasing(f) \in {f.of} \cup Recursive[f.of]
           /\ IsLinear(f.of) => Releasing(f) = f.of
           /\ f.left \subseteq Members
           /\ \A m \in f.left : m \in Members /\ Owner[m] = Releasing(f)
<1>1. f.of \in Structs /\ f.turn \in DOMAIN Turns(f.of)
  BY DEF ActivationOK, Activations
<1>2. Turns(f.of)[f.turn] \in {f.of} \cup Recursive[f.of] /\ Recursive[f.of] \subseteq Structs
  BY <1>1, TurnsOf, StructTypes
<1>3. Releasing(f) = f.of \/ Releasing(f) = Turns(f.of)[f.turn]
  BY DEF Releasing
<1>4. IsLinear(f.of) => Releasing(f) = f.of
  BY DEF Releasing
<1>5. f.left \subseteq MembersOf(Releasing(f))
  BY DEF ActivationOK
<1> QED BY <1>1, <1>2, <1>3, <1>4, <1>5 DEF MembersOf

-----------------------------------------------------------------------------
(* The slack of a slot, by its parts. *)
LEMMA SlackParts ==
    ASSUME HeapOK, ActivationsOK, NEW S \in Structs, NEW i \in Slots(S)
    PROVE  /\ Cardinality(CellRefs(S, i)) \in Nat
           /\ Occurrences(stack[S], i) \in Nat
           /\ IsFiniteSet(HeldBy(S, i)) /\ Cardinality(HeldBy(S, i)) \in Nat
           /\ Pending(S, i) \in {0, 1}
           /\ allocation[S][i] \in Nat
           /\ Slack(S, i) = allocation[S][i] - Cardinality(CellRefs(S, i))
                - Occurrences(stack[S], i) - Cardinality(HeldBy(S, i)) - Pending(S, i)
<1>1. Cardinality(CellRefs(S, i)) \in Nat
  BY CellsOfFinite DEF CellRefs
<1>2. Occurrences(stack[S], i) \in Nat
  BY OccurrencesType DEF HeapOK
<1>3. IsFiniteSet(HeldBy(S, i)) /\ Cardinality(HeldBy(S, i)) \in Nat
  <2>1. IsFiniteSet(DOMAIN calls) /\ HeldBy(S, i) \subseteq DOMAIN calls
    BY FS_Interval DEF ActivationsOK, HeldBy
  <2> QED BY <2>1, FS_Subset, FS_CardinalityType
<1>4. Pending(S, i) \in {0, 1}
  BY DEF Pending
<1>5. allocation[S][i] \in Nat
  BY DEF HeapOK
<1> QED BY <1>1, <1>2, <1>3, <1>4, <1>5, ReferencesAre DEF Slack

(* An object with a counted reference is alive. *)
LEMMA CountedIsAlive ==
    ASSUME HeapOK, ActivationsOK, CountsOK, NEW S \in Structs, NEW i \in Slots(S),
           \/ CellRefs(S, i) # {} \/ \E k \in DOMAIN stack[S] : stack[S][k] = i
           \/ HeldBy(S, i) # {} \/ (Building(S) /\ i = free_idx[S])
    PROVE  allocation[S][i] >= 1
<1>1. Slack(S, i) >= 0
  BY DEF CountsOK
<1>2. CellRefs(S, i) # {} => Cardinality(CellRefs(S, i)) # 0
  BY CellsOfFinite, FS_EmptySet DEF CellRefs
<1>3. (\E k \in DOMAIN stack[S] : stack[S][k] = i) => Occurrences(stack[S], i) # 0
  <2>1. IsFiniteSet({ k \in DOMAIN stack[S] : stack[S][k] = i })
    BY OccurrencesType DEF HeapOK
  <2> QED BY <2>1, FS_EmptySet DEF Occurrences
<1>4. HeldBy(S, i) # {} => Cardinality(HeldBy(S, i)) # 0
  BY SlackParts, FS_EmptySet
<1>5. Building(S) /\ i = free_idx[S] => Pending(S, i) = 1
  BY DEF Pending
<1> QED BY <1>1, <1>2, <1>3, <1>4, <1>5, SlackParts

-----------------------------------------------------------------------------
(* Where a move writes. *)
LEMMA HeadIsFirst ==
    ASSUME HeapOK, todo # <<>>
    PROVE  /\ Head(todo) = todo[1] /\ 1 \in DOMAIN todo
           /\ Tail(todo) \in Seq(Moves) /\ Len(Tail(todo)) = Len(todo) - 1
           /\ DOMAIN todo = 1 .. Len(todo) /\ DOMAIN Tail(todo) = 1 .. Len(todo) - 1
           /\ \A k \in DOMAIN Tail(todo) : Tail(todo)[k] = todo[k + 1] /\ k + 1 \in DOMAIN todo
BY DEF HeapOK

(* A move about a new object that comes next is about an object that has    *)
(* been made.                                                               *)
LEMMA BuildingAtHead ==
    ASSUME HeapOK, MovesOK, todo # <<>>, ~IsNew(todo[1]), NEW S \in Structs, UsesNew(todo[1], S)
    PROVE  Building(S)
<1>1. 1 \in DOMAIN todo /\ \A k \in DOMAIN todo : k \in Nat /\ k >= 1
  BY HeadIsFirst DEF HeapOK
<1>2. \A k \in DOMAIN todo : ~IsNew(todo[k])
  BY <1>1 DEF MovesOK, WellFormed
<1> QED BY <1>1, <1>2 DEF Building

(* What a variable, a struct and the literal nil denote as the base of a    *)
(* place.                                                                   *)
LEMMA BaseValueOf ==
    /\ \A v \in Vars : BaseValue(v) = env[v]
    /\ \A S \in Structs : BaseValue(S) = free_idx[S]
    /\ BaseValue(None) = Nil
BY NamesAssumption DEF BaseValue

(* The left side of a move is a variable, or a member of an object that a   *)
(* variable or free_idx denotes.                                            *)
LEMMA TargetTyped ==
    ASSUME HeapOK, TargetsReachable, MovesOK, NEW k \in DOMAIN todo, ~IsNew(todo[k])
    PROVE  LET to == todo[k].to
           IN  \/ \E v \in Vars : /\ to.base = v /\ to.path = <<>>
                                  /\ Cell(to) = <<v, Nil>> /\ Value(to) = env[v]
                                  /\ PlaceType(to) = TypeOf[v]
               \/ \E m \in Members : \E x \in Slots(Owner[m]) :
                    /\ to.path = <<m>> /\ Index(to) = x /\ Cell(to) = <<m, x>>
                    /\ Value(to) = member[m][x] /\ PlaceType(to) = TypeOf[m]
                    /\ \/ to.base \in Vars /\ env[to.base] = x /\ TypeOf[to.base] = Owner[m]
                       \/ to.base = Owner[m] /\ free_idx[Owner[m]] = x
<1> DEFINE to == todo[k].to
<1>1. IsTarget(to)
  BY DEF MovesOK, WellFormed, MoveOK
<1>2. CASE to.base \in Vars /\ to.path = <<>>
  BY <1>2, BaseValueOf DEF Cell, Value, PlaceType
<1>3. ASSUME to.base \in Vars, NEW m \in Members, to.path = <<m>>, Owner[m] = TypeOf[to.base]
      PROVE  LET x == env[to.base] IN
             /\ x \in Slots(Owner[m])
             /\ Index(to) = x /\ Cell(to) = <<m, x>>
             /\ Value(to) = member[m][x] /\ PlaceType(to) = TypeOf[m]
  <2>1. env[to.base] \in Slots(Owner[m])
    <3>1. to.path # <<>>
      BY <1>3
    <3>2. env[to.base] # Nil
      BY <1>3, <3>1 DEF TargetsReachable
    <3>3. env[to.base] \in Pointers(TypeOf[to.base])
      BY <1>3 DEF HeapOK
    <3> QED BY <3>2, <3>3, <1>3 DEF Pointers
  <2>2. BaseValue(to.base) = env[to.base]
    BY <1>3, BaseValueOf
  <2>3. Len(to.path) = 1 /\ to.path[Len(to.path)] = m /\ to.path # <<>>
    BY <1>3
  <2>4. Index(to) = env[to.base]
    BY <2>2, <2>3 DEF Index
  <2> QED BY <2>1, <2>3, <2>4 DEF Cell, Value, MemberOf, PlaceType
<1>4. ASSUME to.base \in Structs, NEW m \in Members, to.path = <<m>>, Owner[m] = to.base
      PROVE  LET x == free_idx[to.base] IN
             /\ x \in Slots(Owner[m])
             /\ Index(to) = x /\ Cell(to) = <<m, x>>
             /\ Value(to) = member[m][x] /\ PlaceType(to) = TypeOf[m]
  <2>1. free_idx[to.base] \in Slots(Owner[m])
    BY <1>4 DEF HeapOK
  <2>2. BaseValue(to.base) = free_idx[to.base]
    BY <1>4, BaseValueOf
  <2>3. Len(to.path) = 1 /\ to.path[Len(to.path)] = m /\ to.path # <<>>
    BY <1>4
  <2>4. Index(to) = free_idx[to.base]
    BY <2>2, <2>3 DEF Index
  <2> QED BY <2>1, <2>3, <2>4 DEF Cell, Value, MemberOf, PlaceType
<1> QED BY <1>1, <1>2, <1>3, <1>4 DEF IsTarget

-----------------------------------------------------------------------------
(* What is alive *)

(* What a move reads. *)
LEMMA SourceTyped ==
    ASSUME HeapOK, MovesOK, SourceReachable, phase \in {"delete", "store"},
           todo # <<>>, ~IsNew(todo[1])
    PROVE  LET from == todo[1].from
               to == todo[1].to
           IN  /\ Value(from) \in Pointers(PlaceType(to)) /\ PlaceType(to) \in Structs
               /\ \/ from = NilPlace /\ Value(from) = Nil /\ CellsRead(from) = {<<None, Nil>>}
                  \/ /\ from.base \in Structs /\ from.path = <<>>
                     /\ from.base = PlaceType(to)
                     /\ Value(from) = free_idx[from.base]
                     /\ CellsRead(from) = {<<from.base, Nil>>}
                  \/ /\ from.base \in Vars /\ from.path = <<>>
                     /\ TypeOf[from.base] = PlaceType(to)
                     /\ Value(from) = env[from.base]
                     /\ CellsRead(from) = {<<from.base, Nil>>}
                  \/ /\ from.base \in Vars
                     /\ \E m \in Members : \E x \in Slots(Owner[m]) :
                          /\ from.path = <<m>> /\ env[from.base] = x /\ TypeOf[from.base] = Owner[m]
                          /\ TypeOf[m] = PlaceType(to)
                          /\ Value(from) = member[m][x] /\ CellsRead(from) = {<<m, x>>}
                  \/ /\ from.base \in Vars
                     /\ \E m, n \in Members :
                          \E x \in Slots(Owner[m]) : \E y \in Slots(Owner[n]) :
                          /\ from.path = <<m, n>> /\ env[from.base] = x /\ TypeOf[from.base] = Owner[m]
                          /\ TypeOf[m] = Owner[n] /\ member[m][x] = y
                          /\ TypeOf[n] = PlaceType(to)
                          /\ Value(from) = member[n][y] /\ CellsRead(from) = {<<n, y>>, <<m, x>>}
<1> DEFINE from == todo[1].from
           to == todo[1].to
<1>1. /\ IsSource(from) /\ IsTarget(to)
      /\ from = NilPlace \/ SourceType(from) = PlaceType(to)
      /\ Reachable(from)
  BY HeadIsFirst DEF MovesOK, WellFormed, MoveOK, SourceReachable
<1>2. PlaceType(to) \in Structs
  <2>1. CASE to.base \in Vars /\ to.path = <<>>
    BY <2>1, StructTypes DEF PlaceType
  <2>2. ASSUME NEW m \in Members, to.path = <<m>> PROVE PlaceType(to) \in Structs
    <3>1. Len(to.path) = 1 /\ to.path[Len(to.path)] = m /\ to.path # <<>>
      BY <2>2
    <3> QED BY <3>1, StructTypes DEF PlaceType
  <2> QED BY <1>1, <2>1, <2>2 DEF IsTarget
<1>3. CASE from = NilPlace
  <2>1. from.base = None /\ from.path = <<>>
    BY <1>3 DEF NilPlace, Place
  <2>2. Value(from) = Nil /\ CellsRead(from) = {<<None, Nil>>}
    <3>1. Len(from.path) # 2
      BY <2>1
    <3> QED BY <2>1, <3>1, BaseValueOf DEF Value, CellsRead, Cell
  <2> QED BY <2>2, <1>2, <1>3 DEF Pointers
<1>4. CASE from.base \in Structs /\ from.path = <<>>
  <2>1. Len(from.path) # 2 /\ from # NilPlace
    BY <1>4, NamesAssumption DEF NilPlace, Place
  <2>2. Value(from) = free_idx[from.base] /\ CellsRead(from) = {<<from.base, Nil>>}
    BY <2>1, <1>4, BaseValueOf DEF Value, CellsRead, Cell
  <2>3. from.base = PlaceType(to)
    BY <2>1, <1>1, <1>4 DEF SourceType
  <2>4. free_idx[from.base] \in Slots(from.base)
    BY <1>4 DEF HeapOK
  <2> QED BY <2>2, <2>3, <2>4, <1>2, <1>4 DEF Pointers
<1>5. CASE from.base \in Vars /\ from.path = <<>>
  <2>1. Len(from.path) # 2 /\ from # NilPlace /\ from.base \notin Structs
    BY <1>5, NamesAssumption DEF NilPlace, Place
  <2>2. Value(from) = env[from.base] /\ CellsRead(from) = {<<from.base, Nil>>}
    BY <2>1, <1>5, BaseValueOf DEF Value, CellsRead, Cell
  <2>3. TypeOf[from.base] = PlaceType(to)
    BY <2>1, <1>1, <1>5 DEF SourceType, PlaceType
  <2>4. env[from.base] \in Pointers(TypeOf[from.base])
    BY <1>5 DEF HeapOK
  <2> QED BY <2>2, <2>3, <2>4, <1>2, <1>5
<1>6. ASSUME from.base \in Vars, NEW m \in Members, from.path = <<m>>, Owner[m] = TypeOf[from.base]
      PROVE  LET x == env[from.base] IN
             /\ x \in Slots(Owner[m])
             /\ TypeOf[m] = PlaceType(to)
             /\ Value(from) = member[m][x] /\ CellsRead(from) = {<<m, x>>}
             /\ Value(from) \in Pointers(TypeOf[m])
  <2>1. Len(from.path) = 1 /\ from.path[Len(from.path)] = m /\ from.path # <<>> /\ Len(from.path) # 2
    BY <1>6
  <2>2. env[from.base] # Nil
    BY <2>1, <1>1, <1>6, BaseValueOf DEF Reachable
  <2>3. env[from.base] \in Slots(Owner[m])
    BY <2>2, <1>6 DEF HeapOK, Pointers
  <2>4. Index(from) = env[from.base]
    BY <2>1, <1>6, BaseValueOf DEF Index
  <2>5. from # NilPlace
    BY <2>1 DEF NilPlace, Place
  <2>6. PlaceType(from) = TypeOf[m] /\ SourceType(from) = TypeOf[m]
    BY <2>1 DEF PlaceType, SourceType
  <2>7. Value(from) = member[m][env[from.base]]
    BY <2>1, <2>3, <2>4 DEF Value, MemberOf
  <2>8. CellsRead(from) = {<<m, env[from.base]>>}
    BY <2>1, <2>4 DEF CellsRead, Cell
  <2>9. member[m][env[from.base]] \in Pointers(TypeOf[m])
    BY <2>3 DEF HeapOK
  <2> QED BY <1>1, <2>3, <2>5, <2>6, <2>7, <2>8, <2>9
<1>7. ASSUME from.base \in Vars, NEW m \in Members, NEW n \in Members, from.path = <<m, n>>,
             Owner[m] = TypeOf[from.base], Owner[n] = TypeOf[m]
      PROVE  LET x == env[from.base]
                 y == member[m][x] IN
             /\ x \in Slots(Owner[m]) /\ y \in Slots(Owner[n])
             /\ TypeOf[n] = PlaceType(to)
             /\ Value(from) = member[n][y] /\ CellsRead(from) = {<<n, y>>, <<m, x>>}
             /\ Value(from) \in Pointers(TypeOf[n])
  <2>1. /\ Len(from.path) = 2 /\ from.path[Len(from.path)] = n /\ from.path[1] = m
        /\ from.path # <<>>
    BY <1>7
  <2>2. env[from.base] # Nil /\ Index(from) # Nil
    BY <2>1, <1>1, <1>7, BaseValueOf DEF Reachable
  <2>3. env[from.base] \in Slots(Owner[m])
    BY <2>2, <1>7 DEF HeapOK, Pointers
  <2>4. Index(from) = member[m][env[from.base]]
    BY <2>1, <2>3, <1>7, BaseValueOf DEF Index, MemberOf
  <2>5. member[m][env[from.base]] \in Slots(Owner[n])
    BY <2>2, <2>3, <2>4, <1>7 DEF HeapOK, Pointers
  <2>6. from # NilPlace
    BY <2>1 DEF NilPlace, Place
  <2>7. PlaceType(from) = TypeOf[n] /\ SourceType(from) = TypeOf[n]
    BY <2>1 DEF PlaceType, SourceType
  <2>8. Value(from) = member[n][member[m][env[from.base]]]
    BY <2>1, <2>4, <2>5 DEF Value, MemberOf
  <2>9. CellsRead(from) = {<<n, member[m][env[from.base]]>>, <<m, env[from.base]>>}
    BY <2>1, <2>4, <1>7, BaseValueOf DEF CellsRead, Cell
  <2>10. member[n][member[m][env[from.base]]] \in Pointers(TypeOf[n])
    BY <2>5 DEF HeapOK
  <2> QED BY <1>1, <2>3, <2>5, <2>6, <2>7, <2>8, <2>9, <2>10
<1>8. from = NilPlace \/ (from.base \in Structs /\ from.path = <<>>)
      \/ (from.base \in Vars /\ from.path = <<>>)
      \/ (from.base \in Vars /\ \E m \in Members : from.path = <<m>> /\ Owner[m] = TypeOf[from.base])
      \/ (from.base \in Vars /\ \E m, n \in Members :
            from.path = <<m, n>> /\ Owner[m] = TypeOf[from.base] /\ Owner[n] = TypeOf[m])
  BY <1>1 DEF IsSource
<1>9. CASE from.base \in Vars /\ \E m \in Members : from.path = <<m>> /\ Owner[m] = TypeOf[from.base]
  BY <1>2, <1>6, <1>9
<1>10. CASE from.base \in Vars /\ \E m, n \in Members :
            from.path = <<m, n>> /\ Owner[m] = TypeOf[from.base] /\ Owner[n] = TypeOf[m]
  <2>1. PICK m, n \in Members : from.path = <<m, n>> /\ Owner[m] = TypeOf[from.base] /\ Owner[n] = TypeOf[m]
    BY <1>10
  <2>2. LET x == env[from.base]
            y == member[m][x] IN
        /\ x \in Slots(Owner[m]) /\ y \in Slots(Owner[n])
        /\ TypeOf[n] = PlaceType(to)
        /\ Value(from) = member[n][y] /\ CellsRead(from) = {<<n, y>>, <<m, x>>}
        /\ Value(from) \in Pointers(TypeOf[n])
    BY <2>1, <1>7, <1>10
  <2> QED BY <1>2, <1>10, <2>1, <2>2
<1> QED BY <1>3, <1>4, <1>5, <1>8, <1>9, <1>10, Zenon

-----------------------------------------------------------------------------
(* Which cells are counted. *)
LEMMA VariableCounted ==
    ASSUME ActivationsOK, NEW v \in Vars,
           phase \in {"store", "retain"} => <<v, Nil>> # Cell(Head(todo).to)
    PROVE  <<v, Nil>> \notin Uncounted /\ <<v, Nil>> \in CellsOf[TypeOf[v]] /\ CellValue(<<v, Nil>>) = env[v]
<1>1. ASSUME NEW k \in DOMAIN calls, NEW m \in MembersOf(Releasing(calls[k])) \ calls[k].left
      PROVE  <<v, Nil>> # <<m, calls[k].self>>
  BY NamesAssumption DEF MembersOf
<1>2. <<v, Nil>> \notin Uncounted
  BY <1>1, UncountedAre
<1>3. <<v, Nil>> \in CellsOf[TypeOf[v]]
  BY StructTypes DEF CellsOf, Cells
<1> QED BY <1>2, <1>3 DEF CellValue

(* A member of a live object is counted unless it is the left side of the   *)
(* move that is under way.                                                  *)
LEMMA MemberCounted ==
    ASSUME ActivationsOK, ReleasedOnce, NEW m \in Members, NEW x \in Slots(Owner[m]),
           allocation[Owner[m]][x] >= 1,
           phase \in {"store", "retain"} => <<m, x>> # Cell(Head(todo).to)
    PROVE  <<m, x>> \notin Uncounted /\ <<m, x>> \in CellsOf[TypeOf[m]] /\ CellValue(<<m, x>>) = member[m][x]
<1>1. ASSUME NEW k \in DOMAIN calls, calls[k].self # Nil,
             NEW n \in MembersOf(Releasing(calls[k])) \ calls[k].left
      PROVE  <<m, x>> # <<n, calls[k].self>>
  <2>1. Owner[n] = Releasing(calls[k])
    BY DEF MembersOf
  <2>2. allocation[Releasing(calls[k])][calls[k].self] = 0
    BY <1>1 DEF ReleasedOnce
  <2> QED BY <2>1, <2>2
<1>2. <<m, x>> \notin Uncounted
  BY <1>1, UncountedAre
<1>3. <<m, x>> \in CellsOf[TypeOf[m]]
  <2>1. <<m, x>> \in {m} \X Slots(Owner[m])
    OBVIOUS
  <2>2. <<m, x>> \in Cells
    BY <2>1 DEF Cells
  <2> QED BY <2>2, StructTypes DEF CellsOf
<1> QED BY <1>2, <1>3, NamesAssumption DEF CellValue

(* What a variable points to is alive unless the variable is being          *)
(* assigned.                                                                *)
LEMMA VariableIsAlive ==
    ASSUME HeapOK, ActivationsOK, CountsOK, NEW v \in Vars, env[v] # Nil,
           phase \in {"store", "retain"} => <<v, Nil>> # Cell(Head(todo).to)
    PROVE  env[v] \in Slots(TypeOf[v]) /\ allocation[TypeOf[v]][env[v]] >= 1
<1>1. env[v] \in Slots(TypeOf[v]) /\ TypeOf[v] \in Structs
  BY StructTypes DEF HeapOK, Pointers
<1>2. <<v, Nil>> \in CellRefs(TypeOf[v], env[v])
  BY VariableCounted DEF CellRefs
<1> QED BY <1>1, <1>2, CountedIsAlive

(* What a member of a live object points to is alive unless the member is   *)
(* being assigned.                                                          *)
LEMMA MemberIsAlive ==
    ASSUME HeapOK, ActivationsOK, ReleasedOnce, CountsOK,
           NEW m \in Members, NEW x \in Slots(Owner[m]),
           allocation[Owner[m]][x] >= 1, member[m][x] # Nil,
           phase \in {"store", "retain"} => <<m, x>> # Cell(Head(todo).to)
    PROVE  member[m][x] \in Slots(TypeOf[m]) /\ allocation[TypeOf[m]][member[m][x]] >= 1
<1>1. member[m][x] \in Slots(TypeOf[m]) /\ TypeOf[m] \in Structs
  BY StructTypes DEF HeapOK, Pointers
<1>2. <<m, x>> \in CellRefs(TypeOf[m], member[m][x])
  BY MemberCounted DEF CellRefs
<1> QED BY <1>1, <1>2, CountedIsAlive

(* The object that a move writes to is alive. *)
LEMMA TargetIsAlive ==
    ASSUME HeapOK, ActivationsOK, MovesOK, TargetsReachable, CountsOK,
           todo # <<>>, ~IsNew(todo[1]),
           NEW m \in Members, todo[1].to.path = <<m>>
    PROVE  Index(todo[1].to) \in Slots(Owner[m]) /\ allocation[Owner[m]][Index(todo[1].to)] >= 1
<1> DEFINE to == todo[1].to
<1>1. todo[1].to.path # <<>> /\ \A n : todo[1].to.path = <<n>> => n = m
  OBVIOUS
<1>2. PICK x \in Slots(Owner[m]) :
         /\ Index(to) = x /\ Cell(to) = <<m, x>>
         /\ \/ to.base \in Vars /\ env[to.base] = x /\ TypeOf[to.base] = Owner[m]
            \/ to.base = Owner[m] /\ free_idx[Owner[m]] = x
  BY <1>1, TargetTyped, HeadIsFirst
<1>3. Owner[m] \in Structs /\ x # Nil
  BY StructTypes
<1>4. CASE to.base \in Vars /\ env[to.base] = x /\ TypeOf[to.base] = Owner[m]
  <2>1. <<to.base, Nil>> # <<m, x>>
    BY <1>3
  <2>2. <<to.base, Nil>> # Cell(Head(todo).to)
    BY <2>1, <1>2, HeadIsFirst
  <2> QED BY <2>2, <1>2, <1>3, <1>4, VariableIsAlive
<1>5. CASE to.base = Owner[m] /\ free_idx[Owner[m]] = x
  <2>1. Building(Owner[m])
    BY <1>3, <1>5, BuildingAtHead DEF UsesNew
  <2> QED BY <2>1, <1>2, <1>3, <1>5, CountedIsAlive
<1> QED BY <1>2, <1>4, <1>5

-----------------------------------------------------------------------------
(* The moves that are left *)

(* What is left of the moves of a statement is well formed again. *)
LEMMA TailOfMoves ==
    ASSUME NEW moves \in Seq(Moves), moves # <<>>, WellFormed(moves)
    PROVE  Tail(moves) \in Seq(Moves) /\ WellFormed(Tail(moves))
<1> DEFINE rest == Tail(moves)
<1>1. /\ rest \in Seq(Moves) /\ \A k \in DOMAIN rest : k + 1 \in DOMAIN moves /\ rest[k] = moves[k + 1]
      /\ \A k \in DOMAIN moves : k > 1 => k - 1 \in DOMAIN rest /\ rest[k - 1] = moves[k]
      /\ DOMAIN moves \subseteq Nat \ {0} /\ DOMAIN rest \subseteq Nat \ {0}
  OBVIOUS
<1> HIDE DEF rest
<1>2. \A k \in DOMAIN rest : MoveOK(rest[k]) /\ (k > 1 => rest[k].from.path = <<>>)
  BY <1>1 DEF WellFormed
<1>3. ASSUME NEW j \in DOMAIN rest, NEW k \in DOMAIN rest, IsNew(rest[k])
      PROVE  (IsNew(rest[j]) => j = k) /\ (j < k => ~rest[j].retain)
  <2>1. /\ IsNew(moves[j + 1]) => j + 1 = k + 1
        /\ j + 1 < k + 1 => ~moves[j + 1].retain
    BY <1>1, <1>3 DEF WellFormed
  <2> QED BY <2>1, <1>1
<1>4. \A S, R \in Structs : \A j, k \in DOMAIN rest :
        UsesNew(rest[j], S) /\ UsesNew(rest[k], R) => S = R
  BY <1>1 DEF WellFormed
<1>5. ASSUME NEW S \in Structs, NEW j \in DOMAIN rest, NEW k \in DOMAIN rest, UsesNew(rest[j], S)
      PROVE  (IsNew(rest[k]) => k <= j) /\ (rest[k].from.base = S => j <= k)
  <2>1. /\ IsNew(moves[k + 1]) => k + 1 <= j + 1
        /\ moves[k + 1].from.base = S => j + 1 <= k + 1
    BY <1>1, <1>5 DEF WellFormed
  <2> QED BY <2>1, <1>1
<1>6. ASSUME NEW S \in Structs, NEW j \in DOMAIN rest, UsesNew(rest[j], S)
      PROVE  \E k \in DOMAIN rest : rest[k].from.base = S
  <2>1. PICK k \in DOMAIN moves : moves[k].from.base = S /\ j + 1 <= k
    BY <1>1, <1>6 DEF WellFormed
  <2>2. k > 1
    BY <2>1, <1>1
  <2>3. k - 1 \in DOMAIN rest /\ rest[k - 1] = moves[k]
    BY <2>2, <1>1
  <2> QED BY <2>1, <2>3
<1>7. ASSUME NEW S \in Structs, NEW j \in DOMAIN rest, NEW k \in DOMAIN rest,
             UsesNew(rest[k], S), j <= k, ~UsesNew(rest[j], S)
      PROVE  \E l \in DOMAIN rest : j < l /\ IsNew(rest[l])
  <2>1. PICK l \in DOMAIN moves : j + 1 < l /\ IsNew(moves[l])
    <3>1. j + 1 <= k + 1
      BY <1>1, <1>7
    <3> QED BY <3>1, <1>1, <1>7 DEF WellFormed
  <2>2. l > 1
    BY <2>1, <1>1
  <2>3. l - 1 \in DOMAIN rest /\ rest[l - 1] = moves[l] /\ j < l - 1
    BY <2>1, <2>2, <1>1
  <2> QED BY <2>1, <2>3
<1>8. ASSUME NEW j \in DOMAIN rest, NEW k \in DOMAIN rest
      PROVE  /\ rest[j].to.base \in Structs /\ rest[j].to = rest[k].to => j = k
             /\ rest[j].to.base \in Vars /\ rest[j].to.path # <<>> /\ rest[k].to.base \in Vars
                  => rest[k].to.path # <<>>
  <2>1. /\ moves[j + 1].to.base \in Structs /\ moves[j + 1].to = moves[k + 1].to => j + 1 = k + 1
        /\ moves[j + 1].to.base \in Vars /\ moves[j + 1].to.path # <<>> /\ moves[k + 1].to.base \in Vars
                  => moves[k + 1].to.path # <<>>
    BY <1>1 DEF WellFormed
  <2> QED BY <2>1, <1>1
<1> QED BY <1>1, <1>2, <1>3, <1>4, <1>5, <1>6, <1>7, <1>8 DEF WellFormed, rest

-----------------------------------------------------------------------------
(* Three laws of the states of the invariant *)

(* The laws of a state, for the state before a step and the one after it.   *)
SlackLaw ==
    \A S \in Structs : \A i \in Slots(S) :
        /\ Cardinality(CellRefs(S, i)) \in Nat
        /\ Occurrences(stack[S], i) \in Nat
        /\ IsFiniteSet(HeldBy(S, i)) /\ Cardinality(HeldBy(S, i)) \in Nat
        /\ Pending(S, i) \in {0, 1}
        /\ allocation[S][i] \in Nat
        /\ Slack(S, i) = allocation[S][i] - Cardinality(CellRefs(S, i))
             - Occurrences(stack[S], i) - Cardinality(HeldBy(S, i)) - Pending(S, i)

UncountedLaw ==
    \A c : c \in Uncounted <=>
        \/ phase \in {"store", "retain"} /\ c = Cell(Head(todo).to)
        \/ \E k \in DOMAIN calls : /\ calls[k].self # Nil
                                   /\ \E m \in MembersOf(Releasing(calls[k])) \ calls[k].left :
                                         c = <<m, calls[k].self>>

TargetLaw ==
    \A k \in DOMAIN todo : ~IsNew(todo[k]) =>
        \/ \E v \in Vars : /\ todo[k].to.base = v /\ todo[k].to.path = <<>>
                           /\ Cell(todo[k].to) = <<v, Nil>> /\ Value(todo[k].to) = env[v]
                           /\ PlaceType(todo[k].to) = TypeOf[v]
        \/ \E m \in Members : \E x \in Slots(Owner[m]) :
             /\ todo[k].to.path = <<m>> /\ Index(todo[k].to) = x /\ Cell(todo[k].to) = <<m, x>>
             /\ Value(todo[k].to) = member[m][x] /\ PlaceType(todo[k].to) = TypeOf[m]
             /\ \/ todo[k].to.base \in Vars /\ env[todo[k].to.base] = x /\ TypeOf[todo[k].to.base] = Owner[m]
                \/ todo[k].to.base = Owner[m] /\ free_idx[Owner[m]] = x

(* The three laws hold in every state of the invariant. *)
LEMMA Laws ==
    /\ HeapOK /\ ActivationsOK => SlackLaw
    /\ UncountedLaw
    /\ HeapOK /\ TargetsReachable /\ MovesOK => TargetLaw
<1>1. HeapOK /\ ActivationsOK => SlackLaw
  BY SlackParts DEF SlackLaw
<1>2. UncountedLaw
  BY UncountedAre DEF UncountedLaw
<1>3. HeapOK /\ TargetsReachable /\ MovesOK => TargetLaw
  BY TargetTyped DEF TargetLaw
<1> QED BY <1>1, <1>2, <1>3

(* The three laws in the state after a step. *)
LEMMA LawsNext ==
    /\ HeapOK' /\ ActivationsOK' => SlackLaw'
    /\ UncountedLaw'
    /\ HeapOK' /\ TargetsReachable' /\ MovesOK' => TargetLaw'
BY Laws, PTL
=============================================================================
