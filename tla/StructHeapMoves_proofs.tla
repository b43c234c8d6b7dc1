----------------------- MODULE StructHeapMoves_proofs -----------------------
(***************************************************************************)
(* The moves of a statement: the search for a slot, the delete of the old   *)
(* value, the store and the retain of the new one each keep the invariant   *)
(* of the heap.                                                             *)
(***************************************************************************)
EXTENDS StructHeapStatements_proofs

(* From one move to the next *)

(* When a move is done: the object that its constructor makes is under      *)
(* construction from the search for its slot until it is stored.            *)
LEMMA BuildingAfter ==
    ASSUME HeapOK, MovesOK, todo # <<>>, todo' = Tail(todo)
    PROVE  /\ ~IsNew(todo[1]) /\ todo[1].from.base \notin Structs =>
                \A S \in Structs : Building(S)' <=> Building(S)
           /\ ~IsNew(todo[1]) /\ todo[1].from.base \in Structs =>
                /\ \A S \in Structs : ~Building(S)'
                /\ \A S \in Structs : Building(S) <=> S = todo[1].from.base
           /\ IsNew(todo[1]) => \A S \in Structs : /\ ~Building(S)
                                                   /\ Building(S)' <=> S = todo[1].to.base
<1>1. /\ \A k \in DOMAIN todo' : k + 1 \in DOMAIN todo /\ todo'[k] = todo[k + 1]
      /\ \A k \in DOMAIN todo : k > 1 => k - 1 \in DOMAIN todo' /\ todo'[k - 1] = todo[k]
      /\ DOMAIN todo \subseteq Nat \ {0} /\ DOMAIN todo' \subseteq Nat \ {0} /\ 1 \in DOMAIN todo
  BY HeadIsFirst DEF HeapOK
<1>2. \A k \in DOMAIN todo : k = 1 \/ k > 1
  BY <1>1
<1>3. /\ \A S \in Structs : (\E k \in DOMAIN todo' : UsesNew(todo'[k], S))
                              <=> (\E k \in DOMAIN todo : k > 1 /\ UsesNew(todo[k], S))
      /\ (\A k \in DOMAIN todo' : ~IsNew(todo'[k]))
                              <=> (\A k \in DOMAIN todo : k > 1 => ~IsNew(todo[k]))
  <2>1. \A k \in DOMAIN todo' : k + 1 > 1
    BY <1>1
  <2> QED BY <1>1, <2>1
<1>4. CASE ~IsNew(todo[1]) /\ todo[1].from.base \notin Structs
  <2> SUFFICES ASSUME NEW S \in Structs PROVE Building(S)' <=> Building(S)
    BY <1>4
  <2>1. (\E k \in DOMAIN todo : UsesNew(todo[k], S)) => \E k \in DOMAIN todo : k > 1 /\ UsesNew(todo[k], S)
    <3> SUFFICES ASSUME NEW j \in DOMAIN todo, UsesNew(todo[j], S)
                 PROVE  \E k \in DOMAIN todo : k > 1 /\ UsesNew(todo[k], S)
      OBVIOUS
    <3>1. PICK k \in DOMAIN todo : todo[k].from.base = S
      BY DEF MovesOK, WellFormed
    <3> QED BY <3>1, <1>2, <1>4 DEF UsesNew
  <2> QED BY <2>1, <1>2, <1>3, <1>4 DEF Building
<1>5. CASE ~IsNew(todo[1]) /\ todo[1].from.base \in Structs
  <2> DEFINE R == todo[1].from.base
  <2>1. UsesNew(todo[1], R)
    BY DEF UsesNew
  <2>2. \A S \in Structs : \A k \in DOMAIN todo : UsesNew(todo[k], S) => S = R /\ ~(k > 1)
    BY <2>1, <1>1, <1>5 DEF MovesOK, WellFormed
  <2>3. \A k \in DOMAIN todo : ~IsNew(todo[k])
    <3>1. \A k \in DOMAIN todo : IsNew(todo[k]) => k <= 1
      BY <2>1, <1>1, <1>5 DEF MovesOK, WellFormed
    <3> QED BY <3>1, <1>2, <1>1, <1>5
  <2>4. \A S \in Structs : ~Building(S)'
    BY <2>2, <1>3 DEF Building
  <2>5. \A S \in Structs : Building(S) <=> S = R
    BY <2>1, <2>2, <2>3, <1>1 DEF Building
  <2> QED BY <2>4, <2>5, <1>5
<1>6. CASE IsNew(todo[1])
  <2> DEFINE R == todo[1].to.base
  <2>1. UsesNew(todo[1], R) /\ R \in Structs /\ todo[1].from.base = None
    <3>1. todo[1].to.base \in Structs /\ todo[1] = New(R)
      BY <1>1, <1>6 DEF MovesOK, WellFormed, MoveOK
    <3>2. todo[1].from = NilPlace
      BY <3>1, NewParts
    <3> QED BY <3>1, <3>2, NilPlaceIs DEF UsesNew
  <2>2. \A k \in DOMAIN todo : k > 1 => ~IsNew(todo[k])
    BY <1>1, <1>6 DEF MovesOK, WellFormed
  <2>3. PICK k \in DOMAIN todo : todo[k].from.base = R
    BY <2>1, <1>1 DEF MovesOK, WellFormed
  <2>4. k > 1 /\ UsesNew(todo[k], R)
    BY <2>1, <2>3, <1>2, NamesAssumption DEF UsesNew
  <2>5. \A S \in Structs : \A j \in DOMAIN todo : UsesNew(todo[j], S) => S = R
    BY <2>1, <1>1 DEF MovesOK, WellFormed
  <2> QED BY <2>2, <2>4, <2>5, <1>1, <1>3, <1>6 DEF Building
<1> QED BY <1>4, <1>5, <1>6

(* When a move is done the next one finds the statement as it was lowered,  *)
(* and all stacks empty.                                                    *)
LEMMA ContinueKeeps ==
    ASSUME HeapInv, todo # <<>>, calls = <<>>, Continue, calls' = calls, tidy' = tidy
    PROVE  /\ todo' = Tail(todo) /\ todo' \in Seq(Moves) /\ MovesOK' /\ PhaseOK' /\ AtRest'
           /\ phase' # "retain" /\ ~(phase' = "store" /\ Head(todo').delete)
           /\ ActivationsOK' /\ ReleasedOnce' /\ SourceReachable'
           /\ TargetLaw' => RightSideIsKept'
           /\ \A S \in Structs : stack[S] = <<>>
<1> USE DEF HeapInv
<1>1. todo' = Tail(todo) /\ phase' = FirstPhase(todo')
  BY DEF Continue
<1>2. todo' \in Seq(Moves) /\ MovesOK'
  BY <1>1, TailOfMoves DEF HeapOK, MovesOK
<1>3. todo' # <<>> => 1 \in DOMAIN todo' /\ Head(todo') = todo'[1] /\ todo'[1] \in Moves /\ todo'[1] = todo[2]
                      /\ 2 \in DOMAIN todo
  BY <1>1, <1>2, HeadIsFirst
<1>4. /\ phase' = "idle" <=> todo' = <<>>
      /\ phase' = "new" <=> (todo' # <<>> /\ IsNew(todo'[1]))
      /\ phase' = "delete" <=> (todo' # <<>> /\ ~IsNew(todo'[1]) /\ todo'[1].delete)
      /\ phase' = "store" <=> (todo' # <<>> /\ ~IsNew(todo'[1]) /\ ~todo'[1].delete)
      /\ phase' \in {"idle", "new", "delete", "store"}
  BY <1>1, <1>3 DEF FirstPhase, IsNew, Moves
<1>5. PhaseOK'
  BY <1>3, <1>4 DEF PhaseOK
<1>6. AtRest' /\ phase' # "retain" /\ ~(phase' = "store" /\ Head(todo').delete)
  BY <1>3, <1>4 DEF AtRest
<1>7. ActivationsOK' /\ ReleasedOnce'
  <2>1. ActivationsOK'
    BY DEF ActivationsOK
  <2>2. ReleasedOnce'
    BY DEF ReleasedOnce
  <2> QED BY <2>1, <2>2
<1>8. todo' # <<>> => todo'[1].from.path = <<>>
  BY <1>3 DEF MovesOK, WellFormed
<1>9. SourceReachable'
  <2> SUFFICES ASSUME phase' \in {"delete", "store"} PROVE Reachable(todo[1].from)'
    BY <1>3, <1>4 DEF SourceReachable
  <2>1. todo' # <<>>
    BY <1>4
  <2>2. todo'[1].from.path = <<>>
    BY <2>1, <1>8
  <2>3. Len(todo'[1].from.path) # 2
    BY <2>2
  <2> QED BY <2>2, <2>3 DEF Reachable
<1>10. ASSUME TargetLaw' PROVE RightSideIsKept'
  <2>1. AssignmentTakesEffect'
    BY <1>6 DEF AssignmentTakesEffect
  <2>2. ASSUME phase' \in {"delete", "store"}
        PROVE  Cell(todo[1].to)' \notin CellsRead(todo[1].from)'
    <3>1. todo' # <<>> /\ ~IsNew(todo'[1]) /\ 1 \in DOMAIN todo'
      BY <1>3, <1>4, <2>2
    <3>2. CellsRead(todo[1].from)' = {<<todo'[1].from.base, Nil>>}
      <4>1. todo'[1].from.path = <<>>
        BY <3>1, <1>8
      <4>2. Len(todo'[1].from.path) # 2
        BY <4>1
      <4> QED BY <4>1, <4>2 DEF CellsRead, Cell
    <3>3. CASE \E v \in Vars : todo'[1].to.base = v /\ todo'[1].to.path = <<>> /\ Cell(todo[1].to)' = <<v, Nil>>
      <4>1. MoveOK(todo'[1])
        BY <3>1, <1>2 DEF MovesOK, WellFormed
      <4>2. todo'[1].from.base \in Vars => todo'[1].from.base # todo'[1].to.base
        BY <4>1, <3>1, <3>3 DEF MoveOK
      <4> QED BY <4>2, <3>2, <3>3
    <3>4. CASE \E m \in Members : \E x \in Slots(Owner[m]) : Cell(todo[1].to)' = <<m, x>>
      BY <3>2, <3>4, StructTypes
    <3> QED BY <3>1, <3>3, <3>4, <1>10 DEF TargetLaw
  <2>3. phase' \in {"delete", "store"} => Head(todo') = todo'[1]
    BY <1>3, <1>4
  <2> QED BY <2>1, <2>2, <2>3, <1>6 DEF RightSideIsKept
<1>11. \A S \in Structs : stack[S] = <<>>
  BY DEF StacksHaveDrains
<1> QED BY <1>1, <1>2, <1>5, <1>6, <1>7, <1>9, <1>10, <1>11

(* When a move is done the left sides that remain are reachable and nothing *)
(* is lost.                                                                 *)
LEMMA ContinueControl ==
    ASSUME HeapInv, todo # <<>>, todo' = Tail(todo), phase' # "retain", tidy' = tidy,
           \A v \in Vars : env'[v] # env[v] => ~IsNew(todo[1]) /\ todo[1].to = Place(v, <<>>),
           \A t \in Tmp : env'[t] # Nil => todo[1] # Release(t)
    PROVE  TargetsReachable' /\ NothingIsLost'
<1> USE DEF HeapInv
<1>1. /\ \A k \in DOMAIN todo' : k + 1 \in DOMAIN todo /\ todo'[k] = todo[k + 1] /\ k + 1 > 1 /\ 1 < k + 1
      /\ \A k \in DOMAIN todo : k > 1 => k - 1 \in DOMAIN todo' /\ todo'[k - 1] = todo[k]
      /\ DOMAIN todo \subseteq Nat \ {0} /\ DOMAIN todo' \subseteq Nat \ {0} /\ 1 \in DOMAIN todo
  BY HeadIsFirst DEF HeapOK
<1>2. \A v \in Vars : Place(v, <<>>).base = v /\ Place(v, <<>>).path = <<>>
  BY PlaceOf
<1>3. ASSUME NEW k \in DOMAIN todo', todo'[k].to.base \in Vars, todo'[k].to.path # <<>>
      PROVE  env'[todo'[k].to.base] # Nil
  <2>1. env[todo'[k].to.base] # Nil
    BY <1>1, <1>3 DEF TargetsReachable
  <2>2. env'[todo'[k].to.base] = env[todo'[k].to.base]
    <3> SUFFICES ASSUME todo[1].to = Place(todo'[k].to.base, <<>>) PROVE FALSE
      BY <1>3
    <3>1. todo[1].to.base \in Vars /\ todo[1].to.path = <<>>
      BY <1>2, <1>3
    <3> QED BY <3>1, <1>1, <1>3 DEF MovesOK, WellFormed
  <2> QED BY <2>1, <2>2
<1>4. TargetsReachable'
  BY <1>3 DEF TargetsReachable
<1>5. ASSUME tidy, NEW k \in DOMAIN todo'
      PROVE  /\ ~IsNew(todo'[k]) /\ ~todo'[k].delete =>
                 /\ todo'[k].to.path = <<>> /\ env'[todo'[k].to.base] = Nil
                 /\ \A j \in DOMAIN todo' : j < k => todo'[j].to # todo'[k].to
             /\ todo'[k].from.base \in Structs => ~todo'[k].retain
  <2>1. todo'[k].from.base \in Structs => ~todo'[k].retain
    BY <1>1, <1>5 DEF NothingIsLost
  <2>2. ASSUME ~IsNew(todo'[k]), ~todo'[k].delete
        PROVE  /\ todo'[k].to.path = <<>> /\ env'[todo'[k].to.base] = Nil
               /\ \A j \in DOMAIN todo' : j < k => todo'[j].to # todo'[k].to
    <3>0. k + 1 \in DOMAIN todo /\ todo'[k] = todo[k + 1] /\ ~Stored(k + 1)
      BY <1>1 DEF Stored
    <3>1. /\ todo[k + 1].to.path = <<>> /\ env[todo[k + 1].to.base] = Nil
          /\ \A j \in DOMAIN todo : j < k + 1 => todo[j].to # todo[k + 1].to
      BY <1>1, <1>5, <2>2, <3>0 DEF NothingIsLost
    <3>2. todo[k + 1].to.base \in Vars /\ todo[k + 1].to = Place(todo[k + 1].to.base, <<>>)
      <4>1. /\ todo[k + 1].to.path = <<>> /\ \A m : <<>> # <<m>>
        BY <3>1
      <4>2. IsTarget(todo[k + 1].to) /\ todo[k + 1] \in Moves
        BY <3>0, <2>2 DEF MovesOK, WellFormed, MoveOK
      <4>3. todo[k + 1].to.base \in Vars
        BY <4>1, <4>2 DEF IsTarget
      <4>4. todo[k + 1].to \in [base : Vars \cup Structs, path : Seq(Members)]
        BY <4>2 DEF Moves
      <4> QED BY <4>1, <4>3, <4>4 DEF Place
    <3>3. env'[todo[k + 1].to.base] = env[todo[k + 1].to.base]
      <4>1. todo[1].to # todo[k + 1].to
        BY <3>1, <1>1
      <4> QED BY <4>1, <3>2
    <3>4. ASSUME NEW j \in DOMAIN todo', j < k PROVE todo'[j].to # todo'[k].to
      <4>1. j + 1 < k + 1
        BY <3>4, <1>1
      <4> QED BY <4>1, <3>1, <3>0, <1>1
    <3> QED BY <3>0, <3>1, <3>3, <3>4
  <2> QED BY <2>1, <2>2
<1>6. ASSUME NEW t \in Tmp, env'[t] # Nil
      PROVE  \E k \in DOMAIN todo' : todo'[k] = Release(t)
  <2>0. t \in Vars
    BY StructsAssumption
  <2>1. PICK k \in DOMAIN todo : todo[k] = Release(t)
    <3>1. CASE env[t] # Nil
      BY <3>1 DEF NothingIsLost
    <3>2. CASE env[t] = Nil
      <4>1. todo[1].to = Place(t, <<>>)
        BY <3>2, <1>6, <2>0
      <4> QED BY <4>1, <1>1 DEF NothingIsLost
    <3> QED BY <3>1, <3>2
  <2>2. k # 1 /\ k > 1
    BY <2>1, <1>1, <1>6
  <2> QED BY <2>1, <2>2, <1>1
<1>7. ASSUME NEW t \in Tmp, NEW k \in DOMAIN todo', todo'[k].to = Place(t, <<>>)
      PROVE  \E j \in DOMAIN todo' : j >= k /\ todo'[j] = Release(t)
  <2>1. PICK j \in DOMAIN todo : j >= k + 1 /\ todo[j] = Release(t)
    BY <1>1, <1>7 DEF NothingIsLost
  <2>2. j > 1 /\ j - 1 >= k
    BY <2>1, <1>1
  <2> QED BY <2>1, <2>2, <1>1
<1>8. NothingIsLost'
  BY <1>5, <1>6, <1>7 DEF NothingIsLost
<1> QED BY <1>4, <1>8

-----------------------------------------------------------------------------
(* TakeSlot *)

(* The search for a slot finds the least free one. *)
LEMMA SearchFinds ==
    ASSUME HeapOK, FreeSlotsAreFound, calls = <<>>, NEW S \in Structs, HasFreeSlot(S)
    PROVE  /\ Search(S) \in Slots(S) /\ allocation[S][Search(S)] = 0
           /\ \A i \in Slots(S) : allocation[S][i] = 0 => Search(S) <= i
<1> DEFINE free == { i \in Slots(S) : i >= free_idx[S] /\ allocation[S][i] = 0 }
<1>1. MaxStructs[S] \in Nat \ {0} /\ Slots(S) = 0 .. MaxStructs[S] - 1
  BY StructTypes DEF Slots
<1>2. \A i \in Slots(S) : allocation[S][i] = 0 => i >= free_idx[S]
  <2>1. \A i : ~BeingReleased(S, i)
    BY DEF BeingReleased
  <2>2. free_idx[S] \in Int
    BY <1>1 DEF HeapOK
  <2> QED BY <1>1, <2>1, <2>2 DEF FreeSlotsAreFound
<1>3. PICK i \in Slots(S) : allocation[S][i] = 0
  BY DEF HasFreeSlot
<1>4. free # {} /\ free \in SUBSET (0 .. MaxStructs[S] - 1)
  BY <1>1, <1>2, <1>3
<1>5. Search(S) = Least(free)
  BY <1>4 DEF Search
<1>6. MaxStructs[S] - 1 \in Int
  BY <1>1
<1> HIDE DEF free
<1>7. Least(free) \in free /\ \A y \in free : Least(free) <= y
  BY <1>4, <1>6, LeastExists
<1> QED BY <1>2, <1>5, <1>7 DEF free

(* The search for a slot keeps the invariant: it finds the least free one,  *)
(* which nothing refers to and which has no members left.                   *)
LEMMA TakeSlotKeeps == HeapInv /\ TakeSlot => HeapInv'
<1> SUFFICES ASSUME HeapInv, TakeSlot PROVE HeapInv'
  OBVIOUS
<1> USE DEF HeapInv
<1> DEFINE S0 == todo[1].to.base
           j0 == Search(S0)
<1>1. todo # <<>> /\ calls = <<>> /\ IsNew(todo[1]) /\ Head(todo) = todo[1] /\ 1 \in DOMAIN todo
  BY HeadIsFirst DEF TakeSlot, PhaseOK
<1>2. S0 \in Structs
  BY <1>1 DEF MovesOK, WellFormed, MoveOK
<1>3. HasFreeSlot(S0)
  BY <1>1 DEF RoomForNew
<1>4. /\ j0 \in Slots(S0) /\ allocation[S0][j0] = 0
      /\ \A i \in Slots(S0) : allocation[S0][i] = 0 => j0 <= i
  BY <1>1, <1>2, <1>3, SearchFinds
<1>5. /\ free_idx' = [free_idx EXCEPT ![S0] = j0] /\ allocation' = [allocation EXCEPT ![S0][j0] = 1]
      /\ member' = member /\ stack' = stack /\ env' = env /\ expected' = expected /\ calls' = calls
      /\ used' = used /\ tidy' = tidy /\ Continue
  BY <1>1, <1>4 DEF TakeSlot, programVars
<1> HIDE DEF j0
<1>6. /\ free_idx'[S0] = j0 /\ \A S \in Structs : S # S0 => free_idx'[S] = free_idx[S]
      /\ allocation'[S0][j0] = 1 /\ allocation'[S0] \in [Slots(S0) -> Nat]
      /\ \A i \in Slots(S0) : i # j0 => allocation'[S0][i] = allocation[S0][i]
      /\ \A S \in Structs : S # S0 => allocation'[S] = allocation[S]
      /\ allocation' = [S \in Structs |-> allocation'[S]] /\ free_idx' = [S \in Structs |-> free_idx'[S]]
  BY <1>2, <1>4, <1>5 DEF HeapOK
<1> HIDE DEF S0
<1>7. /\ todo' = Tail(todo) /\ todo' \in Seq(Moves) /\ MovesOK' /\ PhaseOK' /\ AtRest'
      /\ phase' # "retain" /\ ActivationsOK' /\ ReleasedOnce' /\ SourceReachable'
      /\ TargetLaw' => RightSideIsKept'
      /\ \A S \in Structs : stack[S] = <<>>
  BY <1>1, <1>5, ContinueKeeps
<1>a. /\ \A k \in DOMAIN todo' : k + 1 \in DOMAIN todo /\ todo'[k] = todo[k + 1] /\ k + 1 # 1
  BY <1>1, <1>7, HeadIsFirst
<1>8. HeapOK'
  <2>1. \A S \in Structs : allocation'[S] \in [Slots(S) -> Nat] /\ free_idx'[S] \in Slots(S)
    BY <1>4, <1>6 DEF HeapOK
  <2> QED BY <2>1, <1>5, <1>6, <1>7 DEF HeapOK
<1>9. TargetsReachable' /\ NothingIsLost'
  <2>1. \A t : todo[1] # Release(t)
    BY <1>1 DEF Release, Move, IsNew
  <2> QED BY <2>1, <1>1, <1>5, <1>7, ContinueControl
<1>10. RoomForNew'
  <2>1. \A k \in DOMAIN todo' : ~IsNew(todo'[k])
    BY <1>1, <1>a DEF MovesOK, WellFormed
  <2> QED BY <2>1 DEF RoomForNew
<1>11. /\ \A S \in Structs : ~Building(S)
       /\ \A S \in Structs : Building(S)' <=> S = S0
  BY <1>1, <1>7, BuildingAfter DEF S0
<1>12. StacksHaveDrains' /\ BuildingIsQuiet'
  BY <1>1, <1>5, <1>7 DEF StacksHaveDrains, BuildingIsQuiet, Quiet
<1>13. \A S, i : ~BeingReleased(S, i) /\ ~BeingReleased(S, i)'
  BY <1>1, <1>5 DEF BeingReleased
<1>14. FreeSlotsAreFound'
  <2> SUFFICES ASSUME NEW S \in Structs, NEW i \in Slots(S), allocation'[S][i] = 0
               PROVE  free_idx'[S] <= i
    BY DEF FreeSlotsAreFound
  <2>1. CASE S = S0
    BY <2>1, <1>4, <1>6
  <2>2. CASE S # S0
    BY <2>2, <1>6, <1>13 DEF FreeSlotsAreFound
  <2> QED BY <2>1, <2>2
<1>15. FreeSlotsAreClean'
  <2> SUFFICES ASSUME NEW m \in Members, NEW i \in Slots(Owner[m]), allocation'[Owner[m]][i] = 0
               PROVE  member[m][i] = Nil
    BY <1>5 DEF FreeSlotsAreClean
  <2>1. Owner[m] \in Structs
    BY StructTypes
  <2>2. allocation[Owner[m]][i] = 0
    BY <2>1, <1>4, <1>6
  <2> QED BY <2>2, <1>13 DEF FreeSlotsAreClean
<1>16. NewMembersAreNil'
  <2> SUFFICES ASSUME NEW k \in DOMAIN todo', todo'[k].to.base = S0
               PROVE  member[todo'[k].to.path[1]][j0] = Nil
    BY <1>5, <1>6, <1>11 DEF NewMembersAreNil
  <2>1. ~IsNew(todo'[k]) /\ IsTarget(todo'[k].to)
    BY <1>1, <1>a DEF MovesOK, WellFormed, MoveOK
  <2>2. PICK m \in Members : todo'[k].to.path = <<m>> /\ Owner[m] = S0
    BY <2>1, <1>2, NamesAssumption DEF IsTarget
  <2>3. todo'[k].to.path[1] = m
    BY <2>2
  <2> QED BY <2>2, <2>3, <1>4, <1>13 DEF FreeSlotsAreClean
<1>17. CountsOK' /\ CountsMatch'
  <2>1. SlackLaw /\ SlackLaw' /\ RestLaw /\ RestLaw'
    BY Laws, LawsNext, Rest, RestNext, <1>7, <1>8, <1>9
  <2> SUFFICES ASSUME NEW S \in Structs, NEW i \in Slots(S)
               PROVE  /\ Slack(S, i) \in Int /\ Slack(S, i)' \in Int
                      /\ Slack(S, i)' >= Slack(S, i)
                      /\ tidy' => Slack(S, i)' = Slack(S, i)
    BY <1>5, CountsStep
  <2>2. CellRefs(S, i) = AllRefs(S, i)
    <3>1. phase = "new"
      BY DEF TakeSlot
    <3>2. Uncounted = {}
      BY <3>1, <1>1, UncountedAre
    <3> QED BY <3>2 DEF CellRefs, AllRefs
  <2>3. AllRefs(S, i)' = AllRefs(S, i)
    BY <1>5 DEF AllRefs, CellValue
  <2>5. /\ Cardinality(CellRefs(S, i)') <= Cardinality(CellRefs(S, i))
        /\ tidy' => Cardinality(CellRefs(S, i)') = Cardinality(CellRefs(S, i))
    BY <2>1, <2>2, <2>3, <1>7 DEF RestLaw
  <2>6. Pending(S, i) = 0 /\ Pending(S, i)' = IF S = S0 /\ i = j0 THEN 1 ELSE 0
    BY <1>6, <1>11 DEF Pending
  <2>7. allocation'[S][i] = IF S = S0 /\ i = j0 THEN allocation[S][i] + 1 ELSE allocation[S][i]
    BY <1>4, <1>6
  <2>8. Occurrences(stack[S], i)' = Occurrences(stack[S], i) /\ HeldBy(S, i)' = HeldBy(S, i)
    BY <1>5 DEF HeldBy
  <2> QED BY <2>1, <2>5, <2>6, <2>7, <2>8 DEF SlackLaw
<1>18. RightSideIsKept'
  BY <1>7, <1>8, <1>9, LawsNext
<1> QED BY <1>7, <1>8, <1>9, <1>10, <1>12, <1>14, <1>15, <1>16, <1>17, <1>18

-----------------------------------------------------------------------------
(* Delete *)

(* Places denote the same as long as free_idx, members and variables are    *)
(* the same.                                                                *)
LEMMA SameValues ==
    ASSUME free_idx' = free_idx, member' = member, env' = env
    PROVE  \A p : /\ BaseValue(p.base)' = BaseValue(p.base) /\ Index(p)' = Index(p) /\ Value(p)' = Value(p)
                  /\ Reachable(p)' <=> Reachable(p)
                  /\ Cell(p)' = Cell(p) /\ CellsRead(p)' = CellsRead(p)
<1>1. \A b : BaseValue(b)' = BaseValue(b)
  BY DEF BaseValue
<1>2. \A m, i : MemberOf(m, i)' = MemberOf(m, i)
  BY DEF MemberOf
<1>3. \A p : Index(p)' = Index(p)
  BY <1>1, <1>2 DEF Index
<1>4. \A p : Value(p)' = Value(p) /\ (Reachable(p)' <=> Reachable(p)) /\ Cell(p)' = Cell(p)
  BY <1>1, <1>2, <1>3 DEF Value, Reachable, Cell
<1> QED BY <1>1, <1>3, <1>4 DEF CellsRead

(* The cell a move writes. *)
LEMMA TargetCell ==
    ASSUME HeapOK, TargetsReachable, MovesOK, NEW k \in DOMAIN todo, ~IsNew(todo[k])
    PROVE  LET to == todo[k].to
           IN  /\ PlaceType(to) \in Structs /\ Value(to) \in Pointers(PlaceType(to))
               /\ Cell(to) \in CellsOf[PlaceType(to)] /\ CellValue(Cell(to)) = Value(to)
               /\ \A S \in Structs : Cell(to) \in CellsOf[S] => S = PlaceType(to)
<1> DEFINE to == todo[k].to
<1>1. CASE \E v \in Vars : Cell(to) = <<v, Nil>> /\ Value(to) = env[v] /\ PlaceType(to) = TypeOf[v]
  <2>1. PICK v \in Vars : Cell(to) = <<v, Nil>> /\ Value(to) = env[v] /\ PlaceType(to) = TypeOf[v]
    BY <1>1
  <2>2. <<v, Nil>> \in Cells
    BY DEF Cells
  <2>3. env[v] \in Pointers(TypeOf[v]) /\ TypeOf[v] \in Structs
    BY StructTypes DEF HeapOK
  <2> QED BY <2>1, <2>2, <2>3 DEF CellsOf, CellValue
<1>2. CASE \E m \in Members : \E x \in Slots(Owner[m]) :
             Cell(to) = <<m, x>> /\ Value(to) = member[m][x] /\ PlaceType(to) = TypeOf[m]
  <2>0. PICK m \in Members : \E x \in Slots(Owner[m]) :
             Cell(to) = <<m, x>> /\ Value(to) = member[m][x] /\ PlaceType(to) = TypeOf[m]
    BY <1>2
  <2>1. PICK x \in Slots(Owner[m]) :
             Cell(to) = <<m, x>> /\ Value(to) = member[m][x] /\ PlaceType(to) = TypeOf[m]
    BY <2>0
  <2>2. <<m, x>> \in {m} \X Slots(Owner[m])
    BY <2>1
  <2>3. <<m, x>> \in Cells
    BY <2>2 DEF Cells
  <2>4. member[m][x] \in Pointers(TypeOf[m]) /\ TypeOf[m] \in Structs /\ m \notin Vars
    BY <2>1, StructTypes, NamesAssumption DEF HeapOK
  <2> QED BY <2>1, <2>3, <2>4 DEF CellsOf, CellValue
<1> QED BY <1>1, <1>2, TargetTyped

-----------------------------------------------------------------------------
(* What a call of __decr__ changes. *)
LEMMA EnteredOK ==
    ASSUME NEW S \in Structs, NEW i \in Pointers(S)
    PROVE  /\ ActivationOK(Activation(S, i)) /\ Activation(S, i) \in Activations
           /\ Activation(S, i).of = S /\ Activation(S, i).self = Nil
           /\ Activation(S, i).current = IF IsLinear(S) THEN i ELSE Nil
<1> DEFINE f == Activation(S, i)
<1>1. /\ f.of = S /\ f.turn = 1 /\ f.self = Nil /\ f.left = {}
      /\ f.current = IF IsLinear(S) THEN i ELSE Nil
  BY DEF Activation
<1>2. Nil \in Pointers(S) /\ Pointers(S) \subseteq Int /\ Nil \in Int
  BY StructTypes DEF Pointers, Nil
<1>3. f \in Activations
  BY <1>2 DEF Activation, Activations
<1>4. 1 \in DOMAIN Turns(S)
  BY TurnsOf
<1>5. Nil \in Pointers(Releasing(f))
  BY DEF Pointers
<1> HIDE DEF f
<1>6. ActivationOK(f)
  BY <1>1, <1>2, <1>3, <1>4, <1>5 DEF ActivationOK
<1> QED BY <1>1, <1>3, <1>6 DEF f

(* A call of __decr__ adds one reference: it is held by the activation of a *)
(* list, or on the stack.                                                   *)
LEMMA EnterRefs ==
    ASSUME HeapOK, ActivationsOK, NEW S0 \in Structs, NEW i0 \in Pointers(S0),
           NEW callers \in Seq(Activations), DOMAIN callers = DOMAIN calls,
           \A k \in DOMAIN calls : callers[k].of = calls[k].of /\ callers[k].current = calls[k].current,
           calls' = Append(callers, Activation(S0, i0)),
           stack' = [S \in Structs |-> stack'[S]],
           \A S \in Structs : stack'[S] = IF S = S0 /\ ~IsLinear(S0) THEN Append(stack[S], i0) ELSE stack[S]
    PROVE  /\ calls' \in Seq(Activations) /\ DOMAIN calls' = DOMAIN calls \cup {Len(calls) + 1}
           /\ Len(calls) + 1 \notin DOMAIN calls
           /\ \A k \in DOMAIN calls : calls'[k] = callers[k]
           /\ calls'[Len(calls) + 1] = Activation(S0, i0)
           /\ stack' = [S \in Structs |-> stack'[S]]
           /\ \A S \in Structs : stack'[S] \in Seq(Pointers(S))
           /\ \A S \in Structs : stack'[S] = stack[S]
                \/ (S = S0 /\ ~IsLinear(S0) /\ stack'[S] = Append(stack[S], i0))
           /\ \A S \in Structs : \A i \in Slots(S) :
                Occurrences(stack[S], i)' + Cardinality(HeldBy(S, i)')
                  = Occurrences(stack[S], i) + Cardinality(HeldBy(S, i)) + (IF S = S0 /\ i = i0 THEN 1 ELSE 0)
<1> DEFINE n == Len(calls) + 1
           f == Activation(S0, i0)
<1>1. f \in Activations /\ f.of = S0 /\ f.current = IF IsLinear(S0) THEN i0 ELSE Nil
  BY EnteredOK
<1>2. calls' = Append(callers, f)
  OBVIOUS
<1>3. calls \in Seq(Activations) /\ Len(callers) = Len(calls) /\ DOMAIN calls = 1 .. Len(calls)
  BY DEF ActivationsOK
<1> HIDE DEF f
<1>4. /\ calls' \in Seq(Activations) /\ DOMAIN calls' = DOMAIN calls \cup {n} /\ n \notin DOMAIN calls
      /\ \A k \in DOMAIN calls : calls'[k] = callers[k]
      /\ calls'[n] = f
  BY <1>1, <1>2, <1>3
<1> HIDE DEF n
<1>5. stack' = [S \in Structs |-> stack'[S]]
      /\ \A S \in Structs : stack'[S] = IF S = S0 /\ ~IsLinear(S0) THEN Append(stack[S], i0) ELSE stack[S]
  OBVIOUS
<1>6. \A S \in Structs : stack'[S] \in Seq(Pointers(S))
  <2> SUFFICES ASSUME NEW S \in Structs PROVE stack'[S] \in Seq(Pointers(S))
    OBVIOUS
  <2>1. stack[S] \in Seq(Pointers(S))
    BY DEF HeapOK
  <2>2. CASE S = S0 /\ ~IsLinear(S0)
    <3>1. stack'[S] = Append(stack[S], i0) /\ i0 \in Pointers(S)
      BY <2>2, <1>5
    <3> QED BY <3>1, <2>1
  <2>3. CASE ~(S = S0 /\ ~IsLinear(S0))
    BY <2>1, <2>3, <1>5
  <2> QED BY <2>2, <2>3
<1>7. ASSUME NEW S \in Structs, NEW i \in Slots(S)
      PROVE  Occurrences(stack[S], i)' + Cardinality(HeldBy(S, i)')
               = Occurrences(stack[S], i) + Cardinality(HeldBy(S, i)) + (IF S = S0 /\ i = i0 THEN 1 ELSE 0)
  <2>1. i # Nil
    BY StructTypes
  <2>2. IsFiniteSet(HeldBy(S, i)) /\ Cardinality(HeldBy(S, i)) \in Nat /\ Occurrences(stack[S], i) \in Nat
    BY SlackParts
  <2>3. Occurrences(stack[S], i)' = Occurrences(stack'[S], i)
    BY DEF Occurrences
  <2>4. HeldBy(S, i)' = { k \in DOMAIN calls' : calls'[k].of = S /\ calls'[k].current = i }
    BY DEF HeldBy
  <2>5. HeldBy(S, i)' = HeldBy(S, i) \cup { k \in {n} : f.of = S /\ f.current = i }
    BY <1>4, <2>4 DEF HeldBy
  <2>6. n \notin HeldBy(S, i)
    BY <1>4 DEF HeldBy
  <2>7. CASE IsLinear(S0)
    <3>1. stack'[S] = stack[S]
      BY <1>5, <2>7
    <3>2. CASE S = S0 /\ i = i0
      <4>1. HeldBy(S, i)' = HeldBy(S, i) \cup {n}
        BY <1>1, <2>5, <2>7, <3>2
      <4>2. Cardinality(HeldBy(S, i)') = Cardinality(HeldBy(S, i)) + 1
        BY <4>1, <2>2, <2>6, FS_AddElement
      <4> QED BY <4>2, <3>1, <2>2, <2>3, <3>2
    <3>3. CASE ~(S = S0 /\ i = i0)
      <4>1. HeldBy(S, i)' = HeldBy(S, i)
        BY <1>1, <2>5, <2>7, <3>3
      <4> QED BY <4>1, <3>1, <2>2, <2>3, <3>3
    <3> QED BY <3>2, <3>3
  <2>8. CASE ~IsLinear(S0)
    <3>1. HeldBy(S, i)' = HeldBy(S, i)
      BY <1>1, <2>1, <2>5, <2>8
    <3>2. CASE S = S0
      <4>1. stack[S] \in Seq(Pointers(S0)) /\ stack'[S] = Append(stack[S], i0)
        BY <1>5, <2>8, <3>2 DEF HeapOK
      <4>2. Occurrences(stack'[S], i) = Occurrences(stack[S], i) + (IF i0 = i THEN 1 ELSE 0)
        BY <4>1, OccurrencesAppend
      <4> QED BY <4>2, <3>1, <2>2, <2>3, <3>2
    <3>3. CASE S # S0
      BY <3>1, <3>3, <1>5, <2>2, <2>3
    <3> QED BY <3>2, <3>3
  <2> QED BY <2>7, <2>8
<1> QED BY <1>4, <1>5, <1>6, <1>7 DEF n, f

(* A move while an object is built fills one of its members, or stores it.  *)
LEMMA HeadWhileBuilding ==
    ASSUME HeapInv, todo # <<>>, NEW S \in Structs, Building(S)
    PROVE  /\ ~IsNew(todo[1])
           /\ todo[1].to.base = S \/ todo[1].from.base = S
           /\ todo[1].to.base = S =>
                \E m \in Members : \E x \in Slots(Owner[m]) :
                  /\ todo[1].to.path = <<m>> /\ Owner[m] = S /\ free_idx[S] = x
                  /\ Index(todo[1].to) = x
                  /\ Cell(todo[1].to) = <<m, x>> /\ Value(todo[1].to) = member[m][x]
                  /\ phase # "retain" => member[m][x] = Nil
<1> USE DEF HeapInv
<1>1. 1 \in DOMAIN todo /\ \A k \in DOMAIN todo : 1 <= k /\ ~IsNew(todo[k])
  BY HeadIsFirst DEF Building, HeapOK
<1>2. UsesNew(todo[1], S)
  <2>1. PICK k \in DOMAIN todo : UsesNew(todo[k], S)
    BY DEF Building
  <2> QED BY <2>1, <1>1 DEF MovesOK, WellFormed
<1>3. ASSUME todo[1].to.base = S
      PROVE  \E m \in Members : \E x \in Slots(Owner[m]) :
                  /\ todo[1].to.path = <<m>> /\ Owner[m] = S /\ free_idx[S] = x
                  /\ Index(todo[1].to) = x
                  /\ Cell(todo[1].to) = <<m, x>> /\ Value(todo[1].to) = member[m][x]
                  /\ phase # "retain" => member[m][x] = Nil
  <2>1. todo[1].to.base \notin Vars
    BY <1>3, NamesAssumption
  <2>2. PICK m \in Members : \E x \in Slots(Owner[m]) :
             /\ todo[1].to.path = <<m>> /\ Index(todo[1].to) = x /\ Cell(todo[1].to) = <<m, x>>
             /\ Value(todo[1].to) = member[m][x]
             /\ todo[1].to.base = Owner[m] /\ free_idx[Owner[m]] = x
    BY <2>1, <1>1, TargetTyped
  <2>3. PICK x \in Slots(Owner[m]) :
             /\ todo[1].to.path = <<m>> /\ Index(todo[1].to) = x /\ Cell(todo[1].to) = <<m, x>>
             /\ Value(todo[1].to) = member[m][x]
             /\ todo[1].to.base = Owner[m] /\ free_idx[Owner[m]] = x
    BY <2>2
  <2>4. todo[1].to.path[1] = m
    BY <2>3
  <2>5. phase # "retain" => member[todo[1].to.path[1]][free_idx[S]] = Nil
    BY <1>1, <1>3 DEF NewMembersAreNil, Stored
  <2> QED BY <2>3, <2>4, <2>5, <1>3
<1> QED BY <1>1, <1>2, <1>3 DEF UsesNew

(* A delete keeps the invariant: the reference of the left side becomes one *)
(* that __decr__ has to give back.                                          *)
LEMMA DeleteKeeps == HeapInv /\ Delete => HeapInv'
<1> SUFFICES ASSUME HeapInv, Delete PROVE HeapInv'
  OBVIOUS
<1> USE DEF HeapInv
<1> DEFINE to == todo[1].to
<1>a. PICK S0 : S0 = PlaceType(to)
  OBVIOUS
<1>b. PICK i0 : i0 = Value(to)
  OBVIOUS
<1>1. /\ phase = "delete" /\ todo # <<>> /\ calls = <<>> /\ Head(todo) = todo[1] /\ 1 \in DOMAIN todo
      /\ ~IsNew(todo[1]) /\ todo[1].delete
  BY HeadIsFirst DEF Delete, PhaseOK
<1>2. /\ Enter(S0, i0, <<>>) /\ phase' = "store" /\ expected' = Value(todo[1].from)
      /\ allocation' = allocation /\ free_idx' = free_idx /\ member' = member /\ env' = env
      /\ todo' = todo /\ used' = used /\ tidy' = tidy
  BY <1>1, <1>a, <1>b DEF Delete, programVars
<1>3. /\ S0 \in Structs /\ i0 \in Pointers(S0) /\ Cell(to) \in CellsOf[S0] /\ CellValue(Cell(to)) = i0
      /\ \A S \in Structs : Cell(to) \in CellsOf[S] => S = S0
  BY <1>1, <1>a, <1>b, TargetCell
<1> HIDE DEF to
<1>4. /\ calls' \in Seq(Activations) /\ DOMAIN calls' = {1} /\ calls'[1] = Activation(S0, i0)
      /\ stack' = [S \in Structs |-> stack'[S]]
      /\ \A S \in Structs : stack'[S] \in Seq(Pointers(S))
      /\ \A S \in Structs : stack'[S] = stack[S]
                \/ (S = S0 /\ ~IsLinear(S0) /\ stack'[S] = Append(stack[S], i0))
      /\ \A S \in Structs : \A i \in Slots(S) :
            Occurrences(stack[S], i)' + Cardinality(HeldBy(S, i)')
              = Occurrences(stack[S], i) + Cardinality(HeldBy(S, i)) + (IF S = S0 /\ i = i0 THEN 1 ELSE 0)
  <2>1. PICK none : none = <<>>
    OBVIOUS
  <2>2. /\ none \in Seq(Activations) /\ DOMAIN none = DOMAIN calls /\ DOMAIN calls = {} /\ Len(calls) = 0
        /\ Enter(S0, i0, none)
    BY <1>1, <1>2, <2>1
  <2>3. \A k \in DOMAIN calls : none[k].of = calls[k].of /\ none[k].current = calls[k].current
    BY <2>2
  <2>4. DOMAIN calls \cup {Len(calls) + 1} = {1} /\ Len(calls) + 1 = 1
    BY <2>2
  <2>5. /\ calls' \in Seq(Activations) /\ DOMAIN calls' = DOMAIN calls \cup {Len(calls) + 1}
        /\ calls'[Len(calls) + 1] = Activation(S0, i0)
        /\ stack' = [S \in Structs |-> stack'[S]]
        /\ \A S \in Structs : stack'[S] \in Seq(Pointers(S))
        /\ \A S \in Structs : stack'[S] = stack[S]
                \/ (S = S0 /\ ~IsLinear(S0) /\ stack'[S] = Append(stack[S], i0))
        /\ \A S \in Structs : \A i \in Slots(S) :
              Occurrences(stack[S], i)' + Cardinality(HeldBy(S, i)')
                = Occurrences(stack[S], i) + Cardinality(HeldBy(S, i)) + (IF S = S0 /\ i = i0 THEN 1 ELSE 0)
    <3>1. HeapOK /\ ActivationsOK /\ S0 \in Structs /\ i0 \in Pointers(S0)
      BY <1>3
    <3>2. /\ calls' = Append(none, Activation(S0, i0))
          /\ stack' = [S \in Structs |-> stack'[S]]
          /\ \A S \in Structs : stack'[S] = IF S = S0 /\ ~IsLinear(S0) THEN Append(stack[S], i0) ELSE stack[S]
      BY <2>2 DEF Enter, Push, HeapOK
    <3> HIDE DEF HeapInv
    <3>3. none \in Seq(Activations) /\ DOMAIN none = DOMAIN calls
      BY <2>2
    <3>4. /\ calls' \in Seq(Activations) /\ DOMAIN calls' = DOMAIN calls \cup {Len(calls) + 1}
          /\ calls'[Len(calls) + 1] = Activation(S0, i0)
      BY <3>3, <2>3, <3>1, <3>2, EnterRefs
    <3>5. /\ \A S \in Structs : stack'[S] \in Seq(Pointers(S))
        /\ \A S \in Structs : stack'[S] = stack[S]
                \/ (S = S0 /\ ~IsLinear(S0) /\ stack'[S] = Append(stack[S], i0))
      BY <3>3, <2>3, <3>1, <3>2, EnterRefs
    <3>6. \A S \in Structs : \A i \in Slots(S) :
              Occurrences(stack[S], i)' + Cardinality(HeldBy(S, i)')
                = Occurrences(stack[S], i) + Cardinality(HeldBy(S, i)) + (IF S = S0 /\ i = i0 THEN 1 ELSE 0)
      BY <3>3, <2>3, <3>1, <3>2, EnterRefs
    <3> QED BY <3>2, <3>4, <3>5, <3>6
  <2> QED BY <2>4, <2>5
<1>5. /\ ActivationOK(calls'[1]) /\ calls'[1].of = S0 /\ calls'[1].self = Nil
      /\ calls'[1].current = IF IsLinear(S0) THEN i0 ELSE Nil
  BY <1>3, <1>4, EnteredOK
<1>6. \A S \in Structs : stack[S] = <<>>
  BY <1>1 DEF StacksHaveDrains
<1>7. \A p : /\ Value(p)' = Value(p) /\ (Reachable(p)' <=> Reachable(p))
             /\ Cell(p)' = Cell(p) /\ CellsRead(p)' = CellsRead(p)
  BY <1>2, SameValues
<1>8. HeapOK'
  BY <1>2, <1>4 DEF HeapOK
<1>9. ActivationsOK' /\ ReleasedOnce'
  BY <1>4, <1>5 DEF ActivationsOK, ReleasedOnce
<1>10. StacksHaveDrains'
  <2> SUFFICES ASSUME NEW S \in Structs, stack'[S] # <<>>
               PROVE  /\ ~IsLinear(calls'[1].of)
                      /\ \E t \in DOMAIN Turns(calls'[1].of) : Turns(calls'[1].of)[t] = S
    BY <1>4 DEF StacksHaveDrains
  <2>1. S = S0 /\ ~IsLinear(S0)
    BY <1>4, <1>6
  <2>2. 1 \in DOMAIN Turns(S0) /\ Turns(S0)[1] = S0
    BY <1>3, TurnsOf
  <2>3. calls'[1].of = S0
    BY <1>5
  <2> QED BY <2>1, <2>2, <2>3
<1>11. MovesOK' /\ PhaseOK' /\ TargetsReachable' /\ RoomForNew' /\ SourceReachable'
  <2>1. MovesOK'
    BY <1>2 DEF MovesOK
  <2>2. PhaseOK'
    BY <1>1, <1>2 DEF PhaseOK
  <2>3. TargetsReachable'
    BY <1>2 DEF TargetsReachable
  <2>4. RoomForNew'
    BY <1>2 DEF RoomForNew, HasFreeSlot
  <2>5. SourceReachable'
    BY <1>1, <1>2, <1>7 DEF SourceReachable
  <2> QED BY <2>1, <2>2, <2>3, <2>4, <2>5
<1>12. \A S : Building(S)' <=> Building(S)
  BY <1>2 DEF Building
<1>13. BuildingIsQuiet'
  <2> SUFFICES ASSUME NEW S \in Structs, Building(S) PROVE Quiet'
    BY <1>12 DEF BuildingIsQuiet
  <2>1. todo[1].from.base \notin Structs
    BY <1>1 DEF MovesOK, WellFormed, MoveOK
  <2>2. i0 = Nil
    BY <2>1, <1>1, <1>b, HeadWhileBuilding DEF to
  <2>3. \A R \in Structs : \A k \in DOMAIN stack'[R] : stack'[R][k] = Nil
    <3> SUFFICES ASSUME NEW R \in Structs, NEW k \in DOMAIN stack'[R] PROVE stack'[R][k] = Nil
      OBVIOUS
    <3>1. stack'[R] = <<>> \/ stack'[R] = Append(<<>>, Nil)
      BY <1>4, <1>6, <2>2
    <3> QED BY <3>1
  <2> QED BY <2>2, <2>3, <1>4, <1>5 DEF Quiet
<1>14. NewMembersAreNil'
  BY <1>1, <1>2, <1>12 DEF NewMembersAreNil, Stored
<1>15. NothingIsLost'
  BY <1>1, <1>2 DEF NothingIsLost, Stored
<1>16. RightSideIsKept'
  <2>1. AssignmentTakesEffect'
    BY <1>2 DEF AssignmentTakesEffect
  <2> QED BY <2>1, <1>1, <1>2, <1>7 DEF RightSideIsKept
<1>17. FreeSlotsAreFound' /\ FreeSlotsAreClean'
  <2>1. \A S, i : ~BeingReleased(S, i)
    BY <1>1 DEF BeingReleased
  <2>2. FreeSlotsAreFound'
    BY <2>1, <1>2 DEF FreeSlotsAreFound
  <2>3. FreeSlotsAreClean'
    BY <2>1, <1>2 DEF FreeSlotsAreClean
  <2> QED BY <2>2, <2>3
<1>18. CountsOK' /\ CountsMatch'
  <2>1. SlackLaw /\ SlackLaw' /\ UncountedLaw'
    BY Laws, LawsNext, <1>8, <1>9
  <2> SUFFICES ASSUME NEW S \in Structs, NEW i \in Slots(S)
               PROVE  /\ Slack(S, i) \in Int /\ Slack(S, i)' \in Int
                      /\ Slack(S, i)' = Slack(S, i)
    BY <1>2, CountsStep
  <2>2. CellRefs(S, i) = AllRefs(S, i)
    <3>1. Uncounted = {}
      BY <1>1, UncountedAre
    <3> QED BY <3>1 DEF CellRefs, AllRefs
  <2>3. Cell(Head(todo).to)' = Cell(to)
    BY <1>1, <1>2, <1>7 DEF to
  <2>4. \A c : c \in Uncounted' <=> c = Cell(to)
    BY <2>1, <2>3, <1>2, <1>4, <1>5 DEF UncountedLaw
  <2>5. CellRefs(S, i)' = AllRefs(S, i) \ {Cell(to)}
    <3>1. CellRefs(S, i)' = { c \in CellsOf[S] : CellValue(c)' = i } \ Uncounted'
      BY DEF CellRefs
    <3>2. \A c : CellValue(c)' = CellValue(c)
      BY <1>2 DEF CellValue
    <3> QED BY <3>1, <3>2, <2>4 DEF AllRefs
  <2>6. Cell(to) \in AllRefs(S, i) <=> S = S0 /\ i = i0
    BY <1>3 DEF AllRefs
  <2>7. IsFiniteSet(AllRefs(S, i)) /\ Cardinality(AllRefs(S, i)) \in Nat
    BY CellsOfFinite DEF AllRefs
  <2>8. Cardinality(CellRefs(S, i)') = Cardinality(CellRefs(S, i)) - (IF S = S0 /\ i = i0 THEN 1 ELSE 0)
    <3>1. CASE S = S0 /\ i = i0
      <4>1. Cell(to) \in AllRefs(S, i)
        BY <2>6, <3>1
      <4>2. Cardinality(AllRefs(S, i) \ {Cell(to)}) = Cardinality(AllRefs(S, i)) - 1
        BY <4>1, <2>7, FS_RemoveElement
      <4> QED BY <2>2, <2>5, <3>1, <4>2
    <3>2. CASE ~(S = S0 /\ i = i0)
      <4>1. CellRefs(S, i)' = CellRefs(S, i)
        BY <2>2, <2>5, <2>6, <3>2
      <4> QED BY <4>1, <3>2, <2>2, <2>7
    <3> QED BY <3>1, <3>2
  <2>9. Pending(S, i)' = Pending(S, i)
    BY <1>2, <1>12 DEF Pending
  <2>10. allocation[S][i]' = allocation[S][i]
    BY <1>2
  <2>11. Occurrences(stack[S], i)' + Cardinality(HeldBy(S, i)')
              = Occurrences(stack[S], i) + Cardinality(HeldBy(S, i)) + (IF S = S0 /\ i = i0 THEN 1 ELSE 0)
    BY <1>4
  <2> QED BY <2>1, <2>8, <2>9, <2>10, <2>11 DEF SlackLaw
<1> QED BY <1>8, <1>9, <1>10, <1>11, <1>13, <1>14, <1>15, <1>16, <1>17, <1>18

-----------------------------------------------------------------------------
(* Store *)

(* What a store changes. *)
LEMMA StoreEffect ==
    ASSUME HeapInv, Store
    PROVE  /\ todo # <<>> /\ ~IsNew(todo[1]) /\ Head(todo) = todo[1] /\ 1 \in DOMAIN todo
           /\ calls = <<>> /\ phase = "store"
           /\ allocation' = allocation /\ free_idx' = free_idx /\ stack' = stack /\ calls' = calls
           /\ used' = used /\ tidy' = tidy
           /\ env' = [v \in Vars |-> env'[v]] /\ member' = [m \in Members |-> member'[m]]
           /\ \A v \in Vars : /\ env'[v] \in Pointers(TypeOf[v])
                              /\ env'[v] = IF <<v, Nil>> = Cell(todo[1].to) THEN Value(todo[1].from) ELSE env[v]
                              /\ env'[v] # env[v] => todo[1].to = Place(v, <<>>)
           /\ \A m \in Members :
                 /\ member'[m] \in [Slots(Owner[m]) -> Pointers(TypeOf[m])]
                 /\ \A x \in Slots(Owner[m]) :
                      member'[m][x] = IF <<m, x>> = Cell(todo[1].to) THEN Value(todo[1].from) ELSE member[m][x]
           /\ todo[1].to.path = <<>> => member' = member
           /\ todo[1].to.path # <<>> => env' = env
<1> USE DEF HeapInv
<1>1. /\ todo # <<>> /\ ~IsNew(todo[1]) /\ Head(todo) = todo[1] /\ 1 \in DOMAIN todo
      /\ calls = <<>> /\ phase = "store"
  BY HeadIsFirst DEF Store, PhaseOK
<1>2. /\ allocation' = allocation /\ free_idx' = free_idx /\ stack' = stack /\ calls' = calls
      /\ used' = used /\ tidy' = tidy
  BY DEF Store, programVars
<1>3. PICK v0 : v0 = Value(todo[1].from)
  OBVIOUS
<1>4. v0 \in Pointers(PlaceType(todo[1].to))
  BY <1>1, <1>3, SourceTyped
<1>5. /\ env = [v \in Vars |-> env[v]] /\ member = [m \in Members |-> member[m]]
      /\ \A v \in Vars : env[v] \in Pointers(TypeOf[v])
      /\ \A m \in Members : member[m] \in [Slots(Owner[m]) -> Pointers(TypeOf[m])]
  BY DEF HeapOK
<1>6. CASE \E v \in Vars : /\ todo[1].to.base = v /\ todo[1].to.path = <<>>
                           /\ Cell(todo[1].to) = <<v, Nil>> /\ PlaceType(todo[1].to) = TypeOf[v]
  <2>1. PICK w \in Vars : /\ todo[1].to.base = w /\ todo[1].to.path = <<>>
                          /\ Cell(todo[1].to) = <<w, Nil>> /\ PlaceType(todo[1].to) = TypeOf[w]
    BY <1>6
  <2>2. env' = [env EXCEPT ![w] = v0] /\ member' = member
    BY <1>1, <1>3, <2>1 DEF Store
  <2>3. todo[1].to = Place(w, <<>>)
    <3>1. todo[1].to \in [base : Vars \cup Structs, path : Seq(Members)]
      <4>1. todo[1] \in Moves
        BY <1>1 DEF HeapOK
      <4> QED BY <4>1 DEF Moves
    <3> QED BY <3>1, <2>1 DEF Place
  <2>4. \A m \in Members : \A x : <<m, x>> # <<w, Nil>>
    BY NamesAssumption
  <2>5. env' = [v \in Vars |-> env'[v]]
        /\ \A v \in Vars : env'[v] = IF v = w THEN v0 ELSE env[v]
    BY <1>5, <2>2
  <2>6. \A v \in Vars : <<v, Nil>> = <<w, Nil>> <=> v = w
    OBVIOUS
  <2>7. \A v \in Vars : /\ env'[v] \in Pointers(TypeOf[v])
                        /\ env'[v] = IF <<v, Nil>> = Cell(todo[1].to) THEN v0 ELSE env[v]
                        /\ env'[v] # env[v] => todo[1].to = Place(v, <<>>)
    BY <1>4, <1>5, <2>1, <2>3, <2>5, <2>6
  <2> QED BY <1>1, <1>2, <1>3, <1>5, <2>1, <2>2, <2>4, <2>5, <2>7
<1>7. CASE \E m \in Members : \E x \in Slots(Owner[m]) :
             /\ todo[1].to.path = <<m>> /\ Index(todo[1].to) = x /\ Cell(todo[1].to) = <<m, x>>
             /\ PlaceType(todo[1].to) = TypeOf[m]
  <2>1. PICK m0 \in Members : \E x \in Slots(Owner[m0]) :
             /\ todo[1].to.path = <<m0>> /\ Index(todo[1].to) = x /\ Cell(todo[1].to) = <<m0, x>>
             /\ PlaceType(todo[1].to) = TypeOf[m0]
    BY <1>7
  <2>2. PICK x0 \in Slots(Owner[m0]) :
             /\ todo[1].to.path = <<m0>> /\ Index(todo[1].to) = x0 /\ Cell(todo[1].to) = <<m0, x0>>
             /\ PlaceType(todo[1].to) = TypeOf[m0]
    BY <2>1
  <2>3. todo[1].to.path # <<>> /\ todo[1].to.path[1] = m0
    BY <2>2
  <2>4. member' = [member EXCEPT ![m0][x0] = v0] /\ env' = env
    BY <1>1, <1>3, <2>2, <2>3 DEF Store
  <2>5. \A v \in Vars : <<v, Nil>> # <<m0, x0>>
    BY NamesAssumption
  <2>6. member' = [m \in Members |-> member'[m]]
        /\ \A m \in Members : member'[m] = IF m = m0 THEN [member[m0] EXCEPT ![x0] = v0] ELSE member[m]
    BY <1>5, <2>4
  <2>7. \A m \in Members : \A x : <<m, x>> = <<m0, x0>> <=> m = m0 /\ x = x0
    OBVIOUS
  <2>8. \A m \in Members :
          /\ member'[m] \in [Slots(Owner[m]) -> Pointers(TypeOf[m])]
          /\ \A x \in Slots(Owner[m]) :
               member'[m][x] = IF <<m, x>> = Cell(todo[1].to) THEN v0 ELSE member[m][x]
    <3> SUFFICES ASSUME NEW m \in Members
                 PROVE  /\ member'[m] \in [Slots(Owner[m]) -> Pointers(TypeOf[m])]
                        /\ \A x \in Slots(Owner[m]) :
                             member'[m][x] = IF <<m, x>> = <<m0, x0>> THEN v0 ELSE member[m][x]
      BY <2>2
    <3>1. member[m] \in [Slots(Owner[m]) -> Pointers(TypeOf[m])]
      BY <1>5
    <3>2. CASE m = m0
      <4>1. member'[m] = [member[m] EXCEPT ![x0] = v0] /\ v0 \in Pointers(TypeOf[m])
        BY <1>4, <2>2, <2>6, <3>2
      <4> QED BY <4>1, <3>1, <2>7, <3>2
    <3>3. CASE m # m0
      BY <3>1, <3>3, <2>6, <2>7
    <3> QED BY <3>2, <3>3
  <2> QED BY <1>1, <1>2, <1>3, <1>5, <2>2, <2>3, <2>4, <2>5, <2>6, <2>8
<1> QED BY <1>1, <1>6, <1>7, TargetTyped

(* The cells after a store. *)
LEMMA StoredCells ==
    ASSUME HeapInv, Store
    PROVE  /\ Cell(todo[1].to) \in CellsOf[PlaceType(todo[1].to)]
           /\ \A S \in Structs : Cell(todo[1].to) \in CellsOf[S] => S = PlaceType(todo[1].to)
           /\ \A S \in Structs : \A i : AllRefs(S, i)' \ {Cell(todo[1].to)} = CellRefs(S, i)
           /\ \A S \in Structs : \A i :
                Cell(todo[1].to) \in AllRefs(S, i)'
                  <=> S = PlaceType(todo[1].to) /\ i = Value(todo[1].from)
<1> USE DEF HeapInv
<1>1. /\ todo # <<>> /\ ~IsNew(todo[1]) /\ Head(todo) = todo[1] /\ 1 \in DOMAIN todo
      /\ calls = <<>> /\ phase = "store"
  BY StoreEffect
<1>2. PICK c0 : c0 = Cell(todo[1].to)
  OBVIOUS
<1>3. PICK v0 : v0 = Value(todo[1].from)
  OBVIOUS
<1>4. /\ c0 \in CellsOf[PlaceType(todo[1].to)] /\ PlaceType(todo[1].to) \in Structs
      /\ \A S \in Structs : c0 \in CellsOf[S] => S = PlaceType(todo[1].to)
  BY <1>1, <1>2, TargetCell
<1>5. \A c \in Cells : CellValue(c)' = IF c = c0 THEN v0 ELSE CellValue(c)
  <2> SUFFICES ASSUME NEW c \in Cells PROVE CellValue(c)' = IF c = c0 THEN v0 ELSE CellValue(c)
    OBVIOUS
  <2>1. CASE \E v \in Vars : c = <<v, Nil>>
    BY <2>1, <1>2, <1>3, StoreEffect DEF CellValue
  <2>2. CASE \E m \in Members : c \in {m} \X Slots(Owner[m])
    <3>1. PICK m \in Members : c \in {m} \X Slots(Owner[m])
      BY <2>2
    <3>2. PICK x \in Slots(Owner[m]) : c = <<m, x>>
      BY <3>1
    <3>3. m \notin Vars
      BY NamesAssumption
    <3>4. CellValue(c) = member[m][x] /\ CellValue(c)' = member'[m][x]
      BY <3>2, <3>3 DEF CellValue
    <3>5. member'[m][x] = IF <<m, x>> = c0 THEN v0 ELSE member[m][x]
      BY <1>2, <1>3, StoreEffect
    <3> QED BY <3>2, <3>4, <3>5
  <2> QED BY <2>1, <2>2 DEF Cells
<1>6. \A S \in Structs : CellsOf[S] \subseteq Cells
  BY DEF CellsOf
<1>7. \A c : c \in Uncounted <=> c = c0
  BY <1>1, <1>2, UncountedAre
<1>8. \A S \in Structs : \A i : AllRefs(S, i)' = { c \in CellsOf[S] : CellValue(c)' = i }
  BY DEF AllRefs
<1>9. \A S \in Structs : \A i : AllRefs(S, i)' \ {c0} = CellRefs(S, i)
  <2> SUFFICES ASSUME NEW S \in Structs, NEW i PROVE AllRefs(S, i)' \ {c0} = CellRefs(S, i)
    OBVIOUS
  <2>1. CellRefs(S, i) = { c \in CellsOf[S] : CellValue(c) = i } \ {c0}
    BY <1>7 DEF CellRefs
  <2> QED BY <2>1, <1>5, <1>6, <1>8
<1>10. \A S \in Structs : \A i : c0 \in AllRefs(S, i)' <=> S = PlaceType(todo[1].to) /\ i = v0
  BY <1>4, <1>5, <1>6, <1>8
<1> QED BY <1>2, <1>3, <1>4, <1>9, <1>10

(* What an assignment reads is alive. *)
LEMMA SourceIsAlive ==
    ASSUME HeapInv, phase \in {"delete", "store"}, todo # <<>>, ~IsNew(todo[1]), 
           NEW m \in Members, NEW x \in Slots(Owner[m]), todo[1].from.base \in Vars,
           env[todo[1].from.base] = x, TypeOf[todo[1].from.base] = Owner[m]
    PROVE  allocation[Owner[m]][x] >= 1
<1> USE DEF HeapInv
<1>1. Head(todo) = todo[1] /\ 1 \in DOMAIN todo
  BY HeadIsFirst
<1>2. x # Nil
  BY StructTypes
<1>3. PICK v \in Vars : v = todo[1].from.base
  OBVIOUS
<1>4. <<v, Nil>> # Cell(todo[1].to)
  <2>1. MoveOK(todo[1])
    BY <1>1 DEF MovesOK, WellFormed
  <2>2. todo[1].to.path = <<>> => v # todo[1].to.base
    BY <2>1, <1>3 DEF MoveOK
  <2>3. CASE \E w \in Vars : todo[1].to.base = w /\ todo[1].to.path = <<>> /\ Cell(todo[1].to) = <<w, Nil>>
    BY <2>2, <2>3
  <2>4. CASE \E n \in Members : \E y \in Slots(Owner[n]) : Cell(todo[1].to) = <<n, y>>
    BY <2>4, NamesAssumption
  <2> QED BY <1>1, <2>3, <2>4, TargetTyped
<1> QED BY <1>1, <1>2, <1>3, <1>4, VariableIsAlive

(* What is assigned from a place that is not overwritten is an object. *)
LEMMA AssignedIsAlive ==
    ASSUME HeapInv, phase = "store", todo # <<>>, ~IsNew(todo[1]),
           Cell(todo[1].to) \notin CellsRead(todo[1].from), Value(todo[1].from) # Nil
    PROVE  /\ Value(todo[1].from) \in Slots(PlaceType(todo[1].to))
           /\ allocation[PlaceType(todo[1].to)][Value(todo[1].from)] >= 1
<1> USE DEF HeapInv
<1> DEFINE from == todo[1].from
           T == PlaceType(todo[1].to)
<1>1. Head(todo) = todo[1] /\ 1 \in DOMAIN todo
  BY HeadIsFirst
<1>2. CASE /\ from.base \in Structs /\ from.base = T /\ Value(from) = free_idx[from.base]
  <2>1. UsesNew(todo[1], T)
    BY <1>2 DEF UsesNew
  <2>2. Building(T)
    BY <1>2, <2>1, BuildingAtHead
  <2>3. free_idx[T] \in Slots(T)
    BY <1>2 DEF HeapOK
  <2> QED BY <1>2, <2>2, <2>3, CountedIsAlive
<1>3. CASE /\ from.base \in Vars /\ TypeOf[from.base] = T /\ Value(from) = env[from.base]
           /\ CellsRead(from) = {<<from.base, Nil>>}
  <2>1. PICK v \in Vars : v = from.base
    BY <1>3
  <2> QED BY <1>1, <1>3, <2>1, VariableIsAlive
<1>4. CASE /\ from.base \in Vars
           /\ \E m \in Members : \E x \in Slots(Owner[m]) :
                /\ env[from.base] = x /\ TypeOf[from.base] = Owner[m] /\ TypeOf[m] = T
                /\ Value(from) = member[m][x] /\ CellsRead(from) = {<<m, x>>}
  <2>1. PICK m \in Members : \E x \in Slots(Owner[m]) :
                /\ env[from.base] = x /\ TypeOf[from.base] = Owner[m] /\ TypeOf[m] = T
                /\ Value(from) = member[m][x] /\ CellsRead(from) = {<<m, x>>}
    BY <1>4
  <2>2. PICK x \in Slots(Owner[m]) :
                /\ env[from.base] = x /\ TypeOf[from.base] = Owner[m] /\ TypeOf[m] = T
                /\ Value(from) = member[m][x] /\ CellsRead(from) = {<<m, x>>}
    BY <2>1
  <2>3. allocation[Owner[m]][x] >= 1
    BY <1>4, <2>2, SourceIsAlive
  <2>4. <<m, x>> # Cell(Head(todo).to)
    BY <2>2, <1>1
  <2> QED BY <2>2, <2>3, <2>4, MemberIsAlive
<1>5. CASE /\ from.base \in Vars
           /\ \E m, n \in Members : \E x \in Slots(Owner[m]) : \E y \in Slots(Owner[n]) :
                /\ env[from.base] = x /\ TypeOf[from.base] = Owner[m]
                /\ TypeOf[m] = Owner[n] /\ member[m][x] = y /\ TypeOf[n] = T
                /\ Value(from) = member[n][y] /\ CellsRead(from) = {<<n, y>>, <<m, x>>}
  <2>1. PICK m \in Members, n \in Members : \E x \in Slots(Owner[m]) : \E y \in Slots(Owner[n]) :
                /\ env[from.base] = x /\ TypeOf[from.base] = Owner[m]
                /\ TypeOf[m] = Owner[n] /\ member[m][x] = y /\ TypeOf[n] = T
                /\ Value(from) = member[n][y] /\ CellsRead(from) = {<<n, y>>, <<m, x>>}
    BY <1>5
  <2>2. PICK x \in Slots(Owner[m]) : \E y \in Slots(Owner[n]) :
                /\ env[from.base] = x /\ TypeOf[from.base] = Owner[m]
                /\ TypeOf[m] = Owner[n] /\ member[m][x] = y /\ TypeOf[n] = T
                /\ Value(from) = member[n][y] /\ CellsRead(from) = {<<n, y>>, <<m, x>>}
    BY <2>1
  <2>3. PICK y \in Slots(Owner[n]) :
                /\ env[from.base] = x /\ TypeOf[from.base] = Owner[m]
                /\ TypeOf[m] = Owner[n] /\ member[m][x] = y /\ TypeOf[n] = T
                /\ Value(from) = member[n][y] /\ CellsRead(from) = {<<n, y>>, <<m, x>>}
    BY <2>2
  <2>4. allocation[Owner[m]][x] >= 1
    BY <1>5, <2>3, SourceIsAlive
  <2>5. <<m, x>> # Cell(Head(todo).to) /\ <<n, y>> # Cell(Head(todo).to)
    BY <2>3, <1>1
  <2>6. member[m][x] # Nil
    BY <2>3, StructTypes
  <2>7. allocation[TypeOf[m]][member[m][x]] >= 1
    BY <2>4, <2>5, <2>6, MemberIsAlive
  <2>8. allocation[Owner[n]][y] >= 1
    BY <2>3, <2>7
  <2> QED BY <2>3, <2>5, <2>8, MemberIsAlive
<1> HIDE DEF from, T
<1>6. \/ Value(from) = Nil
      \/ /\ from.base \in Structs /\ from.base = T /\ Value(from) = free_idx[from.base]
      \/ /\ from.base \in Vars /\ TypeOf[from.base] = T /\ Value(from) = env[from.base]
         /\ CellsRead(from) = {<<from.base, Nil>>}
      \/ /\ from.base \in Vars
         /\ \E m \in Members : \E x \in Slots(Owner[m]) :
                /\ env[from.base] = x /\ TypeOf[from.base] = Owner[m] /\ TypeOf[m] = T
                /\ Value(from) = member[m][x] /\ CellsRead(from) = {<<m, x>>}
      \/ /\ from.base \in Vars
         /\ \E m, n \in Members : \E x \in Slots(Owner[m]) : \E y \in Slots(Owner[n]) :
                /\ env[from.base] = x /\ TypeOf[from.base] = Owner[m]
                /\ TypeOf[m] = Owner[n] /\ member[m][x] = y /\ TypeOf[n] = T
                /\ Value(from) = member[n][y] /\ CellsRead(from) = {<<n, y>>, <<m, x>>}
  <2>1. \/ from = NilPlace /\ Value(from) = Nil /\ CellsRead(from) = {<<None, Nil>>}
        \/ /\ from.base \in Structs /\ from.path = <<>>
           /\ from.base = T
           /\ Value(from) = free_idx[from.base]
           /\ CellsRead(from) = {<<from.base, Nil>>}
        \/ /\ from.base \in Vars /\ from.path = <<>>
           /\ TypeOf[from.base] = T
           /\ Value(from) = env[from.base]
           /\ CellsRead(from) = {<<from.base, Nil>>}
        \/ /\ from.base \in Vars
           /\ \E m \in Members : \E x \in Slots(Owner[m]) :
                /\ from.path = <<m>> /\ env[from.base] = x /\ TypeOf[from.base] = Owner[m]
                /\ TypeOf[m] = T
                /\ Value(from) = member[m][x] /\ CellsRead(from) = {<<m, x>>}
        \/ /\ from.base \in Vars
           /\ \E m, n \in Members :
                \E x \in Slots(Owner[m]) : \E y \in Slots(Owner[n]) :
                /\ from.path = <<m, n>> /\ env[from.base] = x /\ TypeOf[from.base] = Owner[m]
                /\ TypeOf[m] = Owner[n] /\ member[m][x] = y
                /\ TypeOf[n] = T
                /\ Value(from) = member[n][y] /\ CellsRead(from) = {<<n, y>>, <<m, x>>}
    BY SourceTyped DEF from, T
  <2>2. ASSUME from.base \in Vars,
               \E m \in Members : \E x \in Slots(Owner[m]) :
                          /\ from.path = <<m>> /\ env[from.base] = x /\ TypeOf[from.base] = Owner[m]
                          /\ TypeOf[m] = T
                          /\ Value(from) = member[m][x] /\ CellsRead(from) = {<<m, x>>}
        PROVE  \E m \in Members : \E x \in Slots(Owner[m]) :
                /\ env[from.base] = x /\ TypeOf[from.base] = Owner[m] /\ TypeOf[m] = T
                /\ Value(from) = member[m][x] /\ CellsRead(from) = {<<m, x>>}
    BY <2>2, Zenon
  <2>3. ASSUME from.base \in Vars,
               \E m, n \in Members :
                          \E x \in Slots(Owner[m]) : \E y \in Slots(Owner[n]) :
                          /\ from.path = <<m, n>> /\ env[from.base] = x /\ TypeOf[from.base] = Owner[m]
                          /\ TypeOf[m] = Owner[n] /\ member[m][x] = y
                          /\ TypeOf[n] = T
                          /\ Value(from) = member[n][y] /\ CellsRead(from) = {<<n, y>>, <<m, x>>}
        PROVE  \E m, n \in Members : \E x \in Slots(Owner[m]) : \E y \in Slots(Owner[n]) :
                /\ env[from.base] = x /\ TypeOf[from.base] = Owner[m]
                /\ TypeOf[m] = Owner[n] /\ member[m][x] = y /\ TypeOf[n] = T
                /\ Value(from) = member[n][y] /\ CellsRead(from) = {<<n, y>>, <<m, x>>}
    <3>1. PICK m \in Members, n \in Members : \E x \in Slots(Owner[m]) : \E y \in Slots(Owner[n]) :
                /\ env[from.base] = x /\ TypeOf[from.base] = Owner[m]
                /\ TypeOf[m] = Owner[n] /\ member[m][x] = y /\ TypeOf[n] = T
                /\ Value(from) = member[n][y] /\ CellsRead(from) = {<<n, y>>, <<m, x>>}
      BY <2>3
    <3> QED BY <3>1
  <2> QED BY <2>1, <2>2, <2>3, Zenon
<1>7. Value(from) # Nil
  BY DEF from
<1> QED BY <1>2, <1>3, <1>4, <1>5, <1>6, <1>7 DEF from, T

(* What a store leaves right whatever comes next. *)
LEMMA StoreKeepsHeap ==
    ASSUME HeapInv, Store, todo' \in Seq(Moves)
    PROVE  /\ HeapOK' /\ ActivationsOK' /\ ReleasedOnce' /\ StacksHaveDrains'
           /\ FreeSlotsAreFound' /\ FreeSlotsAreClean'
           /\ Quiet' <=> Quiet
<1> USE DEF HeapInv
<1>1. /\ todo # <<>> /\ ~IsNew(todo[1]) /\ Head(todo) = todo[1] /\ 1 \in DOMAIN todo
      /\ calls = <<>> /\ phase = "store"
      /\ allocation' = allocation /\ free_idx' = free_idx /\ stack' = stack /\ calls' = calls
      /\ used' = used /\ tidy' = tidy
      /\ env' = [v \in Vars |-> env'[v]] /\ member' = [m \in Members |-> member'[m]]
      /\ \A v \in Vars : env'[v] \in Pointers(TypeOf[v])
      /\ \A m \in Members : member'[m] \in [Slots(Owner[m]) -> Pointers(TypeOf[m])]
      /\ \A m \in Members : \A x \in Slots(Owner[m]) :
              member'[m][x] = IF <<m, x>> = Cell(todo[1].to) THEN Value(todo[1].from) ELSE member[m][x]
  BY StoreEffect
<1>2. HeapOK'
  BY <1>1 DEF HeapOK
<1>3. ActivationsOK' /\ ReleasedOnce'
  <2>1. ActivationsOK'
    BY <1>1 DEF ActivationsOK
  <2>2. ReleasedOnce'
    BY <1>1 DEF ReleasedOnce
  <2> QED BY <2>1, <2>2
<1>4. StacksHaveDrains' /\ (Quiet' <=> Quiet)
  BY <1>1 DEF StacksHaveDrains, Quiet
<1>5. \A S, i : ~BeingReleased(S, i) /\ ~BeingReleased(S, i)'
  BY <1>1 DEF BeingReleased
<1>6. FreeSlotsAreFound'
  BY <1>1, <1>5 DEF FreeSlotsAreFound
<1>7. FreeSlotsAreClean'
  <2> SUFFICES ASSUME NEW m \in Members, NEW i \in Slots(Owner[m]), allocation[Owner[m]][i] = 0
               PROVE  member'[m][i] = Nil
    BY <1>1 DEF FreeSlotsAreClean
  <2>1. member[m][i] = Nil
    BY <1>5 DEF FreeSlotsAreClean
  <2>2. CASE <<m, i>> = Cell(todo[1].to)
    <3>1. todo[1].to.path = <<m>> /\ Index(todo[1].to) = i
      BY <1>1, <2>2, TargetTyped, NamesAssumption
    <3> QED BY <3>1, <1>1, TargetIsAlive
  <2>3. CASE <<m, i>> # Cell(todo[1].to)
    BY <2>1, <2>3, <1>1
  <2> QED BY <2>2, <2>3
<1> QED BY <1>2, <1>3, <1>4, <1>6, <1>7

(* The target of a store is where it was, and holds what was stored. *)
LEMMA StoredValue ==
    ASSUME HeapInv, Store
    PROVE  todo' = todo => /\ Cell(todo[1].to)' = Cell(todo[1].to)
                           /\ Value(todo[1].to)' = Value(todo[1].from)
<1> USE DEF HeapInv
<1>1. /\ todo # <<>> /\ ~IsNew(todo[1]) /\ 1 \in DOMAIN todo /\ free_idx' = free_idx
      /\ todo[1].to.path = <<>> => member' = member
      /\ todo[1].to.path # <<>> => env' = env
      /\ \A v \in Vars : env'[v] = IF <<v, Nil>> = Cell(todo[1].to) THEN Value(todo[1].from) ELSE env[v]
      /\ \A m \in Members : \A x \in Slots(Owner[m]) :
              member'[m][x] = IF <<m, x>> = Cell(todo[1].to) THEN Value(todo[1].from) ELSE member[m][x]
  BY StoreEffect
<1>2. PICK to : to = todo[1].to
  OBVIOUS
<1>3. Cell(to)' = Cell(to) /\ Value(to)' = Value(todo[1].from)
  <2>1. CASE \E v \in Vars : to.base = v /\ to.path = <<>> /\ Cell(to) = <<v, Nil>>
    <3>1. Cell(to)' = Cell(to)
      BY <2>1 DEF Cell
    <3>a. \A v \in Vars : BaseValue(v)' = env'[v]
      BY NamesAssumption DEF BaseValue
    <3>2. BaseValue(to.base)' = env'[to.base]
      BY <2>1, <3>a
    <3>3. Value(to)' = env'[to.base]
      BY <2>1, <3>2 DEF Value
    <3> QED BY <3>1, <3>3, <2>1, <1>1, <1>2
  <2>2. CASE \E m \in Members : \E x \in Slots(Owner[m]) :
               to.path = <<m>> /\ Index(to) = x /\ Cell(to) = <<m, x>>
    <3>1. PICK m \in Members : \E x \in Slots(Owner[m]) :
               to.path = <<m>> /\ Index(to) = x /\ Cell(to) = <<m, x>>
      BY <2>2
    <3>2. PICK x \in Slots(Owner[m]) : to.path = <<m>> /\ Index(to) = x /\ Cell(to) = <<m, x>>
      BY <3>1
    <3>3. to.path # <<>> /\ Len(to.path) = 1 /\ to.path[1] = m /\ Len(to.path) # 2
      BY <3>2
    <3>4. env' = env
      BY <3>3, <1>1, <1>2
    <3>5. BaseValue(to.base)' = BaseValue(to.base)
      BY <3>4, <1>1 DEF BaseValue
    <3>6. Index(to) = BaseValue(to.base) /\ Index(to)' = BaseValue(to.base)'
      BY <3>3 DEF Index
    <3>7. Index(to)' = x
      BY <3>2, <3>5, <3>6
    <3>8. Cell(to)' = <<m, x>>
      BY <3>3, <3>7 DEF Cell
    <3>9. Value(to)' = MemberOf(m, x)'
      BY <3>3, <3>7 DEF Value, MemberOf
    <3>10. MemberOf(m, x)' = member'[m][x]
      BY DEF MemberOf
    <3> QED BY <3>2, <3>8, <3>9, <3>10, <1>1, <1>2
  <2> QED BY <2>1, <2>2, <1>1, <1>2, TargetTyped
<1>4. todo' = todo => Cell(todo[1].to)' = Cell(to)' /\ Value(todo[1].to)' = Value(to)'
  BY <1>2
<1> QED BY <1>2, <1>3, <1>4

(* A store that an __incr__ follows. *)
LEMMA StoreRetainedKeeps ==
    ASSUME HeapInv, Store, todo[1].retain
    PROVE  HeapInv'
<1> USE DEF HeapInv
<1>1. /\ todo # <<>> /\ ~IsNew(todo[1]) /\ Head(todo) = todo[1] /\ 1 \in DOMAIN todo
      /\ calls = <<>> /\ phase = "store"
      /\ allocation' = allocation /\ free_idx' = free_idx /\ stack' = stack /\ calls' = calls
      /\ used' = used /\ tidy' = tidy
      /\ \A v \in Vars : env'[v] = IF <<v, Nil>> = Cell(todo[1].to) THEN Value(todo[1].from) ELSE env[v]
      /\ \A v \in Vars : env'[v] # env[v] => todo[1].to = Place(v, <<>>)
      /\ \A m \in Members : \A x \in Slots(Owner[m]) :
              member'[m][x] = IF <<m, x>> = Cell(todo[1].to) THEN Value(todo[1].from) ELSE member[m][x]
  BY StoreEffect
<1>2. /\ todo' = todo /\ phase' = "retain"
      /\ expected' = IF todo[1].delete THEN expected ELSE Value(todo[1].from)
  BY <1>1 DEF Store
<1>a. todo \in Seq(Moves) /\ DOMAIN todo \subseteq Nat \ {0}
  BY HeadIsFirst, <1>1 DEF HeapOK
<1>3. /\ HeapOK' /\ ActivationsOK' /\ ReleasedOnce' /\ StacksHaveDrains'
      /\ FreeSlotsAreFound' /\ FreeSlotsAreClean'
      /\ Quiet' <=> Quiet
  BY <1>2, <1>a, StoreKeepsHeap
<1>4. Cell(todo[1].to)' = Cell(todo[1].to) /\ Value(todo[1].to)' = Value(todo[1].from)
  BY <1>2, StoredValue
<1>5. \A S : Building(S)' <=> Building(S)
  BY <1>2 DEF Building
<1>6. MovesOK' /\ PhaseOK' /\ RoomForNew' /\ SourceReachable' /\ BuildingIsQuiet'
  <2>1. MovesOK' 
    BY <1>2 DEF MovesOK
  <2>2. PhaseOK'
    BY <1>1, <1>2 DEF PhaseOK
  <2>3. RoomForNew' /\ SourceReachable'
    BY <1>1, <1>2 DEF RoomForNew, SourceReachable, HasFreeSlot
  <2>4. BuildingIsQuiet'
    BY <1>3, <1>5 DEF BuildingIsQuiet
  <2> QED BY <2>1, <2>2, <2>3, <2>4
<1>7. \A v \in Vars : todo[1].to = Place(v, <<>>) => todo[1].to.base = v /\ todo[1].to.path = <<>>
  BY PlaceOf
<1>8. TargetsReachable'
  <2> SUFFICES ASSUME NEW k \in DOMAIN todo, todo[k].to.base \in Vars, todo[k].to.path # <<>>
               PROVE  env'[todo[k].to.base] # Nil
    BY <1>2 DEF TargetsReachable
  <2>1. env[todo[k].to.base] # Nil
    BY DEF TargetsReachable
  <2>2. todo[1].to # Place(todo[k].to.base, <<>>)
    BY <1>1, <1>7 DEF MovesOK, WellFormed
  <2> QED BY <2>1, <2>2, <1>1
<1>9. NewMembersAreNil'
  <2> SUFFICES ASSUME NEW S \in Structs, Building(S), NEW k \in DOMAIN todo,
                      todo[k].to.base = S, k # 1
               PROVE  member'[todo[k].to.path[1]][free_idx[S]] = Nil
    BY <1>1, <1>2, <1>5 DEF NewMembersAreNil, Stored
  <2>1. member[todo[k].to.path[1]][free_idx[S]] = Nil
    BY <1>1 DEF NewMembersAreNil, Stored
  <2>2. /\ ~IsNew(todo[k]) /\ IsTarget(todo[k].to) /\ S \notin Vars
        /\ todo[k] \in Moves /\ todo[1] \in Moves
    BY <1>1, <1>a, NamesAssumption DEF Building, MovesOK, WellFormed, MoveOK
  <2>3. PICK n \in Members : todo[k].to.path = <<n>> /\ Owner[n] = S
    BY <2>2 DEF IsTarget
  <2>4. todo[k].to.path[1] = n
    BY <2>3
  <2>5. free_idx[S] \in Slots(Owner[n])
    BY <2>3 DEF HeapOK
  <2>6. UsesNew(todo[1], S)
    <3>1. 1 <= k /\ UsesNew(todo[k], S)
      BY <1>a DEF UsesNew
    <3>2. \A l \in DOMAIN todo : ~IsNew(todo[l])
      BY DEF Building
    <3> QED BY <3>1, <3>2, <1>1 DEF MovesOK, WellFormed
  <2>7. todo[1].to.base = S
    <3>1. todo[1].from.base # S
      <4>1. UsesNew(todo[k], S)
        BY DEF UsesNew
      <4>2. todo[1].from.base = S => k <= 1
        BY <4>1, <1>1 DEF MovesOK, WellFormed
      <4> QED BY <4>2, <1>a
    <3> QED BY <3>1, <2>6 DEF UsesNew
  <2>8. todo[1].to # todo[k].to
    BY <2>7, <1>1 DEF MovesOK, WellFormed
  <2>9. <<n, free_idx[S]>> # Cell(todo[1].to)
    <3> SUFFICES ASSUME <<n, free_idx[S]>> = Cell(todo[1].to) PROVE FALSE
      OBVIOUS
    <3>1. todo[1].to.path = <<n>>
      BY <1>1, TargetTyped, NamesAssumption
    <3>2. /\ todo[1].to \in [base : Vars \cup Structs, path : Seq(Members)]
          /\ todo[k].to \in [base : Vars \cup Structs, path : Seq(Members)]
      BY <2>2 DEF Moves
    <3> QED BY <3>1, <3>2, <2>3, <2>7, <2>8
  <2> QED BY <2>1, <2>4, <2>5, <2>9, <1>1
<1>10. NothingIsLost'
  <2>1. ASSUME tidy, NEW k \in DOMAIN todo
        PROVE  /\ ~IsNew(todo[k]) /\ ~todo[k].delete /\ k # 1 =>
                    /\ todo[k].to.path = <<>> /\ env'[todo[k].to.base] = Nil
                    /\ \A j \in DOMAIN todo : j < k => todo[j].to # todo[k].to
               /\ todo[k].from.base \in Structs => ~todo[k].retain
    <3>1. todo[k].from.base \in Structs => ~todo[k].retain
      BY <2>1 DEF NothingIsLost
    <3>2. ASSUME ~IsNew(todo[k]), ~todo[k].delete, k # 1
          PROVE  /\ todo[k].to.path = <<>> /\ env'[todo[k].to.base] = Nil
                 /\ \A j \in DOMAIN todo : j < k => todo[j].to # todo[k].to
      <4>1. /\ todo[k].to.path = <<>> /\ env[todo[k].to.base] = Nil
            /\ \A j \in DOMAIN todo : j < k => todo[j].to # todo[k].to
        BY <2>1, <3>2, <1>1 DEF NothingIsLost, Stored
      <4>2. 1 < k
        BY <3>2, <1>a
      <4>3. todo[1].to # todo[k].to
        BY <4>1, <4>2, <1>1
      <4>4. IsTarget(todo[k].to) /\ todo[k] \in Moves
        BY <3>2 DEF MovesOK, WellFormed, MoveOK
      <4>5. \A m : <<>> # <<m>>
        OBVIOUS
      <4>6. todo[k].to.base \in Vars
        BY <4>1, <4>4, <4>5 DEF IsTarget
      <4>7. todo[k].to = Place(todo[k].to.base, <<>>)
        <5>1. todo[k].to \in [base : Vars \cup Structs, path : Seq(Members)]
          BY <4>4 DEF Moves
        <5> QED BY <5>1, <4>1 DEF Place
      <4> QED BY <4>1, <4>3, <4>6, <4>7, <1>1
    <3> QED BY <3>1, <3>2
  <2>2. ASSUME NEW t \in Tmp
        PROVE  /\ env'[t] # Nil => \E k \in DOMAIN todo : todo[k] = Release(t)
               /\ \A k \in DOMAIN todo : todo[k].to = Place(t, <<>>) =>
                    \E j \in DOMAIN todo : j >= k /\ todo[j] = Release(t)
    <3>1. t \in Vars
      BY StructsAssumption
    <3>2. CASE env'[t] = env[t]
      BY <3>2 DEF NothingIsLost
    <3>3. CASE env'[t] # env[t]
      <4>1. todo[1].to = Place(t, <<>>)
        BY <3>1, <3>3, <1>1
      <4> QED BY <4>1, <1>1 DEF NothingIsLost
    <3> QED BY <3>2, <3>3
  <2>3. ~ \E k : k # 1 /\ Stored(k)
    BY DEF Stored
  <2> QED BY <2>1, <2>2, <1>1, <1>2 DEF NothingIsLost, Stored
<1>11. RightSideIsKept'
  <2> SUFFICES ASSUME ~Overlaps PROVE AssignmentTakesEffect'
    BY <1>2 DEF RightSideIsKept
  <2>1. Cell(todo[1].to) \notin CellsRead(todo[1].from)
    BY <1>1 DEF RightSideIsKept
  <2>2. expected' = Value(todo[1].from)
    BY <1>1, <1>2 DEF RightSideIsKept
  <2>3. PICK v0 : v0 = Value(todo[1].from)
    OBVIOUS
  <2>4. PICK T : T = PlaceType(todo[1].to)
    OBVIOUS
  <2>5. v0 # Nil => v0 \in Slots(T) /\ allocation[T][v0] >= 1
    BY <1>1, <2>1, <2>3, <2>4, AssignedIsAlive
  <2>6. allocation[T] \in [Slots(T) -> Nat]
    BY <1>1, <2>4, TargetCell DEF HeapOK
  <2>7. v0 # Nil => Count(T, v0)' > 0
    BY <2>5, <2>6, <1>1 DEF Count
  <2>8. PICK to : to = todo[1].to
    OBVIOUS
  <2>9. Head(todo).to = to /\ Head(todo').to = to /\ T = PlaceType(to)
    BY <1>1, <1>2, <2>4, <2>8
  <2>10. Value(Head(todo).to)' = Value(todo[1].to)'
    BY <1>1, <1>2
  <2>11. Value(Head(todo).to)' = v0 /\ expected' = v0
    BY <1>4, <2>2, <2>3, <2>10
  <2>12. PlaceType(Head(todo).to)' = T
    BY <2>9 DEF PlaceType
  <2>13. expected' # Nil => Count(PlaceType(Head(todo).to), expected)' > 0
    BY <2>7, <2>11, <2>12 DEF Count
  <2> QED BY <2>11, <2>13 DEF AssignmentTakesEffect
<1>12. CountsOK' /\ CountsMatch'
  <2>1. SlackLaw /\ SlackLaw' /\ UncountedLaw'
    BY Laws, LawsNext, <1>3
  <2> SUFFICES ASSUME NEW S \in Structs, NEW i \in Slots(S)
               PROVE  /\ Slack(S, i) \in Int /\ Slack(S, i)' \in Int
                      /\ Slack(S, i)' = Slack(S, i)
    BY <1>1, CountsStep
  <2>2. \A c : c \in Uncounted' <=> c = Cell(todo[1].to)
    BY <2>1, <1>1, <1>2, <1>4 DEF UncountedLaw
  <2>3. CellRefs(S, i)' = AllRefs(S, i)' \ Uncounted'
    BY DEF CellRefs, AllRefs
  <2>4. CellRefs(S, i)' = AllRefs(S, i)' \ {Cell(todo[1].to)}
    BY <2>2, <2>3
  <2>5. CellRefs(S, i)' = CellRefs(S, i)
    BY <2>4, StoredCells
  <2>6. Pending(S, i)' = Pending(S, i)
    BY <1>1, <1>5 DEF Pending
  <2>7. /\ Occurrences(stack[S], i)' = Occurrences(stack[S], i) /\ HeldBy(S, i)' = HeldBy(S, i)
        /\ allocation[S][i]' = allocation[S][i]
    BY <1>1 DEF HeldBy
  <2> QED BY <2>1, <2>5, <2>6, <2>7 DEF SlackLaw
<1> QED BY <1>3, <1>6, <1>8, <1>9, <1>10, <1>11, <1>12

(* A store that ends its move: of nil, or of a new object. *)
LEMMA StoreLastKeeps ==
    ASSUME HeapInv, Store, ~todo[1].retain
    PROVE  HeapInv'
<1> USE DEF HeapInv
<1>1. /\ todo # <<>> /\ ~IsNew(todo[1]) /\ Head(todo) = todo[1] /\ 1 \in DOMAIN todo
      /\ calls = <<>> /\ phase = "store"
      /\ allocation' = allocation /\ free_idx' = free_idx /\ stack' = stack /\ calls' = calls
      /\ used' = used /\ tidy' = tidy
      /\ \A v \in Vars : env'[v] = IF <<v, Nil>> = Cell(todo[1].to) THEN Value(todo[1].from) ELSE env[v]
      /\ \A v \in Vars : env'[v] # env[v] => todo[1].to = Place(v, <<>>)
      /\ \A m \in Members : \A x \in Slots(Owner[m]) :
              member'[m][x] = IF <<m, x>> = Cell(todo[1].to) THEN Value(todo[1].from) ELSE member[m][x]
  BY StoreEffect
<1>2. Continue /\ todo' = Tail(todo)
  BY <1>1 DEF Store, Continue
<1>3. /\ todo' \in Seq(Moves) /\ MovesOK' /\ PhaseOK' /\ AtRest'
      /\ phase' # "retain" /\ ActivationsOK' /\ ReleasedOnce' /\ SourceReachable'
      /\ TargetLaw' => RightSideIsKept'
  BY <1>1, <1>2, ContinueKeeps
<1>4. /\ HeapOK' /\ StacksHaveDrains' /\ FreeSlotsAreFound' /\ FreeSlotsAreClean'
      /\ Quiet' <=> Quiet
  BY <1>3, StoreKeepsHeap
<1>5. /\ \A k \in DOMAIN todo' : k + 1 \in DOMAIN todo /\ todo'[k] = todo[k + 1]
  BY <1>1, <1>2, HeadIsFirst
<1>6. \/ todo[1].from = NilPlace /\ Value(todo[1].from) = Nil /\ todo[1].from.base \notin Structs
      \/ /\ todo[1].from.base \in Structs /\ todo[1].to.path = <<>>
         /\ todo[1].from.base = PlaceType(todo[1].to) 
         /\ Value(todo[1].from) = free_idx[todo[1].from.base]
  <2>1. MoveOK(todo[1])
    BY <1>1 DEF MovesOK, WellFormed
  <2>2. todo[1].from = NilPlace \/ (todo[1].from.base \in Structs /\ todo[1].to.path = <<>>)
    BY <2>1, <1>1 DEF MoveOK
  <2>3. CASE todo[1].from = NilPlace
    BY <2>3, <1>1, SourceTyped, NilPlaceIs, NamesAssumption
  <2>4. CASE todo[1].from.base \in Structs /\ todo[1].to.path = <<>>
    <3>1. todo[1].from.base \notin Vars /\ todo[1].from # NilPlace
      BY <2>4, NilPlaceIs, NamesAssumption
    <3> QED BY <2>4, <3>1, <1>1, SourceTyped
  <2> QED BY <2>2, <2>3, <2>4
<1>7. TargetsReachable' /\ NothingIsLost'
  <2>1. ASSUME NEW t \in Tmp, env'[t] # Nil PROVE todo[1] # Release(t)
    <3> SUFFICES ASSUME todo[1] = Release(t) PROVE FALSE
      OBVIOUS
    <3>1. todo[1].to = Place(t, <<>>) /\ todo[1].from = NilPlace
      BY DEF Release, Move
    <3>2. t \in Vars /\ Place(t, <<>>).base = t /\ Place(t, <<>>).path = <<>>
      BY StructsAssumption, PlaceOf
    <3>3. Cell(todo[1].to) = <<t, Nil>>
      BY <3>1, <3>2 DEF Cell
    <3>4. Value(todo[1].from) = Nil
      BY <1>6, <3>1, NilPlaceIs, NamesAssumption
    <3> QED BY <3>2, <3>3, <3>4, <2>1, <1>1
  <2> QED BY <2>1, <1>1, <1>2, <1>3, ContinueControl
<1>8. RoomForNew'
  BY <1>1, <1>5 DEF RoomForNew, HasFreeSlot
<1>9. /\ todo[1].from.base \notin Structs => \A S \in Structs : Building(S)' <=> Building(S)
      /\ todo[1].from.base \in Structs => /\ \A S \in Structs : ~Building(S)'
                                          /\ \A S \in Structs : Building(S) <=> S = todo[1].from.base
  BY <1>1, <1>2, BuildingAfter
<1>10. BuildingIsQuiet'
  BY <1>4, <1>9 DEF BuildingIsQuiet
<1>11. NewMembersAreNil'
  <2> SUFFICES ASSUME NEW S \in Structs, Building(S)', NEW k \in DOMAIN todo', todo'[k].to.base = S
               PROVE  member'[todo'[k].to.path[1]][free_idx[S]] = Nil
    BY <1>1 DEF NewMembersAreNil
  <2>1. Building(S) /\ Value(todo[1].from) = Nil
    BY <1>6, <1>9
  <2>2. ~Stored(k + 1) /\ k + 1 \in DOMAIN todo /\ todo'[k] = todo[k + 1]
    BY <1>1, <1>5 DEF Stored
  <2>3. member[todo'[k].to.path[1]][free_idx[S]] = Nil
    BY <2>1, <2>2 DEF NewMembersAreNil
  <2>4. ~IsNew(todo'[k]) /\ IsTarget(todo'[k].to)
    BY <2>1, <2>2 DEF Building, MovesOK, WellFormed, MoveOK
  <2>5. PICK n \in Members : todo'[k].to.path = <<n>> /\ Owner[n] = S
    BY <2>4, NamesAssumption DEF IsTarget
  <2>6. todo'[k].to.path[1] = n /\ free_idx[S] \in Slots(Owner[n])
    BY <2>5 DEF HeapOK
  <2> QED BY <2>1, <2>3, <2>5, <2>6, <1>1
<1>12. CountsOK' /\ CountsMatch'
  <2>1. SlackLaw /\ SlackLaw' /\ RestLaw'
    BY Laws, LawsNext, RestNext, <1>3, <1>4, <1>7
  <2> SUFFICES ASSUME NEW S \in Structs, NEW i \in Slots(S)
               PROVE  /\ Slack(S, i) \in Int /\ Slack(S, i)' \in Int
                      /\ Slack(S, i)' >= Slack(S, i)
                      /\ tidy' => Slack(S, i)' = Slack(S, i)
    BY <1>1, CountsStep
  <2>2. /\ Occurrences(stack[S], i)' = Occurrences(stack[S], i) /\ HeldBy(S, i)' = HeldBy(S, i)
        /\ allocation[S][i]' = allocation[S][i]
    BY <1>1 DEF HeldBy
  <2>3. PICK R : R = (IF S = PlaceType(todo[1].to) /\ i = Value(todo[1].from) THEN 1 ELSE 0)
    OBVIOUS
  <2>4. Cardinality(AllRefs(S, i)') = Cardinality(CellRefs(S, i)) + R
    <3>1. AllRefs(S, i)' \ {Cell(todo[1].to)} = CellRefs(S, i)
      BY StoredCells
    <3>2. Cell(todo[1].to) \in AllRefs(S, i)' <=> R = 1
      BY <2>3, StoredCells
    <3>3. IsFiniteSet(AllRefs(S, i)') /\ Cardinality(AllRefs(S, i)') \in Nat
      BY <2>1 DEF RestLaw
    <3>4. CASE R = 1
      <4>1. Cardinality(AllRefs(S, i)' \ {Cell(todo[1].to)}) = Cardinality(AllRefs(S, i)') - 1
        BY <3>2, <3>3, <3>4, FS_RemoveElement
      <4> QED BY <4>1, <3>1, <3>3, <3>4
    <3>5. CASE R = 0
      <4>1. AllRefs(S, i)' = CellRefs(S, i)
        BY <3>1, <3>2, <3>5
      <4> QED BY <4>1, <3>3, <3>5
    <3> QED BY <2>3, <3>4, <3>5
  <2>5. /\ Cardinality(CellRefs(S, i)') <= Cardinality(CellRefs(S, i)) + R
        /\ tidy' => Cardinality(CellRefs(S, i)') = Cardinality(CellRefs(S, i)) + R
    BY <2>1, <2>4, <1>3 DEF RestLaw
  <2>6. Pending(S, i)' = Pending(S, i) - R
    <3>1. CASE todo[1].from.base \in Structs
      BY <3>1, <2>3, <1>1, <1>6, <1>9, NilPlaceIs, NamesAssumption DEF Pending
    <3>2. CASE todo[1].from.base \notin Structs
      <4>1. R = 0
        BY <2>3, <3>2, <1>6, StructTypes
      <4>2. Pending(S, i)' = Pending(S, i) /\ Pending(S, i) \in Int
        BY <3>2, <1>1, <1>9 DEF Pending
      <4> QED BY <4>1, <4>2
    <3> QED BY <3>1, <3>2
  <2>7. R \in Int
    BY <2>3
  <2> QED BY <2>1, <2>2, <2>5, <2>6, <2>7 DEF SlackLaw
<1>13. RightSideIsKept'
  BY <1>3, <1>4, <1>7, LawsNext
<1> QED BY <1>3, <1>4, <1>7, <1>8, <1>10, <1>11, <1>12, <1>13

(* A store keeps the invariant: what the left side held has been given      *)
(* back, and what it holds now is alive.                                    *)
LEMMA StoreKeeps == HeapInv /\ Store => HeapInv'
<1> SUFFICES ASSUME HeapInv, Store PROVE HeapInv'
  OBVIOUS
<1>1. todo[1].retain \in BOOLEAN
  <2>1. todo \in Seq(Moves) /\ 1 \in DOMAIN todo
    BY StoreEffect DEF HeapInv, HeapOK
  <2>2. todo[1] \in Moves
    BY <2>1
  <2> QED BY <2>2 DEF Moves
<1> QED BY <1>1, StoreRetainedKeeps, StoreLastKeeps

-----------------------------------------------------------------------------
(* Retain *)

(* A retain keeps the invariant: the count grows by the reference that the  *)
(* store has made.                                                          *)
LEMMA RetainKeeps == HeapInv /\ Retain => HeapInv'
<1> SUFFICES ASSUME HeapInv, Retain PROVE HeapInv'
  OBVIOUS
<1> USE DEF HeapInv
<1>a. PICK T : T = PlaceType(todo[1].to)
  OBVIOUS
<1>b. PICK i0 : i0 = Value(todo[1].to)
  OBVIOUS
<1>1. /\ phase = "retain" /\ todo # <<>> /\ calls = <<>> /\ Head(todo) = todo[1] /\ 1 \in DOMAIN todo
      /\ ~IsNew(todo[1]) /\ todo[1].retain
  BY HeadIsFirst DEF Retain, PhaseOK
<1>2. /\ free_idx' = free_idx /\ member' = member /\ stack' = stack /\ env' = env /\ calls' = calls
      /\ used' = used /\ tidy' = tidy /\ Continue
      /\ allocation' = IF i0 = Nil THEN allocation ELSE [allocation EXCEPT ![T][i0] = @ + 1]
  BY <1>1, <1>a, <1>b DEF Retain, programVars
<1>3. /\ T \in Structs /\ i0 \in Pointers(T) /\ Cell(todo[1].to) \in CellsOf[T]
      /\ CellValue(Cell(todo[1].to)) = i0
      /\ \A S \in Structs : Cell(todo[1].to) \in CellsOf[S] => S = T
  BY <1>1, <1>a, <1>b, TargetCell
<1>4. /\ allocation' = [S \in Structs |-> allocation'[S]]
      /\ \A S \in Structs : allocation'[S] \in [Slots(S) -> Nat]
      /\ \A S \in Structs : \A i \in Slots(S) :
            allocation'[S][i] = allocation[S][i] + (IF S = T /\ i = i0 THEN 1 ELSE 0)
  <2>1. /\ allocation = [S \in Structs |-> allocation[S]]
        /\ \A S \in Structs : allocation[S] \in [Slots(S) -> Nat]
    BY DEF HeapOK
  <2>2. CASE i0 = Nil
    BY <1>2, <2>1, <2>2, StructTypes
  <2>3. CASE i0 # Nil
    <3>1. i0 \in Slots(T)
      BY <2>3, <1>3 DEF Pointers
    <3>2. /\ allocation' = [S \in Structs |-> allocation'[S]]
          /\ \A S \in Structs : allocation'[S] = IF S = T THEN [allocation[T] EXCEPT ![i0] = allocation[T][i0] + 1]
                                                       ELSE allocation[S]
      BY <1>2, <2>1, <2>3
    <3> QED BY <2>1, <3>1, <3>2, <1>3
  <2> QED BY <2>2, <2>3
<1>5. /\ todo' = Tail(todo) /\ todo' \in Seq(Moves) /\ MovesOK' /\ PhaseOK' /\ AtRest'
      /\ phase' # "retain" /\ ActivationsOK' /\ ReleasedOnce' /\ SourceReachable'
      /\ TargetLaw' => RightSideIsKept'
      /\ \A S \in Structs : stack[S] = <<>>
  BY <1>1, <1>2, ContinueKeeps
<1>6. /\ \A k \in DOMAIN todo' : k + 1 \in DOMAIN todo /\ todo'[k] = todo[k + 1] /\ 1 < k + 1 /\ k + 1 # 1
  BY <1>1, <1>5, HeadIsFirst
<1>7. HeapOK'
  BY <1>2, <1>4, <1>5 DEF HeapOK
<1>8. TargetsReachable' /\ NothingIsLost'
  <2>1. \A t : todo[1] # Release(t)
    BY <1>1 DEF Release, Move
  <2> QED BY <2>1, <1>1, <1>2, <1>5, ContinueControl
<1>9. RoomForNew'
  <2>1. \A k \in DOMAIN todo' : ~IsNew(todo'[k])
    BY <1>1, <1>6 DEF MovesOK, WellFormed
  <2> QED BY <2>1 DEF RoomForNew
<1>10. /\ todo[1].from.base \notin Structs => \A S \in Structs : Building(S)' <=> Building(S)
       /\ todo[1].from.base \in Structs => /\ \A S \in Structs : ~Building(S)'
                                           /\ \A S \in Structs : Building(S) <=> S = todo[1].from.base
  BY <1>1, <1>5, BuildingAfter
<1>11. StacksHaveDrains' /\ BuildingIsQuiet'
  BY <1>1, <1>2, <1>5, <1>10 DEF StacksHaveDrains, BuildingIsQuiet, Quiet
<1>12. NewMembersAreNil'
  <2> SUFFICES ASSUME NEW S \in Structs, Building(S)', NEW k \in DOMAIN todo', todo'[k].to.base = S
               PROVE  member[todo'[k].to.path[1]][free_idx[S]] = Nil
    BY <1>2 DEF NewMembersAreNil
  <2>1. Building(S)
    BY <1>10
  <2>2. ~Stored(k + 1) /\ k + 1 \in DOMAIN todo /\ todo'[k] = todo[k + 1]
    BY <1>6 DEF Stored
  <2> QED BY <2>1, <2>2 DEF NewMembersAreNil
<1>13. FreeSlotsAreFound' /\ FreeSlotsAreClean'
  <2>1. \A S, i : ~BeingReleased(S, i) /\ ~BeingReleased(S, i)'
    BY <1>1, <1>2 DEF BeingReleased
  <2>2. \A S \in Structs : \A i \in Slots(S) : allocation'[S][i] = 0 => allocation[S][i] = 0
    <3> SUFFICES ASSUME NEW S \in Structs, NEW i \in Slots(S), allocation'[S][i] = 0
                 PROVE  allocation[S][i] = 0
      OBVIOUS
    <3>1. allocation[S][i] \in Nat
      BY DEF HeapOK
    <3>2. allocation'[S][i] = allocation[S][i] \/ allocation'[S][i] = allocation[S][i] + 1
      BY <1>4, <3>1
    <3> QED BY <3>1, <3>2
  <2>3. FreeSlotsAreFound'
    BY <2>1, <2>2, <1>2 DEF FreeSlotsAreFound
  <2>4. FreeSlotsAreClean'
    BY <2>1, <2>2, <1>2, StructTypes DEF FreeSlotsAreClean
  <2> QED BY <2>3, <2>4
<1>14. CountsOK' /\ CountsMatch'
  <2>1. SlackLaw /\ SlackLaw' /\ RestLaw /\ RestLaw'
    BY Laws, LawsNext, Rest, RestNext, <1>5, <1>7, <1>8
  <2> SUFFICES ASSUME NEW S \in Structs, NEW i \in Slots(S)
               PROVE  /\ Slack(S, i) \in Int /\ Slack(S, i)' \in Int
                      /\ Slack(S, i)' >= Slack(S, i)
                      /\ tidy' => Slack(S, i)' = Slack(S, i)
    BY <1>2, CountsStep
  <2>2. /\ Occurrences(stack[S], i)' = Occurrences(stack[S], i) /\ HeldBy(S, i)' = HeldBy(S, i)
    BY <1>2 DEF HeldBy
  <2>3. PICK R : R = (IF S = T /\ i = i0 THEN 1 ELSE 0)
    OBVIOUS
  <2>4. allocation[S][i]' = allocation[S][i] + R
    BY <2>3, <1>4
  <2>5. AllRefs(S, i)' = AllRefs(S, i)
    BY <1>2 DEF AllRefs, CellValue
  <2>6. CellRefs(S, i) = AllRefs(S, i) \ {Cell(todo[1].to)}
    <3>1. \A c : c \in Uncounted <=> c = Cell(todo[1].to)
      BY <1>1, UncountedAre
    <3> QED BY <3>1 DEF CellRefs, AllRefs
  <2>7. Cardinality(AllRefs(S, i)) = Cardinality(CellRefs(S, i)) + R
    <3>2. Cell(todo[1].to) \in AllRefs(S, i) <=> R = 1
      BY <2>3, <1>3 DEF AllRefs
    <3>3. IsFiniteSet(AllRefs(S, i)) /\ Cardinality(AllRefs(S, i)) \in Nat
      BY <2>1 DEF RestLaw
    <3>4. CASE R = 1
      <4>1. Cardinality(AllRefs(S, i) \ {Cell(todo[1].to)}) = Cardinality(AllRefs(S, i)) - 1
        BY <3>2, <3>3, <3>4, FS_RemoveElement
      <4> QED BY <4>1, <2>6, <3>3, <3>4
    <3>5. CASE R = 0
      <4>1. AllRefs(S, i) = CellRefs(S, i)
        BY <2>6, <3>2, <3>5
      <4> QED BY <4>1, <3>3, <3>5
    <3> QED BY <2>3, <3>4, <3>5
  <2>8. /\ Cardinality(CellRefs(S, i)') <= Cardinality(CellRefs(S, i)) + R
        /\ tidy' => Cardinality(CellRefs(S, i)') = Cardinality(CellRefs(S, i)) + R
    BY <2>1, <2>5, <2>7, <1>5 DEF RestLaw
  <2>9. Pending(S, i)' <= Pending(S, i) /\ (tidy => Pending(S, i)' = Pending(S, i))
    <3>1. CASE todo[1].from.base \in Structs
      <4>1. ~tidy
        BY <3>1, <1>1 DEF NothingIsLost
      <4> QED BY <4>1, <3>1, <1>10 DEF Pending
    <3>2. CASE todo[1].from.base \notin Structs
      BY <3>2, <1>2, <1>10 DEF Pending
    <3> QED BY <3>1, <3>2
  <2>10. R \in Int
    BY <2>3
  <2> QED BY <2>1, <2>2, <2>4, <2>8, <2>9, <2>10, <1>2 DEF SlackLaw
<1>15. RightSideIsKept'
  BY <1>5, <1>7, <1>8, LawsNext
<1> QED BY <1>5, <1>7, <1>8, <1>9, <1>11, <1>12, <1>13, <1>14, <1>15
=============================================================================
