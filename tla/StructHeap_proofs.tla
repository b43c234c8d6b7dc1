------------------------- MODULE StructHeap_proofs --------------------------
(***************************************************************************)
(* The generated function __decr__ keeps the invariant of the heap,         *)
(* whatever the structs, their recursion and the objects they share; and    *)
(* the properties of the heap as theorems.                                  *)
(***************************************************************************)
EXTENDS StructHeapMoves_proofs

(* The activation that runs *)

(* The activation that runs. *)
LEMMA RunningFrame ==
    ASSUME HeapInv, Running
    PROVE  /\ Len(calls) \in DOMAIN calls /\ Frame = calls[Len(calls)] /\ ActivationOK(Frame)
           /\ Frame \in Activations /\ Drained = Releasing(Frame) /\ Releasing(Frame) \in Structs
           /\ calls \in Seq(Activations) /\ DOMAIN calls = 1 .. Len(calls) /\ Len(calls) \in Nat
           /\ phase = "store" /\ todo # <<>> /\ Head(todo) = todo[1] /\ 1 \in DOMAIN todo
           /\ ~IsNew(todo[1]) /\ todo[1].delete
<1> USE DEF HeapInv
<1>1. calls \in Seq(Activations) /\ calls # <<>> /\ phase = "store" /\ todo # <<>>
  BY DEF Running, ActivationsOK, PhaseOK
<1>2. Len(calls) \in DOMAIN calls /\ DOMAIN calls = 1 .. Len(calls) /\ Len(calls) \in Nat
  BY <1>1
<1>3. Frame = calls[Len(calls)] /\ ActivationOK(Frame) /\ Frame \in Activations
  BY <1>1, <1>2 DEF Frame, ActivationsOK
<1>4. Drained = Releasing(Frame)
  BY DEF Drained, Releasing
<1>5. Releasing(Frame) \in Structs
  BY <1>3, ReleasingTyped
<1>6. Head(todo) = todo[1] /\ 1 \in DOMAIN todo
  BY <1>1, HeadIsFirst
<1>7. ~IsNew(todo[1]) /\ todo[1].delete
  BY <1>1, <1>6 DEF PhaseOK
<1> QED BY <1>1, <1>2, <1>3, <1>4, <1>5, <1>6, <1>7

(* An activation that goes on replaces the innermost one only. *)
LEMMA Resumed ==
    ASSUME calls \in Seq(Activations), calls # <<>>, NEW f \in Activations,
           calls' = [calls EXCEPT ![Len(calls)] = f]
    PROVE  /\ calls' \in Seq(Activations) /\ DOMAIN calls' = DOMAIN calls /\ Len(calls') = Len(calls)
           /\ calls'[Len(calls)] = f
           /\ \A k \in DOMAIN calls : k # Len(calls) => calls'[k] = calls[k]
OBVIOUS

(* What a step of a release leaves right because it is not about the        *)
(* program.                                                                *)
LEMMA ReleaseControl ==
    ASSUME HeapInv, Running,
           free_idx' = free_idx, member' = member, env' = env, todo' = todo, phase' = phase,
           expected' = expected, used' = used, tidy' = tidy,
           \A S \in Structs : \A i \in Slots(S) : allocation[S][i] = 0 => allocation'[S][i] = 0
    PROVE  /\ MovesOK' /\ PhaseOK' /\ TargetsReachable' /\ SourceReachable' /\ RoomForNew'
           /\ NewMembersAreNil' /\ NothingIsLost' /\ RightSideIsKept'
           /\ \A S : Building(S)' <=> Building(S)
           /\ Cell(Head(todo).to)' = Cell(Head(todo).to)
<1> USE DEF HeapInv
<1>1. \A p : /\ Value(p)' = Value(p) /\ (Reachable(p)' <=> Reachable(p))
             /\ Cell(p)' = Cell(p) /\ CellsRead(p)' = CellsRead(p)
  BY SameValues
<1>2. phase = "store" /\ todo # <<>> /\ Head(todo).delete /\ calls # <<>>
  BY DEF Running, PhaseOK
<1>3. MovesOK' /\ PhaseOK'
  BY <1>2 DEF MovesOK, PhaseOK
<1>4. TargetsReachable' /\ SourceReachable'
  BY <1>1 DEF TargetsReachable, SourceReachable
<1>5. RoomForNew'
  <2> SUFFICES ASSUME NEW k \in DOMAIN todo, IsNew(todo[k]) PROVE HasFreeSlot(todo[k].to.base)'
    BY DEF RoomForNew
  <2>1. HasFreeSlot(todo[k].to.base) /\ todo[k].to.base \in Structs
    BY DEF RoomForNew, MovesOK, WellFormed, MoveOK
  <2> QED BY <2>1 DEF HasFreeSlot
<1>6. \A S : Building(S)' <=> Building(S)
  BY DEF Building
<1>7. NewMembersAreNil' /\ NothingIsLost'
  BY <1>6 DEF NewMembersAreNil, Stored, NothingIsLost
<1>8. RightSideIsKept'
  <2>1. AssignmentTakesEffect'
    BY <1>2 DEF AssignmentTakesEffect
  <2> QED BY <2>1, <1>1 DEF RightSideIsKept
<1>9. Cell(Head(todo).to)' = Cell(Head(todo).to)
  BY <1>1
<1> QED BY <1>3, <1>4, <1>5, <1>6, <1>7, <1>8, <1>9

(* The slots that are free stay where a search and a constructor want them. *)
LEMMA ReleaseSlots ==
    ASSUME HeapInv, free_idx' = free_idx, member' = member,
           \A S \in Structs : \A i \in Slots(S) :
             allocation'[S][i] = 0 /\ ~BeingReleased(S, i)' => allocation[S][i] = 0 /\ ~BeingReleased(S, i)
    PROVE  FreeSlotsAreFound' /\ FreeSlotsAreClean'
BY StructTypes DEF HeapInv, FreeSlotsAreFound, FreeSlotsAreClean

(* The count of an object that is given back. *)
LEMMA Decremented ==
    ASSUME HeapOK, NEW S \in Structs, NEW i \in Slots(S), allocation[S][i] >= 1, DecrementCount(S, i)
    PROVE  /\ allocation' = [R \in Structs |-> allocation'[R]]
           /\ \A R \in Structs : allocation'[R] \in [Slots(R) -> Nat]
           /\ \A R \in Structs : \A j \in Slots(R) :
                allocation'[R][j] = allocation[R][j] - (IF R = S /\ j = i THEN 1 ELSE 0)
<1>1. /\ allocation = [R \in Structs |-> allocation[R]]
      /\ \A R \in Structs : allocation[R] \in [Slots(R) -> Nat]
  BY DEF HeapOK
<1>2. /\ allocation' = [R \in Structs |-> allocation'[R]]
      /\ \A R \in Structs : allocation'[R]
            = IF R = S THEN [allocation[S] EXCEPT ![i] = IF @ > 1 THEN @ - 1 ELSE 0] ELSE allocation[R]
  BY <1>1 DEF DecrementCount
<1>3. allocation[S][i] \in Nat
  BY <1>1
<1>4. (IF allocation[S][i] > 1 THEN allocation[S][i] - 1 ELSE 0) = allocation[S][i] - 1
  BY <1>3
<1>5. allocation'[S] = [allocation[S] EXCEPT ![i] = allocation[S][i] - 1]
  BY <1>1, <1>2, <1>4
<1>6. ASSUME NEW R \in Structs
      PROVE  /\ allocation'[R] \in [Slots(R) -> Nat]
             /\ \A j \in Slots(R) :
                  allocation'[R][j] = allocation[R][j] - (IF R = S /\ j = i THEN 1 ELSE 0)
  <2>1. CASE R = S
    BY <2>1, <1>1, <1>3, <1>5
  <2>2. CASE R # S
    <3>1. allocation'[R] = allocation[R] /\ allocation[R] \in [Slots(R) -> Nat]
      BY <2>2, <1>1, <1>2
    <3> QED BY <3>1, <2>2
  <2> QED BY <2>1, <2>2
<1> QED BY <1>2, <1>6

(* What is given back and what was counted for it balance. *)
LEMMA Balance ==
    ASSUME NEW R, NEW j, NEW D \in Int,
           Pending(R, j)' = Pending(R, j), allocation[R][j]' = allocation[R][j] - D,
           Occurrences(stack[R], j)' \in Int, Cardinality(HeldBy(R, j)') \in Int,
           Occurrences(stack[R], j)' + Cardinality(HeldBy(R, j)')
             = Occurrences(stack[R], j) + Cardinality(HeldBy(R, j)) - D,
           Cardinality(CellRefs(R, j)) \in Nat, Occurrences(stack[R], j) \in Nat,
           Cardinality(HeldBy(R, j)) \in Nat, Pending(R, j) \in {0, 1}, allocation[R][j] \in Nat,
           Slack(R, j) = allocation[R][j] - Cardinality(CellRefs(R, j))
                - Occurrences(stack[R], j) - Cardinality(HeldBy(R, j)) - Pending(R, j),
           Slack(R, j)' = allocation[R][j]' - Cardinality(CellRefs(R, j)')
                - Occurrences(stack[R], j)' - Cardinality(HeldBy(R, j)') - Pending(R, j)',
           Cardinality(CellRefs(R, j)') = Cardinality(CellRefs(R, j))
    PROVE  Slack(R, j)' = Slack(R, j) /\ Slack(R, j) \in Int
OBVIOUS

(* What is passed on and what waits to be given back balance. *)
LEMMA BalanceOfMember ==
    ASSUME NEW R, NEW j, NEW D \in Int,
           Pending(R, j)' = Pending(R, j), allocation[R][j]' = allocation[R][j],
           Occurrences(stack[R], j)' \in Int, Cardinality(HeldBy(R, j)') \in Int,
           Occurrences(stack[R], j)' + Cardinality(HeldBy(R, j)')
             = Occurrences(stack[R], j) + Cardinality(HeldBy(R, j)) + D,
           Cardinality(CellRefs(R, j)) \in Nat, Occurrences(stack[R], j) \in Nat,
           Cardinality(HeldBy(R, j)) \in Nat, Pending(R, j) \in {0, 1}, allocation[R][j] \in Nat,
           Slack(R, j) = allocation[R][j] - Cardinality(CellRefs(R, j))
                - Occurrences(stack[R], j) - Cardinality(HeldBy(R, j)) - Pending(R, j),
           Slack(R, j)' = allocation[R][j]' - Cardinality(CellRefs(R, j)')
                - Occurrences(stack[R], j)' - Cardinality(HeldBy(R, j)') - Pending(R, j)',
           Cardinality(CellRefs(R, j)') = Cardinality(CellRefs(R, j)) - D
    PROVE  Slack(R, j)' = Slack(R, j) /\ Slack(R, j) \in Int
OBVIOUS

-----------------------------------------------------------------------------
(* An object is given back *)

(* An object is given back: its count is one less, and when it is nothing   *)
(* the object is released.                                                 *)
LEMMA TakenKeeps ==
    ASSUME HeapInv, Running, Frame.self = Nil, ~Quiet,
           NEW S, S = Drained, NEW i \in Slots(S), allocation[S][i] >= 1,
           DecrementCount(S, i), Resume(Taken(S, i)),
           free_idx' = free_idx, member' = member, env' = env, todo' = todo, phase' = phase,
           expected' = expected, used' = used, tidy' = tidy,
           stack' = [R \in Structs |-> stack'[R]],
           \A R \in Structs : stack'[R] \in Seq(Pointers(R)) /\ (stack'[R] # <<>> => stack[R] # <<>>),
           \A R \in Structs : \A j \in Slots(R) :
              /\ Occurrences(stack[R], j)' \in Int /\ Cardinality(HeldBy(R, j)') \in Int
              /\ Occurrences(stack[R], j)' + Cardinality(HeldBy(R, j)')
                   = Occurrences(stack[R], j) + Cardinality(HeldBy(R, j)) - (IF R = S /\ j = i THEN 1 ELSE 0)
    PROVE  HeapInv'
<1> USE DEF HeapInv
<1>1. /\ Len(calls) \in DOMAIN calls /\ Frame = calls[Len(calls)] /\ ActivationOK(Frame)
      /\ Frame \in Activations /\ Drained = Releasing(Frame) /\ Releasing(Frame) \in Structs
      /\ calls \in Seq(Activations) /\ DOMAIN calls = 1 .. Len(calls) /\ Len(calls) \in Nat
      /\ phase = "store" /\ todo # <<>> /\ Head(todo) = todo[1] /\ 1 \in DOMAIN todo
      /\ ~IsNew(todo[1]) /\ todo[1].delete
  BY RunningFrame
<1>2. PICK n : n = Len(calls)
  OBVIOUS
<1>3. PICK f : f = Taken(S, i)
  OBVIOUS
<1>4. /\ allocation' = [R \in Structs |-> allocation'[R]]
      /\ \A R \in Structs : allocation'[R] \in [Slots(R) -> Nat]
      /\ \A R \in Structs : \A j \in Slots(R) :
            allocation'[R][j] = allocation[R][j] - (IF R = S /\ j = i THEN 1 ELSE 0)
  BY <1>1, Decremented
<1>a. \A R \in Structs : \A j \in Slots(R) : allocation[R][j] \in Nat
  BY DEF HeapOK
<1>b. S \in Structs
  BY <1>1
<1>c. /\ \A R \in Structs : \A j \in Slots(R) : ~(R = S /\ j = i) => allocation'[R][j] = allocation[R][j]
      /\ allocation'[S][i] = allocation[S][i] - 1
  <2>1. ASSUME NEW R \in Structs, NEW j \in Slots(R), ~(R = S /\ j = i)
        PROVE  allocation'[R][j] = allocation[R][j]
    <3>1. allocation'[R][j] = allocation[R][j] - 0
      BY <2>1, <1>4
    <3> QED BY <3>1, <1>a
  <2> QED BY <2>1, <1>4, <1>b
<1>5. /\ f = [Frame EXCEPT !.current = Nil, !.self = IF allocation[S][i] > 1 THEN Nil ELSE i,
                           !.left = IF allocation[S][i] > 1 THEN {} ELSE MembersOf(S)]
  BY <1>3 DEF Taken, Count
<1>6. /\ f \in Activations /\ f.of = Frame.of /\ f.turn = Frame.turn /\ f.current = Nil
      /\ f.self = IF allocation[S][i] > 1 THEN Nil ELSE i
      /\ f.left = IF allocation[S][i] > 1 THEN {} ELSE MembersOf(S)
  <2>1. Frame \in [of : Structs, turn : Nat \ {0}, current : Int, self : Int, left : SUBSET Members]
    BY <1>1 DEF Activations
  <2>2. Nil \in Int /\ i \in Int /\ MembersOf(S) \in SUBSET Members
    BY <1>1, StructTypes DEF Nil, MembersOf
  <2> QED BY <2>1, <2>2, <1>5 DEF Activations
<1>7. Releasing(f) = S
  BY <1>1, <1>6 DEF Releasing
<1>8. ActivationOK(f)
  <2>1. f.current \in Pointers(f.of) /\ f.self \in Pointers(S) /\ f.left \subseteq MembersOf(S)
    BY <1>6 DEF Pointers
  <2>2. f.self = Nil => f.left = {}
    BY <1>1, <1>6, StructTypes
  <2> QED BY <2>1, <2>2, <1>1, <1>6, <1>7 DEF ActivationOK
<1>9. /\ calls' \in Seq(Activations) /\ DOMAIN calls' = DOMAIN calls /\ calls'[n] = f
      /\ \A k \in DOMAIN calls : k # n => calls'[k] = calls[k]
  <2>1. calls' = [calls EXCEPT ![Len(calls)] = f]
    BY <1>3 DEF Resume
  <2> QED BY <2>1, <1>1, <1>2, <1>6, Resumed DEF Running
<1>10. /\ n \in DOMAIN calls /\ calls[n] = Frame /\ Releasing(calls[n]) = S /\ calls[n].self = Nil
       /\ \A k \in DOMAIN calls : Releasing(calls'[k]) = Releasing(calls[k])
       /\ \A k \in DOMAIN calls : k # n => calls'[k].self = calls[k].self
       /\ \A k \in DOMAIN calls : calls'[k].of = calls[k].of
       /\ calls'[n].self # Nil => calls'[n].self = i /\ allocation[S][i] = 1 /\ calls'[n].left = MembersOf(S)
  <2>1. n \in DOMAIN calls /\ calls[n] = Frame /\ Releasing(calls[n]) = S /\ calls[n].self = Nil
    BY <1>1, <1>2
  <2>2. \A k \in DOMAIN calls : Releasing(calls'[k]) = Releasing(calls[k]) /\ calls'[k].of = calls[k].of
    BY <2>1, <1>6, <1>7, <1>9
  <2>3. calls'[n].self # Nil => calls'[n].self = i /\ allocation[S][i] = 1 /\ calls'[n].left = MembersOf(S)
    <3>1. allocation[S][i] \in Nat
      BY <1>1, <1>a
    <3> QED BY <3>1, <1>6, <1>9
  <2> QED BY <2>1, <2>2, <2>3, <1>9
<1>11. HeapOK'
  BY <1>4 DEF HeapOK
<1>12. ActivationsOK'
  BY <1>8, <1>9 DEF ActivationsOK
<1>13. \A k \in DOMAIN calls : Releasing(calls[k]) \in Structs
                 /\ (calls[k].self # Nil => calls[k].self \in Slots(Releasing(calls[k])))
  <2> SUFFICES ASSUME NEW k \in DOMAIN calls
               PROVE  Releasing(calls[k]) \in Structs
                      /\ (calls[k].self # Nil => calls[k].self \in Slots(Releasing(calls[k])))
    OBVIOUS
  <2>1. ActivationOK(calls[k])
    BY DEF ActivationsOK
  <2> QED BY <2>1, ReleasingTyped DEF ActivationOK, Pointers
<1>14. \A k \in DOMAIN calls : calls[k].self # Nil =>
          /\ allocation[Releasing(calls[k])][calls[k].self] = 0
          /\ ~(Releasing(calls[k]) = S /\ calls[k].self = i)
          /\ k # n
  BY <1>10 DEF ReleasedOnce
<1>15. ReleasedOnce'
  <2>1. ASSUME NEW k \in DOMAIN calls, calls'[k].self # Nil
        PROVE  allocation'[Releasing(calls'[k])][calls'[k].self] = 0
    <3>1. CASE k = n
      BY <3>1, <2>1, <1>4, <1>10, <1>b
    <3>2. CASE k # n
      <4>1. /\ calls'[k].self = calls[k].self /\ Releasing(calls'[k]) = Releasing(calls[k])
            /\ Releasing(calls[k]) \in Structs /\ calls[k].self \in Slots(Releasing(calls[k]))
        BY <3>2, <2>1, <1>10, <1>13
      <4>2. allocation[Releasing(calls[k])][calls[k].self] = 0 /\ ~(Releasing(calls[k]) = S /\ calls[k].self = i)
        BY <4>1, <2>1, <1>14
      <4> QED BY <4>1, <4>2, <1>c
    <3> QED BY <3>1, <3>2
  <2>2. ASSUME NEW j \in DOMAIN calls, NEW k \in DOMAIN calls, j # k, calls'[j].self # Nil,
               Releasing(calls'[j]) = Releasing(calls'[k])
        PROVE  calls'[j].self # calls'[k].self
    <3>1. CASE j = n
      BY <3>1, <2>2, <1>10, <1>14
    <3>2. CASE k = n
      BY <3>2, <2>2, <1>10, <1>14
    <3>3. CASE j # n /\ k # n
      BY <3>3, <2>2, <1>10 DEF ReleasedOnce
    <3> QED BY <3>1, <3>2, <3>3
  <2>3. \A k \in DOMAIN calls : Releasing(calls[k])' = Releasing(calls'[k])
    BY DEF Releasing
  <2>4. \A k \in DOMAIN calls' : calls'[k].self # Nil => allocation'[Releasing(calls[k])'][calls'[k].self] = 0
    BY <2>1, <2>3, <1>9
  <2>5. \A j, k \in DOMAIN calls' :
            /\ j # k /\ calls'[j].self # Nil
            /\ Releasing(calls[j])' = Releasing(calls[k])'
            => calls'[j].self # calls'[k].self
    BY <2>2, <2>3, <1>9
  <2> QED BY <2>4, <2>5 DEF ReleasedOnce
<1>16. StacksHaveDrains'
  <2> SUFFICES ASSUME NEW R \in Structs, stack'[R] # <<>>
               PROVE  \E k \in DOMAIN calls' : ~IsLinear(calls'[k].of)
                                /\ \E t \in DOMAIN Turns(calls'[k].of) : Turns(calls'[k].of)[t] = R
    BY DEF StacksHaveDrains
  <2>1. PICK k \in DOMAIN calls : ~IsLinear(calls[k].of)
                                /\ \E t \in DOMAIN Turns(calls[k].of) : Turns(calls[k].of)[t] = R
    BY DEF StacksHaveDrains
  <2>2. calls'[k].of = calls[k].of /\ k \in DOMAIN calls'
    BY <1>9, <1>10
  <2> QED BY <2>1, <2>2
<1>17. \A R \in Structs : \A j \in Slots(R) : allocation[R][j] = 0 => allocation'[R][j] = 0
  BY <1>c
<1>18. /\ MovesOK' /\ PhaseOK' /\ TargetsReachable' /\ SourceReachable' /\ RoomForNew'
       /\ NewMembersAreNil' /\ NothingIsLost' /\ RightSideIsKept'
       /\ \A R : Building(R)' <=> Building(R)
       /\ Cell(Head(todo).to)' = Cell(Head(todo).to)
  BY <1>17, ReleaseControl
<1>19. BuildingIsQuiet'
  BY <1>18 DEF BuildingIsQuiet
<1>20. FreeSlotsAreFound' /\ FreeSlotsAreClean'
  <2> SUFFICES ASSUME NEW R \in Structs, NEW j \in Slots(R), allocation'[R][j] = 0, ~BeingReleased(R, j)'
               PROVE  allocation[R][j] = 0 /\ ~BeingReleased(R, j)
    BY ReleaseSlots
  <2>1. ~BeingReleased(R, j)
    <3> SUFFICES ASSUME NEW k \in DOMAIN calls, Releasing(calls[k]) = R, calls[k].self = j PROVE FALSE
      BY DEF BeingReleased
    <3>1. j # Nil
      BY StructTypes
    <3>2. calls'[k] = calls[k] /\ k \in DOMAIN calls'
      BY <3>1, <1>9, <1>14
    <3>3. Releasing(calls[k])' = R /\ calls'[k].self = j
      BY <3>2 DEF Releasing
    <3> QED BY <3>2, <3>3 DEF BeingReleased
  <2>2. ~(R = S /\ j = i)
    <3> SUFFICES ASSUME R = S, j = i PROVE FALSE
      OBVIOUS
    <3>1. allocation[S][i] = 1
      BY <1>4, <1>a, <1>b
    <3>2. calls'[n].self = i
      BY <3>1, <1>6, <1>9
    <3>3. Releasing(calls[n])' = Releasing(calls'[n])
      BY DEF Releasing
    <3>4. Releasing(calls[n])' = S
      BY <3>3, <1>10
    <3> QED BY <3>2, <3>4, <1>9, <1>10 DEF BeingReleased
  <2> QED BY <2>1, <2>2, <1>4, <1>a
<1>21. CountsOK' /\ CountsMatch'
  <2>1. SlackLaw /\ SlackLaw' /\ UncountedLaw /\ UncountedLaw'
    BY Laws, LawsNext, <1>11, <1>12
  <2> SUFFICES ASSUME NEW R \in Structs, NEW j \in Slots(R)
               PROVE  /\ Slack(R, j) \in Int /\ Slack(R, j)' \in Int
                      /\ Slack(R, j)' = Slack(R, j)
    BY CountsStep
  <2>2. \A c : c \in Uncounted' <=> c \in Uncounted
    <3>1. \A c : (\E k \in DOMAIN calls' : /\ calls'[k].self # Nil
                                   /\ \E m \in MembersOf(Releasing(calls'[k])) \ calls'[k].left :
                                         c = <<m, calls'[k].self>>)
            <=> (\E k \in DOMAIN calls : /\ calls[k].self # Nil
                                   /\ \E m \in MembersOf(Releasing(calls[k])) \ calls[k].left :
                                         c = <<m, calls[k].self>>)
      <4>1. calls'[n].self # Nil => MembersOf(Releasing(calls'[n])) \ calls'[n].left = {}
        BY <1>10
      <4> QED BY <4>1, <1>9, <1>10
    <3>2. \A k : Releasing(calls[k])' = Releasing(calls'[k])
      BY DEF Releasing
    <3>3. \A k : MembersOf(Releasing(calls[k]))' = MembersOf(Releasing(calls'[k]))
      BY <3>2 DEF MembersOf
    <3>4. \A c : c \in Uncounted' <=>
            \/ phase' \in {"store", "retain"} /\ c = Cell(Head(todo).to)'
            \/ \E k \in DOMAIN calls' : /\ calls'[k].self # Nil
                                   /\ \E m \in MembersOf(Releasing(calls'[k])) \ calls'[k].left :
                                         c = <<m, calls'[k].self>>
      BY <2>1, <3>3 DEF UncountedLaw
    <3> QED BY <2>1, <3>1, <3>4, <1>18 DEF UncountedLaw
  <2>3. CellRefs(R, j)' = CellRefs(R, j)
    <3>1. CellRefs(R, j)' = { c \in CellsOf[R] : CellValue(c)' = j } \ Uncounted'
      BY DEF CellRefs
    <3>2. \A c : CellValue(c)' = CellValue(c)
      BY DEF CellValue
    <3> QED BY <3>1, <3>2, <2>2 DEF CellRefs
  <2>4. Pending(R, j)' = Pending(R, j)
    BY <1>18 DEF Pending
  <2>5. PICK D : D = (IF R = S /\ j = i THEN 1 ELSE 0)
    OBVIOUS
  <2>6. allocation[R][j]' = allocation[R][j] - D /\ D \in Int
    BY <2>5, <1>4
  <2>7. /\ Occurrences(stack[R], j)' \in Int /\ Cardinality(HeldBy(R, j)') \in Int
        /\ Occurrences(stack[R], j)' + Cardinality(HeldBy(R, j)')
                   = Occurrences(stack[R], j) + Cardinality(HeldBy(R, j)) - D
    BY <2>5
  <2>8. /\ Cardinality(CellRefs(R, j)) \in Nat /\ Occurrences(stack[R], j) \in Nat
        /\ Cardinality(HeldBy(R, j)) \in Nat /\ Pending(R, j) \in {0, 1} /\ allocation[R][j] \in Nat
        /\ Slack(R, j) = allocation[R][j] - Cardinality(CellRefs(R, j))
             - Occurrences(stack[R], j) - Cardinality(HeldBy(R, j)) - Pending(R, j)
    BY <2>1 DEF SlackLaw
  <2>9. Slack(R, j)' = allocation[R][j]' - Cardinality(CellRefs(R, j)')
             - Occurrences(stack[R], j)' - Cardinality(HeldBy(R, j)') - Pending(R, j)'
    BY <2>1 DEF SlackLaw
  <2>10. Cardinality(CellRefs(R, j)') = Cardinality(CellRefs(R, j))
    BY <2>3
  <2> HIDE DEF HeapInv
  <2>11. Slack(R, j)' = Slack(R, j) /\ Slack(R, j) \in Int
    BY <2>4, <2>6, <2>7, <2>8, <2>9, <2>10, Balance
  <2> QED BY <2>11
<1> QED BY <1>11, <1>12, <1>15, <1>16, <1>18, <1>19, <1>20, <1>21

-----------------------------------------------------------------------------
(* Lists and stacks *)

(* The activation that runs holds no object: it goes on, or returns. *)
LEMMA UnheldKeeps ==
    ASSUME HeapInv, Running, Frame.self = Nil, Frame.current = Nil,
           allocation' = allocation, free_idx' = free_idx, member' = member, env' = env, todo' = todo,
           phase' = phase, expected' = expected, used' = used, tidy' = tidy,
           NEW n, n = Len(calls), calls' \in Seq(Activations),
           DOMAIN calls' \subseteq DOMAIN calls, DOMAIN calls \ {n} \subseteq DOMAIN calls',
           \A k \in DOMAIN calls' : k # n => calls'[k] = calls[k],
           n \in DOMAIN calls' => ActivationOK(calls'[n]) /\ calls'[n].self = Nil /\ calls'[n].current = Nil,
           stack' = [R \in Structs |-> stack'[R]],
           \A R \in Structs : stack'[R] \in Seq(Pointers(R)),
           Quiet => Quiet',
           StacksHaveDrains',
           \A R \in Structs : \A j \in Slots(R) : Occurrences(stack[R], j)' = Occurrences(stack[R], j)
    PROVE  HeapInv'
<1> USE DEF HeapInv
<1>1. /\ n \in DOMAIN calls /\ calls[n].self = Nil /\ calls[n].current = Nil
      /\ \A k \in DOMAIN calls' : k # n => calls'[k] = calls[k]
      /\ n \in DOMAIN calls' => calls'[n].self = Nil /\ calls'[n].current = Nil
      /\ \A k \in DOMAIN calls : k = n \/ k \in DOMAIN calls'
  BY RunningFrame
<1>2. HeapOK'
  BY DEF HeapOK
<1>3. ActivationsOK'
  BY <1>1 DEF ActivationsOK
<1>4. \A k \in DOMAIN calls' : calls'[k].self # Nil =>
           k \in DOMAIN calls /\ calls'[k] = calls[k] /\ Releasing(calls[k])' = Releasing(calls[k])
  BY <1>1 DEF Releasing
<1>5. \A k \in DOMAIN calls : calls[k].self # Nil =>
           k \in DOMAIN calls' /\ calls'[k] = calls[k] /\ Releasing(calls[k])' = Releasing(calls[k])
  BY <1>1 DEF Releasing
<1>6. ReleasedOnce'
  <2>1. \A k \in DOMAIN calls' : calls'[k].self # Nil => allocation[Releasing(calls[k])'][calls'[k].self] = 0
    BY <1>4 DEF ReleasedOnce
  <2>2. ASSUME NEW j \in DOMAIN calls', NEW k \in DOMAIN calls', j # k, calls'[j].self # Nil,
               Releasing(calls[j])' = Releasing(calls[k])', calls'[j].self = calls'[k].self
        PROVE  FALSE
    BY <1>4, <2>2 DEF ReleasedOnce
  <2> QED BY <2>1, <2>2 DEF ReleasedOnce
<1>7. \A R \in Structs : \A i \in Slots(R) : BeingReleased(R, i)' <=> BeingReleased(R, i)
  <2>1. \A R \in Structs : \A i \in Slots(R) : i # Nil
    BY StructTypes
  <2> QED BY <2>1, <1>4, <1>5 DEF BeingReleased
<1>8. /\ MovesOK' /\ PhaseOK' /\ TargetsReachable' /\ SourceReachable' /\ RoomForNew'
      /\ NewMembersAreNil' /\ NothingIsLost' /\ RightSideIsKept'
      /\ \A R : Building(R)' <=> Building(R)
      /\ Cell(Head(todo).to)' = Cell(Head(todo).to)
  BY ReleaseControl
<1>9. BuildingIsQuiet'
  BY <1>8 DEF BuildingIsQuiet
<1>10. FreeSlotsAreFound' /\ FreeSlotsAreClean'
  BY <1>7, ReleaseSlots
<1>11. CountsOK' /\ CountsMatch'
  <2>1. SlackLaw /\ SlackLaw' /\ UncountedLaw /\ UncountedLaw'
    BY Laws, LawsNext, <1>2, <1>3
  <2> SUFFICES ASSUME NEW R \in Structs, NEW j \in Slots(R)
               PROVE  /\ Slack(R, j) \in Int /\ Slack(R, j)' \in Int
                      /\ Slack(R, j)' = Slack(R, j)
    BY CountsStep
  <2>2. \A k : MembersOf(Releasing(calls[k]))' = MembersOf(Releasing(calls[k])')
    BY DEF MembersOf
  <2>3. \A c : c \in Uncounted' <=> c \in Uncounted
    <3>1. \A c : c \in Uncounted' <=>
            \/ phase' \in {"store", "retain"} /\ c = Cell(Head(todo).to)'
            \/ \E k \in DOMAIN calls' : /\ calls'[k].self # Nil
                                   /\ \E m \in MembersOf(Releasing(calls[k])') \ calls'[k].left :
                                         c = <<m, calls'[k].self>>
      BY <2>1, <2>2 DEF UncountedLaw
    <3> QED BY <2>1, <3>1, <1>4, <1>5, <1>8 DEF UncountedLaw
  <2>4. CellRefs(R, j)' = CellRefs(R, j)
    <3>1. CellRefs(R, j)' = { c \in CellsOf[R] : CellValue(c)' = j } \ Uncounted'
      BY DEF CellRefs
    <3>2. \A c : CellValue(c)' = CellValue(c)
      BY DEF CellValue
    <3> QED BY <3>1, <3>2, <2>3 DEF CellRefs
  <2>5. HeldBy(R, j)' = HeldBy(R, j)
    <3>1. j # Nil
      BY StructTypes
    <3> QED BY <3>1, <1>1 DEF HeldBy
  <2>6. Pending(R, j)' = Pending(R, j)
    BY <1>8 DEF Pending
  <2>7. /\ Cardinality(CellRefs(R, j)) \in Nat /\ Occurrences(stack[R], j) \in Nat
        /\ Cardinality(HeldBy(R, j)) \in Nat /\ Pending(R, j) \in {0, 1} /\ allocation[R][j] \in Nat
        /\ Slack(R, j) = allocation[R][j] - Cardinality(CellRefs(R, j))
             - Occurrences(stack[R], j) - Cardinality(HeldBy(R, j)) - Pending(R, j)
    BY <2>1 DEF SlackLaw
  <2>8. Slack(R, j)' = allocation'[R][j] - Cardinality(CellRefs(R, j)')
             - Occurrences(stack[R], j)' - Cardinality(HeldBy(R, j)') - Pending(R, j)'
    BY <2>1 DEF SlackLaw
  <2>9. Occurrences(stack[R], j)' = Occurrences(stack[R], j) /\ allocation'[R][j] = allocation[R][j]
    OBVIOUS
  <2> QED BY <2>4, <2>5, <2>6, <2>7, <2>8, <2>9
<1> QED BY <1>2, <1>3, <1>6, <1>8, <1>9, <1>10, <1>11

(* What the activation that runs is stays in the other activations. *)
LEMMA DrainsRemain ==
    ASSUME HeapInv, Running, NEW n, n = Len(calls), DOMAIN calls \ {n} \subseteq DOMAIN calls',
           \A k \in DOMAIN calls' : k # n => calls'[k] = calls[k],
           \A R \in Structs : stack'[R] # <<>> => stack[R] # <<>>,
           \/ n \in DOMAIN calls' /\ calls'[n].of = Frame.of
           \/ IsLinear(Frame.of)
           \/ \A t \in DOMAIN Turns(Frame.of) : stack[Turns(Frame.of)[t]] = <<>>
    PROVE  StacksHaveDrains'
<1> SUFFICES ASSUME NEW R \in Structs, stack'[R] # <<>>
             PROVE  \E k \in DOMAIN calls' : ~IsLinear(calls'[k].of)
                                /\ \E t \in DOMAIN Turns(calls'[k].of) : Turns(calls'[k].of)[t] = R
  BY DEF StacksHaveDrains
<1>1. PICK k \in DOMAIN calls : ~IsLinear(calls[k].of)
                                /\ \E t \in DOMAIN Turns(calls[k].of) : Turns(calls[k].of)[t] = R
  BY DEF StacksHaveDrains, HeapInv
<1>2. calls[n] = Frame /\ stack[R] # <<>>
  BY RunningFrame
<1>3. CASE k # n
  <2>1. k \in DOMAIN calls' /\ calls'[k] = calls[k]
    BY <1>3
  <2> QED BY <1>1, <2>1
<1>4. CASE k = n
  <2>1. calls'[k].of = calls[k].of /\ k \in DOMAIN calls'
    BY <1>1, <1>2, <1>4
  <2> QED BY <1>1, <2>1
<1> QED BY <1>3, <1>4

(* The end of a list keeps the invariant. *)
LEMMA EndOfListKeeps == HeapInv /\ EndOfList => HeapInv'
<1> SUFFICES ASSUME HeapInv, EndOfList PROVE HeapInv'
  OBVIOUS
<1>1. /\ Running /\ IsLinear(Frame.of) /\ Frame.self = Nil /\ Frame.current = Nil
      /\ calls' = SubSeq(calls, 1, Len(calls) - 1)
      /\ allocation' = allocation /\ free_idx' = free_idx /\ member' = member /\ env' = env /\ todo' = todo
      /\ phase' = phase /\ expected' = expected /\ used' = used /\ tidy' = tidy /\ stack' = stack
  BY DEF EndOfList, Return, heapVars, programVars
<1>2. PICK n : n = Len(calls)
  OBVIOUS
<1>3. calls \in Seq(Activations) /\ n \in Nat \ {0}
  BY <1>1, <1>2, RunningFrame
<1>4. /\ calls' \in Seq(Activations) /\ DOMAIN calls' \subseteq DOMAIN calls
      /\ DOMAIN calls \ {n} \subseteq DOMAIN calls' /\ n \notin DOMAIN calls'
      /\ \A k \in DOMAIN calls' : k # n => calls'[k] = calls[k]
  BY <1>1, <1>2, <1>3
<1>5. StacksHaveDrains'
  BY <1>1, <1>2, <1>4, DrainsRemain
<1>6. Quiet => Quiet'
  BY <1>1, <1>4 DEF Quiet
<1>7. stack' = [R \in Structs |-> stack'[R]] /\ \A R \in Structs : stack'[R] \in Seq(Pointers(R))
  BY <1>1 DEF HeapInv, HeapOK
<1>8. \A R \in Structs : \A j \in Slots(R) : Occurrences(stack[R], j)' = Occurrences(stack[R], j)
  BY <1>1
<1> QED BY <1>1, <1>2, <1>4, <1>5, <1>6, <1>7, <1>8, UnheldKeeps

(* Going on to the next stack keeps the invariant: the release returns only *)
(* when every stack it drains is empty.                                     *)
LEMMA NextStackKeeps == HeapInv /\ NextStack => HeapInv'
<1> SUFFICES ASSUME HeapInv, NextStack PROVE HeapInv'
  OBVIOUS
<1>1. /\ Running /\ ~IsLinear(Frame.of) /\ Frame.self = Nil /\ stack[Drained] = <<>>
      /\ allocation' = allocation /\ free_idx' = free_idx /\ member' = member /\ env' = env /\ todo' = todo
      /\ phase' = phase /\ expected' = expected /\ used' = used /\ tidy' = tidy /\ stack' = stack
  BY DEF NextStack, heapVars, programVars
<1>2. PICK n : n = Len(calls)
  OBVIOUS
<1>3. /\ calls \in Seq(Activations) /\ n \in Nat \ {0} /\ calls # <<>> /\ n \in DOMAIN calls /\ calls[n] = Frame
      /\ ActivationOK(Frame) /\ Frame \in Activations
  BY <1>1, <1>2, RunningFrame DEF Running
<1>4. Frame.current = Nil /\ Frame.left = {} /\ Frame.of \in Structs
  BY <1>1, <1>3 DEF ActivationOK, Activations
<1>5. Turns(Frame.of) \in Seq(Structs) /\ Len(Turns(Frame.of)) >= 1 /\ Frame.turn \in DOMAIN Turns(Frame.of)
  BY <1>3, <1>4, TurnsOf DEF ActivationOK
<1>6. \/ \E t \in DOMAIN Turns(Frame.of) : Resume([Frame EXCEPT !.turn = t])
      \/ Return /\ \A t \in DOMAIN Turns(Frame.of) : stack[Turns(Frame.of)[t]] = <<>>
  <2>1. \/ Frame.turn < Len(Turns(Frame.of)) /\ Resume([Frame EXCEPT !.turn = @ + 1])
        \/ Resume([Frame EXCEPT !.turn = 1])
        \/ Return /\ \A t \in DOMAIN Turns(Frame.of) : stack[Turns(Frame.of)[t]] = <<>>
    BY DEF NextStack
  <2>2. Frame.turn < Len(Turns(Frame.of)) => Frame.turn + 1 \in DOMAIN Turns(Frame.of)
    BY <1>5
  <2>3. 1 \in DOMAIN Turns(Frame.of)
    BY <1>5
  <2>4. CASE Frame.turn < Len(Turns(Frame.of)) /\ Resume([Frame EXCEPT !.turn = @ + 1])
    BY <2>2, <2>4
  <2>5. CASE Resume([Frame EXCEPT !.turn = 1])
    BY <2>3, <2>5
  <2> QED BY <2>1, <2>4, <2>5
<1>7. stack' = [R \in Structs |-> stack'[R]] /\ \A R \in Structs : stack'[R] \in Seq(Pointers(R))
  BY <1>1 DEF HeapInv, HeapOK
<1>8. \A R \in Structs : \A j \in Slots(R) : Occurrences(stack[R], j)' = Occurrences(stack[R], j)
  BY <1>1
<1>9. CASE \E t \in DOMAIN Turns(Frame.of) : Resume([Frame EXCEPT !.turn = t])
  <2>1. PICK t \in DOMAIN Turns(Frame.of) : Resume([Frame EXCEPT !.turn = t])
    BY <1>9
  <2>2. PICK f : f = [Frame EXCEPT !.turn = t]
    OBVIOUS
  <2>3. t \in Nat \ {0}
    BY <1>5
  <2>4. /\ f \in Activations /\ f.of = Frame.of /\ f.turn = t /\ f.current = Nil /\ f.self = Nil
        /\ f.left = {}
    <3>1. Frame \in [of : Structs, turn : Nat \ {0}, current : Int, self : Int, left : SUBSET Members]
      BY <1>3 DEF Activations
    <3> QED BY <3>1, <2>2, <2>3, <1>1, <1>4 DEF Activations
  <2>5. ActivationOK(f)
    BY <2>4, <1>1, <1>4 DEF ActivationOK, Pointers
  <2>6. /\ calls' \in Seq(Activations) /\ DOMAIN calls' = DOMAIN calls /\ calls'[n] = f
        /\ \A k \in DOMAIN calls : k # n => calls'[k] = calls[k]
    <3>1. calls' = [calls EXCEPT ![Len(calls)] = f]
      BY <2>1, <2>2 DEF Resume
    <3> QED BY <3>1, <2>4, <1>2, <1>3, Resumed
  <2>7. StacksHaveDrains'
    BY <2>4, <2>6, <1>1, <1>2, <1>3, DrainsRemain
  <2>8. Quiet => Quiet'
    BY <2>4, <2>6, <1>1 DEF Quiet
  <2> QED BY <2>4, <2>5, <2>6, <2>7, <2>8, <1>1, <1>2, <1>4, <1>7, <1>8, UnheldKeeps
<1>10. CASE Return /\ \A t \in DOMAIN Turns(Frame.of) : stack[Turns(Frame.of)[t]] = <<>>
  <2>1. /\ calls' \in Seq(Activations) /\ DOMAIN calls' \subseteq DOMAIN calls
        /\ DOMAIN calls \ {n} \subseteq DOMAIN calls' /\ n \notin DOMAIN calls'
        /\ \A k \in DOMAIN calls' : k # n => calls'[k] = calls[k]
    <3>1. calls' = SubSeq(calls, 1, n - 1)
      BY <1>2, <1>10 DEF Return
    <3> QED BY <3>1, <1>2, <1>3
  <2>2. StacksHaveDrains'
    BY <2>1, <1>1, <1>2, <1>10, DrainsRemain
  <2>3. Quiet => Quiet'
    BY <2>1, <1>1 DEF Quiet
  <2> QED BY <2>1, <2>2, <2>3, <1>1, <1>2, <1>4, <1>7, <1>8, UnheldKeeps
<1> QED BY <1>6, <1>9, <1>10

(* A pop keeps the invariant: the reference that was on the stack is taken  *)
(* off the count.                                                           *)
LEMMA PopStackKeeps == HeapInv /\ PopStack => HeapInv'
<1> SUFFICES ASSUME HeapInv, PopStack PROVE HeapInv'
  OBVIOUS
<1>a. PICK S : S = Drained
  OBVIOUS
<1>b. PICK n : n = Len(calls)
  OBVIOUS
<1>c. PICK i0 : i0 = Top(S)
  OBVIOUS
<1>1. /\ Running /\ ~IsLinear(Frame.of) /\ Frame.self = Nil /\ stack[S] # <<>>
      /\ free_idx' = free_idx /\ member' = member /\ env' = env /\ todo' = todo
      /\ phase' = phase /\ expected' = expected /\ used' = used /\ tidy' = tidy
      /\ stack' = [stack EXCEPT ![S] = Popped(S)]
      /\ i0 = Nil => allocation' = allocation /\ calls' = calls
      /\ i0 # Nil => DecrementCount(S, i0) /\ Resume(Taken(S, i0))
  BY <1>a, <1>c DEF PopStack, programVars
<1>2. /\ S \in Structs /\ calls \in Seq(Activations) /\ n \in DOMAIN calls /\ calls[n] = Frame /\ calls # <<>>
      /\ ActivationOK(Frame) /\ Frame \in Activations
  BY <1>1, <1>a, <1>b, RunningFrame DEF Running
<1>3. Frame.current = Nil
  BY <1>1, <1>2 DEF ActivationOK
<1>4. /\ stack = [R \in Structs |-> stack[R]] /\ \A R \in Structs : stack[R] \in Seq(Pointers(R))
  BY DEF HeapInv, HeapOK
<1>5. /\ stack' = [R \in Structs |-> stack'[R]]
      /\ \A R \in Structs : stack'[R] = IF R = S THEN Popped(S) ELSE stack[R]
  BY <1>1, <1>4
<1>6. /\ Popped(S) \in Seq(Pointers(S)) /\ i0 \in Pointers(S) /\ Len(stack[S]) \in DOMAIN stack[S]
      /\ i0 = stack[S][Len(stack[S])]
      /\ \A j : Occurrences(Popped(S), j) = Occurrences(stack[S], j) - (IF i0 = j THEN 1 ELSE 0)
      /\ \A k \in DOMAIN Popped(S) : k \in DOMAIN stack[S] /\ Popped(S)[k] = stack[S][k]
  <2>1. stack[S] \in Seq(Pointers(S))
    BY <1>2, <1>4
  <2>2. Len(stack[S]) \in DOMAIN stack[S] /\ i0 = stack[S][Len(stack[S])]
    BY <2>1, <1>1, <1>c DEF Top
  <2>3. /\ Popped(S) \in Seq(Pointers(S))
        /\ \A j : Occurrences(Popped(S), j) = Occurrences(stack[S], j) - (IF i0 = j THEN 1 ELSE 0)
    BY <2>1, <2>2, <1>1, OccurrencesFront DEF Popped
  <2>4. \A k \in DOMAIN Popped(S) : k \in DOMAIN stack[S] /\ Popped(S)[k] = stack[S][k]
    BY <2>1, <1>1 DEF Popped
  <2> QED BY <2>1, <2>2, <2>3, <2>4
<1>7. \A R \in Structs : stack'[R] \in Seq(Pointers(R)) /\ (stack'[R] # <<>> => stack[R] # <<>>)
  BY <1>1, <1>4, <1>5, <1>6
<1>8. \A R \in Structs : \A j \in Slots(R) :
         Occurrences(stack[R], j)' = Occurrences(stack[R], j) - (IF R = S /\ j = i0 THEN 1 ELSE 0)
         /\ Occurrences(stack[R], j) \in Nat
  <2> SUFFICES ASSUME NEW R \in Structs, NEW j \in Slots(R)
               PROVE  Occurrences(stack[R], j)' = Occurrences(stack[R], j) - (IF R = S /\ j = i0 THEN 1 ELSE 0)
                      /\ Occurrences(stack[R], j) \in Nat
    OBVIOUS
  <2>1. Occurrences(stack[R], j) \in Nat
    BY SlackParts DEF HeapInv
  <2>2. Occurrences(stack[R], j)' = Occurrences(stack'[R], j)
    BY DEF Occurrences
  <2>3. CASE R = S
    BY <2>1, <2>2, <2>3, <1>5, <1>6
  <2>4. CASE R # S
    BY <2>1, <2>2, <2>4, <1>5
  <2> QED BY <2>3, <2>4
<1>9. CASE i0 = Nil
  <2>1. calls' = calls /\ allocation' = allocation
    BY <1>1, <1>9
  <2>2. StacksHaveDrains'
    BY <2>1, <1>1, <1>2, <1>b, <1>7, DrainsRemain
  <2>3. Quiet => Quiet'
    <3>1. \A R \in Structs : \A k \in DOMAIN stack'[R] : k \in DOMAIN stack[R] /\ stack'[R][k] = stack[R][k]
      BY <1>5, <1>6
    <3> QED BY <3>1, <2>1 DEF Quiet
  <2>4. \A R \in Structs : \A j \in Slots(R) : Occurrences(stack[R], j)' = Occurrences(stack[R], j)
    <3> SUFFICES ASSUME NEW R \in Structs, NEW j \in Slots(R)
                 PROVE  Occurrences(stack[R], j)' = Occurrences(stack[R], j)
      OBVIOUS
    <3>1. j # i0
      BY <1>9, StructTypes
    <3>2. Occurrences(stack[R], j)' = Occurrences(stack[R], j) - 0 /\ Occurrences(stack[R], j) \in Nat
      BY <3>1, <1>8
    <3> QED BY <3>2
  <2>5. ActivationOK(calls'[n]) /\ calls'[n].self = Nil /\ calls'[n].current = Nil
    BY <2>1, <1>1, <1>2, <1>3
  <2>6. DOMAIN calls' = DOMAIN calls /\ calls' \in Seq(Activations)
        /\ \A k \in DOMAIN calls' : k # n => calls'[k] = calls[k]
    BY <2>1, <1>2
  <2> QED BY <2>1, <2>2, <2>3, <2>4, <2>5, <2>6, <1>1, <1>3, <1>5, <1>7, <1>b, UnheldKeeps
<1>10. CASE i0 # Nil
  <2>1. i0 \in Slots(S) /\ DecrementCount(S, i0) /\ Resume(Taken(S, i0))
    BY <1>1, <1>6, <1>10 DEF Pointers
  <2>2. ~Quiet
    BY <1>2, <1>6, <1>10 DEF Quiet
  <2>3. allocation[S][i0] >= 1
    BY <1>2, <1>6, <2>1, CountedIsAlive DEF HeapInv
  <2>4. \A R \in Structs : \A j \in Slots(R) :
              /\ Occurrences(stack[R], j)' \in Int /\ Cardinality(HeldBy(R, j)') \in Int
              /\ Occurrences(stack[R], j)' + Cardinality(HeldBy(R, j)')
                   = Occurrences(stack[R], j) + Cardinality(HeldBy(R, j)) - (IF R = S /\ j = i0 THEN 1 ELSE 0)
    <3> SUFFICES ASSUME NEW R \in Structs, NEW j \in Slots(R)
                 PROVE  /\ Occurrences(stack[R], j)' \in Int /\ Cardinality(HeldBy(R, j)') \in Int
                        /\ Occurrences(stack[R], j)' + Cardinality(HeldBy(R, j)')
                             = Occurrences(stack[R], j) + Cardinality(HeldBy(R, j)) - (IF R = S /\ j = i0 THEN 1 ELSE 0)
      OBVIOUS
    <3>1. j # Nil /\ Cardinality(HeldBy(R, j)) \in Nat
      BY StructTypes, SlackParts DEF HeapInv
    <3>2. HeldBy(R, j)' = HeldBy(R, j)
      <4>1. calls' = [calls EXCEPT ![n] = Taken(S, i0)]
        BY <2>1, <1>b DEF Resume
      <4>2. Taken(S, i0).current = Nil
        <5>1. Frame \in [of : Structs, turn : Nat \ {0}, current : Int, self : Int, left : SUBSET Members]
          BY <1>2 DEF Activations
        <5> QED BY <5>1 DEF Taken
      <4>3. DOMAIN calls' = DOMAIN calls /\ \A k \in DOMAIN calls : k # n => calls'[k] = calls[k]
        BY <4>1
      <4>4. calls'[n].current = Nil /\ calls[n].current = Nil
        BY <4>1, <4>2, <1>2, <1>3
      <4> QED BY <3>1, <4>3, <4>4 DEF HeldBy
    <3>3. Occurrences(stack[R], j)' = Occurrences(stack[R], j) - (IF R = S /\ j = i0 THEN 1 ELSE 0)
          /\ Occurrences(stack[R], j) \in Nat
      BY <1>8
    <3> QED BY <3>1, <3>2, <3>3
  <2>5. /\ Running /\ Frame.self = Nil /\ S = Drained
        /\ free_idx' = free_idx /\ member' = member /\ env' = env /\ todo' = todo
        /\ phase' = phase /\ expected' = expected /\ used' = used /\ tidy' = tidy
    BY <1>1, <1>a
  <2>6. /\ stack' = [R \in Structs |-> stack'[R]]
        /\ \A R \in Structs : stack'[R] \in Seq(Pointers(R)) /\ (stack'[R] # <<>> => stack[R] # <<>>)
    BY <1>5, <1>7
  <2> QED BY <2>1, <2>2, <2>3, <2>4, <2>5, <2>6, TakenKeeps
<1> QED BY <1>9, <1>10

(* A turn of the loop over a list keeps the invariant. *)
LEMMA FollowListKeeps == HeapInv /\ FollowList => HeapInv'
<1> SUFFICES ASSUME HeapInv, FollowList PROVE HeapInv'
  OBVIOUS
<1>a. PICK S : S = Frame.of
  OBVIOUS
<1>b. PICK n : n = Len(calls)
  OBVIOUS
<1>c. PICK i0 : i0 = Frame.current
  OBVIOUS
<1>1. /\ Running /\ IsLinear(S) /\ Frame.self = Nil /\ i0 # Nil
      /\ DecrementCount(S, i0) /\ Resume(Taken(S, i0))
      /\ free_idx' = free_idx /\ member' = member /\ env' = env /\ todo' = todo
      /\ phase' = phase /\ expected' = expected /\ used' = used /\ tidy' = tidy /\ stack' = stack
  BY <1>a, <1>c DEF FollowList, programVars
<1>2. /\ calls \in Seq(Activations) /\ n \in DOMAIN calls /\ calls[n] = Frame /\ calls # <<>>
      /\ ActivationOK(Frame) /\ Frame \in Activations
  BY <1>1, <1>b, RunningFrame DEF Running
<1>3. S = Drained /\ S \in Structs /\ i0 \in Slots(S)
  BY <1>1, <1>2, <1>a, <1>c DEF Drained, ActivationOK, Activations, Pointers
<1>4. n \in HeldBy(S, i0)
  BY <1>2, <1>a, <1>c DEF HeldBy
<1>5. allocation[S][i0] >= 1
  BY <1>3, <1>4, CountedIsAlive DEF HeapInv
<1>6. ~Quiet
  BY <1>1, <1>2, <1>c DEF Quiet
<1>7. /\ stack' = [R \in Structs |-> stack'[R]]
      /\ \A R \in Structs : stack'[R] \in Seq(Pointers(R)) /\ (stack'[R] # <<>> => stack[R] # <<>>)
  BY <1>1 DEF HeapInv, HeapOK
<1>8. /\ DOMAIN calls' = DOMAIN calls /\ (\A k \in DOMAIN calls : k # n => calls'[k] = calls[k])
      /\ calls'[n].current = Nil
  <2>1. calls' = [calls EXCEPT ![n] = Taken(S, i0)]
    BY <1>1, <1>b DEF Resume
  <2>2. Taken(S, i0).current = Nil
    <3>1. Frame \in [of : Structs, turn : Nat \ {0}, current : Int, self : Int, left : SUBSET Members]
      BY <1>2 DEF Activations
    <3> QED BY <3>1 DEF Taken
  <2> QED BY <2>1, <2>2, <1>2
<1>9. \A R \in Structs : \A j \in Slots(R) :
          /\ Occurrences(stack[R], j)' \in Int /\ Cardinality(HeldBy(R, j)') \in Int
          /\ Occurrences(stack[R], j)' + Cardinality(HeldBy(R, j)')
               = Occurrences(stack[R], j) + Cardinality(HeldBy(R, j)) - (IF R = S /\ j = i0 THEN 1 ELSE 0)
  <2> SUFFICES ASSUME NEW R \in Structs, NEW j \in Slots(R)
               PROVE  /\ Occurrences(stack[R], j)' \in Int /\ Cardinality(HeldBy(R, j)') \in Int
                      /\ Occurrences(stack[R], j)' + Cardinality(HeldBy(R, j)')
                           = Occurrences(stack[R], j) + Cardinality(HeldBy(R, j)) - (IF R = S /\ j = i0 THEN 1 ELSE 0)
    OBVIOUS
  <2>1. /\ IsFiniteSet(HeldBy(R, j)) /\ Cardinality(HeldBy(R, j)) \in Nat /\ Occurrences(stack[R], j) \in Nat
        /\ j # Nil
    BY StructTypes, SlackParts DEF HeapInv
  <2>2. Occurrences(stack[R], j)' = Occurrences(stack[R], j)
    BY <1>1
  <2>3. CASE R = S /\ j = i0
    <3>1. HeldBy(R, j)' = HeldBy(R, j) \ {n}
      BY <2>1, <1>8 DEF HeldBy
    <3>2. n \in HeldBy(R, j)
      BY <1>4, <2>3
    <3>3. Cardinality(HeldBy(R, j) \ {n}) = Cardinality(HeldBy(R, j)) - 1
      BY <3>2, <2>1, FS_RemoveElement
    <3> QED BY <3>1, <3>3, <2>1, <2>2, <2>3
  <2>4. CASE ~(R = S /\ j = i0)
    <3>1. HeldBy(R, j)' = HeldBy(R, j)
      BY <2>1, <2>4, <1>2, <1>8, <1>a, <1>c DEF HeldBy
    <3> QED BY <3>1, <2>1, <2>2, <2>4
  <2> QED BY <2>3, <2>4
<1> QED BY <1>1, <1>3, <1>5, <1>6, <1>7, <1>9, TakenKeeps

-----------------------------------------------------------------------------
(* Members *)

(* The object an activation releases, and one of its members. *)
LEMMA ReleasedMember ==
    ASSUME HeapInv, Running, NEW m \in Frame.left
    PROVE  /\ m \in Members /\ Owner[m] = Releasing(Frame) /\ TypeOf[m] \in Structs
           /\ Frame.self \in Slots(Owner[m]) /\ Frame.self # Nil
           /\ MemberOf(m, Frame.self) = member[m][Frame.self]
           /\ member[m][Frame.self] \in Pointers(TypeOf[m])
           /\ allocation[Owner[m]][Frame.self] = 0
           /\ ~Quiet
<1> USE DEF HeapInv
<1>1. /\ Len(calls) \in DOMAIN calls /\ Frame = calls[Len(calls)] /\ ActivationOK(Frame)
  BY RunningFrame
<1>2. m \in Members /\ Owner[m] = Releasing(Frame) /\ TypeOf[m] \in Structs
  BY <1>1, StructTypes DEF ActivationOK, MembersOf
<1>3. Frame.self # Nil /\ Frame.self \in Slots(Owner[m])
  BY <1>1, <1>2 DEF ActivationOK, Pointers
<1>4. MemberOf(m, Frame.self) = member[m][Frame.self] /\ member[m][Frame.self] \in Pointers(TypeOf[m])
  BY <1>2, <1>3 DEF MemberOf, HeapOK
<1>5. allocation[Owner[m]][Frame.self] = 0
  BY <1>1, <1>2, <1>3 DEF ReleasedOnce
<1>6. ~Quiet
  BY <1>1, <1>3 DEF Quiet
<1> QED BY <1>2, <1>3, <1>4, <1>5, <1>6

(* A member is passed on: its cell is not counted any more, and what it     *)
(* pointed to waits to be given back.                                      *)
LEMMA PassedKeeps ==
    ASSUME HeapInv, Running, NEW m \in Frame.left, NEW n, n = Len(calls),
           NEW i0, i0 = member[m][Frame.self],
           allocation' = allocation, free_idx' = free_idx, member' = member, env' = env, todo' = todo,
           phase' = phase, expected' = expected, used' = used, tidy' = tidy,
           calls' \in Seq(Activations), DOMAIN calls \subseteq DOMAIN calls',
           \A k \in DOMAIN calls : k # n => calls'[k] = calls[k],
           calls'[n].of = Frame.of, calls'[n].turn = Frame.turn, calls'[n].self = Frame.self,
           calls'[n].left = Frame.left \ {m}, ActivationOK(calls'[n]),
           \A k \in DOMAIN calls' : k \notin DOMAIN calls => ActivationOK(calls'[k]) /\ calls'[k].self = Nil,
           stack' = [R \in Structs |-> stack'[R]],
           \A R \in Structs : stack'[R] \in Seq(Pointers(R)),
           StacksHaveDrains',
           \A R \in Structs : \A j \in Slots(R) :
              /\ Occurrences(stack[R], j)' \in Int /\ Cardinality(HeldBy(R, j)') \in Int
              /\ Occurrences(stack[R], j)' + Cardinality(HeldBy(R, j)')
                   = Occurrences(stack[R], j) + Cardinality(HeldBy(R, j)) + (IF R = TypeOf[m] /\ j = i0 THEN 1 ELSE 0)
    PROVE  HeapInv'
<1> USE DEF HeapInv
<1>1. /\ n \in DOMAIN calls /\ calls[n] = Frame /\ n \in DOMAIN calls'
      /\ phase = "store" /\ todo # <<>> /\ Head(todo) = todo[1] /\ 1 \in DOMAIN todo
      /\ ~IsNew(todo[1])
  BY RunningFrame
<1>2. /\ m \in Members /\ Owner[m] = Releasing(Frame) /\ TypeOf[m] \in Structs
      /\ Frame.self \in Slots(Owner[m]) /\ Frame.self # Nil
      /\ i0 \in Pointers(TypeOf[m])
      /\ allocation[Owner[m]][Frame.self] = 0
      /\ ~Quiet
  BY ReleasedMember
<1>3. HeapOK'
  BY DEF HeapOK
<1>4. ActivationsOK'
  BY <1>1 DEF ActivationsOK
<1>5. \A k \in DOMAIN calls : /\ k \in DOMAIN calls' /\ calls'[k].self = calls[k].self
                              /\ Releasing(calls[k])' = Releasing(calls[k])
  BY <1>1 DEF Releasing
<1>6. \A k \in DOMAIN calls' : calls'[k].self # Nil => k \in DOMAIN calls
  BY <1>1
<1>7. ReleasedOnce'
  <2>1. \A k \in DOMAIN calls' : calls'[k].self # Nil => allocation[Releasing(calls[k])'][calls'[k].self] = 0
    BY <1>5, <1>6 DEF ReleasedOnce
  <2>2. ASSUME NEW j \in DOMAIN calls', NEW k \in DOMAIN calls', j # k, calls'[j].self # Nil,
               Releasing(calls[j])' = Releasing(calls[k])', calls'[j].self = calls'[k].self
        PROVE  FALSE
    BY <1>5, <1>6, <2>2 DEF ReleasedOnce
  <2> QED BY <2>1, <2>2 DEF ReleasedOnce
<1>8. \A R \in Structs : \A i \in Slots(R) : BeingReleased(R, i)' <=> BeingReleased(R, i)
  <2>1. \A R \in Structs : \A i \in Slots(R) : i # Nil
    BY StructTypes
  <2> QED BY <2>1, <1>5, <1>6 DEF BeingReleased
<1>9. /\ MovesOK' /\ PhaseOK' /\ TargetsReachable' /\ SourceReachable' /\ RoomForNew'
      /\ NewMembersAreNil' /\ NothingIsLost' /\ RightSideIsKept'
      /\ \A R : Building(R)' <=> Building(R)
      /\ Cell(Head(todo).to)' = Cell(Head(todo).to)
  BY ReleaseControl
<1>10. BuildingIsQuiet'
  BY <1>2, <1>9 DEF BuildingIsQuiet
<1>11. FreeSlotsAreFound' /\ FreeSlotsAreClean'
  BY <1>8, ReleaseSlots
<1>12. PICK c1 : c1 = <<m, Frame.self>>
  OBVIOUS
<1>13. c1 \notin Uncounted
  <2>1. c1 # Cell(Head(todo).to)
    <3> SUFFICES ASSUME c1 = Cell(Head(todo).to) PROVE FALSE
      OBVIOUS
    <3>1. todo[1].to.path = <<m>> /\ Index(todo[1].to) = Frame.self
      BY <1>1, <1>2, <1>12, TargetTyped, NamesAssumption
    <3>2. allocation[Owner[m]][Index(todo[1].to)] >= 1
      BY <3>1, <1>1, <1>2, TargetIsAlive
    <3> QED BY <3>1, <3>2, <1>2
  <2>2. ASSUME NEW k \in DOMAIN calls, calls[k].self # Nil,
               NEW l \in MembersOf(Releasing(calls[k])) \ calls[k].left, c1 = <<l, calls[k].self>>
        PROVE  FALSE
    <3>1. l = m /\ calls[k].self = Frame.self
      BY <2>2, <1>12
    <3>2. Releasing(calls[k]) = Releasing(calls[n])
      BY <3>1, <2>2, <1>1, <1>2 DEF MembersOf
    <3>3. k = n
      BY <3>1, <3>2, <2>2, <1>1 DEF ReleasedOnce
    <3> QED BY <3>1, <3>3, <2>2, <1>1
  <2> QED BY <2>1, <2>2, UncountedAre
<1>14. CountsOK' /\ CountsMatch'
  <2>1. SlackLaw /\ SlackLaw' /\ UncountedLaw /\ UncountedLaw'
    BY Laws, LawsNext, <1>3, <1>4
  <2> SUFFICES ASSUME NEW R \in Structs, NEW j \in Slots(R)
               PROVE  /\ Slack(R, j) \in Int /\ Slack(R, j)' \in Int
                      /\ Slack(R, j)' = Slack(R, j)
    BY CountsStep
  <2>2. \A k \in DOMAIN calls : MembersOf(Releasing(calls[k]))' = MembersOf(Releasing(calls[k]))
    BY <1>5 DEF MembersOf
  <2>3. \A c : c \in Uncounted' <=> c \in Uncounted \/ c = c1
    <3>1. \A c : c \in Uncounted' <=>
            \/ c = Cell(Head(todo).to)
            \/ \E k \in DOMAIN calls : /\ calls[k].self # Nil
                                   /\ \E l \in MembersOf(Releasing(calls[k])) \ calls'[k].left :
                                         c = <<l, calls[k].self>>
      <4>1. \A c : c \in Uncounted' <=>
            \/ phase' \in {"store", "retain"} /\ c = Cell(Head(todo).to)'
            \/ \E k \in DOMAIN calls' : /\ calls'[k].self # Nil
                                   /\ \E l \in MembersOf(Releasing(calls[k]))' \ calls'[k].left :
                                         c = <<l, calls'[k].self>>
        BY <2>1 DEF UncountedLaw
      <4>3. phase' \in {"store", "retain"}
        BY <1>1
      <4>4. Cell(Head(todo).to)' = Cell(Head(todo).to)
        BY <1>9
      <4> SUFFICES ASSUME NEW c
                   PROVE  c \in Uncounted' <=>
                            \/ c = Cell(Head(todo).to)
                            \/ \E k \in DOMAIN calls : /\ calls[k].self # Nil
                                 /\ \E l \in MembersOf(Releasing(calls[k])) \ calls'[k].left :
                                         c = <<l, calls[k].self>>
        OBVIOUS
      <4>5. c \in Uncounted' <=>
            \/ phase' \in {"store", "retain"} /\ c = Cell(Head(todo).to)'
            \/ \E k \in DOMAIN calls' : /\ calls'[k].self # Nil
                                   /\ \E l \in MembersOf(Releasing(calls[k]))' \ calls'[k].left :
                                         c = <<l, calls'[k].self>>
        BY <4>1, Zenon
      <4>6. (\E k \in DOMAIN calls' : /\ calls'[k].self # Nil
                                   /\ \E l \in MembersOf(Releasing(calls[k]))' \ calls'[k].left :
                                         c = <<l, calls'[k].self>>)
                 <=> (\E k \in DOMAIN calls : /\ calls[k].self # Nil
                                   /\ \E l \in MembersOf(Releasing(calls[k])) \ calls'[k].left :
                                         c = <<l, calls[k].self>>)
        BY <2>2, <1>5, <1>6
      <4> QED BY <4>3, <4>4, <4>5, <4>6
    <3>2. \A l : l \in MembersOf(Releasing(calls[n])) \ calls'[n].left
                   <=> l \in MembersOf(Releasing(calls[n])) \ calls[n].left \/ l = m
      BY <1>1, <1>2 DEF MembersOf
    <3>3. \A k \in DOMAIN calls : k # n => calls'[k].left = calls[k].left
      OBVIOUS
    <3>4. \A c : (\E k \in DOMAIN calls : /\ calls[k].self # Nil
                                   /\ \E l \in MembersOf(Releasing(calls[k])) \ calls'[k].left :
                                         c = <<l, calls[k].self>>)
             <=> (\E k \in DOMAIN calls : /\ calls[k].self # Nil
                                   /\ \E l \in MembersOf(Releasing(calls[k])) \ calls[k].left :
                                         c = <<l, calls[k].self>>) \/ c = c1
      BY <3>2, <3>3, <1>1, <1>2, <1>12
    <3> QED BY <2>1, <3>1, <3>4, <1>1 DEF UncountedLaw
  <2>4. CellRefs(R, j)' = CellRefs(R, j) \ {c1}
    <3>1. CellRefs(R, j)' = { c \in CellsOf[R] : CellValue(c)' = j } \ Uncounted'
      BY DEF CellRefs
    <3>2. \A c : CellValue(c)' = CellValue(c)
      BY DEF CellValue
    <3> QED BY <3>1, <3>2, <2>3 DEF CellRefs
  <2>5. PICK D : D = (IF R = TypeOf[m] /\ j = i0 THEN 1 ELSE 0)
    OBVIOUS
  <2>6. D = 1 <=> c1 \in CellRefs(R, j)
    <3>1. c1 \in Cells /\ CellValue(c1) = i0 /\ c1[1] = m
      <4>1. c1 \in {m} \X Slots(Owner[m]) /\ m \notin Vars
        BY <1>2, <1>12, NamesAssumption
      <4> QED BY <4>1, <1>2, <1>12 DEF Cells, CellValue
    <3>2. c1 \in CellsOf[R] <=> R = TypeOf[m]
      BY <3>1 DEF CellsOf
    <3> QED BY <3>1, <3>2, <2>5, <1>13 DEF CellRefs
  <2>7. IsFiniteSet(CellRefs(R, j))
    BY CellsOfFinite DEF CellRefs
  <2>8. Cardinality(CellRefs(R, j)') = Cardinality(CellRefs(R, j)) - D /\ Cardinality(CellRefs(R, j)) \in Nat
    <3>1. CASE D = 1
      <4>1. Cardinality(CellRefs(R, j) \ {c1}) = Cardinality(CellRefs(R, j)) - 1
        BY <3>1, <2>6, <2>7, FS_RemoveElement
      <4> QED BY <4>1, <3>1, <2>1, <2>4 DEF SlackLaw
    <3>2. CASE D = 0
      <4>1. CellRefs(R, j)' = CellRefs(R, j)
        BY <3>2, <2>4, <2>6
      <4> QED BY <4>1, <3>2, <2>1 DEF SlackLaw
    <3> QED BY <3>1, <3>2, <2>5
  <2>9. Pending(R, j)' = Pending(R, j)
    BY <1>9 DEF Pending
  <2>10. D \in Int
    BY <2>5
  <2>11. /\ Occurrences(stack[R], j)' \in Int /\ Cardinality(HeldBy(R, j)') \in Int
         /\ Occurrences(stack[R], j)' + Cardinality(HeldBy(R, j)')
                   = Occurrences(stack[R], j) + Cardinality(HeldBy(R, j)) + D
    BY <2>5
  <2>12. /\ Occurrences(stack[R], j) \in Nat
        /\ Cardinality(HeldBy(R, j)) \in Nat /\ Pending(R, j) \in {0, 1} /\ allocation[R][j] \in Nat
        /\ Slack(R, j) = allocation[R][j] - Cardinality(CellRefs(R, j))
             - Occurrences(stack[R], j) - Cardinality(HeldBy(R, j)) - Pending(R, j)
    BY <2>1 DEF SlackLaw
  <2>13. Slack(R, j)' = allocation[R][j]' - Cardinality(CellRefs(R, j)')
             - Occurrences(stack[R], j)' - Cardinality(HeldBy(R, j)') - Pending(R, j)'
    BY <2>1 DEF SlackLaw
  <2>14. allocation[R][j]' = allocation[R][j]
    OBVIOUS
  <2> HIDE DEF HeapInv
  <2>15. Slack(R, j)' = Slack(R, j) /\ Slack(R, j) \in Int
    BY <2>8, <2>9, <2>10, <2>11, <2>12, <2>13, <2>14, BalanceOfMember
  <2> QED BY <2>15
<1> QED BY <1>3, <1>4, <1>7, <1>9, <1>10, <1>11, <1>14

(* The release of a plain member keeps the invariant: its reference is      *)
(* handed to a __decr__ of its own.                                         *)
LEMMA ReleaseMemberKeeps ==
    ASSUME NEW m \in Members
    PROVE  HeapInv /\ ReleaseMember(m) => HeapInv'
<1> SUFFICES ASSUME HeapInv, ReleaseMember(m) PROVE HeapInv'
  OBVIOUS
<1>a. PICK n : n = Len(calls)
  OBVIOUS
<1>b. PICK i0 : i0 = member[m][Frame.self]
  OBVIOUS
<1>c. PICK T : T = TypeOf[m]
  OBVIOUS
<1>d. PICK callers : callers = [calls EXCEPT ![Len(calls)].left = @ \ {m}]
  OBVIOUS
<1>e. Running /\ m \in Frame.left
  BY DEF ReleaseMember
<1>f. /\ Owner[m] = Releasing(Frame) /\ T \in Structs
      /\ Frame.self \in Slots(Owner[m]) /\ Frame.self # Nil /\ MemberOf(m, Frame.self) = i0
      /\ i0 \in Pointers(T) /\ allocation[Owner[m]][Frame.self] = 0
  BY <1>b, <1>c, <1>e, ReleasedMember
<1>1. /\ Enter(T, i0, callers)
      /\ allocation' = allocation /\ free_idx' = free_idx /\ member' = member /\ env' = env /\ todo' = todo
      /\ phase' = phase /\ expected' = expected /\ used' = used /\ tidy' = tidy
  BY <1>c, <1>d, <1>f DEF ReleaseMember, programVars
<1>2. /\ calls \in Seq(Activations) /\ n \in DOMAIN calls /\ calls[n] = Frame /\ calls # <<>>
      /\ ActivationOK(Frame) /\ Frame \in Activations
  BY <1>a, <1>e, RunningFrame DEF Running
<1>3. PICK f : f = [Frame EXCEPT !.left = @ \ {m}]
  OBVIOUS
<1>4. /\ f \in Activations /\ f.of = Frame.of /\ f.turn = Frame.turn /\ f.self = Frame.self
      /\ f.current = Frame.current /\ f.left = Frame.left \ {m}
  <2>1. Frame \in [of : Structs, turn : Nat \ {0}, current : Int, self : Int, left : SUBSET Members]
    BY <1>2 DEF Activations
  <2> QED BY <2>1, <1>3 DEF Activations
<1>5. ActivationOK(f)
  <2>1. Releasing(f) = Releasing(Frame)
    BY <1>4 DEF Releasing
  <2> QED BY <2>1, <1>2, <1>4, <1>f DEF ActivationOK
<1>6. /\ callers \in Seq(Activations) /\ DOMAIN callers = DOMAIN calls /\ callers[n] = f
      /\ \A k \in DOMAIN calls : k # n => callers[k] = calls[k]
  <2>1. callers = [calls EXCEPT ![n] = f]
    BY <1>a, <1>d, <1>2, <1>3
  <2> QED BY <2>1, <1>2, <1>4
<1>7. \A k \in DOMAIN calls : callers[k].of = calls[k].of /\ callers[k].current = calls[k].current
  BY <1>2, <1>4, <1>6
<1>8. /\ calls' = Append(callers, Activation(T, i0))
      /\ stack' = [S \in Structs |-> stack'[S]]
      /\ \A S \in Structs : stack'[S] = IF S = T /\ ~IsLinear(T) THEN Append(stack[S], i0) ELSE stack[S]
  <2>1. stack = [S \in Structs |-> stack[S]]
    BY DEF HeapInv, HeapOK
  <2> QED BY <2>1, <1>1 DEF Enter, Push
<1>9. HeapOK /\ ActivationsOK
  BY DEF HeapInv
<1>10. /\ calls' \in Seq(Activations) /\ DOMAIN calls' = DOMAIN calls \cup {Len(calls) + 1}
       /\ Len(calls) + 1 \notin DOMAIN calls
       /\ \A k \in DOMAIN calls : calls'[k] = callers[k]
       /\ calls'[Len(calls) + 1] = Activation(T, i0)
  BY <1>6, <1>7, <1>8, <1>9, <1>f, EnterRefs
<1>11. /\ \A S \in Structs : stack'[S] \in Seq(Pointers(S))
       /\ \A S \in Structs : stack'[S] = stack[S]
                \/ (S = T /\ ~IsLinear(T) /\ stack'[S] = Append(stack[S], i0))
  BY <1>6, <1>7, <1>8, <1>9, <1>f, EnterRefs
<1>12. \A S \in Structs : \A j \in Slots(S) :
              Occurrences(stack[S], j)' + Cardinality(HeldBy(S, j)')
                = Occurrences(stack[S], j) + Cardinality(HeldBy(S, j)) + (IF S = T /\ j = i0 THEN 1 ELSE 0)
  BY <1>6, <1>7, <1>8, <1>9, <1>f, EnterRefs
<1>13. /\ ActivationOK(Activation(T, i0)) /\ Activation(T, i0).of = T /\ Activation(T, i0).self = Nil
  BY <1>f, EnteredOK
<1>14. /\ \A k \in DOMAIN calls : k # n => calls'[k] = calls[k]
       /\ calls'[n] = f /\ DOMAIN calls \subseteq DOMAIN calls'
       /\ \A k \in DOMAIN calls' : k \notin DOMAIN calls => ActivationOK(calls'[k]) /\ calls'[k].self = Nil
  BY <1>2, <1>6, <1>10, <1>13
<1>15. ActivationsOK'
  BY <1>2, <1>5, <1>9, <1>10, <1>14 DEF ActivationsOK
<1>16. HeapOK'
  BY <1>1, <1>8, <1>9, <1>11 DEF HeapOK
<1>17. \A S \in Structs : \A j \in Slots(S) :
              /\ Occurrences(stack[S], j)' \in Int /\ Cardinality(HeldBy(S, j)') \in Int
              /\ Occurrences(stack[S], j)' + Cardinality(HeldBy(S, j)')
                   = Occurrences(stack[S], j) + Cardinality(HeldBy(S, j)) + (IF S = TypeOf[m] /\ j = i0 THEN 1 ELSE 0)
  <2>1. SlackLaw'
    BY <1>15, <1>16, LawsNext
  <2>2. \A S \in Structs : \A j \in Slots(S) : Occurrences(stack[S], j)' \in Int /\ Cardinality(HeldBy(S, j)') \in Int
    BY <2>1 DEF SlackLaw
  <2> QED BY <2>2, <1>12, <1>c
<1>18. StacksHaveDrains'
  <2> SUFFICES ASSUME NEW R \in Structs, stack'[R] # <<>>
               PROVE  \E k \in DOMAIN calls' : ~IsLinear(calls'[k].of)
                                /\ \E t \in DOMAIN Turns(calls'[k].of) : Turns(calls'[k].of)[t] = R
    BY DEF StacksHaveDrains
  <2>1. CASE stack[R] # <<>>
    <3>1. PICK k \in DOMAIN calls : ~IsLinear(calls[k].of)
                                /\ \E t \in DOMAIN Turns(calls[k].of) : Turns(calls[k].of)[t] = R
      BY <2>1 DEF StacksHaveDrains, HeapInv
    <3>2. calls'[k].of = calls[k].of /\ k \in DOMAIN calls'
      BY <1>7, <1>10
    <3> QED BY <3>1, <3>2
  <2>2. CASE stack[R] = <<>>
    <3>1. R = T /\ ~IsLinear(T)
      BY <2>2, <1>11
    <3>2. 1 \in DOMAIN Turns(T) /\ Turns(T)[1] = T
      BY <1>f, TurnsOf
    <3>3. Len(calls) + 1 \in DOMAIN calls' /\ calls'[Len(calls) + 1].of = T
      BY <1>10, <1>13
    <3> QED BY <3>1, <3>2, <3>3
  <2> QED BY <2>1, <2>2
<1>19. calls'[n].of = Frame.of /\ calls'[n].turn = Frame.turn /\ calls'[n].self = Frame.self
       /\ calls'[n].left = Frame.left \ {m} /\ ActivationOK(calls'[n])
  BY <1>4, <1>5, <1>14
<1>20. stack' = [R \in Structs |-> stack'[R]] /\ \A R \in Structs : stack'[R] \in Seq(Pointers(R))
  BY <1>8, <1>11
<1>21. /\ allocation' = allocation /\ free_idx' = free_idx /\ member' = member /\ env' = env /\ todo' = todo
       /\ phase' = phase /\ expected' = expected /\ used' = used /\ tidy' = tidy
  BY <1>1
<1>22. calls' \in Seq(Activations)
  BY <1>10
<1>23. /\ \A k \in DOMAIN calls : k # n => calls'[k] = calls[k]
       /\ DOMAIN calls \subseteq DOMAIN calls'
       /\ \A k \in DOMAIN calls' : k \notin DOMAIN calls => ActivationOK(calls'[k]) /\ calls'[k].self = Nil
  BY <1>14
<1> QED BY <1>a, <1>b, <1>e, <1>17, <1>18, <1>19, <1>20, <1>21, <1>22, <1>23, PassedKeeps, SMTT(60)

(* Passing on a recursive member keeps the invariant: its reference goes to *)
(* the list or on a stack, which the running release drains because the     *)
(* recursion is closed.                                                     *)
LEMMA PassOnMemberKeeps ==
    ASSUME RecursionIsClosed, NEW m \in Members
    PROVE  HeapInv /\ PassOnMember(m) => HeapInv'
<1> SUFFICES ASSUME HeapInv, PassOnMember(m) PROVE HeapInv'
  OBVIOUS
<1>a. PICK n : n = Len(calls)
  OBVIOUS
<1>b. PICK i0 : i0 = member[m][Frame.self]
  OBVIOUS
<1>c. PICK T : T = TypeOf[m]
  OBVIOUS
<1>e. Running /\ m \in Frame.left /\ IsRecursive(m) /\ \A l \in Frame.left : IsRecursive(l)
  BY DEF PassOnMember
<1>f. /\ Owner[m] = Releasing(Frame) /\ T \in Structs
      /\ Frame.self \in Slots(Owner[m]) /\ Frame.self # Nil /\ MemberOf(m, Frame.self) = i0
      /\ i0 \in Pointers(T) /\ allocation[Owner[m]][Frame.self] = 0
  BY <1>b, <1>c, <1>e, ReleasedMember
<1>1. /\ allocation' = allocation /\ free_idx' = free_idx /\ member' = member /\ env' = env /\ todo' = todo
      /\ phase' = phase /\ expected' = expected /\ used' = used /\ tidy' = tidy
  BY DEF PassOnMember, programVars
<1>2. /\ calls \in Seq(Activations) /\ n \in DOMAIN calls /\ calls[n] = Frame /\ calls # <<>>
      /\ ActivationOK(Frame) /\ Frame \in Activations
      /\ Frame \in [of : Structs, turn : Nat \ {0}, current : Int, self : Int, left : SUBSET Members]
  BY <1>a, <1>e, RunningFrame DEF Running, Activations
<1>3. Frame.current = Nil
  BY <1>e, <1>2 DEF ActivationOK
<1>4. HeapOK /\ ActivationsOK /\ stack = [R \in Structs |-> stack[R]]
      /\ \A R \in Structs : stack[R] \in Seq(Pointers(R))
  BY DEF HeapInv, HeapOK
<1>5. /\ Frame.of \in Structs /\ Releasing(Frame) \in {Frame.of} \cup Recursive[Frame.of]
      /\ m \in RecursiveMembersOf(Releasing(Frame)) /\ MembersOf(Releasing(Frame)) \subseteq Members
  BY <1>2, <1>e, <1>f, ReleasingTyped DEF RecursiveMembersOf, MembersOf
(* The next object of a list. *)
<1>6. CASE IsLinear(Frame.of)
  <2>1. PICK f : f = [Frame EXCEPT !.left = @ \ {m}, !.current = i0]
    OBVIOUS
  <2>2. i0 \in Int
    BY <1>f, StructTypes DEF Pointers, Nil
  <2>3. /\ f \in Activations /\ f.of = Frame.of /\ f.turn = Frame.turn /\ f.self = Frame.self
        /\ f.current = i0 /\ f.left = Frame.left \ {m}
    BY <1>2, <2>1, <2>2 DEF Activations
  <2>4. Releasing(Frame) = Frame.of
    BY <1>6 DEF Releasing
  <2>5. TypeOf[m] = Frame.of /\ RecursiveMembersOf(Frame.of) = {m}
    <3>1. Recursive[Frame.of] # {}
      BY <1>e, <1>f, <2>4 DEF IsRecursive
    <3>2. PICK l \in Members : RecursiveMembersOf(Frame.of) = {l} /\ TypeOf[l] = Frame.of
      BY <3>1, <1>6 DEF IsLinear
    <3>3. m = l
      BY <3>2, <1>5, <2>4
    <3> QED BY <3>2, <3>3
  <2>6. f.left = {}
    <3>1. Frame.left \subseteq RecursiveMembersOf(Frame.of)
      BY <1>2, <1>e, <2>4 DEF ActivationOK, RecursiveMembersOf
    <3> QED BY <3>1, <2>3, <2>5
  <2>7. ActivationOK(f)
    <3>1. Releasing(f) = Releasing(Frame)
      BY <2>3 DEF Releasing
    <3>2. f.current \in Pointers(f.of)
      BY <2>3, <2>5, <1>c, <1>f
    <3> QED BY <3>1, <3>2, <2>3, <2>6, <1>2, <1>6 DEF ActivationOK
  <2>8. calls' = [calls EXCEPT ![Len(calls)] = f] /\ stack' = stack
    BY <1>6, <1>f, <2>1 DEF PassOnMember, Resume
  <2>9. /\ calls' \in Seq(Activations) /\ DOMAIN calls' = DOMAIN calls /\ calls'[n] = f
        /\ \A k \in DOMAIN calls : k # n => calls'[k] = calls[k]
    BY <2>3, <2>8, <1>2, <1>a, Resumed
  <2>10. StacksHaveDrains'
    BY <2>3, <2>8, <2>9, <1>2, <1>a, <1>e, DrainsRemain
  <2>11. \A R \in Structs : \A j \in Slots(R) :
              /\ Occurrences(stack[R], j)' \in Int /\ Cardinality(HeldBy(R, j)') \in Int
              /\ Occurrences(stack[R], j)' + Cardinality(HeldBy(R, j)')
                   = Occurrences(stack[R], j) + Cardinality(HeldBy(R, j)) + (IF R = TypeOf[m] /\ j = i0 THEN 1 ELSE 0)
    <3> SUFFICES ASSUME NEW R \in Structs, NEW j \in Slots(R)
                 PROVE  /\ Occurrences(stack[R], j)' \in Int /\ Cardinality(HeldBy(R, j)') \in Int
                        /\ Occurrences(stack[R], j)' + Cardinality(HeldBy(R, j)')
                             = Occurrences(stack[R], j) + Cardinality(HeldBy(R, j)) + (IF R = TypeOf[m] /\ j = i0 THEN 1 ELSE 0)
      OBVIOUS
    <3>1. /\ IsFiniteSet(HeldBy(R, j)) /\ Cardinality(HeldBy(R, j)) \in Nat /\ Occurrences(stack[R], j) \in Nat
          /\ j # Nil
      BY <1>4, StructTypes, SlackParts
    <3>2. Occurrences(stack[R], j)' = Occurrences(stack[R], j)
      BY <2>8
    <3>3. CASE R = TypeOf[m] /\ j = i0
      <4>1. HeldBy(R, j)' = HeldBy(R, j) \cup {n}
        BY <3>1, <3>3, <1>2, <1>3, <2>3, <2>5, <2>9 DEF HeldBy
      <4>2. n \notin HeldBy(R, j)
        BY <3>1, <1>2, <1>3 DEF HeldBy
      <4>3. Cardinality(HeldBy(R, j) \cup {n}) = Cardinality(HeldBy(R, j)) + 1
        BY <4>2, <3>1, FS_AddElement
      <4> QED BY <4>1, <4>3, <3>1, <3>2, <3>3
    <3>4. CASE ~(R = TypeOf[m] /\ j = i0)
      <4>1. HeldBy(R, j)' = HeldBy(R, j)
        BY <3>1, <3>4, <1>2, <1>3, <2>3, <2>5, <2>9 DEF HeldBy
      <4> QED BY <4>1, <3>1, <3>2, <3>4
    <3> QED BY <3>3, <3>4
  <2>12. stack' = [R \in Structs |-> stack'[R]] /\ \A R \in Structs : stack'[R] \in Seq(Pointers(R))
    BY <2>8, <1>4
  <2>13. /\ calls'[n].of = Frame.of /\ calls'[n].turn = Frame.turn /\ calls'[n].self = Frame.self
         /\ calls'[n].left = Frame.left \ {m} /\ ActivationOK(calls'[n])
         /\ DOMAIN calls \subseteq DOMAIN calls'
         /\ \A k \in DOMAIN calls' : k \notin DOMAIN calls => ActivationOK(calls'[k]) /\ calls'[k].self = Nil
    BY <2>3, <2>7, <2>9
  <2> QED BY <1>a, <1>b, <1>e, <1>1, <2>9, <2>10, <2>11, <2>12, <2>13, PassedKeeps
(* One more on a stack, which the activation drains. *)
<1>7. CASE ~IsLinear(Frame.of)
  <2>1. PICK f : f = [Frame EXCEPT !.left = @ \ {m}]
    OBVIOUS
  <2>3. /\ f \in Activations /\ f.of = Frame.of /\ f.turn = Frame.turn /\ f.self = Frame.self
        /\ f.current = Nil /\ f.left = Frame.left \ {m}
    BY <1>2, <1>3, <2>1 DEF Activations
  <2>4. ActivationOK(f)
    <3>1. Releasing(f) = Releasing(Frame)
      BY <2>3 DEF Releasing
    <3>2. f.current \in Pointers(f.of)
      BY <2>3 DEF Pointers
    <3> QED BY <3>1, <3>2, <2>3, <1>2, <1>f DEF ActivationOK
  <2>5. /\ calls' = [calls EXCEPT ![Len(calls)] = f]
        /\ stack' = IF i0 = Nil THEN stack ELSE Push(T, i0)
    BY <1>7, <1>c, <1>f, <2>1 DEF PassOnMember, Resume
  <2>6. /\ calls' \in Seq(Activations) /\ DOMAIN calls' = DOMAIN calls /\ calls'[n] = f
        /\ \A k \in DOMAIN calls : k # n => calls'[k] = calls[k]
    BY <2>3, <2>5, <1>2, <1>a, Resumed
  <2>7. /\ stack' = [R \in Structs |-> stack'[R]]
        /\ \A R \in Structs : stack'[R] = IF R = T /\ i0 # Nil THEN Append(stack[R], i0) ELSE stack[R]
    BY <2>5, <1>4 DEF Push
  <2>8. \A R \in Structs : stack'[R] \in Seq(Pointers(R))
    <3> SUFFICES ASSUME NEW R \in Structs PROVE stack'[R] \in Seq(Pointers(R))
      OBVIOUS
    <3>1. CASE R = T /\ i0 # Nil
      <4>1. stack'[R] = Append(stack[R], i0) /\ i0 \in Pointers(R) /\ stack[R] \in Seq(Pointers(R))
        BY <3>1, <2>7, <1>4, <1>f
      <4> QED BY <4>1
    <3>2. CASE ~(R = T /\ i0 # Nil)
      BY <3>2, <2>7, <1>4
    <3> QED BY <3>1, <3>2
  <2>9. StacksHaveDrains'
    <3> SUFFICES ASSUME NEW R \in Structs, stack'[R] # <<>>
                 PROVE  \E k \in DOMAIN calls' : ~IsLinear(calls'[k].of)
                                /\ \E t \in DOMAIN Turns(calls'[k].of) : Turns(calls'[k].of)[t] = R
      BY DEF StacksHaveDrains
    <3>1. CASE stack[R] # <<>>
      <4>1. PICK k \in DOMAIN calls : ~IsLinear(calls[k].of)
                                /\ \E t \in DOMAIN Turns(calls[k].of) : Turns(calls[k].of)[t] = R
        BY <3>1 DEF StacksHaveDrains, HeapInv
      <4>2. calls'[k].of = calls[k].of /\ k \in DOMAIN calls'
        BY <1>2, <2>3, <2>6
      <4> QED BY <4>1, <4>2
    <3>2. CASE stack[R] = <<>>
      <4>1. R = T
        BY <3>2, <2>7
      <4>2. T \in {Frame.of} \cup Recursive[Frame.of]
        BY <1>5, <1>c DEF RecursionIsClosed
      <4>3. \E t \in DOMAIN Turns(Frame.of) : Turns(Frame.of)[t] = T
        <5>1. CASE ~IsDirect(Frame.of)
          BY <5>1, <4>2, <1>5, TurnsOf
        <5>2. CASE IsDirect(Frame.of)
          <6>1. Turns(Frame.of) = <<Frame.of>>
            BY <5>2 DEF Turns
          <6>2. Releasing(Frame) = Frame.of
            <7>1. Frame.turn \in DOMAIN <<Frame.of>>
              BY <6>1, <1>2 DEF ActivationOK
            <7>2. Frame.turn = 1
              BY <7>1
            <7> QED BY <7>2, <6>1, <1>7 DEF Releasing
          <6>3. T = Frame.of
            BY <6>2, <5>2, <1>5, <1>c DEF IsDirect
          <6> QED BY <6>1, <6>3
        <5> QED BY <5>1, <5>2
      <4>4. calls'[n].of = Frame.of /\ n \in DOMAIN calls'
        BY <1>2, <2>3, <2>6
      <4> QED BY <4>1, <4>3, <4>4, <1>7
    <3> QED BY <3>1, <3>2
  <2>10. \A R \in Structs : \A j \in Slots(R) :
              /\ Occurrences(stack[R], j)' \in Int /\ Cardinality(HeldBy(R, j)') \in Int
              /\ Occurrences(stack[R], j)' + Cardinality(HeldBy(R, j)')
                   = Occurrences(stack[R], j) + Cardinality(HeldBy(R, j)) + (IF R = TypeOf[m] /\ j = i0 THEN 1 ELSE 0)
    <3> SUFFICES ASSUME NEW R \in Structs, NEW j \in Slots(R)
                 PROVE  /\ Occurrences(stack[R], j)' \in Int /\ Cardinality(HeldBy(R, j)') \in Int
                        /\ Occurrences(stack[R], j)' + Cardinality(HeldBy(R, j)')
                             = Occurrences(stack[R], j) + Cardinality(HeldBy(R, j)) + (IF R = TypeOf[m] /\ j = i0 THEN 1 ELSE 0)
      OBVIOUS
    <3>1. /\ Cardinality(HeldBy(R, j)) \in Nat /\ Occurrences(stack[R], j) \in Nat /\ j # Nil
      BY <1>4, StructTypes, SlackParts
    <3>2. HeldBy(R, j)' = HeldBy(R, j)
      BY <3>1, <1>2, <1>3, <2>3, <2>6 DEF HeldBy
    <3>3. Occurrences(stack[R], j)' = Occurrences(stack'[R], j)
      BY DEF Occurrences
    <3>4. CASE R = T /\ i0 # Nil
      <4>1. stack[R] \in Seq(Pointers(T)) /\ stack'[R] = Append(stack[R], i0)
        BY <3>4, <2>7, <1>4
      <4>2. Occurrences(stack'[R], j) = Occurrences(stack[R], j) + (IF i0 = j THEN 1 ELSE 0)
        BY <4>1, <1>f, OccurrencesAppend
      <4> QED BY <4>2, <3>1, <3>2, <3>3, <3>4, <1>c
    <3>5. CASE ~(R = T /\ i0 # Nil)
      <4>1. stack'[R] = stack[R] /\ ~(R = TypeOf[m] /\ j = i0)
        BY <3>1, <3>5, <2>7, <1>c
      <4> QED BY <4>1, <3>1, <3>2, <3>3
    <3> QED BY <3>4, <3>5
  <2>13. /\ calls'[n].of = Frame.of /\ calls'[n].turn = Frame.turn /\ calls'[n].self = Frame.self
         /\ calls'[n].left = Frame.left \ {m} /\ ActivationOK(calls'[n])
         /\ DOMAIN calls \subseteq DOMAIN calls'
         /\ \A k \in DOMAIN calls' : k \notin DOMAIN calls => ActivationOK(calls'[k]) /\ calls'[k].self = Nil
    BY <2>3, <2>4, <2>6
  <2>14. stack' = [R \in Structs |-> stack'[R]] /\ \A R \in Structs : stack'[R] \in Seq(Pointers(R))
    BY <2>7, <2>8
  <2> QED BY <1>a, <1>b, <1>e, <1>1, <2>6, <2>9, <2>10, <2>13, <2>14, PassedKeeps
<1> QED BY <1>6, <1>7

-----------------------------------------------------------------------------
(* __del__ *)

(* What __del__ changes. *)
LEMMA DestroyEffect ==
    ASSUME HeapInv, Destroy
    PROVE  /\ Running /\ Frame.self # Nil /\ Frame.left = {} /\ ~Quiet
           /\ Drained \in Structs /\ Frame.self \in Slots(Drained) /\ allocation[Drained][Frame.self] = 0
           /\ allocation' = allocation /\ stack' = stack /\ env' = env /\ todo' = todo
           /\ phase' = phase /\ expected' = expected /\ used' = used /\ tidy' = tidy
           /\ free_idx' = [R \in Structs |-> free_idx'[R]]
           /\ \A R \in Structs : free_idx'[R] \in Slots(R) /\ free_idx'[R] <= free_idx[R] /\ free_idx[R] \in Int
           /\ free_idx'[Drained] <= Frame.self
           /\ member' = [m \in Members |-> member'[m]]
           /\ \A m \in Members :
                 /\ member'[m] \in [Slots(Owner[m]) -> Pointers(TypeOf[m])]
                 /\ \A x \in Slots(Owner[m]) :
                      member'[m][x] = IF Owner[m] = Drained /\ x = Frame.self THEN Nil ELSE member[m][x]
<1> USE DEF HeapInv
<1>a. PICK S : S = Drained
  OBVIOUS
<1>b. PICK i0 : i0 = Frame.self
  OBVIOUS
<1>1. /\ Running /\ i0 # Nil /\ Frame.left = {}
      /\ allocation' = allocation /\ stack' = stack /\ env' = env /\ todo' = todo
      /\ phase' = phase /\ expected' = expected /\ used' = used /\ tidy' = tidy
      /\ member' = [m \in Members |-> IF Owner[m] = S THEN [member[m] EXCEPT ![i0] = Nil] ELSE member[m]]
      /\ free_idx' = [free_idx EXCEPT ![S] = IF i0 < @ THEN i0 ELSE @]
  BY <1>a, <1>b DEF Destroy, programVars
<1>2. /\ S \in Structs /\ Len(calls) \in DOMAIN calls /\ Frame = calls[Len(calls)] /\ ActivationOK(Frame)
      /\ S = Releasing(Frame)
  BY <1>1, <1>a, RunningFrame
<1>3. i0 \in Slots(S) /\ allocation[S][i0] = 0 /\ ~Quiet
  BY <1>1, <1>2, <1>b DEF ActivationOK, Pointers, ReleasedOnce, Quiet
<1>4. /\ free_idx = [R \in Structs |-> free_idx[R]] /\ \A R \in Structs : free_idx[R] \in Slots(R)
      /\ \A R \in Structs : Slots(R) \subseteq Int
  BY StructTypes DEF HeapOK
<1>5. /\ free_idx' = [R \in Structs |-> free_idx'[R]]
      /\ \A R \in Structs : free_idx'[R] = IF R = S /\ i0 < free_idx[S] THEN i0 ELSE free_idx[R]
  BY <1>1, <1>4
<1>6. \A R \in Structs : free_idx'[R] \in Slots(R) /\ free_idx'[R] <= free_idx[R] /\ free_idx[R] \in Int
  BY <1>3, <1>4, <1>5
<1>7. free_idx'[S] <= i0
  <2>1. i0 \in Int /\ free_idx[S] \in Int
    BY <1>2, <1>3, <1>4
  <2> QED BY <2>1, <1>2, <1>5
<1>8. /\ member' = [m \in Members |-> member'[m]]
      /\ \A m \in Members :
            member'[m] = IF Owner[m] = S THEN [member[m] EXCEPT ![i0] = Nil] ELSE member[m]
  BY <1>1
<1>9. ASSUME NEW m \in Members
      PROVE  /\ member'[m] \in [Slots(Owner[m]) -> Pointers(TypeOf[m])]
             /\ \A x \in Slots(Owner[m]) :
                      member'[m][x] = IF Owner[m] = S /\ x = i0 THEN Nil ELSE member[m][x]
  <2>1. member[m] \in [Slots(Owner[m]) -> Pointers(TypeOf[m])] /\ Nil \in Pointers(TypeOf[m])
    BY DEF HeapOK, Pointers
  <2>2. CASE Owner[m] = S
    BY <2>1, <2>2, <1>3, <1>8
  <2>3. CASE Owner[m] # S
    BY <2>1, <2>3, <1>8
  <2> QED BY <2>2, <2>3
<1> QED BY <1>a, <1>b, <1>1, <1>2, <1>3, <1>5, <1>6, <1>7, <1>8, <1>9

(* The places of the move that waits for the release. *)
LEMMA DestroyPlaces ==
    ASSUME HeapInv, Destroy
    PROVE  /\ Cell(todo[1].to)' = Cell(todo[1].to)
           /\ SourceReachable'
           /\ CellsRead(todo[1].from)' = CellsRead(todo[1].from)
           /\ Cell(todo[1].to) \notin CellsRead(todo[1].from) =>
                Value(todo[1].from)' = Value(todo[1].from)
<1> USE DEF HeapInv
<1>a. PICK to : to = todo[1].to
  OBVIOUS
<1>b. PICK from : from = todo[1].from
  OBVIOUS
<1>1. /\ Running /\ ~Quiet /\ env' = env /\ todo' = todo /\ phase' = phase
      /\ Drained \in Structs /\ Frame.self \in Slots(Drained) /\ allocation[Drained][Frame.self] = 0
      /\ \A m \in Members : \A x \in Slots(Owner[m]) :
            member'[m][x] = IF Owner[m] = Drained /\ x = Frame.self THEN Nil ELSE member[m][x]
  BY DestroyEffect
<1>2. /\ phase = "store" /\ todo # <<>> /\ Head(todo) = todo[1] /\ 1 \in DOMAIN todo
      /\ ~IsNew(todo[1]) /\ todo[1].delete
  BY <1>1, RunningFrame
<1>3. \A m \in Members : \A x \in Slots(Owner[m]) : allocation[Owner[m]][x] >= 1 => member'[m][x] = member[m][x]
  BY <1>1
<1>4. \A S \in Structs : ~UsesNew(todo[1], S)
  BY <1>1, <1>2, BuildingAtHead DEF BuildingIsQuiet
<1>5. to.base \in Vars /\ (from = NilPlace \/ from.base \in Vars)
  <2>1. IsTarget(to) /\ IsSource(from)
    BY <1>2, <1>a, <1>b DEF MovesOK, WellFormed, MoveOK
  <2>2. to.base \notin Structs /\ from.base \notin Structs
    BY <1>4, <1>a, <1>b DEF UsesNew
  <2> QED BY <2>1, <2>2 DEF IsTarget, IsSource
<1>6. \A v \in Vars : BaseValue(v) = env[v] /\ BaseValue(v)' = env[v]
  BY <1>1, NamesAssumption DEF BaseValue
<1>7. BaseValue(None) = Nil /\ BaseValue(None)' = Nil
  BY NamesAssumption DEF BaseValue
<1>8. /\ BaseValue(to.base)' = BaseValue(to.base) /\ BaseValue(from.base)' = BaseValue(from.base)
  BY <1>5, <1>6, <1>7, NilPlaceIs
<1>9. Cell(to)' = Cell(to)
  <2>1. to.path = <<>> \/ \E m \in Members : to.path = <<m>>
    BY <1>2, <1>a, TargetTyped
  <2>2. CASE to.path = <<>>
    BY <2>2 DEF Cell
  <2>3. CASE \E m \in Members : to.path = <<m>>
    <3>1. Len(to.path) # 2 /\ to.path # <<>>
      BY <2>3
    <3>2. Index(to)' = Index(to)
      BY <3>1, <1>8 DEF Index
    <3> QED BY <3>1, <3>2 DEF Cell
  <2> QED BY <2>1, <2>2, <2>3
(* The first object on the way is alive. *)
<1>10. ASSUME NEW m \in Members, NEW x \in Slots(Owner[m]),
              from.base \in Vars, env[from.base] = x, TypeOf[from.base] = Owner[m]
       PROVE  allocation[Owner[m]][x] >= 1
  BY <1>10, <1>2, <1>b, SourceIsAlive
<1>11. \/ from.path = <<>>
       \/ \E m \in Members : \E x \in Slots(Owner[m]) :
             /\ from.base \in Vars /\ from.path = <<m>> /\ env[from.base] = x /\ TypeOf[from.base] = Owner[m]
             /\ CellsRead(from) = {<<m, x>>}
       \/ \E m \in Members : \E n \in Members :
            \E x \in Slots(Owner[m]) : \E y \in Slots(Owner[n]) :
             /\ from.base \in Vars /\ from.path = <<m, n>> /\ env[from.base] = x /\ TypeOf[from.base] = Owner[m]
             /\ TypeOf[m] = Owner[n] /\ member[m][x] = y
             /\ CellsRead(from) = {<<n, y>>, <<m, x>>}
  <2>1. \/ from = NilPlace /\ Value(from) = Nil /\ CellsRead(from) = {<<None, Nil>>}
        \/ from.path = <<>>
        \/ /\ from.base \in Vars
           /\ \E m \in Members : \E x \in Slots(Owner[m]) :
                /\ from.path = <<m>> /\ env[from.base] = x /\ TypeOf[from.base] = Owner[m]
                /\ TypeOf[m] = PlaceType(to)
                /\ Value(from) = member[m][x] /\ CellsRead(from) = {<<m, x>>}
        \/ /\ from.base \in Vars
           /\ \E m, n \in Members :
                \E x \in Slots(Owner[m]) : \E y \in Slots(Owner[n]) :
                /\ from.path = <<m, n>> /\ env[from.base] = x /\ TypeOf[from.base] = Owner[m]
                /\ TypeOf[m] = Owner[n] /\ member[m][x] = y
                /\ TypeOf[n] = PlaceType(to)
                /\ Value(from) = member[n][y] /\ CellsRead(from) = {<<n, y>>, <<m, x>>}
    BY <1>2, <1>a, <1>b, SourceTyped
  <2>2. CASE from = NilPlace
    BY <2>2, NilPlaceIs
  <2>3. CASE /\ from.base \in Vars
             /\ \E m \in Members : \E x \in Slots(Owner[m]) :
                /\ from.path = <<m>> /\ env[from.base] = x /\ TypeOf[from.base] = Owner[m]
                /\ TypeOf[m] = PlaceType(to)
                /\ Value(from) = member[m][x] /\ CellsRead(from) = {<<m, x>>}
    BY <2>3
  <2>4. CASE /\ from.base \in Vars
             /\ \E m, n \in Members :
                \E x \in Slots(Owner[m]) : \E y \in Slots(Owner[n]) :
                /\ from.path = <<m, n>> /\ env[from.base] = x /\ TypeOf[from.base] = Owner[m]
                /\ TypeOf[m] = Owner[n] /\ member[m][x] = y
                /\ TypeOf[n] = PlaceType(to)
                /\ Value(from) = member[n][y] /\ CellsRead(from) = {<<n, y>>, <<m, x>>}
    <3>1. PICK m \in Members, n \in Members : \E x \in Slots(Owner[m]) : \E y \in Slots(Owner[n]) :
             /\ from.base \in Vars /\ from.path = <<m, n>> /\ env[from.base] = x /\ TypeOf[from.base] = Owner[m]
             /\ TypeOf[m] = Owner[n] /\ member[m][x] = y
             /\ CellsRead(from) = {<<n, y>>, <<m, x>>}
      BY <2>4
    <3> QED BY <3>1
  <2> QED BY <2>1, <2>2, <2>3, <2>4
<1>12. /\ Index(from)' = Index(from) 
       /\ Cell(to) \notin CellsRead(from) => Value(from)' = Value(from)
  <2>1. CASE from.path = <<>>
    <3>1. Len(from.path) # 2
      BY <2>1
    <3> QED BY <3>1, <2>1, <1>8 DEF Index, Value
  <2>2. CASE \E m \in Members : \E x \in Slots(Owner[m]) :
             /\ from.base \in Vars /\ from.path = <<m>> /\ env[from.base] = x /\ TypeOf[from.base] = Owner[m]
             /\ CellsRead(from) = {<<m, x>>}
    <3>1. PICK m \in Members : \E x \in Slots(Owner[m]) :
             /\ from.base \in Vars /\ from.path = <<m>> /\ env[from.base] = x /\ TypeOf[from.base] = Owner[m]
             /\ CellsRead(from) = {<<m, x>>}
      BY <2>2
    <3>2. PICK x \in Slots(Owner[m]) :
             /\ from.base \in Vars /\ from.path = <<m>> /\ env[from.base] = x /\ TypeOf[from.base] = Owner[m]
             /\ CellsRead(from) = {<<m, x>>}
      BY <3>1
    <3>3. Len(from.path) = 1 /\ from.path # <<>> /\ from.path[1] = m /\ Len(from.path) # 2
      BY <3>2
    <3>4. Index(from) = x /\ Index(from)' = x
      BY <3>2, <3>3, <1>6 DEF Index
    <3>5. member'[m][x] = member[m][x]
      BY <3>2, <1>3, <1>10
    <3>6. Value(from) = member[m][x] /\ Value(from)' = member'[m][x]
      BY <3>2, <3>3, <3>4 DEF Value, MemberOf
    <3> QED BY <3>4, <3>5, <3>6
  <2>3. CASE \E m \in Members : \E n \in Members :
            \E x \in Slots(Owner[m]) : \E y \in Slots(Owner[n]) :
             /\ from.base \in Vars /\ from.path = <<m, n>> /\ env[from.base] = x /\ TypeOf[from.base] = Owner[m]
             /\ TypeOf[m] = Owner[n] /\ member[m][x] = y
             /\ CellsRead(from) = {<<n, y>>, <<m, x>>}
    <3>1. PICK m \in Members, n \in Members : \E x \in Slots(Owner[m]) : \E y \in Slots(Owner[n]) :
             /\ from.base \in Vars /\ from.path = <<m, n>> /\ env[from.base] = x /\ TypeOf[from.base] = Owner[m]
             /\ TypeOf[m] = Owner[n] /\ member[m][x] = y
             /\ CellsRead(from) = {<<n, y>>, <<m, x>>}
      BY <2>3
    <3>2. PICK x \in Slots(Owner[m]) : \E y \in Slots(Owner[n]) :
             /\ from.base \in Vars /\ from.path = <<m, n>> /\ env[from.base] = x /\ TypeOf[from.base] = Owner[m]
             /\ TypeOf[m] = Owner[n] /\ member[m][x] = y
             /\ CellsRead(from) = {<<n, y>>, <<m, x>>}
      BY <3>1
    <3>3. PICK y \in Slots(Owner[n]) :
             /\ from.base \in Vars /\ from.path = <<m, n>> /\ env[from.base] = x /\ TypeOf[from.base] = Owner[m]
             /\ TypeOf[m] = Owner[n] /\ member[m][x] = y
             /\ CellsRead(from) = {<<n, y>>, <<m, x>>}
      BY <3>2
    <3>4. Len(from.path) = 2 /\ from.path # <<>> /\ from.path[1] = m /\ from.path[2] = n
      BY <3>3
    <3>5. allocation[Owner[m]][x] >= 1
      BY <3>3, <1>10
    <3>6. member'[m][x] = member[m][x]
      BY <3>5, <1>3
    <3>7. Index(from) = y /\ Index(from)' = y
      BY <3>3, <3>4, <3>6, <1>6 DEF Index, MemberOf
    <3>8. Value(from) = member[n][y] /\ Value(from)' = member'[n][y]
      BY <3>4, <3>7 DEF Value, MemberOf
    <3>9. ASSUME Cell(to) \notin CellsRead(from) PROVE allocation[Owner[n]][y] >= 1
      <4>1. <<m, x>> # Cell(Head(todo).to)
        BY <3>3, <3>9, <1>2, <1>a
      <4>2. member[m][x] # Nil
        BY <3>3, StructTypes
      <4>3. allocation[TypeOf[m]][member[m][x]] >= 1
        BY <4>1, <4>2, <3>5, MemberIsAlive
      <4> QED BY <4>3, <3>3
    <3> QED BY <3>7, <3>8, <3>9, <1>3
  <2> QED BY <2>1, <2>2, <2>3, <1>11
<1>13. CellsRead(from)' = CellsRead(from)
  <2>1. Cell(from)' = Cell(from)
    BY <1>12 DEF Cell
  <2> QED BY <2>1, <1>8 DEF CellsRead
<1>14. SourceReachable'
  <2>1. Reachable(from)' <=> Reachable(from)
    BY <1>8, <1>12 DEF Reachable
  <2>2. Head(todo).from = from /\ Head(todo').from = from
    BY <1>1, <1>2, <1>b
  <2>3. Reachable(Head(todo).from)' <=> Reachable(from)'
    BY <2>2
  <2> QED BY <2>1, <2>2, <2>3, <1>1 DEF SourceReachable
<1>15. /\ Cell(todo[1].to)' = Cell(to)' /\ CellsRead(todo[1].from)' = CellsRead(from)'
       /\ Value(todo[1].from)' = Value(from)'
  BY <1>1, <1>a, <1>b
<1> QED BY <1>9, <1>12, <1>13, <1>14, <1>15, <1>a, <1>b

(* A cell is counted after __del__ when it was before: the members of the   *)
(* destroyed object have been passed on, and are nil now.                   *)
LEMMA DestroyCells ==
    ASSUME HeapInv, Destroy, NEW n, n = Len(calls), calls'[n].self = Nil, DOMAIN calls' = DOMAIN calls,
           \A k \in DOMAIN calls : k # n => calls'[k] = calls[k],
           NEW R \in Structs, NEW j \in Slots(R)
    PROVE  CellRefs(R, j)' = CellRefs(R, j)
<1>a. PICK S : S = Drained
  OBVIOUS
<1>b. PICK i0 : i0 = Frame.self
  OBVIOUS
<1>1. /\ Running /\ i0 # Nil /\ Frame.left = {} /\ env' = env /\ todo' = todo /\ phase' = phase
      /\ S \in Structs /\ i0 \in Slots(S)
      /\ \A m \in Members : \A x \in Slots(Owner[m]) :
            member'[m][x] = IF Owner[m] = S /\ x = i0 THEN Nil ELSE member[m][x]
  BY <1>a, <1>b, DestroyEffect
<1>2. /\ n \in DOMAIN calls /\ calls[n] = Frame /\ Releasing(calls[n]) = S
      /\ phase = "store" /\ Head(todo) = todo[1]
  BY <1>1, <1>a, RunningFrame
<1>3. Cell(Head(todo).to)' = Cell(Head(todo).to)
  <2>1. Cell(todo[1].to)' = Cell(todo[1].to)
    BY DestroyPlaces
  <2>2. Head(todo)' = todo[1] /\ todo[1]' = todo[1]
    BY <1>1, <1>2
  <2>3. Cell(Head(todo).to)' = Cell(todo[1].to)'
    BY <2>2
  <2> QED BY <2>1, <2>3, <1>2
<1>4. UncountedLaw /\ UncountedLaw'
  BY Laws, LawsNext
<1>5. \A m \in MembersOf(S) : <<m, i0>> \in Uncounted
  BY <1>1, <1>2, <1>4, <1>b DEF UncountedLaw
<1>6. ASSUME NEW c, ~(\E m \in MembersOf(S) : c = <<m, i0>>) PROVE c \in Uncounted' <=> c \in Uncounted
  <2>1. c \in Uncounted' <=>
            \/ phase' \in {"store", "retain"} /\ c = Cell(Head(todo).to)'
            \/ \E k \in DOMAIN calls' : /\ calls'[k].self # Nil
                                   /\ \E l \in MembersOf(Releasing(calls[k]))' \ calls'[k].left :
                                         c = <<l, calls'[k].self>>
    BY <1>4, Zenon DEF UncountedLaw
  <2>2. c \in Uncounted <=>
            \/ phase \in {"store", "retain"} /\ c = Cell(Head(todo).to)
            \/ \E k \in DOMAIN calls : /\ calls[k].self # Nil
                                   /\ \E l \in MembersOf(Releasing(calls[k])) \ calls[k].left :
                                         c = <<l, calls[k].self>>
    BY <1>4, Zenon DEF UncountedLaw
  <2>3. \A k \in DOMAIN calls : k # n =>
           MembersOf(Releasing(calls[k]))' = MembersOf(Releasing(calls[k]))
    BY DEF MembersOf, Releasing
  <2>4. (\E k \in DOMAIN calls' : /\ calls'[k].self # Nil
                                   /\ \E l \in MembersOf(Releasing(calls[k]))' \ calls'[k].left :
                                         c = <<l, calls'[k].self>>)
        <=> (\E k \in DOMAIN calls : /\ calls[k].self # Nil
                                   /\ \E l \in MembersOf(Releasing(calls[k])) \ calls[k].left :
                                         c = <<l, calls[k].self>>)
    BY <2>3, <1>2, <1>6, <1>b
  <2> QED BY <2>1, <2>2, <2>4, <1>1, <1>3
<1>7. j # Nil
  BY StructTypes
<1>8. ASSUME NEW c \in CellsOf[R]
      PROVE  (CellValue(c)' = j /\ c \notin Uncounted') <=> (CellValue(c) = j /\ c \notin Uncounted)
  <2>1. CASE \E m \in MembersOf(S) : c = <<m, i0>>
    <3>1. PICK m \in MembersOf(S) : c = <<m, i0>>
      BY <2>1
    <3>2. m \in Members /\ m \notin Vars /\ Owner[m] = S /\ c[1] = m /\ c[2] = i0
      BY <3>1, NamesAssumption DEF MembersOf
    <3>3. member'[m][i0] = Nil
      BY <3>2, <1>1
    <3>4. CellValue(c)' = Nil
      BY <3>2, <3>3 DEF CellValue
    <3> QED BY <3>1, <3>4, <1>5, <1>7
  <2>2. CASE ~(\E m \in MembersOf(S) : c = <<m, i0>>)
    <3>1. CellValue(c)' = CellValue(c)
      <4>1. c \in Cells
        BY DEF CellsOf
      <4>2. CASE c[1] \in Vars
        BY <4>2, <1>1 DEF CellValue
      <4>3. CASE c[1] \notin Vars
        <5>1. PICK m \in Members : c \in {m} \X Slots(Owner[m])
          BY <4>1, <4>3 DEF Cells
        <5>2. PICK x \in Slots(Owner[m]) : c = <<m, x>>
          BY <5>1
        <5>3. ~(Owner[m] = S /\ x = i0)
          BY <5>2, <2>2 DEF MembersOf
        <5>4. member'[m][x] = member[m][x]
          BY <5>3, <1>1
        <5>5. c[1] = m /\ c[2] = x
          BY <5>2
        <5> QED BY <5>4, <5>5, <4>3 DEF CellValue
      <4> QED BY <4>2, <4>3
    <3> QED BY <3>1, <2>2, <1>6
  <2> QED BY <2>1, <2>2
<1>9. CellRefs(R, j)' = { c \in CellsOf[R] : CellValue(c)' = j } \ Uncounted'
  BY DEF CellRefs
<1> QED BY <1>8, <1>9 DEF CellRefs

(* __del__ keeps the invariant: it clears members that have been passed on, *)
(* and lowers free_idx to the slot.                                         *)
LEMMA DestroyKeeps == HeapInv /\ Destroy => HeapInv'
<1> SUFFICES ASSUME HeapInv, Destroy PROVE HeapInv'
  OBVIOUS
<1> USE DEF HeapInv
<1>a. PICK S : S = Drained
  OBVIOUS
<1>b. PICK i0 : i0 = Frame.self
  OBVIOUS
<1>c. PICK n : n = Len(calls)
  OBVIOUS
<1>d. PICK f : f = [Frame EXCEPT !.self = Nil]
  OBVIOUS
<1>1. /\ Running /\ i0 # Nil /\ Frame.left = {} /\ ~Quiet
      /\ S \in Structs /\ i0 \in Slots(S) /\ allocation[S][i0] = 0
      /\ allocation' = allocation /\ stack' = stack /\ env' = env /\ todo' = todo
      /\ phase' = phase /\ expected' = expected /\ used' = used /\ tidy' = tidy
      /\ free_idx' = [R \in Structs |-> free_idx'[R]]
      /\ \A R \in Structs : free_idx'[R] \in Slots(R) /\ free_idx'[R] <= free_idx[R] /\ free_idx[R] \in Int
      /\ free_idx'[S] <= i0
      /\ member' = [m \in Members |-> member'[m]]
      /\ \A m \in Members :
            /\ member'[m] \in [Slots(Owner[m]) -> Pointers(TypeOf[m])]
            /\ \A x \in Slots(Owner[m]) :
                 member'[m][x] = IF Owner[m] = S /\ x = i0 THEN Nil ELSE member[m][x]
  BY <1>a, <1>b, DestroyEffect
<1>2. /\ n \in DOMAIN calls /\ calls[n] = Frame /\ ActivationOK(Frame) /\ Frame \in Activations
      /\ Releasing(Frame) = S /\ calls \in Seq(Activations) /\ calls # <<>>
      /\ phase = "store" /\ todo # <<>> /\ Head(todo) = todo[1] /\ 1 \in DOMAIN todo
      /\ ~IsNew(todo[1]) /\ todo[1].delete
  BY <1>1, <1>a, <1>c, RunningFrame DEF Running
<1>3. /\ f \in Activations /\ f.of = Frame.of /\ f.turn = Frame.turn /\ f.current = Frame.current
      /\ f.self = Nil /\ f.left = {}
  <2>1. Frame \in [of : Structs, turn : Nat \ {0}, current : Int, self : Int, left : SUBSET Members]
    BY <1>2 DEF Activations
  <2>2. Nil \in Int
    BY DEF Nil
  <2> QED BY <2>1, <2>2, <1>1, <1>d DEF Activations
<1>4. /\ calls' \in Seq(Activations) /\ DOMAIN calls' = DOMAIN calls /\ calls'[n] = f
      /\ \A k \in DOMAIN calls : k # n => calls'[k] = calls[k]
  <2>1. calls' = [calls EXCEPT ![Len(calls)] = f]
    BY <1>d DEF Destroy, Resume
  <2> QED BY <2>1, <1>2, <1>3, <1>c, Resumed
<1>5. ActivationOK(f)
  <2>1. Releasing(f) = Releasing(Frame)
    BY <1>3 DEF Releasing
  <2>2. f.self \in Pointers(Releasing(f))
    BY <1>3 DEF Pointers
  <2> QED BY <2>1, <2>2, <1>2, <1>3 DEF ActivationOK
<1>6. HeapOK'
  <2>1. \A m \in Members : member'[m] \in [Slots(Owner[m]) -> Pointers(TypeOf[m])]
    BY <1>1
  <2> QED BY <2>1, <1>1 DEF HeapOK
<1>7. ActivationsOK'
  BY <1>4, <1>5 DEF ActivationsOK
<1>8. \A k \in DOMAIN calls' : calls'[k].self # Nil =>
           k \in DOMAIN calls /\ k # n /\ calls'[k] = calls[k] /\ Releasing(calls[k])' = Releasing(calls[k])
  BY <1>3, <1>4 DEF Releasing
<1>9. ReleasedOnce'
  <2>1. \A k \in DOMAIN calls' : calls'[k].self # Nil => allocation[Releasing(calls[k])'][calls'[k].self] = 0
    BY <1>8 DEF ReleasedOnce
  <2>2. \A k \in DOMAIN calls : Releasing(calls[k])' = Releasing(calls[k])
    BY <1>2, <1>3, <1>4 DEF Releasing
  <2>3. ASSUME NEW j \in DOMAIN calls', NEW k \in DOMAIN calls', j # k, calls'[j].self # Nil,
               Releasing(calls[j])' = Releasing(calls[k])', calls'[j].self = calls'[k].self
        PROVE  FALSE
    BY <1>8, <2>2, <2>3 DEF ReleasedOnce
  <2> QED BY <2>1, <2>3, <1>1 DEF ReleasedOnce
<1>10. StacksHaveDrains'
  BY <1>1, <1>2, <1>3, <1>4, <1>c, DrainsRemain
<1>11. \A R : Building(R)' <=> Building(R)
  BY <1>1 DEF Building
<1>12. \A R \in Structs : ~Building(R)
  BY <1>1 DEF BuildingIsQuiet
<1>13. /\ MovesOK' /\ PhaseOK' /\ TargetsReachable' /\ BuildingIsQuiet' /\ NewMembersAreNil'
       /\ NothingIsLost'
  <2>1. MovesOK' /\ TargetsReachable'
    BY <1>1 DEF MovesOK, TargetsReachable
  <2>2. PhaseOK'
    BY <1>1, <1>2 DEF PhaseOK
  <2>3. BuildingIsQuiet' /\ NewMembersAreNil'
    BY <1>11, <1>12 DEF BuildingIsQuiet, NewMembersAreNil
  <2>4. NothingIsLost'
    BY <1>1 DEF NothingIsLost, Stored
  <2> QED BY <2>1, <2>2, <2>3, <2>4
<1>14. RoomForNew'
  BY <1>1 DEF RoomForNew, HasFreeSlot
<1>15. /\ SourceReachable'
       /\ Cell(todo[1].to)' = Cell(todo[1].to)
       /\ CellsRead(todo[1].from)' = CellsRead(todo[1].from)
       /\ Cell(todo[1].to) \notin CellsRead(todo[1].from) =>
                Value(todo[1].from)' = Value(todo[1].from)
  BY DestroyPlaces
<1>16. RightSideIsKept'
  <2>1. AssignmentTakesEffect'
    BY <1>1, <1>2 DEF AssignmentTakesEffect
  <2>2. Head(todo)' = todo[1] /\ todo[1]' = todo[1]
    BY <1>1, <1>2
  <2>3. /\ Cell(Head(todo).to)' = Cell(todo[1].to)' /\ CellsRead(Head(todo).from)' = CellsRead(todo[1].from)'
        /\ Value(Head(todo).from)' = Value(todo[1].from)'
    BY <2>2
  <2>4. ~Overlaps /\ todo[1].retain => /\ Cell(todo[1].to) \notin CellsRead(todo[1].from)
                                      /\ expected = Value(todo[1].from)
    BY <1>2 DEF RightSideIsKept
  <2> QED BY <2>1, <2>2, <2>3, <2>4, <1>1, <1>2, <1>15 DEF RightSideIsKept
<1>17. \A R \in Structs : \A i \in Slots(R) :
          ~BeingReleased(R, i)' => ~BeingReleased(R, i) \/ (R = S /\ i = i0)
  <2> SUFFICES ASSUME NEW R \in Structs, NEW i \in Slots(R), BeingReleased(R, i), ~(R = S /\ i = i0)
               PROVE  BeingReleased(R, i)'
    OBVIOUS
  <2>1. PICK k \in DOMAIN calls : Releasing(calls[k]) = R /\ calls[k].self = i
    BY DEF BeingReleased
  <2>2. k # n
    BY <2>1, <1>2, <1>b
  <2>3. k \in DOMAIN calls' /\ Releasing(calls[k])' = R /\ calls'[k].self = i
    BY <2>1, <2>2, <1>4 DEF Releasing
  <2> QED BY <2>3 DEF BeingReleased
<1>18. FreeSlotsAreFound'
  <2> SUFFICES ASSUME NEW R \in Structs, NEW i \in Slots(R), allocation[R][i] = 0, ~BeingReleased(R, i)'
               PROVE  free_idx'[R] <= i
    BY <1>1 DEF FreeSlotsAreFound
  <2>1. CASE R = S /\ i = i0
    BY <2>1, <1>1
  <2>2. CASE ~BeingReleased(R, i)
    <3>1. free_idx[R] <= i
      BY <2>2 DEF FreeSlotsAreFound
    <3>2. i \in Int /\ free_idx'[R] \in Int /\ free_idx[R] \in Int /\ free_idx'[R] <= free_idx[R]
      BY <1>1, StructTypes
    <3> QED BY <3>1, <3>2
  <2> QED BY <2>1, <2>2, <1>17
<1>19. FreeSlotsAreClean'
  <2> SUFFICES ASSUME NEW m \in Members, NEW i \in Slots(Owner[m]), allocation[Owner[m]][i] = 0,
                      ~BeingReleased(Owner[m], i)'
               PROVE  member'[m][i] = Nil
    BY <1>1 DEF FreeSlotsAreClean
  <2>1. CASE Owner[m] = S /\ i = i0
    BY <2>1, <1>1
  <2>2. CASE ~BeingReleased(Owner[m], i)
    BY <2>2, <1>1 DEF FreeSlotsAreClean
  <2> QED BY <2>1, <2>2, <1>17, StructTypes
<1>20. CountsOK' /\ CountsMatch'
  <2>1. SlackLaw /\ SlackLaw'
    BY Laws, LawsNext, <1>6, <1>7
  <2> SUFFICES ASSUME NEW R \in Structs, NEW j \in Slots(R)
               PROVE  /\ Slack(R, j) \in Int /\ Slack(R, j)' \in Int
                      /\ Slack(R, j)' = Slack(R, j)
    BY <1>1, CountsStep
  <2>2. CellRefs(R, j)' = CellRefs(R, j)
    BY <1>3, <1>4, <1>c, DestroyCells
  <2>3. HeldBy(R, j)' = HeldBy(R, j)
    BY <1>2, <1>3, <1>4 DEF HeldBy
  <2>4. Pending(R, j) = 0 /\ Pending(R, j)' = 0
    BY <1>11, <1>12 DEF Pending
  <2>5. Occurrences(stack[R], j)' = Occurrences(stack[R], j) /\ allocation[R][j]' = allocation[R][j]
    BY <1>1
  <2> QED BY <2>1, <2>2, <2>3, <2>4, <2>5 DEF SlackLaw
<1> QED BY <1>6, <1>7, <1>9, <1>10, <1>13, <1>14, <1>15, <1>16, <1>18, <1>19, <1>20

-----------------------------------------------------------------------------
(* The invariant and its theorems *)

(* The empty heap satisfies the invariant. *)
LEMMA HeapInvStarts == Init => HeapInv
<1> SUFFICES ASSUME Init PROVE HeapInv
  OBVIOUS
<1> USE DEF Init
<1>1. todo = <<>> /\ calls = <<>> /\ phase = "idle" /\ DOMAIN todo = {} /\ DOMAIN calls = {}
  OBVIOUS
<1>2. HeapOK
  <2>1. \A S \in Structs : 0 \in Slots(S) /\ <<>> \in Seq(Pointers(S))
    BY StructTypes
  <2>2. \A S \in Structs : Nil \in Pointers(S)
    BY DEF Pointers
  <2>3. \A S \in Structs : [i \in Slots(S) |-> 0] \in [Slots(S) -> Nat]
    OBVIOUS
  <2>4. \A m \in Members : [i \in Slots(Owner[m]) |-> Nil] \in [Slots(Owner[m]) -> Pointers(TypeOf[m])]
    BY <2>2, StructTypes
  <2>5. \A v \in Vars : Nil \in Pointers(TypeOf[v])
    BY <2>2, StructTypes
  <2>6. todo \in Seq(Moves)
    BY <1>1
  <2> QED BY <2>1, <2>3, <2>4, <2>5, <2>6 DEF HeapOK
<1>3. ActivationsOK /\ ReleasedOnce
  BY <1>1 DEF ActivationsOK, ReleasedOnce
<1>4. StacksHaveDrains
  BY DEF StacksHaveDrains
<1>5. MovesOK
  BY <1>1 DEF MovesOK, WellFormed
<1>6. PhaseOK
  BY <1>1 DEF PhaseOK
<1>7. TargetsReachable /\ SourceReachable /\ RoomForNew
  BY <1>1 DEF TargetsReachable, SourceReachable, RoomForNew
<1>8. \A S : ~Building(S)
  BY <1>1 DEF Building
<1>9. BuildingIsQuiet /\ NewMembersAreNil
  BY <1>8 DEF BuildingIsQuiet, NewMembersAreNil
<1>10. NothingIsLost
  BY <1>1, StructsAssumption DEF NothingIsLost
<1>11. RightSideIsKept
  BY <1>1 DEF RightSideIsKept, AssignmentTakesEffect
<1>12. FreeSlotsAreFound
  BY StructTypes DEF FreeSlotsAreFound
<1>13. FreeSlotsAreClean
  BY DEF FreeSlotsAreClean
<1>14. CountsOK /\ CountsMatch
  <2> SUFFICES ASSUME NEW S \in Structs, NEW i \in Slots(S) PROVE Slack(S, i) = 0
    BY DEF CountsOK, CountsMatch
  <2>1. CellRefs(S, i) = {}
    <3> SUFFICES ASSUME NEW c \in CellsOf[S], CellValue(c) = i PROVE FALSE
      BY DEF CellRefs
    <3>1. c \in Cells /\ i # Nil
      BY StructTypes DEF CellsOf
    <3>2. CASE c[1] \in Vars
      BY <3>1, <3>2 DEF CellValue
    <3>3. CASE c[1] \notin Vars
      <4>1. PICK m \in Members : c \in {m} \X Slots(Owner[m])
        BY <3>1, <3>3 DEF Cells
      <4> QED BY <4>1, <3>1, <3>3 DEF CellValue
    <3> QED BY <3>2, <3>3
  <2>2. HeldBy(S, i) = {}
    BY <1>1 DEF HeldBy
  <2>3. Occurrences(stack[S], i) = 0
    <3>1. { k \in DOMAIN stack[S] : stack[S][k] = i } = {}
      OBVIOUS
    <3> QED BY <3>1, FS_EmptySet DEF Occurrences
  <2>4. allocation[S][i] = 0 /\ Pending(S, i) = 0
    BY <1>8 DEF Pending
  <2>5. Cardinality({}) = 0
    BY FS_EmptySet
  <2>6. Slack(S, i) = allocation[S][i] - Cardinality(CellRefs(S, i))
                - Occurrences(stack[S], i) - Cardinality(HeldBy(S, i)) - Pending(S, i)
    BY <1>2, <1>3, SlackParts
  <2> QED BY <2>1, <2>2, <2>3, <2>4, <2>5, <2>6
<1> QED BY <1>2, <1>3, <1>4, <1>5, <1>6, <1>7, <1>9, <1>10, <1>11, <1>12, <1>13, <1>14 DEF HeapInv

(* A stuttering step keeps the invariant. *)
LEMMA HeapInvStands == HeapInv /\ UNCHANGED vars => HeapInv'
<1> SUFFICES ASSUME HeapInv, UNCHANGED vars PROVE HeapInv'
  OBVIOUS
<1>1. /\ allocation' = allocation /\ free_idx' = free_idx /\ member' = member /\ stack' = stack
      /\ env' = env /\ todo' = todo /\ phase' = phase /\ expected' = expected /\ calls' = calls
      /\ used' = used /\ tidy' = tidy
  BY DEF vars
<1> USE DEF HeapInv
<1>2. HeapOK' /\ ActivationsOK' /\ ReleasedOnce' /\ StacksHaveDrains'
  BY <1>1 DEF HeapOK, ActivationsOK, ReleasedOnce, StacksHaveDrains, Releasing
<1>3. /\ \A p : /\ BaseValue(p.base)' = BaseValue(p.base) /\ Index(p)' = Index(p) /\ Value(p)' = Value(p)
                /\ (Reachable(p)' <=> Reachable(p))
                /\ Cell(p)' = Cell(p) /\ CellsRead(p)' = CellsRead(p)
  <2>1. \A b : BaseValue(b)' = BaseValue(b)
    BY <1>1 DEF BaseValue
  <2>2. \A m, i : MemberOf(m, i)' = MemberOf(m, i)
    BY <1>1 DEF MemberOf
  <2>3. \A p : Index(p)' = Index(p)
    BY <2>1, <2>2 DEF Index
  <2>4. \A p : Value(p)' = Value(p) /\ (Reachable(p)' <=> Reachable(p)) /\ Cell(p)' = Cell(p)
    BY <2>1, <2>2, <2>3 DEF Value, Reachable, Cell
  <2> QED BY <2>1, <2>3, <2>4 DEF CellsRead
<1>4. MovesOK' /\ PhaseOK' /\ TargetsReachable' /\ SourceReachable' /\ RoomForNew'
  BY <1>1, <1>3 DEF MovesOK, PhaseOK, TargetsReachable, SourceReachable, RoomForNew, HasFreeSlot
<1>5. \A S : Building(S)' <=> Building(S)
  BY <1>1 DEF Building
<1>6. BuildingIsQuiet' /\ NewMembersAreNil' /\ NothingIsLost'
  BY <1>1, <1>5 DEF BuildingIsQuiet, NewMembersAreNil, NothingIsLost, Quiet, Stored
<1>7. RightSideIsKept'
  <2>1. AssignmentTakesEffect => AssignmentTakesEffect'
    BY <1>1, <1>3 DEF AssignmentTakesEffect, Count
  <2> QED BY <2>1, <1>1, <1>3 DEF RightSideIsKept
<1>8. FreeSlotsAreFound' /\ FreeSlotsAreClean'
  <2>1. \A S, i : BeingReleased(S, i)' <=> BeingReleased(S, i)
    BY <1>1 DEF BeingReleased, Releasing
  <2> QED BY <2>1, <1>1 DEF FreeSlotsAreFound, FreeSlotsAreClean
<1>9. CountsOK' /\ CountsMatch'
  <2> SUFFICES ASSUME NEW S \in Structs, NEW i \in Slots(S)
               PROVE  Slack(S, i)' = Slack(S, i)
    BY <1>1 DEF CountsOK, CountsMatch
  <2>1. SlackLaw /\ SlackLaw' /\ UncountedLaw /\ UncountedLaw'
    BY Laws, LawsNext, <1>2
  <2>2. \A c : c \in Uncounted' <=> c \in Uncounted
    <3>1. \A k : MembersOf(Releasing(calls[k]))' = MembersOf(Releasing(calls[k]))
      BY <1>1 DEF Releasing, MembersOf
    <3>2. Cell(Head(todo).to)' = Cell(Head(todo).to)
      BY <1>1, <1>3
    <3> QED BY <3>1, <3>2, <2>1, <1>1 DEF UncountedLaw
  <2>3. CellRefs(S, i)' = CellRefs(S, i)
    <3>1. \A c : CellValue(c)' = CellValue(c)
      BY <1>1 DEF CellValue
    <3> QED BY <3>1, <2>2 DEF CellRefs
  <2>4. HeldBy(S, i)' = HeldBy(S, i) /\ Pending(S, i)' = Pending(S, i)
    BY <1>1, <1>5 DEF HeldBy, Pending
  <2>5. Occurrences(stack[S], i)' = Occurrences(stack[S], i) /\ allocation[S][i]' = allocation[S][i]
    BY <1>1
  <2> QED BY <2>1, <2>3, <2>4, <2>5 DEF SlackLaw
<1> QED BY <1>2, <1>4, <1>6, <1>7, <1>8, <1>9

(* Every step of the program and of the generated functions keeps the       *)
(* invariant.                                                               *)
LEMMA HeapInvStays ==
    ASSUME RecursionIsClosed
    PROVE  HeapInv /\ [Next]_vars => HeapInv'
<1> SUFFICES ASSUME HeapInv, [Next]_vars PROVE HeapInv'
  OBVIOUS
<1>1. CASE Program
  BY <1>1, ProgramKeeps
<1>2. CASE TakeSlot
  BY <1>2, TakeSlotKeeps
<1>3. CASE Delete
  BY <1>3, DeleteKeeps
<1>4. CASE Store
  BY <1>4, StoreKeeps
<1>5. CASE Retain
  BY <1>5, RetainKeeps
<1>6. CASE FollowList
  BY <1>6, FollowListKeeps
<1>7. CASE EndOfList
  BY <1>7, EndOfListKeeps
<1>8. CASE PopStack
  BY <1>8, PopStackKeeps
<1>9. CASE NextStack
  BY <1>9, NextStackKeeps
<1>10. ASSUME NEW m \in Members, ReleaseMember(m) PROVE HeapInv'
  BY <1>10, ReleaseMemberKeeps
<1>11. ASSUME NEW m \in Members, PassOnMember(m) PROVE HeapInv'
  BY <1>11, PassOnMemberKeeps
<1>12. CASE Destroy
  BY <1>12, DestroyKeeps
<1>13. CASE UNCHANGED vars
  BY <1>13, HeapInvStands
<1> QED BY <1>1, <1>2, <1>3, <1>4, <1>5, <1>6, <1>7, <1>8, <1>9, <1>10, <1>11, <1>12, <1>13
        DEF Next, Execute, Terminated

-----------------------------------------------------------------------------

(* The invariant keeps every count, pointer and index in its range. *)
LEMMA HeapIsTyped == HeapInv => HeapTypeOK
BY DEF HeapInv, HeapOK, PhaseOK, ActivationsOK, ActivationOK, HeapTypeOK

(* By the invariant a count is at least the number of references. *)
LEMMA CountsCover == HeapInv => CountsCoverReferences
<1> SUFFICES ASSUME HeapInv, NEW S \in Structs, NEW i \in Slots(S)
             PROVE  allocation[S][i] >= ReferencesTo(S, i)
  BY DEF CountsCoverReferences
<1>1. Slack(S, i) >= 0
  BY DEF HeapInv, CountsOK
<1>2. /\ Cardinality(CellRefs(S, i)) \in Nat /\ Occurrences(stack[S], i) \in Nat
      /\ Cardinality(HeldBy(S, i)) \in Nat /\ Pending(S, i) \in {0, 1} /\ allocation[S][i] \in Nat
  BY SlackParts DEF HeapInv
<1> QED BY <1>1, <1>2, ReferencesAre DEF Slack

(* By the invariant, between the statements of a tidy program, a count is   *)
(* the number of references.                                                *)
LEMMA CountsAgree == HeapInv => CountsAreExact
<1> SUFFICES ASSUME HeapInv, tidy, phase = "idle", NEW S \in Structs, NEW i \in Slots(S)
             PROVE  allocation[S][i] = ReferencesTo(S, i)
  BY DEF CountsAreExact
<1>1. Slack(S, i) = 0
  BY DEF HeapInv, CountsMatch
<1>2. todo = <<>>
  BY DEF HeapInv, PhaseOK
<1>3. Pending(S, i) = 0
  BY <1>2 DEF Pending, Building
<1>4. /\ Cardinality(CellRefs(S, i)) \in Nat /\ Occurrences(stack[S], i) \in Nat
      /\ Cardinality(HeldBy(S, i)) \in Nat /\ allocation[S][i] \in Nat
  BY SlackParts DEF HeapInv
<1> QED BY <1>1, <1>3, <1>4, ReferencesAre DEF Slack

(* By the invariant a stack that is not empty has a release that will drain *)
(* it, so without releases stacks are empty.                                *)
LEMMA StacksEnd == HeapInv => StacksAreDrained
BY DEF HeapInv, StacksHaveDrains, StacksAreDrained

(* The inductive invariant of the heap: in every run of every program, for  *)
(* all structs, members and heap sizes, provided that every release drains  *)
(* the stacks it pushes on (RecursionIsClosed).                            *)
THEOREM HeapInvariant ==
    ASSUME RecursionIsClosed
    PROVE  Spec => []HeapInv
BY HeapInvStarts, HeapInvStays, PTL DEF Spec

(* No object is freed while a reference to it is left: at every step of     *)
(* every __incr__, __decr__, constructor and assignment a count covers the  *)
(* variables and members that point to the object and what is still to be   *)
(* given back.                                                             *)
THEOREM NothingIsFreedEarly ==
    ASSUME RecursionIsClosed
    PROVE  Spec => []CountsCoverReferences
BY HeapInvariant, CountsCover, PTL

(* A tidy program leaks nothing: between its statements, which __decr__ and *)
(* __incr__ surround, a count is the number of references.                 *)
THEOREM TidyProgramsLeakNothing ==
    ASSUME RecursionIsClosed
    PROVE  Spec => []CountsAreExact
BY HeapInvariant, CountsAgree, PTL

(* Counts, pointers, free_idx and stacks keep their ranges: the generated   *)
(* arrays of the heap are accessed within their bounds.                    *)
THEOREM TypeCorrect ==
    ASSUME RecursionIsClosed
    PROVE  Spec => []HeapTypeOK
BY HeapInvariant, HeapIsTyped, PTL

(* free_idx, which constructors and __del__ move, is at or below every free *)
(* slot, so a search that starts there misses none.                        *)
THEOREM SearchesMissNothing ==
    ASSUME RecursionIsClosed
    PROVE  Spec => []FreeSlotsAreFound
<1>1. HeapInv => FreeSlotsAreFound
  BY DEF HeapInv
<1> QED BY <1>1, HeapInvariant, PTL

(* A free slot has no members left, so the deletes of a constructor, which  *)
(* fills it, take no reference away from another object.                   *)
THEOREM FreedSlotsAreEmptied ==
    ASSUME RecursionIsClosed
    PROVE  Spec => []FreeSlotsAreClean
<1>1. HeapInv => FreeSlotsAreClean
  BY DEF HeapInv
<1> QED BY <1>1, HeapInvariant, PTL

(* When no __decr__ runs all stacks are empty.                             *)
THEOREM ReleasesDrainTheirStacks ==
    ASSUME RecursionIsClosed
    PROVE  Spec => []StacksAreDrained
BY HeapInvariant, StacksEnd, PTL

(* Where no statement reads the member it overwrites, the left side of an   *)
(* assignment gets what the right side denoted when the assignment began,   *)
(* and that object has survived the release of the old value.              *)
THEOREM AssignmentsTakeEffect ==
    ASSUME RecursionIsClosed, ~Overlaps
    PROVE  Spec => []AssignmentTakesEffect
<1>1. HeapInv => AssignmentTakesEffect
  BY DEF HeapInv, RightSideIsKept
<1> QED BY <1>1, HeapInvariant, PTL

(* The hypothesis holds when collect_recursive_structs finds for a struct   *)
(* all structs on cycles that it reaches, whatever reaching means, as long  *)
(* as it is transitive.                                                    *)
THEOREM CyclesAreClosed ==
    ASSUME NEW reach \in SUBSET (Structs \X Structs),
           \A S, R, T \in Structs : <<S, R>> \in reach /\ <<R, T>> \in reach => <<S, T>> \in reach,
           \A S \in Structs : Recursive[S] = { R \in Structs : <<S, R>> \in reach /\ <<R, R>> \in reach }
    PROVE  RecursionIsClosed
<1> SUFFICES ASSUME NEW S \in Structs, NEW R \in {S} \cup Recursive[S], NEW m \in RecursiveMembersOf(R)
             PROVE  TypeOf[m] \in {S} \cup Recursive[S]
  BY DEF RecursionIsClosed
<1>1. R \in Structs /\ m \in Members /\ Owner[m] = R /\ TypeOf[m] \in Recursive[R]
  BY DEF RecursiveMembersOf, MembersOf, IsRecursive
<1>2. /\ TypeOf[m] \in Structs
      /\ <<R, TypeOf[m]>> \in reach /\ <<TypeOf[m], TypeOf[m]>> \in reach
  BY <1>1
<1>3. CASE R = S
  BY <1>1, <1>3
<1>4. CASE R \in Recursive[S]
  <2>1. <<S, R>> \in reach
    <3>1. Recursive[S] = { X \in Structs : <<S, X>> \in reach /\ <<X, X>> \in reach }
      OBVIOUS
    <3> QED BY <3>1, <1>4
  <2>2. <<S, TypeOf[m]>> \in reach
    BY <2>1, <1>1, <1>2
  <2> QED BY <2>2, <1>2
<1> QED BY <1>3, <1>4
=============================================================================
