------------------------- MODULE StructHeapInvariant -------------------------
(***************************************************************************)
(* The inductive invariant of StructHeap.  The counts can only be right     *)
(* together with the rest of it: that a released object stays as it is      *)
(* until its members are passed on, that the moves of a statement find the  *)
(* objects they were made for, that a constructor releases nothing and so   *)
(* keeps its free_idx.                                                     *)
(***************************************************************************)
EXTENDS StructHeap

-----------------------------------------------------------------------------
(* The activations of __decr__.                                             *)
ActivationOK(f) ==
    /\ f \in Activations
    /\ f.turn \in DOMAIN Turns(f.of)
    /\ f.current \in Pointers(f.of)
    /\ f.self \in Pointers(Releasing(f))
    /\ f.left \subseteq MembersOf(Releasing(f))
    /\ f.self = Nil => f.left = {}
    /\ ~IsLinear(f.of) => f.current = Nil
    /\ (\E m \in f.left : IsRecursive(m)) => f.current = Nil

ActivationsOK == calls \in Seq(Activations) /\ \A k \in DOMAIN calls : ActivationOK(calls[k])

(* What is being released is not counted any more, and released once. *)
ReleasedOnce ==
    /\ \A k \in DOMAIN calls :
         calls[k].self # Nil => allocation[Releasing(calls[k])][calls[k].self] = 0
    /\ \A j, k \in DOMAIN calls :
         /\ j # k /\ calls[j].self # Nil
         /\ Releasing(calls[j]) = Releasing(calls[k])
         => calls[j].self # calls[k].self

(* What is on a stack will be drained. *)
StacksHaveDrains ==
    \A S \in Structs : stack[S] # <<>> =>
        \E k \in DOMAIN calls : ~IsLinear(calls[k].of)
                                /\ \E t \in DOMAIN Turns(calls[k].of) : Turns(calls[k].of)[t] = S

-----------------------------------------------------------------------------
(* The moves of a statement.                                               *)
IsTarget(p) ==
    \/ p.base \in Vars /\ p.path = <<>>
    \/ p.base \in Vars /\ \E m \in Members : p.path = <<m>> /\ Owner[m] = TypeOf[p.base]
    \/ p.base \in Structs /\ \E m \in Members : p.path = <<m>> /\ Owner[m] = p.base

IsSource(p) ==
    \/ p = NilPlace
    \/ p.base \in Vars \cup Structs /\ p.path = <<>>
    \/ p.base \in Vars /\ \E m \in Members : p.path = <<m>> /\ Owner[m] = TypeOf[p.base]
    \/ p.base \in Vars /\ \E m, n \in Members :
         p.path = <<m, n>> /\ Owner[m] = TypeOf[p.base] /\ Owner[n] = TypeOf[m]

SourceType(p) == IF p.path = <<>> /\ p.base \in Structs THEN p.base ELSE PlaceType(p)

IsNew(move) == move.op = "new"

MoveOK(move) ==
    IF IsNew(move) THEN move.to.base \in Structs /\ move = New(move.to.base)
    ELSE /\ move = Move(move.to, move.from, move.delete, move.retain)
         /\ move \in Moves /\ IsTarget(move.to) /\ IsSource(move.from)
         /\ move.from = NilPlace \/ SourceType(move.from) = PlaceType(move.to)
         /\ ~move.retain => move.from = NilPlace \/ move.from.base \in Structs
         /\ move.from.base \in Structs => ~move.delete /\ move.to.base \in Vars
         /\ move.from.base \in Structs /\ ~move.retain => move.to.path = <<>>
         /\ move.from.base \in Vars /\ move.to.path = <<>> => move.from.base # move.to.base

(* The struct whose new object a move is about. *)
UsesNew(move, S) == move.to.base = S \/ move.from.base = S

(* A statement makes at most one object, releases what it overwrites before *)
(* it makes it, fills each of its members once, and stores it in the end.   *)
(* It is about that object from there to there.                             *)
WellFormed(moves) ==
    /\ \A k \in DOMAIN moves : MoveOK(moves[k])
    /\ \A k \in DOMAIN moves : k > 1 => moves[k].from.path = <<>>
    /\ \A j, k \in DOMAIN moves : IsNew(moves[k]) =>
         /\ IsNew(moves[j]) => j = k
         /\ j < k => ~moves[j].retain
    /\ \A S, R \in Structs : \A j, k \in DOMAIN moves :
         UsesNew(moves[j], S) /\ UsesNew(moves[k], R) => S = R
    /\ \A S \in Structs : \A j, k \in DOMAIN moves :
         UsesNew(moves[k], S) /\ j <= k /\ ~UsesNew(moves[j], S) =>
            \E l \in DOMAIN moves : j < l /\ IsNew(moves[l])
    /\ \A S \in Structs : \A j, k \in DOMAIN moves :
         UsesNew(moves[j], S) /\ IsNew(moves[k]) => k <= j
    /\ \A S \in Structs : \A j, k \in DOMAIN moves :
         UsesNew(moves[j], S) /\ moves[k].from.base = S => j <= k
    /\ \A S \in Structs : \A j \in DOMAIN moves :
         UsesNew(moves[j], S) => \E k \in DOMAIN moves : moves[k].from.base = S
    /\ \A j, k \in DOMAIN moves :
         moves[j].to.base \in Structs /\ moves[j].to = moves[k].to => j = k
    /\ \A j, k \in DOMAIN moves :
         moves[j].to.base \in Vars /\ moves[j].to.path # <<>> /\ moves[k].to.base \in Vars
            => moves[k].to.path # <<>>

MovesOK == WellFormed(todo)

(* Where the statement is. *)
PhaseOK ==
    /\ phase \in {"idle", "new", "delete", "store", "retain"}
    /\ phase = "idle" <=> todo = <<>>
    /\ todo # <<>> => (phase = "new" <=> IsNew(Head(todo)))
    /\ phase = "delete" => Head(todo).delete
    /\ phase = "retain" => Head(todo).retain
    /\ calls # <<>> => phase = "store" /\ Head(todo).delete

-----------------------------------------------------------------------------
(* The places of the moves.                                                *)
Stored(k) == k = 1 /\ phase = "retain"

TargetsReachable ==
    \A k \in DOMAIN todo :
        todo[k].to.base \in Vars /\ todo[k].to.path # <<>> => env[todo[k].to.base] # Nil

SourceReachable ==
    phase \in {"delete", "store"} => Reachable(Head(todo).from)

RoomForNew ==
    \A k \in DOMAIN todo : IsNew(todo[k]) => HasFreeSlot(todo[k].to.base)

(* A new object that is not yet stored. *)
Building(S) ==
    /\ \E k \in DOMAIN todo : UsesNew(todo[k], S)
    /\ \A k \in DOMAIN todo : ~IsNew(todo[k])

(* Meanwhile nothing is released. *)
Quiet ==
    /\ \A k \in DOMAIN calls : calls[k].self = Nil /\ calls[k].current = Nil
    /\ \A S \in Structs : \A k \in DOMAIN stack[S] : stack[S][k] = Nil

BuildingIsQuiet == \A S \in Structs : Building(S) => Quiet

NewMembersAreNil ==
    \A S \in Structs : Building(S) =>
        \A k \in DOMAIN todo :
            todo[k].to.base = S /\ ~Stored(k) => member[todo[k].to.path[1]][free_idx[S]] = Nil

-----------------------------------------------------------------------------
(* The counts.                                                             *)
Pending(S, i) == IF Building(S) /\ i = free_idx[S] THEN 1 ELSE 0

Slack(S, i) == allocation[S][i] - ReferencesTo(S, i) - Pending(S, i)

CountsOK == \A S \in Structs : \A i \in Slots(S) : Slack(S, i) >= 0

(* In a tidy program what is overwritten without a release is nil, and a    *)
(* temporary is released by the statement that fills it.                    *)
Release(t) == Move(Place(t, <<>>), NilPlace, TRUE, FALSE)

NothingIsLost ==
    /\ tidy => \A k \in DOMAIN todo :
         /\ ~IsNew(todo[k]) /\ ~todo[k].delete /\ ~Stored(k) =>
              /\ todo[k].to.path = <<>> /\ env[todo[k].to.base] = Nil
              /\ \A j \in DOMAIN todo : j < k => todo[j].to # todo[k].to
         /\ todo[k].from.base \in Structs => ~todo[k].retain
    /\ \A t \in Tmp :
         /\ env[t] # Nil => \E k \in DOMAIN todo : todo[k] = Release(t)
         /\ \A k \in DOMAIN todo : todo[k].to = Place(t, <<>>) =>
              \E j \in DOMAIN todo : j >= k /\ todo[j] = Release(t)

CountsMatch == tidy => \A S \in Structs : \A i \in Slots(S) : Slack(S, i) = 0

(* What an assignment reads is not what it overwrites. *)
RightSideIsKept ==
    ~Overlaps =>
      /\ phase \in {"delete", "store"} /\ Head(todo).retain =>
           Cell(Head(todo).to) \notin CellsRead(Head(todo).from)
      /\ phase = "store" /\ Head(todo).delete /\ Head(todo).retain =>
           expected = Value(Head(todo).from)
      /\ AssignmentTakesEffect

-----------------------------------------------------------------------------
(* The heap is made of functions, and its values are in range. *)
HeapOK ==
    /\ allocation = [S \in Structs |-> allocation[S]] /\ free_idx = [S \in Structs |-> free_idx[S]]
    /\ stack = [S \in Structs |-> stack[S]]
    /\ member = [m \in Members |-> member[m]] /\ env = [v \in Vars |-> env[v]]
    /\ \A S \in Structs : /\ allocation[S] \in [Slots(S) -> Nat]
                          /\ free_idx[S] \in Slots(S)
                          /\ stack[S] \in Seq(Pointers(S))
    /\ \A m \in Members : member[m] \in [Slots(Owner[m]) -> Pointers(TypeOf[m])]
    /\ \A v \in Vars : env[v] \in Pointers(TypeOf[v])
    /\ todo \in Seq(Moves) /\ tidy \in BOOLEAN /\ used \in Programs

-----------------------------------------------------------------------------
(* The inductive invariant. *)
HeapInv ==
    /\ HeapOK /\ ActivationsOK /\ ReleasedOnce /\ StacksHaveDrains
    /\ MovesOK /\ PhaseOK /\ TargetsReachable /\ SourceReachable /\ RoomForNew
    /\ BuildingIsQuiet /\ NewMembersAreNil
    /\ CountsOK /\ NothingIsLost /\ CountsMatch /\ RightSideIsKept
    /\ FreeSlotsAreFound /\ FreeSlotsAreClean
=============================================================================
