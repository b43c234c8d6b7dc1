----------------------------- MODULE StructHeap -----------------------------
(***************************************************************************)
(* The heap of struct objects that the compiler generates: one allocation   *)
(* array of reference counts per struct, member arrays, a search for a free *)
(* slot that starts at free_idx, and the functions __incr__, __decr__ and   *)
(* __del__ (NodeStructCreateRefCountFunctions.h), called where              *)
(* ASTPointerScope.h puts deletes and retains around the assignments of a   *)
(* program.                                                                *)
(*                                                                         *)
(* The program is any sequence of statements over a few pointer variables.  *)
(* A statement is lowered to moves; one step is one delete, one store, one  *)
(* retain, or one turn of a loop of __decr__.  Arrays of pointers are left  *)
(* out.  Programs here do not dereference nil and do not exceed             *)
(* MAX_STRUCTS; the code compiled from them may still leave an array, and   *)
(* then reads Outside.  The release stacks are unbounded (StackFits says    *)
(* whether their arrays are long enough).                                  *)
(***************************************************************************)
EXTENDS Integers, Sequences, FiniteSets

CONSTANTS
    Structs,       \* the struct types
    Members,       \* their members of object type
    Owner,         \* the struct that declares a member
    Vars,          \* the pointer variables of the program
    Tmp,           \* those that the compiler adds, one per struct at most
    TypeOf,        \* the struct a member or a variable points to
    Recursive,     \* NodeStruct::recursive_structs
    Params,        \* the members a constructor assigns from its arguments, in order
    Others,        \* the others of them, in the order of their names
    MaxStructs,    \* MAX_STRUCTS: the slots of a struct
    Programs,      \* which structs a program may use together
    Overlaps,      \* may a statement read the member it overwrites
    Outside,       \* what KSP reads at an index outside an array
    MaxStatements  \* bound: the length of a program of these structs

Nil == -1
None == "none"     \* the base of the literal nil

ASSUME StructsAssumption ==
    /\ IsFiniteSet(Members) /\ IsFiniteSet(Vars)
    /\ Owner \in [Members -> Structs]
    /\ Tmp \subseteq Vars
    /\ TypeOf \in [Members \cup Vars -> Structs]
    /\ Recursive \in [Structs -> SUBSET Structs]
    /\ Params \in [Structs -> Seq(Members)]
    /\ \A S \in Structs : \A k \in DOMAIN Params[S] :
         /\ Owner[Params[S][k]] = S
         /\ \A j \in DOMAIN Params[S] : Params[S][j] = Params[S][k] => j = k
    /\ Others \in [Structs -> Seq(Structs)]
    /\ \A S \in Structs : { Others[S][k] : k \in DOMAIN Others[S] } = Recursive[S] \ {S}
    /\ MaxStructs \in [Structs -> Nat \ {0}]
    /\ Programs \subseteq SUBSET Structs
    /\ Overlaps \in BOOLEAN /\ Outside \in Int /\ MaxStatements \in [Programs -> Nat]

(* Names of different kinds are different. *)
ASSUME NamesAssumption ==
    /\ Members \cap Vars = {} /\ Structs \cap Vars = {} /\ Structs \cap Members = {}
    /\ None \notin Vars \cup Structs

VARIABLES
    (* the generated arrays and variables *)
    allocation,    \* S::allocation, the reference counts
    free_idx,      \* S::free_idx
    member,        \* the member arrays
    stack,         \* S::stack up to S::stack_top
    env,           \* the pointer variables
    (* where the program is *)
    todo,          \* the moves the current statement has left
    phase,         \* what the first of them does next
    expected,      \* history: what its right side denoted when it began
    calls,         \* the activations of __decr__, the innermost last
    (* the program *)
    used,          \* the structs it uses
    tidy,          \* it has not overwritten an object with nil or a new one
    statements     \* how many statements it has executed

heapVars == <<allocation, free_idx, member, stack, env>>
programVars == <<used, tidy, statements>>
vars == <<allocation, free_idx, member, stack, env, todo, phase, expected, calls, used, tidy, statements>>

Slots(S) == 0 .. MaxStructs[S] - 1
Pointers(S) == Slots(S) \cup {Nil}
MembersOf(S) == { m \in Members : Owner[m] = S }

-----------------------------------------------------------------------------
(***************************************************************************)
(* Places of pointers: a variable, a member of the object it points to, a   *)
(* member of that, or - in a constructor - the object at free_idx.          *)
(***************************************************************************)
Place(base, path) == [base |-> base, path |-> path]
NilPlace == Place(None, <<>>)

BaseValue(b) == CASE b \in Vars    -> env[b]
                  [] b \in Structs -> free_idx[b]
                  [] OTHER         -> Nil

MemberOf(m, i) == IF i \in Slots(Owner[m]) THEN member[m][i] ELSE Outside
Count(S, i) == IF i \in Slots(S) THEN allocation[S][i] ELSE Outside

(* The index with which the last member of a path is accessed. *)
Index(p) == IF Len(p.path) = 2 THEN MemberOf(p.path[1], BaseValue(p.base)) ELSE BaseValue(p.base)

Value(p) == IF p.path = <<>> THEN BaseValue(p.base)
                             ELSE MemberOf(p.path[Len(p.path)], Index(p))

PlaceType(p) == IF p.path = <<>> THEN TypeOf[p.base] ELSE TypeOf[p.path[Len(p.path)]]

(* The cells of the heap that are read to find the value of a place. *)
Cell(p) == IF p.path = <<>> THEN <<p.base, Nil>> ELSE <<p.path[Len(p.path)], Index(p)>>
CellsRead(p) == {Cell(p)} \cup
    IF Len(p.path) = 2 THEN {<<p.path[1], BaseValue(p.base)>>} ELSE {}

(* No nil is dereferenced on the way. *)
Reachable(p) ==
    /\ p.path # <<>> => BaseValue(p.base) # Nil
    /\ Len(p.path) = 2 => Index(p) # Nil

(* The places of each type a program can write and read. *)
Paths(v, longest) ==
    {<<>>} \cup { <<m>> : m \in MembersOf(TypeOf[v]) }
           \cup IF longest = 1 THEN {}
                ELSE UNION { { <<m, n>> : n \in MembersOf(TypeOf[m]) } : m \in MembersOf(TypeOf[v]) }
Places(longest) ==
    [S \in Structs |-> { p \in UNION { { Place(v, path) : path \in Paths(v, longest) } :
                                         v \in Vars \ Tmp } : PlaceType(p) = S }]
Targets == Places(1)
Sources == Places(2)

-----------------------------------------------------------------------------
(***************************************************************************)
(* The lowering of statements (ASTPointerScope)                             *)
(***************************************************************************)
(* One assignment: may the old value be released before, and the new one    *)
(* retained after it.                                                       *)
Move(to, from, delete, retain) ==
    [op |-> "move", to |-> to, from |-> from, delete |-> delete, retain |-> retain]
New(S) == [op |-> "new", to |-> Place(S, <<>>), from |-> NilPlace,
           delete |-> FALSE, retain |-> FALSE]

(* Mutant of ReadsTarget: a statement that reads its target is not noticed. *)
NeverReadsTarget(to, from) == FALSE

(* is_self_ptr_assignment looks for the name of the left side on the right; *)
(* an access chain has no name, so only a variable is ever found.           *)
ReadsTarget(to, from) == to.path = <<>> /\ from.base = to.base

(* Mutant of Assigned: the old object is not released. *)
AssignedWithoutDelete(to, from, tmp) == <<Move(to, from, FALSE, TRUE)>>

(* visit(NodeSingleAssignment): delete the left side, assign, retain it;    *)
(* through a temporary when the left side is also read.                     *)
Assigned(to, from, tmp) ==
    IF ReadsTarget(to, from)
    THEN <<Move(Place(tmp, <<>>), from, FALSE, TRUE),
           Move(to, Place(tmp, <<>>), TRUE, TRUE),
           Move(Place(tmp, <<>>), NilPlace, TRUE, FALSE)>>
    ELSE <<Move(to, from, TRUE, TRUE)>>

(* An assignment of nil does not alter the count. *)
Cleared(to) == <<Move(to, NilPlace, FALSE, FALSE)>>

(* Mutant of Declared: a declaration does not retain. *)
DeclaredUnretained(v, from) == <<Move(Place(v, <<>>), from, FALSE, FALSE)>>

(* visit(NodeSingleDeclaration), and the delete at the end of the scope; a  *)
(* variable out of scope is not read, and keeps nil here.                   *)
Declared(v, from) == <<Move(Place(v, <<>>), from, FALSE, TRUE)>>
LeftScope(v) == <<Move(Place(v, <<>>), NilPlace, TRUE, FALSE)>>

(* A constructor call: __init__ takes a slot, assigns the members from its  *)
(* arguments like any other assignment, and returns free_idx.               *)
Constructed(S, args) ==
    <<New(S)>> \o [k \in DOMAIN Params[S] |->
                     Move(Place(S, <<Params[S][k]>>), args[k], TRUE, TRUE)]

(* Of a declaration the count stays 1.  Of an assignment it becomes 2: the  *)
(* left side is released first and retained after the constructor set 1.    *)
DeclaredNew(v, S, args) ==
    Constructed(S, args) \o <<Move(Place(v, <<>>), Place(S, <<>>), FALSE, FALSE)>>
AssignedNew(to, S, args) ==
    <<Move(to, NilPlace, TRUE, FALSE)>> \o Constructed(S, args)
        \o <<Move(to, Place(S, <<>>), FALSE, TRUE)>>

-----------------------------------------------------------------------------
(***************************************************************************)
(* The program                                                             *)
(***************************************************************************)
FirstPhase(moves) == CASE moves = <<>>          -> "idle"
                       [] moves # <<>> /\ Head(moves).op = "new" -> "new"
                       [] moves # <<>> /\ Head(moves).op = "move" /\ Head(moves).delete  -> "delete"
                       [] moves # <<>> /\ Head(moves).op = "move" /\ ~Head(moves).delete -> "store"

Begin(moves, leaks) ==
    /\ todo' = moves /\ phase' = FirstPhase(moves)
    /\ statements' = statements + 1
    /\ tidy' = (tidy /\ ~leaks)
    /\ UNCHANGED <<heapVars, expected, calls, used>>

Continue ==
    /\ todo' = Tail(todo)
    /\ phase' = FirstPhase(todo')

Undeclared(v) == env[v] = Nil

Assign(to, from) ==
    /\ Overlaps \/ to.path = <<>> \/ Cell(to) \notin CellsRead(from)
    /\ \E tmp \in Tmp : /\ TypeOf[tmp] = PlaceType(to)
                        /\ Begin(Assigned(to, from, tmp), FALSE)

Clear(to) == Value(to) # Nil /\ Begin(Cleared(to), TRUE)

Declare(v, from) ==
    /\ Undeclared(v) /\ from.base # v
    /\ Begin(Declared(v, from), FALSE)

LeaveScope(v) == env[v] # Nil /\ Begin(LeftScope(v), FALSE)

(* A constructor call; its arguments are variables or nil. *)
Arguments(S) ==
    LET given(k) == { Place(v, <<>>) : v \in { x \in Vars \ Tmp :
                        TypeOf[x] = TypeOf[Params[S][k]] /\ env[x] # Nil } } \cup {NilPlace}
    IN  { args \in [DOMAIN Params[S] -> UNION { given(k) : k \in DOMAIN Params[S] }] :
            \A k \in DOMAIN Params[S] : args[k] \in given(k) }

HasFreeSlot(S) == \E i \in Slots(S) : allocation[S][i] = 0

DeclareNew(v, args) ==
    /\ Undeclared(v) /\ HasFreeSlot(TypeOf[v])
    /\ Begin(DeclaredNew(v, TypeOf[v], args), FALSE)

(* An argument that is also the left side is a case for the temporary, and  *)
(* then the constructor call is that of a declaration.                      *)
AssignNew(to, args) ==
    LET S == PlaceType(to)
        readsTarget == \E k \in DOMAIN Params[S] : ReadsTarget(to, args[k])
    IN  /\ HasFreeSlot(S)
        /\ \E tmp \in Tmp :
             /\ TypeOf[tmp] = S
             /\ Begin(IF readsTarget
                      THEN DeclaredNew(tmp, S, args)
                             \o <<Move(to, Place(tmp, <<>>), TRUE, TRUE)>> \o LeftScope(tmp)
                      ELSE AssignedNew(to, S, args), ~readsTarget)

-----------------------------------------------------------------------------
(***************************************************************************)
(* The moves                                                               *)
(***************************************************************************)
Least(set) == CHOOSE i \in set : \A j \in set : i <= j

(* Mutant of Search: it starts behind free_idx. *)
SearchBehind(S) ==
    LET free == { i \in Slots(S) : i > free_idx[S] /\ allocation[S][i] = 0 }
    IN  IF free = {} THEN Nil ELSE Least(free)

(* search(allocation, 0, free_idx, MAX_STRUCTS - 1) *)
Search(S) ==
    LET free == { i \in Slots(S) : i >= free_idx[S] /\ allocation[S][i] = 0 }
    IN  IF free = {} THEN Nil ELSE Least(free)

TakeSlot ==
    /\ phase = "new"
    /\ LET S == Head(todo).to.base
       IN  /\ free_idx' = [free_idx EXCEPT ![S] = Search(S)]
           /\ allocation' = IF Search(S) \in Slots(S)
                            THEN [allocation EXCEPT ![S][Search(S)] = 1] ELSE allocation
    /\ Continue
    /\ UNCHANGED <<member, stack, env, expected, calls, programVars>>

(* How __decr__ of a struct walks what it releases. *)
IsRecursive(m) == TypeOf[m] \in Recursive[Owner[m]]
RecursiveMembersOf(S) == { m \in MembersOf(S) : IsRecursive(m) }

(* is_linear_recursive, is_non_linear_direct_recursion *)
IsLinear(S) ==
    \/ Recursive[S] = {}
    \/ /\ \E R \in Structs : Recursive[S] = {R}
       /\ \E m \in Members : RecursiveMembersOf(S) = {m} /\ TypeOf[m] = S
IsDirect(S) == \A m \in RecursiveMembersOf(S) : TypeOf[m] = S

(* What a release pushes is on a stack that it drains.  This is so when the *)
(* structs found for S hold those found for each of them, as far as members *)
(* point there.  The search of collect_recursive_structs does not ensure it *)
(* (MCStructCycle), so it is a hypothesis where it is needed.              *)
RecursionIsClosed ==
    \A S \in Structs : \A R \in {S} \cup Recursive[S] :
        \A m \in RecursiveMembersOf(R) : TypeOf[m] \in {S} \cup Recursive[S]

(* The structs whose stacks it drains, in this order, its own first.        *)
Turns(S) == IF IsDirect(S) THEN <<S>> ELSE <<S>> \o Others[S]

(* An activation of __decr__: the list it follows or the stack it drains,   *)
(* and - while an object is being released - that object and its members    *)
(* that have not been passed on yet.                                        *)
Activation(S, pointer) ==
    [of |-> S, turn |-> 1, current |-> IF IsLinear(S) THEN pointer ELSE Nil,
     self |-> Nil, left |-> {}]

Push(S, pointer) == [stack EXCEPT ![S] = Append(@, pointer)]

(* The call of __decr__ of S: a branching one pushes its argument.          *)
Enter(S, pointer, callers) ==
    /\ calls' = Append(callers, Activation(S, pointer))
    /\ stack' = IF IsLinear(S) THEN stack ELSE Push(S, pointer)

Delete ==
    /\ phase = "delete"
    /\ Enter(PlaceType(Head(todo).to), Value(Head(todo).to), <<>>)
    /\ expected' = Value(Head(todo).from)
    /\ phase' = "store"
    /\ UNCHANGED <<allocation, free_idx, member, env, todo, programVars>>

Store ==
    /\ phase = "store" /\ calls = <<>>
    /\ LET move == Head(todo)
       IN  /\ IF move.to.path = <<>>
              THEN /\ env' = [env EXCEPT ![move.to.base] = Value(move.from)]
                   /\ UNCHANGED member
              ELSE /\ member' = [member EXCEPT ![move.to.path[1]][Index(move.to)] = Value(move.from)]
                   /\ UNCHANGED env
           /\ expected' = IF ~move.retain THEN Nil
                          ELSE IF move.delete THEN expected ELSE Value(move.from)
           /\ IF move.retain THEN phase' = "retain" /\ UNCHANGED todo ELSE Continue
    /\ UNCHANGED <<allocation, free_idx, stack, calls, programVars>>

(* __incr__ *)
Retain ==
    /\ phase = "retain"
    /\ LET S == PlaceType(Head(todo).to)
           i == Value(Head(todo).to)
       IN  allocation' = IF i = Nil THEN allocation ELSE [allocation EXCEPT ![S][i] = @ + 1]
    /\ expected' = Nil
    /\ Continue
    /\ UNCHANGED <<free_idx, member, stack, env, calls, programVars>>

-----------------------------------------------------------------------------
(***************************************************************************)
(* __decr__                                                                *)
(***************************************************************************)
Running == phase = "store" /\ calls # <<>>
Frame == calls[Len(calls)]
Drained == IF IsLinear(Frame.of) THEN Frame.of ELSE Turns(Frame.of)[Frame.turn]

Resume(frame) == calls' = [calls EXCEPT ![Len(calls)] = frame]
Return == calls' = SubSeq(calls, 1, Len(calls) - 1)

(* allocation[self] := allocation[self] - 1, and 0 when nothing is left.    *)
DecrementCount(S, i) ==
    allocation' = [allocation EXCEPT ![S][i] = IF @ > 1 THEN @ - 1 ELSE 0]

Taken(S, i) == [Frame EXCEPT !.current = Nil,
                             !.self = IF Count(S, i) > 1 THEN Nil ELSE i,
                             !.left = IF Count(S, i) > 1 THEN {} ELSE MembersOf(S)]

(* The list of a linear struct: one object. *)
FollowList ==
    /\ Running /\ IsLinear(Frame.of) /\ Frame.self = Nil /\ Frame.current # Nil
    /\ DecrementCount(Frame.of, Frame.current)
    /\ Resume(Taken(Frame.of, Frame.current))
    /\ UNCHANGED <<free_idx, member, stack, env, todo, phase, expected, programVars>>

EndOfList ==
    /\ Running /\ IsLinear(Frame.of) /\ Frame.self = Nil /\ Frame.current = Nil
    /\ Return
    /\ UNCHANGED <<heapVars, todo, phase, expected, programVars>>

Top(S) == stack[S][Len(stack[S])]
Popped(S) == SubSeq(stack[S], 1, Len(stack[S]) - 1)

(* Mutant of PopStack: the top is read and left where it is. *)
ReadStack ==
    /\ Running /\ ~IsLinear(Frame.of) /\ Frame.self = Nil /\ stack[Drained] # <<>>
    /\ IF Top(Drained) = Nil
       THEN UNCHANGED <<allocation, calls>>
       ELSE /\ DecrementCount(Drained, Top(Drained))
            /\ Resume(Taken(Drained, Top(Drained)))
    /\ UNCHANGED <<free_idx, member, stack, env, todo, phase, expected, programVars>>

(* One turn of the loop that drains a stack. *)
PopStack ==
    /\ Running /\ ~IsLinear(Frame.of) /\ Frame.self = Nil /\ stack[Drained] # <<>>
    /\ stack' = [stack EXCEPT ![Drained] = Popped(Drained)]
    /\ IF Top(Drained) = Nil
       THEN UNCHANGED <<allocation, calls>>
       ELSE /\ DecrementCount(Drained, Top(Drained))
            /\ Resume(Taken(Drained, Top(Drained)))
    /\ UNCHANGED <<free_idx, member, env, todo, phase, expected, programVars>>

(* Mutant of NextStack: every stack is drained once. *)
DrainOnce ==
    /\ Running /\ ~IsLinear(Frame.of) /\ Frame.self = Nil /\ stack[Drained] = <<>>
    /\ IF Frame.turn < Len(Turns(Frame.of))
       THEN Resume([Frame EXCEPT !.turn = @ + 1]) ELSE Return
    /\ UNCHANGED <<heapVars, todo, phase, expected, programVars>>

(* The loop around the loops: the next stack, the first again while any is  *)
(* not empty, the end.                                                      *)
NextStack ==
    /\ Running /\ ~IsLinear(Frame.of) /\ Frame.self = Nil /\ stack[Drained] = <<>>
    /\ LET turns == Turns(Frame.of)
           more == \E k \in DOMAIN turns : stack[turns[k]] # <<>>
       IN  \/ Frame.turn < Len(turns) /\ Resume([Frame EXCEPT !.turn = @ + 1])
           \/ Frame.turn = Len(turns) /\ more /\ Resume([Frame EXCEPT !.turn = 1])
           \/ Frame.turn = Len(turns) /\ ~more /\ Return
    /\ UNCHANGED <<heapVars, todo, phase, expected, programVars>>

(* The members of a released object: those that are not recursive first,    *)
(* each by a call of the __decr__ of its struct.                            *)
ReleaseMember(m) ==
    /\ Running /\ m \in Frame.left /\ ~IsRecursive(m)
    /\ Enter(TypeOf[m], MemberOf(m, Frame.self),
             [calls EXCEPT ![Len(calls)].left = @ \ {m}])
    /\ UNCHANGED <<allocation, free_idx, member, env, todo, phase, expected, programVars>>

(* Mutant of PassOnMember: nil is pushed like an object. *)
PushNil(m) ==
    /\ Running /\ m \in Frame.left /\ IsRecursive(m)
    /\ \A n \in Frame.left : IsRecursive(n)
    /\ IF IsLinear(Frame.of)
       THEN /\ Resume([Frame EXCEPT !.left = @ \ {m}, !.current = MemberOf(m, Frame.self)])
            /\ UNCHANGED stack
       ELSE /\ Resume([Frame EXCEPT !.left = @ \ {m}])
            /\ stack' = Push(TypeOf[m], MemberOf(m, Frame.self))
    /\ UNCHANGED <<allocation, free_idx, member, env, todo, phase, expected, programVars>>

(* Then the recursive ones: the next object of the list, or one more on the *)
(* stack of the member's struct.                                            *)
PassOnMember(m) ==
    /\ Running /\ m \in Frame.left /\ IsRecursive(m)
    /\ \A n \in Frame.left : IsRecursive(n)
    /\ IF IsLinear(Frame.of)
       THEN /\ Resume([Frame EXCEPT !.left = @ \ {m}, !.current = MemberOf(m, Frame.self)])
            /\ UNCHANGED stack
       ELSE /\ Resume([Frame EXCEPT !.left = @ \ {m}])
            /\ stack' = IF MemberOf(m, Frame.self) = Nil THEN stack
                        ELSE Push(TypeOf[m], MemberOf(m, Frame.self))
    /\ UNCHANGED <<allocation, free_idx, member, env, todo, phase, expected, programVars>>

(* Mutant of Destroy: the members keep their values. *)
DestroyCountOnly ==
    /\ Running /\ Frame.self # Nil /\ Frame.left = {}
    /\ free_idx' = [free_idx EXCEPT ![Drained] = IF Frame.self < @ THEN Frame.self ELSE @]
    /\ Resume([Frame EXCEPT !.self = Nil])
    /\ UNCHANGED <<allocation, member, stack, env, todo, phase, expected, programVars>>

(* Mutant of Destroy: free_idx is the last slot freed, not the lowest.      *)
DestroyLast ==
    /\ Running /\ Frame.self # Nil /\ Frame.left = {}
    /\ member' = [m \in Members |-> IF Owner[m] = Drained
                                    THEN [member[m] EXCEPT ![Frame.self] = Nil] ELSE member[m]]
    /\ free_idx' = [free_idx EXCEPT ![Drained] = Frame.self]
    /\ Resume([Frame EXCEPT !.self = Nil])
    /\ UNCHANGED <<allocation, stack, env, todo, phase, expected, programVars>>

(* __del__: the members become nil, free_idx the least of it and the slot.  *)
Destroy ==
    /\ Running /\ Frame.self # Nil /\ Frame.left = {}
    /\ member' = [m \in Members |-> IF Owner[m] = Drained
                                    THEN [member[m] EXCEPT ![Frame.self] = Nil] ELSE member[m]]
    /\ free_idx' = [free_idx EXCEPT ![Drained] = IF Frame.self < @ THEN Frame.self ELSE @]
    /\ Resume([Frame EXCEPT !.self = Nil])
    /\ UNCHANGED <<allocation, stack, env, todo, phase, expected, programVars>>

-----------------------------------------------------------------------------
Init ==
    /\ allocation = [S \in Structs |-> [i \in Slots(S) |-> 0]]
    /\ free_idx = [S \in Structs |-> 0]
    /\ member = [m \in Members |-> [i \in Slots(Owner[m]) |-> Nil]]
    /\ stack = [S \in Structs |-> <<>>]
    /\ env = [v \in Vars |-> Nil]
    /\ todo = <<>> /\ phase = "idle" /\ expected = Nil /\ calls = <<>>
    /\ used \in Programs /\ tidy = TRUE /\ statements = 0

Program ==
    /\ phase = "idle" /\ statements < MaxStatements[used]
    /\ \E S \in used :
        \/ \E to \in { p \in Targets[S] : Reachable(p) } :
             \/ Clear(to)
             \/ \E from \in { p \in Sources[S] : Reachable(p) } : Assign(to, from)
             \/ \E args \in Arguments(S) : AssignNew(to, args)
        \/ \E v \in { x \in Vars \ Tmp : TypeOf[x] = S } :
             \/ LeaveScope(v)
             \/ \E from \in { p \in Sources[S] : Reachable(p) } : Declare(v, from)
             \/ \E args \in Arguments(S) : DeclareNew(v, args)

Execute ==
    \/ TakeSlot \/ Delete \/ Store \/ Retain
    \/ FollowList \/ EndOfList \/ PopStack \/ NextStack
    \/ \E m \in Members : ReleaseMember(m) \/ PassOnMember(m)
    \/ Destroy

Terminated == phase = "idle" /\ UNCHANGED vars

Next == Program \/ Execute \/ Terminated

Spec == Init /\ [][Next]_vars

(* A KSP callback that does not wait runs to its end. *)
FairSpec == Spec /\ WF_vars(Execute)

-----------------------------------------------------------------------------
(***************************************************************************)
(* Properties                                                              *)
(***************************************************************************)
Moves == [op : {"move", "new"}, to : [base : Vars \cup Structs, path : Seq(Members)],
          from : [base : Vars \cup Structs \cup {None}, path : Seq(Members)],
          delete : BOOLEAN, retain : BOOLEAN]

Activations == [of : Structs, turn : Nat \ {0}, current : Int, self : Int, left : SUBSET Members]

(* Every count, pointer and index stays in its range: no array of the heap  *)
(* is accessed outside its bounds but for the slot -1 of a failed search.   *)
HeapTypeOK ==
    /\ \A S \in Structs : /\ allocation[S] \in [Slots(S) -> Nat]
                          /\ free_idx[S] \in Slots(S)
                          /\ stack[S] \in Seq(Pointers(S))
    /\ \A m \in Members : member[m] \in [Slots(Owner[m]) -> Pointers(TypeOf[m])]
    /\ \A v \in Vars : env[v] \in Pointers(TypeOf[v])
    /\ todo \in Seq(Moves) /\ phase \in {"idle", "new", "delete", "store", "retain"}
    /\ calls \in Seq(Activations)
    /\ \A k \in DOMAIN calls : calls[k].current \in Pointers(calls[k].of)

(* The cells that hold pointers. *)
Cells == (Vars \X {Nil}) \cup UNION { {m} \X Slots(Owner[m]) : m \in Members }
CellsOf == [S \in Structs |-> { c \in Cells : TypeOf[c[1]] = S }]
CellValue(c) == IF c[1] \in Vars THEN env[c[1]] ELSE member[c[1]][c[2]]

(* The struct whose objects an activation is releasing. *)
Releasing(f) == IF IsLinear(f.of) THEN f.of ELSE Turns(f.of)[f.turn]

(* Cells whose pointer is not, or no longer, counted: the one that the      *)
(* current move overwrites, and the members of a released object that have  *)
(* been passed on.                                                         *)
Uncounted ==
    (IF phase \in {"store", "retain"} THEN {Cell(Head(todo).to)} ELSE {})
    \cup UNION { { <<m, calls[k].self>> : m \in MembersOf(Releasing(calls[k])) \ calls[k].left } :
                   k \in { j \in DOMAIN calls : calls[j].self # Nil } }

(* The references to slot i of S that its count must include: those in      *)
(* cells, and those on their way to be given back.                          *)
ReferencesTo(S, i) ==
    Cardinality({ c \in CellsOf[S] : CellValue(c) = i } \ Uncounted)
    + Cardinality({ k \in DOMAIN stack[S] : stack[S][k] = i })
    + Cardinality({ k \in DOMAIN calls : calls[k].of = S /\ calls[k].current = i })

(* No object is freed while a reference to it is left: a count covers every *)
(* reference that is still to be used or given back, at every step of every *)
(* release, whatever the objects share and however the structs recurse.     *)
CountsCoverReferences ==
    \A S \in Structs : \A i \in Slots(S) : allocation[S][i] >= ReferencesTo(S, i)

(* A program that never overwrites an object with nil or with a new object  *)
(* leaks nothing: between its statements every count is exactly the number  *)
(* of references, so an object is freed with its last one (cycles apart).   *)
CountsAreExact ==
    tidy /\ phase = "idle" =>
        \A S \in Structs : \A i \in Slots(S) : allocation[S][i] = ReferencesTo(S, i)

(* What an assignment stores is what its right side denoted when the        *)
(* assignment began, and that object has not been freed since by the        *)
(* release of the left side.                                               *)
AssignmentTakesEffect ==
    phase = "retain" =>
        LET to == Head(todo).to
        IN  /\ Value(to) = expected
            /\ expected # Nil => Count(PlaceType(to), expected) > 0

BeingReleased(S, i) == \E k \in DOMAIN calls : Releasing(calls[k]) = S /\ calls[k].self = i

(* A search that starts at free_idx misses no free slot. *)
FreeSlotsAreFound ==
    \A S \in Structs : \A i \in Slots(S) :
        allocation[S][i] = 0 /\ ~BeingReleased(S, i) => free_idx[S] <= i

(* A free slot has no members left: a constructor, which releases what it   *)
(* overwrites, takes nothing from another object.                           *)
FreeSlotsAreClean ==
    \A m \in Members : \A i \in Slots(Owner[m]) :
        allocation[Owner[m]][i] = 0 /\ ~BeingReleased(Owner[m], i) => member[m][i] = Nil

(* The stack arrays, as long as MAX_STRUCTS, are long enough (of structs    *)
(* that point to their own or to another struct by at most two members).    *)
StackFits == \A S \in Structs : Len(stack[S]) <= MaxStructs[S]

(* No release ends with something left on a stack: the structs a struct     *)
(* drains are all that its objects reach.                                   *)
StacksAreDrained == calls = <<>> => \A S \in Structs : stack[S] = <<>>

(* Every release ends, of cyclic and shared objects too. *)
ReleaseEnds == []<>(calls = <<>>)
=============================================================================
