-------------------------- MODULE CallbackStorage ---------------------------
(***************************************************************************)
(* Storage for the local variables of callbacks.  KSP has global variables  *)
(* only, and several instances of a callback are under way at once: one     *)
(* runs until it waits, then another may.  The compiler decides which       *)
(* variables need one copy per instance (ASTThreadSafeAnalysis.h), gives    *)
(* those an array indexed by the instance (ASTDimensionExpansion.h), and    *)
(* lets a declaration reuse the storage of a variable whose lifetime has    *)
(* ended (ASTLifeTimeAnalysis.h, ASTVariableReuse.h).                       *)
(*                                                                         *)
(* A behaviour writes a program, compiles it and runs it.  A program is a   *)
(* flat sequence of statements; callback, if and while open a block that an *)
(* end closes.  Every declaration has an initial value and a later use      *)
(* (remove_unused_local_variables removes the others), all have one type,   *)
(* and no wait has the first call of a function among its arguments.        *)
(***************************************************************************)
EXTENDS Integers, Sequences, SequencesExt

CONSTANTS
    Names,         \* the names of variables
    None,          \* no name, no value, no instance
    Instances,     \* the callback instances under way, by NI_CALLBACK_ID mod MAX::CB::STACK
    Shadowing,     \* may a block declare a name that is visible already
    MaxLength,     \* bound: the statements of a program, with the ends
    MaxCallbacks   \* bound: its callbacks

ASSUME StorageAssumption ==
    /\ None \notin Names \cup Instances
    /\ Shadowing \in BOOLEAN /\ MaxLength \in Nat /\ MaxCallbacks \in Nat

VARIABLES
    program,       \* the statements
    pass,          \* what happens to it: "write", "reuse" or "run"
    declaration,   \* of each reference: get_declaration()
    lifeEnd,       \* m_life_times: the statement at which the life of a declaration ends
    unsafe,        \* the declarations that are not is_thread_safe
    at,            \* the statement that the reuse pass visits
    pool,          \* m_passive_vars_map: free storage by kind, the thread safe and the other
    blocks,        \* m_current_block: the blocks it is in, the innermost last
    ending,        \* m_lifetime_end_per_var: by statement, the storage made for lives that end there
    storage,       \* the storage a statement of the generated code names
    running,       \* the instance that runs
    pc,            \* the next statement of each instance, 0 when there is none
    memory,        \* the contents of the generated variables
    meant          \* history: the value of each variable of the source, by instance

analysisVars == <<declaration, lifeEnd, unsafe>>
reuseVars == <<at, pool, blocks, ending, storage>>
runVars == <<running, pc, memory, meant>>
vars == <<program, pass, declaration, lifeEnd, unsafe, at, pool, blocks, ending, storage,
          running, pc, memory, meant>>

Largest(S) == CHOOSE x \in S : \A y \in S : y <= x
Smallest(S) == CHOOSE x \in S : \A y \in S : x <= y

-----------------------------------------------------------------------------
(* The source program. *)
Statement(op, n) == [op |-> op, name |-> n]
Opens == {"callback", "if", "while"}
Is(p, op) == p \in DOMAIN program /\ program[p].op = op
Positions == DOMAIN program

Depth(p) == Cardinality({ q \in 1 .. p : program[q].op \in Opens })
          - Cardinality({ q \in 1 .. p : program[q].op = "end" })

(* The blocks that position p is in; p may be the position after the last.  *)
BlocksAt(p) == { o \in 1 .. p - 1 : /\ program[o].op \in Opens
                                    /\ \A q \in o .. p - 1 : Depth(q) >= Depth(o) }
BlockEnd(o) == Smallest({ q \in o + 1 .. Len(program) : Depth(q) < Depth(o) })

(* The declarations of a name that are visible at p, and in its own block.  *)
Visible(n, p) == { d \in 1 .. p - 1 : /\ program[d] = Statement("declare", n)
                                      /\ BlocksAt(d) \subseteq BlocksAt(p) }
Redeclared(n, p) == \E d \in Visible(n, p) : BlocksAt(d) = BlocksAt(p)

IsReference(p) == program[p].op \in {"use", "set", "while"} /\ program[p].name # None
Declarations == { d \in Positions : Is(d, "declare") }

(* What lexical scoping lets follow the program written so far. *)
MayFollow(s) ==
    LET next == Len(program) + 1
        rest == CASE s.op \in Opens -> Depth(Len(program)) + 2    \* the ends and a statement
                  [] s.op = "end"   -> Depth(Len(program)) - 1
                  [] OTHER          -> Depth(Len(program)) IN
    /\ next + rest <= MaxLength
    /\ (s.op = "callback") <=> (Depth(Len(program)) = 0)
    /\ s.op = "callback" =>
         Cardinality({ q \in Positions : Is(q, "callback") }) < MaxCallbacks
    /\ s.op = "end" => program[Len(program)].op \notin Opens
    /\ s.op = "declare" => /\ ~Redeclared(s.name, next)
                           /\ Visible(s.name, next) # {} => Shadowing
    /\ (s.op \in {"use", "set"} \/ (s.op = "while" /\ s.name # None)) =>
         Visible(s.name, next) # {}

Statements ==
    { Statement(op, None) : op \in Opens \cup {"end", "wait"} } \cup
    { Statement(op, n) : op \in {"declare", "use", "set", "while"}, n \in Names }

Write ==
    /\ pass = "write"
    /\ \E s \in Statements : MayFollow(s) /\ program' = Append(program, s)
    /\ UNCHANGED <<pass, analysisVars, reuseVars, runVars>>

-----------------------------------------------------------------------------
(***************************************************************************)
(* Lifetimes and thread safety.  A life ends at the last reference, and    *)
(* when that is in loops, with the body of the outermost of them.           *)
(***************************************************************************)
LoopsAround(r) == { w \in BlocksAt(r) \cup {r} : Is(w, "while") }

(* Mutant: with the body of the innermost loop. *)
EndsWithInnermostLoop(r) ==
    IF LoopsAround(r) = {} THEN r ELSE BlockEnd(Largest(LoopsAround(r))) - 1

add_lifetime_end(r) == IF LoopsAround(r) = {} THEN r ELSE BlockEnd(Smallest(LoopsAround(r))) - 1

LifeEnd(d, refs) == IF refs = {} THEN d ELSE add_lifetime_end(Largest(refs))

Yields == { w \in Positions : Is(w, "wait") }
CallbackOf(p) == Smallest(BlocksAt(p))

(* The range from the start of a callback to its last wait, in text order.  *)
InUnsafeRange(d) == \E w \in Yields : CallbackOf(w) = CallbackOf(d) /\ d < w

(* No wait is counted between the declaration and the end of the life.      *)
NoYieldInLife(d, end) == ~\E w \in Yields : d < w /\ w <= end

MarkedUnsafe(d, end) == InUnsafeRange(d) /\ ~NoYieldInLife(d, end)

NoStorage == [safe \in BOOLEAN |-> <<>>]

(* Lexical scoping binds the references; then the lifetimes are found, the  *)
(* variables are marked, and the reuse pass starts with an empty pool.      *)
Analyse ==
    /\ pass = "write" /\ program # <<>> /\ Depth(Len(program)) = 0
    /\ declaration' = [p \in { q \in Positions : IsReference(q) } |->
                          Largest(Visible(program[p].name, p))]
    /\ \A d \in Declarations : \E r \in DOMAIN declaration' : declaration'[r] = d
    /\ lifeEnd' = [d \in Declarations |->
                      LifeEnd(d, { r \in DOMAIN declaration' : declaration'[r] = d })]
    /\ unsafe' = { d \in Declarations : MarkedUnsafe(d, lifeEnd'[d]) }
    /\ pass' = "reuse"
    /\ at' = 1
    /\ pool' = NoStorage
    /\ blocks' = <<>>
    /\ ending' = [p \in Positions |-> NoStorage]
    /\ storage' = [p \in Positions |-> 0]
    /\ UNCHANGED <<program, runVars>>

-----------------------------------------------------------------------------
(***************************************************************************)
(* The reuse pass visits the statements in text order.  Storage is named by *)
(* the declaration it was made for.                                        *)
(***************************************************************************)

(* Mutant: the hash is over the type only. *)
HashOfType(d) == d \in Declarations

get_passive_var_hash(d) == d \notin unsafe

(* Storage is listed by kind, in the order it was handed out. *)
Listed(list, d) == [list EXCEPT ![get_passive_var_hash(d)] = Append(@, d)]

(* Mutant: what is free is overwritten. *)
ReplacesTheFree(free, list) == [safe \in BOOLEAN |-> list[safe]]

add_passive_vars(free, list) == [safe \in BOOLEAN |-> free[safe] \o list[safe]]

(* What is done after each statement: the lives that end at it end. *)
FinishStatement(free, lives) ==
    /\ pool' = add_passive_vars(free, lives[at])
    /\ ending' = [lives EXCEPT ![at] = NoStorage]
    /\ at' = at + 1

(* The declaration that a reference is given: the innermost replacement of  *)
(* its name, else its own.                                                 *)
Replacements(n) == { k \in DOMAIN blocks : n \in DOMAIN blocks[k].replace }
get_new_declaration(p) ==
    LET n == program[p].name IN
    IF Replacements(n) # {} THEN blocks[Largest(Replacements(n))].replace[n]
                            ELSE declaration[p]

EnterBlock ==
    /\ pass = "reuse" /\ at \in Positions /\ program[at].op \in Opens
    /\ blocks' = Append(blocks, [replace |-> <<>>, used |-> NoStorage])
    /\ storage' = IF IsReference(at) THEN [storage EXCEPT ![at] = get_new_declaration(at)] ELSE storage
    /\ at' = at + 1
    /\ UNCHANGED <<program, pass, analysisVars, pool, ending, runVars>>

(* A declaration takes free storage of its kind, or becomes storage itself. *)
VisitDeclaration ==
    /\ pass = "reuse" /\ Is(at, "declare")
    /\ LET safe == get_passive_var_hash(at)
           inner == Len(blocks)
           n == program[at].name IN
       IF pool[safe] # <<>>
       THEN LET free == Last(pool[safe]) IN
            /\ blocks' = [blocks EXCEPT ![inner] =
                 [replace |-> [m \in DOMAIN @.replace \cup {n} |->
                                 IF m = n THEN free ELSE @.replace[m]],
                  used |-> Listed(@.used, free)]]
            /\ storage' = [storage EXCEPT ![at] = free]
            /\ FinishStatement([pool EXCEPT ![safe] = Front(@)], ending)
       ELSE /\ storage' = [storage EXCEPT ![at] = at]
            /\ FinishStatement(pool, [ending EXCEPT ![lifeEnd[at]] = Listed(@, at)])
            /\ UNCHANGED blocks
    /\ UNCHANGED <<program, pass, analysisVars, runVars>>

VisitOther ==
    /\ pass = "reuse" /\ at \in Positions /\ program[at].op \in {"use", "set", "wait"}
    /\ storage' = IF IsReference(at) THEN [storage EXCEPT ![at] = get_new_declaration(at)] ELSE storage
    /\ FinishStatement(pool, ending)
    /\ UNCHANGED <<program, pass, analysisVars, blocks, runVars>>

(* At the end of a block the storage it reused is free again. *)
LeaveBlock ==
    /\ pass = "reuse" /\ Is(at, "end")
    /\ FinishStatement(add_passive_vars(pool, Last(blocks).used), ending)
    /\ blocks' = Front(blocks)
    /\ UNCHANGED <<program, pass, analysisVars, storage, runVars>>

-----------------------------------------------------------------------------
(* The compiled program.  Storage that is not thread safe has a copy for    *)
(* each instance, indexed by NI_CALLBACK_ID mod MAX::CB::STACK.             *)
Copy(d, i) == IF d \in unsafe THEN i ELSE None

StartProgram ==
    /\ pass = "reuse" /\ at > Len(program)
    /\ pass' = "run"
    /\ memory' = [d \in { storage[p] : p \in Declarations } |->
                     [i \in IF d \in unsafe THEN Instances ELSE {None} |-> None]]
    /\ meant' = [i \in Instances |-> [d \in Declarations |-> None]]
    /\ UNCHANGED <<program, analysisVars, reuseVars, running, pc>>

StartInstance(i) ==
    /\ pass = "run" /\ running = None /\ pc[i] = 0
    /\ \E c \in Positions : Is(c, "callback") /\ pc' = [pc EXCEPT ![i] = c + 1]
    /\ running' = i
    /\ UNCHANGED <<program, pass, analysisVars, reuseVars, memory, meant>>

Resume(i) ==
    /\ pass = "run" /\ running = None /\ pc[i] # 0
    /\ running' = i
    /\ UNCHANGED <<program, pass, analysisVars, reuseVars, pc, memory, meant>>

Runs(i, ops) == pass = "run" /\ running = i /\ program[pc[i]].op \in ops

(* A declaration gives its variable the initial value, a set another: each  *)
(* instance and statement a value of its own.                               *)
Assign(i) ==
    /\ Runs(i, {"declare", "set"})
    /\ LET p == pc[i]
           value == <<i, p>> IN
       /\ memory' = [memory EXCEPT ![storage[p]][Copy(storage[p], i)] = value]
       /\ meant' = [meant EXCEPT ![i][IF Is(p, "declare") THEN p ELSE declaration[p]] = value]
    /\ pc' = [pc EXCEPT ![i] = @ + 1]
    /\ UNCHANGED <<program, pass, analysisVars, reuseVars, running>>

Use(i) ==
    /\ Runs(i, {"use"})
    /\ pc' = [pc EXCEPT ![i] = @ + 1]
    /\ UNCHANGED <<program, pass, analysisVars, reuseVars, running, memory, meant>>

Wait(i) ==
    /\ Runs(i, {"wait"})
    /\ running' = None
    /\ pc' = [pc EXCEPT ![i] = @ + 1]
    /\ UNCHANGED <<program, pass, analysisVars, reuseVars, memory, meant>>

(* A condition is true or false: the block is entered or skipped.           *)
Branch(i) ==
    /\ Runs(i, {"if", "while"})
    /\ \E p \in {pc[i], BlockEnd(pc[i])} : pc' = [pc EXCEPT ![i] = p + 1]
    /\ UNCHANGED <<program, pass, analysisVars, reuseVars, running, memory, meant>>

(* The end of a loop leads back to its condition; the end of a callback     *)
(* ends the instance.                                                      *)
End(i) ==
    /\ Runs(i, {"end"})
    /\ LET p == pc[i]
           opened == Largest(BlocksAt(p)) IN
       CASE program[opened].op = "callback" ->
              /\ pc' = [pc EXCEPT ![i] = 0]
              /\ running' = None
              /\ meant' = [meant EXCEPT ![i] = [d \in Declarations |-> None]]
         [] program[opened].op = "while" ->
              pc' = [pc EXCEPT ![i] = opened] /\ UNCHANGED <<running, meant>>
         [] OTHER -> pc' = [pc EXCEPT ![i] = p + 1] /\ UNCHANGED <<running, meant>>
    /\ UNCHANGED <<program, pass, analysisVars, reuseVars, memory>>

-----------------------------------------------------------------------------
Init ==
    /\ program = <<>> /\ pass = "write"
    /\ declaration = <<>> /\ lifeEnd = <<>> /\ unsafe = {}
    /\ at = 1 /\ pool = NoStorage /\ blocks = <<>> /\ ending = <<>> /\ storage = <<>>
    /\ running = None /\ pc = [i \in Instances |-> 0] /\ memory = <<>> /\ meant = <<>>

Compile == Analyse \/ EnterBlock \/ VisitDeclaration \/ VisitOther \/ LeaveBlock \/ StartProgram
Run(i) == StartInstance(i) \/ Resume(i) \/ Assign(i) \/ Use(i) \/ Wait(i) \/ Branch(i) \/ End(i)

Next == Write \/ Compile \/ \E i \in Instances : Run(i)

Spec == Init /\ [][Next]_vars

-----------------------------------------------------------------------------
(* The reuse pass is in the blocks the statement is in, and what it handed  *)
(* out so far is storage made by a declaration of the same kind.            *)
StorageTypeOK ==
    pass = "reuse" =>
      /\ at \in 1 .. Len(program) + 1
      /\ Len(blocks) = Cardinality(BlocksAt(at))
      /\ \A safe \in BOOLEAN : pool[safe] \in Seq({ d \in Declarations : safe <=> d \notin unsafe })
      /\ \A d \in Declarations :
           d < at => /\ storage[storage[d]] = storage[d]
                     /\ storage[d] \in unsafe <=> d \in unsafe

(* Where a piece of storage is listed: free, among what ends with a         *)
(* statement, among what a block used.                                     *)
Lists == {<<"free", 0>>} \cup {"ending"} \X Positions \cup {"used"} \X DOMAIN blocks
ListAt(l) == CASE l[1] = "free"   -> pool
               [] l[1] = "ending" -> ending[l[2]]
               [] l[1] = "used"   -> blocks[l[2]].used
PlacesOf(d) ==
    { place \in Lists \X BOOLEAN \X Positions :
        LET list == ListAt(place[1])[place[2]]
        IN  place[3] \in DOMAIN list /\ list[place[3]] = d }

(* Storage is in one place: waiting for the end of the life it was made     *)
(* for, lent to a block, or free once.  What is free twice would be given   *)
(* to two variables, what is nowhere is never used again.                   *)
StorageIsInOnePlace ==
    pass = "reuse" =>
      \A d \in Declarations : d < at /\ storage[d] = d => Cardinality(PlacesOf(d)) = 1

(* Whatever instances run between its waits and whatever storage its        *)
(* variables share, an instance that reads a variable of the source finds   *)
(* the value that it gave this variable last.                               *)
ReadsItsOwnValue ==
    running # None =>
      LET p == pc[running] IN
      program[p].op \in {"use", "while"} /\ program[p].name # None =>
        memory[storage[p]][Copy(storage[p], running)] = meant[running][declaration[p]]
=============================================================================
