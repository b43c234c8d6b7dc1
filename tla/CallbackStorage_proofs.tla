----------------------- MODULE CallbackStorage_proofs -----------------------
(***************************************************************************)
(* Proofs about CallbackStorage, for every set of names and instances and   *)
(* programs of any length.  CompileInv says what the program, its analysis  *)
(* and the reuse pass have in common: lexical scoping, the lifetimes, where *)
(* every piece of storage is listed and who has been given it.  RunInv says *)
(* what every instance finds in the storage of its live variables.          *)
(***************************************************************************)
EXTENDS CallbackStorage, FiniteSetTheorems, FunctionTheorems, SequenceTheorems,
        WellFoundedInduction, TLAPS

-----------------------------------------------------------------------------
(* Positions and blocks. *)

(* A non-empty set of positions has a greatest element ...                  *)
LEMMA LargestExists ==
    ASSUME NEW n \in Int, NEW T \in SUBSET (1..n), T # {}
    PROVE  /\ Largest(T) \in T
           /\ \A y \in T : y <= Largest(T)
<1> DEFINE S == 1..n
           D == { x..n : x \in T }
<1>1. IsFiniteSet(S)
  BY FS_Interval
<1>2. IsWellFoundedOn(StrictSubsetOrdering(S), FiniteSubsetsOf(S))
  BY <1>1, FS_StrictSubsetOrderingWellFounded, ZenonT(60)
<1>3. D \subseteq FiniteSubsetsOf(S) /\ D # {}
  <2>1. ASSUME NEW x \in T PROVE x..n \in SUBSET S /\ IsFiniteSet(x..n)
    BY FS_Interval
  <2> QED BY <2>1 DEF FiniteSubsetsOf
<1> HIDE DEF D
<1>4. PICK d \in D : \A e \in D : <<e, d>> \notin StrictSubsetOrdering(S)
  BY <1>2, <1>3, WFMin, ZenonT(60)
<1>5. PICK x \in T : d = x..n
  BY DEF D
<1>6. ASSUME NEW y \in T, x < y PROVE FALSE
  <2>1. y..n \in D /\ y..n \in SUBSET S /\ x..n \in SUBSET S
    BY DEF D
  <2>2. y..n \subseteq x..n /\ y..n # x..n
    <3>1. x \in x..n /\ x \notin y..n
      BY <1>6
    <3> QED BY <3>1, <1>6
  <2> QED BY <2>1, <2>2, <1>4, <1>5 DEF StrictSubsetOrdering
<1>7. \A y \in T : y <= x
  BY <1>6
<1> QED BY <1>7 DEF Largest

(* ... and a least one. *)
LEMMA SmallestExists ==
    ASSUME NEW n \in Int, NEW T \in SUBSET (1..n), T # {}
    PROVE  /\ Smallest(T) \in T
           /\ \A y \in T : Smallest(T) <= y
<1> DEFINE M == { k \in 1..n : \A x \in T : k <= x }
<1>1. PICK a \in T : TRUE
  OBVIOUS
<1>2. M \in SUBSET (1..n) /\ M # {}
  <2>1. 1 \in M
    BY <1>1
  <2> QED BY <2>1
<1>3. Largest(M) \in M /\ \A k \in M : k <= Largest(M)
  BY <1>2, LargestExists
<1> HIDE DEF M
<1>4. Largest(M) \in 1..n /\ \A x \in T : Largest(M) <= x
  BY <1>3 DEF M
<1>5. Largest(M) \in T
  <2>1. SUFFICES ASSUME Largest(M) \notin T PROVE FALSE
    OBVIOUS
  <2>2. \A x \in T : Largest(M) + 1 <= x
    BY <1>4, <2>1
  <2>3. Largest(M) + 1 \in M
    BY <1>1, <1>4, <2>2 DEF M
  <2> QED BY <1>3, <1>4, <2>3
<1> QED BY <1>4, <1>5 DEF Smallest

(* What MayFollow leaves true of a program, complete or not. *)
ProgramInv ==
    /\ program \in Seq(Statements)
    /\ \A p \in Positions :
         /\ Depth(p - 1) >= 0 /\ Depth(p) >= 0
         /\ Is(p, "callback") <=> Depth(p - 1) = 0
         /\ Is(p, "declare") /\ Visible(program[p].name, p) # {} => Shadowing
         /\ IsReference(p) => Visible(program[p].name, p) # {}
         /\ Is(p, "end") => program[p - 1].op \notin Opens

(* A declaration's variable can be referred to at p. *)
Scoped(d, p) == d < p /\ BlocksAt(d) \subseteq BlocksAt(p)

(* The kinds of statements, and which of them open a block.                *)
LEMMA StatementOps ==
    ASSUME NEW s \in Statements
    PROVE  /\ s.op \in Opens \cup {"end", "wait", "declare", "use", "set"}
           /\ s.op \in {"declare", "use", "set"} => s.name \in Names
           /\ s.name \in Names \cup {None}
           /\ s = Statement(s.op, s.name)
  BY DEF Statements, Statement, Opens

(* A program is a sequence of statements.                                  *)
LEMMA ProgramShape ==
    ASSUME ProgramInv
    PROVE  /\ Len(program) \in Nat /\ Positions = 1..Len(program)
           /\ \A p \in Positions : program[p] \in Statements
  BY DEF ProgramInv, Positions

(* How deep a statement is, of any sequence of statements. *)
Opened(t, n) == Cardinality({ q \in 1..n : t[q].op \in Opens })
Closed(t, n) == Cardinality({ q \in 1..n : t[q].op = "end" })

(* Counting up to a position, one statement at a time.                     *)
LEMMA CountStep ==
    ASSUME NEW t, NEW p \in Nat \ {0}
    PROVE  /\ Opened(t, p) \in Nat /\ Opened(t, p - 1) \in Nat
           /\ Closed(t, p) \in Nat /\ Closed(t, p - 1) \in Nat
           /\ Opened(t, p) = IF t[p].op \in Opens THEN Opened(t, p - 1) + 1 ELSE Opened(t, p - 1)
           /\ Closed(t, p) = IF t[p].op = "end" THEN Closed(t, p - 1) + 1 ELSE Closed(t, p - 1)
  <1> DEFINE O(n) == { q \in 1..n : t[q].op \in Opens }
             E(n) == { q \in 1..n : t[q].op = "end" }
  <1>1. \A n \in Nat : IsFiniteSet(O(n)) /\ IsFiniteSet(E(n))
    <2> TAKE n \in Nat
    <2>1. IsFiniteSet(1..n)
      BY FS_Interval
    <2> QED BY <2>1, FS_Subset
  <1>2. \A n \in Nat : Cardinality(O(n)) \in Nat /\ Cardinality(E(n)) \in Nat
    BY <1>1, FS_CardinalityType
  <1>3. p - 1 \in Nat /\ p \notin O(p - 1) /\ p \notin E(p - 1)
    OBVIOUS
  <1>4. O(p) = IF t[p].op \in Opens THEN O(p - 1) \cup {p} ELSE O(p - 1)
    OBVIOUS
  <1>5. E(p) = IF t[p].op = "end" THEN E(p - 1) \cup {p} ELSE E(p - 1)
    OBVIOUS
  <1>6. \A n : Opened(t, n) = Cardinality(O(n)) /\ Closed(t, n) = Cardinality(E(n))
    BY DEF Opened, Closed
  <1> HIDE DEF O, E
  <1>7. /\ Cardinality(O(p - 1) \cup {p}) = Cardinality(O(p - 1)) + 1
        /\ Cardinality(E(p - 1) \cup {p}) = Cardinality(E(p - 1)) + 1
    BY <1>1, <1>3, FS_AddElement
  <1> QED BY <1>2, <1>3, <1>4, <1>5, <1>6, <1>7

LEMMA CountStart == ASSUME NEW t PROVE Opened(t, 0) = 0 /\ Closed(t, 0) = 0
  <1>1. { q \in 1..0 : t[q].op \in Opens } = {} /\ { q \in 1..0 : t[q].op = "end" } = {}
    OBVIOUS
  <1> QED BY <1>1, FS_EmptySet DEF Opened, Closed

LEMMA DepthIsCount == \A p : Depth(p) = Opened(program, p) - Closed(program, p)
  BY DEF Depth, Opened, Closed

LEMMA DepthStart == Depth(0) = 0
  BY CountStart, DepthIsCount

(* The depth rises at what opens a block and falls at its end.             *)
LEMMA DepthStep ==
    ASSUME NEW p \in Nat \ {0}
    PROVE  /\ Depth(p - 1) \in Int /\ Depth(p) \in Int
           /\ program[p].op \in Opens => Depth(p) = Depth(p - 1) + 1
           /\ program[p].op = "end" => Depth(p) = Depth(p - 1) - 1
           /\ program[p].op \notin Opens \cup {"end"} => Depth(p) = Depth(p - 1)
  <1>1. /\ Opened(program, p) \in Nat /\ Opened(program, p - 1) \in Nat
        /\ Closed(program, p) \in Nat /\ Closed(program, p - 1) \in Nat
        /\ Opened(program, p) = IF program[p].op \in Opens
                                THEN Opened(program, p - 1) + 1 ELSE Opened(program, p - 1)
        /\ Closed(program, p) = IF program[p].op = "end"
                                THEN Closed(program, p - 1) + 1 ELSE Closed(program, p - 1)
    BY CountStep
  <1>2. /\ Depth(p) = Opened(program, p) - Closed(program, p)
        /\ Depth(p - 1) = Opened(program, p - 1) - Closed(program, p - 1)
    BY DepthIsCount
  <1>3. program[p].op \in Opens => program[p].op # "end"
    BY DEF Opens
  <1> QED BY <1>1, <1>2, <1>3

(* Every position up to the end has a depth, and none below the callbacks. *)
LEMMA DepthNat ==
    ASSUME ProgramInv, NEW p \in 0..Len(program)
    PROVE  Depth(p) \in Nat
  <1>1. CASE p = 0
    BY <1>1, DepthStart
  <1>2. CASE p # 0
    <2>1. p \in Positions /\ p \in Nat \ {0}
      BY <1>2, ProgramShape
    <2>2. Depth(p) >= 0
      BY <2>1 DEF ProgramInv
    <2> QED BY <2>1, <2>2, DepthStep
  <1> QED BY <1>1, <1>2

(* The blocks at a position are an initial part of those at a later one,    *)
(* as far as they are open there.                                          *)
LEMMA BlocksArePrefix ==
    ASSUME NEW p \in Nat, NEW o \in BlocksAt(p), NEW q \in Nat, o < q, q <= p
    PROVE  o \in BlocksAt(q)
  BY DEF BlocksAt

(* The blocks around a position open before it.                            *)
LEMMA BlocksAreBefore ==
    ASSUME NEW p \in Nat, NEW o \in BlocksAt(p)
    PROVE  o \in 1..(p - 1) /\ program[o].op \in Opens
           /\ \A q \in o..(p - 1) : Depth(q) >= Depth(o)
  BY DEF BlocksAt

(* Every depth up to that of the position has one open block.               *)
LEMMA BlockOfDepth ==
    ASSUME ProgramInv, NEW p \in 1..(Len(program) + 1), NEW k \in 1..Depth(p - 1)
    PROVE  \E o \in BlocksAt(p) : Depth(o) = k
  <1> DEFINE T == { q \in 1..(p - 1) : Depth(q - 1) < k }
  <1>1. \A q \in 0..(p - 1) : Depth(q) \in Nat
    BY ProgramShape, DepthNat
  <1>2. T \in SUBSET (1..(p - 1)) /\ T # {}
    <2>1. p # 1
      BY DepthStart
    <2>2. 1 \in T
      BY <2>1, DepthStart, ProgramShape
    <2> QED BY <2>2
  <1> HIDE DEF T
  <1> DEFINE o == Largest(T)
  <1>3. o \in T /\ \A q \in T : q <= o
    <2>1. p - 1 \in Int
      BY ProgramShape
    <2> QED BY <1>2, <2>1, LargestExists, ZenonT(60)
  <1> HIDE DEF o
  <1> USE DEF T
  <1>4. o \in 1..(p - 1) /\ Depth(o - 1) < k
    BY <1>3
  <1>5. \A q \in o..(p - 1) : Depth(q) >= k
    <2> TAKE q \in o..(p - 1)
    <2>1. CASE q = p - 1
      BY <1>1, <2>1, ProgramShape
    <2>2. CASE q # p - 1
      <3>1. q + 1 \in 1..(p - 1) /\ (q + 1) - 1 = q
        BY <1>4, <2>2, ProgramShape
      <3>2. q + 1 \notin T
        BY <1>3, <1>4, <3>1
      <3> QED BY <1>1, <1>4, <3>1, <3>2
    <2> QED BY <2>1, <2>2
  <1> HIDE DEF T
  <1>6. o \in Nat \ {0} /\ o \in o..(p - 1)
    BY <1>4
  <1>7. program[o].op \in Opens /\ Depth(o) = k
    <2>1. Depth(o) >= k
      BY <1>5, <1>6
    <2>2. k \in Int /\ Depth(o) \in Int /\ Depth(o - 1) \in Int
      <3>1. Depth(p - 1) \in Nat
        BY <1>1, ProgramShape
      <3>2. k \in Int
        BY <3>1
      <3>3. Depth(o) \in Int /\ Depth(o - 1) \in Int
        BY <1>6, DepthStep, ZenonT(60)
      <3> QED BY <3>2, <3>3
    <2>3. Depth(o) # Depth(o - 1) /\ Depth(o) # Depth(o - 1) - 1
      BY <1>4, <2>1, <2>2
    <2>4. program[o].op \in Opens /\ Depth(o) = Depth(o - 1) + 1
      BY <1>6, <2>3, DepthStep
    <2> QED BY <1>4, <2>1, <2>2, <2>4
  <1>8. o \in BlocksAt(p)
    BY <1>4, <1>5, <1>7 DEF BlocksAt
  <1> QED BY <1>7, <1>8

(* The deeper of two open blocks is the later one. *)
LEMMA DepthsAscend ==
    ASSUME ProgramInv, NEW p \in 1..(Len(program) + 1), NEW o \in BlocksAt(p)
    PROVE  /\ Depth(o) \in 1..Depth(p - 1)
           /\ \A q \in BlocksAt(p) : o < q => Depth(o) < Depth(q)
  <1>1. o \in 1..(p - 1) /\ program[o].op \in Opens /\ \A q \in o..(p - 1) : Depth(q) >= Depth(o)
    BY BlocksAreBefore
  <1>2. \A q \in 0..(p - 1) : Depth(q) \in Nat
    BY ProgramShape, DepthNat
  <1>3. Depth(o) = Depth(o - 1) + 1 /\ o - 1 \in 0..(p - 1) /\ o \in 0..(p - 1)
    BY <1>1, DepthStep, SMTT(60)
  <1>4. Depth(o) \in 1..Depth(p - 1)
    BY <1>1, <1>2, <1>3
  <1>5. ASSUME NEW q \in BlocksAt(p), o < q PROVE Depth(o) < Depth(q)
    <2>1. q \in 1..(p - 1) /\ program[q].op \in Opens
      BY BlocksAreBefore
    <2>2. Depth(q) = Depth(q - 1) + 1
      <3>1. q \in Nat \ {0}
        BY <2>1, ProgramShape
      <3> QED BY <2>1, <3>1, DepthStep
    <2>3. q - 1 \in o..(p - 1)
      BY <1>1, <1>5, <2>1
    <2>4. Depth(q - 1) \in Nat /\ Depth(o) \in Nat
      BY <1>2, <1>3, <2>1
    <2> QED BY <1>1, <2>2, <2>3, <2>4
  <1> QED BY <1>4, <1>5

(* The steps of a walk over the statements. *)
LEMMA BlocksStart == BlocksAt(1) = {}
  BY DEF BlocksAt

(* After a statement that opens a block, that block is around too.         *)
LEMMA BlocksOpen ==
    ASSUME ProgramInv, NEW p \in Positions, program[p].op \in Opens
    PROVE  BlocksAt(p + 1) = BlocksAt(p) \cup {p} /\ p \notin BlocksAt(p)
  <1>1. p \in Nat \ {0} /\ Positions = 1..Len(program)
    BY ProgramShape
  <1>2. \A q \in 0..p : Depth(q) \in Nat
    BY <1>1, DepthNat, ProgramShape
  <1>3. Depth(p) = Depth(p - 1) + 1
    BY <1>1, DepthStep
  <1>4. p \notin BlocksAt(p)
    BY <1>1, BlocksAreBefore
  <1>5. ASSUME NEW o \in BlocksAt(p) PROVE o \in BlocksAt(p + 1)
    <2>1. o \in 1..(p - 1) /\ program[o].op \in Opens /\ \A q \in o..(p - 1) : Depth(q) >= Depth(o)
      BY <1>1, BlocksAreBefore
    <2>2. Depth(p) >= Depth(o)
      <3>1. p - 1 \in o..(p - 1) /\ p - 1 \in 0..p /\ o \in 0..p
        BY <1>1, <2>1
      <3>2. Depth(p - 1) >= Depth(o) /\ Depth(p - 1) \in Nat /\ Depth(o) \in Nat
        BY <1>2, <2>1, <3>1
      <3> QED BY <1>3, <3>2
    <2>3. \A q \in o..((p + 1) - 1) : Depth(q) >= Depth(o)
      BY <1>1, <2>1, <2>2
    <2> QED BY <1>1, <2>1, <2>3 DEF BlocksAt
  <1>6. p \in BlocksAt(p + 1)
    <2>1. \A q \in p..((p + 1) - 1) : q = p
      BY <1>1
    <2>2. Depth(p) \in Nat
      BY <1>1, <1>2
    <2> QED BY <1>1, <2>1, <2>2 DEF BlocksAt
  <1>7. ASSUME NEW o \in BlocksAt(p + 1), o # p PROVE o \in BlocksAt(p)
    <2>1. o \in 1..p
      BY <1>1, BlocksAreBefore
    <2> QED BY <1>1, <1>7, <2>1, BlocksArePrefix
  <1> QED BY <1>4, <1>5, <1>6, <1>7

(* Other statements leave the blocks around as they are.                   *)
LEMMA BlocksStay ==
    ASSUME ProgramInv, NEW p \in Positions, program[p].op \notin Opens \cup {"end"}
    PROVE  BlocksAt(p + 1) = BlocksAt(p)
  <1>1. p \in Nat \ {0} /\ Positions = 1..Len(program)
    BY ProgramShape
  <1>3. Depth(p) = Depth(p - 1)
    BY <1>1, DepthStep
  <1>5. ASSUME NEW o \in BlocksAt(p) PROVE o \in BlocksAt(p + 1)
    <2>1. o \in 1..(p - 1) /\ program[o].op \in Opens /\ \A q \in o..(p - 1) : Depth(q) >= Depth(o)
      BY <1>1, BlocksAreBefore
    <2>3. \A q \in o..((p + 1) - 1) : Depth(q) >= Depth(o)
      BY <1>1, <1>3, <2>1
    <2> QED BY <1>1, <2>1, <2>3 DEF BlocksAt
  <1>7. ASSUME NEW o \in BlocksAt(p + 1) PROVE o \in BlocksAt(p)
    <2>1. o \in 1..p /\ o # p
      BY <1>1, BlocksAreBefore
    <2> QED BY <1>1, <2>1, BlocksArePrefix
  <1> QED BY <1>5, <1>7

(* After an end, the innermost block is no longer around.                  *)
LEMMA BlocksClose ==
    ASSUME ProgramInv, NEW p \in Positions, Is(p, "end")
    PROVE  /\ BlocksAt(p) # {} /\ Largest(BlocksAt(p)) \in BlocksAt(p)
           /\ Depth(Largest(BlocksAt(p))) = Depth(p - 1)
           /\ BlocksAt(p + 1) = BlocksAt(p) \ {Largest(BlocksAt(p))}
  <1>1. p \in Nat \ {0} /\ Positions = 1..Len(program) /\ p \in 1..(Len(program) + 1)
    BY ProgramShape
  <1>2. \A q \in 0..p : Depth(q) \in Nat
    BY <1>1, DepthNat, ProgramShape
  <1>3. program[p].op = "end" /\ Depth(p) = Depth(p - 1) - 1
    BY <1>1, DepthStep DEF Is
  <1>4. Depth(p - 1) \in 1..Depth(p - 1)
    BY <1>1, <1>2, <1>3
  <1>5. PICK o \in BlocksAt(p) : Depth(o) = Depth(p - 1)
    BY <1>1, <1>4, BlockOfDepth
  <1>6. BlocksAt(p) \in SUBSET (1..(p - 1))
    BY <1>1, BlocksAreBefore
  <1> DEFINE m == Largest(BlocksAt(p))
  <1>7. m \in BlocksAt(p) /\ \A q \in BlocksAt(p) : q <= m
    <2>1. p - 1 \in Int /\ BlocksAt(p) # {}
      BY <1>1, <1>5
    <2> QED BY <1>6, <2>1, LargestExists, ZenonT(60)
  <1> HIDE DEF m
  <1>8. m = o
    <2>1. m \in 1..(p - 1) /\ o \in 1..(p - 1) /\ o <= m
      BY <1>6, <1>7
    <2>2. Depth(m) <= Depth(p - 1)
      BY <1>1, <1>2, <1>7, <2>1, DepthsAscend
    <2>3. o < m => Depth(o) < Depth(m)
      BY <1>1, <1>7, DepthsAscend
    <2>4. Depth(m) \in Nat /\ Depth(o) \in Nat
      BY <1>1, <1>2, <2>1
    <2> QED BY <1>5, <2>1, <2>2, <2>3, <2>4
  <1>9. ASSUME NEW q \in BlocksAt(p + 1) PROVE q \in BlocksAt(p) \ {m}
    <2>1. q \in 1..p /\ program[q].op \in Opens /\ \A r \in q..((p + 1) - 1) : Depth(r) >= Depth(q)
      BY <1>1, BlocksAreBefore
    <2>2. q # p
      BY <1>3, <2>1 DEF Opens
    <2>3. q \in BlocksAt(p)
      BY <1>1, <2>1, <2>2, BlocksArePrefix
    <2>4. Depth(p) >= Depth(q)
      BY <1>1, <2>1
    <2>5. q # m
      BY <1>1, <1>2, <1>3, <1>5, <1>8, <2>4
    <2> QED BY <2>3, <2>5
  <1>10. ASSUME NEW q \in BlocksAt(p), q # m PROVE q \in BlocksAt(p + 1)
    <2>1. q \in 1..(p - 1) /\ program[q].op \in Opens /\ \A r \in q..(p - 1) : Depth(r) >= Depth(q)
      BY <1>1, BlocksAreBefore
    <2>2. q < m
      BY <1>6, <1>7, <1>10
    <2>3. Depth(q) < Depth(m)
      BY <1>1, <1>7, <2>2, DepthsAscend
    <2>4. Depth(p) >= Depth(q)
      <3>1. Depth(q) \in Nat
        BY <1>1, <1>2, <2>1
      <3> QED BY <1>1, <1>2, <1>3, <1>5, <1>8, <2>3, <3>1
    <2>5. \A r \in q..((p + 1) - 1) : Depth(r) >= Depth(q)
      BY <1>1, <2>1, <2>4
    <2> QED BY <1>1, <2>1, <2>5 DEF BlocksAt
  <1> QED BY <1>5, <1>7, <1>8, <1>9, <1>10 DEF m

-----------------------------------------------------------------------------
(* Scopes and ends of blocks. *)
LEMMA DeclarationDepth ==
    ASSUME ProgramInv, NEW d \in Declarations
    PROVE  /\ d \in 1..Len(program) /\ Depth(d) \in Nat \ {0} /\ Depth(d - 1) = Depth(d)
           /\ program[d].op = "declare"
           /\ \E o \in BlocksAt(d) : Depth(o) = Depth(d)
  <1>1. d \in Positions /\ program[d].op = "declare" /\ Positions = 1..Len(program)
    BY ProgramShape DEF Declarations, Is
  <1>2. Depth(d) = Depth(d - 1)
    <2>1. d \in Nat \ {0} /\ program[d].op \notin Opens \cup {"end"}
      BY <1>1, ProgramShape DEF Opens
    <2> QED BY <2>1, DepthStep
  <1>3. Depth(d - 1) # 0
    BY <1>1 DEF ProgramInv, Is
  <1>4. Depth(d) \in Nat
    BY <1>1, DepthNat
  <1>5. d \in 1..(Len(program) + 1) /\ Depth(d) \in 1..Depth(d - 1)
    BY <1>1, <1>2, <1>3, <1>4, ProgramShape
  <1> QED BY <1>1, <1>2, <1>3, <1>4, <1>5, BlockOfDepth

(* While a declaration is in scope, no statement is outside of its block.   *)
LEMMA ScopeIsDeep ==
    ASSUME ProgramInv, NEW d \in Declarations, NEW p \in 1..(Len(program) + 1), Scoped(d, p),
           NEW q \in d..(p - 1)
    PROVE  Depth(d) <= Depth(q)
  <1>1. PICK o \in BlocksAt(d) : Depth(o) = Depth(d)
    BY DeclarationDepth
  <1>2. d \in Nat /\ p \in Nat
    BY DeclarationDepth, ProgramShape
  <1>3. o \in 1..(d - 1) /\ o \in BlocksAt(p)
    BY <1>1, <1>2, BlocksAreBefore DEF Scoped
  <1>4. q \in o..(p - 1)
    BY <1>2, <1>3
  <1>5. Depth(q) >= Depth(o)
    BY <1>2, <1>3, <1>4, BlocksAreBefore
  <1>6. q \in 0..Len(program) /\ d \in 0..Len(program)
    BY <1>2, DeclarationDepth, ProgramShape
  <1>7. Depth(q) \in Nat /\ Depth(d) \in Nat
    BY <1>6, DepthNat
  <1> QED BY <1>1, <1>5, <1>7

(* What is visible through blocks of a position is so further in.          *)
LEMMA ScopeNarrows ==
    ASSUME NEW d \in Nat, NEW p \in Nat, NEW q \in Nat, Scoped(d, p), d < q, q <= p
    PROVE  Scoped(d, q)
  <1>1. ASSUME NEW o \in BlocksAt(d) PROVE o \in BlocksAt(q)
    <2>1. o \in 1..(d - 1) /\ o \in BlocksAt(p)
      BY BlocksAreBefore DEF Scoped
    <2> QED BY <2>1, BlocksArePrefix
  <1> QED BY <1>1 DEF Scoped

(* A scope goes on until the block of its declaration ends. *)
LEMMA ScopeGoesOn ==
    ASSUME ProgramInv, NEW d \in Declarations, NEW p \in Positions, Scoped(d, p) \/ d = p,
           Depth(d) <= Depth(p)
    PROVE  Scoped(d, p + 1)
  <1>1. /\ p \in Nat \ {0} /\ Positions = 1..Len(program) /\ Len(program) \in Nat
        /\ d \in 1..Len(program) /\ d <= p
    BY ProgramShape, DeclarationDepth DEF Scoped
  <1>2. PICK o \in BlocksAt(d) : Depth(o) = Depth(d)
    BY DeclarationDepth
  <1>3. d \in 1..(Len(program) + 1) /\ p \in 1..(Len(program) + 1)
    BY <1>1
  <1>4. ASSUME NEW b \in BlocksAt(d) PROVE b \in BlocksAt(p + 1)
    <2>1. b \in 1..(d - 1) /\ program[b].op \in Opens
      BY <1>1, BlocksAreBefore
    <2>2. Depth(b) \in Nat /\ Depth(b) <= Depth(d - 1) /\ Depth(d - 1) = Depth(d)
      <3>1. Depth(b) \in 1..Depth(d - 1)
        BY <1>3, DepthsAscend
      <3> QED BY <3>1, DeclarationDepth
    <2>3. \A q \in b..(d - 1) : Depth(q) >= Depth(b)
      BY <1>1, BlocksAreBefore
    <2>4. ASSUME NEW q \in d..p PROVE Depth(q) >= Depth(b)
      <3>1. Depth(d) <= Depth(q)
        <4>1. CASE q = p
          BY <4>1
        <4>2. CASE q # p
          <5>1. q \in d..(p - 1) /\ Scoped(d, p)
            BY <1>1, <4>2
          <5> QED BY <1>3, <5>1, ScopeIsDeep
        <4> QED BY <4>1, <4>2
      <3>2. Depth(q) \in Nat
        BY <1>1, DepthNat
      <3> QED BY <2>2, <3>1, <3>2, DeclarationDepth
    <2>5. \A q \in b..((p + 1) - 1) : Depth(q) >= Depth(b)
      <3> TAKE q \in b..((p + 1) - 1)
      <3>1. q \in b..(d - 1) \/ q \in d..p
        BY <1>1, <2>1
      <3> QED BY <2>3, <2>4, <3>1
    <2>6. b \in 1..((p + 1) - 1)
      BY <1>1, <2>1
    <2> QED BY <2>1, <2>5, <2>6 DEF BlocksAt
  <1> QED BY <1>1, <1>4 DEF Scoped

(* Two declarations in scope: the earlier one is in scope at the later.     *)
LEMMA ScopesAreNested ==
    ASSUME ProgramInv, NEW d \in Declarations, NEW e \in Declarations, d < e,
           NEW p \in 1..(Len(program) + 1), Scoped(d, p), e <= p
    PROVE  Scoped(d, e)
  <1>1. d \in Nat /\ e \in Nat /\ p \in Nat
    BY DeclarationDepth, ProgramShape
  <1> QED BY <1>1, ScopeNarrows

(* A block has an end, the first position that is less deep.               *)
LEMMA BlockEndProps ==
    ASSUME ProgramInv, Depth(Len(program)) = 0,
           NEW o \in Positions, program[o].op \in Opens
    PROVE  /\ BlockEnd(o) \in (o + 1)..Len(program)
           /\ Is(BlockEnd(o), "end")
           /\ Depth(BlockEnd(o)) < Depth(o)
           /\ Depth(BlockEnd(o)) = Depth(o - 1)
           /\ \A q \in o..(BlockEnd(o) - 1) : Depth(q) >= Depth(o)
           /\ \A q \in (o + 1)..Len(program) : Depth(q) < Depth(o) => BlockEnd(o) <= q
  <1> DEFINE T == { q \in (o + 1)..Len(program) : Depth(q) < Depth(o) }
  <1>1. o \in Nat \ {0} /\ Positions = 1..Len(program) /\ Len(program) \in Nat
    BY ProgramShape
  <1>2. \A q \in 0..Len(program) : Depth(q) \in Nat
    BY DepthNat
  <1>3. Depth(o) = Depth(o - 1) + 1 /\ Depth(o - 1) \in Nat /\ Depth(o) \in Nat
    <2>1. o - 1 \in 0..Len(program) /\ o \in 0..Len(program)
      BY <1>1
    <2> QED BY <1>1, <1>2, <2>1, DepthStep
  <1>4. Len(program) \in T
    <2>1. Len(program) # o
      BY <1>3
    <2> QED BY <1>1, <1>3, <2>1
  <1>5. T \in SUBSET (1..Len(program)) /\ T # {}
    BY <1>1, <1>4
  <1> DEFINE e == Smallest(T)
  <1> HIDE DEF T
  <1>6. e \in T /\ \A q \in T : e <= q
    <2>1. Len(program) \in Int
      BY <1>1
    <2> QED BY <1>5, <2>1, SmallestExists, ZenonT(60)
  <1>7. BlockEnd(o) = e
    BY DEF BlockEnd, T
  <1> HIDE DEF e
  <1> USE DEF T
  <1>8. e \in (o + 1)..Len(program) /\ Depth(e) < Depth(o) /\ e \in Nat \ {0} /\ e \in 0..Len(program)
    BY <1>1, <1>6
  <1>9. ASSUME NEW q \in o..(e - 1) PROVE Depth(q) >= Depth(o)
    <2>1. CASE q = o
      BY <1>3, <2>1
    <2>2. CASE q # o
      <3>1. q \in (o + 1)..Len(program) /\ q < e /\ q \in 0..Len(program)
        BY <1>1, <1>8, <2>2
      <3>2. q \notin T
        BY <1>6, <1>8, <3>1
      <3>3. Depth(q) \in Nat
        BY <1>2, <3>1
      <3> QED BY <1>3, <3>1, <3>2, <3>3
    <2> QED BY <2>1, <2>2
  <1>10. Depth(e - 1) >= Depth(o) /\ Depth(e - 1) \in Nat /\ Depth(e) \in Nat
    <2>1. e - 1 \in o..(e - 1) /\ e - 1 \in 0..Len(program)
      BY <1>1, <1>8
    <2> QED BY <1>2, <1>8, <1>9, <2>1
  <1>11. program[e].op = "end" /\ Depth(e) = Depth(e - 1) - 1
    <2>1. /\ program[e].op \in Opens => Depth(e) = Depth(e - 1) + 1
          /\ program[e].op = "end" => Depth(e) = Depth(e - 1) - 1
          /\ program[e].op \notin Opens \cup {"end"} => Depth(e) = Depth(e - 1)
      BY <1>8, DepthStep
    <2> QED BY <1>3, <1>8, <1>10, <2>1
  <1>12. Depth(e) = Depth(o - 1)
    BY <1>3, <1>8, <1>10, <1>11
  <1>13. Is(e, "end")
    BY <1>1, <1>8, <1>11 DEF Is, Positions
  <1>14. \A q \in (o + 1)..Len(program) : Depth(q) < Depth(o) => e <= q
    BY <1>6
  <1> QED BY <1>7, <1>8, <1>9, <1>12, <1>13, <1>14

(* An end closes the innermost block, whose end it is. *)
LEMMA EndOfInnermost ==
    ASSUME ProgramInv, Depth(Len(program)) = 0, NEW p \in Positions, Is(p, "end")
    PROVE  BlockEnd(Largest(BlocksAt(p))) = p
  <1> DEFINE o == Largest(BlocksAt(p))
  <1>1. o \in BlocksAt(p) /\ Depth(o) = Depth(p - 1)
    BY BlocksClose
  <1> HIDE DEF o
  <1>2. p \in Nat \ {0} /\ Positions = 1..Len(program) /\ Len(program) \in Nat
    BY ProgramShape
  <1>3. o \in 1..(p - 1) /\ program[o].op \in Opens /\ \A q \in o..(p - 1) : Depth(q) >= Depth(o)
    BY <1>1, <1>2, BlocksAreBefore
  <1>4. o \in Positions /\ p \in (o + 1)..Len(program)
    BY <1>2, <1>3
  <1>5. Depth(p) = Depth(p - 1) - 1 /\ Depth(p - 1) \in Nat
    <2>1. p - 1 \in 0..Len(program)
      BY <1>2
    <2> QED BY <1>2, <2>1, DepthStep, DepthNat DEF Is
  <1>6. BlockEnd(o) <= p
    BY <1>1, <1>4, <1>3, <1>5, BlockEndProps
  <1>7. BlockEnd(o) \in (o + 1)..Len(program) /\ Depth(BlockEnd(o)) < Depth(o)
    BY <1>3, <1>4, BlockEndProps
  <1>8. ASSUME BlockEnd(o) < p PROVE FALSE
    <2>1. BlockEnd(o) \in o..(p - 1) /\ BlockEnd(o) \in 0..Len(program)
      BY <1>2, <1>3, <1>7, <1>8
    <2>2. Depth(BlockEnd(o)) \in Nat
      BY <2>1, DepthNat
    <2> QED BY <1>1, <1>3, <1>5, <1>7, <2>1, <2>2
  <1> QED BY <1>2, <1>6, <1>7, <1>8 DEF o

-----------------------------------------------------------------------------
(* Programs grow at the end. *)
LEMMA ProgramStarts == Init => ProgramInv
  BY EmptySeq DEF Init, ProgramInv, Positions

(* What was written stays as it was when a statement is added.             *)
LEMMA ProgramGrows ==
    ASSUME ProgramInv, Write, StorageAssumption
    PROVE  ProgramInv'
  <1>1. PICK s \in Statements : MayFollow(s) /\ program' = Append(program, s)
    BY DEF Write
  <1>0. PICK n \in Nat : n = Len(program)
    BY LenProperties DEF ProgramInv
  <1>2. /\ DOMAIN program = 1..n
        /\ program' \in Seq(Statements) /\ Len(program') = n + 1 /\ DOMAIN program' = 1..(n + 1)
        /\ program'[n + 1] = s
        /\ \A p \in 1..n : program'[p] = program[p]
    BY <1>0, <1>1, AppendProperties DEF ProgramInv
  <1>3. \A p \in 0..n : Depth(p)' = Depth(p)
    <2> TAKE p \in 0..n
    <2>1. { q \in 1..p : program'[q].op \in Opens } = { q \in 1..p : program[q].op \in Opens }
      BY <1>2
    <2>2. { q \in 1..p : program'[q].op = "end" } = { q \in 1..p : program[q].op = "end" }
      BY <1>2
    <2> QED BY <2>1, <2>2 DEF Depth
  <1>4. \A p \in 1..(n + 1) : BlocksAt(p)' = BlocksAt(p)
    <2> TAKE p \in 1..(n + 1)
    <2>1. \A o \in 1..(p - 1) : program'[o] = program[o] /\ \A q \in o..(p - 1) : Depth(q)' = Depth(q)
      BY <1>2, <1>3
    <2>2. \A o \in 1..(p - 1) : Depth(o)' = Depth(o)
      BY <1>2, <1>3
    <2>3. /\ BlocksAt(p)' = { o \in 1..(p - 1) : /\ program'[o].op \in Opens
                                                 /\ \A q \in o..(p - 1) : Depth(q)' >= Depth(o)' }
          /\ BlocksAt(p) = { o \in 1..(p - 1) : /\ program[o].op \in Opens
                                                /\ \A q \in o..(p - 1) : Depth(q) >= Depth(o) }
      BY DEF BlocksAt
    <2> QED BY <2>1, <2>2, <2>3
  <1>5. \A p \in 1..(n + 1) : \A m : Visible(m, p)' = Visible(m, p)
    <2> TAKE p \in 1..(n + 1)
    <2> TAKE m
    <2>1. \A d \in 1..(p - 1) : program'[d] = program[d] /\ BlocksAt(d)' = BlocksAt(d)
      BY <1>2, <1>4
    <2>2. BlocksAt(p)' = BlocksAt(p)
      BY <1>4
    <2>3. /\ Visible(m, p)' = { d \in 1..(p - 1) : /\ program'[d] = Statement("declare", m)
                                                   /\ BlocksAt(d)' \subseteq BlocksAt(p)' }
          /\ Visible(m, p) = { d \in 1..(p - 1) : /\ program[d] = Statement("declare", m)
                                                  /\ BlocksAt(d) \subseteq BlocksAt(p) }
      BY DEF Visible, Statement
    <2> QED BY <2>1, <2>2, <2>3
  <1>6. /\ Opened(program', n + 1) = IF s.op \in Opens THEN Opened(program', n) + 1 ELSE Opened(program', n)
        /\ Closed(program', n + 1) = IF s.op = "end" THEN Closed(program', n) + 1 ELSE Closed(program', n)
        /\ Opened(program', n) \in Nat /\ Closed(program', n) \in Nat
    <2>1. n + 1 \in Nat \ {0} /\ (n + 1) - 1 = n
      BY <1>2
    <2>2. /\ Opened(program', n + 1) = IF program'[n + 1].op \in Opens
                THEN Opened(program', (n + 1) - 1) + 1 ELSE Opened(program', (n + 1) - 1)
          /\ Closed(program', n + 1) = IF program'[n + 1].op = "end"
                THEN Closed(program', (n + 1) - 1) + 1 ELSE Closed(program', (n + 1) - 1)
          /\ Opened(program', (n + 1) - 1) \in Nat /\ Closed(program', (n + 1) - 1) \in Nat
      BY <2>1, CountStep
    <2> QED BY <1>2, <2>1, <2>2
  <1>7. /\ Depth(n)' = Opened(program', n) - Closed(program', n)
        /\ Depth(n + 1)' = Opened(program', n + 1) - Closed(program', n + 1)
    BY <1>2 DEF Depth, Opened, Closed
  <1>8. Depth(n)' = Depth(n) /\ Depth(n) \in Nat
    <2>1. n \in 0..n
      BY <1>2
    <2> QED BY <1>0, <1>3, <2>1, DepthNat
  <1>9. /\ (s.op = "callback") <=> (Depth(n) = 0)
        /\ s.op = "declare" /\ Visible(s.name, n + 1) # {} => Shadowing
        /\ (s.op \in {"use", "set"} \/ (s.op = "while" /\ s.name # None)) =>
             Visible(s.name, n + 1) # {}
        /\ s.op = "end" => n # 0 /\ program[n].op \notin Opens
    <2>1. /\ (s.op = "callback") <=> (Depth(n) = 0)
          /\ s.op = "declare" /\ Visible(s.name, n + 1) # {} => Shadowing
          /\ (s.op \in {"use", "set"} \/ (s.op = "while" /\ s.name # None)) =>
               Visible(s.name, n + 1) # {}
          /\ s.op = "end" => program[n].op \notin Opens
      BY <1>0, <1>1 DEF MayFollow
    <2>2. s.op = "end" => n # 0
      BY <2>1, DepthStart
    <2> QED BY <2>1, <2>2
  <1>10. Depth(n + 1)' >= 0
    BY <1>6, <1>7, <1>8, <1>9
  <1>11. ASSUME NEW p \in 1..(n + 1)
         PROVE  /\ Depth(p - 1)' >= 0 /\ Depth(p)' >= 0
                /\ program'[p].op = "callback" <=> Depth(p - 1)' = 0
                /\ \A m \in {program'[p].name} :
                     /\ program'[p].op = "declare" /\ Visible(m, p)' # {} => Shadowing
                     /\ (program'[p].op \in {"use", "set", "while"} /\ m # None)
                          => Visible(m, p)' # {}
                /\ program'[p].op = "end" => program'[p - 1].op \notin Opens
    <2>1. CASE p = n + 1
      <3>1. (n + 1) - 1 = n /\ n + 1 \in 1..(n + 1)
        BY <1>2
      <3>2. \A m : Visible(m, n + 1)' = Visible(m, n + 1)
        BY <1>5, <3>1
      <3>3. s.op = "end" => program'[n] = program[n]
        BY <1>2, <1>9
      <3> QED BY <1>2, <1>8, <1>9, <1>10, <2>1, <3>1, <3>2, <3>3
    <2>2. CASE p # n + 1
      <3>1. p \in 1..n /\ p - 1 \in 0..n /\ p \in 0..n
        BY <1>2, <2>2
      <3>2. /\ Depth(p - 1) >= 0 /\ Depth(p) >= 0
            /\ program[p].op = "callback" <=> Depth(p - 1) = 0
            /\ program[p].op = "declare" /\ Visible(program[p].name, p) # {} => Shadowing
            /\ (program[p].op \in {"use", "set", "while"} /\ program[p].name # None)
                 => Visible(program[p].name, p) # {}
            /\ program[p].op = "end" => program[p - 1].op \notin Opens
        BY <1>2, <3>1 DEF ProgramInv, Is, IsReference, Positions
      <3>3. Depth(p - 1)' = Depth(p - 1) /\ Depth(p)' = Depth(p)
            /\ \A m : Visible(m, p)' = Visible(m, p)
        BY <1>3, <1>5, <3>1
      <3>4. program[p].op = "end" => p - 1 \in 1..n
        <4>1. Depth(0) = 0
          BY DepthStart
        <4>2. program[1].op = "end" => Depth(1) = Depth(1 - 1) - 1 /\ Depth(1 - 1) \in Int
          BY DepthStep
        <4>3. p = 1 => program[p].op # "end"
          BY <3>2, <4>1, <4>2
        <4> QED BY <1>2, <3>1, <4>3
      <3> QED BY <1>2, <3>1, <3>2, <3>3, <3>4
    <2> QED BY <2>1, <2>2
  <1> QED BY <1>2, <1>11 DEF ProgramInv, Is, IsReference, Positions

-----------------------------------------------------------------------------
(***************************************************************************)
(* The analyses.  What Analyse finds stays as it found it; the lemmas say   *)
(* what it means.                                                           *)
(***************************************************************************)
ReferencesTo(d) == { r \in DOMAIN declaration : declaration[r] = d }

AnalysisInv ==
    pass # "write" =>
      /\ Depth(Len(program)) = 0
      /\ declaration = [p \in { q \in Positions : IsReference(q) } |->
                           Largest(Visible(program[p].name, p))]
      /\ lifeEnd = [d \in Declarations |-> LifeEnd(d, ReferencesTo(d))]
      /\ unsafe = { d \in Declarations : MarkedUnsafe(d, lifeEnd[d]) }

Analysed == pass # "write" /\ ProgramInv /\ AnalysisInv

(* A reference has a declaration that is in scope. *)
LEMMA Bound ==
    ASSUME Analysed, NEW r \in Positions, IsReference(r)
    PROVE  /\ r \in DOMAIN declaration
           /\ declaration[r] \in Visible(program[r].name, r)
           /\ declaration[r] \in Declarations /\ Scoped(declaration[r], r)
           /\ program[declaration[r]] = Statement("declare", program[r].name)
  <1> DEFINE V == Visible(program[r].name, r)
  <1>1. r \in Nat \ {0} /\ Positions = 1..Len(program)
    BY ProgramShape DEF Analysed
  <1>2. V # {} /\ V \in SUBSET (1..(r - 1))
    BY DEF Analysed, ProgramInv, Visible
  <1>3. Largest(V) \in V
    <2>1. r - 1 \in Int
      BY <1>1
    <2> HIDE DEF V
    <2> QED BY <1>2, <2>1, LargestExists, ZenonT(60)
  <1>4. r \in DOMAIN declaration /\ declaration[r] = Largest(V)
    BY DEF Analysed, AnalysisInv
  <1> HIDE DEF V
  <1>5. declaration[r] \in V
    BY <1>3, <1>4
  <1>6. /\ declaration[r] \in 1..(r - 1)
        /\ program[declaration[r]] = Statement("declare", program[r].name)
        /\ BlocksAt(declaration[r]) \subseteq BlocksAt(r)
    BY <1>5 DEF V, Visible
  <1>7. declaration[r] \in Declarations /\ Scoped(declaration[r], r)
    BY <1>1, <1>6 DEF Declarations, Is, Statement, Positions, Scoped
  <1> QED BY <1>4, <1>5, <1>6, <1>7 DEF V

LEMMA ReferencesOnly ==
    ASSUME Analysed
    PROVE  /\ DOMAIN declaration = { q \in Positions : IsReference(q) }
           /\ DOMAIN lifeEnd = Declarations
           /\ unsafe \subseteq Declarations
  BY DEF Analysed, AnalysisInv

(* A life that ends at a reference, or with the outermost loop around it.   *)
LEMMA LoopsEnclose ==
    ASSUME Analysed, NEW r \in Positions, IsReference(r), LoopsAround(r) # {}
    PROVE  LET w == Smallest(LoopsAround(r)) IN
           /\ w \in LoopsAround(r) /\ \A o \in LoopsAround(r) : w <= o
           /\ w \in Positions /\ Is(w, "while") /\ w <= r
           /\ r < BlockEnd(w) /\ BlockEnd(w) <= Len(program)
           /\ add_lifetime_end(r) = BlockEnd(w) - 1
  <1> DEFINE w == Smallest(LoopsAround(r))
  <1>1. r \in Nat \ {0} /\ Positions = 1..Len(program) /\ Len(program) \in Nat
        /\ Depth(Len(program)) = 0 /\ ProgramInv
    BY ProgramShape DEF Analysed, AnalysisInv
  <1>2. LoopsAround(r) \in SUBSET (1..r)
    <2>1. BlocksAt(r) \subseteq 1..(r - 1)
      BY <1>1, BlocksAreBefore
    <2> QED BY <1>1, <2>1 DEF LoopsAround
  <1>3. w \in LoopsAround(r) /\ \A o \in LoopsAround(r) : w <= o
    <2>1. r \in Int
      BY <1>1
    <2> QED BY <1>2, <2>1, SmallestExists, ZenonT(60)
  <1> HIDE DEF w
  <1>4. w \in Positions /\ Is(w, "while") /\ w <= r /\ w \in BlocksAt(r) \cup {r}
    BY <1>1, <1>2, <1>3 DEF LoopsAround
  <1>5. program[w].op \in Opens
    BY <1>4 DEF Is, Opens
  <1>6. /\ BlockEnd(w) \in (w + 1)..Len(program) /\ Depth(BlockEnd(w)) < Depth(w)
        /\ Is(BlockEnd(w), "end")
    BY <1>1, <1>4, <1>5, BlockEndProps
  <1>7. r < BlockEnd(w)
    <2>1. CASE w = r
      BY <1>1, <1>6, <2>1
    <2>2. CASE w # r
      <3>1. w \in BlocksAt(r)
        BY <1>4, <2>2
      <3>2. w \in 1..(r - 1) /\ \A q \in w..(r - 1) : Depth(q) >= Depth(w)
        BY <1>1, <3>1, BlocksAreBefore
      <3>3. BlockEnd(w) # r
        BY <1>6 DEF Is, IsReference
      <3>4. BlockEnd(w) \notin w..(r - 1)
        <4>1. BlockEnd(w) \in 0..Len(program) /\ w \in 0..Len(program)
          BY <1>1, <1>4, <1>6
        <4>2. Depth(BlockEnd(w)) \in Nat /\ Depth(w) \in Nat
          BY <1>1, <4>1, DepthNat
        <4> QED BY <1>6, <3>2, <4>2
      <3> QED BY <1>1, <1>6, <3>2, <3>3, <3>4
    <2> QED BY <2>1, <2>2
  <1>8. add_lifetime_end(r) = BlockEnd(w) - 1
    BY DEF add_lifetime_end, w
  <1> QED BY <1>3, <1>4, <1>6, <1>7, <1>8 DEF w

(* A life ends at its last reference or with the loops around that.        *)
LEMMA LifetimeEnd ==
    ASSUME Analysed, NEW r \in Positions, IsReference(r)
    PROVE  add_lifetime_end(r) \in r..Len(program)
  <1>1. r \in Nat \ {0} /\ r <= Len(program) /\ Len(program) \in Nat
    BY ProgramShape DEF Analysed
  <1>2. CASE LoopsAround(r) = {}
    BY <1>1, <1>2 DEF add_lifetime_end
  <1>3. CASE LoopsAround(r) # {}
    <2> DEFINE w == Smallest(LoopsAround(r))
    <2>1. /\ w \in Positions
          /\ r < BlockEnd(w) /\ BlockEnd(w) <= Len(program)
          /\ add_lifetime_end(r) = BlockEnd(w) - 1
          /\ program[w].op \in Opens
      BY <1>3, LoopsEnclose DEF Opens, Is
    <2>2. BlockEnd(w) \in Int
      <3>1. BlockEnd(w) \in (w + 1)..Len(program)
        BY <2>1, BlockEndProps DEF Analysed, AnalysisInv
      <3>2. w \in Nat
        BY <2>1, ProgramShape DEF Analysed
      <3> QED BY <1>1, <3>1, <3>2
    <2> HIDE DEF w
    <2> QED BY <1>1, <2>1, <2>2
  <1> QED BY <1>2, <1>3

(* A life that reaches into a loop lasts as long as its body. *)
LEMMA LoopIsCovered ==
    ASSUME Analysed, NEW r \in Positions, IsReference(r),
           NEW o \in Positions, Is(o, "while"), o <= add_lifetime_end(r)
    PROVE  BlockEnd(o) - 1 <= add_lifetime_end(r)
  <1>1. /\ r \in Nat \ {0} /\ o \in Nat \ {0} /\ Positions = 1..Len(program)
        /\ Len(program) \in Nat /\ Depth(Len(program)) = 0 /\ ProgramInv
    BY ProgramShape DEF Analysed, AnalysisInv
  <1>2. program[o].op \in Opens
    BY DEF Is, Opens
  <1>3. /\ BlockEnd(o) \in (o + 1)..Len(program)
        /\ Is(BlockEnd(o), "end")
        /\ \A q \in (o + 1)..Len(program) : Depth(q) < Depth(o) => BlockEnd(o) <= q
    BY <1>1, <1>2, BlockEndProps
  <1>4. add_lifetime_end(r) \in r..Len(program)
    BY LifetimeEnd
  <1>5. ASSUME o < r, o \notin BlocksAt(r) PROVE BlockEnd(o) - 1 <= add_lifetime_end(r)
    <2>1. PICK q \in o..(r - 1) : ~(Depth(q) >= Depth(o))
      BY <1>1, <1>2, <1>5 DEF BlocksAt
    <2>2. q \in 0..Len(program) /\ o \in 0..Len(program)
      BY <1>1
    <2>3. Depth(q) \in Nat /\ Depth(o) \in Nat
      BY <1>1, <2>2, DepthNat
    <2>4. q # o
      BY <2>1, <2>3
    <2>5. q \in (o + 1)..Len(program)
      BY <1>1, <2>4
    <2>6. BlockEnd(o) <= q
      BY <1>3, <2>1, <2>3, <2>5
    <2> QED BY <1>1, <1>3, <1>4, <2>6
  <1>6. CASE LoopsAround(r) = {}
    <2>1. o \notin BlocksAt(r) /\ o # r
      BY <1>6 DEF LoopsAround
    <2>2. add_lifetime_end(r) = r
      BY <1>6 DEF add_lifetime_end
    <2>3. o < r
      BY <1>1, <2>1, <2>2
    <2> QED BY <1>5, <2>1, <2>3
  <1>7. CASE LoopsAround(r) # {}
    <2> DEFINE w == Smallest(LoopsAround(r))
    <2>1. /\ w \in LoopsAround(r) /\ \A x \in LoopsAround(r) : w <= x
          /\ w \in Positions /\ Is(w, "while") /\ w <= r
          /\ r < BlockEnd(w) /\ BlockEnd(w) <= Len(program)
          /\ add_lifetime_end(r) = BlockEnd(w) - 1
      BY <1>7, LoopsEnclose
    <2> HIDE DEF w
    <2>2. program[w].op \in Opens /\ w \in Nat \ {0}
      BY <1>1, <2>1 DEF Is, Opens
    <2>3. /\ BlockEnd(w) \in (w + 1)..Len(program)
          /\ Depth(BlockEnd(w)) < Depth(w)
          /\ \A q \in w..(BlockEnd(w) - 1) : Depth(q) >= Depth(w)
      BY <1>1, <2>1, <2>2, BlockEndProps
    <2>4. CASE o = w
      BY <1>1, <1>3, <2>1, <2>3, <2>4
    <2>5. CASE o > w
      <3>1. o - 1 \in w..(BlockEnd(w) - 1) /\ BlockEnd(w) \in (o + 1)..Len(program)
        BY <1>1, <2>1, <2>2, <2>3, <2>5
      <3>2. Depth(o) = Depth(o - 1) + 1
        BY <1>1, <1>2, DepthStep
      <3>3. o - 1 \in 0..Len(program) /\ BlockEnd(w) \in 0..Len(program) /\ w \in 0..Len(program)
        BY <1>1, <2>1, <3>1
      <3>4. Depth(o - 1) \in Nat /\ Depth(BlockEnd(w)) \in Nat /\ Depth(w) \in Nat
        BY <1>1, <3>3, DepthNat
      <3>5. Depth(BlockEnd(w)) < Depth(o)
        BY <2>3, <3>1, <3>2, <3>4
      <3>6. BlockEnd(o) <= BlockEnd(w)
        BY <1>3, <3>1, <3>5
      <3> QED BY <1>1, <1>3, <2>1, <2>2, <2>3, <3>6
    <2>6. CASE o < w
      <3>1. o \notin LoopsAround(r)
        BY <1>1, <2>1, <2>2, <2>6
      <3>2. o \notin BlocksAt(r) /\ o < r
        BY <1>1, <2>1, <2>2, <2>6, <3>1 DEF LoopsAround
      <3> QED BY <1>5, <3>2
    <2> QED BY <1>1, <2>2, <2>4, <2>5, <2>6
  <1> QED BY <1>6, <1>7

(* What the lifetimes are for: a life reaches from its declaration over     *)
(* every reference, and over the whole of every loop that it is alive in.   *)
LEMMA Lifetimes ==
    ASSUME Analysed, NEW d \in Declarations
    PROVE  /\ lifeEnd[d] \in d..Len(program)
           /\ \A r \in ReferencesTo(d) : r <= lifeEnd[d]
           /\ \A o \in Positions : Is(o, "while") /\ d < o /\ o <= lifeEnd[d] =>
                BlockEnd(o) - 1 <= lifeEnd[d]
  <1>1. d \in 1..Len(program) /\ Positions = 1..Len(program) /\ Len(program) \in Nat
    BY ProgramShape, DeclarationDepth DEF Analysed
  <1>2. lifeEnd[d] = LifeEnd(d, ReferencesTo(d))
    BY DEF Analysed, AnalysisInv
  <1>3. CASE ReferencesTo(d) = {}
    <2>1. lifeEnd[d] = d
      BY <1>2, <1>3 DEF LifeEnd
    <2> QED BY <1>1, <1>3, <2>1
  <1>4. CASE ReferencesTo(d) # {}
    <2> DEFINE m == Largest(ReferencesTo(d))
    <2>1. ReferencesTo(d) \in SUBSET (1..Len(program))
      BY <1>1, ReferencesOnly DEF ReferencesTo
    <2>2. m \in ReferencesTo(d) /\ \A r \in ReferencesTo(d) : r <= m
      <3>1. Len(program) \in Int
        BY <1>1
      <3> QED BY <1>4, <2>1, <3>1, LargestExists, ZenonT(60)
    <2> HIDE DEF m
    <2>3. m \in Positions /\ IsReference(m) /\ declaration[m] = d
      BY <2>2, ReferencesOnly DEF ReferencesTo
    <2>4. lifeEnd[d] = add_lifetime_end(m)
      BY <1>2, <1>4 DEF LifeEnd, m
    <2>5. lifeEnd[d] \in m..Len(program) /\ m \in Nat
      BY <1>1, <2>3, <2>4, LifetimeEnd
    <2>6. d < m
      BY <2>3, Bound DEF Scoped
    <2>7. \A o \in Positions : Is(o, "while") /\ o <= lifeEnd[d] => BlockEnd(o) - 1 <= lifeEnd[d]
      BY <2>3, <2>4, LoopIsCovered
    <2>8. \A r \in ReferencesTo(d) : r <= lifeEnd[d]
      BY <1>1, <2>1, <2>2, <2>5
    <2> QED BY <1>1, <2>5, <2>6, <2>7, <2>8
  <1> QED BY <1>3, <1>4

(* A declaration in scope is in the callback of the statement. *)
LEMMA SameCallback ==
    ASSUME ProgramInv, NEW d \in Declarations, NEW p \in 1..(Len(program) + 1), Scoped(d, p)
    PROVE  CallbackOf(p) = CallbackOf(d)
  <1>1. d \in Nat \ {0} /\ p \in Nat \ {0} /\ d < p
    BY DeclarationDepth, ProgramShape DEF Scoped
  <1>2. BlocksAt(d) \in SUBSET (1..(d - 1)) /\ BlocksAt(d) # {}
    BY <1>1, BlocksAreBefore, DeclarationDepth
  <1>3. BlocksAt(p) \in SUBSET (1..(p - 1)) /\ BlocksAt(p) # {}
    BY <1>1, <1>2, BlocksAreBefore DEF Scoped
  <1> DEFINE a == Smallest(BlocksAt(d))
             b == Smallest(BlocksAt(p))
  <1>4. a \in BlocksAt(d) /\ \A o \in BlocksAt(d) : a <= o
    <2>1. d - 1 \in Int
      BY <1>1
    <2> QED BY <1>2, <2>1, SmallestExists, ZenonT(60)
  <1>5. b \in BlocksAt(p) /\ \A o \in BlocksAt(p) : b <= o
    <2>1. p - 1 \in Int
      BY <1>1
    <2> QED BY <1>3, <2>1, SmallestExists, ZenonT(60)
  <1> HIDE DEF a, b
  <1>6. a \in BlocksAt(p) /\ b <= a
    BY <1>4, <1>5 DEF Scoped
  <1>7. b < d
    BY <1>1, <1>2, <1>3, <1>4, <1>5, <1>6
  <1>8. b \in BlocksAt(d)
    BY <1>1, <1>5, <1>7, BlocksArePrefix
  <1>9. a = b
    BY <1>2, <1>3, <1>4, <1>5, <1>6, <1>8
  <1> QED BY <1>9 DEF CallbackOf, a, b

(* What the marks are for: a variable that is shared is not alive at a      *)
(* wait.                                                                    *)
LEMMA SharedDieBeforeWaits ==
    ASSUME Analysed, NEW d \in Declarations \ unsafe, NEW w \in Positions, Is(w, "wait"),
           Scoped(d, w)
    PROVE  ~(w <= lifeEnd[d])
  <1>1. ~MarkedUnsafe(d, lifeEnd[d])
    BY DEF Analysed, AnalysisInv
  <1>2. CallbackOf(w) = CallbackOf(d)
    <2>1. w \in 1..(Len(program) + 1)
      BY ProgramShape DEF Analysed
    <2> QED BY <2>1, SameCallback DEF Analysed
  <1>3. w \in Yields /\ d < w
    BY DEF Yields, Scoped
  <1> QED BY <1>1, <1>2, <1>3 DEF MarkedUnsafe, InUnsafeRange, NoYieldInLife

-----------------------------------------------------------------------------
(***************************************************************************)
(* Lists of storage, by any keys K: an element is put at the end of a list, *)
(* the last one is taken, and a whole list is added to another.  If every   *)
(* element was in one place, it still is.                                   *)
(***************************************************************************)
Occurs(F, a, x) == \E j \in DOMAIN F[a] : F[a][j] = x

OneEach(F) ==
    \A a, b \in DOMAIN F : \A j \in DOMAIN F[a], k \in DOMAIN F[b] :
        F[a][j] = F[b][k] => a = b /\ j = k

Pushed(F, G, a, x) == \A c \in DOMAIN F : G[c] = IF c = a THEN Append(F[c], x) ELSE F[c]
Popped(F, G, a) == \A c \in DOMAIN F : G[c] = IF c = a THEN Front(F[c]) ELSE F[c]
Moved(F, G, a, b) ==
    \A c \in DOMAIN F : G[c] = IF c = a THEN <<>> ELSE IF c = b THEN F[b] \o F[a] ELSE F[c]

LEMMA SamePlace ==
    ASSUME NEW F, OneEach(F), NEW a \in DOMAIN F, NEW b \in DOMAIN F,
           NEW j \in DOMAIN F[a], NEW k \in DOMAIN F[b], F[a][j] = F[b][k]
    PROVE  a = b /\ j = k
  BY DEF OneEach

LEMMA PushKeeps ==
    ASSUME NEW K, NEW S, NEW F \in [K -> Seq(S)], NEW G, DOMAIN G = K,
           NEW a \in K, NEW x \in S, Pushed(F, G, a, x),
           OneEach(F), \A c \in K : ~Occurs(F, c, x)
    PROVE  /\ OneEach(G)
           /\ \A y : Occurs(G, a, y) <=> Occurs(F, a, y) \/ y \in {x}
           /\ \A c \in K \ {a} : \A y : Occurs(G, c, y) <=> Occurs(F, c, y)
  <1>1. PICK n \in Nat : n = Len(F[a])
    BY LenProperties
  <1>2. /\ DOMAIN F[a] = 1..n /\ DOMAIN G[a] = 1..(n + 1)
        /\ \A j \in 1..n : G[a][j] = F[a][j]
        /\ G[a][n + 1] = x
    BY <1>1, AppendProperties DEF Pushed
  <1>3. \A c \in K \ {a} : G[c] = F[c]
    BY DEF Pushed
  <1>4. \A c \in K : \A j \in DOMAIN F[c] : F[c][j] # x
    BY DEF Occurs
  <1>5. \A b \in K, c \in K : \A j \in DOMAIN F[b], k \in DOMAIN F[c] :
            F[b][j] = F[c][k] => b = c /\ j = k
    BY DEF OneEach
  <1>6. \A c \in K : \A y : Occurs(G, c, y) <=> Occurs(F, c, y) \/ (c = a /\ y = x)
    <2> TAKE c \in K
    <2> TAKE y
    <2>1. CASE c = a
      <3>1. Occurs(G, a, y) <=> \E j \in 1..(n + 1) : G[a][j] = y
        BY <1>2 DEF Occurs
      <3>2. Occurs(F, a, y) <=> \E j \in 1..n : F[a][j] = y
        BY <1>2 DEF Occurs
      <3>3. \A j \in 1..(n + 1) : j \in 1..n \/ j = n + 1
        OBVIOUS
      <3>4. \A j \in 1..n : j \in 1..(n + 1)
        OBVIOUS
      <3>5. n + 1 \in 1..(n + 1)
        OBVIOUS
      <3> QED BY <1>2, <2>1, <3>1, <3>2, <3>3, <3>4, <3>5
    <2>2. CASE c # a
      BY <1>3, <2>2 DEF Occurs
    <2> QED BY <2>1, <2>2
  <1>7. ASSUME NEW b \in K, NEW c \in K, NEW j \in DOMAIN G[b], NEW k \in DOMAIN G[c],
               G[b][j] = G[c][k]
        PROVE  b = c /\ j = k
    <2>1. CASE b # a /\ c # a
      BY <1>3, <1>5, <1>7, <2>1
    <2>2. CASE b = a /\ c # a
      <3>1. CASE j = n + 1
        BY <1>2, <1>3, <1>4, <1>7, <2>2, <3>1
      <3>2. CASE j # n + 1
        <4>1. j \in 1..n
          BY <1>2, <2>2, <3>2
        <4> QED BY <1>2, <1>3, <1>5, <1>7, <2>2, <4>1
      <3> QED BY <3>1, <3>2
    <2>3. CASE b # a /\ c = a
      <3>1. CASE k = n + 1
        BY <1>2, <1>3, <1>4, <1>7, <2>3, <3>1
      <3>2. CASE k # n + 1
        <4>1. k \in 1..n
          BY <1>2, <2>3, <3>2
        <4> QED BY <1>2, <1>3, <1>5, <1>7, <2>3, <4>1
      <3> QED BY <3>1, <3>2
    <2>4. CASE b = a /\ c = a
      <3>1. j \in 1..(n + 1) /\ k \in 1..(n + 1)
        BY <1>2, <2>4
      <3>2. CASE j = n + 1 /\ k = n + 1
        BY <2>4, <3>2
      <3>3. CASE j = n + 1 /\ k \in 1..n
        BY <1>2, <1>4, <1>7, <2>4, <3>3
      <3>4. CASE j \in 1..n /\ k = n + 1
        BY <1>2, <1>4, <1>7, <2>4, <3>4
      <3>5. CASE j \in 1..n /\ k \in 1..n
        BY <1>2, <1>5, <1>7, <2>4, <3>5
      <3> QED BY <3>1, <3>2, <3>3, <3>4, <3>5
    <2> QED BY <2>1, <2>2, <2>3, <2>4
  <1> QED BY <1>6, <1>7 DEF OneEach

LEMMA PushedOnce ==
    ASSUME NEW K, NEW S, NEW F \in [K -> Seq(S)], NEW G, DOMAIN G = K,
           NEW a \in K, NEW x \in S, Pushed(F, G, a, x),
           OneEach(F), \A c \in K : ~Occurs(F, c, x)
    PROVE  OneEach(G)
  BY PushKeeps

LEMMA PushedHere ==
    ASSUME NEW K, NEW S, NEW F \in [K -> Seq(S)], NEW G, DOMAIN G = K,
           NEW a \in K, NEW x \in S, Pushed(F, G, a, x),
           OneEach(F), \A c \in K : ~Occurs(F, c, x)
    PROVE  \A y : Occurs(G, a, y) <=> Occurs(F, a, y) \/ y \in {x}
  BY PushKeeps

LEMMA PushedElsewhere ==
    ASSUME NEW K, NEW S, NEW F \in [K -> Seq(S)], NEW G, DOMAIN G = K,
           NEW a \in K, NEW x \in S, Pushed(F, G, a, x),
           OneEach(F), \A c \in K : ~Occurs(F, c, x)
    PROVE  \A c \in K \ {a} : \A y : Occurs(G, c, y) <=> Occurs(F, c, y)
  BY PushKeeps

LEMMA FrontOf ==
    ASSUME NEW S, NEW seq \in Seq(S), seq # <<>>
    PROVE  /\ Len(seq) \in Nat \ {0} /\ DOMAIN seq = 1..Len(seq)
           /\ Front(seq) \in Seq(S) /\ DOMAIN Front(seq) = 1..(Len(seq) - 1)
           /\ Len(Front(seq)) = Len(seq) - 1
           /\ \A j \in 1..(Len(seq) - 1) : Front(seq)[j] = seq[j]
           /\ Last(seq) = seq[Len(seq)] /\ Last(seq) \in S
  <1>1. PICK n \in Nat \ {0} : n = Len(seq)
    BY EmptySeq, LenProperties
  <1>2. DOMAIN seq = 1..n /\ n \in 1..n
    BY <1>1, LenProperties
  <1>3. \A i \in 1..n : seq[i] \in S
    BY <1>1, ElementOfSeq
  <1>4. Last(seq) = seq[n] /\ Last(seq) \in S
    BY <1>1, <1>2, <1>3 DEF Last
  <1>5. PICK k \in Nat : k = n - 1
    BY <1>1
  <1>6. Front(seq) = SubSeq(seq, 1, k)
    BY <1>1, <1>5 DEF Front
  <1>7. \A i \in 1..k : seq[i] \in S /\ i \in 1..n
    BY <1>3, <1>5
  <1>8. SubSeq(seq, 1, k) \in Seq(S)
    BY <1>5, <1>7, SubSeqProperties
  <1>9. Len(SubSeq(seq, 1, k)) = k
    <2>1. Len(SubSeq(seq, 1, k)) = IF 1 <= k THEN k - 1 + 1 ELSE 0
      BY <1>5, <1>7, SubSeqProperties
    <2> QED BY <1>5, <2>1
  <1>10. \A i \in 1..k : SubSeq(seq, 1, k)[i] = seq[i]
    <2>1. \A i \in 1..(k - 1 + 1) : SubSeq(seq, 1, k)[i] = seq[1 + i - 1]
      BY <1>5, <1>7, SubSeqProperties
    <2> TAKE i \in 1..k
    <2>2. i \in 1..(k - 1 + 1) /\ 1 + i - 1 = i
      BY <1>5
    <2> QED BY <2>1, <2>2
  <1>11. DOMAIN SubSeq(seq, 1, k) = 1..k
    BY <1>8, <1>9, LenProperties
  <1> QED BY <1>1, <1>2, <1>4, <1>5, <1>6, <1>8, <1>9, <1>10, <1>11

LEMMA PopKeeps ==
    ASSUME NEW K, NEW S, NEW F \in [K -> Seq(S)], NEW G, DOMAIN G = K,
           NEW a \in K, F[a] # <<>>, Popped(F, G, a), OneEach(F)
    PROVE  /\ OneEach(G)
           /\ Last(F[a]) \in S /\ Occurs(F, a, Last(F[a]))
           /\ \A c \in K : \A y : Occurs(G, c, y) <=> Occurs(F, c, y) /\ y \notin {Last(F[a])}
  <1>1. PICK n \in Nat \ {0} : n = Len(F[a])
    BY FrontOf
  <1>2. /\ DOMAIN F[a] = 1..n /\ DOMAIN G[a] = 1..(n - 1)
        /\ \A j \in 1..(n - 1) : G[a][j] = F[a][j]
        /\ Last(F[a]) = F[a][n] /\ Last(F[a]) \in S
    BY <1>1, FrontOf DEF Popped
  <1>3. \A c \in K \ {a} : G[c] = F[c]
    BY DEF Popped
  <1>4. Occurs(F, a, Last(F[a]))
    BY <1>2 DEF Occurs
  <1>5. \A b \in K, c \in K : \A j \in DOMAIN F[b], k \in DOMAIN F[c] :
            F[b][j] = F[c][k] => b = c /\ j = k
    BY DEF OneEach
  <1>6. \A c \in K : \A j \in DOMAIN G[c] : j \in DOMAIN F[c] /\ G[c][j] = F[c][j]
    <2> TAKE c \in K
    <2>1. CASE c = a
      BY <1>2, <2>1
    <2>2. CASE c # a
      BY <1>3, <2>2
    <2> QED BY <2>1, <2>2
  <1>7. OneEach(G)
    <2>1. ASSUME NEW b \in K, NEW c \in K, NEW j \in DOMAIN G[b], NEW k \in DOMAIN G[c],
                 G[b][j] = G[c][k]
          PROVE  b = c /\ j = k
      <3>1. j \in DOMAIN F[b] /\ G[b][j] = F[b][j]
        BY <1>6, ZenonT(60)
      <3>2. k \in DOMAIN F[c] /\ G[c][k] = F[c][k]
        BY <1>6, ZenonT(60)
      <3>3. F[b][j] = F[c][k]
        BY <2>1, <3>1, <3>2, ZenonT(60)
      <3>4. b \in DOMAIN F /\ c \in DOMAIN F
        OBVIOUS
      <3>5. j \in DOMAIN F[b] /\ k \in DOMAIN F[c]
        BY <3>1, <3>2
      <3>6. OneEach(F)
        OBVIOUS
      <3>7. b = c
        BY <3>3, <3>4, <3>5, <3>6, SamePlace, ZenonT(60)
      <3>8. ASSUME j # k PROVE FALSE
        <4>1. \A x \in DOMAIN F[b], y \in DOMAIN F[c] : F[b][x] = F[c][y] => x = y
          BY <3>4, <3>6, SamePlace, ZenonT(60)
        <4> QED BY <3>3, <3>5, <3>8, <4>1
      <3> QED BY <3>7, <3>8
    <2> QED BY <2>1 DEF OneEach
  <1>8. ASSUME NEW c \in K, NEW y, Occurs(G, c, y) PROVE Occurs(F, c, y) /\ y # Last(F[a])
    <2>1. PICK j \in DOMAIN G[c] : G[c][j] = y
      BY <1>8 DEF Occurs
    <2>2. j \in DOMAIN F[c] /\ F[c][j] = y
      BY <1>6, <2>1
    <2>3. ASSUME y = Last(F[a]) PROVE FALSE
      <3>1. n \in DOMAIN F[a] /\ F[a][n] = y
        BY <1>2, <2>3
      <3>2. c = a /\ j = n
        BY <1>5, <2>2, <3>1
      <3> QED BY <1>2, <2>1, <3>2
    <2> QED BY <2>2, <2>3 DEF Occurs
  <1>9. ASSUME NEW c \in K, NEW y, Occurs(F, c, y), y # Last(F[a]) PROVE Occurs(G, c, y)
    <2>1. PICK j \in DOMAIN F[c] : F[c][j] = y
      BY <1>9 DEF Occurs
    <2>2. CASE c = a
      <3>1. j \in 1..(n - 1)
        BY <1>2, <1>9, <2>1, <2>2
      <3> QED BY <1>2, <2>1, <2>2, <3>1 DEF Occurs
    <2>3. CASE c # a
      BY <1>3, <1>9, <2>3 DEF Occurs
    <2> QED BY <2>2, <2>3
  <1> QED BY <1>2, <1>4, <1>7, <1>8, <1>9

LEMMA MoveKeeps ==
    ASSUME NEW K, NEW S, NEW F \in [K -> Seq(S)], NEW G, DOMAIN G = K,
           NEW a \in K, NEW b \in K, a # b, Moved(F, G, a, b), OneEach(F)
    PROVE  /\ OneEach(G)
           /\ \A y : ~Occurs(G, a, y)
           /\ \A y : Occurs(G, b, y) <=> Occurs(F, b, y) \/ Occurs(F, a, y)
           /\ \A c \in K \ {a, b} : \A y : Occurs(G, c, y) <=> Occurs(F, c, y)
  <1>1. PICK m \in Nat, n \in Nat : m = Len(F[b]) /\ n = Len(F[a])
    BY LenProperties
  <1>2. /\ DOMAIN F[a] = 1..n /\ DOMAIN F[b] = 1..m /\ DOMAIN G[b] = 1..(m + n)
        /\ \A j \in 1..m : G[b][j] = F[b][j]
        /\ \A j \in 1..n : G[b][m + j] = F[a][j]
        /\ DOMAIN G[a] = {}
    <2>1. G[b] = F[b] \o F[a] /\ G[a] = <<>>
      BY DEF Moved
    <2>2. /\ DOMAIN (F[b] \o F[a]) = 1..(m + n)
          /\ \A j \in 1..m : (F[b] \o F[a])[j] = F[b][j]
          /\ \A j \in 1..n : (F[b] \o F[a])[m + j] = F[a][j]
      BY <1>1
    <2> QED BY <1>1, <2>1, <2>2, LenProperties
  <1>3. \A c \in K \ {a, b} : G[c] = F[c]
    BY DEF Moved
  <1>4. \A c \in K, d \in K : \A j \in DOMAIN F[c], k \in DOMAIN F[d] :
            F[c][j] = F[d][k] => c = d /\ j = k
    BY DEF OneEach
  <1>5. \A y : ~Occurs(G, a, y)
    BY <1>2 DEF Occurs
  <1>6. ASSUME NEW y PROVE Occurs(G, b, y) <=> Occurs(F, b, y) \/ Occurs(F, a, y)
    <2>1. ASSUME NEW j \in 1..(m + n), G[b][j] = y PROVE Occurs(F, b, y) \/ Occurs(F, a, y)
      <3>1. CASE j \in 1..m
        BY <1>2, <2>1, <3>1 DEF Occurs
      <3>2. CASE j \notin 1..m
        <4>1. j - m \in 1..n /\ m + (j - m) = j
          BY <3>2
        <4>2. F[a][j - m] = y
          BY <1>2, <2>1, <4>1
        <4> QED BY <1>2, <4>1, <4>2 DEF Occurs
      <3> QED BY <3>1, <3>2
    <2>2. ASSUME NEW j \in 1..m, F[b][j] = y PROVE Occurs(G, b, y)
      <3>1. j \in 1..(m + n)
        OBVIOUS
      <3> QED BY <1>2, <2>2, <3>1 DEF Occurs
    <2>3. ASSUME NEW j \in 1..n, F[a][j] = y PROVE Occurs(G, b, y)
      <3>1. m + j \in 1..(m + n)
        OBVIOUS
      <3> QED BY <1>2, <2>3, <3>1 DEF Occurs
    <2> QED BY <1>2, <2>1, <2>2, <2>3 DEF Occurs
  <1>7. \A c \in K \ {a, b} : \A y : Occurs(G, c, y) <=> Occurs(F, c, y)
    BY <1>3 DEF Occurs
  <1> DEFINE from(c, j) == IF c = b /\ j > m THEN <<a, j - m>> ELSE <<c, j>>
  <1>8. ASSUME NEW c \in K, NEW j \in DOMAIN G[c]
        PROVE  /\ from(c, j)[1] \in K /\ from(c, j)[2] \in DOMAIN F[from(c, j)[1]]
               /\ G[c][j] = F[from(c, j)[1]][from(c, j)[2]]
    <2>1. CASE c = b
      <3>1. j \in 1..(m + n)
        BY <1>2, <2>1
      <3>2. CASE j > m
        <4>1. j - m \in 1..n /\ m + (j - m) = j
          BY <3>1, <3>2
        <4> QED BY <1>2, <2>1, <3>2, <4>1
      <3>3. CASE ~(j > m)
        <4>1. j \in 1..m
          BY <3>1, <3>3
        <4> QED BY <1>2, <2>1, <3>3, <4>1
      <3> QED BY <3>2, <3>3
    <2>2. CASE c # b
      BY <1>2, <1>3, <2>2
    <2> QED BY <2>1, <2>2
  <1>9. ASSUME NEW c \in K, NEW d \in K, NEW j \in DOMAIN G[c], NEW k \in DOMAIN G[d],
               G[c][j] = G[d][k]
        PROVE  c = d /\ j = k
    <2>1. from(c, j)[1] = from(d, k)[1] /\ from(c, j)[2] = from(d, k)[2]
      <3> HIDE DEF from
      <3> QED BY <1>4, <1>8, <1>9
    <2>2. c # a /\ d # a
      BY <1>2
    <2>3. c = b => j \in 1..(m + n)
      BY <1>2
    <2>4. d = b => k \in 1..(m + n)
      BY <1>2
    <2> QED BY <2>1, <2>2, <2>3, <2>4
  <1>10. OneEach(G)
    BY <1>9 DEF OneEach
  <1> QED BY <1>5, <1>6, <1>7, <1>10

-----------------------------------------------------------------------------
(* What the passes leave alone.  The program is written before them. *)
LEMMA SameProgram ==
    ASSUME program' = program
    PROVE  /\ Positions' = Positions /\ Declarations' = Declarations
           /\ \A p : /\ Depth(p)' = Depth(p) /\ BlocksAt(p)' = BlocksAt(p)
                     /\ IsReference(p)' <=> IsReference(p)
                     /\ BlockEnd(p)' = BlockEnd(p)
           /\ \A m, p : Visible(m, p)' = Visible(m, p)
           /\ \A d, p : Scoped(d, p)' <=> Scoped(d, p)
           /\ \A p, op : Is(p, op)' <=> Is(p, op)
  <1>1. \A p : Depth(p)' = Depth(p)
    BY DEF Depth
  <1>2. \A p : BlocksAt(p)' = BlocksAt(p)
    BY DEF BlocksAt, Depth
  <1>3. \A p : IsReference(p)' <=> IsReference(p)
    BY DEF IsReference
  <1>4. \A p : BlockEnd(p)' = BlockEnd(p)
    BY DEF BlockEnd, Depth
  <1>5. \A m, p : Visible(m, p)' = Visible(m, p)
    BY DEF Visible, BlocksAt, Depth
  <1>6. \A d, p : Scoped(d, p)' <=> Scoped(d, p)
    BY DEF Scoped, BlocksAt, Depth
  <1>7. \A p, op : Is(p, op)' <=> Is(p, op)
    BY DEF Is
  <1>8. Positions' = Positions /\ Declarations' = Declarations
    BY DEF Positions, Declarations, Is
  <1>9. ASSUME NEW p PROVE /\ Depth(p)' = Depth(p) /\ BlocksAt(p)' = BlocksAt(p)
                           /\ IsReference(p)' <=> IsReference(p)
                           /\ BlockEnd(p)' = BlockEnd(p)
    BY <1>1, <1>2, <1>3, <1>4
  <1> QED BY <1>5, <1>6, <1>7, <1>8, <1>9

LEMMA ProgramStays == ASSUME ProgramInv, UNCHANGED program PROVE ProgramInv'
  <1>1. ASSUME NEW p \in Positions
        PROVE  /\ Depth(p - 1)' >= 0 /\ Depth(p)' >= 0
               /\ program'[p].op = "callback" <=> Depth(p - 1)' = 0
               /\ \A m \in {program'[p].name} :
                    /\ program'[p].op = "declare" /\ Visible(m, p)' # {} => Shadowing
                    /\ (program'[p].op \in {"use", "set", "while"} /\ m # None)
                         => Visible(m, p)' # {}
               /\ program'[p].op = "end" => program'[p - 1].op \notin Opens
    <2>1. /\ Depth(p - 1)' = Depth(p - 1) /\ Depth(p)' = Depth(p)
          /\ \A m : Visible(m, p)' = Visible(m, p)
      BY SameProgram
    <2>2. /\ Depth(p - 1) >= 0 /\ Depth(p) >= 0
          /\ program[p].op = "callback" <=> Depth(p - 1) = 0
          /\ program[p].op = "declare" /\ Visible(program[p].name, p) # {} => Shadowing
          /\ (program[p].op \in {"use", "set", "while"} /\ program[p].name # None)
               => Visible(program[p].name, p) # {}
          /\ program[p].op = "end" => program[p - 1].op \notin Opens
      BY DEF ProgramInv, Is, IsReference, Positions
    <2> QED BY <2>1, <2>2
  <1> QED BY <1>1 DEF ProgramInv, Is, IsReference, Positions

LEMMA LifeEndStays ==
    ASSUME program' = program
    PROVE  \A d, refs : LifeEnd(d, refs)' = LifeEnd(d, refs)
  <1>1. \A r : LoopsAround(r)' = LoopsAround(r)
    BY DEF LoopsAround, BlocksAt, Depth, Is
  <1>2. \A r : BlockEnd(r)' = BlockEnd(r)
    BY SameProgram
  <1>3. \A r : add_lifetime_end(r)' = add_lifetime_end(r)
    BY DEF add_lifetime_end, LoopsAround, BlocksAt, Depth, Is, BlockEnd
  <1> QED BY DEF LifeEnd, add_lifetime_end, LoopsAround, BlocksAt, Depth, Is, BlockEnd

LEMMA MarkStays ==
    ASSUME program' = program
    PROVE  \A d, end : MarkedUnsafe(d, end)' <=> MarkedUnsafe(d, end)
  BY DEF MarkedUnsafe, InUnsafeRange, NoYieldInLife, Yields, CallbackOf, Positions, Is, BlocksAt, Depth

LEMMA AnalysisStays ==
    ASSUME AnalysisInv, UNCHANGED program, UNCHANGED analysisVars,
           (pass = "write") <=> (pass' = "write")
    PROVE  AnalysisInv'
  <1>1. /\ Depth(Len(program))' = Depth(Len(program))
        /\ \A d : ReferencesTo(d)' = ReferencesTo(d)
    BY DEF Depth, ReferencesTo, analysisVars
  <1>2. [p \in { q \in Positions : IsReference(q) } |-> Largest(Visible(program[p].name, p))]'
          = [p \in { q \in Positions : IsReference(q) } |-> Largest(Visible(program[p].name, p))]
    BY DEF Positions, IsReference, Visible, BlocksAt, Depth
  <1>3. \A d, refs : LifeEnd(d, refs)' = LifeEnd(d, refs)
    BY LifeEndStays
  <1>4. \A d, end : MarkedUnsafe(d, end)' <=> MarkedUnsafe(d, end)
    BY MarkStays
  <1>5. Declarations' = Declarations
    BY SameProgram
  <1> QED BY <1>1, <1>2, <1>3, <1>4, <1>5 DEF AnalysisInv, analysisVars

LEMMA AnalysisIsMade ==
    ASSUME Analyse
    PROVE  AnalysisInv'
  <1>1. Depth(Len(program))' = 0
    BY DEF Analyse, Depth
  <1>2. \A d : ReferencesTo(d)' = { r \in DOMAIN declaration' : declaration'[r] = d }
    BY DEF ReferencesTo
  <1>3. [p \in { q \in Positions : IsReference(q) } |-> Largest(Visible(program[p].name, p))]'
          = [p \in { q \in Positions : IsReference(q) } |-> Largest(Visible(program[p].name, p))]
    <2>1. program' = program
      BY DEF Analyse
    <2> QED BY <2>1 DEF Positions, IsReference, Visible, BlocksAt, Depth
  <1>4. \A d, refs : LifeEnd(d, refs)' = LifeEnd(d, refs)
    BY LifeEndStays DEF Analyse
  <1>5. \A d, end : MarkedUnsafe(d, end)' <=> MarkedUnsafe(d, end)
    BY MarkStays DEF Analyse
  <1>6. Declarations' = Declarations
    BY SameProgram DEF Analyse
  <1>7. lifeEnd' = [d \in Declarations |-> LifeEnd(d, ReferencesTo(d)')]
    BY <1>2 DEF Analyse
  <1> QED BY <1>1, <1>2, <1>3, <1>4, <1>5, <1>6, <1>7 DEF Analyse, AnalysisInv

-----------------------------------------------------------------------------
(***************************************************************************)
(* The reuse pass.  The lists of storage have numbers: 0 is what is free, p *)
(* what ends with the statement p, and -k what the block k used.  A list    *)
(* that does not exist is empty.                                            *)
(***************************************************************************)
Numbered(free, lives, in, safe) ==
    [l \in Int |-> IF l = 0 THEN free[safe]
                   ELSE IF l \in DOMAIN lives THEN lives[l][safe]
                   ELSE IF -l \in DOMAIN in THEN in[-l].used[safe] ELSE <<>>]
Listing(safe) == Numbered(pool, ending, blocks, safe)

Stored == [BOOLEAN -> Seq(Declarations)]
Block == [replace : UNION { [N -> Declarations] : N \in SUBSET Names }, used : Stored]

ReuseShape ==
    /\ pool \in Stored
    /\ ending \in [Positions -> Stored]
    /\ blocks \in Seq(Block) /\ Len(blocks) = Depth(at - 1)

(* Storage of a kind is listed once: until the life it was made for ends    *)
(* with the statement that ends it, from then on where it is free or with   *)
(* the block that has borrowed it.                                          *)
ListsInv ==
    \A safe \in BOOLEAN : \A F \in {Listing(safe)} :
        /\ OneEach(F)
        /\ \A l \in Int : \A d \in Declarations : Occurs(F, l, d) =>
             /\ d < at /\ storage[d] = d /\ (safe <=> d \notin unsafe)
             /\ IF l > 0 THEN l = lifeEnd[d] /\ at <= l ELSE lifeEnd[d] < at
        /\ \A d \in Declarations : d < at /\ (safe <=> d \notin unsafe) =>
             /\ storage[d] = d => \E l \in Int : Occurs(F, l, d)
             /\ storage[d] # d /\ Scoped(d, at) => Occurs(F, -Depth(d), storage[d])

(* A block's replacements are of the declarations that borrowed storage. *)
ReplacesInv ==
    /\ \A k \in DOMAIN blocks : \A m \in DOMAIN blocks[k].replace :
         \E d \in Declarations :
            /\ d < at /\ Scoped(d, at) /\ Depth(d) = k
            /\ program[d].name = m /\ storage[d] = blocks[k].replace[m]
    /\ \A d \in Declarations : d < at /\ Scoped(d, at) /\ storage[d] # d =>
         program[d].name \in DOMAIN blocks[Depth(d)].replace

(* What is handed out is storage of the same kind that no visible variable  *)
(* holds while it lives, and a reference names what its declaration was     *)
(* given.                                                                   *)
Handed ==
    /\ at \in 1 .. Len(program) + 1
    /\ DOMAIN storage = Positions
    /\ \A d \in Declarations : d < at =>
         /\ storage[d] \in Declarations /\ storage[d] <= d
         /\ storage[storage[d]] = storage[d]
         /\ storage[d] \in unsafe <=> d \in unsafe
    /\ \A d, e \in Declarations :
         d < e /\ e < at /\ storage[d] = storage[e] => ~(Scoped(d, e) /\ e <= lifeEnd[d])
    /\ ~Shadowing => \A p \in Positions :
         p < at /\ IsReference(p) => storage[p] = storage[declaration[p]]

ReuseInv ==
    /\ pass # "write" => Handed
    /\ pass = "reuse" => ReuseShape /\ ListsInv /\ ReplacesInv
    /\ pass = "run" => at = Len(program) + 1
    /\ pass \in {"write", "reuse", "run"}

(* No life ends where a block opens: blocks are not empty. *)
LEMMA LivesEndInside ==
    ASSUME Analysed, NEW d \in Declarations
    PROVE  program[lifeEnd[d]].op \notin Opens
  <1>1. d \in 1..Len(program) /\ Positions = 1..Len(program) /\ Len(program) \in Nat
        /\ program[d].op = "declare"
    BY ProgramShape, DeclarationDepth DEF Analysed
  <1>2. lifeEnd[d] = LifeEnd(d, ReferencesTo(d))
    BY DEF Analysed, AnalysisInv
  <1>3. CASE ReferencesTo(d) = {}
    BY <1>1, <1>2, <1>3 DEF LifeEnd, Opens
  <1>4. CASE ReferencesTo(d) # {}
    <2> DEFINE m == Largest(ReferencesTo(d))
    <2>1. ReferencesTo(d) \in SUBSET (1..Len(program))
      BY <1>1, ReferencesOnly DEF ReferencesTo
    <2>2. m \in ReferencesTo(d)
      <3>1. Len(program) \in Int
        BY <1>1
      <3> QED BY <1>4, <2>1, <3>1, LargestExists, ZenonT(60)
    <2> HIDE DEF m
    <2>3. m \in Positions /\ IsReference(m)
      BY <2>2, ReferencesOnly DEF ReferencesTo
    <2>4. lifeEnd[d] = add_lifetime_end(m)
      BY <1>2, <1>4 DEF LifeEnd, m
    <2>5. CASE LoopsAround(m) = {}
      <3>1. lifeEnd[d] = m /\ ~Is(m, "while")
        BY <2>4, <2>5 DEF add_lifetime_end, LoopsAround
      <3> QED BY <2>3, <3>1 DEF IsReference, Opens, Is, Positions
    <2>6. CASE LoopsAround(m) # {}
      <3> DEFINE w == Smallest(LoopsAround(m))
      <3>1. w \in Positions /\ Is(w, "while") /\ lifeEnd[d] = BlockEnd(w) - 1
        BY <2>3, <2>4, <2>6, LoopsEnclose
      <3> HIDE DEF w
      <3>2. program[w].op \in Opens
        BY <3>1 DEF Is, Opens
      <3>3. BlockEnd(w) \in Positions /\ Is(BlockEnd(w), "end")
        <4>1. BlockEnd(w) \in (w + 1)..Len(program) /\ Is(BlockEnd(w), "end")
          BY <3>1, <3>2, BlockEndProps DEF Analysed, AnalysisInv
        <4> QED BY <1>1, <3>1, <4>1 DEF Is, Positions
      <3> QED BY <3>1, <3>3 DEF Analysed, ProgramInv
    <2> QED BY <2>5, <2>6
  <1> QED BY <1>3, <1>4

-----------------------------------------------------------------------------
(* Two visible variables of one name shadow each other. *)
LEMMA OneVisible ==
    ASSUME ProgramInv, ~Shadowing, NEW d \in Declarations, NEW e \in Declarations,
           NEW p \in 1..(Len(program) + 1), Scoped(d, p), Scoped(e, p),
           program[d].name = program[e].name
    PROVE  d = e
  <1>1. ASSUME NEW a \in Declarations, NEW b \in Declarations, a < b, Scoped(a, p), b < p,
               program[a].name = program[b].name
        PROVE  FALSE
    <2>1. a \in 1..(b - 1) /\ b \in Positions /\ program[a].op = "declare" /\ Is(b, "declare")
          /\ program[a] \in Statements
      <3>1. a \in Positions /\ b \in Positions /\ Is(a, "declare") /\ Is(b, "declare")
        BY DEF Declarations
      <3>2. Positions = 1..Len(program) /\ \A q \in Positions : program[q] \in Statements
        BY ProgramShape
      <3> QED BY <1>1, <3>1, <3>2 DEF Is
    <2>2. b <= p
      BY <1>1, <2>1, ProgramShape
    <2>3. Scoped(a, b)
      BY <1>1, <2>2, ScopesAreNested
    <2>4. program[a] = Statement("declare", program[b].name)
      BY <1>1, <2>1, StatementOps
    <2>5. a \in Visible(program[b].name, b)
      BY <2>1, <2>3, <2>4 DEF Visible, Scoped
    <2> QED BY <2>1, <2>5 DEF ProgramInv
  <1>2. d \in Nat /\ e \in Nat
    BY DeclarationDepth
  <1>3. d < p /\ e < p
    BY DEF Scoped
  <1>4. ~(d < e) /\ ~(e < d)
    BY <1>1, <1>3
  <1> QED BY <1>2, <1>4

LEMMA ReuseContext ==
    ASSUME Analysed, ReuseInv, pass = "reuse", at \in Positions
    PROVE  /\ ProgramInv /\ Handed /\ ReuseShape /\ ListsInv /\ ReplacesInv
           /\ at \in Nat \ {0} /\ at \in 1..Len(program) /\ Len(program) \in Nat
           /\ Positions = 1..Len(program)
           /\ at \in 1..(Len(program) + 1) /\ at + 1 \in 1..(Len(program) + 1)
           /\ Len(blocks) = Depth(at - 1) /\ Depth(at - 1) \in Nat /\ Depth(at) \in Nat
           /\ DOMAIN blocks = 1..Len(blocks)
           /\ Declarations \subseteq Positions
  <1>1. ProgramInv /\ Handed /\ ReuseShape /\ ListsInv /\ ReplacesInv
    BY DEF Analysed, ReuseInv
  <1>2. Positions = 1..Len(program) /\ Len(program) \in Nat
    BY <1>1, ProgramShape
  <1>3. at \in 0..Len(program) /\ at - 1 \in 0..Len(program)
    BY <1>2
  <1>4. Depth(at - 1) \in Nat /\ Depth(at) \in Nat
    BY <1>1, <1>3, DepthNat
  <1>5. Len(blocks) = Depth(at - 1) /\ DOMAIN blocks = 1..Len(blocks)
    BY <1>1, LenProperties DEF ReuseShape
  <1> QED BY <1>1, <1>2, <1>4, <1>5 DEF Declarations

(* A reference is given the storage of its declaration. *)
LEMMA ReferenceFollows ==
    ASSUME Analysed, ReuseInv, pass = "reuse", at \in Positions, IsReference(at), ~Shadowing
    PROVE  get_new_declaration(at) = storage[declaration[at]]
  <1> DEFINE n == program[at].name
             d == declaration[at]
             R == Replacements(n)
  <1>1. /\ ProgramInv /\ ReplacesInv /\ at \in 1..(Len(program) + 1)
        /\ DOMAIN blocks = 1..Len(blocks) /\ Len(blocks) \in Nat
    BY ReuseContext
  <1>2. d \in Declarations /\ Scoped(d, at) /\ program[d].name = n /\ d < at
    <2>1. d \in Declarations /\ Scoped(d, at) /\ program[d] = Statement("declare", n)
      BY Bound
    <2> QED BY <2>1 DEF Statement, Scoped
  <1>3. get_new_declaration(at) = IF R # {} THEN blocks[Largest(R)].replace[n] ELSE d
    BY DEF get_new_declaration
  <1>4. R = { k \in DOMAIN blocks : n \in DOMAIN blocks[k].replace }
    BY DEF Replacements
  <1> HIDE DEF n, d, R
  <1>5. CASE R # {}
    <2>1. R \in SUBSET (1..Len(blocks)) /\ Len(blocks) \in Int
      BY <1>1, <1>4
    <2>2. Largest(R) \in R
      BY <1>5, <2>1, LargestExists, ZenonT(60)
    <2>3. Largest(R) \in DOMAIN blocks /\ n \in DOMAIN blocks[Largest(R)].replace
      BY <1>4, <2>2
    <2>4. PICK e \in Declarations : /\ e < at /\ Scoped(e, at) /\ program[e].name = n
                                    /\ storage[e] = blocks[Largest(R)].replace[n]
      BY <1>1, <2>3 DEF ReplacesInv
    <2>5. e = d
      BY <1>1, <1>2, <2>4, OneVisible
    <2> QED BY <1>3, <1>5, <2>4, <2>5 DEF d
  <1>6. CASE R = {}
    <2>1. ASSUME storage[d] # d PROVE FALSE
      <3>1. n \in DOMAIN blocks[Depth(d)].replace
        BY <1>1, <1>2, <2>1 DEF ReplacesInv
      <3>2. Depth(d) \in DOMAIN blocks
        <4>1. Depth(d) \in Nat \ {0} /\ d \in Nat
          BY <1>1, <1>2, DeclarationDepth
        <4>2. at \in Nat /\ at - 1 \in d..(at - 1)
          BY <1>1, <1>2, <4>1, ProgramShape
        <4>3. Depth(d) <= Depth(at - 1)
          BY <1>1, <1>2, <4>2, ScopeIsDeep
        <4> QED BY <1>1, <4>1, <4>3, ReuseContext
      <3> QED BY <1>4, <1>6, <3>1, <3>2
    <2> QED BY <1>3, <1>6, <2>1 DEF d
  <1> QED BY <1>5, <1>6

(* What is handed out, when a statement has been visited. *)
LEMMA HandedGrows ==
    ASSUME Analysed, Handed, UNCHANGED <<program, declaration, lifeEnd, unsafe>>,
           at \in Positions, at' = at + 1, DOMAIN storage' = Positions,
           \A p \in Positions : p < at => storage'[p] = storage[p],
           at \in Declarations =>
             /\ storage'[at] \in Declarations /\ storage'[at] <= at
             /\ storage'[storage'[at]] = storage'[at]
             /\ storage'[at] \in unsafe <=> at \in unsafe
             /\ \A d \in Declarations : d < at /\ storage[d] = storage'[at] =>
                  ~(Scoped(d, at) /\ at <= lifeEnd[d]),
           ~Shadowing /\ IsReference(at) => storage'[at] = storage[declaration[at]]
    PROVE  Handed'
  <1>1. /\ Positions' = Positions /\ Declarations' = Declarations
        /\ \A p : IsReference(p)' <=> IsReference(p)
        /\ \A d, p : Scoped(d, p)' <=> Scoped(d, p)
    BY SameProgram
  <1>2. Positions = 1..Len(program) /\ Len(program) \in Nat /\ Declarations \subseteq Positions
    BY ProgramShape DEF Analysed, Declarations
  <1>3. at \in Nat \ {0} /\ at' \in 1..(Len(program) + 1)
    BY <1>2
  <1>4. ASSUME NEW d \in Declarations, d < at'
        PROVE  /\ storage'[d] \in Declarations /\ storage'[d] <= d
               /\ storage'[storage'[d]] = storage'[d]
               /\ storage'[d] \in unsafe <=> d \in unsafe
    <2>1. CASE d = at
      BY <2>1
    <2>2. CASE d # at
      <3>1. d < at /\ d \in Nat
        BY <1>2, <1>3, <1>4, <2>2
      <3>2. /\ storage[d] \in Declarations /\ storage[d] <= d
            /\ storage[storage[d]] = storage[d]
            /\ storage[d] \in unsafe <=> d \in unsafe
        BY <3>1 DEF Handed
      <3>3. storage[d] < at /\ storage[d] \in Positions
        <4>1. storage[d] \in Positions
          BY <1>2, <3>2
        <4>2. \A m \in Positions : m <= d => m < at
          BY <1>2, <1>3, <3>1
        <4> QED BY <3>2, <4>1, <4>2
      <3> QED BY <1>2, <3>1, <3>2, <3>3
    <2> QED BY <2>1, <2>2
  <1>5. ASSUME NEW d \in Declarations, NEW e \in Declarations,
               d < e, e < at', storage'[d] = storage'[e]
        PROVE  ~(Scoped(d, e) /\ e <= lifeEnd[d])
    <2>1. d < at /\ d \in Positions /\ e \in Positions /\ (e < at \/ e = at)
      BY <1>2, <1>3, <1>5
    <2>2. storage'[d] = storage[d]
      BY <2>1
    <2>3. CASE e = at
      BY <1>5, <2>1, <2>2, <2>3
    <2>4. CASE e < at
      BY <1>5, <2>1, <2>2, <2>4 DEF Handed
    <2> QED BY <2>1, <2>3, <2>4
  <1>6. ASSUME ~Shadowing, NEW p \in Positions, p < at', IsReference(p)
        PROVE  storage'[p] = storage'[declaration[p]]
    <2>1. declaration[p] \in Positions /\ declaration[p] < p
      BY <1>2, <1>6, Bound DEF Scoped
    <2>2. declaration[p] < at
      BY <1>2, <1>3, <1>6, <2>1
    <2>3. storage'[declaration[p]] = storage[declaration[p]]
      BY <2>1, <2>2
    <2>4. CASE p = at
      BY <1>6, <2>3, <2>4
    <2>5. CASE p # at
      <3>1. p < at
        BY <1>2, <1>3, <1>6, <2>5
      <3>2. storage'[p] = storage[p]
        BY <3>1
      <3> QED BY <1>6, <2>3, <3>1, <3>2 DEF Handed
    <2> QED BY <2>4, <2>5
  <1> QED BY <1>1, <1>3, <1>4, <1>5, <1>6 DEF Handed

-----------------------------------------------------------------------------
(* How a step of the pass changes the lists of one kind. *)
LEMMA NumberedType ==
    ASSUME NEW n \in Nat, NEW D, NEW free \in [BOOLEAN -> Seq(D)],
           NEW lives \in [1..n -> [BOOLEAN -> Seq(D)]],
           NEW R, NEW in \in Seq([replace : R, used : [BOOLEAN -> Seq(D)]]),
           NEW safe \in BOOLEAN
    PROVE  Numbered(free, lives, in, safe) \in [Int -> Seq(D)]
  <1>1. ASSUME NEW l \in Int PROVE Numbered(free, lives, in, safe)[l] \in Seq(D)
    <2>1. CASE l = 0
      BY <2>1 DEF Numbered
    <2>2. CASE l \in 1..n
      <3>1. Numbered(free, lives, in, safe)[l] = lives[l][safe]
        BY <2>2 DEF Numbered
      <3> QED BY <2>2, <3>1
    <2>3. CASE l \notin 1..n /\ l # 0 /\ -l \in DOMAIN in
      <3>1. Numbered(free, lives, in, safe)[l] = in[-l].used[safe]
        BY <2>3 DEF Numbered
      <3>2. in[-l] \in [replace : R, used : [BOOLEAN -> Seq(D)]]
        BY <2>3, ElementOfSeq, LenProperties
      <3> QED BY <3>1, <3>2
    <2>4. CASE l \notin 1..n /\ l # 0 /\ -l \notin DOMAIN in
      <3>1. Numbered(free, lives, in, safe)[l] = <<>>
        BY <2>4 DEF Numbered
      <3> QED BY <3>1, EmptySeq
    <2> QED BY <2>1, <2>2, <2>3, <2>4
  <1> QED BY <1>1 DEF Numbered

LEMMA FinishMoves ==
    ASSUME NEW n \in Nat, NEW a \in 1..n, NEW free, NEW lives, DOMAIN lives = 1..n, NEW in,
           NEW safe \in BOOLEAN
    PROVE  Moved(Numbered(free, lives, in, safe),
                 Numbered(add_passive_vars(free, lives[a]), [lives EXCEPT ![a] = NoStorage], in, safe),
                 a, 0)
  <1> DEFINE F == Numbered(free, lives, in, safe)
             G == Numbered(add_passive_vars(free, lives[a]), [lives EXCEPT ![a] = NoStorage], in, safe)
  <1>1. DOMAIN F = Int
    BY DEF Numbered
  <1>2. ASSUME NEW c \in Int
        PROVE  G[c] = IF c = a THEN <<>> ELSE IF c = 0 THEN F[0] \o F[a] ELSE F[c]
    <2>1. CASE c = 0
      <3>1. /\ G[0] = add_passive_vars(free, lives[a])[safe]
            /\ F[0] = free[safe] /\ F[a] = lives[a][safe]
        BY DEF Numbered
      <3>2. add_passive_vars(free, lives[a])[safe] = free[safe] \o lives[a][safe]
        BY DEF add_passive_vars
      <3>3. c # a
        BY <2>1
      <3> HIDE DEF F, G
      <3> QED BY <2>1, <3>1, <3>2, <3>3
    <2>2. CASE c = a
      BY <2>2 DEF Numbered, NoStorage
    <2>3. CASE c # 0 /\ c # a
      BY <2>3 DEF Numbered
    <2> QED BY <2>1, <2>2, <2>3
  <1> QED BY <1>1, <1>2 DEF Moved

LEMMA LeaveMoves ==
    ASSUME NEW n \in Nat, NEW free, NEW lives, DOMAIN lives = 1..n,
           NEW S, NEW in \in Seq(S), in # <<>>, NEW safe \in BOOLEAN
    PROVE  Moved(Numbered(free, lives, in, safe),
                 Numbered(add_passive_vars(free, Last(in).used), lives, Front(in), safe),
                 -Len(in), 0)
  <1> DEFINE F == Numbered(free, lives, in, safe)
             G == Numbered(add_passive_vars(free, Last(in).used), lives, Front(in), safe)
  <1>1. PICK k \in Nat \ {0} : k = Len(in)
    BY FrontOf
  <1>2. /\ DOMAIN in = 1..k /\ DOMAIN Front(in) = 1..(k - 1) /\ Last(in) = in[k]
        /\ \A j \in 1..(k - 1) : Front(in)[j] = in[j]
    BY <1>1, FrontOf
  <1>3. DOMAIN F = Int
    BY DEF Numbered
  <1>4. ASSUME NEW c \in Int
        PROVE  G[c] = IF c = -k THEN <<>> ELSE IF c = 0 THEN F[0] \o F[-k] ELSE F[c]
    <2>1. CASE c = 0
      <3>1. F[-k] = in[k].used[safe]
        BY <1>2 DEF Numbered
      <3>2. /\ G[0] = add_passive_vars(free, Last(in).used)[safe]
            /\ F[0] = free[safe]
        BY DEF Numbered
      <3>3. add_passive_vars(free, Last(in).used)[safe] = free[safe] \o Last(in).used[safe]
        BY DEF add_passive_vars
      <3>4. c # -k /\ Last(in) = in[k]
        BY <1>2, <2>1
      <3> HIDE DEF F, G
      <3> QED BY <2>1, <3>1, <3>2, <3>3, <3>4
    <2>2. CASE c = -k
      BY <1>2, <2>2 DEF Numbered
    <2>3. CASE c # 0 /\ c # -k /\ c \in 1..n
      BY <2>3 DEF Numbered
    <2>4. CASE c # 0 /\ c # -k /\ c \notin 1..n
      <3>1. -c \in 1..k <=> -c \in 1..(k - 1)
        BY <2>4
      <3>2. -c \in 1..(k - 1) => Front(in)[-c] = in[-c]
        BY <1>2
      <3> QED BY <1>2, <2>4, <3>1, <3>2 DEF Numbered
    <2> QED BY <2>1, <2>2, <2>3, <2>4
  <1> QED BY <1>1, <1>3, <1>4 DEF Moved

LEMMA EnterKeeps ==
    ASSUME NEW n \in Nat, NEW free, NEW lives, DOMAIN lives = 1..n,
           NEW S, NEW in \in Seq(S), NEW b \in S, b.used = NoStorage, NEW safe \in BOOLEAN
    PROVE  Numbered(free, lives, Append(in, b), safe) = Numbered(free, lives, in, safe)
  <1>1. PICK k \in Nat : k = Len(in)
    BY LenProperties
  <1>2. /\ DOMAIN in = 1..k /\ DOMAIN Append(in, b) = 1..(k + 1) /\ Append(in, b)[k + 1] = b
        /\ \A j \in 1..k : Append(in, b)[j] = in[j]
    BY <1>1, LenProperties, AppendProperties
  <1>3. ASSUME NEW c \in Int
        PROVE  Numbered(free, lives, Append(in, b), safe)[c] = Numbered(free, lives, in, safe)[c]
    <2>1. CASE c = 0 \/ c \in 1..n
      BY <2>1 DEF Numbered
    <2>2. CASE c # 0 /\ c \notin 1..n /\ -c \in 1..k
      <3>1. -c \in 1..(k + 1) /\ Append(in, b)[-c] = in[-c]
        BY <1>2, <2>2
      <3> QED BY <1>2, <2>2, <3>1 DEF Numbered
    <2>3. CASE c # 0 /\ c \notin 1..n /\ -c = k + 1
      <3>1. -c \notin 1..k
        BY <2>3
      <3> QED BY <1>2, <2>3, <3>1 DEF Numbered, NoStorage
    <2>4. CASE c # 0 /\ c \notin 1..n /\ -c \notin 1..(k + 1)
      <3>1. -c \notin 1..k
        BY <2>4
      <3> QED BY <1>2, <2>4, <3>1 DEF Numbered
    <2>5. -c \in 1..(k + 1) => -c \in 1..k \/ -c = k + 1
      OBVIOUS
    <2> QED BY <2>1, <2>2, <2>3, <2>4, <2>5
  <1> QED BY <1>3 DEF Numbered

(* New storage is listed with the end of its life. *)
LEMMA MakePushes ==
    ASSUME NEW n \in Nat, NEW free, NEW lives, DOMAIN lives = 1..n, NEW in, NEW e \in 1..n, NEW d,
           NEW safe \in BOOLEAN, NEW m, m[safe] = Append(lives[e][safe], d)
    PROVE  Pushed(Numbered(free, lives, in, safe), Numbered(free, [lives EXCEPT ![e] = m], in, safe), e, d)
  <1> DEFINE F == Numbered(free, lives, in, safe)
             G == Numbered(free, [lives EXCEPT ![e] = m], in, safe)
  <1>1. DOMAIN F = Int
    BY DEF Numbered
  <1>2. \A c \in Int : c # e => G[c] = F[c]
    BY DEF Numbered
  <1>3. G[e] = m[safe] /\ F[e] = lives[e][safe]
    BY DEF Numbered
  <1> HIDE DEF F, G
  <1> QED BY <1>1, <1>2, <1>3 DEF Pushed, F, G

LEMMA MakeKeeps ==
    ASSUME NEW free, NEW lives, NEW to, DOMAIN to = DOMAIN lives, NEW in, NEW safe \in BOOLEAN,
           \A p \in DOMAIN lives : to[p][safe] = lives[p][safe]
    PROVE  Numbered(free, to, in, safe) = Numbered(free, lives, in, safe)
  BY DEF Numbered

(* What is free leaves its list ... *)
LEMMA TakePops ==
    ASSUME NEW free, NEW rest, NEW lives, NEW in, NEW safe \in BOOLEAN, 0 \notin DOMAIN lives,
           rest[safe] = Front(free[safe])
    PROVE  Popped(Numbered(free, lives, in, safe), Numbered(rest, lives, in, safe), 0)
  <1> DEFINE F == Numbered(free, lives, in, safe)
             G == Numbered(rest, lives, in, safe)
  <1>1. DOMAIN F = Int
    BY DEF Numbered
  <1>2. \A c \in Int : c # 0 => G[c] = F[c]
    BY DEF Numbered
  <1>3. G[0] = Front(F[0])
    BY DEF Numbered
  <1> HIDE DEF F, G
  <1> QED BY <1>1, <1>2, <1>3 DEF Popped, F, G

LEMMA TakeKeeps ==
    ASSUME NEW free, NEW rest, NEW lives, NEW in, NEW safe \in BOOLEAN, rest[safe] = free[safe]
    PROVE  Numbered(rest, lives, in, safe) = Numbered(free, lives, in, safe)
  BY DEF Numbered

(* ... and is listed with the block it is lent to. *)
LEMMA LendPushes ==
    ASSUME NEW n \in Nat, NEW free, NEW lives, DOMAIN lives = 1..n,
           NEW k \in Nat \ {0}, NEW in, DOMAIN in = 1..k, NEW to, DOMAIN to = 1..k,
           \A j \in 1..k : j # k => to[j] = in[j],
           NEW d, NEW safe \in BOOLEAN, to[k].used[safe] = Append(in[k].used[safe], d)
    PROVE  Pushed(Numbered(free, lives, in, safe), Numbered(free, lives, to, safe), -k, d)
  <1> DEFINE F == Numbered(free, lives, in, safe)
             G == Numbered(free, lives, to, safe)
  <1>1. DOMAIN F = Int
    BY DEF Numbered
  <1>2. ASSUME NEW c \in Int, c # -k PROVE G[c] = F[c]
    <2>1. -c # k
      BY <1>2
    <2>2. -c \in 1..k => to[-c] = in[-c]
      BY <2>1
    <2>3. CASE c = 0
      BY <2>3 DEF Numbered
    <2>4. CASE c # 0 /\ c \in 1..n
      BY <2>4 DEF Numbered
    <2>5. CASE c # 0 /\ c \notin 1..n
      BY <2>2, <2>5 DEF Numbered
    <2> QED BY <2>3, <2>4, <2>5
  <1>3. G[-k] = to[k].used[safe] /\ F[-k] = in[k].used[safe]
    <2>1. -k # 0 /\ -k \notin 1..n /\ -k \in Int /\ -(-k) = k /\ k \in 1..k
      OBVIOUS
    <2> QED BY <2>1 DEF Numbered
  <1> HIDE DEF F, G
  <1> QED BY <1>1, <1>2, <1>3 DEF Pushed, F, G

LEMMA LendKeeps ==
    ASSUME NEW free, NEW lives, NEW k \in Nat \ {0}, NEW in, DOMAIN in = 1..k,
           NEW to, DOMAIN to = 1..k, NEW safe \in BOOLEAN,
           \A j \in 1..k : to[j].used[safe] = in[j].used[safe]
    PROVE  Numbered(free, lives, to, safe) = Numbered(free, lives, in, safe)
  <1>1. ASSUME NEW c \in Int
        PROVE  Numbered(free, lives, to, safe)[c] = Numbered(free, lives, in, safe)[c]
    <2>1. CASE c = 0 \/ c \in DOMAIN lives
      BY <2>1 DEF Numbered
    <2>2. CASE ~(c = 0 \/ c \in DOMAIN lives)
      BY <2>2 DEF Numbered
    <2> QED BY <2>1, <2>2
  <1> QED BY <1>1 DEF Numbered

-----------------------------------------------------------------------------
(* Scopes and lists from one statement to the next. *)
LEMMA ScopeStep ==
    ASSUME ProgramInv, NEW d \in Declarations, NEW p \in Positions
    PROVE  /\ Scoped(d, p + 1) => d = p \/ (d < p /\ Scoped(d, p))
           /\ Scoped(d, p) => d < p /\ Depth(d) <= Depth(p - 1)
           /\ (Scoped(d, p) \/ d = p) /\ Depth(d) <= Depth(p) => Scoped(d, p + 1)
           /\ Scoped(d, p + 1) => Depth(d) <= Depth(p)
  <1>1. /\ Positions = 1..Len(program) /\ Len(program) \in Nat /\ p \in Nat \ {0} /\ d \in Nat
        /\ p \in 1..(Len(program) + 1) /\ p + 1 \in 1..(Len(program) + 1)
    BY ProgramShape, DeclarationDepth
  <1>2. ASSUME Scoped(d, p + 1), d # p PROVE d < p /\ Scoped(d, p)
    <2>1. d < p + 1
      BY <1>2 DEF Scoped
    <2>2. d < p /\ p <= p + 1
      BY <1>1, <1>2, <2>1
    <2> QED BY <1>1, <1>2, <2>2, ScopeNarrows
  <1>3. ASSUME Scoped(d, p) PROVE d < p /\ Depth(d) <= Depth(p - 1)
    <2>1. d < p
      BY <1>3 DEF Scoped
    <2>2. p - 1 \in d..(p - 1)
      BY <1>1, <2>1
    <2> QED BY <1>1, <1>3, <2>1, <2>2, ScopeIsDeep
  <1>4. ASSUME Scoped(d, p + 1) PROVE Depth(d) <= Depth(p)
    <2>1. d < p + 1
      BY <1>4 DEF Scoped
    <2>2. p \in d..((p + 1) - 1)
      BY <1>1, <2>1
    <2> QED BY <1>1, <1>4, <2>2, ScopeIsDeep
  <1> QED BY <1>2, <1>3, <1>4, ScopeGoesOn

(* The replacements of the blocks, when a statement has been visited. *)
LEMMA ReplacesGrow ==
    ASSUME Analysed, ReuseInv, pass = "reuse", at \in Positions, program' = program, at' = at + 1,
           \A p \in Positions : p < at => storage'[p] = storage[p],
           \A k \in DOMAIN blocks' : \A m \in DOMAIN blocks'[k].replace :
              \/ /\ k \in DOMAIN blocks /\ k <= Depth(at) /\ m \in DOMAIN blocks[k].replace
                 /\ blocks'[k].replace[m] = blocks[k].replace[m]
              \/ /\ at \in Declarations /\ k = Depth(at) /\ m = program[at].name
                 /\ blocks'[k].replace[m] = storage'[at],
           \A k \in DOMAIN blocks : k <= Depth(at) =>
              DOMAIN blocks[k].replace \subseteq DOMAIN blocks'[k].replace,
           at \in Declarations /\ storage'[at] # at =>
              program[at].name \in DOMAIN blocks'[Depth(at)].replace
    PROVE  ReplacesInv'
  <1>1. /\ Declarations' = Declarations
        /\ \A p : Depth(p)' = Depth(p)
        /\ \A d, p : Scoped(d, p)' <=> Scoped(d, p)
    BY SameProgram
  <1>2. /\ ProgramInv /\ ReplacesInv /\ at \in Nat \ {0} /\ Positions = 1..Len(program)
        /\ Declarations \subseteq Positions /\ Len(program) \in Nat
        /\ DOMAIN blocks = 1..Len(blocks) /\ Len(blocks) = Depth(at - 1)
    BY ReuseContext
  <1>3. ASSUME NEW k \in DOMAIN blocks', NEW m \in DOMAIN blocks'[k].replace
        PROVE  \E d \in Declarations :
                 /\ d < at + 1 /\ Scoped(d, at + 1) /\ Depth(d) = k
                 /\ program[d].name = m /\ storage'[d] = blocks'[k].replace[m]
    <2>1. CASE /\ k \in DOMAIN blocks /\ k <= Depth(at) /\ m \in DOMAIN blocks[k].replace
               /\ blocks'[k].replace[m] = blocks[k].replace[m]
      <3>1. PICK d \in Declarations : /\ d < at /\ Scoped(d, at) /\ Depth(d) = k
                                      /\ program[d].name = m /\ storage[d] = blocks[k].replace[m]
        BY <1>2, <2>1 DEF ReplacesInv
      <3>2. Scoped(d, at + 1)
        BY <1>2, <2>1, <3>1, ScopeStep
      <3>3. d \in Positions /\ d < at + 1
        BY <1>2, <3>1
      <3> QED BY <2>1, <3>1, <3>2, <3>3
    <2>2. CASE /\ at \in Declarations /\ k = Depth(at) /\ m = program[at].name
               /\ blocks'[k].replace[m] = storage'[at]
      <3>1. Scoped(at, at + 1)
        <4>1. Depth(at) <= Depth(at)
          BY <1>2, ReuseContext
        <4> QED BY <1>2, <2>2, <4>1, ScopeStep
      <3> QED BY <1>2, <2>2, <3>1
    <2> QED BY <2>1, <2>2
  <1>4. ASSUME NEW d \in Declarations, d < at + 1, Scoped(d, at + 1), storage'[d] # d
        PROVE  program[d].name \in DOMAIN blocks'[Depth(d)].replace
    <2>1. CASE d = at
      BY <1>4, <2>1
    <2>2. CASE d # at
      <3>1. d < at /\ Scoped(d, at) /\ d \in Positions
        BY <1>2, <1>4, <2>2, ScopeStep
      <3>2. storage[d] # d
        BY <1>4, <3>1
      <3>3. program[d].name \in DOMAIN blocks[Depth(d)].replace
        BY <1>2, <3>1, <3>2 DEF ReplacesInv
      <3>4. Depth(d) \in DOMAIN blocks
        <4>1. Depth(d) \in Nat \ {0} /\ Depth(d) <= Depth(at - 1)
          BY <1>2, <3>1, DeclarationDepth, ScopeStep
        <4> QED BY <1>2, <4>1, ReuseContext
      <3>5. Depth(d) <= Depth(at)
        BY <1>2, <1>4, ScopeStep
      <3> QED BY <3>3, <3>4, <3>5
    <2> QED BY <2>1, <2>2
  <1> QED BY <1>1, <1>3, <1>4 DEF ReplacesInv

(* The lists of a kind when a statement has been visited, before the lives  *)
(* that end with it end.                                                    *)
Visited(M, safe) ==
    /\ OneEach(M)
    /\ \A l \in Int : \A d \in Declarations : Occurs(M, l, d) =>
         /\ d <= at /\ storage'[d] = d /\ (safe <=> d \notin unsafe)
         /\ IF l > 0 THEN l = lifeEnd[d] /\ at <= l ELSE lifeEnd[d] < at
    /\ \A d \in Declarations : d <= at /\ (safe <=> d \notin unsafe) =>
         /\ storage'[d] = d => \E l \in Int : Occurs(M, l, d)
         /\ storage'[d] # d /\ Scoped(d, at + 1) => Occurs(M, -Depth(d), storage'[d])

ListsVisited ==
    \A safe \in BOOLEAN : \E M \in [Int -> Seq(Declarations)] :
        Visited(M, safe) /\ Moved(M, Listing(safe)', at, 0)

LEMMA ListsFinish ==
    ASSUME Analysed, ReuseInv, pass = "reuse", at \in Positions, at' = at + 1,
           UNCHANGED <<program, lifeEnd, unsafe>>, ListsVisited
    PROVE  ListsInv'
  <1>1. /\ Declarations' = Declarations
        /\ \A p : Depth(p)' = Depth(p)
        /\ \A d, p : Scoped(d, p)' <=> Scoped(d, p)
    BY SameProgram
  <1>2. /\ ProgramInv /\ at \in Nat \ {0} /\ Declarations \subseteq Positions
        /\ Positions = 1..Len(program)
    BY ReuseContext
  <1>3. \A d \in Declarations : lifeEnd[d] \in Nat /\ d \in Nat /\ Depth(d) \in Nat \ {0}
    <2> TAKE d \in Declarations
    <2>1. lifeEnd[d] \in d..Len(program) /\ d \in 1..Len(program) /\ Depth(d) \in Nat \ {0}
      BY <1>2, Lifetimes, DeclarationDepth
    <2>2. Len(program) \in Nat
      BY <1>2, ProgramShape
    <2> QED BY <2>1, <2>2
  <1>4. ASSUME NEW safe \in BOOLEAN, NEW G \in {Listing(safe)'}
        PROVE  /\ OneEach(G)
               /\ \A l \in Int : \A d \in Declarations : Occurs(G, l, d) =>
                    /\ d < at + 1 /\ storage'[d] = d /\ (safe <=> d \notin unsafe)
                    /\ IF l > 0 THEN l = lifeEnd[d] /\ at + 1 <= l ELSE lifeEnd[d] < at + 1
               /\ \A d \in Declarations : d < at + 1 /\ (safe <=> d \notin unsafe) =>
                    /\ storage'[d] = d => \E l \in Int : Occurs(G, l, d)
                    /\ storage'[d] # d /\ Scoped(d, at + 1) => Occurs(G, -Depth(d), storage'[d])
    <2>1. PICK M \in [Int -> Seq(Declarations)] : Visited(M, safe) /\ Moved(M, G, at, 0)
      BY <1>4 DEF ListsVisited
    <2>2. DOMAIN G = Int
      BY <1>4 DEF Listing, Numbered
    <2>0. PICK n \in Nat \ {0} : n = at
      BY <1>2
    <2>3. at \in Int /\ 0 \in Int /\ at # 0
      BY <1>2
    <2>4. OneEach(M)
      BY <2>1 DEF Visited
    <2>5. /\ OneEach(G)
          /\ \A y : ~Occurs(G, at, y)
          /\ \A y : Occurs(G, 0, y) <=> Occurs(M, 0, y) \/ Occurs(M, at, y)
          /\ \A c \in Int \ {at, 0} : \A y : Occurs(G, c, y) <=> Occurs(M, c, y)
      BY <2>1, <2>2, <2>3, <2>4, MoveKeeps, ZenonT(60)
    <2>6. ASSUME NEW l \in Int, NEW d \in Declarations, Occurs(G, l, d)
          PROVE  /\ d < at + 1 /\ storage'[d] = d /\ (safe <=> d \notin unsafe)
                 /\ IF l > 0 THEN l = lifeEnd[d] /\ at + 1 <= l ELSE lifeEnd[d] < at + 1
      <3>1. l # at
        BY <2>5, <2>6
      <3>0. PICK end \in Nat, x \in Nat : end = lifeEnd[d] /\ x = d
        BY <1>3
      <3>2. CASE l = 0
        <4>1. PICK j \in {0, at} : Occurs(M, j, d)
          BY <2>5, <2>6, <3>2
        <4>2. j \in Int /\ (j > 0 <=> j = at)
          BY <1>2, SMTT(60)
        <4>3. /\ d <= at /\ storage'[d] = d /\ (safe <=> d \notin unsafe)
              /\ IF j > 0 THEN j = lifeEnd[d] /\ at <= j ELSE lifeEnd[d] < at
          BY <2>1, <4>1, <4>2 DEF Visited
        <4>4. end < n + 1 /\ x < n + 1
          <5>1. end <= n /\ x <= n
            BY <2>0, <3>0, <4>2, <4>3, SMTT(60)
          <5> QED BY <5>1
        <4> QED BY <2>0, <3>0, <3>2, <4>3, <4>4
      <3>3. CASE l # 0
        <4>1. Occurs(M, l, d)
          BY <2>5, <2>6, <3>1, <3>3
        <4>2. /\ d <= at /\ storage'[d] = d /\ (safe <=> d \notin unsafe)
              /\ IF l > 0 THEN l = lifeEnd[d] /\ at <= l ELSE lifeEnd[d] < at
          BY <2>1, <4>1 DEF Visited
        <4>3. x <= n /\ l # n /\ IF l > 0 THEN n <= l ELSE end < n
          BY <2>0, <3>0, <3>1, <4>2
        <4>4. x < n + 1 /\ IF l > 0 THEN n + 1 <= l ELSE end < n + 1
          BY <4>3
        <4> QED BY <2>0, <3>0, <4>2, <4>4
      <3> QED BY <3>2, <3>3
    <2>7. ASSUME NEW d \in Declarations, d < at + 1, safe <=> d \notin unsafe
          PROVE  /\ storage'[d] = d => \E l \in Int : Occurs(G, l, d)
                 /\ storage'[d] # d /\ Scoped(d, at + 1) => Occurs(G, -Depth(d), storage'[d])
      <3>1. d <= at
        BY <1>2, <1>3, <2>7
      <3>2. ASSUME storage'[d] = d PROVE \E l \in Int : Occurs(G, l, d)
        <4>1. PICK l \in Int : Occurs(M, l, d)
          BY <2>1, <2>7, <3>1, <3>2 DEF Visited
        <4>2. l = at \/ l = 0 => Occurs(G, 0, d)
          BY <2>5, <4>1
        <4>3. l # at /\ l # 0 => Occurs(G, l, d)
          BY <2>5, <4>1
        <4> QED BY <4>2, <4>3
      <3>3. ASSUME storage'[d] # d, Scoped(d, at + 1) PROVE Occurs(G, -Depth(d), storage'[d])
        <4>1. Occurs(M, -Depth(d), storage'[d])
          BY <2>1, <2>7, <3>1, <3>3 DEF Visited
        <4>2. -Depth(d) \in Int \ {at, 0}
          <5>1. PICK k \in Nat \ {0} : k = Depth(d)
            BY <1>3
          <5>2. -k \in Int /\ -k # n /\ -k # 0
            OBVIOUS
          <5> QED BY <2>0, <5>1, <5>2
        <4> QED BY <2>5, <4>1, <4>2
      <3> QED BY <3>2, <3>3
    <2> QED BY <2>5, <2>6, <2>7
  <1> QED BY <1>1, <1>4 DEF ListsInv

-----------------------------------------------------------------------------
(* The steps of the reuse pass. *)
LEMMA FinishShape ==
    ASSUME NEW n \in Nat, NEW a \in 1..n, NEW D, NEW free \in [BOOLEAN -> Seq(D)],
           NEW lives \in [1..n -> [BOOLEAN -> Seq(D)]]
    PROVE  /\ add_passive_vars(free, lives[a]) \in [BOOLEAN -> Seq(D)]
           /\ [lives EXCEPT ![a] = NoStorage] \in [1..n -> [BOOLEAN -> Seq(D)]]
  <1>1. NoStorage \in [BOOLEAN -> Seq(D)]
    BY EmptySeq DEF NoStorage
  <1>2. ASSUME NEW safe \in BOOLEAN PROVE free[safe] \o lives[a][safe] \in Seq(D)
    <2>1. free[safe] \in Seq(D) /\ lives[a][safe] \in Seq(D)
      OBVIOUS
    <2> QED BY <2>1, ConcatProperties
  <1> QED BY <1>1, <1>2 DEF add_passive_vars

LEMMA AddShape ==
    ASSUME NEW D, NEW free \in [BOOLEAN -> Seq(D)], NEW list \in [BOOLEAN -> Seq(D)]
    PROVE  add_passive_vars(free, list) \in [BOOLEAN -> Seq(D)]
  <1>1. ASSUME NEW safe \in BOOLEAN PROVE free[safe] \o list[safe] \in Seq(D)
    <2>1. free[safe] \in Seq(D) /\ list[safe] \in Seq(D)
      OBVIOUS
    <2> QED BY <2>1, ConcatProperties
  <1> QED BY <1>1 DEF add_passive_vars

(* What the invariant says of the lists of one kind. *)
LEMMA ListsOfKind ==
    ASSUME Analysed, ReuseInv, pass = "reuse", at \in Positions, NEW safe \in BOOLEAN
    PROVE  /\ Listing(safe) \in [Int -> Seq(Declarations)]
           /\ OneEach(Listing(safe))
           /\ \A l \in Int : \A d \in Declarations : Occurs(Listing(safe), l, d) =>
                /\ d < at /\ storage[d] = d /\ (safe <=> d \notin unsafe)
                /\ IF l > 0 THEN l = lifeEnd[d] /\ at <= l ELSE lifeEnd[d] < at
           /\ \A d \in Declarations : d < at /\ (safe <=> d \notin unsafe) =>
                /\ storage[d] = d => \E l \in Int : Occurs(Listing(safe), l, d)
                /\ storage[d] # d /\ Scoped(d, at) =>
                     Occurs(Listing(safe), -Depth(d), storage[d])
  <1>1. ReuseShape /\ ListsInv /\ Len(program) \in Nat /\ Positions = 1..Len(program)
    BY ReuseContext
  <1>2. Listing(safe) \in [Int -> Seq(Declarations)]
    BY <1>1, NumberedType DEF ReuseShape, Stored, Block, Listing
  <1>3. \A F \in {Listing(safe)} :
            /\ OneEach(F)
            /\ \A l \in Int : \A d \in Declarations : Occurs(F, l, d) =>
                 /\ d < at /\ storage[d] = d /\ (safe <=> d \notin unsafe)
                 /\ IF l > 0 THEN l = lifeEnd[d] /\ at <= l ELSE lifeEnd[d] < at
            /\ \A d \in Declarations : d < at /\ (safe <=> d \notin unsafe) =>
                 /\ storage[d] = d => \E l \in Int : Occurs(F, l, d)
                 /\ storage[d] # d /\ Scoped(d, at) => Occurs(F, -Depth(d), storage[d])
    BY <1>1 DEF ListsInv
  <1> QED BY <1>2, <1>3

(* A kind that the statement declares nothing of. *)
LEMMA OtherKind ==
    ASSUME Analysed, ReuseInv, pass = "reuse", at \in Positions, NEW safe \in BOOLEAN,
           \A p \in Positions : p < at => storage'[p] = storage[p],
           at \in Declarations => ~(safe <=> at \notin unsafe)
    PROVE  Visited(Listing(safe), safe)
  <1> DEFINE F == Listing(safe)
  <1>1. /\ OneEach(F)
        /\ \A l \in Int : \A d \in Declarations : Occurs(F, l, d) =>
             /\ d < at /\ storage[d] = d /\ (safe <=> d \notin unsafe)
             /\ IF l > 0 THEN l = lifeEnd[d] /\ at <= l ELSE lifeEnd[d] < at
        /\ \A d \in Declarations : d < at /\ (safe <=> d \notin unsafe) =>
             /\ storage[d] = d => \E l \in Int : Occurs(F, l, d)
             /\ storage[d] # d /\ Scoped(d, at) => Occurs(F, -Depth(d), storage[d])
    BY ListsOfKind
  <1> HIDE DEF F
  <1>2. ProgramInv /\ at \in Nat \ {0} /\ Positions = 1..Len(program) /\ Declarations \subseteq Positions
        /\ Len(program) \in Nat
    BY ReuseContext
  <1>3. ASSUME NEW l \in Int, NEW d \in Declarations, Occurs(F, l, d)
        PROVE  /\ d <= at /\ storage'[d] = d /\ (safe <=> d \notin unsafe)
               /\ IF l > 0 THEN l = lifeEnd[d] /\ at <= l ELSE lifeEnd[d] < at
    <2>1. /\ d < at /\ storage[d] = d /\ (safe <=> d \notin unsafe)
          /\ IF l > 0 THEN l = lifeEnd[d] /\ at <= l ELSE lifeEnd[d] < at
      BY <1>1, <1>3
    <2>2. d \in Positions /\ d <= at
      BY <1>2, <2>1
    <2> QED BY <2>1, <2>2
  <1>4. ASSUME NEW d \in Declarations, d <= at, safe <=> d \notin unsafe
        PROVE  /\ storage'[d] = d => \E l \in Int : Occurs(F, l, d)
               /\ storage'[d] # d /\ Scoped(d, at + 1) => Occurs(F, -Depth(d), storage'[d])
    <2>1. d \in Positions /\ d < at
      BY <1>2, <1>4
    <2>2. storage'[d] = storage[d]
      BY <2>1
    <2>3. Scoped(d, at + 1) => Scoped(d, at)
      BY <1>2, <2>1, ScopeStep
    <2> QED BY <1>1, <1>4, <2>1, <2>2, <2>3
  <1> QED BY <1>1, <1>3, <1>4 DEF Visited, F

(* The lists after a statement that neither takes nor makes storage. *)
LEMMA NextShape ==
    ASSUME Analysed, ReuseInv, pass = "reuse", at \in Positions, at' = at + 1, program' = program,
           pool' \in Stored, ending' \in [Positions -> Stored], blocks' \in Seq(Block),
           Len(blocks') = Depth(at)
    PROVE  ReuseShape'
  <1>1. \A p : Depth(p)' = Depth(p)
    BY SameProgram
  <1>2. at + 1 - 1 = at
    BY ReuseContext
  <1>3. Stored' = Stored /\ Block' = Block /\ Positions' = Positions
    BY SameProgram DEF Stored, Block
  <1>4. Depth(at - 1)' = Depth(at)
    BY <1>1, <1>2
  <1> QED BY <1>3, <1>4 DEF ReuseShape

(* Each step of the reuse pass keeps its invariant: a reference or a wait, *)
LEMMA VisitOtherKeeps ==
    ASSUME Analysed, ReuseInv, VisitOther
    PROVE  ReuseInv'
  <1>1. /\ pass = "reuse" /\ at \in Positions /\ program[at].op \in {"use", "set", "wait"}
        /\ pool' = add_passive_vars(pool, ending[at]) /\ ending' = [ending EXCEPT ![at] = NoStorage]
        /\ at' = at + 1 /\ pass' = "reuse" /\ blocks' = blocks
        /\ UNCHANGED <<program, declaration, lifeEnd, unsafe>>
        /\ storage' = IF IsReference(at) THEN [storage EXCEPT ![at] = get_new_declaration(at)]
                                         ELSE storage
    BY DEF VisitOther, FinishStatement, analysisVars
  <1>2. /\ ProgramInv /\ Handed /\ ReuseShape /\ at \in Nat \ {0} /\ Positions = 1..Len(program)
        /\ at \in 1..Len(program) /\ Len(program) \in Nat /\ Len(blocks) = Depth(at - 1)
        /\ DOMAIN blocks = 1..Len(blocks)
    BY <1>1, ReuseContext
  <1>3. at \notin Declarations
    BY <1>1 DEF Declarations, Is
  <1>4. Depth(at) = Depth(at - 1)
    BY <1>1, <1>2, DepthStep DEF Opens
  <1>5. /\ DOMAIN storage' = Positions
        /\ \A p \in Positions : p < at => storage'[p] = storage[p]
        /\ IsReference(at) => storage'[at] = get_new_declaration(at)
    <2>1. DOMAIN storage = Positions
      BY <1>2 DEF Handed
    <2> HIDE DEF get_new_declaration
    <2> QED BY <1>1, <1>2, <2>1
  <1>6. Handed'
    <2>1. ~Shadowing /\ IsReference(at) => storage'[at] = storage[declaration[at]]
      BY <1>1, <1>5, ReferenceFollows
    <2> QED BY <1>1, <1>2, <1>3, <1>5, <2>1, HandedGrows
  <1>7. ReuseShape'
    <2>1. pool \in Stored /\ ending \in [Positions -> Stored] /\ blocks \in Seq(Block)
      BY <1>2 DEF ReuseShape
    <2>2. pool' \in Stored /\ ending' \in [Positions -> Stored]
      BY <1>1, <1>2, <2>1, FinishShape DEF Stored
    <2> QED BY <1>1, <1>2, <1>4, <2>1, <2>2, NextShape
  <1>8. ReplacesInv'
    <2>1. \A k \in DOMAIN blocks : k <= Depth(at)
      BY <1>2, <1>4
    <2> QED BY <1>1, <1>3, <1>5, <2>1, ReplacesGrow
  <1>9. ListsInv'
    <2>1. ASSUME NEW safe \in BOOLEAN
          PROVE  \E M \in [Int -> Seq(Declarations)] :
                    Visited(M, safe) /\ Moved(M, Listing(safe)', at, 0)
      <3>1. Visited(Listing(safe), safe)
        BY <1>1, <1>3, <1>5, OtherKind
      <3>2. Listing(safe) \in [Int -> Seq(Declarations)]
        BY <1>1, ListsOfKind
      <3>3. DOMAIN ending = 1..Len(program)
        BY <1>2 DEF ReuseShape
      <3>4. Moved(Numbered(pool, ending, blocks, safe), Numbered(pool', ending', blocks', safe), at, 0)
        BY <1>1, <1>2, <3>3, FinishMoves
      <3>5. Moved(Listing(safe), Listing(safe)', at, 0)
        BY <3>4 DEF Listing
      <3> QED BY <3>1, <3>2, <3>5
    <2>2. ListsVisited
      BY <2>1 DEF ListsVisited
    <2> QED BY <1>1, <2>2, ListsFinish
  <1> QED BY <1>1, <1>6, <1>7, <1>8, <1>9 DEF ReuseInv

-----------------------------------------------------------------------------
(* ... what opens a block,                                                 *)
LEMMA EnterBlockKeeps ==
    ASSUME Analysed, ReuseInv, EnterBlock
    PROVE  ReuseInv'
  <1> DEFINE b == [replace |-> <<>>, used |-> NoStorage]
  <1>1. /\ pass = "reuse" /\ at \in Positions /\ program[at].op \in Opens
        /\ pool' = pool /\ ending' = ending
        /\ at' = at + 1 /\ pass' = "reuse" /\ blocks' = Append(blocks, b)
        /\ UNCHANGED <<program, declaration, lifeEnd, unsafe>>
        /\ storage' = IF IsReference(at) THEN [storage EXCEPT ![at] = get_new_declaration(at)]
                                         ELSE storage
    BY DEF EnterBlock, analysisVars
  <1>2. /\ ProgramInv /\ Handed /\ ReuseShape /\ at \in Nat \ {0} /\ Positions = 1..Len(program)
        /\ at \in 1..Len(program) /\ Len(program) \in Nat /\ Len(blocks) = Depth(at - 1)
        /\ DOMAIN blocks = 1..Len(blocks) /\ Depth(at - 1) \in Nat
    BY <1>1, ReuseContext
  <1>3. at \notin Declarations
    BY <1>1 DEF Declarations, Is, Opens
  <1>4. Depth(at) = Depth(at - 1) + 1
    BY <1>1, <1>2, DepthStep
  <1>5. /\ DOMAIN storage' = Positions
        /\ \A p \in Positions : p < at => storage'[p] = storage[p]
        /\ IsReference(at) => storage'[at] = get_new_declaration(at)
    <2>1. DOMAIN storage = Positions
      BY <1>2 DEF Handed
    <2> HIDE DEF get_new_declaration
    <2> QED BY <1>1, <1>2, <2>1
  <1>6. Handed'
    <2>1. ~Shadowing /\ IsReference(at) => storage'[at] = storage[declaration[at]]
      BY <1>1, <1>5, ReferenceFollows
    <2> QED BY <1>1, <1>2, <1>3, <1>5, <2>1, HandedGrows
  <1>7. b \in Block /\ b.used = NoStorage /\ b.replace = <<>>
    <2>1. <<>> \in [{} -> Declarations] /\ {} \in SUBSET Names
      OBVIOUS
    <2>2. <<>> \in UNION { [N -> Declarations] : N \in SUBSET Names }
      BY <2>1
    <2>3. NoStorage \in Stored
      BY EmptySeq DEF NoStorage, Stored
    <2> QED BY <2>2, <2>3 DEF Block
  <1>8. /\ blocks \in Seq(Block) /\ pool \in Stored /\ ending \in [Positions -> Stored]
    BY <1>2 DEF ReuseShape
  <1> HIDE DEF b
  <1>9. /\ blocks' \in Seq(Block) /\ Len(blocks') = Len(blocks) + 1
        /\ DOMAIN blocks' = 1..(Len(blocks) + 1)
        /\ \A k \in 1..Len(blocks) : blocks'[k] = blocks[k]
        /\ blocks'[Len(blocks) + 1] = b
    <2>1. Append(blocks, b) \in Seq(Block) /\ Len(Append(blocks, b)) = Len(blocks) + 1
      BY <1>7, <1>8, AppendProperties
    <2>2. DOMAIN Append(blocks, b) = 1..(Len(blocks) + 1)
      BY <2>1, LenProperties
    <2> QED BY <1>1, <1>7, <1>8, <2>1, <2>2, AppendProperties
  <1>10. ReuseShape'
    BY <1>1, <1>2, <1>4, <1>8, <1>9, NextShape
  <1>11. ReplacesInv'
    <2>1. ASSUME NEW k \in DOMAIN blocks', NEW m \in DOMAIN blocks'[k].replace
          PROVE  /\ k \in DOMAIN blocks /\ k <= Depth(at) /\ m \in DOMAIN blocks[k].replace
                 /\ blocks'[k].replace[m] = blocks[k].replace[m]
      <3>1. k \in 1..Len(blocks)
        <4>1. ASSUME k = Len(blocks) + 1 PROVE FALSE
          BY <1>7, <1>9, <2>1, <4>1
        <4> QED BY <1>2, <1>9, <4>1
      <3> QED BY <1>2, <1>4, <1>9, <3>1
    <2>2. \A k \in DOMAIN blocks : DOMAIN blocks[k].replace \subseteq DOMAIN blocks'[k].replace
      BY <1>2, <1>9
    <2> QED BY <1>1, <1>3, <1>5, <2>1, <2>2, ReplacesGrow
  <1>12. ListsInv'
    <2>1. ASSUME NEW safe \in BOOLEAN
          PROVE  \E M \in [Int -> Seq(Declarations)] :
                    Visited(M, safe) /\ Moved(M, Listing(safe)', at, 0)
      <3>1. PICK F \in [Int -> Seq(Declarations)] : F = Listing(safe)
        BY <1>1, ListsOfKind
      <3>2. Visited(F, safe)
        BY <1>1, <1>3, <1>5, <3>1, OtherKind
      <3>3. Listing(safe)' = F
        <4>1. DOMAIN ending = 1..Len(program)
          BY <1>2, <1>8
        <4>2. Numbered(pool, ending, Append(blocks, b), safe) = Numbered(pool, ending, blocks, safe)
          <5>1. Len(program) \in Nat /\ blocks \in Seq(Block) /\ b \in Block /\ b.used = NoStorage
            BY <1>2, <1>7, <1>8
          <5> QED BY <4>1, <5>1, EnterKeeps, ZenonT(60)
        <4> QED BY <1>1, <3>1, <4>2 DEF Listing
      <3>4. F[at] = <<>>
        <4>1. F[at] \in Seq(Declarations)
          BY <1>2, <3>1
        <4>2. ASSUME F[at] # <<>> PROVE FALSE
          <5>1. Len(F[at]) \in Nat \ {0} /\ DOMAIN F[at] = 1..Len(F[at])
            BY <4>1, <4>2, FrontOf
          <5>2. 1 \in DOMAIN F[at] /\ F[at][1] \in Declarations
            BY <4>1, <5>1, ElementOfSeq, SMTT(60)
          <5>3. Occurs(F, at, F[at][1])
            BY <5>2 DEF Occurs
          <5>4. at = lifeEnd[F[at][1]]
            <6>1. at \in Int /\ at > 0
              BY <1>2
            <6> QED BY <1>1, <3>1, <5>2, <5>3, <6>1, ListsOfKind
          <5> QED BY <1>1, <5>2, <5>4, LivesEndInside
        <4> QED BY <4>2
      <3>5. F[0] \o F[at] = F[0]
        <4>1. F[0] \in Seq(Declarations)
          BY <3>1
        <4> QED BY <3>4, <4>1, ConcatEmptySeq
      <3>6. Moved(F, F, at, 0)
        BY <3>4, <3>5 DEF Moved
      <3> QED BY <3>1, <3>2, <3>3, <3>6
    <2>2. ListsVisited
      BY <2>1 DEF ListsVisited
    <2> QED BY <1>1, <2>2, ListsFinish
  <1> QED BY <1>1, <1>6, <1>10, <1>11, <1>12 DEF ReuseInv

(* ... the end of a block,                                                 *)
LEMMA LeaveBlockKeeps ==
    ASSUME Analysed, ReuseInv, LeaveBlock
    PROVE  ReuseInv'
  <1> DEFINE u == Last(blocks).used
             P == add_passive_vars(pool, u)
  <1>1. /\ pass = "reuse" /\ at \in Positions /\ program[at].op = "end" /\ Is(at, "end")
        /\ pool' = add_passive_vars(P, ending[at]) /\ ending' = [ending EXCEPT ![at] = NoStorage]
        /\ at' = at + 1 /\ pass' = "reuse" /\ blocks' = Front(blocks)
        /\ UNCHANGED <<program, declaration, lifeEnd, unsafe>> /\ storage' = storage
    BY DEF LeaveBlock, FinishStatement, analysisVars, Is, Positions
  <1>2. /\ ProgramInv /\ Handed /\ ReuseShape /\ at \in Nat \ {0} /\ Positions = 1..Len(program)
        /\ at \in 1..Len(program) /\ Len(program) \in Nat /\ Len(blocks) = Depth(at - 1)
        /\ DOMAIN blocks = 1..Len(blocks) /\ Depth(at - 1) \in Nat /\ Depth(at) \in Nat
        /\ Declarations \subseteq Positions
    BY <1>1, ReuseContext
  <1>3. at \notin Declarations
    BY <1>1 DEF Declarations, Is
  <1>4. Depth(at) = Depth(at - 1) - 1
    BY <1>1, <1>2, DepthStep
  <1>0. PICK k \in Nat \ {0} : k = Len(blocks) /\ Depth(at) = k - 1
    BY <1>2, <1>4
  <1>5. blocks \in Seq(Block) /\ pool \in Stored /\ ending \in [Positions -> Stored] /\ blocks # <<>>
    <2>1. blocks # <<>>
      BY <1>0
    <2> QED BY <1>2, <2>1 DEF ReuseShape
  <1>6. /\ blocks' \in Seq(Block) /\ Len(blocks') = k - 1 /\ DOMAIN blocks' = 1..(k - 1)
        /\ \A j \in 1..(k - 1) : blocks'[j] = blocks[j]
        /\ Last(blocks) \in Block
    BY <1>0, <1>1, <1>5, FrontOf
  <1>7. P \in Stored
    <2>1. u \in Stored
      BY <1>6 DEF Block
    <2> HIDE DEF u
    <2> QED BY <1>5, <2>1, AddShape DEF Stored
  <1> HIDE DEF P
  <1>8. \A p \in Positions : p < at => storage'[p] = storage[p]
    BY <1>1
  <1>9. Handed'
    <2>1. ~IsReference(at)
      BY <1>1 DEF IsReference
    <2>2. DOMAIN storage' = Positions
      BY <1>1, <1>2 DEF Handed
    <2> QED BY <1>1, <1>2, <1>3, <1>8, <2>1, <2>2, HandedGrows
  <1>10. ReuseShape'
    <2>1. pool' \in Stored /\ ending' \in [Positions -> Stored]
      BY <1>1, <1>2, <1>5, <1>7, FinishShape DEF Stored
    <2>2. Len(blocks') = Depth(at)
      BY <1>0, <1>6
    <2> QED BY <1>1, <1>6, <2>1, <2>2, NextShape
  <1>11. ReplacesInv'
    <2>1. ASSUME NEW j \in DOMAIN blocks', NEW m \in DOMAIN blocks'[j].replace
          PROVE  /\ j \in DOMAIN blocks /\ j <= Depth(at) /\ m \in DOMAIN blocks[j].replace
                 /\ blocks'[j].replace[m] = blocks[j].replace[m]
      <3>1. j \in 1..(k - 1) /\ j \in 1..k /\ j <= k - 1
        BY <1>6
      <3> QED BY <1>0, <1>2, <1>6, <2>1, <3>1
    <2>2. \A j \in DOMAIN blocks : j <= Depth(at) =>
             DOMAIN blocks[j].replace \subseteq DOMAIN blocks'[j].replace
      <3> TAKE j \in DOMAIN blocks
      <3>1. j <= Depth(at) => j \in 1..(k - 1)
        BY <1>0, <1>2
      <3> QED BY <1>6, <3>1
    <2> QED BY <1>1, <1>3, <1>8, <2>1, <2>2, ReplacesGrow
  <1>12. ListsInv'
    <2>1. ASSUME NEW safe \in BOOLEAN
          PROVE  \E M \in [Int -> Seq(Declarations)] :
                    Visited(M, safe) /\ Moved(M, Listing(safe)', at, 0)
      <3>1. PICK F \in [Int -> Seq(Declarations)] : F = Listing(safe)
        BY <1>1, ListsOfKind
      <3>2. DOMAIN ending = 1..Len(program)
        BY <1>2, <1>5
      <3>3. Numbered(P, ending, blocks', safe) \in [Int -> Seq(Declarations)]
        BY <1>2, <1>5, <1>6, <1>7, NumberedType DEF Stored, Block
      <3>4. PICK M \in [Int -> Seq(Declarations)] : M = Numbered(P, ending, blocks', safe)
        BY <3>3
      <3>5. Moved(F, M, -k, 0)
        <4>1. Moved(Numbered(pool, ending, blocks, safe),
                    Numbered(add_passive_vars(pool, Last(blocks).used), ending, Front(blocks), safe),
                    -Len(blocks), 0)
          BY <1>2, <1>5, <3>2, LeaveMoves
        <4> QED BY <1>0, <1>1, <3>1, <3>4, <4>1 DEF Listing, P, u
      <3>6. Moved(M, Listing(safe)', at, 0)
        <4>1. Moved(Numbered(P, ending, blocks', safe), Numbered(pool', ending', blocks', safe), at, 0)
          BY <1>1, <1>2, <3>2, FinishMoves
        <4> QED BY <3>4, <4>1 DEF Listing
      <3>7. Visited(F, safe)
        BY <1>1, <1>3, <1>8, <3>1, OtherKind
      <3>8. /\ OneEach(M)
            /\ \A y : ~Occurs(M, -k, y)
            /\ \A y : Occurs(M, 0, y) <=> Occurs(F, 0, y) \/ Occurs(F, -k, y)
            /\ \A c \in Int \ {-k, 0} : \A y : Occurs(M, c, y) <=> Occurs(F, c, y)
        <4>1. -k \in Int /\ 0 \in Int /\ -k # 0 /\ DOMAIN M = Int
          BY <3>4
        <4>2. OneEach(F)
          BY <3>7 DEF Visited
        <4> QED BY <3>5, <4>1, <4>2, MoveKeeps
      <3>9. Visited(M, safe)
        <4>1. ASSUME NEW l \in Int, NEW d \in Declarations, Occurs(M, l, d)
              PROVE  /\ d <= at /\ storage'[d] = d /\ (safe <=> d \notin unsafe)
                     /\ IF l > 0 THEN l = lifeEnd[d] /\ at <= l ELSE lifeEnd[d] < at
          <5>1. l # -k
            BY <3>8, <4>1
          <5>2. CASE l = 0
            <6>1. PICK j \in {0, -k} : Occurs(F, j, d)
              BY <3>8, <4>1, <5>2
            <6>2. j \in Int /\ ~(j > 0)
              OBVIOUS
            <6> QED BY <3>7, <5>2, <6>1, <6>2 DEF Visited
          <5>3. CASE l # 0
            <6>1. Occurs(F, l, d)
              BY <3>8, <4>1, <5>1, <5>3
            <6> QED BY <3>7, <6>1 DEF Visited
          <5> QED BY <5>2, <5>3
        <4>2. ASSUME NEW d \in Declarations, d <= at, safe <=> d \notin unsafe
              PROVE  /\ storage'[d] = d => \E l \in Int : Occurs(M, l, d)
                     /\ storage'[d] # d /\ Scoped(d, at + 1) => Occurs(M, -Depth(d), storage'[d])
          <5>1. ASSUME storage'[d] = d PROVE \E l \in Int : Occurs(M, l, d)
            <6>1. PICK l \in Int : Occurs(F, l, d)
              BY <3>7, <4>2, <5>1 DEF Visited
            <6>2. l = -k \/ l = 0 => Occurs(M, 0, d)
              BY <3>8, <6>1
            <6>3. l # -k /\ l # 0 => Occurs(M, l, d)
              BY <3>8, <6>1
            <6> QED BY <6>2, <6>3
          <5>2. ASSUME storage'[d] # d, Scoped(d, at + 1) PROVE Occurs(M, -Depth(d), storage'[d])
            <6>1. Occurs(F, -Depth(d), storage'[d])
              BY <3>7, <4>2, <5>2 DEF Visited
            <6>2. PICK j \in Nat \ {0} : j = Depth(d)
              BY <1>2, DeclarationDepth
            <6>3. j <= k - 1
              BY <1>0, <1>1, <1>2, <5>2, <6>2, ScopeStep
            <6>4. -j \in Int \ {-k, 0}
              BY <6>3
            <6> QED BY <3>8, <6>1, <6>2, <6>4
          <5> QED BY <5>1, <5>2
        <4> QED BY <3>8, <4>1, <4>2 DEF Visited
      <3> QED BY <3>6, <3>9
    <2>2. ListsVisited
      BY <2>1 DEF ListsVisited
    <2> QED BY <1>1, <2>2, ListsFinish
  <1> QED BY <1>1, <1>9, <1>10, <1>11, <1>12 DEF ReuseInv

-----------------------------------------------------------------------------
(* The storage that a declaration makes. *)
LEMMA DeclarationMakes ==
    ASSUME Analysed, ReuseInv, VisitDeclaration, pool[get_passive_var_hash(at)] = <<>>
    PROVE  ReuseInv'
  <1> DEFINE e == lifeEnd[at]
             L == Listed(ending[e], at)
             E == [ending EXCEPT ![e] = L]
             kind == at \notin unsafe
  <1>1. /\ pass = "reuse" /\ Is(at, "declare") /\ at \in Positions /\ at \in Declarations
        /\ program[at].op = "declare"
        /\ pool' = add_passive_vars(pool, E[at]) /\ ending' = [E EXCEPT ![at] = NoStorage]
        /\ at' = at + 1 /\ pass' = "reuse" /\ blocks' = blocks
        /\ UNCHANGED <<program, declaration, lifeEnd, unsafe>>
        /\ storage' = [storage EXCEPT ![at] = at]
    BY DEF VisitDeclaration, FinishStatement, analysisVars, Is, Positions, Declarations
  <1>2. /\ ProgramInv /\ Handed /\ ReuseShape /\ at \in Nat \ {0} /\ Positions = 1..Len(program)
        /\ at \in 1..Len(program) /\ Len(program) \in Nat /\ Len(blocks) = Depth(at - 1)
        /\ DOMAIN blocks = 1..Len(blocks) /\ Declarations \subseteq Positions
    BY <1>1, ReuseContext
  <1>3. Depth(at) = Depth(at - 1)
    BY <1>1, <1>2, DepthStep DEF Opens
  <1>4. e \in at..Len(program) /\ e \in 1..Len(program) /\ e > 0 /\ e \in Int
    <2>1. e \in at..Len(program)
      BY <1>1, Lifetimes
    <2> QED BY <1>2, <2>1
  <1>5. /\ DOMAIN storage' = Positions
        /\ \A p \in Positions : p < at => storage'[p] = storage[p]
        /\ storage'[at] = at
    <2>1. DOMAIN storage = Positions
      BY <1>2 DEF Handed
    <2> QED BY <1>1, <1>2, <2>1
  <1>6. \A d \in Declarations : d < at => storage[d] # at
    <2> TAKE d \in Declarations
    <2>1. ASSUME d < at, storage[d] = at PROVE FALSE
      <3>1. at <= d
        BY <1>2, <2>1 DEF Handed
      <3>2. d \in Nat
        BY <1>2
      <3> QED BY <1>2, <2>1, <3>1, <3>2
    <2> QED BY <2>1
  <1>7. Handed'
    <2>1. ~IsReference(at)
      BY <1>1 DEF IsReference
    <2>2. /\ storage'[at] \in Declarations /\ storage'[at] <= at
          /\ storage'[storage'[at]] = storage'[at]
          /\ storage'[at] \in unsafe <=> at \in unsafe
          /\ \A d \in Declarations : d < at /\ storage[d] = storage'[at] =>
               ~(Scoped(d, at) /\ at <= lifeEnd[d])
      BY <1>1, <1>2, <1>5, <1>6
    <2> QED BY <1>1, <1>2, <1>5, <2>1, <2>2, HandedGrows
  <1>8. /\ pool \in Stored /\ ending \in [Positions -> Stored] /\ blocks \in Seq(Block)
    BY <1>2 DEF ReuseShape
  <1>9. /\ kind \in BOOLEAN
        /\ L = [ending[e] EXCEPT ![kind] = Append(@, at)]
        /\ L \in Stored
    <2>1. ending[e] \in [BOOLEAN -> Seq(Declarations)]
      BY <1>2, <1>4, <1>8 DEF Stored
    <2>2. kind \in BOOLEAN /\ L = [ending[e] EXCEPT ![kind] = Append(@, at)]
      BY DEF Listed, get_passive_var_hash
    <2>3. Append(ending[e][kind], at) \in Seq(Declarations)
      <3>1. ending[e][kind] \in Seq(Declarations)
        BY <2>1, <2>2
      <3> QED BY <1>1, <3>1, AppendProperties
    <2> HIDE DEF kind, L
    <2>4. [ending[e] EXCEPT ![kind] = Append(@, at)] \in [BOOLEAN -> Seq(Declarations)]
      BY <2>1, <2>2, <2>3
    <2> QED BY <2>2, <2>4 DEF Stored
  <1>10. E \in [Positions -> Stored] /\ DOMAIN E = 1..Len(program)
    <2> HIDE DEF L
    <2> QED BY <1>2, <1>4, <1>8, <1>9
  <1> HIDE DEF L, E, e, kind
  <1>11. ReuseShape'
    <2>1. pool' \in Stored /\ ending' \in [Positions -> Stored]
      BY <1>1, <1>2, <1>8, <1>10, FinishShape DEF Stored
    <2> QED BY <1>1, <1>2, <1>3, <1>8, <2>1, NextShape
  <1>12. ReplacesInv'
    <2>1. \A k \in DOMAIN blocks : k <= Depth(at)
      BY <1>2, <1>3, ReuseContext
    <2> QED BY <1>1, <1>5, <2>1, ReplacesGrow
  <1>13. ListsInv'
    <2>1. ASSUME NEW safe \in BOOLEAN
          PROVE  \E M \in [Int -> Seq(Declarations)] :
                    Visited(M, safe) /\ Moved(M, Listing(safe)', at, 0)
      <3>1. PICK F \in [Int -> Seq(Declarations)] : F = Listing(safe)
        BY <1>1, ListsOfKind
      <3>2. Numbered(pool, E, blocks, safe) \in [Int -> Seq(Declarations)]
        BY <1>2, <1>8, <1>10, NumberedType DEF Stored, Block
      <3>3. PICK M \in [Int -> Seq(Declarations)] : M = Numbered(pool, E, blocks, safe)
        BY <3>2
      <3>4. Moved(M, Listing(safe)', at, 0)
        <4>1. Moved(Numbered(pool, E, blocks, safe), Numbered(pool', ending', blocks', safe), at, 0)
          BY <1>1, <1>2, <1>10, FinishMoves
        <4> QED BY <3>3, <4>1 DEF Listing
      <3>5. /\ (safe <=> kind) => Pushed(F, M, e, at)
            /\ ~(safe <=> kind) => M = F
        <4>1. DOMAIN ending = 1..Len(program) /\ ending[e] \in [BOOLEAN -> Seq(Declarations)]
          BY <1>2, <1>4, <1>8 DEF Stored
        <4>2. /\ F = Numbered(pool, ending, blocks, safe)
              /\ M = Numbered(pool, [ending EXCEPT ![e] = L], blocks, safe)
          BY <3>1, <3>3 DEF E, Listing
        <4>3. /\ (safe <=> kind) => L[safe] = Append(ending[e][safe], at)
              /\ ~(safe <=> kind) => L[safe] = ending[e][safe]
          BY <1>9, <4>1, ZenonT(60)
        <4>4. Len(program) \in Nat /\ e \in 1..Len(program)
          BY <1>2, <1>4
        <4>5. (safe <=> kind) => Pushed(F, M, e, at)
          BY <4>1, <4>2, <4>3, <4>4, MakePushes, ZenonT(60)
        <4>6. ~(safe <=> kind) => M = F
          <5>1. ASSUME L[safe] = ending[e][safe]
                PROVE  Numbered(pool, E, blocks, safe) = Numbered(pool, ending, blocks, safe)
            <6>1. DOMAIN E = DOMAIN ending /\ \A p \in DOMAIN ending : E[p][safe] = ending[p][safe]
              BY <4>1, <4>4, <5>1 DEF E
            <6> QED BY <6>1, MakeKeeps
          <5> QED BY <3>3, <4>2, <4>3, <5>1
        <4> QED BY <4>5, <4>6
      <3>6. CASE ~(safe <=> kind)
        <4>1. ~(safe <=> at \notin unsafe)
          BY <1>9, <3>6 DEF kind
        <4>2. Visited(Listing(safe), safe)
          BY <1>1, <1>5, <4>1, OtherKind
        <4> QED BY <3>1, <3>4, <3>5, <3>6, <4>2
      <3>7. CASE safe <=> kind
        <4>1. /\ OneEach(F)
              /\ \A l \in Int : \A d \in Declarations : Occurs(F, l, d) =>
                   /\ d < at /\ storage[d] = d /\ (safe <=> d \notin unsafe)
                   /\ IF l > 0 THEN l = lifeEnd[d] /\ at <= l ELSE lifeEnd[d] < at
              /\ \A d \in Declarations : d < at /\ (safe <=> d \notin unsafe) =>
                   /\ storage[d] = d => \E l \in Int : Occurs(F, l, d)
                   /\ storage[d] # d /\ Scoped(d, at) => Occurs(F, -Depth(d), storage[d])
          BY <1>1, <3>1, ListsOfKind
        <4>2. \A c \in Int : ~Occurs(F, c, at)
          <5>1. ~(at < at)
            BY <1>2
          <5> QED BY <1>1, <4>1, <5>1
        <4>3. /\ OneEach(M)
              /\ \A y : Occurs(M, e, y) <=> Occurs(F, e, y) \/ y \in {at}
              /\ \A c \in Int \ {e} : \A y : Occurs(M, c, y) <=> Occurs(F, c, y)
          <5>1. DOMAIN M = Int
            BY <3>3
          <5>2. Pushed(F, M, e, at)
            BY <3>5, <3>7
          <5>3. OneEach(F) /\ e \in Int /\ at \in Declarations
            BY <1>1, <1>4, <4>1
          <5>4. OneEach(M)
            BY <4>2, <5>1, <5>2, <5>3, PushedOnce, ZenonT(60)
          <5>5. \A y : Occurs(M, e, y) <=> Occurs(F, e, y) \/ y \in {at}
            BY <4>2, <5>1, <5>2, <5>3, PushedHere, ZenonT(120)
          <5>6. \A c \in Int \ {e} : \A y : Occurs(M, c, y) <=> Occurs(F, c, y)
            BY <4>2, <5>1, <5>2, <5>3, PushedElsewhere, ZenonT(60)
          <5> QED BY <5>4, <5>5, <5>6
        <4>4. safe <=> at \notin unsafe
          BY <3>7 DEF kind
        <4>5. ASSUME NEW l \in Int, NEW d \in Declarations, Occurs(M, l, d)
              PROVE  /\ d <= at /\ storage'[d] = d /\ (safe <=> d \notin unsafe)
                     /\ IF l > 0 THEN l = lifeEnd[d] /\ at <= l ELSE lifeEnd[d] < at
          <5>1. CASE Occurs(F, l, d)
            <6>1. /\ d < at /\ storage[d] = d /\ (safe <=> d \notin unsafe)
                  /\ IF l > 0 THEN l = lifeEnd[d] /\ at <= l ELSE lifeEnd[d] < at
              BY <4>1, <5>1
            <6>2. d \in Positions /\ d <= at
              BY <1>2, <6>1
            <6> QED BY <1>5, <6>1, <6>2
          <5>2. CASE l = e /\ d = at
            <6>1. at <= e /\ at <= at
              BY <1>2, <1>4
            <6> QED BY <1>4, <1>5, <4>4, <5>2, <6>1 DEF e
          <5>3. l = e => Occurs(F, l, d) \/ d \in {at}
            BY <4>3, <4>5
          <5>4. l # e => Occurs(F, l, d)
            BY <4>3, <4>5
          <5> QED BY <5>1, <5>2, <5>3, <5>4
        <4>6. ASSUME NEW d \in Declarations, d <= at, safe <=> d \notin unsafe
              PROVE  /\ storage'[d] = d => \E l \in Int : Occurs(M, l, d)
                     /\ storage'[d] # d /\ Scoped(d, at + 1) => Occurs(M, -Depth(d), storage'[d])
          <5>1. CASE d = at
            <6>1. Occurs(M, e, at)
              BY <1>4, <4>3
            <6> QED BY <1>4, <1>5, <5>1, <6>1
          <5>2. CASE d # at
            <6>1. d \in Positions /\ d < at
              BY <1>2, <4>6, <5>2
            <6>2. storage'[d] = storage[d]
              BY <1>5, <6>1
            <6>3. Scoped(d, at + 1) => Scoped(d, at)
              BY <1>1, <1>2, <5>2, ScopeStep
            <6>4. -Depth(d) \in Int
              <7>1. Depth(d) \in Nat
                BY <1>2, DeclarationDepth
              <7> QED BY <7>1
            <6>5. \A c \in Int : Occurs(F, c, d) => Occurs(M, c, d)
              BY <4>3
            <6>6. \A c \in Int : Occurs(F, c, storage[d]) => Occurs(M, c, storage[d])
              BY <4>3
            <6> QED BY <4>1, <4>6, <6>1, <6>2, <6>3, <6>4, <6>5, <6>6
          <5> QED BY <5>1, <5>2
        <4>7. Visited(M, safe)
          BY <4>3, <4>5, <4>6 DEF Visited
        <4> QED BY <3>4, <4>7
      <3> QED BY <3>6, <3>7
    <2>2. ListsVisited
      BY <2>1 DEF ListsVisited
    <2> QED BY <1>1, <2>2, ListsFinish
  <1> QED BY <1>1, <1>7, <1>11, <1>12, <1>13 DEF ReuseInv

-----------------------------------------------------------------------------
(* What is in two lists is in one. *)
LEMMA NotTwice ==
    ASSUME NEW F, OneEach(F), NEW a \in DOMAIN F, NEW b \in DOMAIN F, NEW x,
           Occurs(F, a, x), Occurs(F, b, x)
    PROVE  a \in {b}
  <1>1. PICK i \in DOMAIN F[a] : F[a][i] = x
    BY DEF Occurs
  <1>2. PICK j \in DOMAIN F[b] : F[b][j] = x
    BY DEF Occurs
  <1>3. F[a][i] = F[b][j]
    BY <1>1, <1>2
  <1>4. a = b
    BY <1>3, SamePlace
  <1> QED BY <1>4

(* What is put at the end of a list is added to what it holds. *)
Adds(F, G, a, x) == \A y : Occurs(G, a, y) <=> Occurs(F, a, y) \/ y \in {x}

(* What the blocks used of a kind. *)
SameUsed(to, in, k, safe) ==
    /\ DOMAIN in = 1..k /\ DOMAIN to = 1..k
    /\ \A j \in 1..k : to[j].used[safe] = in[j].used[safe]

LEMMA LendSame ==
    ASSUME NEW free, NEW lives, NEW k \in Nat \ {0}, NEW in, NEW to, NEW safe \in BOOLEAN,
           SameUsed(to, in, k, safe)
    PROVE  Numbered(free, lives, to, safe) = Numbered(free, lives, in, safe)
  <1>1. /\ DOMAIN in = 1..k /\ DOMAIN to = 1..k
        /\ \A j \in 1..k : to[j].used[safe] = in[j].used[safe]
    BY DEF SameUsed
  <1> QED BY <1>1, LendKeeps

LEMMA PushedAdds ==
    ASSUME NEW K, NEW S, NEW F \in [K -> Seq(S)], NEW G, DOMAIN G = K,
           NEW a \in K, NEW x \in S, Pushed(F, G, a, x),
           OneEach(F), \A c \in K : ~Occurs(F, c, x)
    PROVE  Adds(F, G, a, x)
  <1>1. \A y : Occurs(G, a, y) <=> Occurs(F, a, y) \/ y \in {x}
    BY PushKeeps
  <1> QED BY <1>1 DEF Adds

(* The numbers of the blocks' lists. *)
LEMMA NegatedNumber == \A k \in Nat \ {0} : -k \in Int /\ ~(-k > 0) /\ -k # 0
  OBVIOUS

(* The storage that a declaration borrows. *)
LEMMA DeclarationReuses ==
    ASSUME Analysed, ReuseInv, VisitDeclaration, pool[get_passive_var_hash(at)] # <<>>
    PROVE  ReuseInv'
  <1> DEFINE kind == get_passive_var_hash(at)
             n == program[at].name
             P == [pool EXCEPT ![kind] = Front(@)]
  <1>0. PICK f \in Declarations : f = Last(pool[kind])
    <2>1. pass = "reuse" /\ kind \in BOOLEAN
      BY DEF VisitDeclaration, get_passive_var_hash
    <2>2. pool \in Stored
      BY <2>1 DEF ReuseInv, ReuseShape
    <2>3. pool[kind] \in Seq(Declarations)
      BY <2>1, <2>2 DEF Stored
    <2> QED BY <2>3, FrontOf
  <1>1. /\ pass = "reuse" /\ Is(at, "declare") /\ at \in Positions /\ at \in Declarations
        /\ program[at].op = "declare"
        /\ blocks' = [blocks EXCEPT ![Len(blocks)] =
             [replace |-> [m \in DOMAIN @.replace \cup {n} |->
                             IF m = n THEN f ELSE @.replace[m]],
              used |-> Listed(@.used, f)]]
        /\ pool' = add_passive_vars(P, ending[at]) /\ ending' = [ending EXCEPT ![at] = NoStorage]
        /\ at' = at + 1 /\ pass' = "reuse"
        /\ UNCHANGED <<program, declaration, lifeEnd, unsafe>>
        /\ storage' = [storage EXCEPT ![at] = f]
    BY <1>0 DEF VisitDeclaration, FinishStatement, analysisVars, Is, Positions, Declarations
  <1>2. /\ ProgramInv /\ Handed /\ ReuseShape /\ at \in Nat \ {0} /\ Positions = 1..Len(program)
        /\ at \in 1..Len(program) /\ Len(program) \in Nat /\ Len(blocks) = Depth(at - 1)
        /\ DOMAIN blocks = 1..Len(blocks) /\ Declarations \subseteq Positions
    BY <1>1, ReuseContext
  <1>3. PICK k \in Nat \ {0} : k = Len(blocks) /\ Depth(at) = k
    <2>1. Depth(at) = Depth(at - 1) /\ Depth(at) \in Nat \ {0}
      BY <1>1, <1>2, DeclarationDepth
    <2> QED BY <1>2, <2>1
  <1>4. kind \in BOOLEAN /\ (kind <=> at \notin unsafe)
    BY DEF get_passive_var_hash
  <1>5. /\ pool \in Stored /\ ending \in [Positions -> Stored] /\ blocks \in Seq(Block)
        /\ pool[kind] \in Seq(Declarations) /\ pool[kind] # <<>>
    <2>1. pool \in Stored /\ ending \in [Positions -> Stored] /\ blocks \in Seq(Block)
      BY <1>2 DEF ReuseShape
    <2> QED BY <1>4, <2>1 DEF Stored
  <1>6. f \in Declarations /\ Front(pool[kind]) \in Seq(Declarations)
    BY <1>0, <1>5, FrontOf
  (* What is free holds no life that reaches this statement. *)
  <1>7. /\ Occurs(Listing(kind), 0, f)
        /\ f < at /\ storage[f] = f /\ (kind <=> f \notin unsafe) /\ lifeEnd[f] < at
    <2>1. Listing(kind)[0] = pool[kind]
      BY DEF Listing, Numbered
    <2>2. Len(pool[kind]) \in DOMAIN pool[kind] /\ pool[kind][Len(pool[kind])] = f
      <3>1. /\ Len(pool[kind]) \in Nat \ {0} /\ DOMAIN pool[kind] = 1..Len(pool[kind])
            /\ Last(pool[kind]) = pool[kind][Len(pool[kind])]
        BY <1>5, FrontOf
      <3> QED BY <1>0, <3>1
    <2>3. Occurs(Listing(kind), 0, f)
      BY <2>1, <2>2 DEF Occurs
    <2>4. 0 \in Int /\ ~(0 > 0)
      OBVIOUS
    <2> QED BY <1>1, <1>4, <1>6, <2>3, <2>4, ListsOfKind
  <1> HIDE DEF kind, P
  <1>8. \A d \in Declarations : d < at /\ storage[d] = f => ~(Scoped(d, at) /\ at <= lifeEnd[d])
    <2> TAKE d \in Declarations
    <2>1. ASSUME d < at, storage[d] = f, Scoped(d, at), at <= lifeEnd[d] PROVE FALSE
      <3>1. kind <=> d \notin unsafe
        <4>1. storage[d] \in unsafe <=> d \in unsafe
          BY <1>2, <2>1 DEF Handed
        <4> QED BY <1>7, <2>1, <4>1
      <3>2. CASE d = f
        <4>1. lifeEnd[f] \in Nat
          <5>1. lifeEnd[f] \in f..Len(program) /\ f \in Nat
            BY <1>2, <1>6, Lifetimes
          <5> QED BY <1>2, <5>1
        <4> QED BY <1>2, <1>7, <2>1, <3>2, <4>1
      <3>3. CASE d # f
        <4>1. Occurs(Listing(kind), -Depth(d), f)
          BY <1>1, <1>4, <2>1, <3>1, <3>3, ListsOfKind
        <4>2. PICK j \in Nat \ {0} : j = Depth(d)
          BY <1>2, DeclarationDepth
        <4>3. PICK F \in [Int -> Seq(Declarations)] : F = Listing(kind) /\ OneEach(F)
          BY <1>1, <1>4, ListsOfKind
        <4>4. Occurs(F, -j, f) /\ Occurs(F, 0, f)
          BY <1>7, <4>1, <4>2, <4>3
        <4>5. -j \in DOMAIN F /\ 0 \in DOMAIN F /\ -j \notin {0}
          OBVIOUS
        <4>6. OneEach(F)
          BY <4>3
        <4> QED BY <4>4, <4>5, <4>6, NotTwice, ZenonT(60)
      <3> QED BY <3>2, <3>3
    <2> QED BY <2>1
  <1>9. /\ DOMAIN storage' = Positions
        /\ \A p \in Positions : p < at => storage'[p] = storage[p]
        /\ storage'[at] = f
    <2>1. DOMAIN storage = Positions
      BY <1>2 DEF Handed
    <2> QED BY <1>1, <1>2, <2>1
  <1>10. Handed'
    <2>1. ~IsReference(at)
      BY <1>1 DEF IsReference
    <2>2. f \in Positions /\ f <= at
      BY <1>2, <1>6, <1>7
    <2>3. storage'[f] = f
      BY <1>7, <1>9, <2>2
    <2>4. /\ storage'[at] \in Declarations /\ storage'[at] <= at
          /\ storage'[storage'[at]] = storage'[at]
          /\ storage'[at] \in unsafe <=> at \in unsafe
          /\ \A d \in Declarations : d < at /\ storage[d] = storage'[at] =>
               ~(Scoped(d, at) /\ at <= lifeEnd[d])
      BY <1>4, <1>6, <1>7, <1>8, <1>9, <2>2, <2>3
    <2> QED BY <1>1, <1>2, <1>9, <2>1, <2>4, HandedGrows
  <1>11. P \in Stored
    <2> USE DEF P
    <2> QED BY <1>4, <1>5, <1>6 DEF Stored
  (* The innermost block has the replacement, and the storage to give back. *)
  <1>12. /\ blocks[k] \in Block /\ k \in 1..k
         /\ DOMAIN blocks' = 1..k
         /\ \A j \in 1..k : j # k => blocks'[j] = blocks[j]
         /\ blocks'[k] = [replace |-> [m \in DOMAIN blocks[k].replace \cup {n} |->
                                          IF m = n THEN f ELSE blocks[k].replace[m]],
                          used |-> Listed(blocks[k].used, f)]
    <2>1. blocks[k] \in Block
      BY <1>2, <1>3, <1>5, ElementOfSeq
    <2>2. DOMAIN blocks = 1..k
      BY <1>2, <1>3
    <2> DEFINE b == [replace |-> [m \in DOMAIN blocks[k].replace \cup {n} |->
                                    IF m = n THEN f ELSE blocks[k].replace[m]],
                     used |-> Listed(blocks[k].used, f)]
    <2>3. blocks' = [blocks EXCEPT ![k] = b]
      BY <1>1, <1>3
    <2>4. k \in 1..k
      OBVIOUS
    <2> HIDE DEF b
    <2>5. DOMAIN blocks' = 1..k /\ blocks'[k] = b /\ \A j \in 1..k : j # k => blocks'[j] = blocks[j]
      BY <2>2, <2>3, <2>4
    <2> USE DEF b
    <2> QED BY <2>1, <2>4, <2>5, ZenonT(60)
  <1>13. /\ blocks' \in Seq(Block) /\ Len(blocks') = k
         /\ DOMAIN blocks'[k].replace = DOMAIN blocks[k].replace \cup {n}
         /\ \A m \in DOMAIN blocks'[k].replace :
              blocks'[k].replace[m] = IF m = n THEN f ELSE blocks[k].replace[m]
         /\ blocks'[k].used = Listed(blocks[k].used, f)
    <2>1. n \in Names
      BY <1>1, <1>2, ProgramShape, StatementOps
    <2> HIDE DEF n
    <2>2. PICK N \in SUBSET Names : blocks[k].replace \in [N -> Declarations]
      BY <1>12 DEF Block
    <2>3. N \cup {n} \in SUBSET Names /\ DOMAIN blocks[k].replace = N
      BY <2>1, <2>2
    <2>4. [m \in DOMAIN blocks[k].replace \cup {n} |-> IF m = n THEN f ELSE blocks[k].replace[m]]
            \in [N \cup {n} -> Declarations]
      BY <1>6, <2>2, <2>3
    <2>5. Listed(blocks[k].used, f) \in Stored
      <3>1. blocks[k].used \in [BOOLEAN -> Seq(Declarations)]
        BY <1>12 DEF Block, Stored
      <3>2. \A safe \in BOOLEAN : Append(blocks[k].used[safe], f) \in Seq(Declarations)
        <4> TAKE safe \in BOOLEAN
        <4>1. blocks[k].used[safe] \in Seq(Declarations)
          BY <3>1
        <4> QED BY <1>6, <4>1, AppendProperties
      <3> QED BY <3>1, <3>2 DEF Listed, Stored
    <2>6. blocks'[k] \in Block
      <3>1. PICK R \in {[m \in DOMAIN blocks[k].replace \cup {n} |->
                            IF m = n THEN f ELSE blocks[k].replace[m]]} :
              R = [m \in DOMAIN blocks[k].replace \cup {n} |->
                     IF m = n THEN f ELSE blocks[k].replace[m]]
        OBVIOUS
      <3>2. PICK U \in {Listed(blocks[k].used, f)} : U = Listed(blocks[k].used, f)
        OBVIOUS
      <3>3. R \in UNION { [L -> Declarations] : L \in SUBSET Names }
        BY <2>3, <2>4, <3>1
      <3>4. [replace |-> R, used |-> U] \in Block
        BY <2>5, <3>2, <3>3 DEF Block
      <3> QED BY <1>12, <3>1, <3>2, <3>4, ZenonT(60)
    <2>7. blocks' \in Seq(Block) /\ Len(blocks') = k
      <3>1. \A j \in 1..k : blocks'[j] \in Block
        BY <1>2, <1>3, <1>5, <1>12, <2>6, ElementOfSeq
      <3>2. blocks' \in [1..k -> Block]
        <4>1. blocks \in [1..k -> Block]
          BY <1>2, <1>3, <1>5, LenProperties
        <4>2. \A j \in 1..k : blocks'[j] \in Block
          BY <3>1
        <4>3. blocks' = [j \in 1..k |-> blocks'[j]]
          BY <1>1, <1>12, <4>1
        <4> QED BY <4>2, <4>3
      <3>3. k \in Nat /\ DOMAIN blocks' = 1..k
        BY <1>12
      <3>4. blocks' \in Seq(Block)
        BY <3>2, <3>3, IsASeq
      <3>5. Len(blocks') \in Nat /\ DOMAIN blocks' = 1..Len(blocks')
        BY <3>4, LenProperties
      <3> QED BY <3>3, <3>4, <3>5
    <2> QED BY <1>12, <2>7
  <1>14. ReuseShape'
    <2>1. pool' \in Stored /\ ending' \in [Positions -> Stored]
      BY <1>1, <1>2, <1>5, <1>11, FinishShape DEF Stored
    <2> QED BY <1>1, <1>2, <1>3, <1>13, <2>1, NextShape
  <1>15. ReplacesInv'
    <2>1. \A j \in DOMAIN blocks : j <= Depth(at)
      BY <1>2, <1>3
    <2>2. ASSUME NEW j \in DOMAIN blocks', NEW m \in DOMAIN blocks'[j].replace
          PROVE  \/ /\ j \in DOMAIN blocks /\ j <= Depth(at) /\ m \in DOMAIN blocks[j].replace
                    /\ blocks'[j].replace[m] = blocks[j].replace[m]
                 \/ /\ at \in Declarations /\ j = Depth(at) /\ m = program[at].name
                    /\ blocks'[j].replace[m] = storage'[at]
      <3>1. j \in 1..k /\ j \in DOMAIN blocks /\ j <= Depth(at)
        BY <1>2, <1>3, <1>12, <2>2
      <3>2. CASE j # k
        BY <1>12, <2>2, <3>1, <3>2
      <3>3. CASE j = k /\ m = n
        BY <1>1, <1>3, <1>9, <1>13, <2>2, <3>3
      <3>4. CASE j = k /\ m # n
        BY <1>13, <2>2, <3>1, <3>4
      <3> QED BY <3>2, <3>3, <3>4
    <2>3. ASSUME NEW j \in DOMAIN blocks
          PROVE  DOMAIN blocks[j].replace \subseteq DOMAIN blocks'[j].replace
      <3>1. j \in 1..k
        BY <1>2, <1>3
      <3>2. CASE j # k
        BY <1>12, <3>1, <3>2
      <3>3. CASE j = k
        BY <1>13, <3>3
      <3> QED BY <3>2, <3>3
    <2>4. program[at].name \in DOMAIN blocks'[Depth(at)].replace
      BY <1>3, <1>13
    <2> QED BY <1>1, <1>9, <2>2, <2>3, <2>4, ReplacesGrow
  <1> HIDE DEF n
  <1>16. ListsInv'
    <2>1. ASSUME NEW safe \in BOOLEAN
          PROVE  \E M \in [Int -> Seq(Declarations)] :
                    Visited(M, safe) /\ Moved(M, Listing(safe)', at, 0)
      <3>1. PICK F \in [Int -> Seq(Declarations)] : F = Listing(safe)
        BY <1>1, ListsOfKind
      <3>2. PICK B \in Seq(Block) : B = blocks'
        BY <1>13
      <3>3. /\ DOMAIN ending = 1..Len(program) /\ 0 \notin DOMAIN ending
            /\ DOMAIN blocks = 1..k /\ DOMAIN B = 1..k /\ ending \in [1..Len(program) -> Stored]
            /\ P \in [BOOLEAN -> Seq(Declarations)]
        <4>1. DOMAIN ending = 1..Len(program) /\ 0 \notin DOMAIN ending
          BY <1>2, <1>5
        <4>2. DOMAIN blocks = 1..k /\ DOMAIN B = 1..k
          BY <1>2, <1>3, <1>12, <3>2
        <4>3. ending \in [1..Len(program) -> Stored] /\ P \in [BOOLEAN -> Seq(Declarations)]
          BY <1>2, <1>5, <1>11 DEF Stored
        <4> QED BY <4>1, <4>2, <4>3
      <3>4. /\ Numbered(P, ending, B, safe) \in [Int -> Seq(Declarations)]
            /\ Numbered(P, ending, blocks, safe) \in [Int -> Seq(Declarations)]
        BY <1>2, <1>5, <3>3, NumberedType DEF Stored, Block
      <3>5. PICK M \in [Int -> Seq(Declarations)] : M = Numbered(P, ending, B, safe)
        BY <3>4
      <3>6. PICK O \in [Int -> Seq(Declarations)] : O = Numbered(P, ending, blocks, safe)
        BY <3>4
      <3>7. Moved(M, Listing(safe)', at, 0)
        <4>1. Moved(Numbered(P, ending, B, safe), Numbered(pool', ending', B, safe), at, 0)
          BY <1>1, <1>2, <3>3, FinishMoves
        <4>2. Listing(safe)' = Numbered(pool', ending', B, safe)
          BY <3>2 DEF Listing
        <4> QED BY <3>5, <4>1, <4>2
      <3>8. F = Numbered(pool, ending, blocks, safe)
        BY <3>1 DEF Listing
      <3>9. CASE ~(safe <=> kind)
        <4>1. ~(safe <=> at \notin unsafe)
          BY <1>4, <3>9
        <4>2. Visited(Listing(safe), safe)
          BY <1>1, <1>9, <4>1, OtherKind
        <4>3. O = F
          <5>1. P[safe] = pool[safe]
            BY <1>4, <1>5, <3>9 DEF P, Stored
          <5> QED BY <3>6, <3>8, <5>1, TakeKeeps
        <4>4. M = O
          <5>1. \A j \in 1..k : B[j].used[safe] = blocks[j].used[safe]
            <6>1. Listed(blocks[k].used, f)[safe] = blocks[k].used[safe]
              <7>1. blocks[k].used \in [BOOLEAN -> Seq(Declarations)]
                BY <1>12 DEF Block, Stored
              <7>2. get_passive_var_hash(f) \in BOOLEAN /\ ~(safe <=> get_passive_var_hash(f))
                BY <1>7, <3>9 DEF get_passive_var_hash
              <7> QED BY <7>1, <7>2 DEF Listed
            <6>2. B[k].used[safe] = blocks[k].used[safe]
              BY <1>13, <3>2, <6>1
            <6>3. \A j \in 1..k : j # k => B[j] = blocks[j]
              BY <1>12, <3>2
            <6> TAKE j \in 1..k
            <6>4. CASE j = k
              BY <6>2, <6>4
            <6>5. CASE j # k
              BY <6>3, <6>5
            <6> QED BY <6>4, <6>5, ZenonT(60)
          <5>2. k \in Nat \ {0} /\ DOMAIN blocks = 1..k /\ DOMAIN B = 1..k
            BY <3>3
          <5>3. SameUsed(B, blocks, k, safe)
            BY <5>1, <5>2 DEF SameUsed
          <5>4. Numbered(P, ending, B, safe) = Numbered(P, ending, blocks, safe)
            BY <5>3, LendSame
          <5> QED BY <3>5, <3>6, <5>4
        <4> QED BY <3>1, <3>7, <4>2, <4>3, <4>4
      <3>10. CASE safe <=> kind
        <4>0. safe = kind
          BY <1>4, <3>10
        <4>1. /\ OneEach(F)
              /\ \A l \in Int : \A d \in Declarations : Occurs(F, l, d) =>
                   /\ d < at /\ storage[d] = d /\ (safe <=> d \notin unsafe)
                   /\ IF l > 0 THEN l = lifeEnd[d] /\ at <= l ELSE lifeEnd[d] < at
              /\ \A d \in Declarations : d < at /\ (safe <=> d \notin unsafe) =>
                   /\ storage[d] = d => \E l \in Int : Occurs(F, l, d)
                   /\ storage[d] # d /\ Scoped(d, at) => Occurs(F, -Depth(d), storage[d])
          BY <1>1, <3>1, ListsOfKind
        <4>2. F[0] = pool[kind] /\ F[0] # <<>> /\ Last(F[0]) = f
          BY <1>0, <1>5, <3>8, <4>0 DEF Numbered
        <4>3. Popped(F, O, 0)
          <5>1. P[safe] = Front(pool[safe])
            BY <1>4, <1>5, <4>0 DEF P, Stored
          <5> QED BY <3>3, <3>6, <3>8, <5>1, TakePops
        <4>4. /\ OneEach(O)
              /\ \A c \in Int : \A y : Occurs(O, c, y) <=> Occurs(F, c, y) /\ y \notin {f}
          <5>1. 0 \in Int /\ DOMAIN O = Int /\ OneEach(F)
            BY <3>6, <4>1
          <5>2. /\ OneEach(O)
                /\ \A c \in Int : \A y : Occurs(O, c, y) <=> Occurs(F, c, y) /\ y \notin {Last(F[0])}
            BY <4>2, <4>3, <5>1, PopKeeps, ZenonT(60)
          <5> QED BY <4>2, <5>2
        <4>5. \A c \in Int : ~Occurs(O, c, f)
          BY <4>4
        <4>6. Pushed(O, M, -k, f)
          <5>1. B[k].used[safe] = Append(blocks[k].used[safe], f)
            <6>1. blocks[k].used \in [BOOLEAN -> Seq(Declarations)]
              BY <1>12 DEF Block, Stored
            <6>2. get_passive_var_hash(f) = safe
              BY <1>7, <3>10 DEF get_passive_var_hash
            <6> QED BY <1>13, <3>2, <6>1, <6>2 DEF Listed
          <5>2. \A j \in 1..k : j # k => B[j] = blocks[j]
            BY <1>12, <3>2
          <5> QED BY <1>2, <3>3, <3>5, <3>6, <5>1, <5>2, LendPushes
        <4>7. -k \in Int /\ ~(-k > 0) /\ -k # 0
          BY NegatedNumber
        <4>8. /\ OneEach(M)
              /\ \A y : Occurs(M, -k, y) <=> Occurs(O, -k, y) \/ y \in {f}
              /\ \A c \in Int \ {-k} : \A y : Occurs(M, c, y) <=> Occurs(O, c, y)
          <5>1. PICK a \in Int : a = -k
            BY <4>7
          <5>2. DOMAIN M = Int /\ OneEach(O) /\ Pushed(O, M, a, f)
            BY <3>5, <4>4, <4>6, <5>1
          <5>3. OneEach(M)
            BY <1>6, <4>5, <5>2, PushedOnce
          <5>4. \A y : Occurs(M, a, y) <=> Occurs(O, a, y) \/ y \in {f}
            <6>1. f \in Declarations /\ OneEach(O) /\ \A c \in Int : ~Occurs(O, c, f)
              BY <1>6, <4>4, <4>5
            <6>2. Adds(O, M, a, f)
              BY <5>2, <6>1, PushedAdds, ZenonT(60)
            <6> QED BY <6>2 DEF Adds
          <5>5. \A c \in Int \ {a} : \A y : Occurs(M, c, y) <=> Occurs(O, c, y)
            BY <1>6, <4>5, <5>2, PushedElsewhere, ZenonT(60)
          <5> QED BY <5>1, <5>3, <5>4, <5>5
        <4>9. safe <=> at \notin unsafe
          BY <1>4, <3>10
        <4>10. ASSUME NEW l \in Int, NEW d \in Declarations, Occurs(M, l, d)
               PROVE  /\ d <= at /\ storage'[d] = d /\ (safe <=> d \notin unsafe)
                      /\ IF l > 0 THEN l = lifeEnd[d] /\ at <= l ELSE lifeEnd[d] < at
          <5>1. CASE Occurs(F, l, d)
            <6>1. /\ d < at /\ storage[d] = d /\ (safe <=> d \notin unsafe)
                  /\ IF l > 0 THEN l = lifeEnd[d] /\ at <= l ELSE lifeEnd[d] < at
              BY <4>1, <5>1
            <6>2. d \in Positions /\ d <= at
              BY <1>2, <6>1, SMTT(60)
            <6> QED BY <1>9, <6>1, <6>2
          <5>2. CASE l = -k /\ d = f
            <6>1. f \in Positions /\ f <= at
              BY <1>2, <1>6, <1>7, SMTT(60)
            <6> QED BY <1>7, <1>9, <3>10, <4>7, <5>2, <6>1
          <5>3. l = -k => Occurs(F, l, d) \/ d \in {f}
            BY <4>4, <4>8, <4>10
          <5>4. l # -k => Occurs(F, l, d)
            BY <4>4, <4>8, <4>10
          <5> QED BY <5>1, <5>2, <5>3, <5>4
        (* Only the storage that is taken changes its list. *)
        <4>11. ASSUME NEW c \in Int, NEW y, y # f, Occurs(F, c, y) PROVE Occurs(M, c, y)
          <5>1. Occurs(O, c, y)
            BY <4>4, <4>11
          <5> QED BY <4>8, <5>1
        <4>12. Occurs(M, -k, f)
          BY <4>7, <4>8
        <4>13. ASSUME NEW d \in Declarations, d <= at, safe <=> d \notin unsafe
               PROVE  /\ storage'[d] = d => \E l \in Int : Occurs(M, l, d)
                      /\ storage'[d] # d /\ Scoped(d, at + 1) => Occurs(M, -Depth(d), storage'[d])
          <5>1. CASE d = at
            <6>1. storage'[d] # d
              <7>1. f # at
                <8>1. f \in Nat
                  BY <1>2, <1>6
                <8> QED BY <1>2, <1>7, <8>1
              <7> QED BY <1>9, <5>1, <7>1
            <6> QED BY <1>3, <1>9, <4>12, <5>1, <6>1
          <5>2. CASE d # at
            <6>1. d \in Positions /\ d < at
              BY <1>2, <4>13, <5>2
            <6>2. storage'[d] = storage[d]
              BY <1>9, <6>1
            <6>3. Scoped(d, at + 1) => Scoped(d, at)
              BY <1>1, <1>2, <5>2, ScopeStep
            <6>4. storage[d] = d => \E l \in Int : Occurs(M, l, d)
              <7>1. CASE d = f
                BY <4>7, <4>12, <7>1
              <7>2. CASE d # f
                BY <4>1, <4>11, <4>13, <6>1, <7>2
              <7> QED BY <7>1, <7>2
            <6>5. ASSUME storage[d] # d, Scoped(d, at) PROVE Occurs(M, -Depth(d), storage[d])
              <7>1. PICK c \in Int : c = -Depth(d) /\ ~(c > 0) /\ c # 0
                <8>1. PICK i \in Nat \ {0} : i = Depth(d)
                  BY <1>2, DeclarationDepth
                <8>2. -i \in Int /\ ~(-i > 0) /\ -i # 0
                  OBVIOUS
                <8> QED BY <8>1, <8>2
              <7>2. Occurs(F, c, storage[d])
                BY <4>1, <4>13, <6>1, <6>5, <7>1
              <7>3. ASSUME storage[d] = f PROVE FALSE
                <8>1. Occurs(F, c, f) /\ Occurs(F, 0, f)
                  BY <1>7, <3>1, <4>0, <7>2, <7>3
                <8>2. c \in DOMAIN F /\ 0 \in DOMAIN F /\ c \notin {0}
                  BY <7>1
                <8>3. OneEach(F)
                  BY <4>1
                <8> QED BY <8>1, <8>2, <8>3, NotTwice, ZenonT(60)
              <7> QED BY <4>11, <7>1, <7>2, <7>3
            <6> QED BY <6>2, <6>3, <6>4, <6>5
          <5> QED BY <5>1, <5>2
        <4>14. Visited(M, safe)
          BY <4>8, <4>10, <4>13 DEF Visited
        <4> QED BY <3>7, <4>14
      <3> QED BY <3>9, <3>10
    <2>2. ListsVisited
      BY <2>1 DEF ListsVisited
    <2> QED BY <1>1, <2>2, ListsFinish
  <1> QED BY <1>1, <1>10, <1>14, <1>15, <1>16 DEF ReuseInv

-----------------------------------------------------------------------------
(* ... and a declaration, whether it takes free storage or becomes storage. *)
LEMMA VisitDeclarationKeeps ==
    ASSUME Analysed, ReuseInv, VisitDeclaration
    PROVE  ReuseInv'
  BY DeclarationMakes, DeclarationReuses

(* The pass starts with empty lists. *)
LEMMA AnalysisStarts ==
    ASSUME ProgramInv, Analyse
    PROVE  ReuseInv'
  <1>1. /\ pass' = "reuse" /\ at' = 1 /\ pool' = NoStorage /\ blocks' = <<>>
        /\ ending' = [p \in Positions |-> NoStorage] /\ storage' = [p \in Positions |-> 0]
        /\ program' = program
    BY DEF Analyse
  <1>2. /\ Positions' = Positions /\ Declarations' = Declarations
        /\ \A p : Depth(p)' = Depth(p) /\ (IsReference(p)' <=> IsReference(p))
        /\ \A d, p : Scoped(d, p)' <=> Scoped(d, p)
    BY <1>1, SameProgram
  <1>3. /\ Positions = 1..Len(program) /\ Len(program) \in Nat
        /\ Declarations \subseteq Positions
    BY ProgramShape DEF Declarations
  <1>4. \A d \in Positions : ~(d < 1)
    BY <1>3
  <1>5. Handed'
    <2>1. at' \in 1..(Len(program') + 1) /\ DOMAIN storage' = Positions
      BY <1>1, <1>3
    <2>2. \A d \in Declarations : ~(d < at')
      BY <1>1, <1>3, <1>4
    <2>3. \A d \in Positions : ~(d < at')
      BY <1>1, <1>4
    <2>4. \A d, e \in Declarations : ~(e < at')
      BY <2>2
    <2> QED BY <1>2, <2>1, <2>2, <2>3, <2>4 DEF Handed
  <1>6. NoStorage \in [BOOLEAN -> Seq(Declarations)]
    BY EmptySeq DEF NoStorage
  <1>7. ReuseShape'
    <2>1. Stored' = Stored /\ Block' = Block
      BY <1>2 DEF Stored, Block
    <2>2. pool' \in Stored /\ ending' \in [Positions -> Stored]
      BY <1>1, <1>6 DEF Stored
    <2>3. blocks' \in Seq(Block) /\ Len(blocks') = 0
      BY <1>1, EmptySeq
    <2>4. \A p : Depth(p)' = Depth(p)
      BY <1>2
    <2>5. Depth(at - 1)' = 0
      <3>1. at' - 1 = 0
        BY <1>1
      <3>2. Depth(0) = 0
        BY DepthStart
      <3> QED BY <2>4, <3>1, <3>2
    <2> QED BY <1>2, <2>1, <2>2, <2>3, <2>5 DEF ReuseShape
  <1>8. ListsInv'
    <2>1. ASSUME NEW safe \in BOOLEAN, NEW F \in {Listing(safe)'}
          PROVE  /\ OneEach(F)
                 /\ \A l \in Int : \A d : ~Occurs(F, l, d)
      <3>1. ASSUME NEW l \in Int PROVE F[l] = <<>>
        <4>1. F[l] = IF l = 0 THEN pool'[safe]
                     ELSE IF l \in DOMAIN ending' THEN ending'[l][safe]
                     ELSE IF -l \in DOMAIN blocks' THEN blocks'[-l].used[safe] ELSE <<>>
          BY <2>1 DEF Listing, Numbered
        <4>2. -l \notin DOMAIN blocks'
          BY <1>1
        <4>3. l \in DOMAIN ending' => ending'[l] = NoStorage
          BY <1>1
        <4>4. NoStorage[safe] = <<>>
          BY DEF NoStorage
        <4> QED BY <1>1, <4>1, <4>2, <4>3, <4>4
      <3>2. DOMAIN F = Int
        BY <2>1 DEF Listing, Numbered
      <3>3. \A l \in Int : DOMAIN F[l] = {}
        BY <3>1
      <3> QED BY <3>2, <3>3 DEF OneEach, Occurs
    <2>2. \A d \in Declarations : ~(d < at')
      BY <1>1, <1>3, <1>4
    <2> QED BY <1>2, <2>1, <2>2 DEF ListsInv
  <1>9. ReplacesInv'
    <2>1. DOMAIN blocks' = {}
      BY <1>1
    <2>2. \A d \in Declarations : ~(d < at')
      BY <1>1, <1>3, <1>4
    <2> QED BY <1>2, <2>1, <2>2 DEF ReplacesInv
  <1> QED BY <1>1, <1>5, <1>7, <1>8, <1>9 DEF ReuseInv

(* What is handed out stays as it is when the program runs. *)
LEMMA HandedStays ==
    ASSUME Handed, UNCHANGED program, UNCHANGED analysisVars, UNCHANGED reuseVars
    PROVE  Handed'
  <1>1. /\ Positions' = Positions /\ Declarations' = Declarations
        /\ \A p : IsReference(p)' <=> IsReference(p)
        /\ \A d, p : Scoped(d, p)' <=> Scoped(d, p)
    BY SameProgram
  <1>2. at' = at /\ storage' = storage /\ program' = program /\ declaration' = declaration
        /\ lifeEnd' = lifeEnd /\ unsafe' = unsafe
    BY DEF analysisVars, reuseVars
  <1> QED BY <1>1, <1>2 DEF Handed

(* Starting the program leaves what was compiled alone.                    *)
LEMMA StartKeeps ==
    ASSUME Analysed, ReuseInv, StartProgram
    PROVE  ReuseInv'
  <1>1. /\ pass = "reuse" /\ at > Len(program) /\ pass' = "run"
        /\ UNCHANGED program /\ UNCHANGED analysisVars /\ UNCHANGED reuseVars
    BY DEF StartProgram
  <1>2. Handed /\ Len(program) \in Nat
    BY <1>1, ProgramShape DEF ReuseInv, Analysed
  <1>3. Handed'
    BY <1>1, <1>2, HandedStays
  <1>4. at = Len(program) + 1
    <2>1. at \in 1..(Len(program) + 1)
      BY <1>2 DEF Handed
    <2> QED BY <1>1, <1>2, <2>1
  <1>5. at' = Len(program') + 1
    BY <1>1, <1>4 DEF reuseVars
  <1> QED BY <1>1, <1>3, <1>5 DEF ReuseInv

LEMMA RunningKeeps ==
    ASSUME ReuseInv, pass = "run", UNCHANGED <<program, pass>>, UNCHANGED analysisVars,
           UNCHANGED reuseVars
    PROVE  ReuseInv'
  <1>1. Handed /\ at = Len(program) + 1
    BY DEF ReuseInv
  <1>2. Handed'
    BY <1>1, HandedStays
  <1>3. at' = Len(program') + 1 /\ pass' = "run"
    BY <1>1 DEF reuseVars
  <1> QED BY <1>2, <1>3 DEF ReuseInv

-----------------------------------------------------------------------------
(* The invariant of the program, its analysis and the reuse pass. *)
CompileInv == ProgramInv /\ AnalysisInv /\ ReuseInv

LEMMA CompileStarts ==
    ASSUME Init
    PROVE  CompileInv
  <1>1. pass = "write"
    BY DEF Init
  <1>2. ProgramInv
    BY ProgramStarts
  <1> QED BY <1>1, <1>2 DEF CompileInv, AnalysisInv, ReuseInv

LEMMA RunStep ==
    ASSUME NEW i \in Instances, Run(i)
    PROVE  /\ pass = "run" /\ UNCHANGED <<program, pass>>
           /\ UNCHANGED analysisVars /\ UNCHANGED reuseVars
  BY DEF Run, StartInstance, Resume, Assign, Use, Wait, Branch, End, Runs

(* The invariant of the compiler is inductive.                             *)
LEMMA CompileKeeps ==
    ASSUME StorageAssumption, CompileInv, Next
    PROVE  CompileInv'
  <1>1. ProgramInv /\ AnalysisInv /\ ReuseInv
    BY DEF CompileInv
  <1>2. CASE Write
    <2>1. pass' = "write"
      BY <1>2 DEF Write
    <2>2. ProgramInv'
      BY <1>1, <1>2, ProgramGrows
    <2> QED BY <2>1, <2>2 DEF CompileInv, AnalysisInv, ReuseInv
  <1>3. CASE Analyse
    <2>1. ProgramInv'
      BY <1>1, <1>3, ProgramStays DEF Analyse
    <2>2. AnalysisInv'
      BY <1>3, AnalysisIsMade
    <2>3. ReuseInv'
      BY <1>1, <1>3, AnalysisStarts
    <2> QED BY <2>1, <2>2, <2>3 DEF CompileInv
  <1>4. CASE EnterBlock \/ VisitDeclaration \/ VisitOther \/ LeaveBlock \/ StartProgram
    <2>1. /\ pass = "reuse" /\ pass' \in {"reuse", "run"}
          /\ UNCHANGED program /\ UNCHANGED analysisVars
      BY <1>4 DEF EnterBlock, VisitDeclaration, VisitOther, LeaveBlock, StartProgram
    <2>2. Analysed
      BY <1>1, <2>1 DEF Analysed
    <2>3. ProgramInv'
      BY <1>1, <2>1, ProgramStays
    <2>4. AnalysisInv'
      BY <1>1, <2>1, AnalysisStays
    <2>5. ReuseInv'
      BY <1>1, <1>4, <2>2, EnterBlockKeeps, VisitDeclarationKeeps, VisitOtherKeeps,
         LeaveBlockKeeps, StartKeeps
    <2> QED BY <2>3, <2>4, <2>5 DEF CompileInv
  <1>5. ASSUME NEW i \in Instances, Run(i) PROVE CompileInv'
    <2>1. /\ pass = "run" /\ UNCHANGED <<program, pass>>
          /\ UNCHANGED analysisVars /\ UNCHANGED reuseVars
      BY <1>5, RunStep
    <2>2. ProgramInv'
      BY <1>1, <2>1, ProgramStays
    <2>3. AnalysisInv'
      BY <1>1, <2>1, AnalysisStays
    <2>4. ReuseInv'
      BY <1>1, <2>1, RunningKeeps
    <2> QED BY <2>2, <2>3, <2>4 DEF CompileInv
  <1> QED BY <1>2, <1>3, <1>4, <1>5 DEF Next, Compile

(* Nothing of it depends on anything but the variables.                    *)
LEMMA CompileStutters ==
    ASSUME CompileInv, UNCHANGED vars
    PROVE  CompileInv'
  <1>1. UNCHANGED <<program, pass>> /\ UNCHANGED analysisVars /\ UNCHANGED reuseVars
    BY DEF vars, analysisVars, reuseVars
  <1>2. ProgramInv'
    BY <1>1, ProgramStays DEF CompileInv
  <1>3. AnalysisInv'
    BY <1>1, AnalysisStays DEF CompileInv
  <1>4. ReuseInv'
    <2>1. CASE pass = "run"
      BY <1>1, <2>1, RunningKeeps DEF CompileInv
    <2>2. CASE pass = "write"
      BY <1>1, <2>2 DEF ReuseInv
    <2>3. CASE pass = "reuse"
      <3>1. Handed /\ ReuseShape /\ ListsInv /\ ReplacesInv
        BY <2>3 DEF CompileInv, ReuseInv
      <3>2. /\ Positions' = Positions /\ Declarations' = Declarations
            /\ \A p : Depth(p)' = Depth(p)
            /\ \A d, p : Scoped(d, p)' <=> Scoped(d, p)
        BY <1>1, SameProgram
      <3>3. /\ at' = at /\ storage' = storage /\ pool' = pool /\ blocks' = blocks
            /\ ending' = ending /\ lifeEnd' = lifeEnd /\ unsafe' = unsafe /\ program' = program
        BY <1>1 DEF analysisVars, reuseVars
      <3>4. Handed'
        BY <1>1, <3>1, HandedStays
      <3>5. ReuseShape'
        <4>1. Depth(at - 1)' = Depth(at - 1)
          BY <3>2, <3>3
        <4> QED BY <3>1, <3>2, <3>3, <4>1 DEF ReuseShape, Stored, Block
      <3>6. ListsInv'
        <4>1. \A safe : Listing(safe)' = Listing(safe)
          BY <3>3 DEF Listing, Numbered
        <4> QED BY <3>1, <3>2, <3>3, <4>1 DEF ListsInv
      <3>7. ReplacesInv'
        BY <3>1, <3>2, <3>3 DEF ReplacesInv
      <3> QED BY <1>1, <2>3, <3>4, <3>5, <3>6, <3>7 DEF ReuseInv
    <2>4. pass \in {"write", "reuse", "run"}
      BY DEF CompileInv, ReuseInv
    <2> QED BY <2>1, <2>2, <2>3, <2>4
  <1> QED BY <1>2, <1>3, <1>4 DEF CompileInv

(* The program is well formed, the analysis is what it says it is, and what *)
(* the reuse pass has handed out fits it, whatever program is written.      *)
LEMMA Compiled == Spec => []CompileInv
  <1>1. StorageAssumption
    BY StorageAssumption
  <1>2. Init => CompileInv
    BY CompileStarts
  <1>3. CompileInv /\ [Next]_vars => CompileInv'
    BY <1>1, CompileKeeps, CompileStutters
  <1> QED BY <1>2, <1>3, PTL DEF Spec

-----------------------------------------------------------------------------
(* A position is in as many blocks as it is deep. *)
LEMMA BlocksAreCounted ==
    ASSUME ProgramInv, NEW p \in 1..(Len(program) + 1)
    PROVE  Cardinality(BlocksAt(p)) = Depth(p - 1)
  <1>1. Positions = 1..Len(program) /\ Len(program) \in Nat
    BY ProgramShape
  <1>2. PICK n \in Nat : n = Depth(p - 1)
    <2>1. p - 1 \in 0..Len(program)
      BY <1>1
    <2> QED BY <2>1, DepthNat
  <1>3. PICK S \in {BlocksAt(p)} : S = BlocksAt(p)
    OBVIOUS
  <1>4. S \subseteq Nat
    BY <1>1, <1>3, BlocksAreBefore
  <1>5. PICK g \in {[o \in S |-> Depth(o)]} : g = [o \in S |-> Depth(o)]
    OBVIOUS
  <1>6. g \in [S -> 1..n]
    BY <1>2, <1>3, <1>5, DepthsAscend
  <1>7. \A a, b \in S : g[a] = g[b] => a = b
    <2> TAKE a, b \in S
    <2>1. a \in Nat /\ b \in Nat
      BY <1>4
    <2>2. a < b => g[a] < g[b]
      BY <1>3, <1>5, DepthsAscend
    <2>3. b < a => g[b] < g[a]
      BY <1>3, <1>5, DepthsAscend
    <2>4. g[a] \in Nat /\ g[b] \in Nat
      BY <1>6
    <2> QED BY <2>1, <2>2, <2>3, <2>4
  <1>8. \A k \in 1..n : \E o \in S : g[o] = k
    BY <1>2, <1>3, <1>5, BlockOfDepth
  <1>9. ExistsBijection(S, 1..n)
    BY <1>6, <1>7, <1>8 DEF ExistsBijection, Bijection, Injection, Surjection, IsInjective
  <1>10. Cardinality(S) = n
    BY <1>9, Fun_ExistsBijSymmetric, FS_CountingElements
  <1> QED BY <1>2, <1>3, <1>10

(* Every visited declaration of the reuse pass is where the invariant says. *)
LEMMA TypeFollows ==
    ASSUME CompileInv
    PROVE  StorageTypeOK
  <1> SUFFICES ASSUME pass = "reuse" PROVE StorageTypeOK
    BY DEF StorageTypeOK
  <1>1. ProgramInv /\ Handed /\ ReuseShape /\ ListsInv
    BY DEF CompileInv, ReuseInv
  <1>2. at \in 1..(Len(program) + 1)
    BY <1>1 DEF Handed
  <1>3. Len(blocks) = Cardinality(BlocksAt(at))
    BY <1>1, <1>2, BlocksAreCounted DEF ReuseShape
  <1>4. ASSUME NEW safe \in BOOLEAN
        PROVE  pool[safe] \in Seq({ d \in Declarations : safe <=> d \notin unsafe })
    <2>1. pool[safe] \in Seq(Declarations)
      BY <1>1 DEF ReuseShape, Stored
    <2>2. PICK F \in {Listing(safe)} : F[0] = pool[safe]
      BY DEF Listing, Numbered
    <2>3. \A d \in Declarations : Occurs(F, 0, d) => (safe <=> d \notin unsafe)
      <3>1. 0 \in Int
        OBVIOUS
      <3> QED BY <1>1, <3>1 DEF ListsInv
    <2>4. PICK s \in {pool[safe]}, D \in SUBSET Declarations :
            s = pool[safe] /\ D = { d \in Declarations : safe <=> d \notin unsafe }
      OBVIOUS
    <2>5. s \in Seq(Declarations) /\ \A j \in DOMAIN s : s[j] \in D
      <3>1. s \in Seq(Declarations) /\ DOMAIN s = 1..Len(s)
        BY <2>1, <2>4, LenProperties
      <3>2. \A j \in 1..Len(s) : s[j] \in Declarations
        BY <3>1, ElementOfSeq
      <3>3. \A j \in DOMAIN s : Occurs(F, 0, s[j])
        BY <2>2, <2>4 DEF Occurs
      <3> QED BY <2>3, <2>4, <3>1, <3>2, <3>3
    <2>6. s \in Seq(D)
      <3>1. Len(s) \in Nat /\ s \in [1..Len(s) -> D]
        BY <2>5, LenProperties
      <3> QED BY <3>1
    <2> QED BY <2>4, <2>6
  <1>5. ASSUME NEW d \in Declarations, d < at
        PROVE  storage[storage[d]] = storage[d] /\ (storage[d] \in unsafe <=> d \in unsafe)
    BY <1>1, <1>5 DEF Handed
  <1> QED BY <1>2, <1>3, <1>4, <1>5 DEF StorageTypeOK

(*****************************************************************************)
(* While the reuse pass runs, it is in as many blocks as the statement it    *)
(* visits, its free storage is declarations of the kind it is listed under,  *)
(* and every declaration it has visited names storage that was made by a     *)
(* declaration, itself its own storage, and thread safe exactly when the     *)
(* declaration is (ASTVariableReuse.h, get_passive_var_hash).                *)
(*****************************************************************************)
THEOREM StorageIsTyped == Spec => []StorageTypeOK
  <1>1. CompileInv => StorageTypeOK
    BY TypeFollows
  <1> QED BY <1>1, Compiled, PTL

-----------------------------------------------------------------------------
(* The place that a list with a number has in the program's state. *)
KeyOf(l) == IF l = 0 THEN <<"free", 0>>
            ELSE IF l > 0 THEN <<"ending", l>> ELSE <<"used", -l>>

(* The three groups of lists have different names.                         *)
LEMMA KeysDiffer ==
    ASSUME NEW l \in Int, NEW m \in Int, KeyOf(l) = KeyOf(m)
    PROVE  m \in {l}
  <1>1. KeyOf(l)[1] = KeyOf(m)[1] /\ KeyOf(l)[2] = KeyOf(m)[2]
    OBVIOUS
  <1>2. /\ l = 0 => KeyOf(l)[1] = "free" /\ KeyOf(l)[2] = 0
        /\ l > 0 => KeyOf(l)[1] = "ending" /\ KeyOf(l)[2] = l
        /\ l < 0 => KeyOf(l)[1] = "used" /\ KeyOf(l)[2] = -l
    BY DEF KeyOf
  <1>3. /\ m = 0 => KeyOf(m)[1] = "free" /\ KeyOf(m)[2] = 0
        /\ m > 0 => KeyOf(m)[1] = "ending" /\ KeyOf(m)[2] = m
        /\ m < 0 => KeyOf(m)[1] = "used" /\ KeyOf(m)[2] = -m
    BY DEF KeyOf
  <1>4. CASE l = 0
    BY <1>1, <1>2, <1>3, <1>4
  <1>5. CASE l > 0
    BY <1>1, <1>2, <1>3, <1>5
  <1>6. CASE l < 0
    BY <1>1, <1>2, <1>3, <1>6
  <1> QED BY <1>4, <1>5, <1>6

LEMMA NumberOfKey ==
    ASSUME ProgramInv, ReuseShape, NEW key \in Lists
    PROVE  \E l \in Int : key = KeyOf(l) /\ \A safe \in BOOLEAN : ListAt(key)[safe] = Listing(safe)[l]
  <1>1. /\ DOMAIN ending = Positions /\ Positions = 1..Len(program) /\ Len(program) \in Nat
        /\ DOMAIN blocks = 1..Len(blocks) /\ Len(blocks) \in Nat
    BY ProgramShape, LenProperties DEF ReuseShape
  <1>2. CASE key = <<"free", 0>>
    <2>1. key = KeyOf(0)
      BY <1>2 DEF KeyOf
    <2>2. \A safe \in BOOLEAN : ListAt(key)[safe] = Listing(safe)[0]
      BY <1>2 DEF ListAt, Listing, Numbered
    <2> QED BY <2>1, <2>2
  <1>3. CASE key \in {"ending"} \X Positions
    <2>1. PICK p \in Positions : key = <<"ending", p>>
      BY <1>3
    <2>2. p \in Int /\ p > 0 /\ p # 0 /\ p \in DOMAIN ending
      BY <1>1
    <2>3. key = KeyOf(p)
      BY <2>1, <2>2 DEF KeyOf
    <2>4. ListAt(key) = ending[p]
      BY <2>1 DEF ListAt
    <2>5. \A safe \in BOOLEAN : ListAt(key)[safe] = Listing(safe)[p]
      BY <2>2, <2>4 DEF Listing, Numbered
    <2> QED BY <2>2, <2>3, <2>5
  <1>4. CASE key \in {"used"} \X DOMAIN blocks
    <2>1. PICK k \in DOMAIN blocks : key = <<"used", k>>
      BY <1>4
    <2>2. PICK l \in Int : l = -k /\ -l = k /\ l # 0 /\ ~(l > 0) /\ l \notin DOMAIN ending
      BY <1>1
    <2>3. key = KeyOf(l)
      BY <2>1, <2>2 DEF KeyOf
    <2>4. ListAt(key) = blocks[k].used
      BY <2>1 DEF ListAt
    <2>5. \A safe \in BOOLEAN : Listing(safe)[l] = blocks[k].used[safe]
      BY <2>2 DEF Listing, Numbered
    <2> QED BY <2>3, <2>4, <2>5
  <1> QED BY <1>2, <1>3, <1>4 DEF Lists

LEMMA KeyOfNumber ==
    ASSUME ProgramInv, ReuseShape, NEW l \in Int, NEW safe \in BOOLEAN, NEW j \in DOMAIN Listing(safe)[l]
    PROVE  KeyOf(l) \in Lists
  <1>1. /\ DOMAIN ending = Positions /\ Positions = 1..Len(program) /\ Len(program) \in Nat
        /\ DOMAIN blocks = 1..Len(blocks) /\ Len(blocks) \in Nat
    BY ProgramShape, LenProperties DEF ReuseShape
  <1>2. CASE l = 0
    BY <1>2 DEF KeyOf, Lists
  <1>3. CASE l \in Positions
    <2>1. l > 0 /\ l # 0
      BY <1>1, <1>3
    <2> QED BY <1>3, <2>1 DEF KeyOf, Lists
  <1>4. CASE -l \in DOMAIN blocks
    <2>1. ~(l > 0) /\ l # 0
      BY <1>1, <1>4
    <2> QED BY <1>4, <2>1 DEF KeyOf, Lists
  <1>5. CASE l # 0 /\ l \notin Positions /\ -l \notin DOMAIN blocks
    <2>1. Listing(safe)[l] = <<>>
      BY <1>1, <1>5 DEF Listing, Numbered
    <2> QED BY <2>1
  <1> QED BY <1>2, <1>3, <1>4, <1>5

(* A list is no longer than the program. *)
LEMMA ListsAreShort ==
    ASSUME NEW n \in Nat, NEW D \in SUBSET (1..n), NEW F \in [Int -> Seq(D)], OneEach(F),
           NEW l \in Int, NEW j \in DOMAIN F[l]
    PROVE  j \in 1..n
  <1>1. PICK s \in Seq(D) : s = F[l]
    OBVIOUS
  <1>2. PICK m \in Nat : m = Len(s) /\ DOMAIN s = 1..m /\ s \in [1..m -> D]
    BY LenProperties
  <1>3. s \in [1..m -> 1..n]
    BY <1>2
  <1>4. \A a, b \in 1..m : s[a] = s[b] => a = b
    <2>1. ASSUME NEW a \in 1..m, NEW b \in 1..m, s[a] = s[b] PROVE a = b
      <3>1. l \in DOMAIN F /\ a \in DOMAIN F[l] /\ b \in DOMAIN F[l] /\ F[l][a] = F[l][b]
        BY <1>1, <1>2, <2>1
      <3> QED BY <3>1, SamePlace, ZenonT(60)
    <2> QED BY <2>1
  <1>5. s \in Injection(1..m, 1..n)
    BY <1>3, <1>4 DEF Injection, IsInjective
  <1>6. IsFiniteSet(1..n) /\ Cardinality(1..n) = n /\ Cardinality(1..m) = m
    <2>1. 1 \in Int /\ m \in Int /\ n \in Int
      OBVIOUS
    <2>2. IsFiniteSet(1..n) /\ Cardinality(1..n) = IF 1 > n THEN 0 ELSE n - 1 + 1
      BY <2>1, FS_Interval, ZenonT(60)
    <2>3. Cardinality(1..m) = IF 1 > m THEN 0 ELSE m - 1 + 1
      BY <2>1, FS_Interval, ZenonT(60)
    <2>4. Cardinality(1..n) = n
      BY <2>2
    <2>5. Cardinality(1..m) = m
      BY <2>3
    <2>6. IsFiniteSet(1..n)
      BY <2>2
    <2> QED BY <2>4, <2>5, <2>6
  <1>7. Cardinality(1..m) <= Cardinality(1..n)
    BY <1>5, <1>6, FS_Injection DEF ExistsInjection
  <1> QED BY <1>1, <1>2, <1>6, <1>7

(* What is listed exactly once over the numbered lists has exactly one place. *)
LEMMA OnePlaceFollows ==
    ASSUME CompileInv
    PROVE  StorageIsInOnePlace
  <1> SUFFICES ASSUME pass = "reuse", NEW d \in Declarations, d < at, storage[d] = d
               PROVE  Cardinality(PlacesOf(d)) = 1
    BY DEF StorageIsInOnePlace
  <1>1. ProgramInv /\ ReuseShape /\ ListsInv
    BY DEF CompileInv, ReuseInv
  <1>2. Positions = 1..Len(program) /\ Len(program) \in Nat /\ Declarations \in SUBSET (1..Len(program))
    BY <1>1, ProgramShape DEF Declarations
  <1>3. PICK safe \in BOOLEAN : safe <=> d \notin unsafe
    OBVIOUS
  <1>4. \A s \in BOOLEAN : Listing(s) \in [Int -> Seq(Declarations)]
    BY <1>1, <1>2, NumberedType DEF ReuseShape, Stored, Block, Listing
  <1>5. PICK F \in [Int -> Seq(Declarations)] : F = Listing(safe) /\ OneEach(F)
    BY <1>1, <1>4 DEF ListsInv
  <1>6. PICK l \in Int : Occurs(F, l, d)
    BY <1>1, <1>3, <1>5 DEF ListsInv
  <1>7. PICK j \in DOMAIN F[l] : F[l][j] = d
    BY <1>6 DEF Occurs
  <1>8. j \in Positions
    BY <1>2, <1>5, ListsAreShort
  <1>9. KeyOf(l) \in Lists
    BY <1>1, <1>5, KeyOfNumber
  <1>10. KeyOf(l) \in Lists /\ \A s \in BOOLEAN : ListAt(KeyOf(l))[s] = Listing(s)[l]
    <2>1. PICK m \in Int : KeyOf(l) = KeyOf(m) /\ \A s \in BOOLEAN : ListAt(KeyOf(l))[s] = Listing(s)[m]
      BY <1>1, <1>9, NumberOfKey
    <2>2. m \in {l}
      BY <2>1, KeysDiffer
    <2> QED BY <1>9, <2>1, <2>2
  <1>11. <<KeyOf(l), safe, j>> \in PlacesOf(d)
    BY <1>5, <1>7, <1>8, <1>10 DEF PlacesOf
  <1>12. ASSUME NEW place \in PlacesOf(d) PROVE place = <<KeyOf(l), safe, j>>
    <2>1. PICK key \in Lists, s \in BOOLEAN, i \in Positions :
            /\ place = <<key, s, i>>
            /\ i \in DOMAIN ListAt(key)[s] /\ ListAt(key)[s][i] = d
      BY <1>12, SMTT(60) DEF PlacesOf
    <2>2. PICK m \in Int : key = KeyOf(m) /\ \A t \in BOOLEAN : ListAt(key)[t] = Listing(t)[m]
      BY <1>1, NumberOfKey
    <2>3. Occurs(Listing(s), m, d) /\ i \in DOMAIN Listing(s)[m] /\ Listing(s)[m][i] = d
      BY <2>1, <2>2 DEF Occurs
    <2>4. s <=> d \notin unsafe
      BY <1>1, <2>3 DEF ListsInv
    <2>5. s = safe
      BY <1>3, <2>4
    <2>6. i \in DOMAIN F[m] /\ F[m][i] = d
      BY <1>5, <2>3, <2>5
    <2>7. m \in DOMAIN F /\ l \in DOMAIN F /\ OneEach(F)
      BY <1>5
    <2>8. m \in {l} /\ i \in {j}
      BY <1>7, <2>6, <2>7 DEF OneEach
    <2> QED BY <2>1, <2>2, <2>5, <2>8
  <1>13. PlacesOf(d) = {<<KeyOf(l), safe, j>>}
    BY <1>11, <1>12
  <1> QED BY <1>13, FS_Singleton

(*****************************************************************************)
(* While the reuse pass runs, storage that it made is in exactly one place:  *)
(* among what ends with a statement (m_lifetime_end_per_var), among what a   *)
(* block has borrowed, or once in the free storage (m_passive_vars_map).     *)
(*****************************************************************************)
THEOREM StorageStaysInOnePlace == Spec => []StorageIsInOnePlace
  <1>1. CompileInv => StorageIsInOnePlace
    BY OnePlaceFollows
  <1> QED BY <1>1, Compiled, PTL

-----------------------------------------------------------------------------
(***************************************************************************)
(* The compiled program runs.  A variable is live before a statement when   *)
(* it is in scope and its life has not ended; the end of a loop may lead    *)
(* back, so it is live there when it was before.                            *)
(***************************************************************************)
Live(d, p) == Scoped(d, p) /\ (p <= lifeEnd[d] \/ (Is(p, "end") /\ p - 1 <= lifeEnd[d]))

LEMMA RunContext ==
    ASSUME CompileInv, pass = "run"
    PROVE  /\ Analysed /\ ProgramInv /\ Handed
           /\ Positions = 1..Len(program) /\ Len(program) \in Nat /\ Depth(Len(program)) = 0
           /\ at = Len(program) + 1 /\ unsafe \subseteq Declarations
           /\ \A p \in Positions : p < at /\ p \in Nat \ {0}
           /\ \A d \in Declarations :
                /\ d \in Positions /\ d \in Nat /\ lifeEnd[d] \in Nat
                /\ storage[d] \in Declarations
                /\ storage[d] \in unsafe <=> d \in unsafe
  <1>1. Analysed /\ ProgramInv /\ Handed /\ at = Len(program) + 1
    BY DEF CompileInv, ReuseInv, Analysed
  <1>2. Positions = 1..Len(program) /\ Len(program) \in Nat
    BY <1>1, ProgramShape
  <1>3. \A p \in Positions : p < at /\ p \in Nat \ {0}
    BY <1>1, <1>2
  <1>4. Depth(Len(program)) = 0 /\ unsafe \subseteq Declarations
    BY <1>1, ReferencesOnly DEF Analysed, AnalysisInv
  <1>5. ASSUME NEW d \in Declarations
        PROVE  /\ d \in Positions /\ d \in Nat /\ lifeEnd[d] \in Nat
               /\ storage[d] \in Declarations
               /\ storage[d] \in unsafe <=> d \in unsafe
    <2>1. d \in Positions /\ d \in Nat /\ d < at
      BY <1>3 DEF Declarations
    <2>2. lifeEnd[d] \in d..Len(program)
      BY <1>1, Lifetimes
    <2>3. lifeEnd[d] \in Nat
      BY <1>2, <2>1, <2>2
    <2> QED BY <1>1, <2>1, <2>3 DEF Handed
  <1> QED BY <1>1, <1>2, <1>3, <1>4, <1>5

(* What is live after a statement that leads to the next was live before.   *)
LEMMA LiveBefore ==
    ASSUME CompileInv, pass = "run", NEW p \in Positions, NEW d \in Declarations, d # p,
           Live(d, p + 1)
    PROVE  Scoped(d, p) /\ p <= lifeEnd[d] /\ Live(d, p)
  <1>1. ProgramInv /\ p \in Nat /\ lifeEnd[d] \in Nat
    BY RunContext
  <1>2. Scoped(d, p + 1) /\ (p + 1 <= lifeEnd[d] \/ (p + 1) - 1 <= lifeEnd[d])
    BY DEF Live
  <1>3. Scoped(d, p)
    BY <1>1, <1>2, ScopeStep
  <1>4. p <= lifeEnd[d]
    BY <1>1, <1>2
  <1> QED BY <1>3, <1>4 DEF Live

LEMMA GoesOn ==
    ASSUME CompileInv, pass = "run", NEW p \in Positions, Depth(p) > 0
    PROVE  p + 1 \in Positions /\ Depth((p + 1) - 1) > 0
  <1>1. Positions = 1..Len(program) /\ Len(program) \in Nat /\ Depth(Len(program)) = 0
    BY RunContext
  <1>2. p # Len(program)
    BY <1>1
  <1>3. p \in Nat /\ (p + 1) - 1 = p /\ p + 1 \in 1..Len(program)
    BY <1>1, <1>2
  <1> QED BY <1>1, <1>3

LEMMA StaysInBlock ==
    ASSUME CompileInv, pass = "run", NEW p \in Positions, Depth(p - 1) > 0,
           program[p].op \notin Opens \cup {"end"}
    PROVE  p + 1 \in Positions /\ Depth((p + 1) - 1) > 0
  <1>1. ProgramInv /\ p \in Nat \ {0}
    BY RunContext
  <1>2. Depth(p) = Depth(p - 1)
    BY <1>1, DepthStep
  <1> QED BY <1>2, GoesOn

LEMMA EntersBlock ==
    ASSUME CompileInv, pass = "run", NEW p \in Positions, program[p].op \in Opens
    PROVE  p + 1 \in Positions /\ Depth((p + 1) - 1) > 0
  <1>1. ProgramInv /\ p \in Nat \ {0} /\ Positions = 1..Len(program) /\ Len(program) \in Nat
    BY RunContext
  <1>2. p - 1 \in 0..Len(program)
    BY <1>1
  <1>3. Depth(p) = Depth(p - 1) + 1 /\ Depth(p - 1) \in Nat
    BY <1>1, <1>2, DepthNat, DepthStep
  <1>4. Depth(p) > 0
    BY <1>3
  <1> QED BY <1>4, GoesOn

(* Nothing is live when a callback starts. *)
LEMMA NothingLives ==
    ASSUME CompileInv, pass = "run", NEW c \in Positions, Is(c, "callback"), NEW d \in Declarations
    PROVE  ~Live(d, c + 1)
  <1> SUFFICES ASSUME Live(d, c + 1) PROVE FALSE
    OBVIOUS
  <1>1. /\ ProgramInv /\ c \in Nat \ {0} /\ Positions = 1..Len(program) /\ Len(program) \in Nat
        /\ d \in Nat
    BY RunContext
  <1>2. d # c
    BY DeclarationDepth, <1>1 DEF Is
  <1>3. Scoped(d, c) /\ d < c
    BY <1>2, LiveBefore DEF Scoped
  <1>4. c - 1 \in d..(c - 1) /\ c \in 1..(Len(program) + 1)
    BY <1>1, <1>3
  <1>5. Depth(d) <= Depth(c - 1)
    BY <1>1, <1>3, <1>4, ScopeIsDeep
  <1>6. Depth(c - 1) = 0
    BY <1>1 DEF ProgramInv
  <1>7. Depth(d) \in Nat \ {0}
    BY <1>1, DeclarationDepth
  <1> QED BY <1>5, <1>6, <1>7

(* What is live after a block that is skipped was live before it. *)
LEMMA LiveBeforeBlock ==
    ASSUME CompileInv, pass = "run", NEW p \in Positions, program[p].op \in Opens,
           NEW d \in Declarations, Live(d, BlockEnd(p) + 1)
    PROVE  Live(d, p)
  <1>1. /\ ProgramInv /\ p \in Nat \ {0} /\ Positions = 1..Len(program) /\ Len(program) \in Nat
        /\ d \in Nat /\ lifeEnd[d] \in Nat /\ Depth(Len(program)) = 0
    BY RunContext
  <1>2. PICK b \in (p + 1)..Len(program) : b = BlockEnd(p)
    BY <1>1, BlockEndProps
  <1>3. /\ Is(b, "end") /\ Depth(b) = Depth(p - 1)
        /\ \A q \in p..(b - 1) : Depth(q) >= Depth(p)
        /\ Depth(b) < Depth(p)
    BY <1>1, <1>2, BlockEndProps
  <1>4. b \in Positions /\ b \in Nat /\ p < b /\ b \in 1..(Len(program) + 1)
        /\ b + 1 \in 1..(Len(program) + 1)
    BY <1>1, <1>2
  <1>5. d # b
    BY <1>1, <1>3, DeclarationDepth DEF Is
  <1>6. Scoped(d, b) /\ b <= lifeEnd[d] /\ d < b
    BY <1>2, <1>4, <1>5, LiveBefore DEF Scoped
  <1>7. d < p
    <2>1. d # p
      BY <1>1, DeclarationDepth DEF Opens
    <2>2. ASSUME d > p PROVE FALSE
      <3>1. d \in p..(b - 1) /\ b \in d..((b + 1) - 1)
        BY <1>1, <1>4, <1>6, <2>2
      <3>2. Depth(d) >= Depth(p)
        BY <1>3, <3>1
      <3>3. Depth(d) <= Depth(b)
        <4>1. Scoped(d, b + 1)
          BY <1>2 DEF Live
        <4> QED BY <1>1, <1>4, <3>1, <4>1, ScopeIsDeep
      <3>4. Depth(d) \in Nat /\ Depth(b) \in Nat /\ Depth(p) \in Nat
        <4>1. d \in 0..Len(program) /\ b \in 0..Len(program) /\ p \in 0..Len(program)
          BY <1>1, <1>4, <1>6
        <4> QED BY <1>1, <4>1, DepthNat
      <3> QED BY <1>3, <3>2, <3>3, <3>4
    <2> QED BY <1>1, <2>1, <2>2
  <1>8. Scoped(d, p)
    <2>1. p <= b
      BY <1>1, <1>4
    <2> QED BY <1>1, <1>4, <1>6, <1>7, <2>1, ScopeNarrows
  <1>9. p <= lifeEnd[d]
    BY <1>1, <1>4, <1>6
  <1> QED BY <1>8, <1>9 DEF Live

(* What is live at the condition of a loop was live at its end. *)
LEMMA LiveInLoop ==
    ASSUME CompileInv, pass = "run", NEW p \in Positions, Is(p, "end"),
           NEW w, w = Largest(BlocksAt(p)), Is(w, "while"),
           NEW d \in Declarations, Live(d, w)
    PROVE  Live(d, p)
  <1>1. /\ Analysed /\ ProgramInv /\ p \in Nat \ {0} /\ Positions = 1..Len(program)
        /\ Len(program) \in Nat /\ d \in Nat /\ lifeEnd[d] \in Nat /\ Depth(Len(program)) = 0
    BY RunContext
  <1>2. w \in BlocksAt(p)
    BY <1>1, BlocksClose
  <1>3. /\ w \in 1..(p - 1) /\ w \in Positions /\ w \in Nat
        /\ \A q \in w..(p - 1) : Depth(q) >= Depth(w)
    BY <1>1, <1>2, BlocksAreBefore
  <1>4. BlockEnd(w) = p
    BY <1>1, EndOfInnermost
  <1>5. Scoped(d, w) /\ d < w /\ w <= lifeEnd[d]
    BY DEF Live, Scoped, Is
  <1>6. p - 1 <= lifeEnd[d]
    BY <1>1, <1>3, <1>4, <1>5, Lifetimes
  <1>7. BlocksAt(w) \subseteq BlocksAt(p)
    <2> SUFFICES ASSUME NEW o \in BlocksAt(w) PROVE o \in BlocksAt(p)
      OBVIOUS
    <2>1. /\ o \in 1..(w - 1) /\ program[o].op \in Opens
          /\ \A q \in o..(w - 1) : Depth(q) >= Depth(o)
      BY <1>3, BlocksAreBefore
    <2>2. \A q \in 0..Len(program) : Depth(q) \in Nat
      BY <1>1, DepthNat
    <2>3. Depth(w) >= Depth(o)
      <3>1. program[w].op = "while" /\ w - 1 \in o..(w - 1) /\ w \in Nat \ {0}
        BY <1>3, <2>1 DEF Is
      <3>2. Depth(w) = Depth(w - 1) + 1 /\ Depth(w - 1) >= Depth(o)
        BY <2>1, <3>1, DepthStep DEF Opens
      <3>3. Depth(o) \in Nat /\ Depth(w - 1) \in Nat
        <4>1. o \in 0..Len(program) /\ w - 1 \in 0..Len(program)
          BY <1>1, <1>3, <2>1
        <4> QED BY <2>2, <4>1
      <3> QED BY <3>2, <3>3
    <2>4. \A q \in o..(p - 1) : Depth(q) >= Depth(o)
      <3> TAKE q \in o..(p - 1)
      <3>1. CASE q \in o..(w - 1)
        BY <2>1, <3>1
      <3>2. CASE q \in w..(p - 1)
        <4>1. q \in 0..Len(program) /\ o \in 0..Len(program) /\ w \in 0..Len(program)
          BY <1>1, <1>3, <2>1
        <4>2. Depth(q) >= Depth(w)
          BY <1>3, <3>2
        <4> QED BY <2>2, <2>3, <4>1, <4>2
      <3>3. q \in o..(w - 1) \/ q \in w..(p - 1)
        BY <1>1, <1>3, <2>1
      <3> QED BY <3>1, <3>2, <3>3
    <2>5. o \in 1..(p - 1)
      BY <1>1, <1>3, <2>1
    <2> QED BY <2>1, <2>4, <2>5 DEF BlocksAt
  <1>8. Scoped(d, p)
    <2>1. d < p
      BY <1>1, <1>3, <1>5
    <2> QED BY <1>5, <1>7, <2>1 DEF Scoped
  <1> QED BY <1>6, <1>8 DEF Live

(* Two variables that are live at once have storage of their own. *)
LEMMA OneHolder ==
    ASSUME CompileInv, pass = "run", NEW p \in Positions, NEW d \in Declarations, NEW t \in Declarations,
           d # t, Scoped(d, p), p <= lifeEnd[d], t = p \/ (Scoped(t, p) /\ p <= lifeEnd[t])
    PROVE  storage[d] # storage[t]
  <1>1. /\ Analysed /\ ProgramInv /\ Handed /\ p \in Nat \ {0} /\ Positions = 1..Len(program)
        /\ Len(program) \in Nat /\ d \in Nat /\ lifeEnd[d] \in Nat /\ t \in Nat /\ lifeEnd[t] \in Nat
        /\ p < at /\ d < at /\ t < at /\ p \in 1..(Len(program) + 1)
    BY RunContext
  <1>2. d < p /\ (t < p \/ t = p)
    BY DEF Scoped
  <1>3. ASSUME NEW a \in Declarations, NEW b \in Declarations, a < b, a \in Nat, b \in Nat,
               Scoped(a, p), p <= lifeEnd[a], b <= p, b < at
        PROVE  storage[a] # storage[b]
    <2>1. Scoped(a, b)
      BY <1>1, <1>3, ScopesAreNested
    <2>2. b <= lifeEnd[a]
      <3>1. lifeEnd[a] \in Nat
        BY RunContext
      <3> QED BY <1>1, <1>3, <3>1
    <2> QED BY <1>1, <1>3, <2>1, <2>2 DEF Handed
  <1>4. CASE d < t
    <2>1. t <= p
      BY <1>1, <1>2
    <2> QED BY <1>1, <1>3, <1>4, <2>1
  <1>5. CASE t < d
    <2>1. t # p /\ d <= p
      BY <1>1, <1>2, <1>5
    <2>2. storage[t] # storage[d]
      BY <1>1, <1>3, <1>5, <2>1
    <2> QED BY <2>2
  <1>6. d < t \/ t < d
    BY <1>1
  <1> QED BY <1>4, <1>5, <1>6

-----------------------------------------------------------------------------
(* The generated variables and the history have a place for every value.   *)
MemoryShape ==
    /\ \A d \in Declarations : storage[d] \in DOMAIN memory
    /\ \A s \in DOMAIN memory : \A j \in Instances : Copy(s, j) \in DOMAIN memory[s]
    /\ DOMAIN meant = Instances
    /\ \A j \in Instances : DOMAIN meant[j] = Declarations

(* What an instance has in its live variables is what the source gave them, *)
(* and what they share with other instances is live in the one that runs.   *)
HoldsAt(j, p) ==
    \A d \in Declarations : Live(d, p) =>
        /\ memory[storage[d]][Copy(storage[d], j)] = meant[j][d]
        /\ d \notin unsafe => running = j

RunInv ==
    /\ running \in Instances \cup {None}
    /\ DOMAIN pc = Instances
    /\ running # None => pc[running] # 0
    /\ pass # "run" => running = None /\ \A j \in Instances : pc[j] = 0
    /\ pass = "run" => MemoryShape
    /\ pass = "run" => \A j \in Instances : pc[j] # 0 =>
         /\ pc[j] \in Positions /\ Depth(pc[j] - 1) > 0
         /\ ~Shadowing => HoldsAt(j, pc[j])

(* The instance that runs is at a statement in a callback. *)
LEMMA RunningAt ==
    ASSUME StorageAssumption, CompileInv, RunInv, NEW i \in Instances, NEW ops, Runs(i, ops)
    PROVE  /\ pass = "run" /\ running = i /\ program[pc[i]].op \in ops
           /\ pc[i] \in Positions /\ Depth(pc[i] - 1) > 0 /\ pc[i] # 0
  <1>1. pass = "run" /\ running = i /\ program[pc[i]].op \in ops
    BY DEF Runs
  <1>2. running # None
    BY <1>1 DEF StorageAssumption
  <1>3. pc[i] # 0
    BY <1>1, <1>2 DEF RunInv
  <1> QED BY <1>1, <1>3 DEF RunInv

(* What holds before the next statements of the instances. *)
HoldsNext ==
    \A j \in Instances : \A q \in {pc'[j]} : q # 0 =>
        /\ q \in Positions /\ Depth(q - 1) > 0
        /\ ~Shadowing => \A d \in Declarations : Live(d, q) =>
             /\ memory'[storage[d]][Copy(storage[d], j)] = meant'[j][d]
             /\ d \notin unsafe => running' = j

LEMMA RunStays ==
    ASSUME UNCHANGED program, UNCHANGED analysisVars, UNCHANGED reuseVars
    PROVE  /\ Positions' = Positions /\ Declarations' = Declarations
           /\ storage' = storage /\ unsafe' = unsafe
           /\ \A p : Depth(p)' = Depth(p)
           /\ \A d, p : Live(d, p)' <=> Live(d, p)
           /\ \A d, j : Copy(d, j)' = Copy(d, j)
  <1>1. /\ Positions' = Positions /\ Declarations' = Declarations
        /\ \A p : Depth(p)' = Depth(p)
        /\ \A d, p : Scoped(d, p)' <=> Scoped(d, p)
        /\ \A p, op : Is(p, op)' <=> Is(p, op)
    BY SameProgram
  <1>2. storage' = storage /\ unsafe' = unsafe /\ lifeEnd' = lifeEnd
    BY DEF analysisVars, reuseVars
  <1>3. \A d, j : Copy(d, j)' = Copy(d, j)
    BY <1>2 DEF Copy
  <1>4. \A d, p : Live(d, p)' <=> Live(d, p)
    BY <1>1, <1>2 DEF Live
  <1> QED BY <1>1, <1>2, <1>3, <1>4

LEMMA RunInvMade ==
    ASSUME pass = "run", UNCHANGED program, UNCHANGED pass, UNCHANGED analysisVars, UNCHANGED reuseVars,
           running' \in Instances \cup {None}, DOMAIN pc' = Instances,
           running' # None => pc'[running'] # 0, MemoryShape', HoldsNext
    PROVE  RunInv'
  <1>1. /\ Positions' = Positions /\ Declarations' = Declarations
        /\ storage' = storage /\ unsafe' = unsafe
        /\ \A p : Depth(p)' = Depth(p)
        /\ \A d, p : Live(d, p)' <=> Live(d, p)
        /\ \A d, j : Copy(d, j)' = Copy(d, j)
    BY RunStays
  <1>2. ASSUME NEW j \in Instances, NEW q \in {pc'[j]}, q # 0
        PROVE  /\ q \in Positions /\ Depth(q - 1)' > 0
               /\ ~Shadowing => HoldsAt(j, q)'
    <2>1. /\ q \in Positions /\ Depth(q - 1) > 0
          /\ ~Shadowing => \A d \in Declarations : Live(d, q) =>
               /\ memory'[storage[d]][Copy(storage[d], j)] = meant'[j][d]
               /\ d \notin unsafe => running' = j
      BY <1>2 DEF HoldsNext
    <2> QED BY <1>1, <2>1 DEF HoldsAt
  <1>3. \A j \in Instances : pc'[j] # 0 =>
          /\ pc'[j] \in Positions' /\ Depth(pc[j] - 1)' > 0
          /\ ~Shadowing => HoldsAt(j, pc[j])'
    <2> TAKE j \in Instances
    <2>1. PICK q \in {pc'[j]} : TRUE
      OBVIOUS
    <2>2. q = pc'[j]
      BY <2>1
    <2> QED BY <1>1, <1>2, <2>2
  <1> QED BY <1>3 DEF RunInv

(* A step of an instance that leaves the memory alone. *)
LEMMA MoveKeepsRun ==
    ASSUME CompileInv, RunInv, pass = "run", NEW i \in Instances, NEW q,
           UNCHANGED program, UNCHANGED pass, UNCHANGED analysisVars, UNCHANGED reuseVars,
           UNCHANGED memory,
           DOMAIN meant' = Instances,
           \A j \in Instances : DOMAIN meant'[j] = Declarations,
           \A j \in Instances : j # i \/ q # 0 => meant'[j] = meant[j],
           pc' = [pc EXCEPT ![i] = q] \/ (pc' = pc /\ q = pc[i]),
           q # 0 => q \in Positions /\ Depth(q - 1) > 0,
           running \in {i, None}, running' \in {i, None}, running' # None => q # 0,
           q # 0 => \A d \in Declarations : Live(d, q) => pc[i] # 0 /\ Live(d, pc[i]),
           running' = i \/ (q # 0 => \A d \in Declarations \ unsafe : ~Live(d, q)),
           None \notin Instances
    PROVE  RunInv'
  <1>1. /\ DOMAIN pc = Instances /\ MemoryShape
        /\ \A j \in Instances : pc[j] # 0 =>
             /\ pc[j] \in Positions /\ Depth(pc[j] - 1) > 0
             /\ ~Shadowing => HoldsAt(j, pc[j])
    BY DEF RunInv
  <1>2. DOMAIN pc' = Instances /\ pc'[i] = q /\ \A j \in Instances : j # i => pc'[j] = pc[j]
    BY <1>1
  <1>3. running' \in Instances \cup {None} /\ (running' # None => pc'[running'] # 0)
    BY <1>2
  <1>4. MemoryShape'
    <2>1. /\ Declarations' = Declarations /\ storage' = storage
          /\ \A d, j : Copy(d, j)' = Copy(d, j)
      BY RunStays
    <2> QED BY <1>1, <2>1 DEF MemoryShape
  <1>5. ASSUME NEW j \in Instances, NEW r \in {pc'[j]}, r # 0
        PROVE  /\ r \in Positions /\ Depth(r - 1) > 0
               /\ ~Shadowing => \A d \in Declarations : Live(d, r) =>
                    /\ memory'[storage[d]][Copy(storage[d], j)] = meant'[j][d]
                    /\ d \notin unsafe => running' = j
    <2>1. CASE j = i
      <3>1. r = q
        BY <1>2, <1>5, <2>1
      <3>2. r \in Positions /\ Depth(r - 1) > 0
        BY <1>5, <3>1
      <3>3. ASSUME ~Shadowing, NEW d \in Declarations, Live(d, r)
            PROVE  /\ memory'[storage[d]][Copy(storage[d], j)] = meant'[j][d]
                   /\ d \notin unsafe => running' = j
        <4>1. pc[i] # 0 /\ Live(d, pc[i])
          BY <1>5, <3>1, <3>3
        <4>2. memory[storage[d]][Copy(storage[d], i)] = meant[i][d]
          BY <1>1, <3>3, <4>1 DEF HoldsAt
        <4>3. meant'[i] = meant[i]
          BY <1>5, <3>1
        <4>4. d \notin unsafe => running' = i
          BY <1>5, <3>1, <3>3
        <4> QED BY <2>1, <4>2, <4>3, <4>4
      <3> QED BY <3>2, <3>3
    <2>2. CASE j # i
      <3>1. r = pc[j] /\ pc[j] # 0
        BY <1>2, <1>5, <2>2
      <3>2. r \in Positions /\ Depth(r - 1) > 0
        BY <1>1, <3>1
      <3>3. ASSUME ~Shadowing, NEW d \in Declarations, Live(d, r)
            PROVE  /\ memory'[storage[d]][Copy(storage[d], j)] = meant'[j][d]
                   /\ d \notin unsafe => running' = j
        <4>1. /\ memory[storage[d]][Copy(storage[d], j)] = meant[j][d]
              /\ d \notin unsafe => running = j
          BY <1>1, <3>1, <3>3 DEF HoldsAt
        <4>2. running # j
          BY <2>2
        <4>3. meant'[j] = meant[j]
          BY <2>2
        <4> QED BY <4>1, <4>2, <4>3
      <3> QED BY <3>2, <3>3
    <2> QED BY <2>1, <2>2
  <1>6. HoldsNext
    BY <1>5 DEF HoldsNext
  <1> QED BY <1>2, <1>3, <1>4, <1>6, RunInvMade

-----------------------------------------------------------------------------
(* The steps of an instance. *)
LEMMA StartInstanceKeeps ==
    ASSUME StorageAssumption, CompileInv, RunInv, NEW i \in Instances, StartInstance(i)
    PROVE  RunInv'
  <1>1. PICK c \in Positions : Is(c, "callback") /\ pc' = [pc EXCEPT ![i] = c + 1]
    BY DEF StartInstance
  <1>2. /\ pass = "run" /\ running = None /\ running' = i
        /\ UNCHANGED program /\ UNCHANGED pass /\ UNCHANGED analysisVars /\ UNCHANGED reuseVars
        /\ UNCHANGED memory /\ UNCHANGED meant
    BY DEF StartInstance
  <1>3. PICK q \in {c + 1} : q = c + 1
    OBVIOUS
  <1>4. q \in Positions /\ Depth(q - 1) > 0
    <2>1. program[c].op \in Opens
      BY <1>1 DEF Is, Opens
    <2> QED BY <1>2, <1>3, <2>1, EntersBlock
  <1>5. q # 0
    BY <1>2, <1>4, RunContext
  <1>6. \A d \in Declarations : ~Live(d, q)
    BY <1>1, <1>2, <1>3, NothingLives
  <1>7. /\ DOMAIN meant' = Instances /\ \A j \in Instances : DOMAIN meant'[j] = Declarations
    BY <1>2 DEF RunInv, MemoryShape
  <1>8. pc' = [pc EXCEPT ![i] = q] /\ None \notin Instances
    BY <1>1, <1>3 DEF StorageAssumption
  <1> QED BY <1>2, <1>4, <1>5, <1>6, <1>7, <1>8, MoveKeepsRun

(* An instance that resumes finds its unshared variables as it left them.  *)
LEMMA ResumeKeeps ==
    ASSUME StorageAssumption, CompileInv, RunInv, NEW i \in Instances, Resume(i)
    PROVE  RunInv'
  <1>1. /\ pass = "run" /\ running = None /\ running' = i /\ pc[i] # 0 /\ pc' = pc
        /\ UNCHANGED program /\ UNCHANGED pass /\ UNCHANGED analysisVars /\ UNCHANGED reuseVars
        /\ UNCHANGED memory /\ UNCHANGED meant
    BY DEF Resume
  <1>2. PICK q \in {pc[i]} : q = pc[i]
    OBVIOUS
  <1>3. q # 0 /\ q \in Positions /\ Depth(q - 1) > 0
    BY <1>1, <1>2 DEF RunInv
  <1>4. pc' = pc /\ q = pc[i] /\ None \notin Instances
    BY <1>1, <1>2 DEF StorageAssumption
  <1>5. /\ DOMAIN meant' = Instances /\ \A j \in Instances : DOMAIN meant'[j] = Declarations
    BY <1>1 DEF RunInv, MemoryShape
  <1>6. \A d \in Declarations : Live(d, q) => pc[i] # 0 /\ Live(d, pc[i])
    BY <1>1, <1>2
  <1> QED BY <1>1, <1>3, <1>4, <1>5, <1>6, MoveKeepsRun

(* Each step of an instance keeps it: a use,                               *)
LEMMA UseKeeps ==
    ASSUME StorageAssumption, CompileInv, RunInv, NEW i \in Instances, Use(i)
    PROVE  RunInv'
  <1>1. /\ pass = "run" /\ running = i /\ program[pc[i]].op \in {"use"}
        /\ pc[i] \in Positions /\ Depth(pc[i] - 1) > 0 /\ pc[i] # 0
    BY RunningAt DEF Use
  <1>2. /\ running' = running /\ pc' = [pc EXCEPT ![i] = @ + 1]
        /\ UNCHANGED program /\ UNCHANGED pass /\ UNCHANGED analysisVars /\ UNCHANGED reuseVars
        /\ UNCHANGED memory /\ UNCHANGED meant
    BY DEF Use
  <1>3. PICK p \in Positions, q \in Nat : p = pc[i] /\ q = p + 1
    BY <1>1, RunContext
  <1>4. q \in Positions /\ Depth(q - 1) > 0
    BY <1>1, <1>3, StaysInBlock DEF Opens
  <1>5. q # 0
    BY <1>1, <1>4, RunContext
  <1>6. ASSUME NEW d \in Declarations, Live(d, q) PROVE Live(d, p)
    <2>1. d # p
      BY <1>1, <1>3 DEF Declarations, Is
    <2> QED BY <1>1, <1>3, <1>6, <2>1, LiveBefore
  <1>7. /\ DOMAIN meant' = Instances /\ \A j \in Instances : DOMAIN meant'[j] = Declarations
    BY <1>1, <1>2 DEF RunInv, MemoryShape
  <1>8. pc' = [pc EXCEPT ![i] = q] /\ None \notin Instances
    BY <1>2, <1>3 DEF StorageAssumption
  <1>9. \A d \in Declarations : Live(d, q) => pc[i] # 0 /\ Live(d, pc[i])
    BY <1>1, <1>3, <1>6
  <1> QED BY <1>1, <1>2, <1>4, <1>5, <1>7, <1>8, <1>9, MoveKeepsRun

(* What instances share does not live past a wait. *)
LEMMA WaitKeeps ==
    ASSUME StorageAssumption, CompileInv, RunInv, NEW i \in Instances, Wait(i)
    PROVE  RunInv'
  <1>1. /\ pass = "run" /\ running = i /\ program[pc[i]].op \in {"wait"}
        /\ pc[i] \in Positions /\ Depth(pc[i] - 1) > 0 /\ pc[i] # 0
    BY RunningAt DEF Wait
  <1>2. /\ running' = None /\ pc' = [pc EXCEPT ![i] = @ + 1]
        /\ UNCHANGED program /\ UNCHANGED pass /\ UNCHANGED analysisVars /\ UNCHANGED reuseVars
        /\ UNCHANGED memory /\ UNCHANGED meant
    BY DEF Wait
  <1>3. PICK p \in Positions, q \in Nat : p = pc[i] /\ q = p + 1
    BY <1>1, RunContext
  <1>4. q \in Positions /\ Depth(q - 1) > 0
    BY <1>1, <1>3, StaysInBlock DEF Opens
  <1>5. q # 0
    BY <1>1, <1>4, RunContext
  <1>6. ASSUME NEW d \in Declarations, Live(d, q)
        PROVE  Live(d, p) /\ Scoped(d, p) /\ p <= lifeEnd[d]
    <2>1. d # p
      BY <1>1, <1>3 DEF Declarations, Is
    <2> QED BY <1>1, <1>3, <1>6, <2>1, LiveBefore
  <1>7. /\ DOMAIN meant' = Instances /\ \A j \in Instances : DOMAIN meant'[j] = Declarations
    BY <1>1, <1>2 DEF RunInv, MemoryShape
  <1>8. pc' = [pc EXCEPT ![i] = q] /\ None \notin Instances
    BY <1>2, <1>3 DEF StorageAssumption
  <1>9. \A d \in Declarations : Live(d, q) => pc[i] # 0 /\ Live(d, pc[i])
    BY <1>1, <1>3, <1>6
  <1>10. \A d \in Declarations \ unsafe : ~Live(d, q)
    <2>1. Is(p, "wait") /\ Analysed
      BY <1>1, <1>3, RunContext DEF Is, Positions
    <2> QED BY <1>6, <2>1, SharedDieBeforeWaits
  <1> QED BY <1>1, <1>2, <1>4, <1>5, <1>7, <1>8, <1>9, <1>10, MoveKeepsRun

(* ... a condition,                                                        *)
LEMMA BranchKeeps ==
    ASSUME StorageAssumption, CompileInv, RunInv, NEW i \in Instances, Branch(i)
    PROVE  RunInv'
  <1>1. /\ pass = "run" /\ running = i /\ program[pc[i]].op \in {"if", "while"}
        /\ pc[i] \in Positions /\ Depth(pc[i] - 1) > 0 /\ pc[i] # 0
    BY RunningAt DEF Branch
  <1>2. /\ running' = running
        /\ UNCHANGED program /\ UNCHANGED pass /\ UNCHANGED analysisVars /\ UNCHANGED reuseVars
        /\ UNCHANGED memory /\ UNCHANGED meant
    BY DEF Branch
  <1>3. PICK p \in Positions, r \in {pc[i], BlockEnd(pc[i])} :
          p = pc[i] /\ r \in {p, BlockEnd(p)} /\ pc' = [pc EXCEPT ![i] = r + 1]
    BY <1>1 DEF Branch
  <1>4. PICK q \in {r + 1} : q = r + 1
    OBVIOUS
  <1>5. program[p].op \in Opens
    BY <1>1, <1>3 DEF Opens
  <1>6. q \in Positions /\ Depth(q - 1) > 0
    <2>1. CASE r = p
      BY <1>1, <1>4, <1>5, <2>1, EntersBlock
    <2>2. CASE r = BlockEnd(p)
      <3>1. ProgramInv /\ Depth(Len(program)) = 0 /\ Positions = 1..Len(program) /\ Len(program) \in Nat
        BY <1>1, RunContext
      <3>2. r \in (p + 1)..Len(program) /\ Depth(r) = Depth(p - 1)
        BY <1>5, <2>2, <3>1, BlockEndProps
      <3>3. r \in Positions
        BY <3>1, <3>2
      <3>4. Depth(r) > 0
        BY <1>1, <1>3, <3>2
      <3> QED BY <1>1, <1>4, <3>3, <3>4, GoesOn
    <2> QED BY <1>3, <2>1, <2>2
  <1>7. q # 0
    BY <1>1, <1>6, RunContext
  <1>8. ASSUME NEW d \in Declarations, Live(d, q) PROVE Live(d, p)
    <2>1. CASE r = p
      <3>1. d # p
        BY <1>5 DEF Declarations, Is, Opens
      <3> QED BY <1>1, <1>4, <1>8, <2>1, <3>1, LiveBefore
    <2>2. CASE r = BlockEnd(p)
      BY <1>1, <1>4, <1>5, <1>8, <2>2, LiveBeforeBlock
    <2> QED BY <1>3, <2>1, <2>2
  <1>9. /\ DOMAIN meant' = Instances /\ \A j \in Instances : DOMAIN meant'[j] = Declarations
    BY <1>1, <1>2 DEF RunInv, MemoryShape
  <1>10. pc' = [pc EXCEPT ![i] = q] /\ None \notin Instances
    BY <1>3, <1>4 DEF StorageAssumption
  <1>11. \A d \in Declarations : Live(d, q) => pc[i] # 0 /\ Live(d, pc[i])
    BY <1>1, <1>3, <1>8
  <1> QED BY <1>1, <1>2, <1>6, <1>7, <1>9, <1>10, <1>11, MoveKeepsRun

(* ... and the end of a block.                                             *)
LEMMA EndKeeps ==
    ASSUME StorageAssumption, CompileInv, RunInv, NEW i \in Instances, End(i)
    PROVE  RunInv'
  <1>1. /\ pass = "run" /\ running = i /\ program[pc[i]].op \in {"end"}
        /\ pc[i] \in Positions /\ Depth(pc[i] - 1) > 0 /\ pc[i] # 0
    BY RunningAt DEF End
  <1>2. /\ UNCHANGED program /\ UNCHANGED pass /\ UNCHANGED analysisVars /\ UNCHANGED reuseVars
        /\ UNCHANGED memory
    BY DEF End
  <1>3. PICK p \in Positions, w \in {Largest(BlocksAt(pc[i]))} :
          p = pc[i] /\ w = Largest(BlocksAt(p))
    BY <1>1
  <1>4. /\ Is(p, "end") /\ ProgramInv /\ Positions = 1..Len(program) /\ Len(program) \in Nat
        /\ p \in Nat \ {0} /\ None \notin Instances
    BY <1>1, <1>3, RunContext DEF Is, Positions, StorageAssumption
  <1>5. /\ w \in Positions /\ w \in 1..(p - 1) /\ program[w].op \in Opens
        /\ Depth(w) = Depth(p - 1)
    <2>1. w \in BlocksAt(p) /\ Depth(w) = Depth(p - 1)
      BY <1>3, <1>4, BlocksClose
    <2>2. w \in 1..(p - 1) /\ program[w].op \in Opens
      BY <1>4, <2>1, BlocksAreBefore
    <2> QED BY <1>4, <2>1, <2>2
  <1>6. DOMAIN meant = Instances /\ \A j \in Instances : DOMAIN meant[j] = Declarations
    BY <1>1 DEF RunInv, MemoryShape
  <1>7. program[w].op \in {"if", "while"} => Depth(w - 1) > 0
    <2>1. w - 1 \in 0..Len(program)
      BY <1>4, <1>5
    <2>2. Depth(w - 1) \in Nat
      BY <1>4, <2>1, DepthNat
    <2>3. program[w].op \in {"if", "while"} => Depth(w - 1) # 0
      BY <1>4, <1>5 DEF ProgramInv, Is
    <2> QED BY <2>2, <2>3
  <1>8. CASE program[w].op = "callback"
    <2>1. /\ pc' = [pc EXCEPT ![i] = 0] /\ running' = None
          /\ meant' = [meant EXCEPT ![i] = [d \in Declarations |-> None]]
      BY <1>3, <1>8 DEF End
    <2>2. /\ DOMAIN meant' = Instances /\ \A j \in Instances : DOMAIN meant'[j] = Declarations
          /\ \A j \in Instances : j # i => meant'[j] = meant[j]
      BY <1>6, <2>1
    <2> QED BY <1>1, <1>2, <1>4, <2>1, <2>2, MoveKeepsRun
  <1>9. CASE program[w].op = "while"
    <2>1. pc' = [pc EXCEPT ![i] = w] /\ UNCHANGED running /\ UNCHANGED meant
      BY <1>3, <1>9 DEF End
    <2>2. Is(w, "while")
      BY <1>5, <1>9 DEF Is, Positions
    <2>3. \A d \in Declarations : Live(d, w) => pc[i] # 0 /\ Live(d, pc[i])
      BY <1>1, <1>3, <1>4, <2>2, LiveInLoop
    <2>4. Depth(w - 1) > 0 /\ w # 0
      BY <1>5, <1>7, <1>9
    <2> QED BY <1>1, <1>2, <1>4, <1>5, <1>6, <2>1, <2>3, <2>4, MoveKeepsRun
  <1>10. CASE program[w].op = "if"
    <2>1. pc' = [pc EXCEPT ![i] = p + 1] /\ UNCHANGED running /\ UNCHANGED meant
      BY <1>3, <1>10 DEF End
    <2>2. PICK q \in {p + 1} : q = p + 1
      OBVIOUS
    <2>3. q \in Positions /\ Depth(q - 1) > 0
      <3>1. Depth(p) > 0
        <4>1. Depth(p) = Depth(p - 1) - 1
          BY <1>4, DepthStep DEF Is
        <4>2. Depth(w) = Depth(w - 1) + 1 /\ Depth(w - 1) \in Int
          <5>1. w \in Nat \ {0}
            BY <1>5
          <5> QED BY <1>5, <5>1, DepthStep
        <4>3. Depth(w - 1) > 0
          BY <1>7, <1>10
        <4> QED BY <1>5, <4>1, <4>2, <4>3
      <3> QED BY <1>1, <2>2, <3>1, GoesOn
    <2>4. q # 0
      BY <1>1, <2>3, RunContext
    <2>5. \A d \in Declarations : Live(d, q) => pc[i] # 0 /\ Live(d, pc[i])
      <3> SUFFICES ASSUME NEW d \in Declarations, Live(d, q) PROVE Live(d, p)
        BY <1>1, <1>3
      <3>1. d # p
        BY <1>4 DEF Declarations, Is
      <3> QED BY <1>1, <2>2, <3>1, LiveBefore
    <2>6. pc' = [pc EXCEPT ![i] = q]
      BY <2>1, <2>2
    <2> QED BY <1>1, <1>2, <1>4, <1>6, <2>1, <2>3, <2>4, <2>5, <2>6, MoveKeepsRun
  <1> QED BY <1>5, <1>8, <1>9, <1>10 DEF Opens

-----------------------------------------------------------------------------
(* A value is written in one place of a table of tables. *)
LEMMA WrittenInPlace ==
    ASSUME NEW m, NEW s, NEW c, NEW v, NEW to, to = [m EXCEPT ![s][c] = v]
    PROVE  DOMAIN to = DOMAIN m /\ \A a \in DOMAIN m : DOMAIN to[a] = DOMAIN m[a]
  <1>1. DOMAIN to = DOMAIN m
    OBVIOUS
  <1>2. ASSUME NEW a \in DOMAIN m PROVE DOMAIN to[a] = DOMAIN m[a]
    <2>1. CASE a = s
      <3>1. to[a] = [m[a] EXCEPT ![c] = v]
        BY <2>1
      <3> QED BY <3>1
    <2>2. CASE a # s
      BY <2>2
    <2> QED BY <2>1, <2>2
  <1> QED BY <1>1, <1>2

LEMMA WrittenOnce ==
    ASSUME NEW m, NEW s \in DOMAIN m, NEW c \in DOMAIN m[s], NEW v, NEW to,
           to = [m EXCEPT ![s][c] = v]
    PROVE  /\ to[s][c] = v
           /\ \A a \in DOMAIN m : \A b \in DOMAIN m[a] : a # s \/ b # c => to[a][b] = m[a][b]
  <1>1. to[s] = [m[s] EXCEPT ![c] = v]
    OBVIOUS
  <1>2. \A a \in DOMAIN m : a # s => to[a] = m[a]
    OBVIOUS
  <1>3. to[s][c] = v
    BY <1>1
  <1>4. \A b \in DOMAIN m[s] : b # c => to[s][b] = m[s][b]
    BY <1>1
  <1> QED BY <1>2, <1>3, <1>4

(* What an assignment overwrites belongs to no other live variable. *)
LEMMA AssignKeeps ==
    ASSUME StorageAssumption, CompileInv, RunInv, NEW i \in Instances, Assign(i)
    PROVE  RunInv'
  <1>1. /\ pass = "run" /\ running = i /\ program[pc[i]].op \in {"declare", "set"}
        /\ pc[i] \in Positions /\ Depth(pc[i] - 1) > 0 /\ pc[i] # 0
    BY RunningAt DEF Assign
  <1>2. PICK p \in Positions, q \in Nat, v \in Instances \X Positions,
             t \in {IF Is(pc[i], "declare") THEN pc[i] ELSE declaration[pc[i]]},
             s \in {storage[pc[i]]}, c \in {Copy(storage[pc[i]], i)} :
            /\ p = pc[i] /\ q = p + 1 /\ v = <<i, p>>
            /\ t = IF Is(p, "declare") THEN p ELSE declaration[p]
            /\ s = storage[p] /\ c = Copy(storage[p], i)
    <2>1. PICK n \in Nat : n = pc[i] + 1
      BY <1>1, RunContext
    <2>2. <<i, pc[i]>> \in Instances \X Positions
      BY <1>1
    <2> QED BY <1>1, <2>1, <2>2
  <1>3. /\ running' = running /\ pc' = [pc EXCEPT ![i] = q]
        /\ UNCHANGED program /\ UNCHANGED pass /\ UNCHANGED analysisVars /\ UNCHANGED reuseVars
        /\ memory' = [memory EXCEPT ![s][c] = v]
        /\ meant' = [meant EXCEPT ![i][t] = v]
    BY <1>2 DEF Assign
  <1>4. /\ Analysed /\ ProgramInv /\ Handed /\ p < at /\ None \notin Instances
        /\ DOMAIN pc = Instances /\ MemoryShape
    BY <1>1, RunContext DEF RunInv, StorageAssumption
  <1>5. q \in Positions /\ Depth(q - 1) > 0 /\ q # 0
    <2>1. q \in Positions /\ Depth(q - 1) > 0
      BY <1>1, <1>2, StaysInBlock DEF Opens
    <2> QED BY <1>1, <2>1, RunContext
  <1>6. DOMAIN pc' = Instances /\ pc'[i] = q /\ \A j \in Instances : j # i => pc'[j] = pc[j]
    BY <1>3, <1>4
  (* The variable is in scope, and this statement is in its life. *)
  <1>7. /\ t \in Declarations /\ (t = p \/ (Scoped(t, p) /\ p <= lifeEnd[t]))
        /\ ~Shadowing => s = storage[t]
        /\ p \in Declarations => t = p
    <2>1. CASE program[p].op = "declare"
      <3>1. Is(p, "declare") /\ p \in Declarations /\ t = p
        BY <1>2, <2>1 DEF Declarations, Is, Positions
      <3> QED BY <1>2, <3>1
    <2>2. CASE program[p].op = "set"
      <3>1. program[p] \in Statements /\ program[p].name \in Names
        BY <1>4, <2>2, ProgramShape, StatementOps
      <3>2. IsReference(p)
        BY <2>2, <3>1 DEF IsReference, StorageAssumption
      <3>3. ~Is(p, "declare") /\ p \notin Declarations /\ t = declaration[p]
        BY <1>2, <2>2 DEF Is, Declarations
      <3>4. t \in Declarations /\ Scoped(t, p) /\ p \in DOMAIN declaration
        BY <1>4, <3>2, <3>3, Bound
      <3>5. p <= lifeEnd[t]
        BY <1>4, <3>3, <3>4, Lifetimes DEF ReferencesTo
      <3>6. ~Shadowing => s = storage[t]
        BY <1>2, <1>4, <3>2, <3>3 DEF Handed
      <3> QED BY <3>3, <3>4, <3>5, <3>6
    <2>3. program[p].op = "declare" \/ program[p].op = "set"
      BY <1>1, <1>2
    <2> QED BY <2>1, <2>2, <2>3
  <1>8. /\ DOMAIN memory' = DOMAIN memory
        /\ \A a \in DOMAIN memory : DOMAIN memory'[a] = DOMAIN memory[a]
    BY <1>3, WrittenInPlace
  <1>9. /\ DOMAIN meant' = Instances /\ \A j \in Instances : DOMAIN meant'[j] = Declarations
        /\ meant'[i][t] = v
        /\ \A j \in Instances : \A d \in Declarations : j # i \/ d # t => meant'[j][d] = meant[j][d]
    <2>1. DOMAIN meant = Instances /\ \A j \in Instances : DOMAIN meant[j] = Declarations
      BY <1>4 DEF MemoryShape
    <2>2. i \in DOMAIN meant /\ t \in DOMAIN meant[i]
      BY <1>7, <2>1
    <2>3. DOMAIN meant' = DOMAIN meant /\ \A j \in DOMAIN meant : DOMAIN meant'[j] = DOMAIN meant[j]
      BY <1>3, WrittenInPlace
    <2>4. /\ meant'[i][t] = v
          /\ \A j \in DOMAIN meant : \A d \in DOMAIN meant[j] :
               j # i \/ d # t => meant'[j][d] = meant[j][d]
      BY <1>3, <2>2, WrittenOnce
    <2> QED BY <2>1, <2>3, <2>4
  <1>10. MemoryShape'
    <2>1. /\ Declarations' = Declarations /\ storage' = storage
          /\ \A d, j : Copy(d, j)' = Copy(d, j)
      BY <1>3, RunStays
    <2> QED BY <1>4, <1>8, <1>9, <2>1 DEF MemoryShape
  <1>11. ASSUME ~Shadowing
         PROVE  /\ memory'[s][c] = v
                /\ \A a \in DOMAIN memory : \A b \in DOMAIN memory[a] :
                     a # s \/ b # c => memory'[a][b] = memory[a][b]
    <2>1. s \in DOMAIN memory /\ c \in DOMAIN memory[s]
      BY <1>2, <1>4, <1>7, <1>11 DEF MemoryShape
    <2> QED BY <1>3, <2>1, WrittenOnce
  <1>12. ASSUME ~Shadowing, NEW d \in Declarations, Live(d, q)
         PROVE  memory'[storage[d]][Copy(storage[d], i)] = meant'[i][d]
    <2>1. CASE d = t
      <3>1. storage[d] = s /\ Copy(storage[d], i) = c
        BY <1>2, <1>7, <1>12, <2>1
      <3> QED BY <1>9, <1>11, <1>12, <2>1, <3>1
    <2>2. CASE d # t
      <3>1. d # p
        BY <1>7, <2>2
      <3>2. Scoped(d, p) /\ p <= lifeEnd[d] /\ Live(d, p)
        BY <1>1, <1>2, <1>12, <3>1, LiveBefore
      <3>3. storage[d] # s
        BY <1>1, <1>7, <1>12, <2>2, <3>2, OneHolder
      <3>4. storage[d] \in DOMAIN memory /\ Copy(storage[d], i) \in DOMAIN memory[storage[d]]
        BY <1>4 DEF MemoryShape
      <3>5. memory'[storage[d]][Copy(storage[d], i)] = memory[storage[d]][Copy(storage[d], i)]
        BY <1>11, <1>12, <3>3, <3>4
      <3>6. memory[storage[d]][Copy(storage[d], i)] = meant[i][d]
        BY <1>1, <1>2, <1>12, <3>2 DEF RunInv, HoldsAt
      <3> QED BY <1>9, <2>2, <3>5, <3>6
    <2> QED BY <2>1, <2>2
  (* The variables of the other instances are not shared, or have a copy. *)
  <1>13. ASSUME ~Shadowing, NEW j \in Instances, j # i, pc[j] # 0, NEW d \in Declarations, Live(d, pc[j])
         PROVE  memory'[storage[d]][Copy(storage[d], j)] = meant'[j][d] /\ d \in unsafe
    <2>1. /\ memory[storage[d]][Copy(storage[d], j)] = meant[j][d]
          /\ d \notin unsafe => running = j
      BY <1>1, <1>13 DEF RunInv, HoldsAt
    <2>2. d \in unsafe /\ storage[d] \in unsafe
      BY <1>1, <1>13, <2>1, RunContext
    <2>3. storage[d] # s \/ Copy(storage[d], j) # c
      BY <1>2, <1>13, <2>2 DEF Copy
    <2>4. storage[d] \in DOMAIN memory /\ Copy(storage[d], j) \in DOMAIN memory[storage[d]]
      BY <1>4 DEF MemoryShape
    <2>5. memory'[storage[d]][Copy(storage[d], j)] = memory[storage[d]][Copy(storage[d], j)]
      BY <1>11, <1>13, <2>3, <2>4
    <2> QED BY <1>9, <1>13, <2>1, <2>2, <2>5
  <1>14. ASSUME NEW j \in Instances, NEW r \in {pc'[j]}, r # 0
         PROVE  /\ r \in Positions /\ Depth(r - 1) > 0
                /\ ~Shadowing => \A d \in Declarations : Live(d, r) =>
                     /\ memory'[storage[d]][Copy(storage[d], j)] = meant'[j][d]
                     /\ d \notin unsafe => running' = j
    <2>1. CASE j = i
      <3>1. r = q
        BY <1>6, <1>14, <2>1
      <3> QED BY <1>1, <1>3, <1>5, <1>12, <2>1, <3>1
    <2>2. CASE j # i
      <3>1. r = pc[j] /\ pc[j] # 0
        BY <1>6, <1>14, <2>2
      <3>2. r \in Positions /\ Depth(r - 1) > 0
        BY <1>1, <3>1 DEF RunInv
      <3> QED BY <1>13, <2>2, <3>1, <3>2
    <2> QED BY <2>1, <2>2
  <1>15. HoldsNext
    BY <1>14 DEF HoldsNext
  <1>16. running' \in Instances \cup {None} /\ (running' # None => pc'[running'] # 0)
    BY <1>1, <1>3, <1>5, <1>6
  <1> QED BY <1>1, <1>3, <1>6, <1>10, <1>15, <1>16, RunInvMade

-----------------------------------------------------------------------------
(* Before the program is compiled nothing runs. *)
LEMMA CompilingKeepsRun ==
    ASSUME RunInv, pass # "run", pass' # "run", UNCHANGED runVars
    PROVE  RunInv'
  BY DEF RunInv, runVars

(* When the program starts, no instance is under way.                      *)
LEMMA StartProgramKeepsRun ==
    ASSUME CompileInv, RunInv, StartProgram
    PROVE  RunInv'
  <1>1. /\ pass = "reuse" /\ at > Len(program) /\ pass' = "run"
        /\ UNCHANGED program /\ UNCHANGED analysisVars /\ UNCHANGED reuseVars
        /\ running' = running /\ pc' = pc
        /\ memory' = [d \in { storage[p] : p \in Declarations } |->
                        [i \in IF d \in unsafe THEN Instances ELSE {None} |-> None]]
        /\ meant' = [i \in Instances |-> [d \in Declarations |-> None]]
    BY DEF StartProgram
  <1>2. /\ running' = None /\ DOMAIN pc' = Instances
        /\ \A j \in Instances : pc'[j] = 0
    BY <1>1 DEF RunInv
  <1>3. MemoryShape'
    <2>1. /\ Declarations' = Declarations /\ storage' = storage
          /\ \A d, j : Copy(d, j)' = Copy(d, j)
      BY <1>1, RunStays
    <2>2. \A d \in Declarations : storage[d] \in DOMAIN memory'
      BY <1>1
    <2>3. ASSUME NEW s \in DOMAIN memory', NEW j \in Instances
          PROVE  Copy(s, j) \in DOMAIN memory'[s]
      <3>1. DOMAIN memory'[s] = IF s \in unsafe THEN Instances ELSE {None}
        BY <1>1, <2>3
      <3> QED BY <3>1 DEF Copy
    <2>4. DOMAIN meant' = Instances /\ \A j \in Instances : DOMAIN meant'[j] = Declarations
      BY <1>1
    <2> QED BY <2>1, <2>2, <2>3, <2>4 DEF MemoryShape
  <1> QED BY <1>1, <1>2, <1>3 DEF RunInv

LEMMA RunStarts ==
    ASSUME Init
    PROVE  RunInv
  BY DEF Init, RunInv

LEMMA RunStutters ==
    ASSUME RunInv, UNCHANGED vars
    PROVE  RunInv'
  <1>1. /\ UNCHANGED program /\ UNCHANGED pass /\ UNCHANGED analysisVars /\ UNCHANGED reuseVars
        /\ running' = running /\ pc' = pc /\ memory' = memory /\ meant' = meant
    BY DEF vars, analysisVars, reuseVars
  <1>2. CASE pass = "run"
    <2>1. /\ Declarations' = Declarations /\ storage' = storage
          /\ \A d, j : Copy(d, j)' = Copy(d, j)
      BY <1>1, RunStays
    <2>2. MemoryShape'
      BY <1>1, <1>2, <2>1 DEF RunInv, MemoryShape
    <2>3. HoldsNext
      BY <1>1, <1>2 DEF RunInv, HoldsAt, HoldsNext
    <2>4. /\ running' \in Instances \cup {None} /\ DOMAIN pc' = Instances
          /\ running' # None => pc'[running'] # 0
      BY <1>1 DEF RunInv
    <2> QED BY <1>1, <1>2, <2>2, <2>3, <2>4, RunInvMade
  <1>3. CASE pass # "run"
    BY <1>1, <1>3 DEF RunInv
  <1> QED BY <1>2, <1>3

(* The invariant of the running program is inductive, if no name is shadowed. *)
LEMMA RunKeeps ==
    ASSUME StorageAssumption, CompileInv, RunInv, Next
    PROVE  RunInv'
  <1>1. CASE Write \/ Analyse \/ EnterBlock \/ VisitDeclaration \/ VisitOther \/ LeaveBlock
    <2>1. pass # "run" /\ pass' # "run" /\ UNCHANGED runVars
      BY <1>1 DEF Write, Analyse, EnterBlock, VisitDeclaration, VisitOther, LeaveBlock
    <2> QED BY <2>1, CompilingKeepsRun
  <1>2. CASE StartProgram
    BY <1>2, StartProgramKeepsRun
  <1>3. ASSUME NEW i \in Instances, Run(i) PROVE RunInv'
    BY <1>3, StartInstanceKeeps, ResumeKeeps, AssignKeeps, UseKeeps, WaitKeeps, BranchKeeps, EndKeeps
    DEF Run
  <1> QED BY <1>1, <1>2, <1>3 DEF Next, Compile

(* What is read is live, and its storage is that of its declaration.        *)
LEMMA ReadFollows ==
    ASSUME StorageAssumption, ~Shadowing, CompileInv, RunInv
    PROVE  ReadsItsOwnValue
  <1> SUFFICES ASSUME running # None,
                      NEW p \in {pc[running]},
                      program[p].op \in {"use", "while"}, program[p].name # None
               PROVE  memory[storage[p]][Copy(storage[p], running)] = meant[running][declaration[p]]
    BY DEF ReadsItsOwnValue
  <1>1. running \in Instances /\ pc[running] # 0 /\ pass = "run"
    BY DEF RunInv
  <1>2. /\ p = pc[running] /\ p \in Positions /\ HoldsAt(running, p)
    BY <1>1 DEF RunInv
  <1>3. Analysed /\ Handed /\ p < at
    BY <1>1, <1>2, RunContext
  <1>4. IsReference(p)
    BY DEF IsReference
  <1>5. /\ declaration[p] \in Declarations /\ Scoped(declaration[p], p) /\ p \in DOMAIN declaration
    BY <1>2, <1>3, <1>4, Bound
  <1>6. p <= lifeEnd[declaration[p]]
    BY <1>3, <1>5, Lifetimes DEF ReferencesTo
  <1>7. storage[p] = storage[declaration[p]]
    BY <1>2, <1>3, <1>4 DEF Handed
  <1>8. Live(declaration[p], p)
    BY <1>5, <1>6 DEF Live
  <1> QED BY <1>2, <1>5, <1>7, <1>8 DEF HoldsAt

(*****************************************************************************)
(* In a program where no block declares a name that is visible already, an   *)
(* instance that reads a variable finds the value it gave this variable      *)
(* last, whatever instances ran between its waits and whatever storage is    *)
(* shared: by the marks of ASTThreadSafeAnalysis.h, the lifetimes of         *)
(* ASTLifeTimeAnalysis.h and the reuse of ASTVariableReuse.h together.       *)
(*****************************************************************************)
THEOREM OwnValueIsRead ==
    ASSUME ~Shadowing
    PROVE  Spec => []ReadsItsOwnValue
  <1>1. StorageAssumption
    BY StorageAssumption
  <1>2. Init => RunInv
    BY RunStarts
  <1>3. CompileInv /\ RunInv /\ [Next]_vars => RunInv'
    BY <1>1, RunKeeps, RunStutters
  <1>4. CompileInv /\ RunInv => ReadsItsOwnValue
    BY <1>1, ReadFollows
  <1> QED BY <1>2, <1>3, <1>4, Compiled, PTL DEF Spec

=============================================================================
