-------------------- MODULE StructHeapStatements_proofs ---------------------
(***************************************************************************)
(* The statements of a program: what the lowering makes of each is well     *)
(* formed, can begin, and keeps the invariant of the heap when it does.     *)
(***************************************************************************)
EXTENDS StructHeapCounts_proofs

(* Places of a program and moves between them *)

(* The places that a program writes and reads. *)
LEMMA PathsOf ==
    ASSUME NEW v \in Vars, NEW longest, NEW path \in Paths(v, longest)
    PROVE  \/ path = <<>>
           \/ \E m \in Members : path = <<m>> /\ Owner[m] = TypeOf[v]
           \/ longest # 1 /\ \E m, n \in Members :
                path = <<m, n>> /\ Owner[m] = TypeOf[v] /\ Owner[n] = TypeOf[m]
BY DEF Paths, MembersOf

(* A place of a struct is a variable of the program with a path of its      *)
(* members.                                                                 *)
LEMMA PlacesOf ==
    ASSUME NEW S \in Structs, NEW longest, NEW p \in Places(longest)[S]
    PROVE  \E v \in Vars \ Tmp : \E path \in Paths(v, longest) : p = Place(v, path) /\ PlaceType(p) = S
<1>1. p \in { q \in UNION { { Place(v, path) : path \in Paths(v, longest) } : v \in Vars \ Tmp } :
                PlaceType(q) = S }
  BY DEF Places
<1> QED BY <1>1

(* Paths are sequences of members. *)
LEMMA PathIsSeq ==
    /\ <<>> \in Seq(Members) /\ \A m \in Members : <<m>> \in Seq(Members)
    /\ \A m, n \in Members : <<m, n>> \in Seq(Members)
OBVIOUS

(* The left sides of a program's assignments are places of the program's    *)
(* variables, of at most one member.                                        *)
LEMMA TargetsAre ==
    ASSUME NEW S \in Structs, NEW p \in Targets[S]
    PROVE  /\ p.base \in Vars \ Tmp /\ p = Place(p.base, p.path) /\ p.path \in Seq(Members)
           /\ IsTarget(p) /\ PlaceType(p) = S
<1>0. PICK v \in Vars \ Tmp : \E path \in Paths(v, 1) : p = Place(v, path) /\ PlaceType(p) = S
  BY PlacesOf DEF Targets
<1>1. PICK path \in Paths(v, 1) : p = Place(v, path) /\ PlaceType(p) = S
  BY <1>0
<1>2. p.base = v /\ p.path = path
  BY <1>1 DEF Place
<1>3. path = <<>> \/ \E m \in Members : path = <<m>> /\ Owner[m] = TypeOf[v]
  BY PathsOf
<1>4. path \in Seq(Members)
  BY <1>3, PathIsSeq
<1>5. IsTarget(p)
  BY <1>2, <1>3 DEF IsTarget
<1> QED BY <1>1, <1>2, <1>4, <1>5

(* The right sides of a program's assignments are places of the program's   *)
(* variables.                                                               *)
LEMMA SourcesAre ==
    ASSUME NEW S \in Structs, NEW p \in Sources[S]
    PROVE  /\ p.base \in Vars \ Tmp /\ p = Place(p.base, p.path) /\ p.path \in Seq(Members)
           /\ IsSource(p) /\ PlaceType(p) = S /\ SourceType(p) = S
<1>0. PICK v \in Vars \ Tmp : \E path \in Paths(v, 2) : p = Place(v, path) /\ PlaceType(p) = S
  BY PlacesOf DEF Sources
<1>1. PICK path \in Paths(v, 2) : p = Place(v, path) /\ PlaceType(p) = S
  BY <1>0
<1>2. p.base = v /\ p.path = path
  BY <1>1 DEF Place
<1>3. \/ path = <<>>
      \/ \E m \in Members : path = <<m>> /\ Owner[m] = TypeOf[v]
      \/ \E m, n \in Members : path = <<m, n>> /\ Owner[m] = TypeOf[v] /\ Owner[n] = TypeOf[m]
  BY PathsOf
<1>4. path \in Seq(Members)
  BY <1>3, PathIsSeq
<1>5. SourceType(p) = S
  BY <1>1, <1>2, NamesAssumption DEF SourceType
<1> QED BY <1>1, <1>2, <1>3, <1>4, <1>5 DEF IsSource

(* The arguments of a constructor call are nil or variables of the types of *)
(* its parameters.                                                          *)
LEMMA ArgumentsAre ==
    ASSUME NEW S \in Structs, NEW args \in Arguments(S)
    PROVE  /\ DOMAIN args = DOMAIN Params[S]
           /\ \A k \in DOMAIN Params[S] :
                \/ args[k] = NilPlace
                \/ \E x \in Vars \ Tmp : args[k] = Place(x, <<>>) /\ TypeOf[x] = TypeOf[Params[S][k]]
BY DEF Arguments

-----------------------------------------------------------------------------
(* A move that is not about a new object. *)
Plain(move) == MoveOK(move) /\ ~IsNew(move) /\ move.to.base \in Vars /\ move.from.base \notin Structs

(* Moves between variables and members, without a new object, are well      *)
(* formed.                                                                  *)
LEMMA PlainMoves ==
    ASSUME NEW moves, \A k \in DOMAIN moves : Plain(moves[k]),
           \A k \in DOMAIN moves : k > 1 => moves[k].from.path = <<>>,
           \A j, k \in DOMAIN moves : moves[j].to.path # <<>> => moves[k].to.path # <<>>
    PROVE  WellFormed(moves)
<1>1. \A k \in DOMAIN moves : MoveOK(moves[k]) /\ ~IsNew(moves[k]) /\ moves[k].to.base \notin Structs
  BY NamesAssumption DEF Plain
<1>2. \A S \in Structs : \A k \in DOMAIN moves : ~UsesNew(moves[k], S)
  BY <1>1 DEF Plain, UsesNew
<1> QED BY <1>1, <1>2 DEF WellFormed

(* The parts of a move. *)
LEMMA MoveParts ==
    ASSUME NEW to, NEW from, NEW delete, NEW retain
    PROVE  LET move == Move(to, from, delete, retain)
           IN  /\ move.op = "move" /\ ~IsNew(move) /\ move.to = to /\ move.from = from
               /\ move.delete = delete /\ move.retain = retain
BY DEF Move, IsNew

(* The literal nil is a right side. *)
LEMMA NilPlaceIs == /\ NilPlace.base = None /\ NilPlace.path = <<>> /\ IsSource(NilPlace)
                    /\ NilPlace \in [base : Vars \cup Structs \cup {None}, path : Seq(Members)]
BY DEF NilPlace, Place, IsSource

(* The parts of a place. *)
LEMMA PlaceOf ==
    ASSUME NEW b, NEW path
    PROVE  Place(b, path).base = b /\ Place(b, path).path = path
BY DEF Place

(* A move of a pointer to where a program may store it. *)
LEMMA AMove ==
    ASSUME NEW to, NEW from, NEW delete \in BOOLEAN, NEW retain \in BOOLEAN,
           to.base \in Vars, to = Place(to.base, to.path), to.path \in Seq(Members), IsTarget(to),
           \/ from = NilPlace
           \/ /\ retain /\ from.base \in Vars /\ from = Place(from.base, from.path)
              /\ from.path \in Seq(Members) /\ IsSource(from) /\ PlaceType(from) = PlaceType(to)
              /\ to.path = <<>> => from.base # to.base
    PROVE  Plain(Move(to, from, delete, retain)) /\ Move(to, from, delete, retain) \in Moves
<1> DEFINE move == Move(to, from, delete, retain)
<1>1. /\ move.op = "move" /\ ~IsNew(move) /\ move.to = to /\ move.from = from
      /\ move.delete = delete /\ move.retain = retain
  BY MoveParts
<1>2. from.base \notin Structs /\ (from = NilPlace => from.base \notin Vars)
  BY NilPlaceIs, NamesAssumption
<1>3. to \in [base : Vars \cup Structs, path : Seq(Members)]
  BY DEF Place
<1>4. from \in [base : Vars \cup Structs \cup {None}, path : Seq(Members)]
  BY NilPlaceIs DEF Place
<1>5. move \in Moves
  BY <1>3, <1>4 DEF Move, Moves
<1>6. move = Move(move.to, move.from, move.delete, move.retain)
  BY <1>1
<1>7. from = NilPlace \/ SourceType(from) = PlaceType(to)
  BY <1>2 DEF SourceType
<1>8. IsSource(from)
  BY NilPlaceIs
<1> HIDE DEF move
<1>9. MoveOK(move)
  BY <1>1, <1>2, <1>5, <1>6, <1>7, <1>8 DEF MoveOK
<1> QED BY <1>1, <1>2, <1>5, <1>9 DEF Plain, move

(* A variable is a left and a right side of its own type. *)
LEMMA VariablePlace ==
    ASSUME NEW v \in Vars
    PROVE  LET p == Place(v, <<>>)
           IN  /\ p.base = v /\ p.path = <<>> /\ p = Place(p.base, p.path) /\ p.path \in Seq(Members)
               /\ IsTarget(p) /\ IsSource(p) /\ PlaceType(p) = TypeOf[v]
BY DEF Place, IsTarget, IsSource, PlaceType

-----------------------------------------------------------------------------
(* Moves of a constructor *)

(* Lists of moves *)
LEMMA OneMove ==
    ASSUME NEW move, Plain(move), move \in Moves
    PROVE  WellFormed(<<move>>) /\ <<move>> \in Seq(Moves)
<1> DEFINE moves == <<move>>
<1>1. DOMAIN moves = {1} /\ moves[1] = move /\ moves \in Seq(Moves)
  OBVIOUS
<1> HIDE DEF moves
<1>2. WellFormed(moves)
  BY <1>1, PlainMoves
<1> QED BY <1>1, <1>2 DEF moves

(* The three moves of an assignment through a temporary are well formed. *)
LEMMA ThreeMoves ==
    ASSUME NEW m1, NEW m2, NEW m3, Plain(m1), Plain(m2), Plain(m3),
           m1 \in Moves, m2 \in Moves, m3 \in Moves,
           m2.from.path = <<>>, m3.from.path = <<>>,
           m1.to.path = <<>>, m2.to.path = <<>>, m3.to.path = <<>>
    PROVE  WellFormed(<<m1, m2, m3>>) /\ <<m1, m2, m3>> \in Seq(Moves)
<1> DEFINE moves == <<m1, m2, m3>>
<1>1. /\ DOMAIN moves = {1, 2, 3} /\ moves[1] = m1 /\ moves[2] = m2 /\ moves[3] = m3
      /\ moves \in Seq(Moves)
  OBVIOUS
<1> HIDE DEF moves
<1>2. WellFormed(moves)
  <2>1. \A k \in DOMAIN moves : Plain(moves[k])
    BY <1>1
  <2>2. \A k \in DOMAIN moves : k > 1 => moves[k].from.path = <<>>
    BY <1>1
  <2>3. \A j, k \in DOMAIN moves : moves[j].to.path # <<>> => moves[k].to.path # <<>>
    BY <1>1
  <2> QED BY <2>1, <2>2, <2>3, PlainMoves
<1> QED BY <1>1, <1>2 DEF moves

(* The moves that fill a member of the new object, and that store it.       *)
Fills(move, S, i) ==
    /\ move \in Moves /\ MoveOK(move) /\ ~IsNew(move)
    /\ move.to = Place(S, <<Params[S][i]>>) /\ move.to.base = S
    /\ move.from.base \notin Structs /\ move.from.path = <<>>
    /\ move.delete

Stores(move, S) ==
    /\ move \in Moves /\ MoveOK(move) /\ ~IsNew(move)
    /\ move.to.base \in Vars /\ move.from = Place(S, <<>>)

(* A statement that makes an object: after at most one move that releases   *)
(* what it overwrites, the object, its members, and where it is stored.     *)
MakesAndStores(moves, d, S) ==
    LET n == Len(Params[S])
    IN  /\ moves \in Seq(Moves) /\ Len(moves) >= d + n + 2
        /\ moves[d + 1] = New(S)
        /\ \A j \in d + 2 .. d + n + 1 : Fills(moves[j], S, j - d - 1)
        /\ Stores(moves[d + n + 2], S)
        /\ \A j \in DOMAIN moves : j <= d \/ j > d + n + 2 =>
             Plain(moves[j]) /\ moves[j].from.path = <<>> /\ (j <= d => ~moves[j].retain)
        /\ \A j, k \in DOMAIN moves : moves[j].to.base \in Vars /\ moves[j].to.path # <<>>
             /\ moves[k].to.base \in Vars => moves[k].to.path # <<>>

(* The move that makes an object. *)
LEMMA NewParts ==
    ASSUME NEW S \in Structs
    PROVE  /\ IsNew(New(S)) /\ MoveOK(New(S)) /\ New(S) \in Moves
           /\ New(S).to = Place(S, <<>>) /\ New(S).from = NilPlace
<1>1. /\ New(S).op = "new" /\ New(S).to = Place(S, <<>>) /\ New(S).from = NilPlace
  BY DEF New
<1>2. New(S).to.base = S
  BY <1>1, PlaceOf
<1>3. IsNew(New(S)) /\ MoveOK(New(S))
  BY <1>1, <1>2 DEF IsNew, MoveOK
<1>4. Place(S, <<>>) \in [base : Vars \cup Structs, path : Seq(Members)]
  BY DEF Place
<1>5. New(S) \in Moves
  BY <1>4, NilPlaceIs DEF New, Moves
<1> QED BY <1>1, <1>3, <1>5

(* The moves of a constructor fill the members of the object at free_idx. *)
LEMMA FillParts ==
    ASSUME NEW S \in Structs, NEW args \in Arguments(S), NEW i \in 1 .. Len(Params[S]),
           NEW move, move = Move(Place(S, <<Params[S][i]>>), args[i], TRUE, TRUE)
    PROVE  Fills(move, S, i)
<1> DEFINE m == Params[S][i]
           to == Place(S, <<m>>)
           from == args[i]
<1>a. move = Move(to, from, TRUE, TRUE)
  OBVIOUS
<1>b. i \in DOMAIN Params[S]
  BY StructTypes
<1>1. m \in Members /\ Owner[m] = S
  <2>1. Params[S] \in Seq(Members) /\ Owner[Params[S][i]] = S
    BY <1>b, StructsAssumption
  <2> QED BY <2>1, <1>b
<1>0. to.base = S /\ to.path = <<m>>
  BY DEF Place
<1>2. /\ to.base = S /\ to.path = <<m>> /\ to.path # <<>> /\ Len(to.path) = 1
      /\ to.path[Len(to.path)] = m
  <2> HIDE DEF to, m
  <2> QED BY <1>0
<1>3. /\ move.op = "move" /\ ~IsNew(move) /\ move.to = to /\ move.from = from
      /\ move.delete = TRUE /\ move.retain = TRUE
  BY DEF Move, IsNew
<1>4. IsTarget(to) /\ PlaceType(to) = TypeOf[m]
  BY <1>1, <1>2 DEF IsTarget, PlaceType
<1>5. /\ from.base \notin Structs /\ from.path = <<>> /\ IsSource(from)
      /\ from = NilPlace \/ SourceType(from) = TypeOf[m]
      /\ from \in [base : Vars \cup Structs \cup {None}, path : Seq(Members)]
  <2>1. CASE from = NilPlace
    BY <2>1, NilPlaceIs, NamesAssumption
  <2>2. ASSUME NEW x \in Vars \ Tmp, from = Place(x, <<>>), TypeOf[x] = TypeOf[m]
        PROVE  /\ from.base \notin Structs /\ from.path = <<>> /\ IsSource(from)
               /\ SourceType(from) = TypeOf[m]
               /\ from \in [base : Vars \cup Structs \cup {None}, path : Seq(Members)]
    <3>1. from.base = x /\ from.path = <<>> /\ PlaceType(from) = TypeOf[x] /\ IsSource(from)
      BY <2>2, VariablePlace
    <3>2. from.base \notin Structs
      BY <3>1, NamesAssumption
    <3>3. SourceType(from) = TypeOf[m]
      BY <3>1, <3>2, <2>2 DEF SourceType
    <3>4. from \in [base : Vars \cup Structs \cup {None}, path : Seq(Members)]
      BY <2>2, PathIsSeq DEF Place
    <3> QED BY <3>1, <3>2, <3>3, <3>4
  <2>3. \/ from = NilPlace
        \/ \E x \in Vars \ Tmp : from = Place(x, <<>>) /\ TypeOf[x] = TypeOf[m]
    BY ArgumentsAre, StructTypes
  <2> QED BY <2>1, <2>2, <2>3
<1>6. to \in [base : Vars \cup Structs, path : Seq(Members)]
  BY <1>1, PathIsSeq DEF Place
<1>7. move \in Moves
  BY <1>5, <1>6 DEF Move, Moves
<1>8. S \notin Vars
  BY NamesAssumption
<1> HIDE DEF to, from
<1>9. MoveOK(move)
  BY <1>2, <1>3, <1>4, <1>5, <1>7, <1>8, <1>a DEF MoveOK
<1> QED BY <1>2, <1>3, <1>5, <1>7, <1>9 DEF to, from, Fills

(* The last move of a constructor call stores the object at free_idx. *)
LEMMA StoreParts ==
    ASSUME NEW S \in Structs, NEW to, NEW retain \in BOOLEAN,
           to.base \in Vars, to = Place(to.base, to.path), to.path \in Seq(Members), IsTarget(to),
           PlaceType(to) = S, ~retain => to.path = <<>>,
           NEW move, move = Move(to, Place(S, <<>>), FALSE, retain)
    PROVE  Stores(move, S)
<1> DEFINE from == Place(S, <<>>)
<1>a. move = Move(to, from, FALSE, retain)
  OBVIOUS
<1>1. /\ move.op = "move" /\ ~IsNew(move) /\ move.to = to /\ move.from = from
      /\ move.delete = FALSE /\ move.retain = retain
  BY DEF Move, IsNew
<1>2. from.base = S /\ from.path = <<>> /\ S \notin Vars
  BY PlaceOf, NamesAssumption
<1>3. to \in [base : Vars \cup Structs, path : Seq(Members)]
  BY DEF Place
<1>4. from \in [base : Vars \cup Structs \cup {None}, path : Seq(Members)]
  BY PathIsSeq DEF Place
<1>5. move \in Moves
  BY <1>3, <1>4 DEF Move, Moves
<1>6. IsSource(from) /\ SourceType(from) = S
  BY <1>2 DEF IsSource, SourceType
<1> HIDE DEF from
<1>7. MoveOK(move)
  BY <1>1, <1>2, <1>5, <1>6, <1>a DEF MoveOK
<1> QED BY <1>1, <1>2, <1>5, <1>7 DEF from, Stores

-----------------------------------------------------------------------------
(* Constructors *)

(* Moves that make an object, fill each of its members once and store it    *)
(* are well formed, also behind a release of what they overwrite.           *)
LEMMA ConstructorMoves ==
    ASSUME NEW moves, NEW d \in {0, 1}, NEW S \in Structs, MakesAndStores(moves, d, S)
    PROVE  WellFormed(moves)
<1> DEFINE n == Len(Params[S])
           first == d + 1
           last == d + n + 2
<1>1. /\ n \in Nat /\ moves \in Seq(Moves) /\ Len(moves) >= last /\ DOMAIN moves = 1 .. Len(moves)
      /\ first \in DOMAIN moves /\ last \in DOMAIN moves /\ first < last /\ Len(moves) \in Nat
  BY StructTypes DEF MakesAndStores
<1>2. moves[first] = New(S) /\ Stores(moves[last], S)
  BY DEF MakesAndStores
<1>3. ASSUME NEW j \in DOMAIN moves
      PROVE  \/ j < first \/ j = first \/ (j > first /\ j < last /\ j - d - 1 \in 1 .. n)
             \/ j = last \/ j > last
  BY <1>1
<1>4. ASSUME NEW j \in DOMAIN moves, j < first \/ j > last
      PROVE  Plain(moves[j]) /\ moves[j].from.path = <<>> /\ (j < first => ~moves[j].retain)
  BY <1>4, <1>1 DEF MakesAndStores
<1>5. ASSUME NEW j \in DOMAIN moves, j > first, j < last
      PROVE  /\ ~IsNew(moves[j]) /\ MoveOK(moves[j])
             /\ moves[j].to = Place(S, <<Params[S][j - d - 1]>>) /\ moves[j].to.base = S
             /\ moves[j].from.base \notin Structs /\ moves[j].from.path = <<>>
  <2>0. j \in d + 2 .. d + n + 1 /\ j - d - 1 \in 1 .. n
    <3> HIDE DEF n
    <3> QED BY <1>5, <1>1
  <2>1. Fills(moves[j], S, j - d - 1)
    BY <2>0 DEF MakesAndStores
  <2> QED BY <2>1 DEF Fills
<1>6. /\ ~IsNew(moves[last]) /\ MoveOK(moves[last]) /\ moves[last].to.base \in Vars
      /\ moves[last].from.base = S /\ moves[last].from.path = <<>>
  BY <1>2, PlaceOf DEF Stores
<1>7. /\ IsNew(moves[first]) /\ MoveOK(moves[first])
      /\ moves[first].to = Place(S, <<>>) /\ moves[first].to.base = S
      /\ moves[first].from.base = None /\ moves[first].from.path = <<>>
  BY <1>2, NewParts, PlaceOf, NilPlaceIs
<1> HIDE DEF first, last, n
<1>8. /\ \A j \in DOMAIN moves : MoveOK(moves[j]) /\ moves[j].from.path = <<>>
      /\ \A j \in DOMAIN moves : IsNew(moves[j]) <=> j = first
      /\ \A j \in DOMAIN moves : moves[j].from.base \in Structs => j = last
      /\ \A j \in DOMAIN moves : moves[j].to.base \in Structs => first <= j /\ j < last
      /\ \A j \in DOMAIN moves : j < first => ~moves[j].retain
  <2> SUFFICES ASSUME NEW j \in DOMAIN moves
      PROVE  /\ MoveOK(moves[j]) /\ moves[j].from.path = <<>>
             /\ IsNew(moves[j]) <=> j = first
             /\ moves[j].from.base \in Structs => j = last
             /\ moves[j].to.base \in Structs => first <= j /\ j < last
             /\ j < first => ~moves[j].retain
    OBVIOUS
  <2>1. first \in Nat /\ last \in Nat /\ first < last /\ j \in Nat
    BY <1>1 DEF first, last
  <2>2. CASE j < first \/ j > last
    BY <2>1, <2>2, <1>4, NamesAssumption DEF Plain
  <2>3. CASE j = first
    BY <2>1, <2>3, <1>7, NamesAssumption
  <2>4. CASE j > first /\ j < last
    <3>1. /\ ~IsNew(moves[j]) /\ MoveOK(moves[j]) /\ moves[j].to.base = S
          /\ moves[j].from.base \notin Structs /\ moves[j].from.path = <<>>
      BY <2>4, <1>5
    <3>2. first <= j /\ j # first /\ ~(j < first)
      BY <2>1, <2>4
    <3> QED BY <3>1, <3>2, <2>4
  <2>5. CASE j = last
    BY <2>1, <2>5, <1>6, NamesAssumption
  <2> QED BY <2>2, <2>3, <2>4, <2>5, <1>3
<1>9. \A R \in Structs : \A j \in DOMAIN moves : UsesNew(moves[j], R) <=> R = S /\ first <= j /\ j <= last
  <2> SUFFICES ASSUME NEW R \in Structs, NEW j \in DOMAIN moves
      PROVE  UsesNew(moves[j], R) <=> R = S /\ first <= j /\ j <= last
    OBVIOUS
  <2>1. first \in Nat /\ last \in Nat /\ first < last /\ j \in Nat
    BY <1>1 DEF first, last
  <2>2. CASE j < first \/ j > last
    BY <2>1, <2>2, <1>4, NamesAssumption DEF Plain, UsesNew
  <2>3. CASE j = first
    BY <2>1, <2>3, <1>7, NamesAssumption DEF UsesNew
  <2>4. CASE j > first /\ j < last
    <3>1. /\ ~IsNew(moves[j]) /\ MoveOK(moves[j]) /\ moves[j].to.base = S
          /\ moves[j].from.base \notin Structs /\ moves[j].from.path = <<>>
      BY <2>4, <1>5
    <3>2. first <= j /\ j # first /\ ~(j < first)
      BY <2>1, <2>4
    <3>3. j <= last
      BY <2>1, <2>4
    <3> QED BY <3>1, <3>2, <3>3 DEF UsesNew
  <2>5. CASE j = last
    BY <2>1, <2>5, <1>6, NamesAssumption DEF UsesNew
  <2> QED BY <2>2, <2>3, <2>4, <2>5, <1>3
<1>10. first \in Nat /\ last \in Nat /\ first < last /\ first \in DOMAIN moves /\ last \in DOMAIN moves
       /\ DOMAIN moves \subseteq Nat
  BY <1>1 DEF first, last
<1>11. ASSUME NEW j \in DOMAIN moves, NEW k \in DOMAIN moves,
              moves[j].to.base \in Structs, moves[j].to = moves[k].to
       PROVE  j = k
  <2>1. first <= j /\ j < last /\ first <= k /\ k < last
    BY <1>11, <1>8
  <2>2. ASSUME NEW i \in DOMAIN moves, first < i, i < last
        PROVE  /\ moves[i].to # Place(S, <<>>)
               /\ \A h \in DOMAIN moves : first < h /\ h < last /\ moves[i].to = moves[h].to => i = h
    <3>1. moves[i].to = Place(S, <<Params[S][i - d - 1]>>)
      BY <2>2, <1>5
    <3>2. moves[i].to.path = <<Params[S][i - d - 1]>> /\ Place(S, <<>>).path = <<>>
      BY <3>1, PlaceOf
    <3>3. <<Params[S][i - d - 1]>> # <<>>
      OBVIOUS
    <3>4. ASSUME NEW h \in DOMAIN moves, first < h, h < last, moves[i].to = moves[h].to PROVE i = h
      <4>1. moves[h].to = Place(S, <<Params[S][h - d - 1]>>)
        BY <3>4, <1>5
      <4>2. moves[h].to.path = <<Params[S][h - d - 1]>>
        BY <4>1, PlaceOf
      <4>3. Params[S][i - d - 1] = Params[S][h - d - 1]
        BY <4>2, <3>2, <3>4
      <4>4. i - d - 1 \in 1 .. n /\ h - d - 1 \in 1 .. n
        BY <2>2, <3>4, <1>3, <1>10, <1>1 DEF first, last
      <4>5. DOMAIN Params[S] = 1 .. n
        BY StructTypes DEF n
      <4>6. i - d - 1 = h - d - 1
        BY <4>3, <4>4, <4>5, StructsAssumption
      <4> QED BY <4>6, <1>10
    <3> QED BY <3>2, <3>3, <3>4
  <2>3. moves[first].to = Place(S, <<>>)
    BY <1>7
  <2> QED BY <2>1, <2>2, <2>3, <1>11, <1>10
<1>12. \A j, k \in DOMAIN moves : moves[j].to.base \in Vars /\ moves[j].to.path # <<>>
             /\ moves[k].to.base \in Vars => moves[k].to.path # <<>>
  BY DEF MakesAndStores
<1>13. \A j, k \in DOMAIN moves : IsNew(moves[k]) =>
         /\ IsNew(moves[j]) => j = k
         /\ j < k => ~moves[j].retain
  BY <1>8
<1>14. \A R \in Structs : \A j, k \in DOMAIN moves :
         UsesNew(moves[k], R) /\ j <= k /\ ~UsesNew(moves[j], R) =>
            \E l \in DOMAIN moves : j < l /\ IsNew(moves[l])
  <2> SUFFICES ASSUME NEW R \in Structs, NEW j \in DOMAIN moves, NEW k \in DOMAIN moves,
                      UsesNew(moves[k], R), j <= k, ~UsesNew(moves[j], R)
      PROVE  j < first
    BY <1>8, <1>10
  <2> QED BY <1>9, <1>10
<1>15. \A R \in Structs : \A j, k \in DOMAIN moves :
         /\ UsesNew(moves[j], R) /\ IsNew(moves[k]) => k <= j
         /\ UsesNew(moves[j], R) /\ moves[k].from.base = R => j <= k
  BY <1>8, <1>9
<1>16. \A R \in Structs : \A j \in DOMAIN moves :
         UsesNew(moves[j], R) => \E k \in DOMAIN moves : moves[k].from.base = R
  BY <1>6, <1>9, <1>10
<1>17. \A Q, R \in Structs : \A j, k \in DOMAIN moves :
         UsesNew(moves[j], Q) /\ UsesNew(moves[k], R) => Q = R
  BY <1>9
<1>18. \A k \in DOMAIN moves : MoveOK(moves[k]) /\ moves[k].from.path = <<>>
  BY <1>8
<1> QED BY <1>11, <1>12, <1>13, <1>14, <1>15, <1>16, <1>17, <1>18 DEF WellFormed

-----------------------------------------------------------------------------

(* A constructor makes an object, then fills its parameters in order. *)
LEMMA ConstructedIs ==
    ASSUME NEW S \in Structs, NEW args \in Arguments(S)
    PROVE  LET n == Len(Params[S])
               moves == Constructed(S, args)
           IN  /\ n \in Nat /\ moves \in Seq(Moves) /\ Len(moves) = n + 1 /\ moves[1] = New(S)
               /\ \A j \in 2 .. n + 1 : Fills(moves[j], S, j - 1)
<1> DEFINE n == Len(Params[S])
           fill == [k \in DOMAIN Params[S] |-> Move(Place(S, <<Params[S][k]>>), args[k], TRUE, TRUE)]
<1>1. n \in Nat /\ DOMAIN Params[S] = 1 .. n
  BY StructTypes
<1>2. ASSUME NEW k \in 1 .. n PROVE Fills(fill[k], S, k)
  <2>1. ASSUME NEW move, move = Move(Place(S, <<Params[S][k]>>), args[k], TRUE, TRUE)
        PROVE  Fills(move, S, k)
    BY <2>1, FillParts
  <2>2. fill[k] = Move(Place(S, <<Params[S][k]>>), args[k], TRUE, TRUE)
    BY <1>1
  <2> HIDE DEF fill
  <2> QED BY <2>1, <2>2
<1>3. fill \in [1 .. n -> Moves]
  <2>1. \A k \in 1 .. n : fill[k] \in Moves
    BY <1>2 DEF Fills
  <2>2. fill = [k \in 1 .. n |-> fill[k]]
    BY <1>1
  <2> HIDE DEF fill
  <2> QED BY <2>1, <2>2
<1>4. fill \in Seq(Moves) /\ Len(fill) = n
  <2> HIDE DEF fill
  <2> QED BY <1>1, <1>3
<1>5. <<New(S)>> \in Seq(Moves) /\ Len(<<New(S)>>) = 1 /\ <<New(S)>>[1] = New(S)
  BY NewParts
<1>6. Constructed(S, args) = <<New(S)>> \o fill
  BY DEF Constructed
<1> HIDE DEF fill, n
<1> DEFINE moves == Constructed(S, args)
<1>7. moves \in Seq(Moves) /\ Len(moves) = n + 1 /\ moves[1] = New(S)
      /\ \A j \in 2 .. n + 1 : moves[j] = fill[j - 1]
  BY <1>4, <1>5, <1>6, <1>1
<1>8. ASSUME NEW j \in 2 .. n + 1
      PROVE  Fills(moves[j], S, j - 1)
  <2>1. j - 1 \in 1 .. n
    BY <1>1
  <2> QED BY <2>1, <1>2, <1>7
<1> QED BY <1>1, <1>7, <1>8 DEF n

-----------------------------------------------------------------------------
(* Statements with a constructor call *)

(* What a program may assign to. *)
Assignable(to, S) ==
    /\ to.base \in Vars /\ to = Place(to.base, to.path) /\ to.path \in Seq(Members)
    /\ IsTarget(to) /\ PlaceType(to) = S

(* A declaration with a constructor call makes, fills and stores an object  *)
(* without a retain.                                                        *)
LEMMA NewDeclared ==
    ASSUME NEW S \in Structs, NEW args \in Arguments(S), NEW v \in Vars, TypeOf[v] = S
    PROVE  LET n == Len(Params[S])
               moves == DeclaredNew(v, S, args)
           IN  /\ MakesAndStores(moves, 0, S) /\ Len(moves) = n + 2
               /\ moves[n + 2].to = Place(v, <<>>) /\ ~moves[n + 2].retain
               /\ moves[n + 2].from = Place(S, <<>>)
<1> DEFINE n == Len(Params[S])
           made == Constructed(S, args)
           final == Move(Place(v, <<>>), Place(S, <<>>), FALSE, FALSE)
           moves == DeclaredNew(v, S, args)
<1>1. /\ n \in Nat /\ made \in Seq(Moves) /\ Len(made) = n + 1 /\ made[1] = New(S)
      /\ \A j \in 2 .. n + 1 : Fills(made[j], S, j - 1)
  BY ConstructedIs
<1>2. /\ Stores(final, S) /\ final.to = Place(v, <<>>) /\ final.to.path = <<>>
      /\ ~final.retain /\ final.from = Place(S, <<>>)
  <2>1. ASSUME NEW to, to = Place(v, <<>>), NEW retain \in BOOLEAN, ~retain,
               NEW move, move = Move(to, Place(S, <<>>), FALSE, retain)
        PROVE  Stores(move, S)
    <3>1. /\ to.base \in Vars /\ to = Place(to.base, to.path) /\ to.path \in Seq(Members)
          /\ IsTarget(to) /\ PlaceType(to) = S /\ to.path = <<>>
      BY <2>1, VariablePlace
    <3> QED BY <3>1, <2>1, StoreParts
  <2>2. Stores(final, S)
    BY <2>1
  <2>3. final.to = Place(v, <<>>) /\ final.retain = FALSE /\ final.from = Place(S, <<>>)
    BY DEF Move
  <2>4. Place(v, <<>>).path = <<>>
    BY VariablePlace
  <2> QED BY <2>2, <2>3, <2>4
<1>3. moves = made \o <<final>>
  BY DEF DeclaredNew
<1>4. final \in Moves
  BY <1>2 DEF Stores
<1> HIDE DEF n, made, final, moves
<1>5. /\ moves \in Seq(Moves) /\ Len(moves) = n + 2 /\ DOMAIN moves = 1 .. n + 2
      /\ moves[1] = New(S) /\ moves[n + 2] = final
      /\ \A j \in 2 .. n + 1 : moves[j] = made[j]
  BY <1>1, <1>3, <1>4
<1>6. \A j \in 2 .. n + 1 : Fills(moves[j], S, j - 1)
  BY <1>1, <1>5
<1>7. ASSUME NEW j \in DOMAIN moves, moves[j].to.base \in Vars
      PROVE  moves[j].to.path = <<>>
  <2>1. j = 1 \/ j \in 2 .. n + 1 \/ j = n + 2
    BY <1>5, <1>1
  <2>2. CASE j = 1
    BY <2>2, <1>5, <1>7, NewParts, PlaceOf, NamesAssumption
  <2>3. CASE j \in 2 .. n + 1
    BY <2>3, <1>6, <1>7, NamesAssumption DEF Fills
  <2> QED BY <2>1, <2>2, <2>3, <1>5, <1>2
<1>8. MakesAndStores(moves, 0, S)
  <2>1. /\ Len(moves) >= 0 + n + 2 /\ moves[0 + 1] = New(S) /\ Stores(moves[0 + n + 2], S)
        /\ \A j \in DOMAIN moves : ~(j <= 0) /\ ~(j > 0 + n + 2)
    BY <1>1, <1>2, <1>5
  <2>2. \A j \in 0 + 2 .. 0 + n + 1 : Fills(moves[j], S, j - 0 - 1)
    BY <1>1, <1>6
  <2> QED BY <2>1, <2>2, <1>5, <1>7 DEF MakesAndStores, n
<1> QED BY <1>2, <1>5, <1>8 DEF n, moves

(* An assignment of a constructor call releases its left side, makes, fills *)
(* and stores an object.                                                    *)
LEMMA NewAssigned ==
    ASSUME NEW S \in Structs, NEW args \in Arguments(S), NEW to, Assignable(to, S)
    PROVE  LET n == Len(Params[S])
               moves == AssignedNew(to, S, args)
           IN  /\ MakesAndStores(moves, 1, S) /\ Len(moves) = n + 3
               /\ moves[1].to = to /\ moves[n + 3].to = to
<1> DEFINE n == Len(Params[S])
           made == Constructed(S, args)
           final == Move(to, Place(S, <<>>), FALSE, TRUE)
           clear == Move(to, NilPlace, TRUE, FALSE)
           moves == AssignedNew(to, S, args)
<1>1. /\ n \in Nat /\ made \in Seq(Moves) /\ Len(made) = n + 1 /\ made[1] = New(S)
      /\ \A j \in 2 .. n + 1 : Fills(made[j], S, j - 1)
  BY ConstructedIs
<1>2. Stores(final, S) /\ final.to = to
  <2>1. ASSUME NEW retain \in BOOLEAN, retain, NEW move, move = Move(to, Place(S, <<>>), FALSE, retain)
        PROVE  Stores(move, S)
    BY <2>1, StoreParts DEF Assignable
  <2>2. Stores(final, S)
    BY <2>1
  <2> QED BY <2>2 DEF Move
<1>3. /\ Plain(clear) /\ clear \in Moves /\ clear.from.path = <<>> /\ ~clear.retain /\ clear.to = to
  <2>1. Plain(clear) /\ clear \in Moves
    BY AMove DEF Assignable
  <2>2. clear.from = NilPlace /\ clear.retain = FALSE /\ clear.to = to
    BY DEF Move
  <2> QED BY <2>1, <2>2, NilPlaceIs
<1>4. moves = <<clear>> \o made \o <<final>>
  BY DEF AssignedNew
<1>5. final \in Moves
  BY <1>2 DEF Stores
<1> HIDE DEF n, made, final, clear, moves
<1>6. /\ moves \in Seq(Moves) /\ Len(moves) = n + 3 /\ DOMAIN moves = 1 .. n + 3
      /\ moves[1] = clear /\ moves[2] = made[1] /\ moves[n + 3] = final
      /\ \A j \in 3 .. n + 2 : moves[j] = made[j - 1]
  <2> DEFINE front == <<clear>> \o made
  <2>1. /\ front \in Seq(Moves) /\ Len(front) = n + 2 /\ front[1] = clear
        /\ \A j \in 2 .. n + 2 : front[j] = made[j - 1]
    BY <1>1, <1>3
  <2>2. moves = front \o <<final>>
    BY <1>4
  <2> HIDE DEF front
  <2>3. /\ moves \in Seq(Moves) /\ Len(moves) = n + 3 /\ moves[n + 3] = final
        /\ \A j \in 1 .. n + 2 : moves[j] = front[j]
    BY <1>1, <1>5, <2>1, <2>2
  <2>4. moves[2] = made[1]
    BY <2>1, <2>3, <1>1
  <2> QED BY <2>1, <2>3, <2>4, <1>1
<1>7. \A j \in 3 .. n + 2 : Fills(moves[j], S, j - 1 - 1)
  <2> SUFFICES ASSUME NEW j \in 3 .. n + 2 PROVE Fills(moves[j], S, j - 1 - 1)
    OBVIOUS
  <2>1. j - 1 \in 2 .. n + 1
    BY <1>1
  <2> QED BY <2>1, <1>1, <1>6
<1>8. ASSUME NEW j \in DOMAIN moves, moves[j].to.base \in Vars
      PROVE  moves[j].to = to
  <2>1. j = 1 \/ j = 2 \/ j \in 3 .. n + 2 \/ j = n + 3
    BY <1>6, <1>1
  <2>2. CASE j = 2
    BY <2>2, <1>1, <1>6, <1>8, NewParts, PlaceOf, NamesAssumption
  <2>3. CASE j \in 3 .. n + 2
    BY <2>3, <1>7, <1>8, NamesAssumption DEF Fills
  <2> QED BY <2>1, <2>2, <2>3, <1>6, <1>2, <1>3
<1>9. MakesAndStores(moves, 1, S)
  <2>1. /\ Len(moves) >= 1 + n + 2 /\ moves[1 + 1] = New(S) /\ Stores(moves[1 + n + 2], S)
        /\ \A j \in DOMAIN moves : (j <= 1 => j = 1) /\ ~(j > 1 + n + 2)
    BY <1>1, <1>2, <1>6
  <2>2. \A j \in 1 + 2 .. 1 + n + 1 : Fills(moves[j], S, j - 1 - 1)
    BY <1>1, <1>7
  <2>3. Plain(moves[1]) /\ moves[1].from.path = <<>> /\ ~moves[1].retain
    BY <1>3, <1>6
  <2> QED BY <2>1, <2>2, <2>3, <1>6, <1>8 DEF MakesAndStores, n
<1> QED BY <1>2, <1>3, <1>6, <1>9 DEF n, moves

(* An assignment of a new object whose arguments read the target. *)
AssignedThrough(t, to, S, args) ==
    DeclaredNew(t, S, args) \o <<Move(to, Place(t, <<>>), TRUE, TRUE)>> \o LeftScope(t)

(* An assignment of a constructor call that reads its left side stores the  *)
(* object in a temporary, assigns that, and releases it.                    *)
LEMMA NewThroughTemporary ==
    ASSUME NEW S \in Structs, NEW args \in Arguments(S), NEW to, Assignable(to, S), to.path = <<>>,
           NEW t \in Vars, TypeOf[t] = S, to.base # t
    PROVE  LET n == Len(Params[S])
               moves == AssignedThrough(t, to, S, args)
           IN  /\ MakesAndStores(moves, 0, S) /\ Len(moves) = n + 4
               /\ moves[n + 2].to = Place(t, <<>>) /\ ~moves[n + 2].retain
               /\ moves[n + 2].from = Place(S, <<>>)
               /\ moves[n + 3].to = to /\ moves[n + 3].from = Place(t, <<>>) /\ moves[n + 3].delete
               /\ moves[n + 4] = Release(t)
<1> DEFINE n == Len(Params[S])
           made == DeclaredNew(t, S, args)
           assign == Move(to, Place(t, <<>>), TRUE, TRUE)
           moves == AssignedThrough(t, to, S, args)
<1>1. /\ MakesAndStores(made, 0, S) /\ Len(made) = n + 2 /\ n \in Nat
      /\ made[n + 2].to = Place(t, <<>>) /\ ~made[n + 2].retain
      /\ made[n + 2].from = Place(S, <<>>)
  BY NewDeclared, StructTypes
<1>2. LeftScope(t) = <<Release(t)>>
  BY DEF LeftScope, Release
<1>3. /\ Plain(assign) /\ assign \in Moves /\ assign.from.path = <<>> /\ assign.to = to
      /\ assign.from = Place(t, <<>>) /\ assign.delete
  <2>1. Plain(assign) /\ assign \in Moves
    <3>1. ASSUME NEW from, from = Place(t, <<>>)
          PROVE  Plain(Move(to, from, TRUE, TRUE)) /\ Move(to, from, TRUE, TRUE) \in Moves
      <4>1. /\ from.base \in Vars /\ from = Place(from.base, from.path)
            /\ from.path \in Seq(Members) /\ IsSource(from) /\ PlaceType(from) = PlaceType(to)
            /\ from.base # to.base
        BY <3>1, VariablePlace DEF Assignable
      <4> QED BY <4>1, AMove DEF Assignable
    <3> QED BY <3>1
  <2>2. assign.from = Place(t, <<>>) /\ assign.to = to /\ assign.delete = TRUE
    BY DEF Move
  <2> QED BY <2>1, <2>2, VariablePlace
<1>4. /\ Plain(Release(t)) /\ Release(t) \in Moves /\ Release(t).from.path = <<>>
      /\ Release(t).to = Place(t, <<>>)
  <2>1. Plain(Release(t)) /\ Release(t) \in Moves
    <3>1. ASSUME NEW p, p = Place(t, <<>>)
          PROVE  Plain(Move(p, NilPlace, TRUE, FALSE)) /\ Move(p, NilPlace, TRUE, FALSE) \in Moves
      BY <3>1, VariablePlace, AMove
    <3> QED BY <3>1 DEF Release
  <2>2. Release(t).from = NilPlace /\ Release(t).to = Place(t, <<>>)
    BY DEF Move, Release
  <2> QED BY <2>1, <2>2, NilPlaceIs
<1>5. moves = made \o <<assign>> \o <<Release(t)>>
  BY <1>2 DEF AssignedThrough
<1>6. made \in Seq(Moves) /\ Place(t, <<>>).path = <<>>
  BY <1>1, VariablePlace DEF MakesAndStores
<1> HIDE DEF n, made, assign, moves
<1>7. /\ moves \in Seq(Moves) /\ Len(moves) = n + 4 /\ DOMAIN moves = 1 .. n + 4
      /\ DOMAIN made = 1 .. n + 2
      /\ \A j \in 1 .. n + 2 : moves[j] = made[j]
      /\ moves[n + 3] = assign /\ moves[n + 4] = Release(t)
  BY <1>1, <1>3, <1>4, <1>5, <1>6
<1>8. \A j \in DOMAIN moves : j \in DOMAIN made \/ j = n + 3 \/ j = n + 4
  BY <1>7, <1>1
<1>9. ASSUME NEW j \in DOMAIN moves, moves[j].to.base \in Vars
      PROVE  moves[j].to.path = <<>>
  <2>1. CASE j \in DOMAIN made
    <3>1. moves[j] = made[j] /\ n + 2 \in DOMAIN made /\ made[n + 2].to.base = t
      BY <2>1, <1>7, <1>1, PlaceOf
    <3>2. made[n + 2].to.path = <<>>
      BY <1>1, <1>6
    <3> QED BY <3>1, <3>2, <2>1, <1>9, <1>1 DEF MakesAndStores
  <2> QED BY <2>1, <1>8, <1>7, <1>3, <1>4, <1>6
<1>10. MakesAndStores(moves, 0, S)
  <2>1. /\ Len(made) >= 0 + n + 2 /\ made[0 + 1] = New(S) /\ Stores(made[0 + n + 2], S)
        /\ \A j \in 0 + 2 .. 0 + n + 1 : Fills(made[j], S, j - 0 - 1)
    BY <1>1 DEF MakesAndStores, n
  <2>2. /\ Len(moves) >= 0 + n + 2 /\ moves[0 + 1] = New(S) /\ Stores(moves[0 + n + 2], S)
        /\ \A j \in 0 + 2 .. 0 + n + 1 : Fills(moves[j], S, j - 0 - 1)
    BY <2>1, <1>1, <1>7
  <2>3. ASSUME NEW j \in DOMAIN moves, j <= 0 \/ j > 0 + n + 2
        PROVE  Plain(moves[j]) /\ moves[j].from.path = <<>> /\ ~(j <= 0)
    <3>1. (j = n + 3 \/ j = n + 4) /\ ~(j <= 0)
      BY <2>3, <1>1, <1>7
    <3> QED BY <3>1, <1>3, <1>4, <1>7
  <2> QED BY <2>2, <2>3, <1>7, <1>9 DEF MakesAndStores, n
<1>11. moves[n + 2].to = Place(t, <<>>) /\ ~moves[n + 2].retain /\ moves[n + 2].from = Place(S, <<>>)
  <2>1. n + 2 \in 1 .. n + 2
    BY <1>1
  <2> QED BY <2>1, <1>1, <1>7
<1> QED BY <1>3, <1>7, <1>10, <1>11 DEF n, moves, made, assign

-----------------------------------------------------------------------------
(* Statements that can begin *)

(* A statement that may begin in this state. *)
Starts(moves) ==
    /\ moves \in Seq(Moves) /\ moves # <<>> /\ WellFormed(moves)
    /\ \/ \E k \in DOMAIN moves : IsNew(moves[k])
       \/ \A S \in Structs : \A k \in DOMAIN moves : ~UsesNew(moves[k], S)
    /\ \A k \in DOMAIN moves :
         /\ moves[k].to.base \in Vars /\ moves[k].to.path # <<>> => env[moves[k].to.base] # Nil
         /\ IsNew(moves[k]) => HasFreeSlot(moves[k].to.base)
    /\ ~IsNew(moves[1]) => Reachable(moves[1].from)
    /\ \A t \in Tmp : \A k \in DOMAIN moves : moves[k].to = Place(t, <<>>) =>
         \E j \in DOMAIN moves : j >= k /\ moves[j] = Release(t)
    /\ ~Overlaps /\ ~IsNew(moves[1]) /\ moves[1].retain =>
         Cell(moves[1].to) \notin CellsRead(moves[1].from)

LosesNothing(moves) ==
    \A k \in DOMAIN moves :
        /\ ~IsNew(moves[k]) /\ ~moves[k].delete =>
             /\ moves[k].to.path = <<>> /\ env[moves[k].to.base] = Nil
             /\ \A j \in DOMAIN moves : j < k => moves[j].to # moves[k].to
        /\ moves[k].from.base \in Structs => ~moves[k].retain

(* A single move between variables and members can begin. *)
LEMMA OneStarts ==
    ASSUME NEW move, Plain(move), move \in Moves, move.to.base \in Vars \ Tmp,
           move.to.path # <<>> => env[move.to.base] # Nil,
           Reachable(move.from),
           ~Overlaps /\ move.retain => Cell(move.to) \notin CellsRead(move.from)
    PROVE  /\ Starts(<<move>>)
           /\ move.delete \/ (move.to.path = <<>> /\ env[move.to.base] = Nil) => LosesNothing(<<move>>)
<1> DEFINE moves == <<move>>
<1>1. WellFormed(moves) /\ moves \in Seq(Moves)
  BY OneMove
<1>2. DOMAIN moves = {1} /\ moves[1] = move /\ moves # <<>>
  OBVIOUS
<1>3. ~IsNew(move) /\ move.from.base \notin Structs /\ \A S \in Structs : ~UsesNew(move, S)
  BY NamesAssumption DEF Plain, UsesNew
<1>4. \A t \in Tmp : move.to # Place(t, <<>>)
  BY PlaceOf
<1> HIDE DEF moves
<1>5. Starts(moves)
  BY <1>1, <1>2, <1>3, <1>4 DEF Starts
<1>6. move.delete \/ (move.to.path = <<>> /\ env[move.to.base] = Nil) => LosesNothing(moves)
  BY <1>2, <1>3 DEF LosesNothing
<1> QED BY <1>5, <1>6 DEF moves

(* A place that dereferences no nil has an object in its variable. *)
LEMMA ReachableTarget ==
    ASSUME NEW p, p.base \in Vars, Reachable(p)
    PROVE  p.path # <<>> => env[p.base] # Nil
BY BaseValueOf DEF Reachable

(* A variable alone dereferences nothing and is read in one cell. *)
LEMMA ShortReachable ==
    ASSUME NEW p, p.path = <<>>
    PROVE  Reachable(p) /\ CellsRead(p) = {<<p.base, Nil>>} /\ Cell(p) = <<p.base, Nil>>
<1>1. Len(p.path) # 2
  OBVIOUS
<1> QED BY <1>1 DEF Reachable, CellsRead, Cell

(* A variable is read for a source only as its base. *)
LEMMA ReadsVariable ==
    ASSUME NEW p, IsSource(p), NEW v \in Vars, <<v, Nil>> \in CellsRead(p)
    PROVE  p.base = v
<1>1. CASE p.path = <<>>
  BY <1>1, ShortReachable
<1>2. ASSUME NEW m \in Members, p.path = <<m>> PROVE FALSE
  <2>1. p.path # <<>> /\ Len(p.path) = 1 /\ p.path[Len(p.path)] = m
    BY <1>2
  <2>2. CellsRead(p) = {<<m, Index(p)>>}
    BY <2>1 DEF CellsRead, Cell
  <2> QED BY <2>2, NamesAssumption
<1>3. ASSUME NEW m \in Members, NEW n \in Members, p.path = <<m, n>> PROVE FALSE
  <2>1. p.path # <<>> /\ Len(p.path) = 2 /\ p.path[Len(p.path)] = n /\ p.path[1] = m
    BY <1>3
  <2>2. CellsRead(p) = {<<n, Index(p)>>, <<m, BaseValue(p.base)>>}
    BY <2>1 DEF CellsRead, Cell
  <2> QED BY <2>2, NamesAssumption
<1> QED BY <1>1, <1>2, <1>3, NilPlaceIs DEF IsSource

-----------------------------------------------------------------------------

(* An assignment of nil can begin. *)
LEMMA ClearStarts ==
    ASSUME NEW S \in Structs, NEW to \in Targets[S], Reachable(to)
    PROVE  Starts(Cleared(to))
<1> DEFINE move == Move(to, NilPlace, FALSE, FALSE)
<1>1. /\ to.base \in Vars \ Tmp /\ to = Place(to.base, to.path) /\ to.path \in Seq(Members)
      /\ IsTarget(to)
  BY TargetsAre
<1>2. Plain(move) /\ move \in Moves
  BY <1>1, AMove
<1>3. move.to = to /\ move.from = NilPlace /\ move.retain = FALSE
  BY DEF Move
<1>4. to.path # <<>> => env[to.base] # Nil
  BY <1>1, ReachableTarget
<1>5. Reachable(NilPlace)
  BY NilPlaceIs, ShortReachable
<1> HIDE DEF move
<1>6. Starts(<<move>>)
  BY <1>1, <1>2, <1>3, <1>4, <1>5, OneStarts
<1> QED BY <1>6 DEF Cleared, move

(* The end of a scope can begin, and loses nothing. *)
LEMMA LeaveStarts ==
    ASSUME NEW v \in Vars \ Tmp
    PROVE  Starts(LeftScope(v)) /\ LosesNothing(LeftScope(v))
<1> DEFINE to == Place(v, <<>>)
           move == Move(to, NilPlace, TRUE, FALSE)
<1>1. /\ to.base = v /\ to = Place(to.base, to.path) /\ to.path \in Seq(Members)
      /\ IsTarget(to) /\ to.path = <<>>
  BY VariablePlace
<1>2. move.to = to /\ move.from = NilPlace /\ move.retain = FALSE /\ move.delete = TRUE
  BY DEF Move
<1> HIDE DEF to
<1>3. Plain(move) /\ move \in Moves
  BY <1>1, AMove
<1>5. Reachable(NilPlace)
  BY NilPlaceIs, ShortReachable
<1> HIDE DEF move
<1>6. Starts(<<move>>) /\ LosesNothing(<<move>>)
  BY <1>1, <1>2, <1>3, <1>5, OneStarts
<1> QED BY <1>6 DEF LeftScope, move, to

(* A declaration from an object can begin, and loses nothing. *)
LEMMA DeclareStarts ==
    ASSUME NEW S \in Structs, NEW v \in Vars \ Tmp, TypeOf[v] = S, env[v] = Nil,
           NEW from \in Sources[S], Reachable(from), from.base # v
    PROVE  Starts(Declared(v, from)) /\ LosesNothing(Declared(v, from))
<1> DEFINE to == Place(v, <<>>)
           move == Move(to, from, FALSE, TRUE)
<1>1. /\ to.base = v /\ to = Place(to.base, to.path) /\ to.path \in Seq(Members)
      /\ IsTarget(to) /\ to.path = <<>> /\ PlaceType(to) = S
  BY VariablePlace
<1>2. /\ from.base \in Vars /\ from = Place(from.base, from.path) /\ from.path \in Seq(Members)
      /\ IsSource(from) /\ PlaceType(from) = S
  BY SourcesAre
<1>3. move.to = to /\ move.from = from /\ move.retain = TRUE /\ move.delete = FALSE
  BY DEF Move
<1> HIDE DEF to
<1>4. Plain(move) /\ move \in Moves
  BY <1>1, <1>2, AMove
<1>5. Cell(to) \notin CellsRead(from)
  <2>1. Cell(to) = <<v, Nil>>
    BY <1>1, ShortReachable
  <2> QED BY <2>1, <1>2, ReadsVariable
<1> HIDE DEF move
<1>6. Starts(<<move>>) /\ LosesNothing(<<move>>)
  BY <1>1, <1>3, <1>4, <1>5, OneStarts
<1> QED BY <1>6 DEF Declared, move, to

-----------------------------------------------------------------------------
(* Assignments and constructor calls that can begin *)

(* An assignment, through a temporary or not, can begin, and loses nothing. *)
LEMMA AssignStarts ==
    ASSUME NEW S \in Structs, NEW to \in Targets[S], Reachable(to),
           NEW from \in Sources[S], Reachable(from),
           Overlaps \/ to.path = <<>> \/ Cell(to) \notin CellsRead(from),
           NEW t \in Tmp, TypeOf[t] = S, env[t] = Nil
    PROVE  Starts(Assigned(to, from, t)) /\ LosesNothing(Assigned(to, from, t))
<1>1. /\ to.base \in Vars \ Tmp /\ to = Place(to.base, to.path) /\ to.path \in Seq(Members)
      /\ IsTarget(to) /\ PlaceType(to) = S
  BY TargetsAre
<1>2. /\ from.base \in Vars \ Tmp /\ from = Place(from.base, from.path) /\ from.path \in Seq(Members)
      /\ IsSource(from) /\ PlaceType(from) = S
  BY SourcesAre
<1>3. CASE ~ReadsTarget(to, from)
  <2> DEFINE move == Move(to, from, TRUE, TRUE)
  <2>1. to.path = <<>> => from.base # to.base
    BY <1>3 DEF ReadsTarget
  <2>2. Plain(move) /\ move \in Moves
    BY <1>1, <1>2, <2>1, AMove
  <2>3. move.to = to /\ move.from = from /\ move.retain = TRUE /\ move.delete = TRUE
    BY DEF Move
  <2>4. to.path # <<>> => env[to.base] # Nil
    BY <1>1, ReachableTarget
  <2>5. ~Overlaps => Cell(to) \notin CellsRead(from)
    <3>1. CASE to.path = <<>>
      <4>1. Cell(to) = <<to.base, Nil>>
        BY <3>1, ShortReachable
      <4> QED BY <4>1, <2>1, <3>1, <1>1, <1>2, ReadsVariable
    <3> QED BY <3>1
  <2> HIDE DEF move
  <2>6. Starts(<<move>>) /\ LosesNothing(<<move>>)
    BY <1>1, <2>2, <2>3, <2>4, <2>5, OneStarts
  <2>7. Assigned(to, from, t) = <<move>>
    BY <1>3 DEF Assigned, move
  <2> QED BY <2>6, <2>7
<1>4. CASE ReadsTarget(to, from)
  <2> DEFINE tmp == Place(t, <<>>)
             m1 == Move(tmp, from, FALSE, TRUE)
             m2 == Move(to, tmp, TRUE, TRUE)
             m3 == Move(tmp, NilPlace, TRUE, FALSE)
             moves == <<m1, m2, m3>>
  <2>1. to.path = <<>> /\ from.base = to.base
    BY <1>4 DEF ReadsTarget
  <2>2. /\ tmp.base = t /\ tmp.path = <<>> /\ tmp = Place(tmp.base, tmp.path) /\ tmp.path \in Seq(Members)
        /\ IsTarget(tmp) /\ IsSource(tmp) /\ PlaceType(tmp) = S /\ t \in Vars
    BY VariablePlace, StructsAssumption
  <2>3. /\ m1.to = tmp /\ m1.from = from /\ m1.retain = TRUE /\ m1.delete = FALSE
        /\ m2.to = to /\ m2.from = tmp /\ m2.retain = TRUE /\ m2.delete = TRUE
        /\ m3.to = tmp /\ m3.from = NilPlace /\ m3.retain = FALSE /\ m3.delete = TRUE
    BY DEF Move
  <2>4. m3 = Release(t)
    BY DEF Release
  <2> HIDE DEF tmp
  <2>5. Plain(m1) /\ m1 \in Moves
    BY <1>2, <2>2, AMove
  <2>6. Plain(m2) /\ m2 \in Moves
    BY <1>1, <2>2, AMove
  <2>7. Plain(m3) /\ m3 \in Moves
    BY <2>2, AMove
  <2> HIDE DEF m1, m2, m3
  <2>8. WellFormed(moves) /\ moves \in Seq(Moves)
    BY <2>1, <2>2, <2>3, <2>5, <2>6, <2>7, NilPlaceIs, ThreeMoves
  <2>9. DOMAIN moves = {1, 2, 3} /\ moves[1] = m1 /\ moves[2] = m2 /\ moves[3] = m3 /\ moves # <<>>
    OBVIOUS
  <2> HIDE DEF moves
  <2>10. \A k \in DOMAIN moves : Plain(moves[k]) /\ moves[k].to.path = <<>>
    BY <2>1, <2>2, <2>3, <2>5, <2>6, <2>7, <2>9
  <2>11. \A k \in DOMAIN moves : ~IsNew(moves[k]) /\ moves[k].from.base \notin Structs
                                 /\ \A R \in Structs : ~UsesNew(moves[k], R)
    BY <2>10, NamesAssumption DEF Plain, UsesNew
  <2>12. Cell(tmp) \notin CellsRead(from)
    <3>1. Cell(tmp) = <<t, Nil>>
      BY <2>2, ShortReachable
    <3> QED BY <3>1, <2>2, <1>2, ReadsVariable
  <2>13. \A u \in Tmp : \A k \in DOMAIN moves : moves[k].to = Place(u, <<>>) =>
            \E j \in DOMAIN moves : j >= k /\ moves[j] = Release(u)
    <3> SUFFICES ASSUME NEW u \in Tmp, NEW k \in DOMAIN moves, moves[k].to = Place(u, <<>>)
                 PROVE  u = t
      BY <2>4, <2>9
    <3>1. moves[k].to.base = u
      BY PlaceOf
    <3> QED BY <3>1, <2>9, <2>3, <2>2, <1>1
  <2>14. Starts(moves)
    BY <2>3, <2>8, <2>9, <2>10, <2>11, <2>12, <2>13 DEF Starts
  <2>15. LosesNothing(moves)
    BY <2>2, <2>3, <2>9, <2>11 DEF LosesNothing
  <2>16. Assigned(to, from, t) = moves
    BY <1>4 DEF Assigned, moves, m1, m2, m3, tmp
  <2> QED BY <2>14, <2>15, <2>16
<1> QED BY <1>3, <1>4

-----------------------------------------------------------------------------

(* A statement with a constructor call can begin when a slot is free. *)
LEMMA ObjectStarts ==
    ASSUME NEW moves, NEW d \in {0, 1}, NEW S \in Structs, MakesAndStores(moves, d, S),
           HasFreeSlot(S),
           \A k \in DOMAIN moves :
             moves[k].to.base \in Vars /\ moves[k].to.path # <<>> => env[moves[k].to.base] # Nil,
           \A t \in Tmp : \A k \in DOMAIN moves : moves[k].to = Place(t, <<>>) =>
             \E j \in DOMAIN moves : j >= k /\ moves[j] = Release(t)
    PROVE  Starts(moves)
<1> DEFINE n == Len(Params[S])
<1>1. /\ n \in Nat /\ moves \in Seq(Moves) /\ Len(moves) >= d + n + 2 /\ moves[d + 1] = New(S)
  BY StructTypes DEF MakesAndStores
<1>2. /\ d + 1 \in DOMAIN moves /\ 1 \in DOMAIN moves /\ moves # <<>>
  <2> HIDE DEF n
  <2> QED BY <1>1
<1>3. WellFormed(moves)
  BY ConstructorMoves
<1>4. IsNew(moves[d + 1]) /\ moves[d + 1].to.base = S
  BY <1>1, NewParts, PlaceOf
<1>5. ASSUME NEW k \in DOMAIN moves, IsNew(moves[k]) PROVE HasFreeSlot(moves[k].to.base)
  <2>1. k = d + 1
    BY <1>2, <1>3, <1>4, <1>5 DEF WellFormed
  <2> QED BY <2>1, <1>4
<1>6. CASE d = 0
  <2>1. IsNew(moves[1])
    BY <1>4, <1>6
  <2> QED BY <2>1, <1>1, <1>2, <1>3, <1>5 DEF Starts
<1>7. CASE d = 1
  <2>1. moves[1].from.path = <<>> /\ ~moves[1].retain
    BY <1>2, <1>7 DEF MakesAndStores
  <2>2. Reachable(moves[1].from)
    BY <2>1, ShortReachable
  <2> QED BY <2>1, <2>2, <1>1, <1>2, <1>3, <1>4, <1>5 DEF Starts
<1> QED BY <1>6, <1>7

(* An assignment of a constructor call can begin. *)
LEMMA AssignNewStarts ==
    ASSUME NEW S \in Structs, NEW to \in Targets[S], Reachable(to), NEW args \in Arguments(S),
           HasFreeSlot(S)
    PROVE  Starts(AssignedNew(to, S, args))
<1> DEFINE n == Len(Params[S])
           moves == AssignedNew(to, S, args)
<1>1. to.base \in Vars \ Tmp /\ Assignable(to, S)
  BY TargetsAre DEF Assignable
<1>2. /\ MakesAndStores(moves, 1, S) /\ Len(moves) = n + 3 /\ n \in Nat
      /\ moves[1].to = to /\ moves[n + 3].to = to
  BY <1>1, NewAssigned, StructTypes
<1> HIDE DEF moves, n
<1>3. ASSUME NEW k \in DOMAIN moves
      PROVE  moves[k].to = to \/ moves[k].to.base = S
  <2>1. k = 1 \/ k = 2 \/ k \in 3 .. n + 2 \/ k = n + 3
    BY <1>2 DEF MakesAndStores
  <2>2. CASE k = 2
    <3>1. moves[1 + 1] = New(S)
      BY <1>2 DEF MakesAndStores
    <3> QED BY <2>2, <3>1, NewParts, PlaceOf
  <2>3. CASE k \in 3 .. n + 2
    <3>1. k \in 1 + 2 .. 1 + n + 1
      BY <2>3, <1>2
    <3>2. Fills(moves[k], S, k - 1 - 1)
      BY <3>1, <1>2 DEF MakesAndStores, n
    <3> QED BY <3>2 DEF Fills
  <2> QED BY <2>1, <2>2, <2>3, <1>2
<1>4. S \notin Vars
  BY NamesAssumption
<1>5. \A k \in DOMAIN moves : moves[k].to.base \in Vars /\ moves[k].to.path # <<>> => env[moves[k].to.base] # Nil
  BY <1>1, <1>3, <1>4, ReachableTarget
<1>6. \A t \in Tmp : \A k \in DOMAIN moves : moves[k].to # Place(t, <<>>)
  <2> SUFFICES ASSUME NEW t \in Tmp, NEW k \in DOMAIN moves, moves[k].to = Place(t, <<>>)
               PROVE FALSE
    OBVIOUS
  <2>1. moves[k].to.base = t /\ t \in Vars
    BY PlaceOf, StructsAssumption
  <2> QED BY <2>1, <1>1, <1>3, <1>4
<1> QED BY <1>2, <1>5, <1>6, ObjectStarts DEF moves

(* A declaration with a constructor call can begin, and loses nothing. *)
LEMMA DeclareNewStarts ==
    ASSUME NEW S \in Structs, NEW v \in Vars \ Tmp, TypeOf[v] = S, env[v] = Nil,
           NEW args \in Arguments(S), HasFreeSlot(S)
    PROVE  Starts(DeclaredNew(v, S, args)) /\ LosesNothing(DeclaredNew(v, S, args))
<1> DEFINE n == Len(Params[S])
           moves == DeclaredNew(v, S, args)
<1>2. /\ MakesAndStores(moves, 0, S) /\ Len(moves) = n + 2 /\ n \in Nat
      /\ moves[n + 2].to = Place(v, <<>>) /\ ~moves[n + 2].retain
      /\ moves[n + 2].from = Place(S, <<>>)
  BY NewDeclared, StructTypes
<1> HIDE DEF moves, n
<1>3. ASSUME NEW k \in DOMAIN moves
      PROVE  \/ k = n + 2
             \/ /\ k < n + 2 /\ moves[k].to.base = S /\ moves[k].from.base \notin Structs
                /\ IsNew(moves[k]) \/ moves[k].delete
  <2>1. k = 1 \/ k \in 2 .. n + 1 \/ k = n + 2
    BY <1>2 DEF MakesAndStores
  <2>2. CASE k = 1
    <3>1. moves[0 + 1] = New(S)
      BY <1>2 DEF MakesAndStores
    <3> QED BY <2>2, <3>1, <1>2, NewParts, PlaceOf, NilPlaceIs, NamesAssumption
  <2>3. CASE k \in 2 .. n + 1
    <3>1. k \in 0 + 2 .. 0 + n + 1 /\ k < n + 2
      BY <2>3, <1>2
    <3>2. Fills(moves[k], S, k - 0 - 1)
      BY <3>1, <1>2 DEF MakesAndStores, n
    <3> QED BY <3>1, <3>2 DEF Fills
  <2> QED BY <2>1, <2>2, <2>3
<1>4. S \notin Vars /\ Place(v, <<>>).base = v /\ Place(v, <<>>).path = <<>>
  BY NamesAssumption, PlaceOf
<1>5. \A k \in DOMAIN moves : moves[k].to.base \in Vars => moves[k].to.path = <<>>
  BY <1>2, <1>3, <1>4
<1>6. \A t \in Tmp : \A k \in DOMAIN moves : moves[k].to # Place(t, <<>>)
  <2> SUFFICES ASSUME NEW t \in Tmp, NEW k \in DOMAIN moves, moves[k].to = Place(t, <<>>)
               PROVE FALSE
    OBVIOUS
  <2>1. moves[k].to.base = t /\ t \in Vars
    BY PlaceOf, StructsAssumption
  <2> QED BY <2>1, <1>2, <1>3, <1>4
<1>7. Starts(moves)
  BY <1>2, <1>5, <1>6, ObjectStarts
<1>8. LosesNothing(moves)
  <2>1. ASSUME NEW k \in DOMAIN moves, NEW j \in DOMAIN moves, k = n + 2, j < k
        PROVE  moves[j].to # moves[k].to
    BY <2>1, <1>2, <1>3, <1>4
  <2> QED BY <2>1, <1>2, <1>3, <1>4 DEF LosesNothing
<1> QED BY <1>7, <1>8 DEF moves

(* An assignment of a constructor call through a temporary can begin, and   *)
(* loses nothing.                                                           *)
LEMMA NewThroughTemporaryStarts ==
    ASSUME NEW S \in Structs, NEW to \in Targets[S], to.path = <<>>, NEW args \in Arguments(S),
           HasFreeSlot(S), NEW t \in Tmp, TypeOf[t] = S, env[t] = Nil
    PROVE  Starts(AssignedThrough(t, to, S, args)) /\ LosesNothing(AssignedThrough(t, to, S, args))
<1> DEFINE n == Len(Params[S])
           moves == AssignedThrough(t, to, S, args)
<1>1. to.base \in Vars \ Tmp /\ Assignable(to, S) /\ t \in Vars /\ to.base # t
  BY TargetsAre, StructsAssumption DEF Assignable
<1>2. /\ MakesAndStores(moves, 0, S) /\ Len(moves) = n + 4 /\ n \in Nat
      /\ moves[n + 2].to = Place(t, <<>>) /\ ~moves[n + 2].retain
      /\ moves[n + 2].from = Place(S, <<>>)
      /\ moves[n + 3].to = to /\ moves[n + 3].from = Place(t, <<>>) /\ moves[n + 3].delete
      /\ moves[n + 4] = Release(t)
  BY <1>1, NewThroughTemporary, StructTypes
<1>a. /\ Release(t).to = Place(t, <<>>) /\ Release(t).from = NilPlace /\ Release(t).delete = TRUE
  BY DEF Move, Release
<1> HIDE DEF moves, n
<1>3. ASSUME NEW k \in DOMAIN moves
      PROVE  \/ k = n + 2
             \/ k = n + 3 \/ k = n + 4
             \/ /\ k < n + 2 /\ moves[k].to.base = S /\ moves[k].from.base \notin Structs
                /\ IsNew(moves[k]) \/ moves[k].delete
  <2>1. k = 1 \/ k \in 2 .. n + 1 \/ k = n + 2 \/ k = n + 3 \/ k = n + 4
    BY <1>2 DEF MakesAndStores
  <2>2. CASE k = 1
    <3>1. moves[0 + 1] = New(S)
      BY <1>2 DEF MakesAndStores
    <3> QED BY <2>2, <3>1, <1>2, NewParts, PlaceOf, NilPlaceIs, NamesAssumption
  <2>3. CASE k \in 2 .. n + 1
    <3>1. k \in 0 + 2 .. 0 + n + 1 /\ k < n + 2
      BY <2>3, <1>2
    <3>2. Fills(moves[k], S, k - 0 - 1)
      BY <3>1, <1>2 DEF MakesAndStores, n
    <3> QED BY <3>1, <3>2 DEF Fills
  <2> QED BY <2>1, <2>2, <2>3
<1>4. /\ S \notin Vars /\ Place(t, <<>>).base = t /\ Place(t, <<>>).path = <<>> /\ Tmp \subseteq Vars
      /\ t \notin Structs /\ NilPlace.base \notin Structs
  BY NamesAssumption, PlaceOf, StructsAssumption, NilPlaceIs
<1>5. \A k \in DOMAIN moves : moves[k].to.base \in Vars => moves[k].to.path = <<>>
  BY <1>2, <1>3, <1>4, <1>a
<1>6. \A u \in Tmp : \A k \in DOMAIN moves : moves[k].to = Place(u, <<>>) =>
        \E j \in DOMAIN moves : j >= k /\ moves[j] = Release(u)
  <2> SUFFICES ASSUME NEW u \in Tmp, NEW k \in DOMAIN moves, moves[k].to = Place(u, <<>>)
               PROVE  u = t /\ n + 4 \in DOMAIN moves /\ n + 4 >= k
    BY <1>2
  <2>1. moves[k].to.base = u /\ u \in Vars
    BY PlaceOf, StructsAssumption
  <2>2. u = t
    BY <2>1, <1>1, <1>2, <1>3, <1>4, <1>a
  <2>3. n + 4 \in DOMAIN moves /\ n + 4 >= k
    BY <1>2 DEF MakesAndStores
  <2> QED BY <2>2, <2>3
<1>7. Starts(moves)
  BY <1>2, <1>5, <1>6, ObjectStarts
<1>8. LosesNothing(moves)
  <2>1. ASSUME NEW k \in DOMAIN moves, NEW j \in DOMAIN moves, k = n + 2, j < k
        PROVE  moves[j].to # moves[k].to
    BY <2>1, <1>2, <1>3, <1>4
  <2> QED BY <2>1, <1>2, <1>3, <1>4, <1>a DEF LosesNothing
<1> QED BY <1>7, <1>8 DEF moves

-----------------------------------------------------------------------------
(* The beginning of a statement *)

(* All cells that refer to a slot. *)
AllRefs(S, i) == { c \in CellsOf[S] : CellValue(c) = i }

(* Nothing is being released, and no cell is about to be retained. *)
AtRest == calls = <<>> /\ phase # "retain" /\ (phase = "store" => ~Head(todo).delete)

RestLaw ==
    \A S \in Structs : \A i \in Slots(S) :
        /\ IsFiniteSet(AllRefs(S, i)) /\ Cardinality(AllRefs(S, i)) \in Nat
        /\ CellRefs(S, i) \subseteq AllRefs(S, i)
        /\ Cardinality(CellRefs(S, i)) <= Cardinality(AllRefs(S, i))
        /\ AtRest /\ tidy => CellRefs(S, i) = AllRefs(S, i)

(* With no release running and no cell about to be retained every reference *)
(* of a tidy program is counted.                                            *)
LEMMA Rest ==
    HeapOK /\ ActivationsOK /\ MovesOK /\ TargetsReachable /\ NothingIsLost /\ PhaseOK => RestLaw
<1> SUFFICES ASSUME HeapOK, ActivationsOK, MovesOK, TargetsReachable, NothingIsLost, PhaseOK,
                    NEW S \in Structs, NEW i \in Slots(S)
             PROVE  /\ IsFiniteSet(AllRefs(S, i)) /\ Cardinality(AllRefs(S, i)) \in Nat
                    /\ CellRefs(S, i) \subseteq AllRefs(S, i)
                    /\ Cardinality(CellRefs(S, i)) <= Cardinality(AllRefs(S, i))
                    /\ AtRest /\ tidy => CellRefs(S, i) = AllRefs(S, i)
  BY DEF RestLaw
<1>1. IsFiniteSet(AllRefs(S, i)) /\ Cardinality(AllRefs(S, i)) \in Nat
  BY CellsOfFinite DEF AllRefs
<1>2. CellRefs(S, i) = AllRefs(S, i) \ Uncounted
  BY DEF CellRefs, AllRefs
<1>3. CellRefs(S, i) \subseteq AllRefs(S, i)
  BY <1>2
<1>4. Cardinality(CellRefs(S, i)) <= Cardinality(AllRefs(S, i))
  BY <1>1, <1>3, FS_Subset
<1>5. ASSUME AtRest, tidy, NEW c \in AllRefs(S, i) PROVE c \notin Uncounted
  <2>1. CASE phase = "store"
    <3>1. todo # <<>> /\ ~IsNew(todo[1]) /\ 1 \in DOMAIN todo /\ ~todo[1].delete /\ Head(todo) = todo[1]
      BY <2>1, <1>5, HeadIsFirst DEF AtRest, PhaseOK
    <3>2. todo[1].to.path = <<>> /\ env[todo[1].to.base] = Nil
      BY <3>1, <2>1, <1>5 DEF NothingIsLost, Stored
    <3>3. \A m : <<>> # <<m>>
      OBVIOUS
    <3>4. PICK v \in Vars : todo[1].to.base = v /\ Cell(todo[1].to) = <<v, Nil>>
      BY <3>1, <3>2, <3>3, TargetTyped
    <3>5. CellValue(<<v, Nil>>) = Nil
      BY <3>2, <3>4 DEF CellValue
    <3>6. c # <<v, Nil>>
      BY <3>5, StructTypes DEF AllRefs
    <3> QED BY <3>1, <3>4, <3>6, <1>5, UncountedAre DEF AtRest
  <2>2. CASE phase # "store"
    BY <2>2, <1>5, UncountedAre DEF AtRest
  <2> QED BY <2>1, <2>2
<1> QED BY <1>1, <1>2, <1>3, <1>4, <1>5

(* The same of the state after a step. *)
LEMMA RestNext ==
    HeapOK' /\ ActivationsOK' /\ MovesOK' /\ TargetsReachable' /\ NothingIsLost' /\ PhaseOK' => RestLaw'
BY Rest, PTL

(* A step that takes no slack away keeps the counts covering; one that      *)
(* leaves it alone keeps them exact.                                        *)
LEMMA CountsStep ==
    ASSUME CountsOK, CountsMatch, tidy' => tidy,
           \A S \in Structs : \A i \in Slots(S) :
             /\ Slack(S, i) \in Int /\ Slack(S, i)' \in Int
             /\ Slack(S, i)' >= Slack(S, i)
             /\ tidy' => Slack(S, i)' = Slack(S, i)
    PROVE  CountsOK' /\ CountsMatch'
BY DEF CountsOK, CountsMatch

-----------------------------------------------------------------------------

(* The beginning of a statement keeps the invariant. *)
LEMMA BeginKeeps ==
    ASSUME HeapInv, phase = "idle", NEW moves, NEW leaks \in BOOLEAN, Starts(moves),
           ~leaks => LosesNothing(moves), Begin(moves, leaks)
    PROVE  HeapInv'
<1> USE DEF HeapInv
<1>1. /\ allocation' = allocation /\ free_idx' = free_idx /\ member' = member /\ stack' = stack
      /\ env' = env /\ expected' = expected /\ calls' = calls /\ used' = used
      /\ todo' = moves /\ phase' = FirstPhase(moves) /\ (tidy' <=> (tidy /\ ~leaks))
      /\ tidy' = (tidy /\ ~leaks)
  BY DEF Begin, heapVars
<1>2. todo = <<>> /\ calls = <<>>
  BY DEF PhaseOK
<1>3. moves \in Seq(Moves) /\ moves # <<>> /\ 1 \in DOMAIN moves /\ Head(moves) = moves[1] /\ moves[1] \in Moves
  BY DEF Starts
<1>4. /\ phase' = "new" <=> IsNew(moves[1])
      /\ phase' = "delete" <=> (~IsNew(moves[1]) /\ moves[1].delete)
      /\ phase' = "store" <=> (~IsNew(moves[1]) /\ ~moves[1].delete)
      /\ phase' \in {"new", "delete", "store"}
  BY <1>1, <1>3 DEF FirstPhase, IsNew, Moves
<1>5. HeapOK'
  BY <1>1, <1>3 DEF HeapOK
<1>6. ActivationsOK' /\ ReleasedOnce' /\ StacksHaveDrains' /\ FreeSlotsAreFound' /\ FreeSlotsAreClean'
  <2>1. ActivationsOK'
    BY <1>1, <1>2 DEF ActivationsOK
  <2>2. ReleasedOnce'
    BY <1>1, <1>2 DEF ReleasedOnce
  <2>3. StacksHaveDrains'
    BY <1>1, <1>2 DEF StacksHaveDrains
  <2>4. \A S, i : ~BeingReleased(S, i) /\ ~BeingReleased(S, i)'
    BY <1>1, <1>2 DEF BeingReleased
  <2>5. FreeSlotsAreFound'
    BY <1>1, <2>4 DEF FreeSlotsAreFound
  <2>6. FreeSlotsAreClean'
    BY <1>1, <2>4 DEF FreeSlotsAreClean
  <2> QED BY <2>1, <2>2, <2>3, <2>5, <2>6
<1>7. MovesOK'
  BY <1>1 DEF MovesOK, Starts
<1>8. PhaseOK'
  BY <1>1, <1>2, <1>3, <1>4 DEF PhaseOK
<1>9. TargetsReachable'
  BY <1>1 DEF TargetsReachable, Starts
<1>10. \A p : /\ BaseValue(p.base)' = BaseValue(p.base) /\ Index(p)' = Index(p) /\ Value(p)' = Value(p)
              /\ Reachable(p)' <=> Reachable(p)
              /\ Cell(p)' = Cell(p) /\ CellsRead(p)' = CellsRead(p)
  <2>1. \A b : BaseValue(b)' = BaseValue(b)
    BY <1>1 DEF BaseValue
  <2>2. \A m, i : MemberOf(m, i)' = MemberOf(m, i)
    BY <1>1 DEF MemberOf
  <2>3. \A p : Index(p)' = Index(p)
    BY <2>1, <2>2 DEF Index
  <2>4. \A p : Value(p)' = Value(p) /\ (Reachable(p)' <=> Reachable(p)) /\ Cell(p)' = Cell(p)
    BY <2>1, <2>2, <2>3 DEF Value, Reachable, Cell
  <2> QED BY <2>1, <2>3, <2>4 DEF CellsRead
<1>11. SourceReachable'
  BY <1>1, <1>3, <1>4, <1>10 DEF SourceReachable, Starts
<1>12. RoomForNew'
  BY <1>1 DEF RoomForNew, Starts, HasFreeSlot
<1>13. \A S \in Structs : ~Building(S) /\ ~Building(S)'
  BY <1>1, <1>2 DEF Building, Starts
<1>14. BuildingIsQuiet' /\ NewMembersAreNil'
  BY <1>13 DEF BuildingIsQuiet, NewMembersAreNil
<1>15. NothingIsLost'
  <2>1. \A t \in Tmp : env[t] = Nil
    BY <1>2 DEF NothingIsLost
  <2>2. tidy' => \A k \in DOMAIN moves :
         /\ ~IsNew(moves[k]) /\ ~moves[k].delete =>
              /\ moves[k].to.path = <<>> /\ env[moves[k].to.base] = Nil
              /\ \A j \in DOMAIN moves : j < k => moves[j].to # moves[k].to
         /\ moves[k].from.base \in Structs => ~moves[k].retain
    BY <1>1 DEF LosesNothing
  <2>3. \A t \in Tmp : \A k \in DOMAIN moves : moves[k].to = Place(t, <<>>) =>
         \E j \in DOMAIN moves : j >= k /\ moves[j] = Release(t)
    BY DEF Starts
  <2> QED BY <1>1, <2>1, <2>2, <2>3 DEF NothingIsLost
<1>16. RightSideIsKept'
  <2>1. AssignmentTakesEffect'
    BY <1>4 DEF AssignmentTakesEffect
  <2>2. ~(phase' = "store" /\ Head(todo').delete)
    BY <1>1, <1>3, <1>4
  <2>4. ~Overlaps /\ phase' \in {"delete", "store"} /\ moves[1].retain =>
           Cell(moves[1].to)' \notin CellsRead(moves[1].from)'
    BY <1>4, <1>10 DEF Starts
  <2> QED BY <1>1, <1>3, <2>1, <2>2, <2>4 DEF RightSideIsKept
<1>17. CountsOK' /\ CountsMatch'
  <2>1. SlackLaw /\ SlackLaw' /\ RestLaw /\ RestLaw'
    BY Laws, LawsNext, Rest, RestNext, <1>5, <1>6, <1>7, <1>8, <1>9, <1>15
  <2> SUFFICES ASSUME NEW S \in Structs, NEW i \in Slots(S)
               PROVE  /\ Slack(S, i) \in Int /\ Slack(S, i)' \in Int
                      /\ Slack(S, i)' >= Slack(S, i)
                      /\ tidy' => Slack(S, i)' = Slack(S, i)
    BY <1>1, CountsStep
  <2>2. CellRefs(S, i) = AllRefs(S, i)
    <3>1. Uncounted = {}
      BY <1>2, UncountedAre
    <3> QED BY <3>1 DEF CellRefs, AllRefs
  <2>3. AllRefs(S, i)' = AllRefs(S, i)
    BY <1>1 DEF AllRefs, CellValue
  <2>4. AtRest'
    BY <1>1, <1>2, <1>3, <1>4 DEF AtRest
  <2>5. /\ Cardinality(CellRefs(S, i)') <= Cardinality(CellRefs(S, i))
        /\ tidy' => Cardinality(CellRefs(S, i)') = Cardinality(CellRefs(S, i))
    BY <2>1, <2>2, <2>3, <2>4 DEF RestLaw
  <2>6. Pending(S, i) = 0 /\ Pending(S, i)' = 0
    BY <1>13 DEF Pending
  <2>7. /\ Occurrences(stack[S], i)' = Occurrences(stack[S], i) /\ HeldBy(S, i)' = HeldBy(S, i)
        /\ allocation[S][i]' = allocation[S][i]
    BY <1>1 DEF HeldBy
  <2> QED BY <2>1, <2>5, <2>6, <2>7 DEF SlackLaw
<1> QED BY <1>5, <1>6, <1>7, <1>8, <1>9, <1>11, <1>12, <1>14, <1>15, <1>16, <1>17

-----------------------------------------------------------------------------
(* The program *)

(* Every statement a program may begin keeps the invariant. *)
LEMMA ProgramKeeps == HeapInv /\ Program => HeapInv'
<1> SUFFICES ASSUME HeapInv, Program PROVE HeapInv'
  OBVIOUS
<1>1. phase = "idle" /\ used \subseteq Structs
  <2>1. used \in Programs
    BY DEF HeapInv, HeapOK
  <2> QED BY <2>1, StructsAssumption DEF Program
<1>2. \A t \in Tmp : env[t] = Nil
  BY <1>1 DEF HeapInv, PhaseOK, NothingIsLost
<1>3. ASSUME NEW S \in used, NEW to \in Targets[S], Reachable(to), Clear(to) PROVE HeapInv'
  <2>1. Starts(Cleared(to))
    BY <1>1, <1>3, ClearStarts
  <2> QED BY <2>1, <1>1, <1>3, BeginKeeps DEF Clear
<1>4. ASSUME NEW S \in used, NEW to \in Targets[S], Reachable(to),
             NEW from \in Sources[S], Reachable(from), Assign(to, from)
      PROVE  HeapInv'
  <2>1. S \in Structs /\ PlaceType(to) = S
    BY <1>1, TargetsAre
  <2>2. PICK t \in Tmp : TypeOf[t] = S /\ Begin(Assigned(to, from, t), FALSE)
    BY <2>1, <1>4 DEF Assign
  <2>3. Starts(Assigned(to, from, t)) /\ LosesNothing(Assigned(to, from, t))
    BY <1>2, <1>4, <2>1, <2>2, AssignStarts DEF Assign
  <2> QED BY <2>2, <2>3, <1>1, BeginKeeps
<1>5. ASSUME NEW S \in used, NEW to \in Targets[S], Reachable(to),
             NEW args \in Arguments(S), AssignNew(to, args)
      PROVE  HeapInv'
  <2> DEFINE reads == \E k \in DOMAIN Params[S] : ReadsTarget(to, args[k])
  <2>1. S \in Structs /\ PlaceType(to) = S
    BY <1>1, TargetsAre
  <2>2. HasFreeSlot(S) /\ \E t \in Tmp :
          /\ TypeOf[t] = S
          /\ Begin(IF reads THEN AssignedThrough(t, to, S, args)
                   ELSE AssignedNew(to, S, args), ~reads)
    BY <2>1, <1>5, Zenon DEF AssignNew, AssignedThrough
  <2>3. PICK t \in Tmp :
          /\ TypeOf[t] = S
          /\ Begin(IF reads THEN AssignedThrough(t, to, S, args)
                   ELSE AssignedNew(to, S, args), ~reads)
    BY <2>2
  <2>4. CASE reads
    <3>1. to.path = <<>>
      BY <2>4 DEF ReadsTarget
    <3>2. Starts(AssignedThrough(t, to, S, args)) /\ LosesNothing(AssignedThrough(t, to, S, args))
      BY <3>1, <1>2, <2>1, <2>2, <2>3, NewThroughTemporaryStarts
    <3>3. Begin(AssignedThrough(t, to, S, args), FALSE)
      BY <2>3, <2>4
    <3> QED BY <3>2, <3>3, <1>1, BeginKeeps
  <2>5. CASE ~reads
    <3>1. Starts(AssignedNew(to, S, args))
      BY <1>5, <2>1, <2>2, AssignNewStarts
    <3>2. Begin(AssignedNew(to, S, args), TRUE)
      BY <2>3, <2>5
    <3> QED BY <3>1, <3>2, <1>1, BeginKeeps
  <2> QED BY <2>4, <2>5
<1>6. ASSUME NEW S \in used, NEW v \in Vars \ Tmp, TypeOf[v] = S, LeaveScope(v)
      PROVE  HeapInv'
  <2>1. Starts(LeftScope(v)) /\ LosesNothing(LeftScope(v))
    BY LeaveStarts
  <2> QED BY <2>1, <1>1, <1>6, BeginKeeps DEF LeaveScope
<1>7. ASSUME NEW S \in used, NEW v \in Vars \ Tmp, TypeOf[v] = S,
             NEW from \in Sources[S], Reachable(from), Declare(v, from)
      PROVE  HeapInv'
  <2>1. env[v] = Nil /\ from.base # v /\ Begin(Declared(v, from), FALSE)
    BY <1>7 DEF Declare, Undeclared
  <2>2. Starts(Declared(v, from)) /\ LosesNothing(Declared(v, from))
    BY <1>1, <1>7, <2>1, DeclareStarts
  <2> QED BY <2>1, <2>2, <1>1, BeginKeeps
<1>8. ASSUME NEW S \in used, NEW v \in Vars \ Tmp, TypeOf[v] = S,
             NEW args \in Arguments(S), DeclareNew(v, args)
      PROVE  HeapInv'
  <2>1. env[v] = Nil /\ HasFreeSlot(S) /\ Begin(DeclaredNew(v, S, args), FALSE)
    BY <1>8 DEF DeclareNew, Undeclared
  <2>2. Starts(DeclaredNew(v, S, args)) /\ LosesNothing(DeclaredNew(v, S, args))
    BY <1>1, <1>8, <2>1, DeclareNewStarts
  <2> QED BY <2>1, <2>2, <1>1, BeginKeeps
<1> QED BY <1>3, <1>4, <1>5, <1>6, <1>7, <1>8 DEF Program
=============================================================================
