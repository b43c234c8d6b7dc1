------------------------- MODULE MCLanguageServer --------------------------
(***************************************************************************)
(* Instances of LanguageServer with two files: main, which may import lib.  *)
(***************************************************************************)
EXTENDS LanguageServer, TLC

CONSTANTS
    mainFile, libFile,
    useLib, useLibToo,     \* texts that import lib
    alone,                 \* a text that imports nothing
    good, wrong, broken,   \* texts of lib; wrong has a semantic, broken a syntax error
    shared                 \* a name

MCSources == {mainFile, libFile}
MCTexts == {useLib, useLibToo, alone, good, wrong, broken}
MCImports == [t \in MCTexts |-> IF t \in {useLib, useLibToo} THEN <<libFile>> ELSE <<>>]
MCDefect == [t \in MCTexts |-> CASE t = wrong -> "semantic"
                                 [] t = broken -> "syntax"
                                 [] OTHER -> "none"]

(* No names. *)
NoPlaces == {}
NoNames == [t \in MCTexts |-> {}]

(* One name, declared and used in lib and used in main; an edit moves it.   *)
TwoPlaces == {1, 2}
SharedWord == [t \in MCTexts |-> [p \in TwoPlaces |->
    IF t = alone \/ (t = useLib /\ p = 2) THEN None ELSE shared]]
SharedDeclared == [t \in MCTexts |-> CASE t = good -> {1}
                                      [] t \in {wrong, broken} -> {2}
                                      [] OTHER -> {}]

(* The same with main's broken text using the name. *)
DeclaredInLib == [t \in MCTexts |-> IF t = good THEN {1} ELSE {}]

JustMain == {mainFile}

(* Both exist; main imports lib. *)
BothOnDisk == [s \in MCSources |-> IF s = mainFile THEN useLib ELSE good]

(* main imports lib whatever is typed. *)
MainImports == [s \in MCSources |->
    IF s = mainFile THEN {useLib, useLibToo} ELSE {good, wrong, broken}]

(* main may stop importing lib and may be broken. *)
MainVaries == [s \in MCSources |->
    IF s = mainFile THEN {useLib, alone, broken} ELSE {good, wrong, broken}]

(* main may be broken while lib stays good. *)
MainMayBreak == [s \in MCSources |-> IF s = mainFile THEN {useLib, broken} ELSE {good}]

(* main may stop importing lib; lib may have either kind of error. *)
MainMayDropLib == [s \in MCSources |->
    IF s = mainFile THEN {useLib, alone} ELSE {good, wrong, broken}]
=============================================================================
