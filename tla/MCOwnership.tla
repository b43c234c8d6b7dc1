---------------------------- MODULE MCOwnership ----------------------------
(***************************************************************************)
(* Instances of LanguageServer with three files: main, a configured entry   *)
(* that may import lib; other, a script beside the project that imports     *)
(* lib; and lib, which may stop parsing.  lib declares a name that both      *)
(* importers use, main not in every text.                                   *)
(***************************************************************************)
EXTENDS LanguageServer, TLC

CONSTANTS
    mainFile, otherFile, libFile,
    useLib,                \* a text that imports lib
    alone,                 \* a text that imports nothing
    good,                  \* a text of lib that declares the name
    broken, unparsed,      \* texts that fail, with the imports and after them
    shared                 \* a name

MCSources == {mainFile, otherFile, libFile}
MCTexts == {useLib, alone, good, broken, unparsed}
MCImports == [t \in MCTexts |-> IF t = useLib THEN <<libFile>> ELSE <<>>]
MCDefect == [t \in MCTexts |-> CASE t = broken   -> "syntax"
                                 [] t = unparsed -> "parse"
                                 [] OTHER        -> "none"]
OnePlace == {1}
MCWord == [t \in MCTexts |-> [p \in OnePlace |-> IF t \in {useLib, good} THEN shared ELSE None]]
MCDeclares == [t \in MCTexts |-> IF t = good THEN OnePlace ELSE {}]
MCConfigured == {mainFile}
MCDisk == [s \in MCSources |-> CASE s = mainFile  -> useLib
                                 [] s = otherFile -> None
                                 [] s = libFile   -> good]
MCMayContain == [s \in MCSources |-> CASE s = mainFile  -> {useLib, alone, broken}
                                       [] s = otherFile -> {useLib}
                                       [] s = libFile   -> {good, unparsed}]
=============================================================================
