------------------------- MODULE MCCallbackStorage --------------------------
(***************************************************************************)
(* Instances of CallbackStorage.  The names are alike, and so are the       *)
(* callback instances: which of them a state is about does not matter.      *)
(***************************************************************************)
EXTENDS CallbackStorage, TLC

CONSTANTS x, y, note1, note2

Symmetries == Permutations(Names) \cup Permutations(Instances)
=============================================================================
