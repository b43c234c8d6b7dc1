------------------------- MODULE MCImportGraphWalk -------------------------
(***************************************************************************)
(* Instance of ImportGraphWalk: three sources, every graph that three       *)
(* map-changing calls can build (two-cycles, self imports, chains).         *)
(***************************************************************************)
EXTENDS ImportGraphWalk

CONSTANTS a, b, c

MCSources == {a, b, c}
=============================================================================
