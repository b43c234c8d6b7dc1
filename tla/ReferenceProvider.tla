-------------------------- MODULE ReferenceProvider --------------------------
(***************************************************************************)
(* ReferenceProvider (lsp/ReferenceProvider.cpp), the reference index it    *)
(* keeps (cksp/Source/ReferenceIndex.h) and the texts RenameProvider reads: *)
(* which declaration a position means, and where that declaration is used.  *)
(*                                                                         *)
(* A text has places, each with the name written there; at some of them the *)
(* name is declared.  A range is a place, so a position is covered by at    *)
(* most one range.  A provider state is                                     *)
(*   current, last        the texts the newest and the last good analysis   *)
(*                        read (the first is kept for the properties only)  *)
(*   index, lastIndex     the links they found                              *)
(***************************************************************************)
EXTENDS ImportGraph

CONSTANTS
    Texts,         \* the texts files and buffers can have
    None,          \* no file, no open buffer, nothing
    Places,        \* the places of a text where a name can stand
    Word,          \* the name at each place of a text, or None
    Declares       \* the places of a text that declare their name

ASSUME NamesAssumption == Declares \in [Texts -> SUBSET Places]

Locations == Sources \X Places
Links == [ref : Locations, def : Locations]

(* The name at a location of a set of texts (a function from sources). *)
WordIn(texts, at) == Word[texts[at[1]]][at[2]]
IsDeclaredIn(texts, at) == at[2] \in Declares[texts[at[1]]]

(* The links of a complete analysis: every use to the declaration of its    *)
(* name.                                                                    *)
LinksOf(loaded) ==
    { link \in Links :
        /\ {link.ref[1], link.def[1]} \subseteq DOMAIN loaded
        /\ WordIn(loaded, link.ref) = WordIn(loaded, link.def)
        /\ IsDeclaredIn(loaded, link.def) /\ ~IsDeclaredIn(loaded, link.ref) }

(* ReferenceIndex::resolve_target, as the set of declarations it may mean:  *)
(* those of the reference at the location, else the declaration there, if   *)
(* something refers to it.                                                  *)
TargetsIn(index, at) ==
    LET references == { link \in index : link.ref = at }
        declarations == { link \in index : link.def = at }
    IN  { link.def : link \in IF references # {} THEN references ELSE declarations }

(* ReferenceIndex::references_to *)
ReferencesIn(index, target) == { link.ref : link \in { l \in index : l.def = target } }

(* source_matches_snapshot; live is what a read of each source now sees. *)
SourceMatchesSnapshot(snapshot, live, s) ==
    snapshot # None /\ s \in DOMAIN snapshot /\ live[s] = snapshot[s]

(* resolve_from_state *)
ResolveFromState(state, live, at) ==
    LET current == TargetsIn(state.index, at)
        old == { target \in TargetsIn(state.lastIndex, at) :
                   /\ SourceMatchesSnapshot(state.last, live, at[1])
                   /\ SourceMatchesSnapshot(state.last, live, target[1]) }
    IN  IF current # {} THEN current ELSE old

(* resolve_target: the entries that depend on the source are asked first.   *)
ResolveTarget(states, preferred, live, at) ==
    LET From(entries) == UNION { ResolveFromState(states[e], live, at) :
                                   e \in entries \cap DOMAIN states }
    IN  IF From(preferred) # {} THEN From(preferred) ELSE From(DOMAIN states)

(* references_from_state: a newest analysis that failed is completed by the *)
(* last good one, where that did not resolve and the text did not move.     *)
ReferencesFromState(state, live, target) ==
    ReferencesIn(state.index, target)
      \cup { ref \in ReferencesIn(state.lastIndex, target) :
               /\ SourceMatchesSnapshot(state.last, live, target[1])
               /\ \A link \in state.index : link.ref # ref
               /\ SourceMatchesSnapshot(state.last, live, ref[1]) }

(* Mutant of ReferencesTo: the declaration itself is not listed. *)
UsesOf(states, live, target) ==
    UNION { ReferencesFromState(states[e], live, target) : e \in DOMAIN states }

(* references_to, declaration included: over the states of all entries. *)
ReferencesTo(states, live, target) ==
    {target} \cup UNION { ReferencesFromState(states[e], live, target) : e \in DOMAIN states }

(* RenameProvider::text_at: what stands at a location now. *)
TextAt(live, at) == IF live[at[1]] = None THEN None ELSE WordIn(live, at)
=============================================================================
