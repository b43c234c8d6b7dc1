------------------------- MODULE EntryPointResolver -------------------------
(***************************************************************************)
(* EntryPointResolver (lsp/EntryPointResolver.cpp): which entry points a    *)
(* changed source makes the language server analyse, and who owns a source. *)
(*                                                                         *)
(* The resolver's three members are passed as values:                       *)
(*   configured   m_configured_entries, a set of sources                    *)
(*   known        m_known_entries, a set of sources                         *)
(*   graphs       m_import_graphs, a function from entries to graphs        *)
(* so that an action that calls several operations of it composes them.     *)
(***************************************************************************)
EXTENDS ImportGraph

CONSTANT Workspace         \* the sources below the workspace root

ASSUME WorkspaceAssumption == Workspace \subseteq Sources

EntryDependsOn(graphs, entry, source) ==
    entry \in DOMAIN graphs /\ entry \in TransitiveDependents(graphs[entry], source)

IsOwnedByConfiguredEntry(configured, graphs, source) ==
    \E entry \in configured : source = entry \/ EntryDependsOn(graphs, entry, source)

(* The first loop of affected_entries: configured entries that are the      *)
(* source, import it, or have no graph yet.                                 *)
AffectedConfigured(configured, graphs, source) ==
    { entry \in configured :
        /\ source \in Workspace
        /\ \/ entry = source
           \/ entry \notin DOMAIN graphs
           \/ EntryDependsOn(graphs, entry, source) }

(* Until every configured graph exists the source may be an orphan.         *)
OwnershipIsStillUnknown(configured, graphs, source) ==
    source \in Workspace /\ \E entry \in configured \ {source} : entry \notin DOMAIN graphs

(* Mutant of AffectedEntries: the loop over the other known entries is gone. *)
AffectedWithoutImporters(configured, known, graphs, source) ==
    LET affected ==
          AffectedConfigured(configured, graphs, source)
            \cup (IF OwnershipIsStillUnknown(configured, graphs, source) THEN {source} ELSE {})
    IN  IF affected = {} THEN {source} ELSE affected

(* affected_entries as a set; a source no entry imports is its own entry.   *)
AffectedEntries(configured, known, graphs, source) ==
    LET affected ==
          AffectedConfigured(configured, graphs, source)
            \cup (IF OwnershipIsStillUnknown(configured, graphs, source) THEN {source} ELSE {})
            \cup { entry \in known \ {source} : EntryDependsOn(graphs, entry, source) }
    IN  IF affected = {} THEN {source} ELSE affected

(* Mutant of SubsumedEntries: no entry is ever subsumed. *)
NoneSubsumed(configured, known, graphs, entry) == {}

(* What register_analysis returns for an entry whose new graph is in        *)
(* graphs: the known, not configured entries that it imports.               *)
SubsumedEntries(configured, known, graphs, entry) ==
    { candidate \in known \ (configured \cup {entry}) :
        EntryDependsOn(graphs, entry, candidate) }
=============================================================================
