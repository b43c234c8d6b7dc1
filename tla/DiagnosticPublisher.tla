------------------------ MODULE DiagnosticPublisher ------------------------
(***************************************************************************)
(* DiagnosticPublisher (lsp/DiagnosticPublisher.cpp): the diagnostics each  *)
(* entry's last analysis found, by source, and what it tells the client.    *)
(*                                                                         *)
(*   diags        m_diagnostics_by_entry_and_source: a function from        *)
(*                entries to functions from sources to sets of diagnostics  *)
(*   published    the set in the last publishDiagnostics for each source:   *)
(*                what the client displays                                  *)
(* A diagnostic is told apart by its source and by the text it is about;    *)
(* same_published_diagnostic makes each list a set.                         *)
(***************************************************************************)
EXTENDS EntryPointResolver

(* A map without some of its keys, and with one key set. *)
Erase(map, keys) == [k \in DOMAIN map \ keys |-> map[k]]
Assign(map, key, value) ==
    [k \in DOMAIN map \cup {key} |-> IF k = key THEN value ELSE map[k]]

(* Mutant of DiagnosticsFor: standalone entries contribute to every file.   *)
DiagnosticsOfAllEntries(configured, graphs, diags, source) ==
    UNION { diags[entry][source] : entry \in { e \in DOMAIN diags : source \in DOMAIN diags[e] } }

DiagnosticsFor(configured, graphs, diags, source) ==
    LET owned == IsOwnedByConfiguredEntry(configured, graphs, source)
        contributors == { entry \in DOMAIN diags :
                            /\ source \in DOMAIN diags[entry]
                            /\ owned => entry \in configured }
    IN  UNION { diags[entry][source] : entry \in contributors }

(* publish_merged_source for every source of a set. *)
PublishMerged(configured, graphs, diags, published, affected) ==
    [s \in DOMAIN published |->
       IF s \in affected THEN DiagnosticsFor(configured, graphs, diags, s) ELSE published[s]]

SourcesOf(diags, entries) == UNION { DOMAIN diags[e] : e \in entries \cap DOMAIN diags }

(* publish: an entry's new diagnostics replace its old ones; the entry      *)
(* itself always has an item, so that its file is always published.         *)
WithEntry(found, entry) == IF entry \in DOMAIN found THEN found ELSE Assign(found, entry, {})

(* Mutant of AffectedByPublish: sources that lost their diagnostics since   *)
(* the entry's previous analysis are not published again.                   *)
AffectedByNewDiagnostics(diags, entry, found) == {entry} \cup DOMAIN found

AffectedByPublish(diags, entry, found) ==
    {entry} \cup DOMAIN found \cup SourcesOf(diags, {entry})

(* clear_source: the source's diagnostics of every entry. *)
ClearSource(diags, source) == [e \in DOMAIN diags |-> Erase(diags[e], {source})]
=============================================================================
