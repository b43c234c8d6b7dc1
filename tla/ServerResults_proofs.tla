------------------------ MODULE ServerResults_proofs ------------------------
(***************************************************************************)
(* What the server's tables hold: that the client shows what the publisher  *)
(* has, that snapshots are made from the texts the sources now have, and    *)
(* that no standalone entry stays beside an entry that imports it.  Each    *)
(* holds for every finite set of sources, every set of texts and every      *)
(* bound on the moves, under a condition that its theorem names; without    *)
(* the condition it fails, as the README describes.                         *)
(***************************************************************************)
EXTENDS LanguageServer_proofs

-----------------------------------------------------------------------------
(***************************************************************************)
(* Diagnostics.  Without configured entries nobody owns a source, and what  *)
(* is published for it is always the union over all entries: every place    *)
(* that changes an entry's diagnostics publishes each source they are, or   *)
(* were, about.                                                             *)
(***************************************************************************)
Shown(dg, s) == UNION { dg[entry][s] : entry \in { e \in DOMAIN dg : s \in DOMAIN dg[e] } }

ShowsInv ==
    /\ Configured = {} /\ configured = {}
    /\ published \in [Sources -> FoundText]
    /\ \A s \in Sources : published[s] = Shown(diags, s)

LEMMA NobodyOwns ==
    ASSUME NEW gr, NEW dg, NEW s
    PROVE  DiagnosticsFor({}, gr, dg, s) = Shown(dg, s)
  BY DEF DiagnosticsFor, Shown, IsOwnedByConfiguredEntry

(* Entries that say nothing of a source do not change what it shows. *)
LEMMA ShownOfOthers ==
    ASSUME NEW old, NEW new, NEW s,
           \A e \in DOMAIN old : s \in DOMAIN old[e]
              => e \in DOMAIN new /\ s \in DOMAIN new[e] /\ new[e][s] = old[e][s],
           \A e \in DOMAIN new : s \in DOMAIN new[e]
              => e \in DOMAIN old /\ s \in DOMAIN old[e]
    PROVE  Shown(new, s) = Shown(old, s)
  <1> DEFINE In(dg) == { e \in DOMAIN dg : s \in DOMAIN dg[e] }
  <1>1. In(old) = In(new) /\ \A e \in In(old) : new[e][s] = old[e][s]
    OBVIOUS
  <1>2. { old[e][s] : e \in In(old) } = { new[e][s] : e \in In(new) }
    BY <1>1
  <1> QED BY <1>2 DEF Shown

LEMMA ErasedShow ==
    ASSUME NEW dg, NEW entries, NEW s, s \notin SourcesOf(dg, entries)
    PROVE  Shown(Erase(dg, entries), s) = Shown(dg, s)
  <1>1. \A e \in DOMAIN dg : s \in DOMAIN dg[e] => e \notin entries
    BY DEF SourcesOf
  <1>2. /\ DOMAIN Erase(dg, entries) = DOMAIN dg \ entries
        /\ \A e \in DOMAIN dg \ entries : Erase(dg, entries)[e] = dg[e]
    BY DEF Erase
  <1> QED BY <1>1, <1>2, ShownOfOthers

LEMMA ClearedShow ==
    ASSUME NEW dg, NEW cleared, NEW s
    PROVE  /\ s # cleared => Shown(ClearSource(dg, cleared), s) = Shown(dg, s)
           /\ Shown(ClearSource(dg, cleared), cleared) = {}
  <1>1. /\ DOMAIN ClearSource(dg, cleared) = DOMAIN dg
        /\ \A e \in DOMAIN dg :
             /\ DOMAIN ClearSource(dg, cleared)[e] = DOMAIN dg[e] \ {cleared}
             /\ \A x \in DOMAIN dg[e] \ {cleared} : ClearSource(dg, cleared)[e][x] = dg[e][x]
    BY DEF ClearSource, Erase
  <1>2. ASSUME s # cleared
        PROVE  Shown(ClearSource(dg, cleared), s) = Shown(dg, s)
    BY <1>1, <1>2, ShownOfOthers
  <1>3. Shown(ClearSource(dg, cleared), cleared) = {}
    BY <1>1 DEF Shown
  <1> QED BY <1>2, <1>3

(* The four tables change together and the sources of what goes are         *)
(* published.                                                               *)
LEMMA MergedShow ==
    ASSUME ShowsInv, NEW gr, NEW dg, NEW affected, NEW merged,
           merged = PublishMerged({}, gr, dg, published, affected),
           \A s \in Sources \ affected : Shown(dg, s) = Shown(diags, s)
    PROVE  /\ DOMAIN merged = Sources
           /\ \A s \in Sources : merged[s] = Shown(dg, s)
  BY NobodyOwns DEF ShowsInv, PublishMerged

LEMMA DeleteShows ==
    ASSUME TypeInv, TypeInv', ShowsInv, HandleDeletedSource
    PROVE  ShowsInv'
  <1>1. PICK dropped :
          /\ diags' = ClearSource(Erase(diags, dropped), source)
          /\ published' = [PublishMerged({}, Erase(graphs, dropped),
                                         Erase(diags, dropped), published,
                                         SourcesOf(diags, dropped)) EXCEPT ![source] = {}]
          /\ configured' = configured
    BY DEF HandleDeletedSource, ShowsInv
  <1> DEFINE merged == PublishMerged({}, Erase(graphs, dropped), Erase(diags, dropped),
                                     published, SourcesOf(diags, dropped))
  <1>2. /\ DOMAIN merged = Sources
        /\ \A s \in Sources : merged[s] = Shown(Erase(diags, dropped), s)
    BY ErasedShow, MergedShow
  <1>3. published' = [merged EXCEPT ![source] = {}]
    BY <1>1
  <1> HIDE DEF merged
  <1>4. ASSUME NEW s \in Sources
        PROVE  published'[s] = Shown(diags', s)
    BY <1>1, <1>2, <1>3, ClearedShow
  <1>5. published' \in [Sources -> FoundText]
    BY DEF TypeInv, TypeOK, TablesTypeOK
  <1> QED BY <1>1, <1>4, <1>5 DEF ShowsInv

LEMMA TablesShow ==
    ASSUME TypeInv', ShowsInv, NEW gr, NEW dg, NEW affected,
           configured' = configured, diags' = dg,
           published' = PublishMerged(configured, gr, dg, published, affected),
           \A s \in Sources \ affected : Shown(dg, s) = Shown(diags, s)
    PROVE  ShowsInv'
  <1>1. \A s \in Sources : published'[s] = Shown(diags', s)
    BY MergedShow DEF ShowsInv
  <1>2. published' \in [Sources -> FoundText]
    BY DEF TypeInv, TypeOK, TablesTypeOK
  <1> QED BY <1>1, <1>2 DEF ShowsInv

LEMMA DropShows ==
    ASSUME TypeInv', ShowsInv, NEW entries, DropEntries(entries), configured' = configured
    PROVE  ShowsInv'
  BY ErasedShow, TablesShow DEF DropEntries, Tables

LEMMA ShowsInductive == TypeInv /\ TypeInv' /\ ShowsInv /\ [Next]_vars => ShowsInv'
  <1> SUFFICES ASSUME TypeInv, TypeInv', ShowsInv, [Next]_vars PROVE ShowsInv'
    OBVIOUS
  <1>1. CASE UNCHANGED <<configured, diags, published>>
    BY <1>1 DEF ShowsInv
  <1>2. CASE NoTableStep
    BY <1>1, <1>2, NoTableFrame
  <1>3. CASE HandleInitialize \/ MarkSourceAvailable \/ PublishSnapshots
    <2>1. UNCHANGED <<diags, published>> /\ configured' \in {configured, Configured}
      BY <1>3 DEF HandleInitialize, MarkSourceAvailable, PublishSnapshots, tableVars, entryVars
    <2> QED BY <2>1 DEF ShowsInv
  <1>4. CASE HandleDeletedSource
    BY <1>4, DeleteShows
  <1>5. CASE TearDownClosed
    <2>1. CASE UNCHANGED tableVars
      BY <1>1, <1>5, <2>1 DEF TearDownClosed, tableVars
    <2>2. ASSUME NEW dg,
                 dg = (IF source \in DOMAIN diags THEN Erase(diags, {source})
                                                  ELSE ClearSource(diags, source)),
                 Tables(known \ {source}, Erase(graphs, {source}), dg,
                        SourcesOf(diags, {source}) \cup {source})
          PROVE  ShowsInv'
      <3>1. \A s \in Sources \ (SourcesOf(diags, {source}) \cup {source}) :
              Shown(dg, s) = Shown(diags, s)
        BY <2>2, ErasedShow, ClearedShow
      <3>2. configured' = configured /\ diags' = dg
            /\ published' = PublishMerged(configured, Erase(graphs, {source}), dg, published,
                                          SourcesOf(diags, {source}) \cup {source})
        BY <1>5, <2>2 DEF TearDownClosed, Tables
      <3> QED BY <3>1, <3>2, TablesShow
    <2> QED BY <1>5, <2>1, <2>2 DEF TearDownClosed
  <1>6. ASSUME NEW s \in Sources, ResolveSource(s) PROVE ShowsInv'
    <2>1. configured' = configured /\ (UNCHANGED tableVars \/ DropEntries({s}))
      BY <1>6 DEF ResolveSource
    <2> QED BY <1>1, <2>1, DropShows DEF tableVars
  <1>7. CASE RecheckEntry
    <2>1. configured' = configured /\ (UNCHANGED tableVars \/ DropEntries({Head(batch)}))
      BY <1>7 DEF RecheckEntry
    <2> QED BY <1>1, <2>1, DropShows DEF tableVars
  <1>8. CASE RegisterAnalysis
    <2>1. configured' = configured /\ \E subsumed, gr :
            /\ diags' = Erase(diags, subsumed)
            /\ published' = PublishMerged(configured, gr, Erase(diags, subsumed), published,
                                          SourcesOf(diags, subsumed))
      BY <1>8 DEF RegisterAnalysis, Tables
    <2> QED BY <2>1, ErasedShow, TablesShow
  <1>9. CASE PublishDiagnostics
    <2> DEFINE entry == job.entry
               new == WithEntry(job.found, entry)
               affected == AffectedByPublish(diags, entry, job.found)
    <2>1. /\ configured' = configured /\ diags' = Assign(diags, entry, new)
          /\ published' = PublishMerged(configured, graphs, Assign(diags, entry, new), published,
                                        affected)
      BY <1>9 DEF PublishDiagnostics, entryVars
    <2>2. /\ DOMAIN new \subseteq affected
          /\ entry \in DOMAIN diags => DOMAIN diags[entry] \subseteq affected
      <3>1. DOMAIN new \subseteq {entry} \cup DOMAIN job.found
        <4>1. DOMAIN Assign(job.found, entry, {}) = DOMAIN job.found \cup {entry}
          BY AssignDomain
        <4> QED BY <4>1 DEF WithEntry
      <3>2. entry \in DOMAIN diags => DOMAIN diags[entry] \subseteq SourcesOf(diags, {entry})
        BY DEF SourcesOf
      <3> QED BY <3>1, <3>2 DEF AffectedByPublish
    <2> HIDE DEF new, affected, entry
    <2>3. /\ DOMAIN Assign(diags, entry, new) = DOMAIN diags \cup {entry}
          /\ Assign(diags, entry, new)[entry] = new
          /\ \A e \in DOMAIN diags \ {entry} : Assign(diags, entry, new)[e] = diags[e]
      BY DEF Assign
    <2>4. ASSUME NEW s \in Sources \ affected
          PROVE  Shown(Assign(diags, entry, new), s) = Shown(diags, s)
      BY <2>2, <2>3, ShownOfOthers
    <2> QED BY <2>1, <2>4, TablesShow
  <1> QED BY <1>2, <1>3, <1>4, <1>5, <1>6, <1>7, <1>8, <1>9, TableCases

(* Without configured entries the client always shows what diagnostics_for   *)
(* answers, not only when everything is handled: every source that gains,    *)
(* keeps or loses diagnostics is published in the step that changes them.    *)
THEOREM ClientIsUpToDate == Configured = {} /\ Spec => []ClientShowsDiagnostics
  <1>1. Configured = {} /\ Init => ShowsInv
    BY DEF Init, ShowsInv, Shown, FoundText
  <1>2. ShowsInv => ClientShowsDiagnostics
    BY NobodyOwns DEF ShowsInv, ClientShowsDiagnostics
  <1> QED BY <1>1, <1>2, ShowsInductive, TypeInitially, TypeInductive, PTL DEF Spec

-----------------------------------------------------------------------------
(***************************************************************************)
(* Snapshots.  A text that moved on is owed an analysis from the moment it  *)
(* moved: it is on its way to the queue, in the queue, or it is being       *)
(* resolved; and an entry that read the old text waits in the batch or is   *)
(* being analysed, until its snapshot is replaced.                          *)
(***************************************************************************)
Owed(s) ==
    \/ events[s] # "none"
    \/ main = "mark" /\ source = s
    \/ s \in toSchedule
    \/ s \in pending

(* In the round that goes on, and nothing that has been seen was settled.   *)
Resolving(x) == x \in remaining /\ seen \subseteq Elements(batch)

Waiting(entry) == entry \in Elements(IF worker \in Analysing THEN Tail(batch) ELSE batch)

(* An analysis of the entry that will read the source is certain.           *)
Coming(entry, s) ==
    Owed(s) \/ entry \in pending \/ Resolving(s) \/ Resolving(entry) \/ Waiting(entry)

Unpublished == {"load", "import", "stopcheck", "publish", "snapshot"}

UnderWay(entry) == worker \in Unpublished /\ job.entry = entry

IsFresh(entry, s) ==
    Readable(s) => references[entry].current[s] = Text(s) \/ Coming(entry, s)

EntriesAreFresh ==
    \A entry \in known : UnderWay(entry) \/ \A s \in UsedBy(entry) : IsFresh(entry, s)

JobIsFresh ==
    worker \in Unpublished =>
      \A s \in DOMAIN job.loaded : Readable(s) => job.loaded[s] = Text(s) \/ Owed(s)

(* Where the main thread is.  A file that is closed would discard a text    *)
(* without scheduling those who read it.                                    *)
MainPlaceInv ==
    /\ "close" \notin EditorMoves
    /\ main \notin {"exists", "teardown", "unschedule"}
    /\ main \notin {"schedule", "notify"} => toSchedule = {}
    /\ stop => main \in {"notify_stop", "join", "exited"}

(* seen_entries is empty between two batches, and a run is that of the      *)
(* batch's head.                                                            *)
WorkerPlaceInv ==
    /\ worker \in {"idle", "asleep", "debounce", "done"} => seen = {}
    /\ worker \in Analysing => job.entry = Head(batch)

ServerInv == TypeInv /\ TablesInv /\ DeletedEntriesStayGone /\ QueueInv /\ WorkerPlaceInv

BaseInv == ServerInv /\ MainPlaceInv

FreshInv == BaseInv /\ JobIsFresh /\ (stop \/ EntriesAreFresh)

(* The entry's part of the tables stays as it is. *)
Kept(entry) ==
    /\ entry \in known /\ entry \in DOMAIN graphs /\ entry \in DOMAIN graphs'
    /\ references'[entry] = references[entry] /\ graphs'[entry] = graphs[entry]

LEMMA KeptUses ==
    ASSUME NEW entry, Kept(entry)
    PROVE  UsedBy(entry)' = UsedBy(entry)
  BY DEF Kept, UsedBy, EntryDependsOn

LEMMA UsedAreSources ==
    ASSUME TypeInv, TablesInv, NEW entry \in known, ~UnderWay(entry)
    PROVE  /\ entry \in DOMAIN references
           /\ UsedBy(entry) \subseteq DOMAIN references[entry].current
           /\ UsedBy(entry) \subseteq Sources
  <1>1. entry \in DOMAIN references
    BY DEF TablesInv, TablesAgree, UnderWay, Unpublished
  <1>2. IsHashMap(references, Sources, ReferenceStates)
    BY DEF TypeInv, TypeOK, TablesTypeOK
  <1>3. references[entry].current \in Loaded
    BY <1>1, <1>2, ReferenceStateAt DEF ReferenceStates
  <1>4. DOMAIN references[entry].current \subseteq Sources
    BY <1>3, HashMapIff DEF Loaded, IsHashMap
  <1> QED BY <1>1, <1>4 DEF UsedBy

LEMMA LoadedAreSources ==
    ASSUME TypeInv, worker \in Analysing
    PROVE  /\ job.entry \in Sources /\ DOMAIN job.loaded \subseteq Sources
           /\ job \in Jobs
  <1>1. job \in Jobs
    BY DEF TypeInv, TypeOK, JobTypeOK
  <1>2. job.entry \in Sources /\ job.loaded \in Loaded
    BY <1>1 DEF Jobs
  <1> QED BY <1>1, <1>2, HashMapIff DEF Loaded, IsHashMap

(* Entries that are not dropped are kept. *)
LEMMA ErasedKeep ==
    ASSUME TablesInv, worker # "snapshot", NEW entries,
           known' = known \ entries, graphs' = Erase(graphs, entries),
           references' = Erase(references, entries)
    PROVE  \A entry \in known' : Kept(entry)
  <1>1. DOMAIN graphs = known /\ DOMAIN references = known
    BY DEF TablesInv, TablesAgree
  <1> QED BY <1>1 DEF Kept, Erase

LEMMA SameKeep ==
    ASSUME TablesInv, UNCHANGED <<known, graphs, references>>
    PROVE  \A entry \in known' : Kept(entry)
  BY DEF Kept, TablesInv, TablesAgree

-----------------------------------------------------------------------------
(* Steps of the editor and the main thread: whatever text moves on is owed   *)
(* from that step on, and what was owed stays owed.                          *)
LEMMA MainKeepsFresh ==
    ASSUME FreshInv, UNCHANGED <<remaining, seen, batch, job>>, stop => stop',
           worker' = worker \/ (worker = "asleep" /\ worker' = "idle"),
           pending \subseteq pending',
           \A s \in Sources : Readable(s)' => Owed(s)' \/ (Text(s)' = Text(s) /\ ~Owed(s)),
           worker # "snapshot" => \A entry \in known' : Kept(entry),
           worker = "snapshot" => UNCHANGED <<known, graphs, references>>
    PROVE  JobIsFresh' /\ (stop' \/ EntriesAreFresh')
  <1>1. JobIsFresh'
    <2> SUFFICES ASSUME worker' \in Unpublished, NEW s \in DOMAIN job.loaded, Readable(s)'
                 PROVE  job.loaded[s] = Text(s)' \/ Owed(s)'
      BY DEF JobIsFresh
    <2>1. worker = worker' /\ worker \in Analysing
      BY DEF Unpublished, Analysing
    <2>2. s \in Sources
      BY <2>1, LoadedAreSources DEF FreshInv, BaseInv, ServerInv
    <2>3. CASE Owed(s)'
      BY <2>3
    <2>4. CASE Text(s)' = Text(s) /\ ~Owed(s)
      BY <2>1, <2>4 DEF FreshInv, JobIsFresh, Readable
    <2> QED BY <2>2, <2>3, <2>4
  <1>2. ASSUME ~stop, NEW entry \in known'
        PROVE  UnderWay(entry)' \/ \A s \in UsedBy(entry)' : IsFresh(entry, s)'
    <2>1. CASE UnderWay(entry)
      BY <2>1 DEF UnderWay, Unpublished
    <2>2. CASE ~UnderWay(entry)
      <3>1. Kept(entry) /\ UsedBy(entry)' = UsedBy(entry) /\ entry \in known
        BY KeptUses, SameKeep DEF FreshInv, BaseInv, ServerInv, Kept
      <3>2. ASSUME NEW s \in UsedBy(entry), Readable(s)'
            PROVE  references'[entry].current[s] = Text(s)' \/ Coming(entry, s)'
        <4>1. s \in Sources
          BY <2>2, <3>1, UsedAreSources DEF FreshInv, BaseInv, ServerInv
        <4>2. CASE Owed(s)'
          BY <4>2 DEF Coming
        <4>3. CASE Text(s)' = Text(s) /\ ~Owed(s)
          <5>1. IsFresh(entry, s)
            BY <1>2, <2>2, <3>1 DEF FreshInv, EntriesAreFresh
          <5>2. references[entry].current[s] = Text(s)
                \/ entry \in pending \/ Resolving(s) \/ Resolving(entry) \/ Waiting(entry)
            BY <3>2, <4>3, <5>1 DEF IsFresh, Coming, Readable
          <5>3. /\ Resolving(s)' = Resolving(s) /\ Resolving(entry)' = Resolving(entry)
                /\ Waiting(entry)' = Waiting(entry)
            BY DEF Resolving, Waiting, Elements, Analysing
          <5> QED BY <3>1, <4>3, <5>2, <5>3 DEF Coming, Kept
        <4> QED BY <3>2, <4>1, <4>2, <4>3
      <3> QED BY <3>1, <3>2 DEF IsFresh
    <2> QED BY <2>1, <2>2
  <1> QED BY <1>1, <1>2 DEF EntriesAreFresh

(* The main thread and the editor. *)
LEMMA MainFresh ==
    ASSUME FreshInv, Editor \/ MainOnly \/ Notify \/ StopAnalysisWorker
                       \/ (\E s \in Sources : ScheduleAnalysis(s))
    PROVE  JobIsFresh' /\ (stop' \/ EntriesAreFresh')
  <1> DEFINE Moves ==
        \A s \in Sources : Readable(s)' => Owed(s)' \/ (Text(s)' = Text(s) /\ ~Owed(s))
  <1>1. MainPlaceInv /\ TablesInv
    BY DEF FreshInv, BaseInv, ServerInv
  <1>2. CASE Editor
    <2>1. Moves /\ UNCHANGED <<pending, stop, workerVars, known, graphs, references>>
      BY <1>2 DEF Editor, WriteFile, RemoveFile, Owed, Text, Readable, EditorTypeOK,
         mainVars, queueVars, tableVars, FreshInv, BaseInv, ServerInv, TypeInv, TypeOK
    <2> QED BY <1>1, <2>1, MainKeepsFresh, SameKeep DEF workerVars
  <1>3. ASSUME NEW x \in Sources, NEW text \in Texts,
               HandleDidOpen(x, text) \/ HandleDidChange(x, text)
        PROVE  JobIsFresh' /\ (stop' \/ EntriesAreFresh')
    <2>1. Moves /\ UNCHANGED <<pending, stop, workerVars, known, graphs, references>>
      BY <1>1, <1>3 DEF HandleDidOpen, HandleDidChange, Handling, Owed, Text, Readable,
         EditorTypeOK,
         queueVars, tableVars, FreshInv, BaseInv, ServerInv, TypeInv, TypeOK
    <2> QED BY <1>1, <2>1, MainKeepsFresh, SameKeep DEF workerVars
  <1>4. ASSUME NEW x \in Sources, HandleWatchedFile(x)
        PROVE  JobIsFresh' /\ (stop' \/ EntriesAreFresh')
    <2>1. /\ main = "idle" /\ toSchedule = {} /\ source' = x
          /\ UNCHANGED <<disk, overlay, pending>>
          /\ events' = [events EXCEPT ![x] = "none"]
          /\ events \in [Sources -> {"none", "changed", "deleted"}]
          /\ \/ main' = "mark"
             \/ toSchedule' = {x}
             \/ ~Readable(x)
      BY <1>1, <1>4 DEF HandleWatchedFile, Handling, queueVars, MainPlaceInv,
         FreshInv, BaseInv, ServerInv, TypeInv, TypeOK, EditorTypeOK
    <2>2. Moves
      BY <2>1 DEF Owed, Text, Readable
    <2>3. UNCHANGED <<pending, stop, workerVars, known, graphs, references>>
      BY <1>4 DEF HandleWatchedFile, queueVars, tableVars
    <2> QED BY <1>1, <2>2, <2>3, MainKeepsFresh, SameKeep DEF workerVars
  <1>5. CASE HandleInitialize \/ MarkSourceAvailable
    <2>1. /\ UNCHANGED <<disk, overlay, events, source, pending, stop, workerVars,
                         known, graphs, references>>
          /\ toSchedule = {}
          /\ main = "mark" => source \in toSchedule'
      BY <1>1, <1>5 DEF HandleInitialize, MarkSourceAvailable, Handling, MainPlaceInv,
         editorVars, queueVars, tableVars
    <2>2. Moves
      BY <2>1 DEF Owed, Text, Readable
    <2> QED BY <1>1, <2>1, <2>2, MainKeepsFresh, SameKeep DEF workerVars
  <1>6. CASE HandleDeletedSource
    <2>1. /\ UNCHANGED <<disk, overlay, events, source, pending, stop, workerVars>>
          /\ toSchedule = {} /\ main # "mark" /\ worker # "snapshot"
          /\ \E dropped : /\ known' = known \ dropped /\ graphs' = Erase(graphs, dropped)
                          /\ references' = Erase(references, dropped)
      BY <1>1, <1>6 DEF HandleDeletedSource, Handling, StateMutexFree, MainPlaceInv,
         editorVars, queueVars
    <2>2. Moves
      BY <2>1 DEF Owed, Text, Readable
    <2> QED BY <1>1, <2>1, <2>2, MainKeepsFresh, ErasedKeep DEF workerVars
  <1>7. CASE RenameStep
    <2>1. /\ UNCHANGED <<disk, overlay, events, source, toSchedule, pending, stop, workerVars,
                         known, graphs, references>>
          /\ main # "mark"
      BY <1>7, RenameFrame DEF Renaming
    <2>2. Moves
      BY <2>1 DEF Owed, Text, Readable
    <2> QED BY <1>1, <2>1, <2>2, MainKeepsFresh, SameKeep DEF workerVars
  <1>8. CASE HandleExit \/ JoinAnalysisWorker \/ StopAnalysisWorker \/ Notify
    <2>1. /\ UNCHANGED <<disk, overlay, events, source, toSchedule, pending,
                         remaining, seen, batch, job, known, graphs, references>>
          /\ main # "mark" /\ (stop => stop')
          /\ worker' = worker \/ (worker = "asleep" /\ worker' = "idle")
      BY <1>8 DEF HandleExit, JoinAnalysisWorker, StopAnalysisWorker, Notify, Handling,
         editorVars, queueVars, workerVars, tableVars
    <2>2. Moves
      BY <2>1 DEF Owed, Text, Readable
    <2> QED BY <1>1, <2>1, <2>2, MainKeepsFresh, SameKeep
  <1>9. ASSUME NEW x \in Sources, ScheduleAnalysis(x)
        PROVE  JobIsFresh' /\ (stop' \/ EntriesAreFresh')
    <2>1. /\ UNCHANGED <<disk, overlay, events, source, stop, workerVars,
                         known, graphs, references>>
          /\ main # "mark" /\ pending' = pending \cup {x} /\ toSchedule' = toSchedule \ {x}
      BY <1>9 DEF ScheduleAnalysis, Handling, editorVars, tableVars
    <2>2. Moves
      BY <2>1 DEF Owed, Text, Readable
    <2> QED BY <1>1, <2>1, <2>2, MainKeepsFresh, SameKeep DEF workerVars
  <1>10. ~LookForClosedFile /\ ~TearDownClosed /\ \A x \in Sources : ~HandleDidClose(x)
    BY <1>1 DEF MainPlaceInv, LookForClosedFile, TearDownClosed, HandleDidClose, Edit, Handling
  <1> QED BY <1>2, <1>3, <1>4, <1>5, <1>6, <1>7, <1>8, <1>9, <1>10 DEF MainOnly

-----------------------------------------------------------------------------
(* A run stays with its entry, and what it has loaded was read as it loads.  *)
LEMMA RunKeepsEntry ==
    ASSUME TypeInv, LoadSource \/ ResolveImport \/ FinishAnalysis
    PROVE  /\ job'.entry = job.entry
           /\ \A s \in DOMAIN job'.loaded :
                \/ s \in DOMAIN job.loaded /\ job'.loaded[s] = job.loaded[s]
                \/ job'.loaded[s] = Text(s)
  <1>1. job \in Jobs
    BY LoadedAreSources DEF LoadSource, ResolveImport, FinishAnalysis, At, Analysing
  <1>2. job'.entry = job.entry
    BY <1>1 DEF LoadSource, ResolveImport, FinishAnalysis, Abort, Jobs
  <1>3. \/ job'.loaded = job.loaded
        \/ job'.loaded = Assign(job.loaded, job.next, Text(job.next))
    <2>1. CASE LoadSource
      BY <1>1, <2>1 DEF LoadSource, Abort, Jobs
    <2>2. CASE ResolveImport
      BY <1>1, <2>2 DEF ResolveImport, Abort, Jobs
    <2>3. CASE FinishAnalysis
      BY <1>1, <2>3 DEF FinishAnalysis, Jobs
    <2> QED BY <2>1, <2>2, <2>3
  <1>4. ASSUME NEW s \in DOMAIN Assign(job.loaded, job.next, Text(job.next))
        PROVE  \/ /\ s \in DOMAIN job.loaded
                  /\ Assign(job.loaded, job.next, Text(job.next))[s] = job.loaded[s]
               \/ Assign(job.loaded, job.next, Text(job.next))[s] = Text(s)
    BY DEF Assign
  <1> QED BY <1>2, <1>3, <1>4

(* Where the threads are. *)
LEMMA MainPlaceInductive ==
    ASSUME TypeInv, MainPlaceInv, [Next]_vars
    PROVE  MainPlaceInv'
  <1> USE DEF MainPlaceInv
  <1>1. CASE UNCHANGED <<main, toSchedule, stop>>
    BY <1>1
  <1>2. CASE Editor \/ WorkerOnly \/ WaitForWork \/ TakeBatch \/ HandBack \/ SpuriousWakeup
             \/ UNCHANGED vars
    <2>1. UNCHANGED <<main, toSchedule, stop>>
      BY <1>2, WorkerOnlyFrame DEF Editor, WriteFile, RemoveFile, WaitForWork, TakeBatch, HandBack,
         SpuriousWakeup, vars, mainVars, queueVars
    <2> QED BY <1>1, <2>1
  <1>3. CASE MainOnly
    <2>1. CASE RenameStep
      <3>1. UNCHANGED <<toSchedule, stop>> /\ main \in {"idle"} \cup Renaming
            /\ main' \in {"idle"} \cup Renaming
        BY <2>1, RenameFrame, RenameType DEF TypeInv, TypeOK
      <3> QED BY <3>1 DEF Renaming
    <2>2. CASE ~RenameStep
      <3>1. stop' = stop
        BY <1>3, MainOnlyFrame
      <3>2. /\ main' \notin {"exists", "teardown", "unschedule"}
            /\ main' \notin {"schedule", "notify"} => toSchedule' = {}
            /\ main \in {"start", "idle", "mark", "delete"} \/ main' \in {"stop", "exited"}
        <4>1. CASE HandleInitialize \/ HandleExit \/ MarkSourceAvailable \/ JoinAnalysisWorker
          BY <4>1 DEF HandleInitialize, HandleExit, MarkSourceAvailable, JoinAnalysisWorker,
             Handling
        <4>2. ASSUME NEW s \in Sources, NEW text \in Texts,
                     HandleDidOpen(s, text) \/ HandleDidChange(s, text)
              PROVE  main' = "mark" /\ main = "idle" /\ toSchedule' = toSchedule
          BY <4>2 DEF HandleDidOpen, HandleDidChange, Handling
        <4>3. ASSUME NEW s \in Sources, HandleWatchedFile(s)
              PROVE  /\ main = "idle" /\ main' \in {"mark", "schedule", "delete"}
                     /\ main' # "schedule" => toSchedule' = {}
          BY <4>3 DEF HandleWatchedFile, Handling, TypeInv, TypeOK, EditorTypeOK
        <4>4. CASE HandleDeletedSource
          BY <4>4 DEF HandleDeletedSource, Handling
        <4>5. ~LookForClosedFile /\ ~TearDownClosed /\ \A s \in Sources : ~HandleDidClose(s)
          BY DEF MainPlaceInv, LookForClosedFile, TearDownClosed, HandleDidClose, Edit, Handling
        <4> QED BY <1>3, <2>2, <4>1, <4>2, <4>3, <4>4, <4>5 DEF MainOnly
      <3>3. stop => main' \in {"notify_stop", "join", "exited"}
        <4>1. stop => main \notin {"start", "idle", "mark", "delete"}
          OBVIOUS
        <4>2. main' = "stop" => main = "idle"
          BY <1>3, <2>2 DEF MainOnly, HandleInitialize, HandleDidOpen, HandleDidChange,
             HandleDidClose, HandleWatchedFile, HandleExit, LookForClosedFile, MarkSourceAvailable,
             HandleDeletedSource, TearDownClosed, JoinAnalysisWorker, Handling
        <4> QED BY <3>2, <4>1, <4>2
      <3> QED BY <3>1, <3>2, <3>3
    <2> QED BY <2>1, <2>2
  <1>4. ASSUME Unschedule \/ Notify \/ StopAnalysisWorker \/ \E s \in Sources : ScheduleAnalysis(s)
        PROVE  MainPlaceInv'
    BY <1>4 DEF Unschedule, Notify, StopAnalysisWorker, ScheduleAnalysis, Handling, queueVars
  <1> QED BY <1>2, <1>3, <1>4, NextCases

LEMMA WorkerPlaceInductive ==
    ASSUME TypeInv, WorkerPlaceInv, [Next]_vars
    PROVE  WorkerPlaceInv'
  <1> USE DEF WorkerPlaceInv
  <1>1. CASE UNCHANGED workerVars
    BY <1>1 DEF workerVars
  <1>2. CASE Editor \/ MainOnly \/ Unschedule \/ StopAnalysisWorker
             \/ (\E s \in Sources : ScheduleAnalysis(s)) \/ UNCHANGED vars
    <2>1. UNCHANGED workerVars
      BY <1>2, MainOnlyFrame DEF Editor, WriteFile, RemoveFile, Unschedule, StopAnalysisWorker,
         ScheduleAnalysis, vars, workerVars
    <2> QED BY <1>1, <2>1
  <1>3. CASE Notify \/ SpuriousWakeup \/ WaitForWork \/ KeepDebouncing \/ StopDebouncing
             \/ TakeBatch \/ EndOfRound \/ NextEntry \/ NextRound \/ FirstRound \/ HandBack
             \/ (\E s \in Sources : ResolveSource(s))
    BY <1>3 DEF Notify, SpuriousWakeup, WaitForWork, KeepDebouncing, StopDebouncing,
       TakeBatch, EndOfRound, NextEntry, NextRound, FirstRound, HandBack, ResolveSource, At,
       Analysing
  <1>4. CASE RecheckEntry
    <2>1. CASE worker' = "guard"
      BY <2>1 DEF Analysing
    <2>2. CASE /\ worker' = "load" /\ batch' = batch
               /\ \E mode : job' = [NoJob EXCEPT !.entry = Head(batch), !.next = Head(batch),
                                                 !.mode = mode]
      BY <2>2 DEF NoJob
    <2> QED BY <1>4, <2>1, <2>2 DEF RecheckEntry
  <1>5. CASE LoadSource \/ ResolveImport \/ FinishAnalysis
    <2>1. worker \in Analysing /\ batch' = batch /\ worker' \in Analysing
      BY <1>5 DEF LoadSource, ResolveImport, FinishAnalysis, Abort, CompilerRunFrame, At, Analysing
    <2>2. job'.entry = job.entry
      BY <1>5, RunKeepsEntry
    <2> QED BY <2>1, <2>2 DEF Analysing
  <1>6. CASE StopCheck \/ DropDeletedResult \/ RegisterAnalysis \/ PublishSnapshots
             \/ PublishDiagnostics
    BY <1>6 DEF StopCheck, DropDeletedResult, RegisterAnalysis, PublishSnapshots,
       PublishDiagnostics, LeaveEntry, At, Analysing
  <1> QED BY <1>2, <1>3, <1>4, <1>5, <1>6, NextCases DEF WorkerOnly

-----------------------------------------------------------------------------
(* Sequences of entries. *)
LEMMA ElementsOfOrder ==
    ASSUME NEW set \in SUBSET Sources, NEW order \in Orders(set)
    PROVE  Elements(order) = set
  <1>1. IsFiniteSet(set)
    BY TextsAssumption, FS_Subset
  <1>2. /\ order \in [1..Cardinality(set) -> set]
        /\ \A x \in set : \E k \in DOMAIN order : order[k] = x
    BY DEF Orders
  <1> QED BY <1>2 DEF Elements

(* A resolved source adds what it affects and has not been seen: the        *)
(* configured entries first.                                                *)
Fresh(s) == Affected(s) \ seen
FirstFresh(s) == Fresh(s) \cap AffectedConfigured(configured, graphs, s)

LEMMA ResolvedParts ==
    ASSUME TypeInv, NEW s \in Sources, ResolveSource(s)
    PROVE  /\ seen' = seen \cup Fresh(s)
           /\ \E p \in Seq(Sources), o \in Seq(Sources), q \in Seq(Sources) :
                /\ batch' = batch \o p \o o \o q
                /\ Elements(p) = FirstFresh(s)
                /\ Elements(p) \cup Elements(o) \cup Elements(q) = Fresh(s)
  <1> DEFINE fresh == Affected(s) \ seen
             first == fresh \cap AffectedConfigured(configured, graphs, s)
             own == (fresh \cap {s}) \ first
             others == fresh \ (first \cup own)
  <1>1. fresh \in SUBSET Sources
    BY AffectedAreSources DEF Affected, TablesTypeOK, TypeInv, TypeOK
  <1>2. PICK p \in Orders(first), o \in Orders(own), q \in Orders(others) :
          batch' = batch \o p \o o \o q
    BY DEF ResolveSource
  <1>3. seen' = seen \cup fresh
    BY DEF ResolveSource
  <1>4. /\ first \in SUBSET Sources /\ own \in SUBSET Sources /\ others \in SUBSET Sources
        /\ first \cup own \cup others = fresh
        /\ fresh = Fresh(s) /\ first = FirstFresh(s)
    BY <1>1 DEF Fresh, FirstFresh
  <1> HIDE DEF fresh, first, own, others
  <1>5. /\ Elements(p) = first /\ Elements(o) = own /\ Elements(q) = others
    BY <1>4, ElementsOfOrder
  <1>6. p \in Seq(Sources) /\ o \in Seq(Sources) /\ q \in Seq(Sources)
    <2>1. p \in Seq(first) /\ o \in Seq(own) /\ q \in Seq(others)
      BY <1>4, OrdersAreSequences
    <2> QED BY <1>4, <2>1
  <1> QED BY <1>2, <1>3, <1>4, <1>5, <1>6

LEMMA ResolvedBatch ==
    ASSUME TypeInv, NEW s \in Sources, ResolveSource(s)
    PROVE  /\ Elements(batch') = Elements(batch) \cup Fresh(s)
           /\ seen' = seen \cup Fresh(s)
  <1>1. PICK p \in Seq(Sources), o \in Seq(Sources), q \in Seq(Sources) :
          /\ batch' = batch \o p \o o \o q
          /\ Elements(p) \cup Elements(o) \cup Elements(q) = Fresh(s)
    BY ResolvedParts
  <1>2. batch \in Seq(Sources)
    BY DEF TypeInv, TypeOK, WorkerTypeOK
  <1>3. /\ batch \o p \in Seq(Sources) /\ batch \o p \o o \in Seq(Sources)
    BY <1>2
  <1>4. ASSUME NEW left \in Seq(Sources), NEW right \in Seq(Sources)
        PROVE  Elements(left \o right) = Elements(left) \cup Elements(right)
    BY ElementsOfConcatenation
  <1>5. Elements(batch \o p) = Elements(batch) \cup Elements(p)
    BY <1>2, <1>4
  <1>6. Elements(batch \o p \o o) = Elements(batch \o p) \cup Elements(o)
    BY <1>3, <1>4
  <1>7. Elements(batch \o p \o o \o q) = Elements(batch \o p \o o) \cup Elements(q)
    BY <1>3, <1>4
  <1> QED BY <1>1, <1>5, <1>6, <1>7, ResolvedParts

-----------------------------------------------------------------------------
(* Steps of the worker: the texts stay, and whoever awaits an analysis keeps *)
(* awaiting it, or it begins.                                                *)
LEMMA WorkerKeepsFresh ==
    ASSUME FreshInv, UNCHANGED <<disk, overlay>>, stop' = stop,
           \A entry \in known' :
             \/ UnderWay(entry)'
             \/ /\ Kept(entry) /\ ~UnderWay(entry)
                /\ \A s \in UsedBy(entry) \cap Sources : Coming(entry, s) => Coming(entry, s)'
    PROVE  stop' \/ EntriesAreFresh'
  <1> SUFFICES ASSUME ~stop, NEW entry \in known', ~UnderWay(entry)', NEW s \in UsedBy(entry)'
               PROVE  IsFresh(entry, s)'
    BY DEF EntriesAreFresh
  <1>1. /\ Kept(entry) /\ ~UnderWay(entry) /\ entry \in known
        /\ \A x \in UsedBy(entry) \cap Sources : Coming(entry, x) => Coming(entry, x)'
    BY DEF Kept
  <1>2. s \in UsedBy(entry) \cap Sources
    BY <1>1, KeptUses, UsedAreSources DEF FreshInv, BaseInv, ServerInv
  <1>3. IsFresh(entry, s)
    BY <1>1, <1>2 DEF FreshInv, EntriesAreFresh
  <1>4. Text(s)' = Text(s)
    BY DEF Text
  <1> QED BY <1>1, <1>2, <1>3, <1>4 DEF IsFresh, Readable, Kept

(* The worker's pauses, and the queue between two batches.                  *)
LEMMA PauseFresh ==
    ASSUME FreshInv,
           \/ WaitForWork \/ KeepDebouncing \/ StopDebouncing \/ TakeBatch \/ SpuriousWakeup
           \/ EndOfRound \/ NextEntry \/ NextRound \/ FirstRound \/ HandBack
    PROVE  JobIsFresh' /\ (stop' \/ EntriesAreFresh')
  <1>1. /\ UNCHANGED <<disk, overlay, events, main, source, toSchedule>>
        /\ UNCHANGED <<stop, job, known, graphs, references>>
        /\ worker \notin Analysing /\ worker' \notin Analysing
    BY DEF WaitForWork, KeepDebouncing, StopDebouncing, TakeBatch, SpuriousWakeup,
       EndOfRound, NextEntry, NextRound, FirstRound, HandBack, At, Analysing, editorVars,
       mainVars, queueVars,
       tableVars
  <1>2. JobIsFresh'
    BY <1>1 DEF JobIsFresh, Unpublished, Analysing
  <1>3. \A entry \in known' : Kept(entry) /\ ~UnderWay(entry)
    BY <1>1, SameKeep DEF FreshInv, BaseInv, ServerInv, UnderWay, Unpublished, Analysing
  <1>4. /\ worker \notin {"taken", "resolve"} => remaining = {}
        /\ worker \in {"idle", "asleep", "debounce", "done"} => batch = <<>> /\ seen = {}
    BY DEF FreshInv, BaseInv, ServerInv, QueueInv, WorkerPlaceInv, TypeInv, BatchInv
  <1>5. ASSUME NEW entry, NEW s, Coming(entry, s)
        PROVE  Coming(entry, s)'
    <2>1. /\ \A x : Waiting(x) <=> x \in Elements(batch)
          /\ \A x : Waiting(x)' <=> x \in Elements(batch')
      BY <1>1 DEF Waiting
    <2>2. CASE TakeBatch
      <3>1. /\ remaining' = pending /\ seen' = {} /\ remaining = {} /\ batch = <<>>
        BY <1>4, <2>2 DEF TakeBatch, At
      <3>2. \A x \in pending : Resolving(x)'
        BY <3>1 DEF Resolving
      <3>3. Elements(batch) = {}
        BY <3>1 DEF Elements
      <3> QED BY <1>1, <1>5, <2>1, <3>1, <3>2, <3>3 DEF Coming, Owed, Resolving
    <2>3. CASE HandBack
      <3>1. /\ pending' = pending \cup Elements(batch) /\ remaining = {}
        BY <1>4, <2>3 DEF HandBack, At
      <3> QED BY <1>1, <1>5, <2>1, <3>1 DEF Coming, Owed, Resolving
    <2>4. CASE EndOfRound
      <3>1. remaining = {} /\ UNCHANGED <<pending, batch>>
        BY <2>4 DEF EndOfRound, queueVars
      <3> QED BY <1>1, <1>5, <2>1, <3>1 DEF Coming, Owed, Resolving
    <2>5. CASE \/ WaitForWork \/ KeepDebouncing \/ StopDebouncing \/ SpuriousWakeup
               \/ NextEntry \/ NextRound
      <3>1. remaining = {} /\ UNCHANGED <<pending, batch>>
        BY <1>4, <2>5 DEF WaitForWork, KeepDebouncing, StopDebouncing, SpuriousWakeup,
           NextEntry, NextRound, queueVars, At
      <3> QED BY <1>1, <1>5, <2>1, <3>1 DEF Coming, Owed, Resolving
    <2>6. CASE FirstRound
      <3>1. UNCHANGED <<pending, remaining, seen, batch>>
        BY <2>6 DEF FirstRound, queueVars
      <3> QED BY <1>1, <1>5, <2>1, <3>1 DEF Coming, Owed, Resolving
    <2> QED BY <2>2, <2>3, <2>4, <2>5, <2>6
  <1> QED BY <1>1, <1>2, <1>3, <1>5, WorkerKeepsFresh

(* An entry that uses a source is among those the source affects.           *)
LEMMA UserIsAffected ==
    ASSUME NEW entry \in known, NEW s \in UsedBy(entry), s # entry
    PROVE  entry \in Affected(s)
  BY DEF UsedBy, Affected, AffectedEntries

LEMMA ResolveFresh ==
    ASSUME FreshInv, NEW x \in Sources, ResolveSource(x)
    PROVE  JobIsFresh' /\ (stop' \/ EntriesAreFresh')
  <1>1. /\ UNCHANGED <<disk, overlay, events, main, source, toSchedule>>
        /\ UNCHANGED <<pending, stop, job>>
        /\ worker = "resolve" /\ worker' = "resolve" /\ remaining' = remaining \ {x}
    BY DEF ResolveSource, At, editorVars, mainVars, queueVars
  <1>2. JobIsFresh'
    BY <1>1 DEF JobIsFresh, Unpublished
  <1>3. /\ Elements(batch') = Elements(batch) \cup (Affected(x) \ seen)
        /\ seen' = seen \cup (Affected(x) \ seen)
    BY ResolvedBatch DEF Fresh, FreshInv, BaseInv, ServerInv
  <1>4. /\ \A entry \in known' : Kept(entry)
        /\ x \in known' => x \in Affected(x)
    <2>1. TablesInv
      BY DEF FreshInv, BaseInv, ServerInv
    <2>2. CASE UNCHANGED tableVars /\ x \in Affected(x)
      BY <2>1, <2>2, SameKeep DEF tableVars
    <2>3. CASE DropEntries({x})
      BY <1>1, <2>1, <2>3, ErasedKeep DEF DropEntries, Tables
    <2> QED BY <2>2, <2>3 DEF ResolveSource
  <1>5. /\ \A e : Waiting(e) <=> e \in Elements(batch)
        /\ \A e : Waiting(e)' <=> e \in Elements(batch')
    BY <1>1 DEF Waiting, Analysing
  <1>6. ASSUME NEW e, Resolving(e)
        PROVE  /\ e # x => Resolving(e)'
               /\ e = x => \A entry \in Affected(x) : Waiting(entry)'
    <2>1. seen \subseteq Elements(batch) /\ e \in remaining
      BY <1>6 DEF Resolving
    <2>2. seen' \subseteq Elements(batch') /\ Affected(x) \subseteq Elements(batch')
      BY <1>3, <2>1
    <2> QED BY <1>1, <1>5, <2>1, <2>2 DEF Resolving
  <1>7. ASSUME NEW entry \in known', NEW s \in UsedBy(entry), Coming(entry, s)
        PROVE  Coming(entry, s)'
    <2>1. entry \in known
      BY <1>4 DEF Kept
    <2>2. CASE Owed(s) \/ entry \in pending \/ Waiting(entry)
      BY <1>1, <1>3, <1>5, <2>2 DEF Coming, Owed
    <2>3. CASE Resolving(entry)
      BY <1>4, <1>6, <2>3 DEF Coming
    <2>4. CASE Resolving(s)
      BY <1>4, <1>6, <2>1, <2>4, UserIsAffected DEF Coming
    <2> QED BY <1>7, <2>2, <2>3, <2>4 DEF Coming
  <1>8. \A entry \in known' : ~UnderWay(entry)
    BY <1>1 DEF UnderWay, Unpublished
  <1> QED BY <1>1, <1>2, <1>4, <1>7, <1>8, WorkerKeepsFresh

(* The batch's head is taken up, or settled: the others go on waiting.      *)
LEMMA HeadWaits ==
    ASSUME NEW S, NEW seq \in Seq(S), seq # <<>>, NEW x \in Elements(seq), x # Head(seq)
    PROVE  x \in Elements(Tail(seq))
  BY ElementsOfTail

LEMMA RecheckFresh ==
    ASSUME FreshInv, RecheckEntry
    PROVE  JobIsFresh' /\ (stop' \/ EntriesAreFresh')
  <1>1. /\ UNCHANGED <<disk, overlay, events, main, source, toSchedule>>
        /\ UNCHANGED <<pending, stop, remaining, seen>>
        /\ worker = "recheck" /\ remaining = {}
    BY DEF RecheckEntry, At, editorVars, mainVars, queueVars, FreshInv, BaseInv, ServerInv, TypeInv,
       BatchInv
  <1>2. batch \in Seq(Sources) /\ batch # <<>> /\ TablesInv
    BY <1>1 DEF FreshInv, BaseInv, ServerInv, TypeInv, TypeOK, WorkerTypeOK, BatchInv
  <1>3. \A entry : Waiting(entry) <=> entry \in Elements(batch)
    BY <1>1 DEF Waiting, Analysing
  <1>4. CASE /\ worker' = "load" /\ batch' = batch /\ UNCHANGED tableVars
             /\ \E mode : job' = [NoJob EXCEPT !.entry = Head(batch), !.next = Head(batch),
                                               !.mode = mode]
    <2>1. job'.entry = Head(batch) /\ DOMAIN job'.loaded = {}
      BY <1>4 DEF NoJob
    <2>2. JobIsFresh'
      BY <2>1 DEF JobIsFresh
    <2>3. \A entry \in known' : Kept(entry) /\ ~UnderWay(entry)
      BY <1>1, <1>2, <1>4, SameKeep DEF tableVars, UnderWay, Unpublished
    <2>4. ASSUME NEW entry, NEW s, entry # Head(batch), Coming(entry, s)
          PROVE  Coming(entry, s)'
      <3>1. Waiting(entry) => Waiting(entry)'
        BY <1>2, <1>3, <1>4, <2>4, HeadWaits DEF Waiting, Analysing
      <3> QED BY <1>1, <2>4, <3>1 DEF Coming, Owed, Resolving
    <2>5. \A entry \in known' : entry = Head(batch) => UnderWay(entry)'
      BY <1>4, <2>1 DEF UnderWay, Unpublished
    <2> QED BY <1>1, <2>2, <2>3, <2>4, <2>5, WorkerKeepsFresh
  <1>5. CASE worker' = "guard" /\ batch' = Tail(batch) /\ DropEntries({Head(batch)})
    <2>1. JobIsFresh'
      BY <1>5 DEF JobIsFresh, Unpublished
    <2>2. \A entry \in known' : Kept(entry) /\ ~UnderWay(entry) /\ entry # Head(batch)
      BY <1>1, <1>2, <1>5, ErasedKeep DEF DropEntries, Tables, UnderWay, Unpublished
    <2>3. ASSUME NEW entry, NEW s, entry # Head(batch), Coming(entry, s)
          PROVE  Coming(entry, s)'
      <3>1. Waiting(entry) => Waiting(entry)'
        BY <1>2, <1>3, <1>5, <2>3, HeadWaits DEF Waiting, Analysing
      <3> QED BY <1>1, <2>3, <3>1 DEF Coming, Owed, Resolving
    <2> QED BY <1>1, <2>1, <2>2, <2>3, WorkerKeepsFresh
  <1> QED BY <1>4, <1>5 DEF RecheckEntry

(* While a batch is analysed the steps of the run and of its publication    *)
(* leave what the entries wait for alone.                                   *)
LEMMA RunFrame ==
    ASSUME FreshInv,
           \/ LoadSource \/ ResolveImport \/ FinishAnalysis \/ StopCheck
           \/ DropDeletedResult \/ RegisterAnalysis \/ PublishSnapshots \/ PublishDiagnostics
    PROVE  /\ UNCHANGED <<disk, overlay, events, main, source, toSchedule>>
           /\ UNCHANGED <<pending, stop, remaining, seen>>
           /\ worker \in Analysing
           /\ \A entry, s : Coming(entry, s) => Coming(entry, s)'
  <1>1. /\ UNCHANGED <<disk, overlay, events, main, source, toSchedule>>
        /\ UNCHANGED <<pending, stop, remaining, seen>>
        /\ worker \in Analysing
        /\ \/ worker' \in Analysing /\ batch' = batch
           \/ worker' = "guard" /\ batch' = Tail(batch)
    BY DEF LoadSource, ResolveImport, FinishAnalysis, StopCheck, DropDeletedResult,
       RegisterAnalysis, PublishSnapshots, PublishDiagnostics, LeaveEntry, Abort,
       CompilerRunFrame, At, Analysing, editorVars, mainVars, queueVars
  <1>2. remaining = {}
    BY <1>1 DEF FreshInv, BaseInv, ServerInv, TypeInv, BatchInv, Analysing
  <1>3. \A entry : Waiting(entry)' <=> Waiting(entry)
    BY <1>1 DEF Waiting, Analysing, Elements
  <1> QED BY <1>1, <1>2, <1>3 DEF Coming, Owed, Resolving

(* The tables stay while the compiler runs, and the run reads the texts as   *)
(* they are.                                                                 *)
LEMMA RunFresh ==
    ASSUME FreshInv, LoadSource \/ ResolveImport \/ FinishAnalysis \/ StopCheck
    PROVE  JobIsFresh' /\ (stop' \/ EntriesAreFresh')
  <1>1. /\ worker \in Unpublished /\ TypeInv /\ TablesInv
        /\ UNCHANGED <<known, graphs, references>>
    BY DEF LoadSource, ResolveImport, FinishAnalysis, StopCheck, At, Unpublished,
       CompilerRunFrame, tableVars, FreshInv, BaseInv, ServerInv
  <1>2. ASSUME NEW s
        PROVE  Text(s)' = Text(s) /\ (Owed(s) => Owed(s)')
    BY RunFrame DEF Text, Owed
  <1>3. CASE LoadSource \/ ResolveImport \/ FinishAnalysis
    <2>1. worker' \in Unpublished
      BY <1>3 DEF LoadSource, ResolveImport, FinishAnalysis, Abort, Unpublished
    <2>2. /\ job'.entry = job.entry
          /\ \A s \in DOMAIN job'.loaded :
               \/ s \in DOMAIN job.loaded /\ job'.loaded[s] = job.loaded[s]
               \/ job'.loaded[s] = Text(s)
      BY <1>1, <1>3, RunKeepsEntry
    <2>3. JobIsFresh'
      BY <1>1, <1>2, <2>2 DEF FreshInv, JobIsFresh, Readable
    <2>4. \A entry \in known' : Kept(entry) /\ (UnderWay(entry) => UnderWay(entry)')
      BY <1>1, <2>1, <2>2, SameKeep DEF UnderWay
    <2> QED BY <2>3, <2>4, RunFrame, WorkerKeepsFresh
  <1>4. CASE StopCheck
    <2>1. CASE stop /\ worker' = "guard"
      BY <2>1, RunFrame DEF JobIsFresh, Unpublished
    <2>2. CASE worker' = "publish" /\ job' = job
      <3>1. JobIsFresh'
        BY <1>1, <1>2, <2>2 DEF FreshInv, JobIsFresh, Readable
      <3>2. \A entry \in known' : Kept(entry) /\ (UnderWay(entry) => UnderWay(entry)')
        BY <1>1, <2>2, SameKeep DEF UnderWay, Unpublished
      <3> QED BY <3>1, <3>2, RunFrame, WorkerKeepsFresh
    <2> QED BY <1>4, <2>1, <2>2 DEF StopCheck
  <1> QED BY <1>3, <1>4

(* The result is dropped, or gets into the tables. *)
LEMMA ResultFresh ==
    ASSUME FreshInv,
           \/ DropDeletedResult \/ RegisterAnalysis \/ PublishSnapshots \/ PublishDiagnostics
    PROVE  JobIsFresh' /\ (stop' \/ EntriesAreFresh')
  <1>1. TypeInv /\ TablesInv /\ DeletedEntriesStayGone
    BY DEF FreshInv, BaseInv, ServerInv
  <1>2. ASSUME NEW s
        PROVE  Text(s)' = Text(s) /\ (Owed(s) => Owed(s)')
    BY RunFrame DEF Text, Owed
  <1>3. CASE DropDeletedResult
    <2>1. /\ worker = "publish" /\ worker' = "guard" /\ job.entry \in deleted
          /\ UNCHANGED <<known, graphs, references>>
      BY <1>3 DEF DropDeletedResult, LeaveEntry, WasDeleted, At, tableVars
    <2>2. JobIsFresh'
      BY <2>1 DEF JobIsFresh, Unpublished
    <2>3. \A entry \in known' : Kept(entry) /\ ~UnderWay(entry)
      BY <1>1, <2>1, SameKeep DEF DeletedEntriesStayGone, UnderWay, Kept
    <2> QED BY <2>2, <2>3, RunFrame, WorkerKeepsFresh
  <1>4. CASE RegisterAnalysis
    <2> DEFINE entry == job.entry
               register == job.success \/ ~HasSuccessfulSnapshot(entry)
               newKnown == IF register THEN known \cup {entry} ELSE known
               newGraphs == IF register THEN Assign(graphs, entry, job.edges) ELSE graphs
               subsumed == IF job.success
                           THEN SubsumedEntries(configured, newKnown, newGraphs, entry)
                           ELSE {}
    <2>1. /\ worker = "publish" /\ worker' = "snapshot" /\ job' = job
          /\ known' = newKnown \ subsumed
          /\ graphs' = Erase(newGraphs, subsumed)
          /\ references' = Erase(references, subsumed)
      BY <1>4 DEF RegisterAnalysis, Tables, At
    <2>2. JobIsFresh'
      BY <1>2, <2>1 DEF FreshInv, JobIsFresh, Readable, Unpublished
    <2>3. /\ DOMAIN graphs = known /\ DOMAIN references = known
      BY <1>1, <2>1 DEF TablesInv, TablesAgree
    <2>4. /\ newKnown \subseteq known \cup {entry}
          /\ \A e \in known \ {entry} : e \in DOMAIN newGraphs /\ newGraphs[e] = graphs[e]
      BY <2>3 DEF Assign
    <2> HIDE DEF entry, register, newKnown, newGraphs, subsumed
    <2>5. ASSUME NEW e \in known', e # entry
          PROVE  Kept(e) /\ ~UnderWay(e)
      <3>1. e \in known /\ e \notin subsumed
        BY <2>1, <2>4, <2>5
      <3>2. /\ e \in DOMAIN graphs' /\ graphs'[e] = newGraphs[e]
            /\ references'[e] = references[e]
        BY <2>1, <2>3, <2>4, <2>5, <3>1 DEF Erase
      <3> QED BY <2>3, <2>4, <2>5, <3>1, <3>2 DEF Kept, UnderWay, entry
    <2>6. ASSUME NEW e \in known', e = entry
          PROVE  UnderWay(e)'
      BY <2>1, <2>6 DEF UnderWay, Unpublished, entry
    <2> QED BY <2>2, <2>5, <2>6, RunFrame, WorkerKeepsFresh
  <1>5. CASE PublishSnapshots
    <2>1. /\ worker = "snapshot" /\ worker' = "diagnose" /\ UNCHANGED <<known, graphs>>
          /\ references' = Assign(references, job.entry,
                                ReferenceState(references, job.entry, job))
      BY <1>5 DEF PublishSnapshots, At, entryVars
    <2>2. JobIsFresh'
      BY <2>1 DEF JobIsFresh, Unpublished
    <2>3. ASSUME NEW e \in known', e # job.entry, ~stop
          PROVE  \A s \in UsedBy(e)' : IsFresh(e, s)'
      <3>1. Kept(e) /\ ~UnderWay(e)
        BY <1>1, <2>1, <2>3 DEF Kept, UnderWay, TablesInv, TablesAgree, Assign
      <3>2. \A s \in UsedBy(e) : IsFresh(e, s)
        BY <2>3, <3>1 DEF FreshInv, EntriesAreFresh, Kept
      <3>3. UsedBy(e)' = UsedBy(e) /\ references'[e] = references[e]
        BY <3>1, KeptUses DEF Kept
      <3> QED BY <1>2, <3>2, <3>3, RunFrame DEF IsFresh, Readable
    <2>4. ASSUME NEW e \in known', e = job.entry
          PROVE  \A s \in UsedBy(e)' : IsFresh(e, s)'
      <3>1. references'[e].current = job.loaded
        BY <2>1, <2>4 DEF Assign, ReferenceState
      <3>2. \A s \in DOMAIN job.loaded : Readable(s) => job.loaded[s] = Text(s) \/ Owed(s)
        BY <2>1 DEF FreshInv, JobIsFresh, Unpublished
      <3>3. \A s \in UsedBy(e)' : s \in DOMAIN job.loaded
        BY <3>1 DEF UsedBy
      <3> QED BY <1>2, <3>1, <3>2, <3>3 DEF IsFresh, Readable, Coming
    <2>5. stop' = stop
      BY RunFrame
    <2> QED BY <2>2, <2>3, <2>4, <2>5 DEF EntriesAreFresh
  <1>6. CASE PublishDiagnostics
    <2>1. /\ worker = "diagnose" /\ worker' = "guard" /\ UNCHANGED <<known, graphs, references>>
      BY <1>6 DEF PublishDiagnostics, LeaveEntry, At, entryVars
    <2>2. JobIsFresh'
      BY <2>1 DEF JobIsFresh, Unpublished
    <2>3. \A entry \in known' : Kept(entry) /\ ~UnderWay(entry)
      BY <1>1, <2>1, SameKeep DEF UnderWay, Unpublished
    <2> QED BY <2>2, <2>3, RunFrame, WorkerKeepsFresh
  <1> QED BY <1>3, <1>4, <1>5, <1>6

-----------------------------------------------------------------------------
LEMMA ServerInductive == ServerInv /\ [Next]_vars => ServerInv'
  <1> SUFFICES ASSUME ServerInv, [Next]_vars PROVE ServerInv'
    OBVIOUS
  <1>1. TypeInv' /\ TablesInv' /\ DeletedEntriesStayGone' /\ WorkerPlaceInv'
    BY TypeInductive, TablesInductive, DeletionInductive, WorkerPlaceInductive DEF ServerInv
  <1>2. QueueInv'
    BY QueueInductive DEF ServerInv, RefinementInv
  <1> QED BY <1>1, <1>2 DEF ServerInv

LEMMA ServerInitially == Init => ServerInv
  <1>1. Init => TablesInv /\ DeletedEntriesStayGone /\ QueueInv /\ WorkerPlaceInv
    BY DEF Init, TablesInv, TablesAgree, DeletedEntriesStayGone, QueueInv, WorkerPlaceInv,
       Analysing
  <1> QED BY <1>1, TypeInitially DEF ServerInv

LEMMA FreshInductive == FreshInv /\ [Next]_vars => FreshInv'
  <1> SUFFICES ASSUME FreshInv, [Next]_vars PROVE FreshInv'
    OBVIOUS
  <1>1. BaseInv'
    BY ServerInductive, MainPlaceInductive DEF FreshInv, BaseInv, ServerInv
  <1>2. CASE Editor \/ MainOnly \/ Notify \/ StopAnalysisWorker
               \/ (\E s \in Sources : ScheduleAnalysis(s))
    BY <1>1, <1>2, MainFresh DEF FreshInv
  <1>3. CASE \/ WaitForWork \/ KeepDebouncing \/ StopDebouncing \/ TakeBatch \/ SpuriousWakeup
             \/ EndOfRound \/ NextEntry \/ NextRound \/ FirstRound \/ HandBack
    BY <1>1, <1>3, PauseFresh DEF FreshInv
  <1>4. CASE (\E s \in Sources : ResolveSource(s)) \/ RecheckEntry
    BY <1>1, <1>4, ResolveFresh, RecheckFresh DEF FreshInv
  <1>5. CASE \/ LoadSource \/ ResolveImport \/ FinishAnalysis \/ StopCheck
             \/ DropDeletedResult \/ RegisterAnalysis \/ PublishSnapshots \/ PublishDiagnostics
    BY <1>1, <1>5, RunFresh, ResultFresh DEF FreshInv
  <1>6. ~Unschedule
    BY DEF FreshInv, BaseInv, ServerInv, MainPlaceInv, Unschedule, Handling
  <1>7. CASE UNCHANGED vars
    <2>1. JobIsFresh' = JobIsFresh
      BY <1>7 DEF vars, JobIsFresh, Readable, Text, Owed
    <2>2. EntriesAreFresh' = EntriesAreFresh
      BY <1>7 DEF vars, EntriesAreFresh, UnderWay, UsedBy, IsFresh, Readable, Text, Coming, Owed,
         Resolving, Waiting
    <2> QED BY <1>1, <1>7, <2>1, <2>2 DEF FreshInv, vars
  <1> QED BY <1>2, <1>3, <1>4, <1>5, <1>6, <1>7, NextCases DEF WorkerOnly

(* No edit, file event or deletion is overtaken by an analysis that was      *)
(* running when it came: when everything is handled, every snapshot was made *)
(* from the texts its sources have now.  (Where no file is closed: closing   *)
(* discards a text, and only the closed file's own entry is looked at.)      *)
THEOREM EditsAreNotOvertaken == "close" \notin EditorMoves /\ Spec => []SnapshotsAreFresh
  <1>1. "close" \notin EditorMoves /\ Init => FreshInv
    <2> SUFFICES ASSUME "close" \notin EditorMoves, Init PROVE FreshInv
      OBVIOUS
    <2>1. ServerInv /\ MainPlaceInv
      BY ServerInitially DEF Init, MainPlaceInv
    <2>2. JobIsFresh /\ EntriesAreFresh
      BY DEF Init, JobIsFresh, EntriesAreFresh, Unpublished
    <2> QED BY <2>1, <2>2 DEF FreshInv, BaseInv
  <1>2. FreshInv => SnapshotsAreFresh
    <2> SUFFICES ASSUME FreshInv, Quiescent, NEW entry \in known, NEW s \in UsedBy(entry),
                        Readable(s)
                 PROVE  references[entry].current[s] = Text(s)
      BY DEF SnapshotsAreFresh
    <2>1. /\ main = "idle" /\ worker \in {"idle", "asleep"} /\ pending = {} /\ ~stop
          /\ \A x \in Sources : events[x] = "none"
          /\ toSchedule = {} /\ remaining = {} /\ batch = <<>>
      BY DEF Quiescent, AtRest, FreshInv, BaseInv, ServerInv, MainPlaceInv, QueueInv, TypeInv,
         BatchInv
    <2>2. ~UnderWay(entry)
      BY <2>1 DEF UnderWay, Unpublished
    <2>3. s \in Sources /\ IsFresh(entry, s)
      BY <2>1, <2>2, UsedAreSources DEF FreshInv, BaseInv, ServerInv, EntriesAreFresh
    <2>4. ~Coming(entry, s)
      BY <2>1, <2>3 DEF Coming, Owed, Resolving, Waiting, Elements, Analysing
    <2> QED BY <2>3, <2>4 DEF IsFresh
  <1> QED BY <1>1, <1>2, FreshInductive, PTL DEF Spec

-----------------------------------------------------------------------------
(***************************************************************************)
(* Redundant entries.  An entry that a completely analysed entry imports    *)
(* loses its tables when that analysis is registered, and is not analysed   *)
(* while one imports it - unless ownership is unknown, while a configured   *)
(* entry has no graph.  Then the configured entries of a batch come first,  *)
(* so that once a standalone entry is reached none is without a graph: as   *)
(* long as the configured entries exist.                                    *)
(***************************************************************************)
ConfiguredExist == \A c \in Configured : c \in Workspace /\ disk[c] # None

Missing == configured \ DOMAIN graphs

ConfigInv ==
    /\ configured \subseteq Configured
    /\ \A c \in Configured : c \notin deleted
    /\ main = "delete" => source \notin Configured
    /\ main = "start" => /\ known = {} /\ pending = {} /\ worker \in {"idle", "asleep"}
                         /\ ~stop

(* Every member of first is in the sequence before any member of rest. *)
InOrder(seq, first, rest) ==
    \A k \in DOMAIN seq : seq[k] \in rest =>
      \A c \in first : \E j \in DOMAIN seq : j < k /\ seq[j] = c

OrderOK ==
    /\ Missing = {} \/ known \cap Workspace \subseteq configured
    /\ InOrder(batch, Missing, Workspace \ configured)
    /\ Missing \cap seen \subseteq Elements(batch)

(* A run that an exit cuts short leaves its entry without a graph; then no  *)
(* entry is analysed any more.                                              *)
Starting == {"recheck"} \cup Analysing

OrderInv == OrderOK \/ (stop /\ worker \notin Starting)

Running == {"load", "import", "stopcheck", "publish"}

ImportsInv ==
    /\ \A entry \in known, s \in known \ configured :
         HasSuccessfulSnapshot(entry) => ~EntryDependsOn(graphs, entry, s)
    /\ worker \in Running /\ job.entry \notin configured
         => \A entry \in known : ~EntryDependsOn(graphs, entry, job.entry)
    /\ worker = "snapshot" /\ job.success
         => \A s \in known \ configured : ~EntryDependsOn(graphs, job.entry, s)

RedundantInv == ServerInv /\ ConfigInv /\ OrderInv /\ ImportsInv

(* No entry depends on itself. *)
LEMMA NotOnItself ==
    ASSUME NEW gr, NEW entry
    PROVE  ~EntryDependsOn(gr, entry, entry)
  BY DEF EntryDependsOn, TransitiveDependents

-----------------------------------------------------------------------------
(* Configured entries are never deleted. *)
LEMMA ConfigInductive ==
    ASSUME TypeInv, ConfigInv, ConfiguredExist, [Next]_vars
    PROVE  ConfigInv'
  <1> DEFINE Parts == /\ configured \subseteq Configured
                      /\ \A c \in Configured : c \notin deleted
                      /\ main = "delete" => source \notin Configured
             Begin == main = "start" => /\ known = {} /\ pending = {}
                                        /\ worker \in {"idle", "asleep"} /\ ~stop
  <1>1. Parts /\ Begin
    BY DEF ConfigInv
  <1>2. Parts'
    <2>1. CASE UNCHANGED <<configured, deleted, main, source>>
      BY <1>1, <2>1
    <2>2. CASE Editor
      <3>1. UNCHANGED <<configured, deleted, main, source>>
        BY <2>2 DEF Editor, WriteFile, RemoveFile, mainVars
      <3> QED BY <2>1, <3>1
    <2>3. CASE MainOnly
      <3>2. /\ configured' \in {configured, Configured}
            /\ deleted' \subseteq deleted \/ (deleted' = deleted \cup {source} /\ main = "delete")
        BY <2>3, RenameFrame DEF MainOnly, HandleInitialize, HandleDidOpen, HandleDidChange,
           HandleDidClose, HandleWatchedFile, HandleExit, LookForClosedFile, MarkSourceAvailable,
           HandleDeletedSource, TearDownClosed, JoinAnalysisWorker, Handling
      <3>3. main' = "delete" => source' \notin Configured
        <4>1. CASE RenameStep
          BY <4>1, RenameFrame, RenameType DEF Renaming, TypeInv, TypeOK
        <4>2. ASSUME NEW s \in Sources, HandleWatchedFile(s), main' = "delete"
              PROVE  source' \notin Configured
          <5>1. source' = s /\ (~Readable(s) \/ events[s] \notin {"changed", "deleted"})
            BY <4>2 DEF HandleWatchedFile
          <5>2. ~Readable(s)
            BY <4>2, <5>1 DEF HandleWatchedFile, TypeInv, TypeOK, EditorTypeOK
          <5>3. disk[s] = None
            BY <5>2 DEF Readable, Text
          <5> QED BY <5>1, <5>3 DEF ConfiguredExist
        <4>3. CASE LookForClosedFile
          BY <4>3 DEF LookForClosedFile, ConfiguredExist
        <4>4. CASE \/ HandleInitialize
                   \/ \E s \in Sources :
                        \/ \E text \in Texts : HandleDidOpen(s, text) \/ HandleDidChange(s, text)
                        \/ HandleDidClose(s)
                   \/ HandleExit \/ MarkSourceAvailable \/ HandleDeletedSource
                   \/ TearDownClosed \/ JoinAnalysisWorker
          BY <4>4 DEF HandleInitialize, HandleDidOpen, HandleDidChange, HandleDidClose,
             HandleExit, MarkSourceAvailable, HandleDeletedSource, TearDownClosed,
             JoinAnalysisWorker
        <4> QED BY <2>3, <4>1, <4>2, <4>3, <4>4 DEF MainOnly
      <3> QED BY <1>1, <3>2, <3>3
    <2>4. CASE Notify \/ StopAnalysisWorker \/ Unschedule \/ \E s \in Sources : ScheduleAnalysis(s)
      <3>1. UNCHANGED <<configured, deleted>> /\ main' # "delete"
        BY <2>4 DEF Notify, StopAnalysisWorker, Unschedule, ScheduleAnalysis, Handling, editorVars
      <3> QED BY <1>1, <3>1
    <2>5. CASE WorkerOnly \/ WaitForWork \/ TakeBatch \/ HandBack \/ SpuriousWakeup
               \/ UNCHANGED vars
      <3>1. UNCHANGED <<configured, deleted, main, source>>
        BY <2>5, WorkerOnlyFrame DEF WaitForWork, TakeBatch, HandBack, SpuriousWakeup, vars,
           editorVars, mainVars
      <3> QED BY <2>1, <3>1
    <2> QED BY <2>2, <2>3, <2>4, <2>5, NextCases
  <1>3. Begin'
    <2>1. SUFFICES ASSUME main' = "start" PROVE Begin'
      OBVIOUS
    <2>2. CASE Editor \/ UNCHANGED vars
      BY <1>1, <2>1, <2>2 DEF Editor, WriteFile, RemoveFile, vars, mainVars, queueVars,
         workerVars, tableVars
    <2>3. CASE WaitForWork \/ SpuriousWakeup
      BY <1>1, <2>1, <2>3 DEF WaitForWork, SpuriousWakeup, At, mainVars, queueVars, tableVars
    <2>4. CASE WorkerOnly \/ TakeBatch \/ HandBack
      <3>1. main = "start" /\ worker \notin {"idle", "asleep"}
        BY <2>1, <2>4, WorkerOnlyFrame DEF WorkerOnly, TakeBatch, HandBack, KeepDebouncing,
           StopDebouncing, ResolveSource, EndOfRound, NextEntry, NextRound, FirstRound,
           RecheckEntry,
           LoadSource, ResolveImport, FinishAnalysis, StopCheck, DropDeletedResult,
           RegisterAnalysis, PublishSnapshots, PublishDiagnostics, At, mainVars
      <3> QED BY <1>1, <3>1
    <2>5. ~MainOnly /\ ~Unschedule /\ ~Notify /\ ~StopAnalysisWorker
          /\ \A s \in Sources : ~ScheduleAnalysis(s)
      <3>1. ~RenameStep
        BY <2>1, RenameType DEF Renaming, TypeInv, TypeOK
      <3>2. \A s \in Sources : ~HandleWatchedFile(s)
        BY <2>1 DEF HandleWatchedFile, TypeInv, TypeOK, EditorTypeOK
      <3> QED BY <2>1, <3>1, <3>2 DEF MainOnly, HandleInitialize, HandleDidOpen, HandleDidChange,
              HandleDidClose, HandleExit, LookForClosedFile, MarkSourceAvailable,
              HandleDeletedSource, TearDownClosed, JoinAnalysisWorker, Unschedule, Notify,
              StopAnalysisWorker, ScheduleAnalysis, Handling
    <2> QED BY <2>2, <2>3, <2>4, <2>5, NextCases
  <1> QED BY <1>1, <1>2, <1>3 DEF ConfigInv

-----------------------------------------------------------------------------
(* The order of a batch. *)
LEMMA OrderOfConcatenation ==
    ASSUME NEW S, NEW left \in Seq(S), NEW right \in Seq(S), NEW first, NEW rest,
           InOrder(left, first, rest),
           Elements(right) \cap rest # {} => first \subseteq Elements(left)
    PROVE  InOrder(left \o right, first, rest)
  <1> DEFINE whole == left \o right
             m == Len(left)
             n == Len(right)
  <1>1. /\ m \in Nat /\ DOMAIN left = 1..m
        /\ n \in Nat /\ DOMAIN right = 1..n
        /\ DOMAIN whole = 1..(m + n)
        /\ \A k \in 1..m : whole[k] = left[k]
        /\ \A k \in 1..n : whole[m + k] = right[k]
    OBVIOUS
  <1> HIDE DEF whole, m, n
  <1>2. ASSUME NEW k \in 1..(m + n), whole[k] \in rest, NEW c \in first
        PROVE  \E j \in 1..(m + n) : j < k /\ whole[j] = c
    <2>1. CASE k \in 1..m
      <3>1. left[k] \in rest
        BY <1>1, <1>2, <2>1
      <3>2. PICK j \in 1..m : j < k /\ left[j] = c
        BY <1>1, <2>1, <3>1 DEF InOrder
      <3> QED BY <1>1, <3>2
    <2>2. CASE k \notin 1..m
      <3>1. k - m \in 1..n /\ m + (k - m) = k
        BY <1>1, <2>2
      <3>2. right[k - m] \in rest
        BY <1>1, <1>2, <3>1
      <3>3. c \in Elements(left)
        BY <1>1, <3>1, <3>2 DEF Elements
      <3>4. PICK j \in 1..m : left[j] = c
        BY <1>1, <3>3 DEF Elements
      <3> QED BY <1>1, <2>2, <3>4
    <2> QED BY <2>1, <2>2
  <1>3. \A k \in DOMAIN whole : whole[k] \in rest =>
          \A c \in first : \E j \in DOMAIN whole : j < k /\ whole[j] = c
    BY <1>1, <1>2
  <1>4. InOrder(whole, first, rest)
    BY <1>3, Zenon DEF InOrder
  <1> QED BY <1>4 DEF whole

LEMMA OrderOfTail ==
    ASSUME NEW S, NEW seq \in Seq(S), seq # <<>>, NEW old, NEW first \in SUBSET old, NEW rest,
           InOrder(seq, old, rest), Head(seq) \notin first
    PROVE  InOrder(Tail(seq), first, rest)
  <1> DEFINE tail == Tail(seq)
             n == Len(seq)
  <1>1. /\ n \in Nat \ {0} /\ DOMAIN seq = 1..n /\ Head(seq) = seq[1]
        /\ DOMAIN tail = 1..(n - 1)
        /\ \A k \in 1..(n - 1) : tail[k] = seq[k + 1]
    OBVIOUS
  <1> HIDE DEF tail, n
  <1>2. ASSUME NEW k \in 1..(n - 1), tail[k] \in rest, NEW c \in first
        PROVE  \E j \in 1..(n - 1) : j < k /\ tail[j] = c
    <2>1. k + 1 \in 1..n /\ seq[k + 1] \in rest
      BY <1>1, <1>2
    <2>2. PICK j \in 1..n : j < k + 1 /\ seq[j] = c
      BY <1>1, <2>1 DEF InOrder
    <2>3. j # 1
      BY <1>1, <2>2
    <2>4. j - 1 \in 1..(n - 1) /\ j - 1 < k /\ (j - 1) + 1 = j
      BY <1>1, <1>2, <2>2, <2>3
    <2>5. tail[j - 1] = c
      BY <1>1, <2>2, <2>4
    <2> QED BY <2>4, <2>5
  <1>3. \A k \in DOMAIN tail : tail[k] \in rest =>
          \A c \in first : \E j \in DOMAIN tail : j < k /\ tail[j] = c
    BY <1>1, <1>2, SMTT(60)
  <1>4. InOrder(tail, first, rest)
    BY <1>3, Zenon DEF InOrder
  <1> QED BY <1>4 DEF tail

LEMMA NothingBeforeHead ==
    ASSUME NEW S, NEW seq \in Seq(S), seq # <<>>, NEW first, NEW rest,
           InOrder(seq, first, rest), Head(seq) \in rest
    PROVE  first = {}
  <1>1. DOMAIN seq = 1..Len(seq) /\ Head(seq) = seq[1] /\ 1 \in 1..Len(seq)
    OBVIOUS
  <1>2. ASSUME NEW c \in first PROVE FALSE
    <2>1. PICK j \in 1..Len(seq) : j < 1 /\ seq[j] = c
      BY <1>1 DEF InOrder
    <2> QED BY <2>1
  <1> QED BY <1>2

(* A standalone entry of the workspace is only reached when every           *)
(* configured entry has a graph.                                            *)
LEMMA HeadComesLast ==
    ASSUME TypeInv, OrderOK, batch # <<>>, Head(batch) \in Workspace \ configured
    PROVE  Missing = {}
  <1>1. batch \in Seq(Sources)
    BY DEF TypeInv, TypeOK, WorkerTypeOK
  <1> QED BY <1>1, NothingBeforeHead DEF OrderOK

-----------------------------------------------------------------------------
(* The steps that leave the batch as it is, or end it. *)
LEMMA SameOrder ==
    ASSUME OrderInv, configured' = configured, known' \subseteq known, Missing' \subseteq Missing,
           seen' \subseteq seen, batch' = batch \/ (batch' = <<>> /\ seen' = {}),
           stop => stop', worker' \in Starting => worker \in Starting \/ ~stop
    PROVE  OrderInv'
  <1>1. ASSUME OrderOK PROVE OrderOK'
    <2>1. Missing' = {} \/ known' \cap Workspace \subseteq configured'
      BY <1>1 DEF OrderOK
    <2>2. InOrder(batch', Missing', Workspace \ configured')
      <3>1. InOrder(batch, Missing, Workspace \ configured)
        BY <1>1 DEF OrderOK
      <3>2. CASE batch' = batch
        BY <3>1, <3>2 DEF InOrder
      <3>3. CASE batch' = <<>>
        BY <3>3 DEF InOrder
      <3> QED BY <3>2, <3>3
    <2>3. Missing' \cap seen' \subseteq Elements(batch')
      BY <1>1 DEF OrderOK, Elements
    <2> QED BY <2>1, <2>2, <2>3 DEF OrderOK, InOrder, Elements
  <1> QED BY <1>1 DEF OrderInv

(* The batch's head leaves it, and has a graph or is not configured. *)
LEMMA PoppedOrder ==
    ASSUME TypeInv, OrderInv, worker \in Starting, batch' = Tail(batch), batch # <<>>,
           configured' = configured, seen' = seen, known' \subseteq known,
           Missing' \subseteq Missing, Head(batch) \notin Missing'
    PROVE  OrderInv'
  <1>1. batch \in Seq(Sources) /\ OrderOK
    BY DEF TypeInv, TypeOK, WorkerTypeOK, OrderInv
  <1>2. InOrder(batch', Missing', Workspace \ configured')
    BY <1>1, OrderOfTail DEF OrderOK
  <1>3. Missing' \cap seen' \subseteq Elements(batch')
    BY <1>1, HeadWaits DEF OrderOK
  <1>4. Missing' = {} \/ known' \cap Workspace \subseteq configured'
    BY <1>1 DEF OrderOK
  <1> QED BY <1>2, <1>3, <1>4 DEF OrderInv, OrderOK, InOrder, Elements

LEMMA ConfiguredAffected ==
    ASSUME ConfiguredExist, configured \subseteq Configured, NEW s
    PROVE  /\ s \in configured => s \in Affected(s)
           /\ s \in Workspace => Missing \subseteq Affected(s)
                                  \cap AffectedConfigured(configured, graphs, s)
  <1> DEFINE own == AffectedConfigured(configured, graphs, s)
  <1>1. own \subseteq Affected(s)
    BY DEF Affected, AffectedEntries
  <1>2. /\ s \in configured => s \in own
        /\ s \in Workspace => Missing \subseteq own
    BY DEF AffectedConfigured, Missing, ConfiguredExist
  <1> QED BY <1>1, <1>2

(* Resolving a source adds its standalone entries behind every configured   *)
(* entry that has no graph yet.                                             *)
LEMMA ResolveOrder ==
    ASSUME TypeInv, ConfigInv, ConfiguredExist, OrderInv, NEW s \in Sources, ResolveSource(s)
    PROVE  OrderInv'
  <1>1. /\ configured' = configured /\ stop' = stop
        /\ worker = "resolve" /\ worker' = "resolve"
    BY DEF ResolveSource, At, queueVars
  <1>2. /\ known' \subseteq known /\ Missing' = Missing
    <2>1. CASE UNCHANGED tableVars
      BY <1>1, <2>1 DEF tableVars, Missing
    <2>2. CASE s \notin Affected(s) /\ DropEntries({s})
      <3>1. s \notin configured
        BY <2>2, ConfiguredAffected DEF ConfigInv
      <3>2. known' = known \ {s} /\ DOMAIN graphs' = DOMAIN graphs \ {s}
        BY <2>2 DEF DropEntries, Tables, Erase
      <3> QED BY <1>1, <3>1, <3>2 DEF Missing
    <2> QED BY <2>1, <2>2 DEF ResolveSource
  <1>3. ASSUME OrderOK PROVE OrderOK'
    <2> DEFINE rest == Workspace \ configured
    <2>1. PICK p \in Seq(Sources), o \in Seq(Sources), q \in Seq(Sources) :
            /\ batch' = batch \o p \o o \o q
            /\ Elements(p) = FirstFresh(s)
            /\ Elements(p) \cup Elements(o) \cup Elements(q) = Fresh(s)
      BY ResolvedParts
    <2>2. batch \in Seq(Sources)
      BY DEF TypeInv, TypeOK, WorkerTypeOK
    <2>3. /\ batch \o p \in Seq(Sources) /\ batch \o p \o o \in Seq(Sources)
      BY <2>2
    <2>4. ASSUME NEW left \in Seq(Sources), NEW right \in Seq(Sources)
          PROVE  Elements(left \o right) = Elements(left) \cup Elements(right)
      BY ElementsOfConcatenation
    <2>5. /\ Elements(batch \o p) = Elements(batch) \cup Elements(p)
          /\ Elements(batch \o p \o o) = Elements(batch) \cup Elements(p) \cup Elements(o)
      <3>1. Elements(batch \o p) = Elements(batch) \cup Elements(p)
        BY <2>2, <2>4
      <3>2. Elements(batch \o p \o o) = Elements(batch \o p) \cup Elements(o)
        BY <2>3, <2>4
      <3> QED BY <3>1, <3>2
    <2>6. /\ Elements(batch') = Elements(batch) \cup Fresh(s)
          /\ seen' = seen \cup Fresh(s)
      BY ResolvedBatch
    <2>7. Elements(p) \cap rest = {}
      BY <2>1 DEF FirstFresh, AffectedConfigured
    <2>8. ASSUME Fresh(s) \cap rest # {}
          PROVE  Missing \subseteq Elements(batch) \cup Elements(p)
      <3>1. CASE s \in Workspace
        <4>1. Missing \subseteq Affected(s) \cap AffectedConfigured(configured, graphs, s)
          BY <3>1, ConfiguredAffected DEF ConfigInv
        <4> QED BY <1>3, <2>1, <4>1 DEF OrderOK, Fresh, FirstFresh
      <3>2. CASE s \notin Workspace
        <4>1. PICK x \in Affected(s) : x \in rest
          BY <2>8 DEF Fresh
        <4>2. x \in known
          BY <3>2, <4>1 DEF Affected, AffectedEntries, AffectedConfigured,
             OwnershipIsStillUnknown
        <4> QED BY <1>3, <4>1, <4>2 DEF OrderOK
      <3> QED BY <3>1, <3>2
    <2> HIDE DEF rest
    <2>9. InOrder(batch \o p \o o \o q, Missing, rest)
      <3>1. InOrder(batch, Missing, rest)
        BY <1>3 DEF OrderOK, rest
      <3>2. InOrder(batch \o p, Missing, rest)
        BY <2>2, <2>7, <3>1, OrderOfConcatenation
      <3>3. Elements(o) \cap rest # {} => Missing \subseteq Elements(batch \o p)
        BY <2>1, <2>5, <2>8
      <3>4. InOrder(batch \o p \o o, Missing, rest)
        BY <2>3, <3>2, <3>3, OrderOfConcatenation
      <3>5. Elements(q) \cap rest # {} => Missing \subseteq Elements(batch \o p \o o)
        BY <2>1, <2>5, <2>8
      <3> QED BY <2>3, <3>4, <3>5, OrderOfConcatenation
    <2>10. InOrder(batch', Missing', Workspace \ configured')
      BY <1>1, <1>2, <2>1, <2>9 DEF rest
    <2>11. Missing' \cap seen' \subseteq Elements(batch')
      BY <1>2, <1>3, <2>6 DEF OrderOK
    <2>12. Missing' = {} \/ known' \cap Workspace \subseteq configured'
      BY <1>1, <1>2, <1>3 DEF OrderOK
    <2> QED BY <2>10, <2>11, <2>12 DEF OrderOK, InOrder, Elements
  <1> QED BY <1>1, <1>3 DEF OrderInv, Starting, Analysing

(* Registering gives the batch's head a graph; if that is a standalone       *)
(* entry of the workspace, every configured one has a graph.                 *)
LEMMA RegisterOrder ==
    ASSUME ServerInv, ConfigInv, OrderInv, RegisterAnalysis
    PROVE  OrderInv'
  <1> DEFINE entry == job.entry
             newKnown == IF job.success \/ ~HasSuccessfulSnapshot(entry)
                         THEN known \cup {entry} ELSE known
             newGraphs == IF job.success \/ ~HasSuccessfulSnapshot(entry)
                          THEN Assign(graphs, entry, job.edges) ELSE graphs
  <1>1. /\ worker = "publish" /\ worker' = "snapshot"
        /\ configured' = configured /\ UNCHANGED <<seen, batch, stop>>
    BY DEF RegisterAnalysis, At, queueVars
  <1>2. /\ OrderOK /\ entry = Head(batch) /\ batch # <<>> /\ TypeInv
    BY <1>1 DEF OrderInv, Starting, Analysing, ServerInv, WorkerPlaceInv, TypeInv, BatchInv
  <1>3. PICK subsumed : /\ known' = newKnown \ subsumed /\ graphs' = Erase(newGraphs, subsumed)
                        /\ subsumed \cap configured = {}
    BY DEF RegisterAnalysis, Tables, SubsumedEntries
  <1>4. newKnown \subseteq known \cup {entry} /\ DOMAIN graphs \subseteq DOMAIN newGraphs
    <2>1. DOMAIN Assign(graphs, entry, job.edges) = DOMAIN graphs \cup {entry}
      BY AssignDomain
    <2> QED BY <2>1
  <1> HIDE DEF newKnown, newGraphs
  <1>5. Missing' \subseteq Missing
    <2>1. DOMAIN Erase(newGraphs, subsumed) = DOMAIN newGraphs \ subsumed
      BY EraseDomain
    <2> QED BY <1>1, <1>3, <1>4, <2>1 DEF Missing
  <1>6. Missing' = {} \/ known' \cap Workspace \subseteq configured'
    <2>1. CASE entry \in Workspace \ configured
      BY <1>2, <1>5, <2>1, HeadComesLast
    <2>2. CASE entry \notin Workspace \ configured
      BY <1>1, <1>2, <1>3, <1>4, <1>5, <2>2 DEF OrderOK
    <2> QED BY <2>1, <2>2
  <1>7. InOrder(batch', Missing', Workspace \ configured')
    BY <1>1, <1>2, <1>5 DEF OrderOK, InOrder
  <1>8. Missing' \cap seen' \subseteq Elements(batch')
    BY <1>1, <1>2, <1>5 DEF OrderOK
  <1> QED BY <1>6, <1>7, <1>8 DEF OrderInv, OrderOK, InOrder, Elements

LEMMA RecheckOrder ==
    ASSUME ServerInv, ConfigInv, ConfiguredExist, OrderInv, RecheckEntry
    PROVE  OrderInv'
  <1>1. /\ worker = "recheck" /\ worker \in Starting /\ batch # <<>> /\ TypeInv
        /\ configured' = configured /\ UNCHANGED <<seen, stop>>
    BY DEF RecheckEntry, At, queueVars, ServerInv, TypeInv, BatchInv, Starting
  <1>2. CASE UNCHANGED <<batch, tableVars>>
    BY <1>1, <1>2, SameOrder DEF tableVars, Missing
  <1>3. CASE /\ Head(batch) \notin Affected(Head(batch))
             /\ batch' = Tail(batch) /\ DropEntries({Head(batch)})
    <2>1. Head(batch) \notin configured
      BY <1>3, ConfiguredAffected DEF ConfigInv
    <2>2. known' = known \ {Head(batch)} /\ DOMAIN graphs' = DOMAIN graphs \ {Head(batch)}
      BY <1>3 DEF DropEntries, Tables, Erase
    <2>3. Missing' = Missing /\ Head(batch) \notin Missing'
      BY <1>1, <2>1, <2>2 DEF Missing
    <2> QED BY <1>1, <1>3, <2>2, <2>3, PoppedOrder
  <1> QED BY <1>2, <1>3 DEF RecheckEntry

LEMMA OrderInductive ==
    ASSUME ServerInv, ConfigInv, ConfiguredExist, OrderInv, [Next]_vars
    PROVE  OrderInv'
  <1>1. CASE /\ UNCHANGED <<configured, known, graphs, seen, batch>> /\ (stop => stop')
             /\ worker' \in Starting => worker \in Starting \/ ~stop
    BY <1>1, SameOrder DEF Missing
  <1>2. CASE Editor \/ Unschedule \/ Notify \/ StopAnalysisWorker \/ UNCHANGED vars
             \/ (\E s \in Sources : ScheduleAnalysis(s))
    <2>1. /\ UNCHANGED <<configured, known, graphs, seen, batch>> /\ (stop => stop')
          /\ worker' = worker \/ worker' = "idle"
      BY <1>2 DEF Editor, WriteFile, RemoveFile, Unschedule, Notify, StopAnalysisWorker,
         ScheduleAnalysis, vars, queueVars, workerVars, tableVars
    <2> QED BY <1>1, <2>1 DEF Starting, Analysing
  <1>3. CASE MainOnly
    <2>1. UNCHANGED <<stop, worker, seen, batch>>
      BY <1>3, MainOnlyFrame DEF workerVars
    <2>2. CASE UNCHANGED <<configured, known, graphs>>
      BY <1>1, <2>1, <2>2
    <2>3. CASE HandleInitialize
      <3>1. /\ main = "start" /\ UNCHANGED tableVars
        BY <2>3 DEF HandleInitialize, Handling
      <3>2. known = {} /\ worker \in {"idle", "asleep"}
        BY <3>1 DEF ConfigInv
      <3>3. batch = <<>> /\ seen = {}
        BY <3>2 DEF ServerInv, QueueInv, WorkerPlaceInv
      <3> QED BY <2>1, <3>1, <3>2, <3>3 DEF OrderInv, OrderOK, InOrder, Missing, tableVars
    <2>4. CASE HandleDeletedSource \/ TearDownClosed
      <3>1. /\ configured' = configured
            /\ \E dropped : /\ known' = known \ dropped /\ graphs' = Erase(graphs, dropped)
                            /\ dropped \cap configured = {}
        <4>1. CASE HandleDeletedSource
          <5>1. source \notin configured
            BY <4>1 DEF HandleDeletedSource, Handling, ConfigInv
          <5> QED BY <4>1, <5>1 DEF HandleDeletedSource
        <4>2. CASE TearDownClosed /\ ~UNCHANGED tableVars
          <5>1. /\ source \notin configured /\ configured' = configured
                /\ known' = known \ {source} /\ graphs' = Erase(graphs, {source})
            BY <4>2 DEF TearDownClosed, IsConfiguredEntry, Tables
          <5> QED BY <5>1
        <4>3. CASE TearDownClosed /\ UNCHANGED tableVars
          <5>1. Erase(graphs, {}) = graphs
            BY DEF Erase, ServerInv, TypeInv, TypeOK, TablesTypeOK, IsHashMap
          <5> QED BY <4>3, <5>1 DEF TearDownClosed, tableVars
        <4> QED BY <2>4, <4>1, <4>2, <4>3
      <3>2. PICK dropped : /\ known' = known \ dropped /\ graphs' = Erase(graphs, dropped)
                           /\ dropped \cap configured = {}
        BY <3>1
      <3>3. DOMAIN Erase(graphs, dropped) = DOMAIN graphs \ dropped
        BY EraseDomain
      <3>4. known' \subseteq known /\ Missing' = Missing
        BY <3>1, <3>2, <3>3 DEF Missing
      <3> QED BY <2>1, <3>1, <3>4, SameOrder
    <2>5. CASE \/ \E s \in Sources :
                    \/ \E text \in Texts : HandleDidOpen(s, text) \/ HandleDidChange(s, text)
                    \/ HandleDidClose(s) \/ HandleWatchedFile(s)
               \/ HandleExit \/ LookForClosedFile \/ MarkSourceAvailable
               \/ JoinAnalysisWorker \/ RenameStep
      <3>1. UNCHANGED <<configured, known, graphs>>
        BY <2>5, RenameFrame DEF HandleDidOpen, HandleDidChange, HandleDidClose,
           HandleWatchedFile, HandleExit, LookForClosedFile, MarkSourceAvailable,
           JoinAnalysisWorker, tableVars
      <3> QED BY <2>2, <3>1
    <2> QED BY <1>3, <2>3, <2>4, <2>5 DEF MainOnly
  <1>4. CASE \/ WaitForWork \/ KeepDebouncing \/ StopDebouncing \/ TakeBatch \/ SpuriousWakeup
             \/ NextEntry \/ NextRound \/ FirstRound \/ LoadSource \/ ResolveImport
             \/ FinishAnalysis
             \/ PublishSnapshots
    <2>1. /\ UNCHANGED <<configured, known, graphs, seen, batch>> /\ stop' = stop
          /\ worker' \in Starting => worker \in Starting \/ ~stop
      BY <1>4 DEF WaitForWork, KeepDebouncing, StopDebouncing, TakeBatch, SpuriousWakeup,
         NextEntry, NextRound, FirstRound, LoadSource, ResolveImport, FinishAnalysis,
         PublishSnapshots, Abort,
         CompilerRunFrame, At, Starting, Analysing, tableVars, entryVars, queueVars
    <2> QED BY <1>1, <2>1
  <1>5. CASE EndOfRound \/ HandBack
    <2>1. /\ UNCHANGED <<configured, known, graphs, stop>> /\ seen' \subseteq seen
          /\ batch' = batch \/ (batch' = <<>> /\ seen' = {})
          /\ worker' \notin Starting
      BY <1>5 DEF EndOfRound, HandBack, tableVars, queueVars, Starting, Analysing
    <2> QED BY <2>1, SameOrder DEF Missing
  <1>6. CASE StopCheck
    <2>1. /\ UNCHANGED <<configured, known, graphs, seen, stop>> /\ worker \in Starting
          /\ \/ stop /\ worker' = "guard"
             \/ batch' = batch
      BY <1>6 DEF StopCheck, At, tableVars, queueVars, Starting, Analysing
    <2>2. CASE stop /\ worker' = "guard"
      BY <2>1, <2>2 DEF OrderInv, Starting, Analysing
    <2>3. CASE batch' = batch
      BY <1>1, <2>1, <2>3
    <2> QED BY <2>1, <2>2, <2>3
  <1>7. CASE DropDeletedResult \/ PublishDiagnostics
    <2>1. /\ worker \in {"publish", "diagnose"} /\ batch' = Tail(batch)
          /\ UNCHANGED <<configured, known, graphs, seen>>
          /\ job.entry \in deleted \/ worker = "diagnose"
      BY <1>7 DEF DropDeletedResult, PublishDiagnostics, LeaveEntry, WasDeleted, At, tableVars,
         entryVars
    <2>2. worker \in Starting /\ batch # <<>> /\ job.entry = Head(batch)
      BY <2>1 DEF Starting, Analysing, ServerInv, WorkerPlaceInv, TypeInv, BatchInv
    <2>3. job.entry \notin Missing
      BY <2>1 DEF Missing, ConfigInv, ServerInv, TablesInv, TablesAgree
    <2>4. Missing' = Missing
      BY <2>1 DEF Missing
    <2> QED BY <2>1, <2>2, <2>3, <2>4, PoppedOrder DEF ServerInv
  <1>8. CASE RecheckEntry \/ RegisterAnalysis \/ \E s \in Sources : ResolveSource(s)
    BY <1>8, RecheckOrder, RegisterOrder, ResolveOrder DEF ServerInv
  <1> QED BY <1>2, <1>3, <1>4, <1>5, <1>6, <1>7, <1>8, NextCases DEF WorkerOnly

-----------------------------------------------------------------------------
(* Who imports whom changes only when a graph is registered. *)
LEMMA ErasedDepend ==
    ASSUME NEW gr, NEW dropped, NEW entry, NEW s,
           EntryDependsOn(Erase(gr, dropped), entry, s)
    PROVE  EntryDependsOn(gr, entry, s)
  BY DEF EntryDependsOn, Erase

LEMMA ErasedSnapshots ==
    ASSUME NEW dropped, references' = Erase(references, dropped), NEW entry,
           HasSuccessfulSnapshot(entry)'
    PROVE  HasSuccessfulSnapshot(entry)
  BY DEF HasSuccessfulSnapshot, Erase

LEMMA ImportsKept ==
    ASSUME ImportsInv, configured' = configured, known' \subseteq known,
           \A entry, s : EntryDependsOn(graphs', entry, s) => EntryDependsOn(graphs, entry, s),
           \A entry : HasSuccessfulSnapshot(entry)' => HasSuccessfulSnapshot(entry),
           worker' \in Running => worker \in Running /\ job'.entry = job.entry,
           worker' = "snapshot" => worker = "snapshot" /\ job' = job
    PROVE  ImportsInv'
  <1>1. ASSUME NEW entry \in known', NEW s \in known' \ configured',
               HasSuccessfulSnapshot(entry)'
        PROVE  ~EntryDependsOn(graphs', entry, s)
    BY <1>1 DEF ImportsInv
  <1>2. ASSUME worker' \in Running, job'.entry \notin configured', NEW entry \in known'
        PROVE  ~EntryDependsOn(graphs', entry, job'.entry)
    <2>1. ~EntryDependsOn(graphs, entry, job.entry)
      BY <1>2 DEF ImportsInv
    <2> QED BY <1>2, <2>1
  <1>3. ASSUME worker' = "snapshot", job'.success, NEW s \in known' \ configured'
        PROVE  ~EntryDependsOn(graphs', job'.entry, s)
    <2>1. ~EntryDependsOn(graphs, job.entry, s)
      BY <1>3 DEF ImportsInv
    <2> QED BY <1>3, <2>1
  <1> QED BY <1>1, <1>2, <1>3 DEF ImportsInv, EntryDependsOn

LEMMA DropKeepsImports ==
    ASSUME ImportsInv, configured' = configured, NEW dropped,
           known' = known \ dropped, graphs' = Erase(graphs, dropped),
           references' = Erase(references, dropped),
           worker' \in Running => worker \in Running /\ job'.entry = job.entry,
           worker' = "snapshot" => worker = "snapshot" /\ job' = job
    PROVE  ImportsInv'
  BY ErasedDepend, ErasedSnapshots, ImportsKept

LEMMA SameImports ==
    ASSUME ImportsInv, UNCHANGED <<configured, known, graphs, references>>,
           worker' \in Running => worker \in Running /\ job'.entry = job.entry,
           worker' = "snapshot" => worker = "snapshot" /\ job' = job
    PROVE  ImportsInv'
  <1>1. \A entry : HasSuccessfulSnapshot(entry)' => HasSuccessfulSnapshot(entry)
    BY DEF HasSuccessfulSnapshot
  <1> QED BY <1>1, ImportsKept

(* A standalone entry is only started when no entry imports it: with every   *)
(* configured entry's graph there, only those who import it are affected.    *)
LEMMA StartedIsNotImported ==
    ASSUME TypeInv, OrderOK, batch # <<>>, Head(batch) \in Affected(Head(batch)),
           Head(batch) \notin configured, NEW entry \in known
    PROVE  ~EntryDependsOn(graphs, entry, Head(batch))
  <1> DEFINE s == Head(batch)
  <1> SUFFICES ASSUME EntryDependsOn(graphs, entry, s) PROVE FALSE
    OBVIOUS
  <1>1. entry # s
    BY NotOnItself
  <1>2. s \notin AffectedConfigured(configured, graphs, s)
    BY DEF AffectedConfigured
  <1>3. OwnershipIsStillUnknown(configured, graphs, s)
    BY <1>1, <1>2 DEF Affected, AffectedEntries
  <1>4. s \in Workspace /\ Missing # {}
    BY <1>3 DEF OwnershipIsStillUnknown, Missing
  <1> QED BY <1>4, HeadComesLast

LEMMA RecheckImports ==
    ASSUME ServerInv, OrderInv, ImportsInv, RecheckEntry
    PROVE  ImportsInv'
  <1>1. /\ worker = "recheck" /\ batch # <<>> /\ TypeInv /\ OrderOK /\ configured' = configured
    BY DEF RecheckEntry, At, ServerInv, TypeInv, BatchInv, OrderInv, Starting
  <1>2. CASE /\ Head(batch) \in Affected(Head(batch)) /\ worker' = "load" /\ UNCHANGED tableVars
             /\ \E mode : job' = [NoJob EXCEPT !.entry = Head(batch), !.next = Head(batch),
                                               !.mode = mode]
    <2>1. job'.entry = Head(batch)
      BY <1>2 DEF NoJob
    <2>2. UNCHANGED <<known, graphs, references>>
      BY <1>2 DEF tableVars
    <2>3. ASSUME NEW e \in known', NEW s \in known' \ configured', HasSuccessfulSnapshot(e)'
          PROVE  ~EntryDependsOn(graphs', e, s)
      BY <1>1, <2>2, <2>3 DEF ImportsInv, HasSuccessfulSnapshot
    <2>4. ASSUME job'.entry \notin configured', NEW e \in known'
          PROVE  ~EntryDependsOn(graphs', e, job'.entry)
      <3>1. ~EntryDependsOn(graphs, e, Head(batch))
        BY <1>1, <1>2, <2>1, <2>2, <2>4, StartedIsNotImported
      <3> QED BY <2>1, <2>2, <3>1
    <2> QED BY <1>2, <2>3, <2>4 DEF ImportsInv, EntryDependsOn
  <1>3. CASE worker' = "guard" /\ DropEntries({Head(batch)})
    BY <1>1, <1>3, DropKeepsImports DEF DropEntries, Tables, Running
  <1> QED BY <1>2, <1>3 DEF RecheckEntry

(* A complete analysis leaves no entry that it imports; an incomplete one    *)
(* changes no graph that a complete one left.                                *)
LEMMA RegisterImports ==
    ASSUME ServerInv, ImportsInv, RegisterAnalysis
    PROVE  ImportsInv'
  <1> DEFINE entry == job.entry
             register == job.success \/ ~HasSuccessfulSnapshot(entry)
             newKnown == IF register THEN known \cup {entry} ELSE known
             newGraphs == IF register THEN Assign(graphs, entry, job.edges) ELSE graphs
             subsumed == IF job.success
                         THEN SubsumedEntries(configured, newKnown, newGraphs, entry)
                         ELSE {}
  <1>1. /\ worker = "publish" /\ worker' = "snapshot" /\ job' = job /\ configured' = configured
        /\ known' = newKnown \ subsumed
        /\ graphs' = Erase(newGraphs, subsumed)
        /\ references' = Erase(references, subsumed)
    BY DEF RegisterAnalysis, Tables, At
  <1>2. DOMAIN references = known
    BY <1>1 DEF ServerInv, TablesInv, TablesAgree
  <1>3. /\ newKnown \subseteq known \cup {entry}
        /\ ~register => newKnown = known /\ newGraphs = graphs
        /\ job.success => register
        /\ ~job.success /\ HasSuccessfulSnapshot(entry) => ~register
    OBVIOUS
  <1>4. \A e, s : e # entry /\ EntryDependsOn(newGraphs, e, s) => EntryDependsOn(graphs, e, s)
    BY DEF Assign, EntryDependsOn
  <1>5. job.success => \A s \in newKnown \ (configured \cup subsumed) :
                         s # entry => ~EntryDependsOn(newGraphs, entry, s)
    BY DEF SubsumedEntries
  <1> HIDE DEF register, newKnown, newGraphs, subsumed
  <1>6. \A e, s : EntryDependsOn(graphs', e, s) => EntryDependsOn(newGraphs, e, s)
    BY <1>1, ErasedDepend
  <1>7. \A e : HasSuccessfulSnapshot(e)' => HasSuccessfulSnapshot(e)
    BY <1>1, ErasedSnapshots
  <1>8. ASSUME job.success, NEW s \in known' \ configured'
        PROVE  ~EntryDependsOn(graphs', entry, s)
    <2>1. CASE s = entry
      BY <2>1, NotOnItself
    <2>2. CASE s # entry
      BY <1>1, <1>5, <1>6, <1>8, <2>2
    <2> QED BY <2>1, <2>2
  <1>9. ASSUME NEW e \in known', NEW s \in known' \ configured', HasSuccessfulSnapshot(e)'
        PROVE  ~EntryDependsOn(graphs', e, s)
    <2>1. HasSuccessfulSnapshot(e) /\ e \in known
      BY <1>2, <1>7, <1>9 DEF HasSuccessfulSnapshot
    <2>2. s \in (known \cup {entry}) \ configured
      BY <1>1, <1>3
    <2>3. CASE e # entry
      <3>1. ~EntryDependsOn(graphs, e, s)
        <4>1. CASE s \in known
          BY <2>1, <2>2, <4>1 DEF ImportsInv
        <4>2. CASE s = entry
          BY <1>1, <2>1, <2>2, <4>2 DEF ImportsInv, Running
        <4> QED BY <2>2, <4>1, <4>2
      <3> QED BY <1>4, <1>6, <2>3, <3>1
    <2>4. CASE e = entry /\ job.success
      BY <1>8, <2>4
    <2>5. CASE e = entry /\ ~job.success
      <3>1. ~register /\ s \in known
        BY <1>1, <1>3, <2>1, <2>5
      <3>2. ~EntryDependsOn(graphs, e, s)
        BY <2>1, <2>2, <3>1 DEF ImportsInv
      <3> QED BY <1>3, <1>6, <3>1, <3>2
    <2> QED BY <2>3, <2>4, <2>5
  <1> QED BY <1>1, <1>8, <1>9 DEF ImportsInv, Running, EntryDependsOn

LEMMA SnapshotImports ==
    ASSUME ImportsInv, PublishSnapshots
    PROVE  ImportsInv'
  <1>1. /\ worker = "snapshot" /\ worker' = "diagnose"
        /\ UNCHANGED <<configured, known, graphs>>
        /\ references' = Assign(references, job.entry,
                                ReferenceState(references, job.entry, job))
    BY DEF PublishSnapshots, At, entryVars
  <1>2. ASSUME NEW entry, HasSuccessfulSnapshot(entry)'
        PROVE  HasSuccessfulSnapshot(entry) \/ (entry = job.entry /\ job.success)
    BY <1>1, <1>2 DEF HasSuccessfulSnapshot, Assign, ReferenceState
  <1>3. ASSUME NEW entry \in known', NEW s \in known' \ configured',
               HasSuccessfulSnapshot(entry)'
        PROVE  ~EntryDependsOn(graphs', entry, s)
    BY <1>1, <1>2, <1>3 DEF ImportsInv
  <1> QED BY <1>1, <1>3 DEF ImportsInv, Running

LEMMA ImportsInductive ==
    ASSUME ServerInv, ConfigInv, OrderInv, ImportsInv, [Next]_vars
    PROVE  ImportsInv'
  <1>1. CASE \/ Unschedule \/ Notify \/ StopAnalysisWorker \/ Editor
             \/ (\E s \in Sources : ScheduleAnalysis(s))
             \/ UNCHANGED vars
    <2>1. /\ UNCHANGED <<configured, known, graphs, references, job>>
          /\ worker' = worker \/ worker' = "idle"
      BY <1>1 DEF Editor, WriteFile, RemoveFile, Unschedule, Notify, StopAnalysisWorker,
         ScheduleAnalysis, vars, workerVars, tableVars
    <2> QED BY <2>1, SameImports DEF Running
  <1>2. CASE MainOnly
    <2>1. UNCHANGED <<worker, job>>
      BY <1>2, MainOnlyFrame DEF workerVars
    <2>2. CASE HandleInitialize
      <3>1. main = "start" /\ UNCHANGED tableVars
        BY <2>2 DEF HandleInitialize, Handling
      <3>2. known = {} /\ known' = {} /\ worker \in {"idle", "asleep"}
        BY <3>1 DEF ConfigInv, tableVars
      <3> QED BY <2>1, <3>2 DEF ImportsInv, Running
    <2>3. CASE HandleDeletedSource
      BY <2>1, <2>3, DropKeepsImports DEF HandleDeletedSource
    <2>4. CASE TearDownClosed /\ ~UNCHANGED tableVars
      BY <2>1, <2>4, DropKeepsImports DEF TearDownClosed, Tables
    <2>5. CASE \/ TearDownClosed /\ UNCHANGED tableVars
               \/ \E s \in Sources :
                    \/ \E text \in Texts : HandleDidOpen(s, text) \/ HandleDidChange(s, text)
                    \/ HandleDidClose(s) \/ HandleWatchedFile(s)
               \/ HandleExit \/ LookForClosedFile \/ MarkSourceAvailable
               \/ JoinAnalysisWorker \/ RenameStep
      <3>1. UNCHANGED <<configured, known, graphs, references>>
        BY <2>5, RenameFrame DEF HandleDidOpen, HandleDidChange, HandleDidClose, TearDownClosed,
           HandleWatchedFile, HandleExit, LookForClosedFile, MarkSourceAvailable,
           JoinAnalysisWorker, tableVars
      <3> QED BY <2>1, <3>1, SameImports
    <2> QED BY <1>2, <2>2, <2>3, <2>4, <2>5 DEF MainOnly
  <1>3. CASE \/ WaitForWork \/ KeepDebouncing \/ StopDebouncing \/ TakeBatch \/ SpuriousWakeup
             \/ NextEntry \/ NextRound \/ FirstRound \/ EndOfRound \/ HandBack
             \/ DropDeletedResult \/ PublishDiagnostics
    <2>1. /\ UNCHANGED <<configured, known, graphs, references>>
          /\ worker' \notin Running /\ worker' # "snapshot"
      BY <1>3 DEF WaitForWork, KeepDebouncing, StopDebouncing, TakeBatch, SpuriousWakeup,
         NextEntry, NextRound, FirstRound, EndOfRound, HandBack, DropDeletedResult,
         PublishDiagnostics,
         LeaveEntry, At, Running, tableVars, entryVars
    <2> QED BY <2>1, SameImports
  <1>4. CASE LoadSource \/ ResolveImport \/ FinishAnalysis
    <2>1. /\ UNCHANGED <<configured, known, graphs, references>>
          /\ worker \in Running /\ worker' \in Running /\ worker' # "snapshot"
      BY <1>4 DEF LoadSource, ResolveImport, FinishAnalysis, Abort, CompilerRunFrame, At, Running,
         tableVars
    <2>2. job'.entry = job.entry
      BY <1>4, RunKeepsEntry DEF ServerInv
    <2> QED BY <2>1, <2>2, SameImports
  <1>5. CASE StopCheck
    <2>1. /\ UNCHANGED <<configured, known, graphs, references>> /\ worker \in Running
          /\ worker' # "snapshot" /\ (worker' \in Running => job' = job)
      BY <1>5 DEF StopCheck, At, Running, tableVars
    <2> QED BY <2>1, SameImports
  <1>6. ASSUME NEW s \in Sources, ResolveSource(s) PROVE ImportsInv'
    <2>1. configured' = configured /\ worker' = "resolve"
      BY <1>6 DEF ResolveSource, At
    <2>2. CASE UNCHANGED tableVars
      BY <2>1, <2>2, SameImports DEF tableVars, Running
    <2>3. CASE DropEntries({s})
      BY <2>1, <2>3, DropKeepsImports DEF DropEntries, Tables, Running
    <2> QED BY <1>6, <2>2, <2>3 DEF ResolveSource
  <1>7. CASE RecheckEntry \/ RegisterAnalysis \/ PublishSnapshots
    BY <1>7, RecheckImports, RegisterImports, SnapshotImports
  <1> QED BY <1>1, <1>2, <1>3, <1>4, <1>5, <1>6, <1>7, NextCases DEF WorkerOnly

-----------------------------------------------------------------------------
(* No standalone entry keeps tables of its own beside a completely analysed  *)
(* entry that imports it, in whatever order the two were analysed and        *)
(* whatever is edited, opened, closed or removed meanwhile - as long as the  *)
(* configured entries lie in the workspace and exist on disk.                *)
THEOREM NoRedundantEntries == Spec /\ []ConfiguredExist => []ImportedSourcesAreNotEntries
  <1>1. Init => RedundantInv
    <2> SUFFICES ASSUME Init PROVE RedundantInv
      OBVIOUS
    <2>1. ServerInv
      BY ServerInitially
    <2>2. ConfigInv /\ OrderInv /\ ImportsInv
      BY DEF Init, ConfigInv, OrderInv, OrderOK, InOrder, Missing, ImportsInv, Running
    <2> QED BY <2>1, <2>2 DEF RedundantInv
  <1>2. RedundantInv /\ ConfiguredExist /\ [Next]_vars => RedundantInv'
    <2> SUFFICES ASSUME RedundantInv, ConfiguredExist, [Next]_vars PROVE RedundantInv'
      OBVIOUS
    <2>1. ServerInv /\ ConfigInv /\ OrderInv /\ ImportsInv /\ TypeInv
      BY DEF RedundantInv, ServerInv
    <2>2. ServerInv' /\ ConfigInv' /\ OrderInv' /\ ImportsInv'
      BY <2>1, ServerInductive, ConfigInductive, OrderInductive, ImportsInductive
    <2> QED BY <2>2 DEF RedundantInv
  <1>3. RedundantInv => ImportedSourcesAreNotEntries
    BY DEF RedundantInv, ImportsInv, ImportedSourcesAreNotEntries
  <1> QED BY <1>1, <1>2, <1>3, PTL DEF Spec

-----------------------------------------------------------------------------
(***************************************************************************)
(* Renames.  The locations are compared one after the other with the texts *)
(* as they then are.  Buffers only change between two messages, and a file *)
(* that is written meanwhile leaves an event, which is not handled before  *)
(* the rename is answered.                                                 *)
(***************************************************************************)
StandsAt(at) == Unreported(at[1]) \/ TextAt(Live, at) = rename.word

ComparedInv ==
    /\ main = "expect" => rename.unchecked = rename.locations
    /\ main = "compare" => \A at \in rename.locations \ rename.unchecked : StandsAt(at)

(* A source is read as before, or is now one the server has to be told of.  *)
Undisturbed(s) == Unreported(s)' \/ (~Unreported(s) /\ Text(s)' = Text(s))

LEMMA UndisturbedStays ==
    ASSUME NEW at \in Locations, Undisturbed(at[1]), rename'.word = rename.word, StandsAt(at)
    PROVE  StandsAt(at)'
  <1>1. CASE Unreported(at[1])'
    BY <1>1 DEF StandsAt
  <1>2. CASE ~Unreported(at[1]) /\ Text(at[1])' = Text(at[1])
    <2>1. at[1] \in Sources /\ Live'[at[1]] = Live[at[1]]
      BY <1>2 DEF Locations, Live
    <2>2. TextAt(Live', at) = TextAt(Live, at)
      BY <2>1 DEF TextAt, WordIn
    <2> QED BY <1>2, <2>2 DEF StandsAt, TextAt
  <1> QED BY <1>1, <1>2 DEF Undisturbed

LEMMA CompareStep ==
    ASSUME TypeInv, ComparedInv, CompareLocation
    PROVE  ComparedInv'
  <1> USE DEF Handling
  <1>1. rename \in Renames
    BY DEF CompareLocation, TypeInv, TypeOK, MainTypeOK, Renaming
  <1>2. Live' = Live /\ \A s \in Sources : Unreported(s)' = Unreported(s)
    BY DEF CompareLocation, editorVars, Live, Text, Unreported
  <1>3. PICK at \in rename.unchecked :
          IF TextAt(Live, at) = rename.word
          THEN main' = main /\ rename' = [rename EXCEPT !.unchecked = @ \ {at}]
          ELSE main' = "idle" /\ rename' = NoRename
    BY DEF CompareLocation
  <1>4. CASE TextAt(Live, at) = rename.word
    <2>1. /\ main = "compare" /\ main' = "compare" /\ rename'.locations = rename.locations
          /\ rename'.unchecked = rename.unchecked \ {at} /\ rename'.word = rename.word
      BY <1>1, <1>3, <1>4 DEF CompareLocation, Renames
    <2>2. ASSUME NEW place \in rename.locations \ (rename.unchecked \ {at})
          PROVE  StandsAt(place)'
      <3>1. StandsAt(place)
        BY <1>4, <2>1 DEF ComparedInv, StandsAt
      <3>2. place[1] \in Sources
        BY <1>1 DEF Renames, Locations
      <3> QED BY <1>2, <2>1, <3>1, <3>2 DEF StandsAt, TextAt
    <2> QED BY <2>1, <2>2 DEF ComparedInv
  <1>5. CASE TextAt(Live, at) # rename.word
    BY <1>3, <1>5 DEF ComparedInv
  <1> QED BY <1>4, <1>5

LEMMA RenameCompares ==
    ASSUME TypeInv, ComparedInv, RenameStep
    PROVE  ComparedInv'
  <1> USE DEF Handling, Renaming
  <1>1. main \in Renaming => rename \in Renames
    BY DEF TypeInv, TypeOK, MainTypeOK
  <1>2. ASSUME NEW s \in Sources, NEW place \in Places, HandleRename(s, place) PROVE ComparedInv'
    BY <1>2 DEF HandleRename, ComparedInv
  <1>3. CASE CollectLocations
    BY <1>1, <1>3 DEF CollectLocations, ComparedInv, Renames
  <1>4. CASE ReadDeclaration
    BY <1>1, <1>4 DEF ReadDeclaration, ComparedInv, Renames
  <1>5. CASE CompareLocation
    BY <1>5, CompareStep
  <1>6. CASE AnswerRename
    BY <1>6 DEF AnswerRename, ComparedInv
  <1> QED BY <1>2, <1>3, <1>4, <1>5, <1>6 DEF RenameStep

(* Other steps of the main thread begin and end outside a rename; a file    *)
(* that is written under one is one the server has to be told of.           *)
LEMMA OthersCompareNothing ==
    ASSUME TypeInv, [Next]_vars, ~RenameStep
    PROVE  \/ main' \notin {"expect", "compare"}
           \/ UNCHANGED <<main, rename>> /\ \A s \in Sources : Undisturbed(s)
  <1> USE DEF Handling
  <1>0. ASSUME UNCHANGED <<disk, overlay, events>>
        PROVE  \A s \in Sources : Undisturbed(s)
    BY <1>0 DEF Undisturbed, Unreported, Text
  <1>1. CASE Editor
    <2>1. UNCHANGED <<main, rename, overlay>>
      BY <1>1 DEF Editor, WriteFile, RemoveFile, mainVars
    <2>2. PICK s \in Sources :
            /\ \E text : disk' = [disk EXCEPT ![s] = text]
            /\ \E event \in {"changed", "deleted"} : events' = [events EXCEPT ![s] = event]
      BY <1>1 DEF Editor, WriteFile, RemoveFile
    <2>3. /\ events \in [Sources -> {"none", "changed", "deleted"}]
          /\ disk \in [Sources -> Texts \cup {None}]
      BY DEF TypeInv, TypeOK, EditorTypeOK
    <2>4. events'[s] # "none"
      BY <2>2, <2>3
    <2>5. Undisturbed(s)
      BY <2>1, <2>4 DEF Undisturbed, Unreported, Text
    <2>6. ASSUME NEW other \in Sources, other # s PROVE Undisturbed(other)
      BY <2>1, <2>2, <2>3, <2>6 DEF Undisturbed, Unreported, Text
    <2> QED BY <2>1, <2>5, <2>6
  <1>2. CASE MainOnly
    <2>1. ASSUME NEW s \in Sources, HandleWatchedFile(s) PROVE main' \notin {"expect", "compare"}
      <3>1. events[s] \in {"changed", "deleted"}
        BY <2>1 DEF HandleWatchedFile, TypeInv, TypeOK, EditorTypeOK
      <3> QED BY <2>1, <3>1 DEF HandleWatchedFile
    <2>2. ASSUME NEW s \in Sources, NEW text \in Texts,
                 HandleDidOpen(s, text) \/ HandleDidChange(s, text)
          PROVE  main' \notin {"expect", "compare"}
      BY <2>2 DEF HandleDidOpen, HandleDidChange
    <2>3. CASE \/ HandleInitialize \/ HandleExit \/ LookForClosedFile \/ MarkSourceAvailable
               \/ HandleDeletedSource \/ TearDownClosed \/ JoinAnalysisWorker
      BY <2>3 DEF HandleInitialize, HandleExit, LookForClosedFile, MarkSourceAvailable,
         HandleDeletedSource, TearDownClosed, JoinAnalysisWorker
    <2>4. ASSUME NEW s \in Sources, HandleDidClose(s) PROVE main' \notin {"expect", "compare"}
      BY <2>4 DEF HandleDidClose
    <2> QED BY <1>2, <2>1, <2>2, <2>3, <2>4 DEF MainOnly
  <1>3. CASE WorkerOnly
    BY <1>0, <1>3, WorkerOnlyFrame DEF mainVars
  <1>4. CASE Unschedule \/ (\E s \in Sources : ScheduleAnalysis(s)) \/ Notify \/ StopAnalysisWorker
    BY <1>4 DEF Unschedule, ScheduleAnalysis, Notify, StopAnalysisWorker
  <1>5. CASE WaitForWork \/ TakeBatch \/ HandBack \/ SpuriousWakeup \/ UNCHANGED vars
    BY <1>0, <1>5 DEF WaitForWork, TakeBatch, HandBack, SpuriousWakeup, vars, mainVars, editorVars
  <1> QED BY <1>1, <1>2, <1>3, <1>4, <1>5, NextCases

LEMMA ComparedInductive == TypeInv /\ ComparedInv /\ [Next]_vars => ComparedInv'
  <1> SUFFICES ASSUME TypeInv, ComparedInv, [Next]_vars PROVE ComparedInv'
    OBVIOUS
  <1>1. CASE RenameStep
    BY <1>1, RenameCompares
  <1>2. CASE main' \notin {"expect", "compare"}
    BY <1>2 DEF ComparedInv
  <1>3. CASE /\ main' \in {"expect", "compare"} /\ UNCHANGED <<main, rename>>
             /\ \A s \in Sources : Undisturbed(s)
    <2>1. rename \in Renames
      BY <1>3 DEF TypeInv, TypeOK, MainTypeOK, Renaming
    <2>2. ASSUME main = "compare", NEW at \in rename.locations \ rename.unchecked
          PROVE  StandsAt(at)'
      <3>1. at \in Locations /\ at[1] \in Sources /\ StandsAt(at)
        BY <2>1, <2>2 DEF Renames, Locations, ComparedInv
      <3>2. Undisturbed(at[1]) /\ rename'.word = rename.word
        BY <1>3, <3>1
      <3> QED BY <3>1, <3>2, UndisturbedStays
    <2> QED BY <1>3, <2>2 DEF ComparedInv
  <1> QED BY <1>1, <1>2, <1>3, OthersCompareNothing

(* Whatever the worker publishes meanwhile and however the rename's reads   *)
(* of the provider and of the texts interleave with it (RenameProvider.cpp),*)
(* no edit of a rename hits anything but the name, except in files whose    *)
(* event is not handled yet and that no buffer hides.                       *)
THEOREM RenamesAreExact == Spec => []RenamesEditTheName
  <1>1. Init => ComparedInv
    BY DEF Init, ComparedInv
  <1>2. TypeInv /\ ComparedInv => RenamesEditTheName
    BY DEF ComparedInv, RenamesEditTheName, StandsAt, Handling
  <1> QED BY <1>1, <1>2, ComparedInductive, TypeInitially, TypeInductive, PTL DEF Spec
=============================================================================
