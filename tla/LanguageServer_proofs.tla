------------------------ MODULE LanguageServer_proofs ------------------------
(***************************************************************************)
(* Proofs about LanguageServer, for every finite set of sources, every set  *)
(* of texts, and every bound on the editor's moves.                         *)
(***************************************************************************)
EXTENDS LanguageServer, FiniteSetTheorems, TLAPS

-----------------------------------------------------------------------------
(* The steps of Next, one case each or grouped by what they have in common. *)

(* The steps of a rename. *)
RenameStep ==
    \/ \E s \in Sources, place \in Places : HandleRename(s, place)
    \/ CollectLocations \/ ReadDeclaration \/ CompareLocation \/ AnswerRename

(* Steps of the main thread that touch neither the queue nor the worker.    *)
MainOnly ==
    \/ HandleInitialize
    \/ \E s \in Sources :
         \/ \E text \in Texts : HandleDidOpen(s, text) \/ HandleDidChange(s, text)
         \/ HandleDidClose(s)
         \/ HandleWatchedFile(s)
    \/ HandleExit \/ LookForClosedFile \/ MarkSourceAvailable \/ HandleDeletedSource
    \/ TearDownClosed \/ JoinAnalysisWorker \/ RenameStep

(* Steps of the worker when it is awake that leave the queue alone.         *)
WorkerOnly ==
    \/ KeepDebouncing \/ StopDebouncing
    \/ (\E s \in Sources : ResolveSource(s)) \/ EndOfRound
    \/ NextEntry \/ NextRound \/ FirstRound \/ RecheckEntry
    \/ LoadSource \/ ResolveImport \/ FinishAnalysis \/ StopCheck
    \/ DropDeletedResult \/ RegisterAnalysis \/ PublishSnapshots \/ PublishDiagnostics

LEMMA NextCases ==
    Next => \/ Editor \/ MainOnly \/ WorkerOnly
            \/ Unschedule \/ (\E s \in Sources : ScheduleAnalysis(s)) \/ Notify
            \/ StopAnalysisWorker
            \/ WaitForWork \/ TakeBatch \/ HandBack \/ SpuriousWakeup
            \/ UNCHANGED vars
  BY DEF Next, Receive, Handle, Work, Terminated, MainOnly, WorkerOnly, RenameStep

LEMMA RenameFrame ==
    ASSUME RenameStep
    PROVE  /\ UNCHANGED <<disk, overlay, events, source, toSchedule>>
           /\ UNCHANGED <<pending, generation, stop>> /\ UNCHANGED workerVars
           /\ UNCHANGED <<configured, known, graphs, references, completion, diags, published,
                          deleted>>
           /\ main \in {"idle"} \cup Renaming
  BY DEF RenameStep, HandleRename, CollectLocations, ReadDeclaration, CompareLocation,
         AnswerRename, Handling, Renaming, queueVars, tableVars, editorVars

LEMMA MainOnlyFrame ==
    ASSUME MainOnly
    PROVE  /\ UNCHANGED <<pending, generation, stop>> /\ UNCHANGED workerVars
           /\ main \notin {"notify", "notify_stop"}
  BY RenameFrame DEF Renaming, MainOnly, HandleInitialize, HandleDidOpen, HandleDidChange, HandleDidClose,
         HandleWatchedFile, HandleExit, LookForClosedFile, MarkSourceAvailable,
         HandleDeletedSource, TearDownClosed, JoinAnalysisWorker, Handling, queueVars

LEMMA WorkerOnlyFrame ==
    ASSUME WorkerOnly
    PROVE  /\ UNCHANGED <<pending, generation, stop>> /\ UNCHANGED mainVars
           /\ UNCHANGED <<disk, overlay, events, edits, configured, deleted>>
           /\ worker # "asleep" /\ worker' # "asleep"
  BY DEF WorkerOnly, KeepDebouncing, StopDebouncing, ResolveSource, EndOfRound, NextEntry,
         NextRound, FirstRound, RecheckEntry, LoadSource, ResolveImport, FinishAnalysis, StopCheck,
         DropDeletedResult, RegisterAnalysis, PublishSnapshots, PublishDiagnostics, Abort, LeaveEntry, At,
         CompilerRunFrame, queueVars, mainVars, editorVars, entryVars

-----------------------------------------------------------------------------
(* m_analysis_cv: the worker never sleeps while there is work for it or     *)
(* while it is asked to stop, unless the notify that wakes it is on its way.*)
LEMMA WakeupInductive == NoLostWakeup /\ [Next]_vars => NoLostWakeup'
  <1> SUFFICES ASSUME NoLostWakeup, [Next]_vars PROVE NoLostWakeup'
    OBVIOUS
  <1> USE DEF NoLostWakeup
  <1>1. CASE Editor
    BY <1>1 DEF Editor, WriteFile, RemoveFile, queueVars, mainVars, workerVars
  <1>2. CASE MainOnly
    BY <1>2, MainOnlyFrame DEF workerVars
  <1>3. CASE WorkerOnly
    BY <1>3, WorkerOnlyFrame
  <1>4. CASE Unschedule
    BY <1>4 DEF Unschedule, Handling, workerVars
  <1>5. ASSUME NEW s \in Sources, ScheduleAnalysis(s) PROVE NoLostWakeup'
    BY <1>5 DEF ScheduleAnalysis
  <1>6. CASE Notify
    BY <1>6 DEF Notify
  <1>7. CASE StopAnalysisWorker
    BY <1>7 DEF StopAnalysisWorker
  <1>8. CASE WaitForWork
    BY <1>8 DEF WaitForWork, At, queueVars, mainVars
  <1>9. CASE TakeBatch \/ HandBack \/ SpuriousWakeup
    BY <1>9 DEF TakeBatch, HandBack, SpuriousWakeup
  <1>10. CASE UNCHANGED vars
    BY <1>10 DEF vars
  <1> QED BY <1>1, <1>2, <1>3, <1>4, <1>5, <1>6, <1>7, <1>8, <1>9, <1>10, NextCases

(* schedule_analysis_for_source, stop_analysis_worker and the worker's wait  *)
(* cannot lose a wakeup in any interleaving.                                 *)
THEOREM WorkerIsNotified == Spec => []NoLostWakeup
  <1>1. Init => NoLostWakeup
    BY DEF Init, NoLostWakeup
  <1> QED BY <1>1, WakeupInductive, PTL DEF Spec

-----------------------------------------------------------------------------
(* The steps that write the tables, and those that do not.                  *)
NoTableStep ==
    \/ Editor
    \/ \E s \in Sources :
         \/ \E text \in Texts : HandleDidOpen(s, text) \/ HandleDidChange(s, text)
         \/ HandleDidClose(s)
         \/ HandleWatchedFile(s)
    \/ HandleExit \/ LookForClosedFile \/ JoinAnalysisWorker \/ RenameStep
    \/ Unschedule \/ (\E s \in Sources : ScheduleAnalysis(s)) \/ Notify \/ StopAnalysisWorker
    \/ WaitForWork \/ KeepDebouncing \/ StopDebouncing \/ TakeBatch \/ HandBack \/ SpuriousWakeup
    \/ EndOfRound \/ NextEntry \/ NextRound \/ FirstRound
    \/ LoadSource \/ ResolveImport \/ FinishAnalysis \/ StopCheck \/ DropDeletedResult
    \/ UNCHANGED vars

LEMMA TableCases ==
    [Next]_vars =>
      \/ NoTableStep
      \/ HandleInitialize \/ MarkSourceAvailable \/ HandleDeletedSource \/ TearDownClosed
      \/ (\E s \in Sources : ResolveSource(s)) \/ RecheckEntry
      \/ RegisterAnalysis \/ PublishSnapshots \/ PublishDiagnostics
  BY DEF Next, Receive, Handle, Work, Terminated, NoTableStep, RenameStep

LEMMA NoTableFrame ==
    ASSUME NoTableStep
    PROVE  /\ UNCHANGED <<configured, known, graphs, references, completion, diags, published, deleted>>
           /\ worker = "diagnose" <=> worker' = "diagnose"
           /\ worker = "snapshot" <=> worker' = "snapshot"
           /\ worker \in {"snapshot", "diagnose"} => job' = job
  <1>1. CASE Editor \/ (\E s \in Sources :
                 \/ \E text \in Texts : HandleDidOpen(s, text) \/ HandleDidChange(s, text)
                 \/ HandleDidClose(s)
                 \/ HandleWatchedFile(s))
               \/ HandleExit \/ LookForClosedFile \/ JoinAnalysisWorker \/ RenameStep
               \/ Unschedule \/ (\E s \in Sources : ScheduleAnalysis(s)) \/ Notify
               \/ StopAnalysisWorker
    BY <1>1, RenameFrame
    DEF Editor, WriteFile, RemoveFile, HandleDidOpen, HandleDidChange, HandleDidClose,
        HandleWatchedFile, HandleExit, LookForClosedFile, JoinAnalysisWorker, Unschedule,
        ScheduleAnalysis, Notify, StopAnalysisWorker, workerVars, tableVars
  <1>2. CASE \/ WaitForWork \/ KeepDebouncing \/ StopDebouncing \/ TakeBatch \/ HandBack
             \/ SpuriousWakeup \/ EndOfRound \/ NextEntry \/ NextRound \/ FirstRound
             \/ LoadSource \/ ResolveImport \/ FinishAnalysis \/ StopCheck \/ DropDeletedResult
    BY <1>2 DEF WaitForWork, KeepDebouncing, StopDebouncing, TakeBatch, HandBack, SpuriousWakeup,
         EndOfRound, NextEntry, NextRound, FirstRound, LoadSource, ResolveImport,
         FinishAnalysis, StopCheck,
         DropDeletedResult, CompilerRunFrame, Abort, LeaveEntry, At, tableVars
  <1>3. CASE UNCHANGED vars
    BY <1>3 DEF vars
  <1> QED BY <1>1, <1>2, <1>3 DEF NoTableStep

-----------------------------------------------------------------------------
(* The guard on m_deleted_sources: no analysis brings a deleted entry back. *)
LEMMA DeletionInductive == DeletedEntriesStayGone /\ [Next]_vars => DeletedEntriesStayGone'
  <1> SUFFICES ASSUME DeletedEntriesStayGone, [Next]_vars PROVE DeletedEntriesStayGone'
    OBVIOUS
  <1> USE DEF DeletedEntriesStayGone
  <1>1. CASE NoTableStep
    BY <1>1, NoTableFrame
  <1>2. CASE HandleInitialize \/ MarkSourceAvailable
    BY <1>2 DEF HandleInitialize, MarkSourceAvailable, tableVars
  <1>3. CASE HandleDeletedSource
    BY <1>3 DEF HandleDeletedSource
  <1>4. CASE TearDownClosed
    BY <1>4 DEF TearDownClosed, Tables, tableVars
  <1>5. ASSUME NEW s \in Sources, ResolveSource(s) PROVE DeletedEntriesStayGone'
    BY <1>5 DEF ResolveSource, DropEntries, Tables, tableVars
  <1>6. CASE RecheckEntry
    BY <1>6 DEF RecheckEntry, DropEntries, Tables, tableVars
  <1>7. CASE RegisterAnalysis
    <2>1. /\ deleted' = deleted /\ job.entry \notin deleted
          /\ known' \subseteq known \cup {job.entry}
      BY <1>7 DEF RegisterAnalysis, Tables, WasDeleted
    <2> QED BY <2>1
  <1>8. CASE PublishSnapshots \/ PublishDiagnostics
    BY <1>8 DEF PublishSnapshots, PublishDiagnostics, entryVars
  <1> QED BY <1>1, <1>2, <1>3, <1>4, <1>5, <1>6, <1>7, <1>8, TableCases

(* A deletion that arrives while the source is being analysed stands.        *)
THEOREM DeletionsStand == Spec => []DeletedEntriesStayGone
  <1>1. Init => DeletedEntriesStayGone
    BY DEF Init, DeletedEntriesStayGone
  <1> QED BY <1>1, DeletionInductive, PTL DEF Spec

-----------------------------------------------------------------------------
(* The tables.  Inside the critical section that registers an analysis both *)
(* providers and the publisher lag one entry behind: that is what makes the *)
(* invariant inductive.                                                     *)
TablesInv ==
    /\ TablesAgree
    /\ worker = "snapshot" => /\ DOMAIN references \cup {job.entry} = known
                             /\ DOMAIN completion \cup {job.entry} = known
    /\ worker \in {"snapshot", "diagnose"} => DOMAIN diags \cup {job.entry} = known

LEMMA EraseDomain ==
    ASSUME NEW map, NEW keys
    PROVE  DOMAIN Erase(map, keys) = DOMAIN map \ keys
  BY DEF Erase

LEMMA AssignDomain ==
    ASSUME NEW map, NEW key, NEW value
    PROVE  DOMAIN Assign(map, key, value) = DOMAIN map \cup {key}
  BY DEF Assign

LEMMA ClearSourceDomain ==
    ASSUME NEW map, NEW s
    PROVE  DOMAIN ClearSource(map, s) = DOMAIN map
  BY DEF ClearSource

LEMMA DropKeepsTables ==
    ASSUME TablesInv, NEW entries, DropEntries(entries),
           worker \notin {"snapshot", "diagnose"}, worker' \notin {"snapshot", "diagnose"}
    PROVE  TablesInv'
  <1>1. /\ DOMAIN graphs = known /\ DOMAIN references = known
        /\ DOMAIN completion = known /\ DOMAIN diags = known
    BY DEF TablesInv, TablesAgree
  <1>2. /\ known' = known \ entries
        /\ graphs' = Erase(graphs, entries) /\ references' = Erase(references, entries)
        /\ completion' = Erase(completion, entries) /\ diags' = Erase(diags, entries)
    BY DEF DropEntries, Tables
  <1>3. /\ DOMAIN graphs' = known' /\ DOMAIN references' = known'
        /\ DOMAIN completion' = known' /\ DOMAIN diags' = known'
    BY <1>1, <1>2, EraseDomain
  <1> QED BY <1>3 DEF TablesInv, TablesAgree

LEMMA RegisterKeepsTables ==
    ASSUME TablesInv, RegisterAnalysis
    PROVE  TablesInv'
  <1> DEFINE entry == job.entry
             register == job.success \/ ~HasSuccessfulSnapshot(entry)
             newKnown == IF register THEN known \cup {entry} ELSE known
             newGraphs == IF register THEN Assign(graphs, entry, job.edges) ELSE graphs
             subsumed == IF job.success
                         THEN SubsumedEntries(configured, newKnown, newGraphs, entry)
                         ELSE {}
  <1>1. /\ worker = "publish" /\ worker' = "snapshot" /\ job' = job
        /\ known' = newKnown \ subsumed
        /\ graphs' = Erase(newGraphs, subsumed)
        /\ diags' = Erase(diags, subsumed)
        /\ references' = Erase(references, subsumed)
        /\ completion' = Erase(completion, subsumed)
    BY DEF RegisterAnalysis, Tables, At
  <1>2. entry \notin subsumed
    BY DEF SubsumedEntries
  <1>3. newKnown = known \cup {entry} /\ DOMAIN newGraphs = newKnown
    <2>1. DOMAIN graphs = known /\ DOMAIN references = known
      BY <1>1 DEF TablesInv, TablesAgree
    <2>2. ~register => entry \in known
      BY <2>1 DEF HasSuccessfulSnapshot
    <2> HIDE DEF entry, register
    <2>3. CASE register
      BY <2>1, <2>3, AssignDomain
    <2>4. CASE ~register
      BY <2>1, <2>2, <2>4
    <2> QED BY <2>3, <2>4
  <1> HIDE DEF entry, register, newKnown, newGraphs, subsumed
  <1>4. /\ DOMAIN graphs' = known' /\ DOMAIN diags' \cup {entry} = known'
        /\ DOMAIN references' \cup {entry} = known' /\ DOMAIN completion' \cup {entry} = known'
    <2>1. DOMAIN references = known /\ DOMAIN completion = known /\ DOMAIN diags = known
      BY <1>1 DEF TablesInv, TablesAgree
    <2>2. known' = (known \ subsumed) \cup {entry}
      BY <1>1, <1>2, <1>3
    <2>3. DOMAIN graphs' = (known \cup {entry}) \ subsumed
      <3>1. DOMAIN Erase(newGraphs, subsumed) = DOMAIN newGraphs \ subsumed
        BY EraseDomain
      <3> QED BY <1>1, <1>3, <3>1
    <2>4. /\ DOMAIN references' = known \ subsumed
          /\ DOMAIN completion' = known \ subsumed
          /\ DOMAIN diags' = known \ subsumed
      BY <1>1, <2>1, EraseDomain
    <2> QED BY <1>2, <2>2, <2>3, <2>4
  <1> QED BY <1>1, <1>4 DEF TablesInv, TablesAgree, entry

LEMMA TablesInductive == TablesInv /\ [Next]_vars => TablesInv'
  <1> SUFFICES ASSUME TablesInv, [Next]_vars PROVE TablesInv'
    OBVIOUS
  <1>1. CASE NoTableStep
    BY <1>1, NoTableFrame DEF TablesInv, TablesAgree
  <1>2. CASE HandleInitialize \/ MarkSourceAvailable
    BY <1>2 DEF HandleInitialize, MarkSourceAvailable, tableVars, workerVars, TablesInv, TablesAgree
  <1>3. CASE HandleDeletedSource
    <2>1. /\ worker \notin {"snapshot", "diagnose"} /\ worker' = worker
          /\ \E dropped \in {{source}, {}} :
               /\ (dropped = {} => source \notin known)
               /\ known' = known \ dropped
               /\ DOMAIN graphs' = DOMAIN graphs \ dropped
               /\ DOMAIN references' = DOMAIN references \ dropped
               /\ DOMAIN completion' = DOMAIN completion \ dropped
               /\ DOMAIN diags' = DOMAIN diags \ dropped
      BY <1>3, EraseDomain, ClearSourceDomain, ZenonT(60)
      DEF HandleDeletedSource, StateMutexFree, workerVars
    <2> QED BY <2>1 DEF TablesInv, TablesAgree
  <1>4. CASE TearDownClosed
    <2>1. worker \notin {"snapshot", "diagnose"} /\ worker' = worker
      BY <1>4 DEF TearDownClosed, StateMutexFree, workerVars
    <2>2. CASE UNCHANGED tableVars
      BY <2>1, <2>2 DEF tableVars, TablesInv, TablesAgree
    <2>3. CASE /\ known' = known \ {source}
               /\ graphs' = Erase(graphs, {source})
               /\ references' = Erase(references, {source})
               /\ completion' = Erase(completion, {source})
               /\ source \in known
               /\ diags' = IF source \in DOMAIN diags THEN Erase(diags, {source})
                                                     ELSE ClearSource(diags, source)
      <3>1. /\ DOMAIN graphs = known /\ DOMAIN references = known
            /\ DOMAIN completion = known /\ DOMAIN diags = known
        BY <2>1 DEF TablesInv, TablesAgree
      <3>2. diags' = Erase(diags, {source})
        BY <2>3, <3>1
      <3>3. /\ DOMAIN graphs' = known' /\ DOMAIN references' = known'
            /\ DOMAIN completion' = known' /\ DOMAIN diags' = known'
        BY <2>3, <3>1, <3>2, EraseDomain
      <3> QED BY <2>1, <3>3 DEF TablesInv, TablesAgree
    <2> QED BY <1>4, <2>2, <2>3 DEF TearDownClosed, Tables
  <1>5. ASSUME NEW s \in Sources, ResolveSource(s) PROVE TablesInv'
    <2>1. {worker, worker'} \cap {"snapshot", "diagnose"} = {}
      BY <1>5 DEF ResolveSource, At
    <2>2. CASE UNCHANGED tableVars
      BY <2>1, <2>2 DEF tableVars, TablesInv, TablesAgree
    <2>3. CASE DropEntries({s})
      BY <2>1, <2>3, DropKeepsTables
    <2> QED BY <1>5, <2>2, <2>3 DEF ResolveSource
  <1>6. CASE RecheckEntry
    <2>1. {worker, worker'} \cap {"snapshot", "diagnose"} = {}
      BY <1>6 DEF RecheckEntry, At
    <2>2. CASE UNCHANGED tableVars
      BY <2>1, <2>2 DEF tableVars, TablesInv, TablesAgree
    <2>3. CASE DropEntries({Head(batch)})
      BY <2>1, <2>3, DropKeepsTables
    <2> QED BY <1>6, <2>2, <2>3 DEF RecheckEntry
  <1>7. CASE RegisterAnalysis
    BY <1>7, RegisterKeepsTables
  <1>8. CASE PublishSnapshots
    <2>1. /\ worker = "snapshot" /\ worker' = "diagnose" /\ job' = job
          /\ DOMAIN references' = DOMAIN references \cup {job.entry}
          /\ DOMAIN completion' = DOMAIN completion \cup {job.entry}
          /\ UNCHANGED <<known, graphs, diags>>
      BY <1>8, AssignDomain DEF PublishSnapshots, At, entryVars
    <2> QED BY <2>1 DEF TablesInv, TablesAgree
  <1>9. CASE PublishDiagnostics
    <2>1. /\ worker = "diagnose" /\ worker' = "guard" /\ DOMAIN diags' = DOMAIN diags \cup {job.entry}
          /\ UNCHANGED <<known, graphs, references, completion>>
      BY <1>9, AssignDomain DEF PublishDiagnostics, LeaveEntry, At, entryVars
    <2> QED BY <2>1 DEF TablesInv, TablesAgree
  <1> QED BY <1>1, <1>2, <1>3, <1>4, <1>5, <1>6, <1>7, <1>8, <1>9, TableCases

(* Whenever m_state_mutex can be had, the resolver's two maps, both snapshot *)
(* providers and the publisher know the same entries.                        *)
THEOREM TablesAlwaysAgree == Spec => []TablesAgree
  <1>1. Init => TablesInv
    BY DEF Init, TablesInv, TablesAgree
  <1>2. TablesInv => TablesAgree
    BY DEF TablesInv
  <1> QED BY <1>1, <1>2, TablesInductive, PTL DEF Spec

-----------------------------------------------------------------------------
(* Hash maps. *)
LEMMA HashMapIff ==
    ASSUME NEW S, NEW T, NEW map
    PROVE  map \in HashMaps(S, T) <=> IsHashMap(map, S, T)
  BY DEF HashMaps, IsHashMap

LEMMA EraseType ==
    ASSUME NEW S, NEW T, NEW map, IsHashMap(map, S, T), NEW keys
    PROVE  IsHashMap(Erase(map, keys), S, T)
  BY DEF IsHashMap, Erase

LEMMA AssignType ==
    ASSUME NEW S, NEW T, NEW map, IsHashMap(map, S, T), NEW key \in S, NEW value \in T
    PROVE  IsHashMap(Assign(map, key, value), S, T)
  BY DEF IsHashMap, Assign

LEMMA EmptyHashMap ==
    ASSUME NEW S, NEW T, NEW map, DOMAIN map = {}, map = [x \in {} |-> None]
    PROVE  IsHashMap(map, S, T)
  BY DEF IsHashMap

(* What the resolver answers are sources. *)
LEMMA AffectedAreSources ==
    ASSUME NEW conf \in SUBSET Sources, NEW kn \in SUBSET Sources, NEW gr, NEW s \in Sources
    PROVE  AffectedEntries(conf, kn, gr, s) \in SUBSET Sources
  BY DEF AffectedEntries, AffectedConfigured

(* What the publisher merges are diagnostics. *)
LEMMA DiagnosticsForType ==
    ASSUME NEW conf, NEW gr, NEW dg, IsHashMap(dg, Sources, Findings), NEW s
    PROVE  DiagnosticsFor(conf, gr, dg, s) \in FoundText
  <1>1. ASSUME NEW e \in DOMAIN dg, s \in DOMAIN dg[e]
        PROVE  dg[e][s] \in FoundText
    <2>1. dg[e] \in HashMaps(Sources, FoundText)
      BY <1>1 DEF IsHashMap, Findings
    <2>2. IsHashMap(dg[e], Sources, FoundText)
      BY <2>1, HashMapIff
    <2> QED BY <1>1, <2>2 DEF IsHashMap
  <1> QED BY <1>1 DEF DiagnosticsFor, FoundText

LEMMA PublishMergedType ==
    ASSUME NEW conf, NEW gr, NEW dg, IsHashMap(dg, Sources, Findings),
           NEW pub \in [Sources -> FoundText], NEW affected
    PROVE  PublishMerged(conf, gr, dg, pub, affected) \in [Sources -> FoundText]
  BY DiagnosticsForType DEF PublishMerged

LEMMA ClearSourceType ==
    ASSUME NEW dg, IsHashMap(dg, Sources, Findings), NEW s
    PROVE  IsHashMap(ClearSource(dg, s), Sources, Findings)
  <1>1. ASSUME NEW e \in DOMAIN dg
        PROVE  Erase(dg[e], {s}) \in Findings
    <2>1. dg[e] \in HashMaps(Sources, FoundText)
      BY DEF IsHashMap, Findings
    <2>2. IsHashMap(dg[e], Sources, FoundText)
      BY <2>1, HashMapIff
    <2>3. IsHashMap(Erase(dg[e], {s}), Sources, FoundText)
      BY <2>2, EraseType
    <2> QED BY <2>3, HashMapIff DEF Findings
  <1> QED BY <1>1 DEF IsHashMap, ClearSource

(* An order of a finite set is a sequence over it. *)
LEMMA OrdersAreSequences ==
    ASSUME NEW set \in SUBSET Sources, NEW order \in Orders(set)
    PROVE  order \in Seq(set)
  <1>1. IsFiniteSet(set)
    BY TextsAssumption, FS_Subset
  <1>2. Cardinality(set) \in Nat
    BY <1>1, FS_CardinalityType
  <1>3. order \in [1..Cardinality(set) -> set]
    BY DEF Orders
  <1> QED BY <1>2, <1>3

LEMMA ElementsOfSequence ==
    ASSUME NEW S, NEW seq \in Seq(S)
    PROVE  Elements(seq) \in SUBSET S
  BY DEF Elements

-----------------------------------------------------------------------------
(***************************************************************************)
(* Type correctness.  While entries of a batch are being analysed the batch *)
(* is not empty, the resolving loop is only left when it has resolved every *)
(* changed source, and an import still to resolve names an importer that    *)
(* has been loaded: without these facts the worker would read past the end  *)
(* of its batch, or locate an error in a source it never read.              *)
(***************************************************************************)
BatchInv ==
    /\ worker \in {"handback", "recheck"} \cup Analysing => batch # <<>>
    /\ worker \notin {"taken", "resolve"} => remaining = {}

ImportInv ==
    worker \in {"load", "import"} =>
      /\ \A k \in DOMAIN job.todo : job.todo[k][1] \in DOMAIN job.loaded
      /\ worker = "load" => job.next \in Sources

TypeInv == TypeOK /\ BatchInv /\ ImportInv

LEMMA TypeInitially == Init => TypeInv
  <1> SUFFICES ASSUME Init PROVE TypeInv
    OBVIOUS
  <1> USE DEF Init
  <1>1. EditorTypeOK /\ MainTypeOK
    BY InstanceAssumption DEF EditorTypeOK, MainTypeOK, Renaming
  <1>2. QueueTypeOK
    BY DEF QueueTypeOK
  <1>3. WorkerTypeOK
    <2>1. <<>> \in Seq({})
      OBVIOUS
    <2> QED BY <2>1 DEF WorkerTypeOK
  <1>4. JobTypeOK /\ BatchInv /\ ImportInv
    BY DEF JobTypeOK, BatchInv, ImportInv, Analysing
  <1>5. TablesTypeOK
    <2>1. /\ IsHashMap(graphs, Sources, ImportEdges)
          /\ IsHashMap(references, Sources, ReferenceStates)
          /\ IsHashMap(completion, Sources, CompletionStates)
          /\ IsHashMap(diags, Sources, Findings)
      BY DEF IsHashMap
    <2> QED BY <2>1 DEF TablesTypeOK, FoundText
  <1> QED BY <1>1, <1>2, <1>3, <1>4, <1>5 DEF TypeInv, TypeOK

(* The editor's variables. *)
LEMMA EditorTypeStep == TypeInv /\ [Next]_vars => EditorTypeOK'
  <1> SUFFICES ASSUME TypeInv, [Next]_vars PROVE EditorTypeOK'
    OBVIOUS
  <1>1. EditorTypeOK /\ MaxEdits \in Nat
    BY InstanceAssumption DEF TypeInv, TypeOK
  <1>2. MayContain \in [Sources -> SUBSET Texts]
    BY TextsAssumption
  <1>3. ASSUME NEW s \in Sources, NEW text \in Texts,
               WriteFile(s, text) \/ HandleDidOpen(s, text) \/ HandleDidChange(s, text)
        PROVE  EditorTypeOK'
    BY <1>1, <1>2, <1>3 DEF WriteFile, HandleDidOpen, HandleDidChange, Edit, EditorTypeOK
  <1>4. ASSUME NEW s \in Sources, RemoveFile(s) \/ HandleDidClose(s) \/ HandleWatchedFile(s)
        PROVE  EditorTypeOK'
    BY <1>1, <1>4 DEF RemoveFile, HandleDidClose, HandleWatchedFile, Edit, EditorTypeOK
  <1>5. CASE UNCHANGED editorVars
    BY <1>1, <1>5 DEF EditorTypeOK, editorVars
  <1>7. ASSUME NEW s \in Sources, NEW place \in Places, HandleRename(s, place)
        PROVE  EditorTypeOK'
    BY <1>1, <1>7 DEF HandleRename, Edit, EditorTypeOK
  <1>6. CASE Handle \/ HandleExit \/ Work \/ SpuriousWakeup \/ UNCHANGED vars
    <2>1. UNCHANGED editorVars
      <3>1. CASE Handle \/ HandleExit
        BY <3>1 DEF Handle, HandleInitialize, HandleExit, LookForClosedFile, MarkSourceAvailable,
             HandleDeletedSource, TearDownClosed, Unschedule, ScheduleAnalysis, Notify,
             StopAnalysisWorker, JoinAnalysisWorker, CollectLocations, ReadDeclaration,
             CompareLocation, AnswerRename
      <3>2. CASE \/ WaitForWork \/ TakeBatch \/ HandBack \/ SpuriousWakeup \/ UNCHANGED vars
        BY <3>2 DEF WaitForWork, TakeBatch, HandBack, SpuriousWakeup, vars, editorVars
      <3>3. CASE WorkerOnly
        BY <3>3, WorkerOnlyFrame DEF editorVars
      <3> QED BY <1>6, <3>1, <3>2, <3>3 DEF Work, WorkerOnly
    <2> QED BY <2>1, <1>5
  <1> QED BY <1>3, <1>4, <1>6, <1>7 DEF Next, Editor, Receive, Terminated

(* What the providers answer are locations, and the texts say names. *)
LEMMA ReferenceStateAt ==
    ASSUME NEW states, IsHashMap(states, Sources, ReferenceStates), NEW e \in DOMAIN states
    PROVE  states[e] \in ReferenceStates
  BY DEF IsHashMap

LEMMA TargetsAreLocations ==
    ASSUME NEW states, IsHashMap(states, Sources, ReferenceStates),
           NEW preferred, NEW live, NEW at
    PROVE  ResolveTarget(states, preferred, live, at) \in SUBSET Locations
  <1>1. ASSUME NEW index \in SUBSET Links
        PROVE  TargetsIn(index, at) \in SUBSET Locations
    BY DEF TargetsIn, Links
  <1>2. ASSUME NEW e \in DOMAIN states
        PROVE  ResolveFromState(states[e], live, at) \in SUBSET Locations
    <2>1. states[e].index \in SUBSET Links /\ states[e].lastIndex \in SUBSET Links
      BY ReferenceStateAt DEF ReferenceStates
    <2> QED BY <1>1, <2>1 DEF ResolveFromState
  <1> QED BY <1>2 DEF ResolveTarget

LEMMA ReferencesAreLocations ==
    ASSUME NEW states, IsHashMap(states, Sources, ReferenceStates), NEW live,
           NEW target \in Locations
    PROVE  ReferencesTo(states, live, target) \in SUBSET Locations
  <1>1. ASSUME NEW index \in SUBSET Links
        PROVE  ReferencesIn(index, target) \in SUBSET Locations
    BY DEF ReferencesIn, Links
  <1>2. ASSUME NEW e \in DOMAIN states
        PROVE  ReferencesFromState(states[e], live, target) \in SUBSET Locations
    <2>1. states[e].index \in SUBSET Links /\ states[e].lastIndex \in SUBSET Links
      BY ReferenceStateAt DEF ReferenceStates
    <2> QED BY <1>1, <2>1 DEF ReferencesFromState
  <1> QED BY <1>2 DEF ReferencesTo

LEMMA TextAtType ==
    ASSUME EditorTypeOK, NEW at \in Locations
    PROVE  TextAt(Live, at) \in Words
  <1>1. at[1] \in Sources /\ at[2] \in Places /\ Live[at[1]] \in Texts \cup {None}
    BY DEF Locations, Live, Text, EditorTypeOK
  <1> QED BY <1>1 DEF TextAt, WordIn, Words

(* The steps of a rename. *)
LEMMA RenameType ==
    ASSUME MainTypeOK, EditorTypeOK, TablesTypeOK, RenameStep
    PROVE  /\ main' \in {"idle"} \cup Renaming
           /\ IF main' \in Renaming THEN rename' \in Renames ELSE rename' = NoRename
  <1> USE DEF Handling, Renaming
  <1>1. IsHashMap(references, Sources, ReferenceStates)
    BY DEF TablesTypeOK
  <1>2. main \in Renaming => rename \in Renames
    BY DEF MainTypeOK
  <1>3. None \in Words
    BY DEF Words
  <1>4. ASSUME NEW s \in Sources, NEW place \in Places, HandleRename(s, place)
        PROVE  main' = "collect" /\ rename' \in Renames
    <2>1. PICK target \in Locations, settled \in BOOLEAN :
            rename' = [NoRename EXCEPT !.target = target, !.settled = settled]
      BY <1>1, <1>4, TargetsAreLocations DEF HandleRename, AtRest
    <2>2. rename' = [target |-> target, word |-> None, locations |-> {}, unchecked |-> {},
                     settled |-> settled]
      BY <2>1 DEF NoRename
    <2> QED BY <1>3, <1>4, <2>2 DEF HandleRename, Renames
  <1>5. CASE CollectLocations
    <2>1. rename.target \in Locations
      BY <1>2, <1>5 DEF CollectLocations, Renames
    <2>2. ReferencesTo(references, Live, rename.target) \in SUBSET Locations
      BY <1>1, <2>1, ReferencesAreLocations
    <2> QED BY <1>2, <1>5, <2>2 DEF CollectLocations, Renames
  <1>6. CASE ReadDeclaration
    <2>1. rename.target \in Locations
      BY <1>2, <1>6 DEF ReadDeclaration, Renames
    <2>2. TextAt(Live, rename.target) \in Words
      BY <2>1, TextAtType
    <2> QED BY <1>2, <1>6, <2>2 DEF ReadDeclaration, Renames
  <1>7. CASE CompareLocation
    BY <1>2, <1>7 DEF CompareLocation, Renames
  <1>8. CASE AnswerRename
    BY <1>8 DEF AnswerRename
  <1> QED BY <1>4, <1>5, <1>6, <1>7, <1>8 DEF RenameStep

(* The main thread's variables. *)
LEMMA MainTypeStep == TypeInv /\ [Next]_vars => MainTypeOK'
  <1> SUFFICES ASSUME TypeInv, [Next]_vars PROVE MainTypeOK'
    OBVIOUS
  <1>1. MainTypeOK /\ EditorTypeOK /\ TablesTypeOK
    BY DEF TypeInv, TypeOK
  <1> USE DEF MainTypeOK, Handling, Renaming
  <1>2. CASE UNCHANGED mainVars
    BY <1>1, <1>2 DEF mainVars
  <1>3. CASE Editor \/ SpuriousWakeup \/ WorkerOnly \/ WaitForWork \/ TakeBatch \/ HandBack
             \/ UNCHANGED vars
    <2>1. UNCHANGED mainVars
      BY <1>3, WorkerOnlyFrame DEF Editor, WriteFile, RemoveFile, SpuriousWakeup, WaitForWork,
           TakeBatch, HandBack, vars, mainVars
    <2> QED BY <2>1, <1>2
  <1>4. CASE HandleInitialize
    BY <1>1, <1>4, InstanceAssumption DEF HandleInitialize
  <1>5. ASSUME NEW s \in Sources, NEW text \in Texts,
               HandleDidOpen(s, text) \/ HandleDidChange(s, text)
        PROVE  MainTypeOK'
    BY <1>1, <1>5 DEF HandleDidOpen, HandleDidChange
  <1>6. ASSUME NEW s \in Sources, HandleDidClose(s)
        PROVE  MainTypeOK'
    BY <1>1, <1>6 DEF HandleDidClose
  <1>7. ASSUME NEW s \in Sources, HandleWatchedFile(s)
        PROVE  MainTypeOK'
    <2>1. events[s] \in {"changed", "deleted"}
      BY <1>1, <1>7 DEF HandleWatchedFile, EditorTypeOK
    <2>2. main' \in {"mark", "schedule", "delete"} /\ source' = s
      BY <1>7, <2>1 DEF HandleWatchedFile
    <2>3. toSchedule' \in SUBSET Sources /\ rename' = NoRename
      BY <1>1, <1>7 DEF HandleWatchedFile
    <2> QED BY <2>2, <2>3
  <1>8. CASE LookForClosedFile \/ MarkSourceAvailable \/ HandleExit \/ JoinAnalysisWorker
             \/ StopAnalysisWorker \/ Unschedule
    BY <1>1, <1>8 DEF LookForClosedFile, MarkSourceAvailable, HandleExit, JoinAnalysisWorker,
         StopAnalysisWorker, Unschedule
  <1>9. CASE HandleDeletedSource
    <2>1. source \in Sources /\ source' = source
      BY <1>1, <1>9 DEF HandleDeletedSource
    <2>2. Affected(source) \in SUBSET Sources
      BY <1>1, <2>1, AffectedAreSources DEF Affected, TablesTypeOK
    <2>3. toSchedule' \in SUBSET Sources /\ main' \in {"idle", "schedule"}
      BY <1>9, <2>2 DEF HandleDeletedSource
    <2>4. rename' = NoRename
      BY <1>1, <1>9 DEF HandleDeletedSource
    <2> QED BY <2>1, <2>3, <2>4
  <1>10. CASE TearDownClosed
    <2>1. source \in Sources /\ source' = source
      BY <1>1, <1>10 DEF TearDownClosed
    <2>2. main' \in {"unschedule", "schedule"} /\ toSchedule' \in {{}, {source}}
      BY <1>10 DEF TearDownClosed
    <2>3. rename' = NoRename
      BY <1>1, <1>10 DEF TearDownClosed
    <2> QED BY <2>1, <2>2, <2>3
  <1>11. ASSUME NEW s \in Sources, ScheduleAnalysis(s)
         PROVE  MainTypeOK'
    BY <1>1, <1>11 DEF ScheduleAnalysis
  <1>12. CASE Notify
    <2>1. /\ main' \in {"join", "schedule", "idle"} /\ UNCHANGED <<source, toSchedule>>
          /\ rename' = NoRename
      BY <1>1, <1>12 DEF Notify
    <2> QED BY <1>1, <2>1
  <1>13. CASE RenameStep
    <2>1. UNCHANGED <<source, toSchedule>> /\ main \in {"idle"} \cup Renaming
      BY <1>13, RenameFrame
    <2>2. /\ main' \in {"idle"} \cup Renaming
          /\ IF main' \in Renaming THEN rename' \in Renames ELSE rename' = NoRename
      BY <1>1, <1>13, RenameType
    <2> QED BY <1>1, <2>1, <2>2
  <1> QED BY <1>3, <1>4, <1>5, <1>6, <1>7, <1>8, <1>9, <1>10, <1>11, <1>12, <1>13
          DEF Next, Receive, Handle, Work, WorkerOnly, Terminated, RenameStep

(* The queue. *)
LEMMA QueueTypeStep == TypeInv /\ [Next]_vars => QueueTypeOK'
  <1> SUFFICES ASSUME TypeInv, [Next]_vars PROVE QueueTypeOK'
    OBVIOUS
  <1>1. QueueTypeOK /\ WorkerTypeOK
    BY DEF TypeInv, TypeOK
  <1> USE DEF QueueTypeOK
  <1>2. CASE UNCHANGED queueVars
    BY <1>1, <1>2 DEF queueVars
  <1>3. CASE Editor \/ MainOnly \/ WorkerOnly \/ Notify \/ WaitForWork \/ SpuriousWakeup
             \/ UNCHANGED vars
    <2>1. UNCHANGED queueVars
      BY <1>3, MainOnlyFrame, WorkerOnlyFrame DEF Editor, WriteFile, RemoveFile, Notify,
           WaitForWork, SpuriousWakeup, vars, queueVars
    <2> QED BY <2>1, <1>2
  <1>4. CASE Unschedule \/ StopAnalysisWorker \/ TakeBatch
    <2>1. stop' \in {stop, TRUE}
      BY <1>4 DEF Unschedule, StopAnalysisWorker, TakeBatch
    <2>2. pending' \in SUBSET Sources /\ generation' \in Nat
      BY <1>1, <1>4 DEF Unschedule, StopAnalysisWorker, TakeBatch
    <2> QED BY <1>1, <2>1, <2>2
  <1>5. ASSUME NEW s \in Sources, ScheduleAnalysis(s) PROVE QueueTypeOK'
    BY <1>1, <1>5 DEF ScheduleAnalysis
  <1>6. CASE HandBack
    <2>1. Elements(batch) \in SUBSET Sources
      BY <1>1, ElementsOfSequence DEF WorkerTypeOK
    <2> QED BY <1>1, <1>6, <2>1 DEF HandBack
  <1> QED BY <1>3, <1>4, <1>5, <1>6, NextCases

(* The worker's place, its batch and its job: no step of the main thread     *)
(* touches them, but for the notify that wakes the worker.                   *)
WorkerInv == WorkerTypeOK /\ JobTypeOK /\ BatchInv /\ ImportInv

(* A step between two places where no entry is being analysed. *)
LEMMA IdleStep ==
    ASSUME TypeInv, job' = job, job = NoJob, worker' \notin Analysing, WorkerTypeOK',
           worker' \in {"handback", "recheck"} => batch' # <<>>,
           worker' \notin {"taken", "resolve"} => remaining' = {}
    PROVE  WorkerInv'
  <1>1. JobTypeOK' /\ BatchInv' /\ ImportInv'
    BY DEF JobTypeOK, BatchInv, ImportInv, Analysing
  <1> QED BY <1>1 DEF WorkerInv

(* The analysis of the batch's head ends, however it ends. *)
LEMMA LeaveStep ==
    ASSUME TypeInv, worker' = "guard", batch' = Tail(batch), job' = NoJob, batch # <<>>,
           worker \notin {"taken", "resolve"},
           UNCHANGED <<observed, changed, remaining, seen>>
    PROVE  WorkerInv'
  <1>1. WorkerTypeOK
    BY DEF TypeInv, TypeOK
  <1>2. Tail(batch) \in Seq(seen)
    BY <1>1 DEF WorkerTypeOK
  <1>3. WorkerTypeOK'
    BY <1>1, <1>2 DEF WorkerTypeOK
  <1>4. JobTypeOK' /\ ImportInv'
    BY DEF JobTypeOK, ImportInv, Analysing
  <1>5. BatchInv'
    BY DEF TypeInv, BatchInv, Analysing
  <1> QED BY <1>3, <1>4, <1>5 DEF WorkerInv

(* A step of one analysis. *)
LEMMA JobStep ==
    ASSUME TypeInv, worker \in Analysing \cup {"recheck"}, worker' \in Analysing, job' \in Jobs,
           UNCHANGED <<observed, changed, remaining, seen, batch>>, ImportInv'
    PROVE  WorkerInv'
  <1>1. WorkerTypeOK /\ batch # <<>>
    BY DEF TypeInv, TypeOK, BatchInv
  <1>2. WorkerTypeOK'
    BY <1>1 DEF WorkerTypeOK
  <1>3. JobTypeOK' /\ BatchInv'
    BY <1>1 DEF JobTypeOK, TypeInv, BatchInv, Analysing
  <1> QED BY <1>2, <1>3 DEF WorkerInv

LEMMA ResolveType ==
    ASSUME TypeInv, NEW s \in Sources, ResolveSource(s)
    PROVE  WorkerInv'
  <1>1. WorkerTypeOK /\ JobTypeOK /\ TablesTypeOK
    BY DEF TypeInv, TypeOK
  <1> DEFINE fresh == Affected(s) \ seen
             first == fresh \cap AffectedConfigured(configured, graphs, s)
             own == (fresh \cap {s}) \ first
             others == fresh \ (first \cup own)
  <1>2. fresh \in SUBSET Sources
    BY <1>1, AffectedAreSources DEF Affected, TablesTypeOK
  <1>3. /\ worker = "resolve" /\ worker' = worker /\ job' = job
        /\ remaining' = remaining \ {s} /\ seen' = seen \cup fresh
        /\ UNCHANGED <<observed, changed>>
        /\ \E p \in Orders(first), o \in Orders(own), q \in Orders(others) :
             batch' = batch \o p \o o \o q
    BY DEF ResolveSource, At
  <1> HIDE DEF fresh
  <1>4. PICK p \in Orders(first), o \in Orders(own), q \in Orders(others) :
          batch' = batch \o p \o o \o q
    BY <1>3
  <1>5. /\ first \in SUBSET fresh /\ own \in SUBSET fresh /\ others \in SUBSET fresh
        /\ first \in SUBSET Sources /\ own \in SUBSET Sources /\ others \in SUBSET Sources
    BY <1>2
  <1> HIDE DEF first, own, others
  <1>6. p \in Seq(first) /\ o \in Seq(own) /\ q \in Seq(others)
    BY <1>5, OrdersAreSequences
  <1>7. /\ p \in Seq(seen') /\ o \in Seq(seen') /\ q \in Seq(seen') /\ batch \in Seq(seen')
    BY <1>1, <1>3, <1>5, <1>6 DEF WorkerTypeOK
  <1>8. batch' \in Seq(seen')
    BY <1>4, <1>7
  <1>9. WorkerTypeOK'
    BY <1>1, <1>2, <1>3, <1>8 DEF WorkerTypeOK
  <1>10. job = NoJob
    BY <1>1, <1>3 DEF JobTypeOK, Analysing
  <1> QED BY <1>3, <1>9, <1>10, IdleStep DEF Analysing

LEMMA RecheckType ==
    ASSUME TypeInv, RecheckEntry
    PROVE  WorkerInv'
  <1>1. /\ WorkerTypeOK /\ JobTypeOK /\ worker = "recheck" /\ batch # <<>>
        /\ UNCHANGED <<observed, changed, remaining, seen>>
    BY DEF TypeInv, TypeOK, BatchInv, RecheckEntry, At
  <1>2. Head(batch) \in Sources /\ job = NoJob
    BY <1>1 DEF WorkerTypeOK, JobTypeOK, Analysing
  <1>3. CASE worker' = "guard" /\ batch' = Tail(batch) /\ job' = job
    BY <1>1, <1>2, <1>3, LeaveStep
  <1>4. CASE /\ worker' = "load" /\ batch' = batch
             /\ job' = [NoJob EXCEPT !.entry = Head(batch), !.next = Head(batch),
                          !.mode = IF configured # {} /\ ~IsConfiguredEntry(Head(batch))
                                   THEN "SyntaxOnly" ELSE "Default"]
    <2>1. /\ [s \in {} |-> None] \in Loaded
          /\ [s \in {} |-> {}] \in Findings
      BY HashMapIff DEF Loaded, Findings, IsHashMap
    <2>2. <<>> \in Seq(Sources \X Sources) /\ {} \in ImportEdges
      BY DEF ImportEdges
    <2>3. PICK mode \in {"SyntaxOnly", "Default"} :
            job' = [NoJob EXCEPT !.entry = Head(batch), !.next = Head(batch), !.mode = mode]
      BY <1>4
    <2>4. job' = [entry |-> Head(batch), mode |-> mode, next |-> Head(batch), todo |-> <<>>,
                  imported |-> {}, loaded |-> [s \in {} |-> None], edges |-> {},
                  index |-> {}, found |-> [s \in {} |-> {}], success |-> FALSE]
      BY <2>3 DEF NoJob
    <2>5. job' \in Jobs
      BY <1>2, <2>1, <2>2, <2>4 DEF Jobs
    <2>6. ImportInv'
      <3>1. job'.todo = <<>> /\ job'.next = Head(batch)
        BY <2>4
      <3>2. \A k \in DOMAIN job'.todo : job'.todo[k][1] \in DOMAIN job'.loaded
        BY <3>1
      <3> QED BY <1>2, <3>1, <3>2 DEF ImportInv
    <2> QED BY <1>1, <1>4, <2>5, <2>6, JobStep DEF Analysing
  <1> QED BY <1>3, <1>4 DEF RecheckEntry

(* An error is located in a source the run has reached. *)
LEMMA AbortType ==
    ASSUME job \in Jobs, NEW s \in Sources, NEW text \in Texts \cup {None}, Abort(s, text)
    PROVE  job' \in Jobs /\ worker' = "stopcheck"
  <1>1. {text} \in FoundText
    BY DEF FoundText
  <1>2. IsHashMap([x \in {s} |-> {text}], Sources, FoundText)
    BY <1>1 DEF IsHashMap
  <1>3. [x \in {s} |-> {text}] \in Findings
    BY <1>2, HashMapIff DEF Findings
  <1>4. <<>> \in Seq(Sources \X Sources)
    OBVIOUS
  <1>5. job' = [job EXCEPT !.todo = <<>>, !.imported = {}, !.next = None,
                           !.found = [x \in {s} |-> {text}]]
    BY DEF Abort
  <1>6. job' \in Jobs
    BY <1>3, <1>4, <1>5 DEF Jobs
  <1> QED BY <1>6 DEF Abort

LEMMA TextType ==
    ASSUME EditorTypeOK, NEW s \in Sources
    PROVE  Text(s) \in Texts \cup {None}
  BY DEF EditorTypeOK, Text

LEMMA LoadType ==
    ASSUME TypeInv, LoadSource
    PROVE  WorkerInv'
  <1> DEFINE s == job.next
             text == Text(s)
             edges == [k \in DOMAIN Imports[text] |-> <<s, Imports[text][k]>>]
  <1>1. /\ JobTypeOK /\ EditorTypeOK /\ ImportInv /\ worker = "load"
        /\ UNCHANGED <<observed, changed, remaining, seen, batch>>
    BY DEF TypeInv, TypeOK, LoadSource, At, CompilerRunFrame
  <1>2. /\ job \in Jobs /\ s \in Sources
        /\ \A k \in DOMAIN job.todo : job.todo[k][1] \in DOMAIN job.loaded
    BY <1>1 DEF JobTypeOK, Analysing, ImportInv
  <1>3. text \in Texts \cup {None}
    BY <1>1, <1>2, TextType
  <1>4. CASE Abort(s, text)
    <2>1. job' \in Jobs /\ worker' = "stopcheck"
      BY <1>2, <1>3, <1>4, AbortType
    <2> QED BY <1>1, <2>1, JobStep DEF Analysing, ImportInv
  <1>5. CASE /\ text # None /\ worker' = "import"
             /\ job' = [job EXCEPT !.next = None, !.loaded = Assign(@, s, text),
                                   !.todo = edges \o @]
    <2>1. text \in Texts /\ Imports[text] \in Seq(Sources)
      BY <1>3, <1>5, TextsAssumption
    <2> HIDE DEF s, text
    <2>2. /\ edges \in Seq(Sources \X Sources)
          /\ \A k \in DOMAIN edges : edges[k][1] = s
      BY <1>2, <2>1
    <2>3. /\ job.loaded \in Loaded /\ job.todo \in Seq(Sources \X Sources)
      BY <1>2 DEF Jobs
    <2>4. IsHashMap(job.loaded, Sources, Texts)
      BY <2>3, HashMapIff DEF Loaded
    <2>5. Assign(job.loaded, s, text) \in Loaded
      BY <1>2, <2>1, <2>4, AssignType, HashMapIff DEF Loaded
    <2>6. DOMAIN Assign(job.loaded, s, text) = DOMAIN job.loaded \cup {s}
      BY AssignDomain
    <2> HIDE DEF edges
    <2>7. /\ edges \o job.todo \in Seq(Sources \X Sources)
          /\ \A k \in DOMAIN (edges \o job.todo) :
               \/ \E j \in DOMAIN edges : (edges \o job.todo)[k] = edges[j]
               \/ \E j \in DOMAIN job.todo : (edges \o job.todo)[k] = job.todo[j]
      <3>1. edges \o job.todo \in Seq(Sources \X Sources)
        BY <2>2, <2>3
      <3>2. ASSUME NEW k \in DOMAIN (edges \o job.todo)
            PROVE  \/ \E j \in DOMAIN edges : (edges \o job.todo)[k] = edges[j]
                   \/ \E j \in DOMAIN job.todo : (edges \o job.todo)[k] = job.todo[j]
        <4>1. /\ Len(edges) \in Nat /\ Len(job.todo) \in Nat
              /\ k \in 1..(Len(edges) + Len(job.todo))
              /\ DOMAIN edges = 1..Len(edges) /\ DOMAIN job.todo = 1..Len(job.todo)
          BY <2>2, <2>3
        <4>2. CASE k <= Len(edges)
          <5>1. k \in DOMAIN edges /\ (edges \o job.todo)[k] = edges[k]
            BY <2>2, <2>3, <4>1, <4>2
          <5> QED BY <5>1
        <4>3. CASE k > Len(edges)
          <5>1. /\ k - Len(edges) \in DOMAIN job.todo
                /\ (edges \o job.todo)[k] = job.todo[k - Len(edges)]
            BY <2>2, <2>3, <4>1, <4>3
          <5> QED BY <5>1
        <4> QED BY <4>1, <4>2, <4>3
      <3> QED BY <3>1, <3>2
    <2>8. /\ job'.todo = edges \o job.todo /\ job'.loaded = Assign(job.loaded, s, text)
          /\ job' \in Jobs
      BY <1>2, <1>5, <2>5, <2>7 DEF Jobs
    <2>9. ImportInv'
      <3>1. \A k \in DOMAIN job'.todo : job'.todo[k][1] \in DOMAIN job'.loaded
        BY <1>2, <2>2, <2>6, <2>7, <2>8
      <3> QED BY <1>5, <3>1 DEF ImportInv
    <2> QED BY <1>1, <1>5, <2>8, <2>9, JobStep DEF Analysing
  <1> QED BY <1>4, <1>5 DEF LoadSource

LEMMA ImportType ==
    ASSUME TypeInv, ResolveImport
    PROVE  WorkerInv'
  <1> DEFINE importer == Head(job.todo)[1]
             imported == Head(job.todo)[2]
  <1>1. /\ JobTypeOK /\ EditorTypeOK /\ ImportInv /\ worker = "import" /\ job.todo # <<>>
        /\ UNCHANGED <<observed, changed, remaining, seen, batch>>
    BY DEF TypeInv, TypeOK, ResolveImport, At, CompilerRunFrame
  <1>2. /\ job \in Jobs /\ job.todo \in Seq(Sources \X Sources)
        /\ \A k \in DOMAIN job.todo : job.todo[k][1] \in DOMAIN job.loaded
    BY <1>1 DEF JobTypeOK, Analysing, ImportInv, Jobs
  <1>3. /\ Head(job.todo) \in Sources \X Sources /\ 1 \in DOMAIN job.todo
        /\ Head(job.todo) = job.todo[1]
    BY <1>1, <1>2
  <1>4. /\ importer \in Sources /\ imported \in Sources /\ importer \in DOMAIN job.loaded
    BY <1>2, <1>3
  <1>5. CASE Abort(importer, job.loaded[importer])
    <2>1. IsHashMap(job.loaded, Sources, Texts)
      BY <1>2, HashMapIff DEF Jobs, Loaded
    <2>2. job.loaded[importer] \in Texts \cup {None}
      BY <1>4, <2>1 DEF IsHashMap
    <2>3. job' \in Jobs /\ worker' = "stopcheck"
      BY <1>2, <1>4, <1>5, <2>2, AbortType
    <2> QED BY <1>1, <2>3, JobStep DEF Analysing, ImportInv
  <1>6. CASE /\ worker' = IF imported \in job.imported THEN "import" ELSE "load"
             /\ job' = [job EXCEPT !.todo = Tail(@),
                                   !.edges = @ \cup {<<importer, imported>>},
                                   !.imported = @ \cup {imported},
                                   !.next = IF imported \in job.imported THEN None ELSE imported]
    <2>1. /\ Tail(job.todo) \in Seq(Sources \X Sources)
          /\ \A k \in DOMAIN Tail(job.todo) : k + 1 \in DOMAIN job.todo
                                                /\ Tail(job.todo)[k] = job.todo[k + 1]
      BY <1>1, <1>2
    <2>2. /\ job.edges \cup {<<importer, imported>>} \in ImportEdges
          /\ job.imported \cup {imported} \in SUBSET Sources
      BY <1>2, <1>4 DEF Jobs, ImportEdges
    <2> HIDE DEF importer, imported
    <2>3. /\ job' \in Jobs /\ job'.todo = Tail(job.todo) /\ job'.loaded = job.loaded
          /\ worker' = "load" => job'.next = imported
      BY <1>2, <1>4, <1>6, <2>1, <2>2 DEF Jobs
    <2>4. ImportInv'
      <3>1. \A k \in DOMAIN job'.todo : job'.todo[k][1] \in DOMAIN job'.loaded
        BY <1>2, <2>1, <2>3
      <3> QED BY <1>4, <2>3, <3>1 DEF ImportInv
    <2> QED BY <1>1, <1>6, <2>3, <2>4, JobStep DEF Analysing
  <1> QED BY <1>5, <1>6 DEF ResolveImport

LEMMA FinishType ==
    ASSUME TypeInv, FinishAnalysis
    PROVE  WorkerInv'
  <1> DEFINE Having(defect) == { s \in DOMAIN job.loaded : Defect[job.loaded[s]] = defect }
             erroneous == IF Having("parse") # {} \/ job.mode = "SyntaxOnly"
                          THEN Having("parse") ELSE Having("semantic")
  <1>1. /\ JobTypeOK /\ worker = "import" /\ worker' = "stopcheck"
        /\ UNCHANGED <<observed, changed, remaining, seen, batch>>
    BY DEF TypeInv, TypeOK, FinishAnalysis, At, CompilerRunFrame
  <1>2. job \in Jobs /\ IsHashMap(job.loaded, Sources, Texts)
    BY <1>1, HashMapIff DEF JobTypeOK, Analysing, Jobs, Loaded
  <1>3. PICK reported \in SUBSET erroneous, index \in Harvests(erroneous = {}) :
          job' = [job EXCEPT !.imported = {}, !.index = index, !.success = (erroneous = {}),
                             !.found = [s \in reported |-> {job.loaded[s]}]]
    BY DEF FinishAnalysis
  <1>4. reported \in SUBSET DOMAIN job.loaded
    OBVIOUS
  <1>5. IsHashMap([s \in reported |-> {job.loaded[s]}], Sources, FoundText)
    BY <1>2, <1>4 DEF IsHashMap, FoundText
  <1>6. [s \in reported |-> {job.loaded[s]}] \in Findings
    BY <1>5, HashMapIff DEF Findings
  <1>7. PICK success \in BOOLEAN :
          job' = [job EXCEPT !.imported = {}, !.index = index, !.success = success,
                             !.found = [s \in reported |-> {job.loaded[s]}]]
    BY <1>3
  <1>8. index \in SUBSET Links
    <2>1. LinksOf(job.loaded) \in SUBSET Links
      BY DEF LinksOf
    <2> QED BY <2>1 DEF Harvests
  <1>9. job' \in Jobs
    BY <1>2, <1>6, <1>7, <1>8 DEF Jobs
  <1> QED BY <1>1, <1>9, JobStep DEF Analysing, ImportInv

(* All the worker's steps. *)
LEMMA WorkerTypeStep == TypeInv /\ [Next]_vars => WorkerInv'
  <1> SUFFICES ASSUME TypeInv, [Next]_vars PROVE WorkerInv'
    OBVIOUS
  <1>1. WorkerInv /\ QueueTypeOK /\ WorkerTypeOK /\ JobTypeOK
    BY DEF TypeInv, TypeOK, WorkerInv
  <1>2. CASE UNCHANGED workerVars
    BY <1>1, <1>2 DEF WorkerInv, WorkerTypeOK, JobTypeOK, BatchInv, ImportInv, workerVars
  <1>3. CASE Editor \/ MainOnly \/ Unschedule \/ (\E s \in Sources : ScheduleAnalysis(s))
             \/ StopAnalysisWorker \/ UNCHANGED vars
    <2>1. UNCHANGED workerVars
      BY <1>3, MainOnlyFrame DEF Editor, WriteFile, RemoveFile, Unschedule, ScheduleAnalysis,
           StopAnalysisWorker, vars, workerVars
    <2> QED BY <2>1, <1>2
  <1>4. CASE Notify \/ SpuriousWakeup
    <2>1. CASE worker = "asleep" /\ worker' = "idle"
               /\ UNCHANGED <<observed, changed, remaining, seen, batch, job>>
      <3>1. WorkerTypeOK' /\ job = NoJob /\ remaining = {}
        BY <1>1, <2>1 DEF WorkerTypeOK, JobTypeOK, Analysing, WorkerInv, BatchInv
      <3> QED BY <2>1, <3>1, IdleStep DEF Analysing
    <2>2. CASE worker' = worker /\ UNCHANGED <<observed, changed, remaining, seen, batch, job>>
      BY <2>2, <1>2 DEF workerVars
    <2> QED BY <1>4, <2>1, <2>2 DEF Notify, SpuriousWakeup, At
  <1>5. CASE WaitForWork \/ KeepDebouncing \/ StopDebouncing \/ TakeBatch \/ EndOfRound
             \/ NextEntry \/ NextRound \/ FirstRound \/ HandBack
    <2>1. job = NoJob /\ job' = job
      BY <1>1, <1>5 DEF WaitForWork, KeepDebouncing, StopDebouncing, TakeBatch, EndOfRound,
           NextEntry, NextRound, FirstRound, HandBack, At, JobTypeOK, Analysing
    <2>2. /\ worker' \notin Analysing
          /\ worker' \in {"handback", "recheck"} => batch' # <<>>
          /\ worker' \notin {"taken", "resolve"} => remaining' = {}
      <3> USE DEF TypeInv, BatchInv
      <3>1. CASE WaitForWork
        <4>1. worker' \in {"done", "debounce", "asleep"} /\ worker = "idle" /\ remaining' = remaining
          BY <3>1 DEF WaitForWork, At
        <4> QED BY <4>1 DEF Analysing
      <3>2. CASE KeepDebouncing \/ StopDebouncing \/ TakeBatch \/ EndOfRound \/ NextEntry
                 \/ NextRound \/ FirstRound \/ HandBack
        BY <3>2 DEF KeepDebouncing, StopDebouncing, TakeBatch, EndOfRound, NextEntry, NextRound,
             FirstRound,
             HandBack, At, Analysing
      <3> QED BY <1>5, <3>1, <3>2
    <2>3. WorkerTypeOK'
      <3> USE <1>1 DEF WorkerTypeOK, QueueTypeOK, At
      <3>1. CASE WaitForWork
        <4>1. /\ worker' \in {"done", "debounce", "asleep"}
              /\ observed' \in {generation, observed}
              /\ UNCHANGED <<changed, remaining, seen, batch>>
          BY <3>1 DEF WaitForWork
        <4> QED BY <4>1
      <3>2. CASE KeepDebouncing \/ StopDebouncing
        BY <3>2 DEF KeepDebouncing, StopDebouncing
      <3>3. CASE TakeBatch
        BY <3>3 DEF TakeBatch
      <3>4. CASE EndOfRound
        <4>1. <<>> \in Seq({})
          OBVIOUS
        <4> QED BY <3>4, <4>1 DEF EndOfRound
      <3>5. CASE NextEntry \/ NextRound \/ FirstRound
        BY <3>5 DEF NextEntry, NextRound, FirstRound
      <3>6. CASE HandBack
        <4>1. <<>> \in Seq({}) /\ remaining' = remaining
          BY <3>6 DEF HandBack
        <4>2. remaining = {}
          BY <3>6 DEF HandBack, TypeInv, BatchInv
        <4> QED BY <3>6, <4>1, <4>2 DEF HandBack
      <3> QED BY <1>5, <3>1, <3>2, <3>3, <3>4, <3>5, <3>6
    <2> QED BY <2>1, <2>2, <2>3, IdleStep
  <1>6. ASSUME NEW s \in Sources, ResolveSource(s) PROVE WorkerInv'
    BY <1>6, ResolveType
  <1>7. CASE RecheckEntry
    BY <1>7, RecheckType
  <1>8. CASE LoadSource \/ ResolveImport \/ FinishAnalysis
    BY <1>8, LoadType, ImportType, FinishType
  <1>9. CASE StopCheck
    <2>1. /\ worker = "stopcheck" /\ batch # <<>> /\ job \in Jobs
          /\ UNCHANGED <<observed, changed, remaining, seen>>
      BY <1>1, <1>9 DEF StopCheck, At, WorkerInv, BatchInv, JobTypeOK, Analysing
    <2>2. CASE worker' = "guard" /\ batch' = Tail(batch) /\ job' = NoJob
      BY <2>1, <2>2, LeaveStep
    <2>3. CASE worker' = "publish" /\ UNCHANGED <<batch, job>>
      BY <2>1, <2>3, JobStep DEF Analysing, ImportInv
    <2> QED BY <1>9, <2>2, <2>3 DEF StopCheck
  <1>10. CASE RegisterAnalysis \/ PublishSnapshots
    <2>1. /\ worker \in {"publish", "snapshot"} /\ worker' \in {"snapshot", "diagnose"}
          /\ job' = job /\ job \in Jobs
          /\ UNCHANGED <<observed, changed, remaining, seen, batch>>
      BY <1>1, <1>10 DEF RegisterAnalysis, PublishSnapshots, At, JobTypeOK, Analysing
    <2> QED BY <2>1, JobStep DEF Analysing, ImportInv
  <1>11. CASE DropDeletedResult \/ PublishDiagnostics
    <2>1. /\ worker \in {"publish", "diagnose"} /\ batch # <<>>
          /\ worker' = "guard" /\ batch' = Tail(batch) /\ job' = NoJob
          /\ UNCHANGED <<observed, changed, remaining, seen>>
      BY <1>1, <1>11 DEF DropDeletedResult, PublishDiagnostics, LeaveEntry, At, WorkerInv,
           BatchInv, Analysing
    <2> QED BY <2>1, LeaveStep
  <1> QED BY <1>3, <1>4, <1>5, <1>6, <1>7, <1>8, <1>9, <1>10, <1>11, NextCases DEF WorkerOnly

(* The tables. *)
LEMMA TablesTypeIntro ==
    ASSUME configured' \in SUBSET Sources, known' \in SUBSET Sources, deleted' \in SUBSET Sources,
           IsHashMap(graphs', Sources, ImportEdges),
           IsHashMap(references', Sources, ReferenceStates), IsHashMap(completion', Sources, CompletionStates),
           IsHashMap(diags', Sources, Findings), published' \in [Sources -> FoundText]
    PROVE  TablesTypeOK'
  BY DEF TablesTypeOK

LEMMA DropType ==
    ASSUME TablesTypeOK, NEW entries, DropEntries(entries), UNCHANGED <<configured, deleted>>
    PROVE  TablesTypeOK'
  <1>1. /\ known' = known \ entries /\ graphs' = Erase(graphs, entries)
        /\ diags' = Erase(diags, entries)
        /\ references' = Erase(references, entries) /\ completion' = Erase(completion, entries)
        /\ published' = PublishMerged(configured, graphs', diags', published,
                                      SourcesOf(diags, entries))
    BY DEF DropEntries, Tables
  <1>2. /\ IsHashMap(graphs', Sources, ImportEdges)
        /\ IsHashMap(references', Sources, ReferenceStates)
        /\ IsHashMap(completion', Sources, CompletionStates)
        /\ IsHashMap(diags', Sources, Findings)
    BY <1>1, EraseType DEF TablesTypeOK
  <1>3. published' \in [Sources -> FoundText]
    BY <1>1, <1>2, PublishMergedType DEF TablesTypeOK
  <1> QED BY <1>1, <1>2, <1>3, TablesTypeIntro DEF TablesTypeOK

LEMMA DeleteType ==
    ASSUME TypeInv, HandleDeletedSource
    PROVE  TablesTypeOK'
  <1>1. TablesTypeOK /\ source \in Sources
    BY DEF TypeInv, TypeOK, MainTypeOK, HandleDeletedSource, Handling
  <1>2. PICK dropped \in {{source}, {}} :
          /\ known' = known \ dropped /\ graphs' = Erase(graphs, dropped)
          /\ references' = Erase(references, dropped)
          /\ completion' = Erase(completion, dropped)
          /\ diags' = ClearSource(Erase(diags, dropped), source)
          /\ published' = [PublishMerged(configured, Erase(graphs, dropped),
                                         Erase(diags, dropped), published,
                                         SourcesOf(diags, dropped)) EXCEPT ![source] = {}]
          /\ deleted' = deleted \cup {source} /\ configured' = configured
    BY DEF HandleDeletedSource
  <1>3. /\ IsHashMap(graphs', Sources, ImportEdges)
        /\ IsHashMap(references', Sources, ReferenceStates)
        /\ IsHashMap(completion', Sources, CompletionStates)
        /\ IsHashMap(Erase(diags, dropped), Sources, Findings)
    BY <1>1, <1>2, EraseType DEF TablesTypeOK
  <1>4. IsHashMap(diags', Sources, Findings)
    BY <1>2, <1>3, ClearSourceType
  <1>5. published' \in [Sources -> FoundText]
    <2> DEFINE merged == PublishMerged(configured, Erase(graphs, dropped), Erase(diags, dropped),
                                       published, SourcesOf(diags, dropped))
    <2>1. merged \in [Sources -> FoundText]
      BY <1>1, <1>3, PublishMergedType DEF TablesTypeOK
    <2>2. published' = [merged EXCEPT ![source] = {}]
      BY <1>2
    <2> HIDE DEF merged
    <2> QED BY <2>1, <2>2 DEF FoundText
  <1> QED BY <1>1, <1>2, <1>3, <1>4, <1>5, TablesTypeIntro DEF TablesTypeOK

LEMMA TearDownType ==
    ASSUME TypeInv, TearDownClosed
    PROVE  TablesTypeOK'
  <1>1. TablesTypeOK
    BY DEF TypeInv, TypeOK
  <1>2. UNCHANGED <<configured, deleted>>
    BY DEF TearDownClosed
  <1>3. CASE UNCHANGED tableVars
    BY <1>1, <1>2, <1>3 DEF TablesTypeOK, tableVars
  <1>4. CASE /\ known' = known \ {source} /\ graphs' = Erase(graphs, {source})
             /\ references' = Erase(references, {source})
             /\ completion' = Erase(completion, {source})
             /\ diags' = (IF source \in DOMAIN diags THEN Erase(diags, {source})
                                                    ELSE ClearSource(diags, source))
             /\ published' = PublishMerged(configured, graphs', diags', published,
                                           SourcesOf(diags, {source}) \cup {source})
    <2>1. /\ IsHashMap(graphs', Sources, ImportEdges)
          /\ IsHashMap(references', Sources, ReferenceStates)
          /\ IsHashMap(completion', Sources, CompletionStates)
      BY <1>1, <1>4, EraseType DEF TablesTypeOK
    <2>2. IsHashMap(diags', Sources, Findings)
      <3>1. IsHashMap(diags, Sources, Findings)
        BY <1>1 DEF TablesTypeOK
      <3>2. /\ IsHashMap(Erase(diags, {source}), Sources, Findings)
            /\ IsHashMap(ClearSource(diags, source), Sources, Findings)
        BY <3>1, EraseType, ClearSourceType
      <3> QED BY <1>4, <3>2
    <2>3. published' \in [Sources -> FoundText]
      BY <1>1, <1>4, <2>2, PublishMergedType DEF TablesTypeOK
    <2> QED BY <1>1, <1>2, <1>4, <2>1, <2>2, <2>3, TablesTypeIntro DEF TablesTypeOK
  <1> QED BY <1>3, <1>4 DEF TearDownClosed, Tables

(* The providers' new states. *)
LEMMA SnapshotType ==
    ASSUME TypeInv, PublishSnapshots
    PROVE  TablesTypeOK'
  <1> DEFINE entry == job.entry
  <1>1. /\ TablesTypeOK /\ job \in Jobs
        /\ UNCHANGED <<configured, known, graphs, diags, published, deleted>>
    BY DEF TypeInv, TypeOK, JobTypeOK, Analysing, PublishSnapshots, At, entryVars
  <1>2. entry \in Sources /\ job.loaded \in Loaded /\ job.index \in SUBSET Links
    BY <1>1 DEF Jobs
  <1>3. IsHashMap(references, Sources, ReferenceStates)
        /\ IsHashMap(completion, Sources, CompletionStates)
    BY <1>1 DEF TablesTypeOK
  <1>4. ReferenceState(references, entry, job) \in ReferenceStates
    <2>1. entry \in DOMAIN references => /\ references[entry].last \in Loaded \cup {None}
                                        /\ references[entry].lastIndex \in SUBSET Links
      BY <1>3, ReferenceStateAt DEF ReferenceStates
    <2>2. PICK last \in Loaded \cup {None}, lastIndex \in SUBSET Links :
            ReferenceState(references, entry, job)
              = [current |-> job.loaded, index |-> job.index, last |-> last,
                 lastIndex |-> lastIndex]
      BY <1>2, <2>1 DEF ReferenceState
    <2> QED BY <1>2, <2>2 DEF ReferenceStates
  <1>5. ASSUME NEW empty
        PROVE  CompletionState(completion, entry, job, empty) \in CompletionStates
    <2>1. entry \in DOMAIN completion => completion[entry].last \in Loaded \cup {None}
      BY <1>3 DEF IsHashMap, CompletionStates
    <2>2. PICK last \in Loaded \cup {None} :
            CompletionState(completion, entry, job, empty)
              = [current |-> job.loaded, last |-> last]
      BY <1>2, <2>1 DEF CompletionState
    <2> QED BY <1>2, <2>2 DEF CompletionStates
  <1>6. /\ references' = Assign(references, entry, ReferenceState(references, entry, job))
        /\ \E empty \in CompletionMayBeEmpty(job) :
             completion' = Assign(completion, entry, CompletionState(completion, entry, job, empty))
    BY DEF PublishSnapshots
  <1> HIDE DEF entry
  <1>7. /\ IsHashMap(references', Sources, ReferenceStates)
        /\ IsHashMap(completion', Sources, CompletionStates)
    BY <1>2, <1>3, <1>4, <1>5, <1>6, AssignType
  <1> QED BY <1>1, <1>7 DEF TablesTypeOK

LEMMA RegisterType ==
    ASSUME TypeInv, RegisterAnalysis
    PROVE  TablesTypeOK'
  <1> DEFINE entry == job.entry
             register == job.success \/ ~HasSuccessfulSnapshot(entry)
             newKnown == IF register THEN known \cup {entry} ELSE known
             newGraphs == IF register THEN Assign(graphs, entry, job.edges) ELSE graphs
             subsumed == IF job.success
                         THEN SubsumedEntries(configured, newKnown, newGraphs, entry)
                         ELSE {}
  <1>1. TablesTypeOK /\ job \in Jobs
    BY DEF TypeInv, TypeOK, JobTypeOK, Analysing, RegisterAnalysis, At
  <1>2. entry \in Sources /\ job.edges \in ImportEdges
    BY <1>1 DEF Jobs
  <1>3. /\ known' = newKnown \ subsumed /\ graphs' = Erase(newGraphs, subsumed)
        /\ diags' = Erase(diags, subsumed)
        /\ published' = PublishMerged(configured, graphs', diags', published,
                                      SourcesOf(diags, subsumed))
        /\ references' = Erase(references, subsumed)
        /\ completion' = Erase(completion, subsumed)
        /\ UNCHANGED <<configured, deleted>>
    BY DEF RegisterAnalysis, Tables
  <1> HIDE DEF subsumed, register
  <1>4. newKnown \in SUBSET Sources /\ IsHashMap(newGraphs, Sources, ImportEdges)
    <2>1. IsHashMap(graphs, Sources, ImportEdges) /\ known \in SUBSET Sources
      BY <1>1 DEF TablesTypeOK
    <2>2. IsHashMap(Assign(graphs, entry, job.edges), Sources, ImportEdges)
      BY <1>2, <2>1, AssignType
    <2> QED BY <1>2, <2>1, <2>2
  <1> HIDE DEF newKnown, newGraphs, entry
  <1>5. /\ IsHashMap(graphs', Sources, ImportEdges)
        /\ IsHashMap(references', Sources, ReferenceStates)
        /\ IsHashMap(completion', Sources, CompletionStates)
        /\ IsHashMap(diags', Sources, Findings)
    BY <1>1, <1>3, <1>4, EraseType DEF TablesTypeOK
  <1>6. published' \in [Sources -> FoundText]
    BY <1>1, <1>3, <1>5, PublishMergedType DEF TablesTypeOK
  <1> QED BY <1>1, <1>3, <1>4, <1>5, <1>6, TablesTypeIntro DEF TablesTypeOK

LEMMA PublishType ==
    ASSUME TypeInv, PublishDiagnostics
    PROVE  TablesTypeOK'
  <1>1. /\ TablesTypeOK /\ job \in Jobs /\ job.entry \in Sources /\ job.found \in Findings
        /\ UNCHANGED <<configured, known, graphs, references, completion, deleted>>
        /\ diags' = Assign(diags, job.entry, WithEntry(job.found, job.entry))
        /\ published' = PublishMerged(configured, graphs, diags', published,
                                      AffectedByPublish(diags, job.entry, job.found))
    BY DEF TypeInv, TypeOK, JobTypeOK, Analysing, PublishDiagnostics, At, Jobs, entryVars
  <1>2. WithEntry(job.found, job.entry) \in Findings
    <2>1. IsHashMap(job.found, Sources, FoundText) /\ {} \in FoundText
      BY <1>1, HashMapIff DEF Findings, FoundText
    <2>2. IsHashMap(Assign(job.found, job.entry, {}), Sources, FoundText)
      BY <1>1, <2>1, AssignType
    <2> QED BY <1>1, <2>2, HashMapIff DEF WithEntry, Findings
  <1>3. IsHashMap(diags', Sources, Findings)
    BY <1>1, <1>2, AssignType DEF TablesTypeOK
  <1>4. published' \in [Sources -> FoundText]
    BY <1>1, <1>3, PublishMergedType DEF TablesTypeOK
  <1> QED BY <1>1, <1>3, <1>4 DEF TablesTypeOK

LEMMA TablesTypeStep == TypeInv /\ [Next]_vars => TablesTypeOK'
  <1> SUFFICES ASSUME TypeInv, [Next]_vars PROVE TablesTypeOK'
    OBVIOUS
  <1>1. TablesTypeOK
    BY DEF TypeInv, TypeOK
  <1>2. CASE NoTableStep
    BY <1>1, <1>2, NoTableFrame DEF TablesTypeOK
  <1>3. CASE HandleInitialize \/ MarkSourceAvailable
    BY <1>1, <1>3, InstanceAssumption
    DEF HandleInitialize, MarkSourceAvailable, TablesTypeOK, tableVars
  <1>4. CASE HandleDeletedSource \/ TearDownClosed
    BY <1>4, DeleteType, TearDownType
  <1>5. ASSUME NEW s \in Sources, ResolveSource(s) PROVE TablesTypeOK'
    <2>1. UNCHANGED <<configured, deleted>> /\ (UNCHANGED tableVars \/ DropEntries({s}))
      BY <1>5 DEF ResolveSource
    <2>2. CASE UNCHANGED tableVars
      BY <1>1, <2>1, <2>2 DEF TablesTypeOK, tableVars
    <2> QED BY <1>1, <2>1, <2>2, DropType
  <1>6. CASE RecheckEntry
    <2>1. UNCHANGED <<configured, deleted>> /\ (UNCHANGED tableVars \/ DropEntries({Head(batch)}))
      BY <1>6 DEF RecheckEntry
    <2>2. CASE UNCHANGED tableVars
      BY <1>1, <2>1, <2>2 DEF TablesTypeOK, tableVars
    <2> QED BY <1>1, <2>1, <2>2, DropType
  <1>7. CASE RegisterAnalysis \/ PublishSnapshots \/ PublishDiagnostics
    BY <1>7, RegisterType, SnapshotType, PublishType
  <1> QED BY <1>2, <1>3, <1>4, <1>5, <1>6, <1>7, TableCases

LEMMA TypeInductive == TypeInv /\ [Next]_vars => TypeInv'
  BY EditorTypeStep, MainTypeStep, QueueTypeStep, WorkerTypeStep, TablesTypeStep
  DEF TypeInv, TypeOK, WorkerInv

(* Every variable of the server keeps its type in every interleaving of the  *)
(* editor, the main thread and the worker, and a batch only holds entries    *)
(* that its round has seen.                                                  *)
THEOREM TypeCorrect == Spec => []TypeOK
  <1>1. TypeInv => TypeOK
    BY DEF TypeInv
  <1> QED BY <1>1, TypeInitially, TypeInductive, PTL DEF Spec

-----------------------------------------------------------------------------
(***************************************************************************)
(* Refinement.  The language server implements AnalysisQueue: every step of *)
(* its threads is a step of the abstract queue or leaves it alone.          *)
(***************************************************************************)
(***************************************************************************)
(* What ties the generation counter and the worker's place to the batch:    *)
(* outside analyze_entries_for_sources no batch is held, a batch of entries *)
(* has changed sources behind it, and entries are only handed back when     *)
(* input or an exit came after the batch was taken.                         *)
(***************************************************************************)
QueueInv ==
    /\ observed <= generation
    /\ worker \in {"idle", "asleep", "debounce", "done"} => changed = {} /\ batch = <<>>
    /\ batch # <<>> => changed # {}
    /\ worker = "handback" => stop \/ generation # observed

RefinementInv == TypeInv /\ QueueInv

(* The editor, or a step that moves nothing the queue is made of. *)
Aside ==
    /\ UNCHANGED <<pending, stop, changed, batch, observed>>
    /\ generation' = generation

(* The abstract queue as the server's variables show it, one step each. *)
LEMMA AsideStep ==
    ASSUME QueueInv, Aside, worker' = worker
    PROVE  QueueInv' /\ UNCHANGED Queue!queue
  BY DEF QueueInv, Aside, Queue!queue, Elements

LEMMA ElementsOfTail ==
    ASSUME NEW S, NEW seq \in Seq(S), seq # <<>>
    PROVE  /\ Head(seq) \in Elements(seq)
           /\ \/ Elements(Tail(seq)) = Elements(seq)
              \/ Elements(Tail(seq)) = Elements(seq) \ {Head(seq)}
  <1>1. /\ Len(seq) \in Nat \ {0} /\ DOMAIN seq = 1..Len(seq) /\ Head(seq) = seq[1]
        /\ DOMAIN Tail(seq) = 1..(Len(seq) - 1)
        /\ \A k \in 1..(Len(seq) - 1) : Tail(seq)[k] = seq[k + 1]
    OBVIOUS
  <1>2. Head(seq) \in Elements(seq)
    BY <1>1 DEF Elements
  <1>3. Elements(Tail(seq)) \subseteq Elements(seq)
    <2>1. ASSUME NEW k \in 1..(Len(seq) - 1) PROVE Tail(seq)[k] \in Elements(seq)
      <3>1. k + 1 \in 1..Len(seq)
        BY <1>1
      <3> QED BY <1>1, <3>1 DEF Elements
    <2> QED BY <1>1, <2>1 DEF Elements
  <1>4. Elements(seq) \ {Head(seq)} \subseteq Elements(Tail(seq))
    <2>1. ASSUME NEW k \in 1..Len(seq), seq[k] # Head(seq)
          PROVE  seq[k] \in Elements(Tail(seq))
      <3>1. k - 1 \in 1..(Len(seq) - 1) /\ (k - 1) + 1 = k
        BY <1>1, <2>1
      <3>2. Tail(seq)[k - 1] = seq[k]
        BY <1>1, <3>1
      <3> QED BY <1>1, <3>1, <3>2 DEF Elements
    <2> QED BY <1>1, <2>1 DEF Elements
  <1> QED BY <1>2, <1>3, <1>4

LEMMA ElementsOfConcatenation ==
    ASSUME NEW S, NEW first \in Seq(S), NEW second \in Seq(S)
    PROVE  Elements(first \o second) = Elements(first) \cup Elements(second)
  <1>1. /\ Len(first) \in Nat /\ DOMAIN first = 1..Len(first)
        /\ Len(second) \in Nat /\ DOMAIN second = 1..Len(second)
        /\ DOMAIN (first \o second) = 1..(Len(first) + Len(second))
        /\ \A k \in 1..Len(first) : (first \o second)[k] = first[k]
        /\ \A k \in 1..Len(second) : (first \o second)[Len(first) + k] = second[k]
    OBVIOUS
  <1>2. ASSUME NEW k \in 1..Len(first)
        PROVE  first[k] \in Elements(first \o second)
    <2>1. k \in 1..(Len(first) + Len(second))
      BY <1>1
    <2> QED BY <1>1, <2>1 DEF Elements
  <1>3. ASSUME NEW k \in 1..Len(second)
        PROVE  second[k] \in Elements(first \o second)
    <2>1. Len(first) + k \in 1..(Len(first) + Len(second))
      BY <1>1
    <2> QED BY <1>1, <2>1 DEF Elements
  <1>4. ASSUME NEW k \in 1..(Len(first) + Len(second))
        PROVE  (first \o second)[k] \in Elements(first) \cup Elements(second)
    <2>1. CASE k \in 1..Len(first)
      BY <1>1, <2>1 DEF Elements
    <2>2. CASE k \notin 1..Len(first)
      <3>1. k - Len(first) \in 1..Len(second) /\ Len(first) + (k - Len(first)) = k
        BY <1>1, <2>2
      <3>2. (first \o second)[k] = second[k - Len(first)]
        BY <1>1, <3>1
      <3> QED BY <1>1, <3>1, <3>2 DEF Elements
    <2> QED BY <2>1, <2>2
  <1>5. /\ Elements(first) = { first[k] : k \in 1..Len(first) }
        /\ Elements(second) = { second[k] : k \in 1..Len(second) }
        /\ Elements(first \o second)
             = { (first \o second)[k] : k \in 1..(Len(first) + Len(second)) }
    BY <1>1 DEF Elements
  <1> QED BY <1>2, <1>3, <1>4, <1>5

-----------------------------------------------------------------------------
(* Steps of the main thread and the editor. *)

LEMMA ScheduleStep ==
    ASSUME RefinementInv, NEW s \in Sources, ScheduleAnalysis(s)
    PROVE  QueueInv' /\ Queue!Schedule(s)
  <1>1. observed \in Nat /\ generation \in Nat /\ observed <= generation
    BY DEF RefinementInv, TypeInv, TypeOK, QueueTypeOK, WorkerTypeOK, QueueInv
  <1>2. /\ pending' = pending \cup {s} /\ generation' = generation + 1
        /\ UNCHANGED <<stop, worker, observed, changed, batch>>
    BY DEF ScheduleAnalysis, workerVars
  <1>3. generation' # observed' /\ observed' <= generation'
    BY <1>1, <1>2
  <1> QED BY <1>2, <1>3 DEF RefinementInv, QueueInv, Queue!Schedule, Queue!Note, Elements

LEMMA UnscheduleStep ==
    ASSUME RefinementInv, Unschedule
    PROVE  QueueInv' /\ source \in Sources /\ Queue!Withdraw(source)
  <1>1. observed \in Nat /\ generation \in Nat /\ observed <= generation
    BY DEF RefinementInv, TypeInv, TypeOK, QueueTypeOK, WorkerTypeOK, QueueInv
  <1>2. source \in Sources
    BY DEF RefinementInv, TypeInv, TypeOK, MainTypeOK, Unschedule, Handling
  <1>3. /\ pending' = pending \ {source} /\ generation' = generation + 1
        /\ UNCHANGED <<stop, worker, observed, changed, batch>>
    BY DEF Unschedule, workerVars
  <1>4. generation' # observed' /\ observed' <= generation'
    BY <1>1, <1>3
  <1> QED BY <1>2, <1>3, <1>4 DEF RefinementInv, QueueInv, Queue!Withdraw, Queue!Note, Elements

LEMMA CloseStep ==
    ASSUME RefinementInv, StopAnalysisWorker
    PROVE  QueueInv' /\ Queue!Close
  BY DEF RefinementInv, QueueInv, StopAnalysisWorker, workerVars, Queue!Close, Elements

LEMMA WakeStep ==
    ASSUME RefinementInv, Notify \/ SpuriousWakeup
    PROVE  QueueInv' /\ UNCHANGED Queue!queue
  BY DEF RefinementInv, QueueInv, Notify, SpuriousWakeup, At, queueVars, Queue!queue, Elements

-----------------------------------------------------------------------------
(* Steps of the worker. *)

(* The pauses before a batch: no batch is held, so no input is newer.       *)
LEMMA WaitStep ==
    ASSUME RefinementInv, WaitForWork \/ KeepDebouncing \/ StopDebouncing
    PROVE  QueueInv' /\ UNCHANGED Queue!queue
  <1>1. observed \in Nat /\ generation \in Nat
    BY DEF RefinementInv, TypeInv, TypeOK, QueueTypeOK, WorkerTypeOK
  <1>2. changed = {} /\ batch = <<>>
    BY DEF RefinementInv, QueueInv, WaitForWork, KeepDebouncing, StopDebouncing, At
  <1>3. /\ UNCHANGED <<pending, generation, stop, changed, batch>>
        /\ observed' \in {observed, generation}
        /\ worker' \in {"idle", "asleep", "debounce", "done"}
    BY DEF WaitForWork, KeepDebouncing, StopDebouncing, At, queueVars
  <1> QED BY <1>1, <1>2, <1>3 DEF RefinementInv, QueueInv, Queue!queue, Elements

LEMMA TakeStep ==
    ASSUME RefinementInv, TakeBatch
    PROVE  QueueInv' /\ (Queue!Take \/ UNCHANGED Queue!queue)
  <1>1. observed \in Nat /\ generation \in Nat
    BY DEF RefinementInv, TypeInv, TypeOK, QueueTypeOK, WorkerTypeOK
  <1>2. changed = {} /\ batch = <<>> /\ batch' = batch
    BY DEF RefinementInv, QueueInv, TakeBatch, At
  <1>3. /\ ~stop /\ generation = observed /\ worker' = "taken"
        /\ changed' = pending /\ pending' = {}
        /\ UNCHANGED <<generation, stop, observed>>
    BY DEF TakeBatch
  <1>4. QueueInv'
    BY <1>1, <1>2, <1>3 DEF QueueInv
  <1>5. CASE pending = {}
    BY <1>2, <1>3, <1>4, <1>5 DEF Queue!queue, Elements
  <1>6. CASE pending # {}
    BY <1>2, <1>3, <1>4, <1>6 DEF Queue!Take, Elements
  <1> QED BY <1>4, <1>5, <1>6

LEMMA ResolveStep ==
    ASSUME RefinementInv, NEW s \in Sources, ResolveSource(s)
    PROVE  QueueInv' /\ \E entries \in SUBSET Sources : Queue!Resolve(entries)
  <1>1. WorkerTypeOK /\ TablesTypeOK
    BY DEF RefinementInv, TypeInv, TypeOK
  <1> DEFINE fresh == Affected(s) \ seen
             first == fresh \cap AffectedConfigured(configured, graphs, s)
             own == (fresh \cap {s}) \ first
             others == fresh \ (first \cup own)
  <1>2. fresh \in SUBSET Sources
    BY <1>1, AffectedAreSources DEF Affected, TablesTypeOK
  <1>3. /\ worker = "resolve" /\ worker' = worker
        /\ UNCHANGED <<pending, generation, stop, observed, changed>>
        /\ changed # {}
        /\ \E p \in Orders(first), o \in Orders(own), q \in Orders(others) :
             batch' = batch \o p \o o \o q
    BY <1>1 DEF ResolveSource, At, queueVars, WorkerTypeOK
  <1>4. /\ first \in SUBSET Sources /\ own \in SUBSET Sources /\ others \in SUBSET Sources
    BY <1>2
  <1> HIDE DEF fresh, first, own, others
  <1>5. PICK p \in Orders(first), o \in Orders(own), q \in Orders(others) :
          batch' = batch \o p \o o \o q
    BY <1>3
  <1>6. p \in Seq(Sources) /\ o \in Seq(Sources) /\ q \in Seq(Sources) /\ batch \in Seq(Sources)
    <2>1. p \in Seq(first) /\ o \in Seq(own) /\ q \in Seq(others)
      BY <1>4, OrdersAreSequences
    <2> QED BY <1>1, <1>4, <2>1 DEF WorkerTypeOK
  <1>7. /\ Elements(batch') = Elements(batch) \cup (Elements(p) \cup Elements(o) \cup Elements(q))
        /\ Elements(p) \cup Elements(o) \cup Elements(q) \in SUBSET Sources
    <2>1. batch \o p \in Seq(Sources) /\ batch \o p \o o \in Seq(Sources)
      BY <1>6
    <2>2. /\ Elements(batch \o p) = Elements(batch) \cup Elements(p)
          /\ Elements(batch \o p \o o) = Elements(batch \o p) \cup Elements(o)
          /\ Elements(batch \o p \o o \o q) = Elements(batch \o p \o o) \cup Elements(q)
      <3>1. ASSUME NEW left \in Seq(Sources), NEW right \in Seq(Sources)
            PROVE  Elements(left \o right) = Elements(left) \cup Elements(right)
        BY ElementsOfConcatenation
      <3>2. Elements(batch \o p) = Elements(batch) \cup Elements(p)
        BY <1>6, <3>1
      <3>3. Elements(batch \o p \o o) = Elements(batch \o p) \cup Elements(o)
        BY <1>6, <2>1, <3>1
      <3>4. Elements(batch \o p \o o \o q) = Elements(batch \o p \o o) \cup Elements(q)
        BY <1>6, <2>1, <3>1
      <3> QED BY <3>2, <3>3, <3>4
    <2> QED BY <1>5, <1>6, <2>2, ElementsOfSequence
  <1>8. QueueInv'
    BY <1>3 DEF RefinementInv, QueueInv
  <1>9. Queue!Resolve(Elements(p) \cup Elements(o) \cup Elements(q))
    BY <1>3, <1>7 DEF Queue!Resolve
  <1> QED BY <1>7, <1>8, <1>9

LEMMA EndOfRoundStep ==
    ASSUME RefinementInv, EndOfRound
    PROVE  QueueInv' /\ (Queue!Finish \/ UNCHANGED Queue!queue)
  <1>1. worker = "resolve" /\ UNCHANGED <<pending, generation, stop, observed, batch>>
    BY DEF EndOfRound, At, queueVars
  <1>2. CASE batch = <<>> /\ worker' = "idle" /\ changed' = {}
    <2>1. QueueInv'
      BY <1>1, <1>2 DEF RefinementInv, QueueInv
    <2>2. CASE changed = {}
      BY <1>1, <1>2, <2>1, <2>2 DEF Queue!queue, Elements
    <2>3. CASE changed # {}
      BY <1>1, <1>2, <2>1, <2>3 DEF Queue!Finish, Elements
    <2> QED BY <2>1, <2>2, <2>3
  <1>3. CASE worker' = "guard" /\ changed' = changed
    BY <1>1, <1>3 DEF RefinementInv, QueueInv, Queue!queue, Elements
  <1> QED BY <1>2, <1>3 DEF EndOfRound

LEMMA HandBackStep ==
    ASSUME RefinementInv, HandBack
    PROVE  QueueInv' /\ Queue!GiveBack
  <1>1. batch # <<>> /\ changed # {} /\ (stop \/ generation # observed)
    BY DEF RefinementInv, QueueInv, TypeInv, BatchInv, HandBack, At
  <1>2. Elements(batch) # {}
    BY <1>1, ElementsOfTail DEF RefinementInv, TypeInv, TypeOK, WorkerTypeOK
  <1>3. /\ pending' = pending \cup Elements(batch) /\ worker' = "idle"
        /\ batch' = <<>> /\ changed' = {} /\ UNCHANGED <<generation, stop, observed>>
    BY DEF HandBack
  <1>4. Elements(batch') = {}
    BY <1>3 DEF Elements
  <1>5. QueueInv'
    BY <1>3 DEF RefinementInv, QueueInv
  <1>6. Queue!GiveBack
    BY <1>1, <1>2, <1>3, <1>4 DEF Queue!GiveBack
  <1> QED BY <1>5, <1>6

(* The loop over the entries: one is begun or goes on, or it is settled.    *)
LEMMA EntryStep ==
    ASSUME RefinementInv,
           UNCHANGED <<pending, generation, stop, observed, changed>>,
           worker \notin {"idle", "asleep", "debounce", "done"},
           worker' \notin {"idle", "asleep", "debounce", "done"},
           worker' = "handback" => stop \/ generation # observed,
           batch' = batch \/ (batch # <<>> /\ batch' = Tail(batch))
    PROVE  QueueInv' /\ (UNCHANGED Queue!queue \/ \E s \in Sources : Queue!Settle(s))
  <1>1. batch \in Seq(Sources)
    BY DEF RefinementInv, TypeInv, TypeOK, WorkerTypeOK
  <1>2. CASE batch' = batch
    BY <1>2 DEF RefinementInv, QueueInv, Queue!queue, Elements
  <1>3. CASE batch # <<>> /\ batch' = Tail(batch)
    <2>1. QueueInv'
      BY <1>3 DEF RefinementInv, QueueInv
    <2>2. /\ Head(batch) \in Sources /\ Head(batch) \in Elements(batch)
          /\ \/ Elements(batch') = Elements(batch)
             \/ Elements(batch') = Elements(batch) \ {Head(batch)}
      BY <1>1, <1>3, ElementsOfTail
    <2>3. CASE Elements(batch') = Elements(batch)
      BY <2>1, <2>3 DEF Queue!queue
    <2>4. CASE Elements(batch') = Elements(batch) \ {Head(batch)}
      BY <2>1, <2>2, <2>4 DEF Queue!Settle
    <2> QED BY <2>2, <2>3, <2>4
  <1> QED BY <1>2, <1>3

LEMMA LoopStep ==
    ASSUME RefinementInv,
           \/ NextEntry \/ NextRound \/ FirstRound \/ RecheckEntry
           \/ LoadSource \/ ResolveImport \/ FinishAnalysis \/ StopCheck
           \/ DropDeletedResult \/ RegisterAnalysis \/ PublishSnapshots \/ PublishDiagnostics
    PROVE  QueueInv' /\ (UNCHANGED Queue!queue \/ \E s \in Sources : Queue!Settle(s))
  <1>1. worker \in {"handback", "recheck"} \cup Analysing => batch # <<>>
    BY DEF RefinementInv, TypeInv, BatchInv
  <1>2. UNCHANGED <<pending, generation, stop, observed, changed>>
    BY DEF NextEntry, NextRound, FirstRound, RecheckEntry, LoadSource, ResolveImport,
         FinishAnalysis,
       StopCheck, DropDeletedResult, RegisterAnalysis, PublishSnapshots, PublishDiagnostics,
       CompilerRunFrame, queueVars
  <1>3. CASE NextEntry \/ NextRound \/ FirstRound \/ RecheckEntry
    <2>1. /\ worker \in {"taken", "guard", "recheck"}
          /\ worker' \in {"recheck", "handback", "resolve", "load", "guard"}
          /\ worker' = "handback" => stop \/ generation # observed
          /\ batch' = batch \/ (batch # <<>> /\ batch' = Tail(batch))
      BY <1>1, <1>3 DEF NextEntry, NextRound, FirstRound, RecheckEntry, At
    <2> QED BY <1>2, <2>1, EntryStep
  <1>4. CASE LoadSource \/ ResolveImport \/ FinishAnalysis \/ RegisterAnalysis \/ PublishSnapshots
    <2>1. /\ worker \in Analysing /\ worker' \in Analysing /\ batch' = batch
      BY <1>4 DEF LoadSource, ResolveImport, FinishAnalysis, RegisterAnalysis, PublishSnapshots,
         Abort, CompilerRunFrame, At, Analysing
    <2> QED BY <1>2, <2>1, EntryStep DEF Analysing
  <1>5. CASE StopCheck \/ DropDeletedResult \/ PublishDiagnostics
    <2>1. /\ worker \in Analysing /\ worker' \in {"guard", "publish"}
          /\ batch' = batch \/ batch' = Tail(batch)
      BY <1>5 DEF StopCheck, DropDeletedResult, PublishDiagnostics, LeaveEntry, At, Analysing
    <2> QED BY <1>1, <1>2, <2>1, EntryStep DEF Analysing
  <1> QED BY <1>3, <1>4, <1>5

-----------------------------------------------------------------------------
LEMMA QueueInductive ==
    ASSUME RefinementInv, [Next]_vars
    PROVE  QueueInv' /\ (Queue!Next \/ UNCHANGED Queue!queue)
  <1>1. CASE Editor
    <2>1. Aside /\ worker' = worker
      BY <1>1 DEF Editor, WriteFile, RemoveFile, Aside, queueVars, workerVars
    <2> QED BY <2>1, AsideStep DEF RefinementInv
  <1>2. CASE MainOnly
    <2>1. Aside /\ worker' = worker
      BY <1>2, MainOnlyFrame DEF Aside, workerVars
    <2> QED BY <2>1, AsideStep DEF RefinementInv
  <1>3. CASE UNCHANGED vars
    <2>1. Aside /\ worker' = worker
      BY <1>3 DEF vars, Aside
    <2> QED BY <2>1, AsideStep DEF RefinementInv
  <1>4. ASSUME NEW s \in Sources, ScheduleAnalysis(s)
        PROVE  QueueInv' /\ (Queue!Next \/ UNCHANGED Queue!queue)
    BY <1>4, ScheduleStep DEF Queue!Next
  <1>5. CASE Unschedule
    BY <1>5, UnscheduleStep DEF Queue!Next
  <1>6. CASE StopAnalysisWorker
    BY <1>6, CloseStep DEF Queue!Next
  <1>7. CASE Notify \/ SpuriousWakeup
    BY <1>7, WakeStep
  <1>8. CASE WaitForWork \/ KeepDebouncing \/ StopDebouncing
    BY <1>8, WaitStep
  <1>9. CASE TakeBatch
    BY <1>9, TakeStep DEF Queue!Next
  <1>10. CASE HandBack
    BY <1>10, HandBackStep DEF Queue!Next
  <1>11. ASSUME NEW s \in Sources, ResolveSource(s)
         PROVE  QueueInv' /\ (Queue!Next \/ UNCHANGED Queue!queue)
    BY <1>11, ResolveStep DEF Queue!Next
  <1>12. CASE EndOfRound
    BY <1>12, EndOfRoundStep DEF Queue!Next
  <1>13. CASE \/ NextEntry \/ NextRound \/ FirstRound \/ RecheckEntry
              \/ LoadSource \/ ResolveImport \/ FinishAnalysis \/ StopCheck
              \/ DropDeletedResult \/ RegisterAnalysis \/ PublishSnapshots \/ PublishDiagnostics
    BY <1>13, LoopStep DEF Queue!Next
  <1> QED BY <1>1, <1>2, <1>3, <1>4, <1>5, <1>6, <1>7, <1>8, <1>9, <1>10, <1>11, <1>12, <1>13,
             NextCases DEF WorkerOnly

(* The queue, the generation counter, the debounced wait and the worker's    *)
(* loop, with all their interleavings, implement the abstract queue: no      *)
(* entry of a batch is lost, whenever input or the exit arrives.             *)
THEOREM QueueIsImplemented == Spec => ImplementsQueue
  <1>1. Init => TypeInv /\ QueueInv /\ Queue!Init
    <2>1. Init => QueueInv /\ Queue!Init
      BY DEF Init, QueueInv, Queue!Init, Elements
    <2> QED BY <2>1, TypeInitially
  <1>2. TypeInv /\ QueueInv /\ [Next]_vars
          => TypeInv' /\ QueueInv' /\ [Queue!Next]_(Queue!queue)
    BY QueueInductive, TypeInductive DEF RefinementInv
  <1> QED BY <1>1, <1>2, PTL DEF Spec, ImplementsQueue, Queue!Spec
=============================================================================
