--------------------------- MODULE LanguageServer ---------------------------
(***************************************************************************)
(* The CKSP language server (lsp/LanguageServer.cpp): the main thread that  *)
(* handles the client's messages, the analysis worker thread, and the       *)
(* tables they share.                                                       *)
(*                                                                         *)
(* One step is one critical section (m_analysis_mutex, m_state_mutex or the *)
(* overlay's own lock) or one access to the sources; between two sections   *)
(* of a handler the other thread may run.  What a file says is one of a     *)
(* small set of texts; of a text only the imports and the first error       *)
(* matter.  Of the requests, which only read the tables, the rename is here: *)
(* it looks at them, and at the texts, in several sections.                 *)
(***************************************************************************)
EXTENDS DiagnosticPublisher, ReferenceProvider, Naturals, Sequences, FiniteSets

CONSTANTS
    MayContain,    \* which texts the user writes into which source
    Imports,       \* the sources a text imports, in order
    Defect,        \* "none", "syntax" (aborts the import phase), "parse" (found
                   \* by the parser or the early checks) or "semantic"
    Configured,    \* the entry points the initialize request configures
    InitialDisk,   \* the files that exist when the server starts
    EditorMoves,   \* which kinds of editor and file system events happen
    MaxEdits       \* bound: how many of them happen

ASSUME TextsAssumption ==
    /\ IsFiniteSet(Sources) /\ None \notin Texts
    /\ MayContain \in [Sources -> SUBSET Texts]
    /\ Imports \in [Texts -> Seq(Sources)]
    /\ Defect \in [Texts -> {"none", "syntax", "parse", "semantic"}]

ASSUME InstanceAssumption ==
    /\ Configured \subseteq Sources
    /\ InitialDisk \in [Sources -> Texts \cup {None}]
    /\ EditorMoves \subseteq {"open", "change", "close", "write", "remove", "rename", "exit"}
    /\ MaxEdits \in Nat

VARIABLES
    (* the editor and the file system *)
    disk,          \* the text of each file, or None
    overlay,       \* OverlaySourceProvider::m_documents: the open buffers, or None
    events,        \* the file events the client has not sent yet
    edits,         \* editor moves so far
    (* the main thread *)
    main,          \* where the handler of the current message is
    source,        \* the source that message is about
    toSchedule,    \* sources the handler still has to schedule
    rename,        \* the rename it answers
    (* the analysis queue, guarded by m_analysis_mutex *)
    pending,       \* m_pending_analysis_sources
    generation,    \* m_analysis_generation
    stop,          \* m_stop_analysis_worker
    (* the worker thread *)
    worker,        \* where it is
    observed,      \* observed_generation, then the generation of its batch
    changed,       \* changed_sources of the batch
    remaining,     \* those the resolving loop has not reached
    seen,          \* seen_entries
    batch,         \* entries still to analyse
    job,           \* the analysis under way
    (* the tables, guarded by m_state_mutex *)
    configured, known, graphs,    \* EntryPointResolver
    references,                   \* ReferenceProvider::m_states
    completion,                   \* CompletionProvider::m_states
    diags, published,             \* DiagnosticPublisher
    deleted                       \* m_deleted_sources

editorVars == <<disk, overlay, events, edits>>
mainVars == <<main, source, toSchedule, rename>>
queueVars == <<pending, generation, stop>>
workerVars == <<worker, observed, changed, remaining, seen, batch, job>>
entryVars == <<configured, known, graphs>>
tableVars == <<known, graphs, references, completion, diags, published>>
vars == <<disk, overlay, events, edits, main, source, toSchedule, rename,
          pending, generation, stop,
          worker, observed, changed, remaining, seen, batch, job,
          configured, known, graphs, references, completion, diags, published, deleted>>

-----------------------------------------------------------------------------
(* What a read of a source sees: the open buffer, else the file.            *)
Text(s) == IF overlay[s] # None THEN overlay[s] ELSE disk[s]

Readable(s) == Text(s) # None
Live == [s \in Sources |-> Text(s)]

(* All sequences that list a finite set once: an iteration in hash order.   *)
Orders(set) ==
    { order \in [1..Cardinality(set) -> set] :
        \A x \in set : \E k \in DOMAIN order : order[k] = x }

Elements(seq) == { seq[k] : k \in DOMAIN seq }

IsConfiguredEntry(s) == s \in configured
Affected(s) == AffectedEntries(configured, known, graphs, s)

NoJob == [entry |-> None, mode |-> None, next |-> None, todo |-> <<>>, imported |-> {},
          loaded |-> [s \in {} |-> None], edges |-> {}, index |-> {}, found |-> [s \in {} |-> {}],
          success |-> FALSE]

NoRename == [target |-> None, word |-> None, locations |-> {}, unchecked |-> {},
             settled |-> FALSE]

(* The worker has nothing to do and no event is on its way.  Whether it was *)
(* so when a rename was asked for is noted for the properties only.         *)
AtRest ==
    /\ worker \in {"idle", "asleep"} /\ pending = {}
    /\ \A s \in Sources : events[s] = "none"

(* The worker holds m_state_mutex over several steps in these places. *)
StateMutexFree == worker \notin {"resolve", "snapshot", "diagnose"}

(***************************************************************************)
(* The four tables are kept together: remove_entry, discard_entry and the   *)
(* two erase calls, for a set of entries.                                   *)
(***************************************************************************)
Tables(newKnown, newGraphs, newDiags, toPublish) ==
    /\ known' = newKnown
    /\ graphs' = newGraphs
    /\ diags' = newDiags
    /\ published' = PublishMerged(configured, newGraphs, newDiags, published, toPublish)

(* Mutant of DropEntries: the completion snapshot is not erased. *)
DropEntriesButCompletion(entries) ==
    /\ Tables(known \ entries, Erase(graphs, entries), Erase(diags, entries),
              SourcesOf(diags, entries))
    /\ references' = Erase(references, entries)
    /\ UNCHANGED completion

DropEntries(entries) ==
    /\ Tables(known \ entries, Erase(graphs, entries), Erase(diags, entries),
              SourcesOf(diags, entries))
    /\ references' = Erase(references, entries)
    /\ completion' = Erase(completion, entries)

-----------------------------------------------------------------------------
Init ==
    /\ disk = InitialDisk
    /\ overlay = [s \in Sources |-> None]
    /\ events = [s \in Sources |-> "none"]
    /\ edits = 0
    /\ main = "start" /\ source = None /\ toSchedule = {} /\ rename = NoRename
    /\ pending = {} /\ generation = 0 /\ stop = FALSE
    /\ worker = "idle" /\ observed = 0 /\ changed = {} /\ remaining = {}
    /\ seen = {} /\ batch = <<>> /\ job = NoJob
    /\ configured = {} /\ known = {} /\ graphs = [e \in {} |-> {}]
    /\ references = [e \in {} |-> None]
    /\ completion = [e \in {} |-> None]
    /\ diags = [e \in {} |-> None]
    /\ published = [s \in Sources |-> {}]
    /\ deleted = {}

(***************************************************************************)
(* The editor and the file system                                          *)
(***************************************************************************)
Edit(move) ==
    /\ move \in EditorMoves
    /\ edits < MaxEdits
    /\ edits' = edits + 1

(* A file is written outside the server; the client will report it.  Events *)
(* of one file that are not sent yet coalesce to the last.                  *)
WriteFile(s, text) ==
    /\ Edit("write")
    /\ text \in MayContain[s] /\ text # disk[s]
    /\ disk' = [disk EXCEPT ![s] = text]
    /\ events' = [events EXCEPT ![s] = "changed"]
    /\ UNCHANGED <<overlay, mainVars, queueVars, workerVars, configured, tableVars, deleted>>

RemoveFile(s) ==
    /\ Edit("remove")
    /\ disk[s] # None
    /\ disk' = [disk EXCEPT ![s] = None]
    /\ events' = [events EXCEPT ![s] = "deleted"]
    /\ UNCHANGED <<overlay, mainVars, queueVars, workerVars, configured, tableVars, deleted>>

(***************************************************************************)
(* The main thread: one handler per message, run to its end before the      *)
(* next message is read (main = "idle").                                    *)
(***************************************************************************)
Handling(at) == main = at

(* Mutant of HandleInitialize: the configured entries are not scheduled.    *)
InitializeWithoutAnalysis ==
    /\ Handling("start")
    /\ configured' = Configured
    /\ main' = "idle"
    /\ UNCHANGED <<editorVars, source, toSchedule, rename, queueVars, workerVars, tableVars, deleted>>

(* handle_initialize: the first message; it sets the configured entries and *)
(* schedules each.                                                          *)
HandleInitialize ==
    /\ Handling("start")
    /\ configured' = Configured
    /\ toSchedule' = Configured
    /\ main' = IF Configured = {} THEN "idle" ELSE "schedule"
    /\ UNCHANGED <<editorVars, source, rename, queueVars, workerVars, tableVars, deleted>>

(* handle_did_open, handle_did_change: m_sources.update; then               *)
(* mark_source_available and schedule_analysis_for_source.                  *)
HandleDidOpen(s, text) ==
    /\ Handling("idle")
    /\ Edit("open") /\ overlay[s] = None
    /\ text \in MayContain[s]
    /\ overlay' = [overlay EXCEPT ![s] = text]
    /\ main' = "mark" /\ source' = s
    /\ UNCHANGED <<disk, events, toSchedule, rename, queueVars, workerVars, configured, tableVars, deleted>>

HandleDidChange(s, text) ==
    /\ Handling("idle")
    /\ Edit("change") /\ overlay[s] # None
    /\ text \in MayContain[s] /\ text # overlay[s]
    /\ overlay' = [overlay EXCEPT ![s] = text]
    /\ main' = "mark" /\ source' = s
    /\ UNCHANGED <<disk, events, toSchedule, rename, queueVars, workerVars, configured, tableVars, deleted>>

(* handle_did_close: m_sources.close, then it looks whether the file exists *)
HandleDidClose(s) ==
    /\ Handling("idle")
    /\ Edit("close") /\ overlay[s] # None
    /\ overlay' = [overlay EXCEPT ![s] = None]
    /\ main' = "exists" /\ source' = s
    /\ UNCHANGED <<disk, events, toSchedule, rename, queueVars, workerVars, configured, tableVars, deleted>>

LookForClosedFile ==
    /\ Handling("exists")
    /\ main' = IF disk[source] = None THEN "delete" ELSE "teardown"
    /\ UNCHANGED <<editorVars, source, toSchedule, rename, queueVars, workerVars, configured, tableVars, deleted>>

(* handle_did_change_watched_files: a deletion only counts when the source  *)
(* cannot be loaded, from the overlay or from disk.                         *)
HandleWatchedFile(s) ==
    /\ Handling("idle")
    /\ events[s] # "none"
    /\ events' = [events EXCEPT ![s] = "none"]
    /\ source' = s
    /\ main' = CASE events[s] = "changed"                 -> "mark"
                 [] events[s] = "deleted" /\ Readable(s)  -> "schedule"
                 [] events[s] = "deleted" /\ ~Readable(s) -> "delete"
    /\ toSchedule' = IF main' = "schedule" THEN {s} ELSE {}
    /\ UNCHANGED <<disk, overlay, edits, rename, queueVars, workerVars, configured, tableVars, deleted>>

(* mark_source_available *)
MarkSourceAvailable ==
    /\ Handling("mark") /\ StateMutexFree
    /\ deleted' = deleted \ {source}
    /\ main' = "schedule" /\ toSchedule' = {source}
    /\ UNCHANGED <<editorVars, source, rename, queueVars, workerVars, configured, tableVars>>

(* handle_deleted_source: the source's own entry goes, its diagnostics go   *)
(* from every entry, and the other affected entries are scheduled.          *)
HandleDeletedSource ==
    /\ Handling("delete") /\ StateMutexFree
    /\ deleted' = deleted \cup {source}
    /\ LET dropped == IF source \in known THEN {source} ELSE {}
           newGraphs == Erase(graphs, dropped)
           afterDiscard == Erase(diags, dropped)
           discarded == PublishMerged(configured, newGraphs, afterDiscard, published,
                                      SourcesOf(diags, dropped))
       IN  /\ known' = known \ dropped
           /\ graphs' = newGraphs
           /\ references' = Erase(references, dropped)
           /\ completion' = Erase(completion, dropped)
           /\ diags' = ClearSource(afterDiscard, source)
           /\ published' = [discarded EXCEPT ![source] = {}]
    /\ toSchedule' = Affected(source) \ {source}
    /\ main' = IF toSchedule' = {} THEN "idle" ELSE "schedule"
    /\ UNCHANGED <<editorVars, source, rename, queueVars, workerVars, configured>>

(* Mutant of TearDownClosed: a source that stays in use is not analysed     *)
(* again with the text of its file.                                         *)
CloseWithoutAnalysis ==
    /\ Handling("teardown") /\ StateMutexFree
    /\ main' = "idle"
    /\ UNCHANGED <<editorVars, source, toSchedule, rename, queueVars, workerVars, configured, tableVars,
                   deleted>>

(* handle_did_close of a source whose file exists: a standalone entry ends  *)
(* with its buffer.  clear_entry of an entry without diagnostics clears the *)
(* source instead.                                                          *)
TearDownClosed ==
    /\ Handling("teardown") /\ StateMutexFree
    /\ LET standalone == /\ source \in known
                         /\ ~IsConfiguredEntry(source)
                         /\ ~IsOwnedByConfiguredEntry(configured, graphs, source)
       IN  IF standalone
           THEN /\ Tables(known \ {source}, Erase(graphs, {source}),
                          IF source \in DOMAIN diags THEN Erase(diags, {source})
                                                     ELSE ClearSource(diags, source),
                          SourcesOf(diags, {source}) \cup {source})
                /\ references' = Erase(references, {source})
                /\ completion' = Erase(completion, {source})
                /\ main' = "unschedule" /\ toSchedule' = {}
           ELSE /\ main' = "schedule" /\ toSchedule' = {source}
                /\ UNCHANGED tableVars
    /\ UNCHANGED <<editorVars, source, rename, queueVars, workerVars, configured, deleted>>

Unschedule ==
    /\ Handling("unschedule")
    /\ pending' = pending \ {source}
    /\ generation' = generation + 1
    /\ main' = "idle"
    /\ UNCHANGED <<editorVars, source, toSchedule, rename, stop, workerVars, configured, tableVars, deleted>>

(* Mutant of ScheduleAnalysis: notify_one is missing. *)
ScheduleSilently(s) ==
    /\ Handling("schedule") /\ s \in toSchedule
    /\ pending' = pending \cup {s}
    /\ generation' = generation + 1
    /\ toSchedule' = toSchedule \ {s}
    /\ main' = IF toSchedule = {s} THEN "idle" ELSE "schedule"
    /\ UNCHANGED <<editorVars, source, rename, stop, workerVars, configured, tableVars, deleted>>

(* schedule_analysis_for_source: the queue under the lock, then notify_one. *)
ScheduleAnalysis(s) ==
    /\ Handling("schedule") /\ s \in toSchedule
    /\ pending' = pending \cup {s}
    /\ generation' = generation + 1
    /\ toSchedule' = toSchedule \ {s}
    /\ main' = "notify"
    /\ UNCHANGED <<editorVars, source, rename, stop, workerVars, configured, tableVars, deleted>>

Notify ==
    /\ main \in {"notify", "notify_stop"}
    /\ worker' = IF worker = "asleep" THEN "idle" ELSE worker
    /\ main' = CASE main = "notify_stop"                   -> "join"
                 [] main = "notify" /\ toSchedule # {} -> "schedule"
                 [] main = "notify" /\ toSchedule = {} -> "idle"
    /\ UNCHANGED <<editorVars, source, toSchedule, rename, queueVars,
                   observed, changed, remaining, seen, batch, job, configured, tableVars, deleted>>

(* handle_rename: the target is resolved under m_state_mutex, which is then *)
(* given up; a position that means nothing is refused.                      *)
HandleRename(s, place) ==
    /\ Handling("idle") /\ StateMutexFree
    /\ Edit("rename")
    /\ \E target \in ResolveTarget(references, Affected(s), Live, <<s, place>>) :
         rename' = [NoRename EXCEPT !.target = target, !.settled = AtRest]
    /\ main' = "collect"
    /\ UNCHANGED <<disk, overlay, events, source, toSchedule, queueVars, workerVars,
                   configured, tableVars, deleted>>

(* RenameProvider::rename: references_to takes only the provider's own lock,*)
(* so the worker may be anywhere, also between two updates of the tables.   *)
CollectLocations ==
    /\ Handling("collect")
    /\ LET found == ReferencesTo(references, Live, rename.target)
       IN  rename' = [rename EXCEPT !.locations = found, !.unchecked = found]
    /\ main' = "expect"
    /\ UNCHANGED <<editorVars, source, toSchedule, queueVars, workerVars, configured, tableVars,
                   deleted>>

(* The declaration and then every location are read, in sorted order, as    *)
(* the buffers and files are now; the first that differs ends the rename.   *)
ReadDeclaration ==
    /\ Handling("expect")
    /\ LET word == TextAt(Live, rename.target)
       IN  IF word = None
           THEN main' = "idle" /\ rename' = NoRename
           ELSE main' = "compare" /\ rename' = [rename EXCEPT !.word = word]
    /\ UNCHANGED <<editorVars, source, toSchedule, queueVars, workerVars, configured, tableVars,
                   deleted>>

(* Mutant of CompareLocation: only the declaration is read again. *)
CompareNothing ==
    /\ Handling("compare") /\ rename.unchecked # {}
    /\ LET at == CHOOSE location \in rename.unchecked : TRUE
       IN  main' = main /\ rename' = [rename EXCEPT !.unchecked = @ \ {at}]
    /\ UNCHANGED <<editorVars, source, toSchedule, queueVars, workerVars, configured, tableVars,
                   deleted>>

CompareLocation ==
    /\ Handling("compare") /\ rename.unchecked # {}
    /\ LET at == CHOOSE location \in rename.unchecked : TRUE
       IN  IF TextAt(Live, at) = rename.word
           THEN main' = main /\ rename' = [rename EXCEPT !.unchecked = @ \ {at}]
           ELSE main' = "idle" /\ rename' = NoRename
    /\ UNCHANGED <<editorVars, source, toSchedule, queueVars, workerVars, configured, tableVars,
                   deleted>>

(* The edits are sent. *)
AnswerRename ==
    /\ Handling("compare") /\ rename.unchecked = {}
    /\ main' = "idle" /\ rename' = NoRename
    /\ UNCHANGED <<editorVars, source, toSchedule, queueVars, workerVars, configured, tableVars,
                   deleted>>

(* exit, or the end of the input: run leaves its loop and stops the worker. *)
HandleExit ==
    /\ Handling("idle") /\ "exit" \in EditorMoves
    /\ main' = "stop"
    /\ UNCHANGED <<editorVars, source, toSchedule, rename, queueVars, workerVars, configured, tableVars, deleted>>

(* Mutant of StopAnalysisWorker: the flag is set but the worker not woken.  *)
StopSilently ==
    /\ Handling("stop")
    /\ stop' = TRUE
    /\ main' = "join"
    /\ UNCHANGED <<editorVars, source, toSchedule, rename, pending, generation, workerVars,
                   configured, tableVars, deleted>>

StopAnalysisWorker ==
    /\ Handling("stop")
    /\ stop' = TRUE
    /\ main' = "notify_stop"
    /\ UNCHANGED <<editorVars, source, toSchedule, rename, pending, generation, workerVars,
                   configured, tableVars, deleted>>

JoinAnalysisWorker ==
    /\ Handling("join") /\ worker = "done"
    /\ main' = "exited"
    /\ UNCHANGED <<editorVars, source, toSchedule, rename, queueVars, workerVars, configured, tableVars, deleted>>

(***************************************************************************)
(* The worker thread: analysis_worker_loop                                  *)
(***************************************************************************)
At(place) == worker = place

(* The outer wait: its predicate is tested with the lock held, which the    *)
(* wait gives up in the same step in which the thread goes to sleep.        *)
WaitForWork ==
    /\ At("idle")
    /\ worker' = CASE stop                     -> "done"
                   [] ~stop /\ pending # {} -> "debounce"
                   [] ~stop /\ pending = {} -> "asleep"
    /\ observed' = IF ~stop /\ pending # {} THEN generation ELSE observed
    /\ UNCHANGED <<editorVars, mainVars, queueVars, changed, remaining, seen, batch, job,
                   configured, tableVars, deleted>>

SpuriousWakeup ==
    /\ At("asleep")
    /\ worker' = "idle"
    /\ UNCHANGED <<editorVars, mainVars, queueVars, observed, changed, remaining, seen, batch, job,
                   configured, tableVars, deleted>>

(* One return of the timed wait, woken or timed out: input during the pause *)
(* starts another pause, none means the batch is taken.                     *)
KeepDebouncing ==
    /\ At("debounce")
    /\ ~stop /\ generation # observed
    /\ observed' = generation
    /\ UNCHANGED <<editorVars, mainVars, queueVars, worker, changed, remaining, seen, batch, job,
                   configured, tableVars, deleted>>

StopDebouncing ==
    /\ At("debounce")
    /\ stop
    /\ worker' = "done"
    /\ UNCHANGED <<editorVars, mainVars, queueVars, observed, changed, remaining, seen, batch, job,
                   configured, tableVars, deleted>>

(* The queue is emptied and m_analysis_mutex given up; the tables are not   *)
(* locked yet.                                                              *)
TakeBatch ==
    /\ At("debounce")
    /\ ~stop /\ generation = observed
    /\ changed' = pending /\ remaining' = pending /\ pending' = {}
    /\ worker' = "taken"
    /\ UNCHANGED <<editorVars, mainVars, generation, stop, observed, seen, batch, job,
                   configured, tableVars, deleted>>

(***************************************************************************)
(* analyze_entries_for_sources                                              *)
(***************************************************************************)

(* The first round locks m_state_mutex, which only then keeps the main      *)
(* thread from changing the tables.                                         *)
FirstRound ==
    /\ At("taken")
    /\ worker' = "resolve"
    /\ UNCHANGED <<editorVars, mainVars, queueVars, observed, changed, remaining, seen, batch, job,
                   configured, tableVars, deleted>>

(* Mutant of ResolveSource: seen_entries is not filled. *)
ResolveUnseen(s) ==
    /\ At("resolve") /\ s \in remaining
    /\ remaining' = remaining \ {s}
    /\ \E p \in Orders(Affected(s) \ seen) : batch' = batch \o p
    /\ IF s \in Affected(s) THEN UNCHANGED tableVars ELSE DropEntries({s})
    /\ UNCHANGED <<editorVars, mainVars, queueVars, worker, observed, changed, seen, job,
                   configured, deleted>>

(* Under m_state_mutex: the entries one changed source affects join the     *)
(* batch, configured ones first; a source that is no entry of its own loses *)
(* the tables it may have.                                                  *)
ResolveSource(s) ==
    /\ At("resolve") /\ s \in remaining
    /\ remaining' = remaining \ {s}
    /\ LET fresh == Affected(s) \ seen
           first == fresh \cap AffectedConfigured(configured, graphs, s)
           own == (fresh \cap {s}) \ first
           others == fresh \ (first \cup own)
       IN  /\ seen' = seen \cup fresh
           /\ \E p \in Orders(first), o \in Orders(own), q \in Orders(others) :
                batch' = batch \o p \o o \o q
    /\ IF s \in Affected(s) THEN UNCHANGED tableVars ELSE DropEntries({s})
    /\ UNCHANGED <<editorVars, mainVars, queueVars, worker, observed, changed, job, configured, deleted>>

(* A round that finds nothing new ends the batch. *)
EndOfRound ==
    /\ At("resolve") /\ remaining = {}
    /\ IF batch = <<>>
       THEN worker' = "idle" /\ changed' = {} /\ seen' = {}
       ELSE worker' = "guard" /\ UNCHANGED <<changed, seen>>
    /\ UNCHANGED <<editorVars, mainVars, queueVars, observed, remaining, batch, job,
                   configured, tableVars, deleted>>

(* The next entry, unless newer input arrived (is_analysis_current).        *)
NextEntry ==
    /\ At("guard") /\ batch # <<>>
    /\ worker' = IF ~stop /\ observed = generation THEN "recheck" ELSE "handback"
    /\ UNCHANGED <<editorVars, mainVars, queueVars, observed, changed, remaining, seen, batch, job,
                   configured, tableVars, deleted>>

NextRound ==
    /\ At("guard") /\ batch = <<>>
    /\ worker' = "resolve" /\ remaining' = changed
    /\ UNCHANGED <<editorVars, mainVars, queueVars, observed, changed, seen, batch, job,
                   configured, tableVars, deleted>>

(* Mutant of HandBack: the rest of the batch is dropped. *)
DropBatch ==
    /\ At("handback")
    /\ worker' = "idle" /\ batch' = <<>> /\ changed' = {} /\ seen' = {}
    /\ UNCHANGED <<editorVars, mainVars, queueVars, observed, remaining, job,
                   configured, tableVars, deleted>>

(* The entries not analysed go back to the queue; the generation stays.     *)
HandBack ==
    /\ At("handback")
    /\ pending' = pending \cup Elements(batch)
    /\ worker' = "idle" /\ batch' = <<>> /\ changed' = {} /\ seen' = {}
    /\ UNCHANGED <<editorVars, mainVars, generation, stop, observed, remaining, job,
                   configured, tableVars, deleted>>

(* Mutant of RecheckEntry: the entry is not resolved again.                 *)
StartWithoutRecheck ==
    /\ At("recheck")
    /\ worker' = "load"
    /\ job' = [NoJob EXCEPT !.entry = Head(batch), !.next = Head(batch),
                 !.mode = IF configured # {} /\ ~IsConfiguredEntry(Head(batch))
                          THEN "SyntaxOnly" ELSE "Default"]
    /\ UNCHANGED <<editorVars, mainVars, queueVars, observed, changed, remaining, seen, batch,
                   configured, tableVars, deleted>>

(* An earlier analysis of the batch may have found an owner for the entry.  *)
(* analyze_entry starts by choosing its mode, from configured entries that  *)
(* only handle_initialize writes.                                           *)
RecheckEntry ==
    /\ At("recheck")
    /\ LET entry == Head(batch)
       IN  IF entry \in Affected(entry)
           THEN /\ worker' = "load"
                /\ job' = [NoJob EXCEPT !.entry = entry, !.next = entry,
                             !.mode = IF configured # {} /\ ~IsConfiguredEntry(entry)
                                      THEN "SyntaxOnly" ELSE "Default"]
                /\ UNCHANGED <<batch, tableVars>>
           ELSE /\ worker' = "guard" /\ batch' = Tail(batch)
                /\ DropEntries({entry})
                /\ UNCHANGED job
    /\ UNCHANGED <<editorVars, mainVars, queueVars, observed, changed, remaining, seen,
                   configured, deleted>>

(***************************************************************************)
(* analyze_entry: the compiler run.  PreASTImport follows the imports depth *)
(* first and reads each source when it reaches it, so one analysis may see  *)
(* texts of different moments.                                              *)
(***************************************************************************)
CompilerRunFrame ==
    UNCHANGED <<editorVars, mainVars, queueVars, observed, changed, remaining, seen, batch,
                configured, tableVars, deleted>>

(* An error that ends the run, located in one source. *)
Abort(at, text) ==
    /\ worker' = "stopcheck"
    /\ job' = [job EXCEPT !.todo = <<>>, !.imported = {}, !.next = None,
                          !.found = [s \in {at} |-> {text}]]

LoadSource ==
    /\ At("load")
    /\ LET s == job.next
           text == Text(s)
           edges == [k \in DOMAIN Imports[text] |-> <<s, Imports[text][k]>>]
       IN  IF text = None \/ Defect[text] = "syntax"
           THEN Abort(s, text)
           ELSE /\ worker' = "import"
                /\ job' = [job EXCEPT !.next = None,
                                      !.loaded = Assign(@, s, text),
                                      !.todo = edges \o @]
    /\ CompilerRunFrame

(* resolve_import leaves an edge only when the target exists; a source is   *)
(* read again only when it is the entry itself, which m_imported_files does *)
(* not contain at first.                                                    *)
ResolveImport ==
    /\ At("import") /\ job.todo # <<>>
    /\ LET importer == Head(job.todo)[1]
           imported == Head(job.todo)[2]
       IN  IF ~Readable(imported)
           THEN Abort(importer, job.loaded[importer])
           ELSE /\ worker' = IF imported \in job.imported THEN "import" ELSE "load"
                /\ job' = [job EXCEPT !.todo = Tail(@),
                                      !.edges = @ \cup {<<importer, imported>>},
                                      !.imported = @ \cup {imported},
                                      !.next = IF imported \in job.imported THEN None ELSE imported]
    /\ CompilerRunFrame

(* The indexes a run may end with: all links after a good full run, what was *)
(* harvested until then where an error or the mode ended the run earlier.   *)
Harvests(good) ==
    IF good /\ job.mode = "Default" THEN {LinksOf(job.loaded)} ELSE SUBSET LinksOf(job.loaded)

(* The passes after the imports.  The parser and the early checks come      *)
(* first, and nothing else where the mode is syntax-only; a run that stops  *)
(* at errors reports some of the erroneous sources.                         *)
FinishAnalysis ==
    /\ At("import") /\ job.todo = <<>>
    /\ LET Having(defect) == { s \in DOMAIN job.loaded : Defect[job.loaded[s]] = defect }
           erroneous == IF Having("parse") # {} \/ job.mode = "SyntaxOnly"
                        THEN Having("parse") ELSE Having("semantic")
       IN  \E reported \in SUBSET erroneous, index \in Harvests(erroneous = {}) :
             /\ reported = {} <=> erroneous = {}
             /\ job' = [job EXCEPT !.imported = {}, !.index = index,
                                   !.success = (erroneous = {}),
                                   !.found = [s \in reported |-> {job.loaded[s]}]]
    /\ worker' = "stopcheck"
    /\ CompilerRunFrame

StopCheck ==
    /\ At("stopcheck")
    /\ IF stop
       THEN worker' = "guard" /\ batch' = Tail(batch) /\ job' = NoJob
       ELSE worker' = "publish" /\ UNCHANGED <<batch, job>>
    /\ UNCHANGED <<editorVars, mainVars, queueVars, observed, changed, remaining, seen,
                   configured, tableVars, deleted>>

HasSuccessfulSnapshot(entry) ==
    entry \in DOMAIN references /\ references[entry].last # None

(* A provider's state after publish: the new snapshot is the current one,   *)
(* and the last good one too when it is to be kept.                         *)
ReferenceState(states, entry, analysis) ==
    [current |-> analysis.loaded,
     index |-> analysis.index,
     last |-> IF analysis.success THEN analysis.loaded
              ELSE IF entry \in DOMAIN states THEN states[entry].last ELSE None,
     lastIndex |-> IF analysis.success THEN analysis.index
                   ELSE IF entry \in DOMAIN states THEN states[entry].lastIndex ELSE {}]

(* Whether the completion index of a good run may be empty: a full run lists *)
(* every declaration, a syntax-only one the defines and macros among them.  *)
CompletionMayBeEmpty(analysis) ==
    LET declares == \E s \in DOMAIN analysis.loaded : Declares[analysis.loaded[s]] # {}
    IN  IF ~declares THEN {TRUE}
        ELSE IF analysis.mode = "Default" THEN {FALSE}
        ELSE BOOLEAN

CompletionState(states, entry, analysis, empty) ==
    [current |-> analysis.loaded,
     last |-> IF analysis.success /\ ~empty THEN analysis.loaded
              ELSE IF entry \in DOMAIN states THEN states[entry].last ELSE None]

LeaveEntry ==
    /\ worker' = "guard" /\ batch' = Tail(batch) /\ job' = NoJob

(* Mutant of WasDeleted: m_deleted_sources is not looked at. *)
NeverDeleted(entry) == FALSE

WasDeleted(entry) == entry \in deleted

(* Under m_state_mutex: a result for a source deleted meanwhile is dropped. *)
DropDeletedResult ==
    /\ At("publish") /\ WasDeleted(job.entry)
    /\ LeaveEntry
    /\ UNCHANGED <<editorVars, mainVars, queueVars, observed, changed, remaining, seen,
                   configured, tableVars, deleted>>

(* register_analysis and the removal of the entries it subsumes.  A failed  *)
(* run does not replace the graph of a complete one.                        *)
RegisterAnalysis ==
    /\ At("publish") /\ ~WasDeleted(job.entry)
    /\ LET entry == job.entry
           register == job.success \/ ~HasSuccessfulSnapshot(entry)
           newKnown == IF register THEN known \cup {entry} ELSE known
           newGraphs == IF register THEN Assign(graphs, entry, job.edges) ELSE graphs
           subsumed == IF job.success
                       THEN SubsumedEntries(configured, newKnown, newGraphs, entry)
                       ELSE {}
       IN  /\ Tables(newKnown \ subsumed, Erase(newGraphs, subsumed), Erase(diags, subsumed),
                     SourcesOf(diags, subsumed))
           /\ references' = Erase(references, subsumed)
           /\ completion' = Erase(completion, subsumed)
    /\ worker' = "snapshot"
    /\ UNCHANGED <<editorVars, mainVars, queueVars, observed, changed, remaining, seen, batch, job,
                   configured, deleted>>

(* Both providers' publish, still under m_state_mutex, which the main       *)
(* thread does not need to read them.                                       *)
PublishSnapshots ==
    /\ At("snapshot")
    /\ references' = Assign(references, job.entry, ReferenceState(references, job.entry, job))
    /\ \E empty \in CompletionMayBeEmpty(job) :
         completion' = Assign(completion, job.entry,
                              CompletionState(completion, job.entry, job, empty))
    /\ worker' = "diagnose"
    /\ UNCHANGED <<editorVars, mainVars, queueVars, observed, changed, remaining, seen, batch, job,
                   entryVars, diags, published, deleted>>

(* DiagnosticPublisher::publish, still under m_state_mutex. *)
PublishDiagnostics ==
    /\ At("diagnose")
    /\ LET entry == job.entry
       IN  /\ diags' = Assign(diags, entry, WithEntry(job.found, entry))
           /\ published' = PublishMerged(configured, graphs, diags', published,
                                         AffectedByPublish(diags, entry, job.found))
    /\ LeaveEntry
    /\ UNCHANGED <<editorVars, mainVars, queueVars, observed, changed, remaining, seen,
                   entryVars, references, completion, deleted>>

-----------------------------------------------------------------------------
Editor == \E s \in Sources :
    \/ \E text \in Texts : WriteFile(s, text)
    \/ RemoveFile(s)

Receive ==
    \/ \E s \in Sources :
         \/ \E text \in Texts : HandleDidOpen(s, text) \/ HandleDidChange(s, text)
         \/ HandleDidClose(s)
         \/ HandleWatchedFile(s)
         \/ \E place \in Places : HandleRename(s, place)
    \/ HandleExit

(* The steps with which the main thread finishes what it has begun. *)
Handle ==
    \/ HandleInitialize
    \/ LookForClosedFile \/ MarkSourceAvailable \/ HandleDeletedSource
    \/ TearDownClosed \/ Unschedule
    \/ \E s \in Sources : ScheduleAnalysis(s)
    \/ Notify \/ StopAnalysisWorker \/ JoinAnalysisWorker
    \/ CollectLocations \/ ReadDeclaration \/ CompareLocation \/ AnswerRename

Work ==
    \/ WaitForWork \/ KeepDebouncing \/ StopDebouncing \/ TakeBatch \/ FirstRound
    \/ (\E s \in Sources : ResolveSource(s)) \/ EndOfRound
    \/ NextEntry \/ NextRound \/ HandBack \/ RecheckEntry
    \/ LoadSource \/ ResolveImport \/ FinishAnalysis \/ StopCheck
    \/ DropDeletedResult \/ RegisterAnalysis \/ PublishSnapshots \/ PublishDiagnostics

Terminated == main = "exited" /\ UNCHANGED vars

Next == Editor \/ Receive \/ Handle \/ Work \/ SpuriousWakeup \/ Terminated

Spec == Init /\ [][Next]_vars

(* Both threads are scheduled, a timed wait ends, a compiler run ends, and  *)
(* the client sends the file events it owes.  Nothing forces an edit, an    *)
(* exit or a spurious wakeup.                                               *)
Fairness ==
    /\ WF_vars(Handle)
    /\ WF_vars(Work)
    /\ WF_vars(\E s \in Sources : HandleWatchedFile(s))

FairSpec == Spec /\ Fairness

-----------------------------------------------------------------------------
(***************************************************************************)
(* Properties                                                              *)
(***************************************************************************)
(* The types of the variables, by who keeps them.                           *)
FoundText == SUBSET (Texts \cup {None})
Findings == HashMaps(Sources, FoundText)
Loaded == HashMaps(Sources, Texts)
ReferenceStates == [current : Loaded, index : SUBSET Links,
                    last : Loaded \cup {None}, lastIndex : SUBSET Links]
CompletionStates == [current : Loaded, last : Loaded \cup {None}]
Words == {None} \cup { Word[text][place] : text \in Texts, place \in Places }
Renames == [target : Locations, word : Words, locations : SUBSET Locations,
            unchecked : SUBSET Locations, settled : BOOLEAN]

Jobs == [entry : Sources, mode : {"Default", "SyntaxOnly"}, next : Sources \cup {None},
         todo : Seq(Sources \X Sources), imported : SUBSET Sources, loaded : Loaded,
         edges : ImportEdges, index : SUBSET Links, found : Findings, success : BOOLEAN]

EditorTypeOK ==
    /\ disk \in [Sources -> Texts \cup {None}]
    /\ overlay \in [Sources -> Texts \cup {None}]
    /\ events \in [Sources -> {"none", "changed", "deleted"}]
    /\ edits \in 0..MaxEdits

Renaming == {"collect", "expect", "compare"}

MainTypeOK ==
    /\ main \in {"start", "idle", "mark", "exists", "delete", "teardown", "unschedule",
                 "schedule", "notify", "stop", "notify_stop", "join", "exited"} \cup Renaming
    /\ IF main \in Renaming THEN rename \in Renames ELSE rename = NoRename
    /\ source \in Sources \cup {None}
    /\ main \in {"mark", "exists", "delete", "teardown", "unschedule"} => source \in Sources
    /\ toSchedule \in SUBSET Sources

QueueTypeOK == pending \in SUBSET Sources /\ generation \in Nat /\ stop \in BOOLEAN

Analysing == {"load", "import", "stopcheck", "publish", "snapshot", "diagnose"}

WorkerTypeOK ==
    /\ worker \in {"idle", "asleep", "debounce", "taken", "resolve", "guard", "handback",
                   "recheck", "done"} \cup Analysing
    /\ observed \in Nat
    /\ changed \in SUBSET Sources /\ remaining \in SUBSET changed
    /\ seen \in SUBSET Sources /\ batch \in Seq(seen)

JobTypeOK == IF worker \in Analysing THEN job \in Jobs ELSE job = NoJob

TablesTypeOK ==
    /\ configured \in SUBSET Sources /\ known \in SUBSET Sources /\ deleted \in SUBSET Sources
    /\ IsHashMap(graphs, Sources, ImportEdges)
    /\ IsHashMap(references, Sources, ReferenceStates)
    /\ IsHashMap(completion, Sources, CompletionStates)
    /\ IsHashMap(diags, Sources, Findings)
    /\ published \in [Sources -> FoundText]

(* Every variable keeps its type; a batch only holds entries that are seen. *)
TypeOK == EditorTypeOK /\ MainTypeOK /\ QueueTypeOK /\ WorkerTypeOK /\ JobTypeOK /\ TablesTypeOK

(* Everything has been handled and the worker waits for work, or has just   *)
(* been woken for none.                                                     *)
Quiescent == main = "idle" /\ AtRest

(* The tables that must name the same entries - the resolver's two, both    *)
(* providers' and the publisher's - do, whenever m_state_mutex can be had:  *)
(* each place that adds or drops an entry does so in all of them.           *)
TablesAgree ==
    /\ DOMAIN graphs = known
    /\ worker # "snapshot" => DOMAIN references = known /\ DOMAIN completion = known
    /\ worker \notin {"snapshot", "diagnose"} => DOMAIN diags = known

(* An entry that was deleted and not brought back is never known: an        *)
(* analysis that began before the deletion does not resurrect it.           *)
DeletedEntriesStayGone == deleted \cap known = {}

(* The worker never sleeps through work: while it is blocked and nobody is  *)
(* about to notify it, the queue is empty and it is not asked to stop.      *)
NoLostWakeup ==
    worker = "asleep" /\ main \notin {"notify", "notify_stop"} => pending = {} /\ ~stop

(* A standalone entry that a completely analysed entry imports does not     *)
(* keep tables of its own, in whatever order the two were analysed (as long *)
(* as no configured entry is deleted: without a graph for each of them a    *)
(* source gets a temporary entry of its own).  It holds inside the critical *)
(* section that registers an analysis too.                                  *)
ImportedSourcesAreNotEntries ==
    \A entry \in known, s \in known \ configured :
        HasSuccessfulSnapshot(entry) => ~EntryDependsOn(graphs, entry, s)

(* The sources an entry's snapshot was made from and its graph still names. *)
UsedBy(entry) ==
    LET loaded == references[entry].current
    IN  { s \in DOMAIN loaded : s = entry \/ EntryDependsOn(graphs, entry, s) }

(* Once everything is handled, the current snapshot of an entry was made    *)
(* from the texts its sources now have: no edit is overtaken by the         *)
(* analysis that was running when it was made.                              *)
SnapshotsAreFresh ==
    Quiescent =>
      \A entry \in known : \A s \in UsedBy(entry) :
        Readable(s) => references[entry].current[s] = Text(s)

IsCovered(s) == s \in known \/ \E entry \in known : EntryDependsOn(graphs, entry, s)

(* Once everything is handled, every open source and every configured entry *)
(* that was not deleted is an entry or imported by one: none is lost when a *)
(* batch is cut short or re-resolved.                                       *)
OpenSourcesAreCovered ==
    Quiescent =>
      \A s \in Sources \ deleted : overlay[s] # None \/ s \in configured => IsCovered(s)

(* Once everything is handled, the client displays for each source what     *)
(* diagnostics_for answers.                                                 *)
ClientShowsDiagnostics ==
    Quiescent =>
      \A s \in Sources : published[s] = DiagnosticsFor(configured, graphs, diags, s)

(* Once everything is handled, the client displays for a source owned by a  *)
(* configured entry only what configured entries found in it: the analysis  *)
(* of a script beside the project does not leak into shared files.          *)
NoLeakedDiagnostics ==
    Quiescent =>
      \A s \in Sources :
        IsOwnedByConfiguredEntry(configured, graphs, s) =>
          published[s] \subseteq
            UNION { diags[e][s] : e \in { c \in configured \cap known : s \in DOMAIN diags[c] } }

(* Once everything is handled, an entry that was only analysed because its   *)
(* file was open is gone when the file is closed (in instances without       *)
(* configured entries and without file events).                              *)
ClosedEntriesAreGone ==
    Quiescent => \A entry \in known \ configured : overlay[entry] # None

(* A file was changed on disk, where no buffer hides it, and the server has *)
(* not handled the event.                                                   *)
Unreported(s) == events[s] # "none" /\ overlay[s] = None

(* A rename that is about to be answered edits only places where the name   *)
(* of the declaration now stands, wherever the worker was between the       *)
(* steps in which target, locations and texts were looked up; but for files *)
(* the server has not been told about.                                      *)
RenamesEditTheName ==
    Handling("compare") /\ rename.unchecked = {} =>
        \A at \in rename.locations : Unreported(at[1]) \/ TextAt(Live, at) = rename.word

(* A rename that was asked for when everything was handled, has passed      *)
(* every check and is about to be answered.                                 *)
SettledRename ==
    Handling("compare") /\ rename.unchecked = {} /\ rename.settled /\ AtRest

(* The last analysis of every entry was a good one. *)
AllGood == \A entry \in known : references[entry].current = references[entry].last
                             /\ references[entry].index = references[entry].lastIndex

Occurrences(word) ==
    { at \in Locations : IsCovered(at[1]) /\ TextAt(Live, at) = word }

(* When everything is handled and every last analysis was good, a rename    *)
(* edits each place where the name now stands, in every file, and no other: *)
(* the indexes of the entries are complete together and positions are those *)
(* of the live texts.                                                       *)
SettledRenamesAreWhole ==
    SettledRename /\ AllGood => rename.locations = Occurrences(rename.word)

(* After the last edit the queue drains and the worker comes to rest, or    *)
(* the server exits.                                                        *)
ServerComesToRest == <>[](Quiescent \/ main \in {"stop", "notify_stop", "join", "exited"})

(* The queue, the debounced wait and the worker's loop over entries are an  *)
(* analysis queue: an entry of a batch is analysed, found to need none, or  *)
(* handed back; only newer input or an exit cuts a batch short; none is     *)
(* taken before the last has ended.                                         *)
Queue == INSTANCE AnalysisQueue
         WITH due <- pending, hand <- changed, plan <- Elements(batch),
              newer <- changed # {} /\ generation # observed, open <- ~stop

ImplementsQueue == Queue!Spec

(* While the server runs, what is scheduled gets into a batch, and every    *)
(* batch ends, cut short or not.                                            *)
QueueIsServed == Queue!Service

(* An exit always gets through: the worker is woken or notices, and joined. *)
ExitCompletes == main = "stop" ~> main = "exited"
=============================================================================
