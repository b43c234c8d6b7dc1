# A TLA+ verification of the CKSP compiler and its language server

This directory models parts of the CKSP compiler (`src/cksp`) and its language
server (`src/lsp`) in TLA+, checks the models on small instances with TLC, and
proves the most important invariants for every instance with TLAPS. Paths of
source files are given below without the leading `src/`.

Two parts of the system are modelled in depth: the language server with its two
threads, and what the compiler generates to manage memory, which is where a wrong
compiler goes unnoticed until an instrument plays. Section 3 says in which order
the rest would follow.

| | |
|---|---|
| `ImportGraph` | edges and reachability, the vocabulary of the other modules |
| `ImportGraphWalk` | the class `ImportGraph`: two maps, their operations, the stack walk |
| `EntryPointResolver` | the pure queries and updates of the entry point tables |
| `DiagnosticPublisher` | who reports what, and what the client is told |
| `ReferenceProvider` | the snapshots of names and what a rename collects from them |
| `LanguageServer` | the main thread, the worker thread, the tables; composes the four above |
| `AnalysisQueue` | what the queue between the threads promises; `LanguageServer` implements it |
| `StructHeap` | the heap of struct objects that compiled programs carry |
| `RecursiveStructs` | which structs the compiler finds on cycles, against a reference definition |
| `CallbackStorage` | storage of local variables: lifetimes, waits, reuse, and the compiled callbacks |
| `MCImportGraphWalk`, `MCLanguageServer`, `MCOwnership`, `MCStructHeap`, `MCStructCycle`, `MCCallbackStorage` | instances for TLC |
| `ImportGraphWalk_proofs`, `LanguageServer_proofs` | theorems with their proofs; the second also that the server implements `AnalysisQueue` |
| `ServerResults_proofs` | theorems on what the server's tables hold: diagnostics, snapshots, entries |
| `StructHeapInvariant` | the inductive invariant of `StructHeap` |
| `StructHeapCounts_proofs`, `StructHeapStatements_proofs`, `StructHeapMoves_proofs`, `StructHeap_proofs` | its proof, in four parts, and the theorems of the heap |
| `CallbackStorage_proofs` | theorems on the storage of local variables, up to what the compiled program reads |

`PROJECT.json` is the index: which definition models which lines, what each run
checks, which mutant of the code breaks which property, the hazards, the
findings and the theorems.

## 1. Inventory

CKSP is a superset of a scripting language for samplers (KSP). The compiler
reads an entry file, follows its imports, expands macros and defines, parses,
desugars, infers types, rewrites structs, functions, loops and multidimensional
arrays into what KSP knows, optimises, and writes one text file. It is one
sequential program over a tree, but what it writes is not: callbacks of an
instrument run concurrently around waits, and objects live in a heap that the
compiler generates. The language server embeds the same compiler:
it keeps the editor's open buffers over the files on disk, analyses affected
entry points on a background thread, and publishes diagnostics, references and
completions. All concurrency, reordering and state that outlives a call in the program itself
is in the server.

### The language server

| component | code | state | operations | interacts with |
|---|---|---|---|---|
| Import graph | `cksp/Source/ImportGraph.h` | `m_imports`, `m_dependents` | `add_source`, `add_import`, `remove_import`, `set_imports`, `transitive_dependents_of` | filled by import preprocessing, read by the resolver |
| Entry point resolver | `lsp/EntryPointResolver.*` | configured entries, known entries, one graph per entry | `register_analysis`, `remove_entry`, `affected_entries_for`, `is_owned_by_configured_entry`, `subsumed_entries_of` | called by both threads under `m_state_mutex` |
| Diagnostic publisher | `lsp/DiagnosticPublisher.*` | diagnostics per entry and source | `publish`, `clear_entry`, `clear_source`, `discard_entry`, `diagnostics_for` | asks the resolver who owns a source; tells the client |
| Language server | `lsp/LanguageServer.*` | the queue, generation and stop flag (`m_analysis_mutex`), deleted sources and the tables (`m_state_mutex`) | a handler per message; the worker loop | everything |
| Read-only requests | `lsp/LanguageServer.cpp` | none | definition, references, rename, completion, signature help, code actions, links | read the tables while the worker replaces them |
| Reference provider | `lsp/ReferenceProvider.*` | current and last good snapshot per entry | `publish`, `erase`, queries | texts of the analysis that made the snapshot |
| Completion provider | `lsp/CompletionProvider.*` | the same | `publish`, `erase`, queries | |
| Source providers | `cksp/Source/SourceProvider.*`, `lsp/TrackingSourceProvider.h` | open buffers; sources one analysis loaded | `update`, `close`, `load` | written by the main thread, read by both |
| Code actions, rename, scanners | `lsp/CodeActionProvider.cpp`, `lsp/RenameProvider.cpp`, `lsp/*Scanner.h` | none | choice of edits | references, live text |
| JSON-RPC connection, JSON library | `lsp/JsonRpc*.h`, `JSON/` | the stream | framing, parsing | the main loop |

Hard behaviours: two threads and two mutexes, with an analysis that runs outside
both; a debounce; batches cut short by newer input; results that arrive after the
entry they are about was deleted, closed or subsumed; ownership of shared files
that changes while results are on their way; exit at any moment.

Correct means: no work and no wakeup is lost; tables that describe the same
entries never disagree; what is deleted stays deleted; after the last edit the
server comes to rest with snapshots of the present texts, every open file
covered, and the client showing what the tables say; an exit completes.

### The compiler

| component | code | state and operations | what makes it correct |
|---|---|---|---|
| Driver | `cksp/Compiler.h` | the pass pipeline; rounds of define and macro expansion (at most eight) | passes see what they need; expansion ends and is complete |
| Import preprocessing | `cksp/Preprocessor/PreAST/PreASTImport.h` | import-once set, graph, depth-first reading | every source read once, edges for exactly the imports that exist |
| Conditions, pragmas, defines, macros, incrementer, combine | `cksp/Preprocessor/PreAST/` | definition tables, expansion stacks, counters | nested expansion terminates; recursion is refused; counters restart per scope |
| Tokenizer, parser | `cksp/Tokenizer`, `cksp/Parser` | character and token positions | data conversion |
| Desugaring, semantic analysis, declaration checks | `cksp/ASTVisitor`, `cksp/Desugaring` | the tree, definition tables | names resolve to the declaration in scope |
| Types, inference | `cksp/Types`, `cksp/ASTVisitor/TypeInference.*` | a static registry | compatibility is a sensible relation |
| Reference counting of structs | `ASTNodes/NodeStructCreateRefCountFunctions.h`, `ASTVisitor/ASTPointerScope.h`, `Lowering/PreLoweringStruct.h` | the generated heap: allocation array, free index, release stacks | an object is freed exactly when its last reference goes |
| Thread safety, variable reuse | `ASTVisitor/ASTThreadSafeAnalysis.h`, `ASTVisitor/GlobalScope/` | lifetimes, yields | variables alive at the same time, or across a wait, share no storage |
| Functions: strategy, inlining, ordering | `ASTVisitor/FunctionHandling/` | call graph, visited sets | definitions come before uses |
| Return rewriting, parameter promotion, dimension expansion, lowering | `cksp/ASTVisitor`, `cksp/Lowering` | the tree | each rewrite keeps the meaning |
| Optimisation | `cksp/Optimization/` | the tree | folding computes what 32-bit KSP would |
| Generator, source maps, obfuscation, migration, syntax checks, built-ins | their directories | text | |
| Diagnostics, command line, files, crash reports, utilities | `misc`, `utils` | Gensym's counter; the rest is I/O | generated names are fresh |

`PROJECT.json` lists every component with its status, and under `hazards` the
lines where things can go wrong in a way tests hardly reach, the ones no model
covers yet included, with the reason.

## 2. What is modelled

### ImportGraph and ImportGraphWalk

`ImportGraph` defines edges, paths and the exact set of transitive importers of a
source; reachability is a closure over sets of edges, with no recursive operator,
so that theorems can be stated about it.

`ImportGraphWalk` is the C++ class as a state machine. `imports` and `dependents`
are the two hash maps, functions whose domain is the set of keys present
(`try_emplace` and `operator[]` create keys, and the model does too). One action
per map-changing call; `transitive_dependents_of` is `StartWalk`, then `Pop` for
each turn of the outer loop and `Visit` for each dependent of the popped source,
in any order, because a hash set is iterated.

### EntryPointResolver, DiagnosticPublisher

Pure operators over the tables: which entries a changed source affects (the
configured ones that import it or have no graph yet, the source itself as a
temporary entry while some other configured entry has no graph, the standalone
importers, and the source alone when none of these exists), which entries an analysed one subsumes, who owns a source, what
`diagnostics_for` answers and which sources a call publishes again. A diagnostic
is the text it was found in: two findings are equal when they come from the same
source with the same text, which is all that the properties tell apart.

### LanguageServer

State, by who keeps it: `disk`, `overlay`, `events`, `edits` (the world);
`main`, `source`, `toSchedule` (where the main thread is in its handler);
`pending`, `generation`, `stop` (the queue, under `m_analysis_mutex`);
`worker`, `observed`, `changed`, `remaining`, `seen`, `batch`, `job` (the worker's
locals); `configured`, `known`, `graphs`, `references`, `completion`, `diags`,
`published`, `deleted` (under `m_state_mutex`).

A step is one critical section. Where the worker holds `m_state_mutex` over
several steps (resolving a batch; registering a result and then publishing its
diagnostics), the main thread's sections that need the mutex are disabled
(`StateMutexFree`); nothing else is. The main thread is a program counter:

| message | steps |
|---|---|
| `initialize` | `HandleInitialize`, then `ScheduleAnalysis` and `Notify` per configured entry |
| `didOpen`, `didChange` | `HandleDidOpen` / `HandleDidChange` (the overlay), `MarkSourceAvailable`, `ScheduleAnalysis`, `Notify` |
| `didClose` | `HandleDidClose` (the overlay), `LookForClosedFile`, then `HandleDeletedSource`, or `TearDownClosed` with `Unschedule` or scheduling |
| `didChangeWatchedFiles` | `HandleWatchedFile`, then as for a change or a deletion |
| `exit` | `HandleExit`, `StopAnalysisWorker`, `Notify`, `JoinAnalysisWorker` |

The worker: `WaitForWork`, `KeepDebouncing` / `StopDebouncing` / `TakeBatch`, which
gives up `m_analysis_mutex`, `FirstRound`, which locks `m_state_mutex`,
then rounds of `ResolveSource` and `EndOfRound`; per entry `NextEntry` (the
generation check, else `HandBack`), `RecheckEntry`, the compiler run, `StopCheck`,
and `DropDeletedResult` or `RegisterAnalysis` with `PublishDiagnostics`.

The compiler run is modelled by what it does to the server: `LoadSource` reads
one source through overlay and disk *at that moment*, `ResolveImport` takes the
next import edge in depth-first order, fails when the target does not exist, and
reads a target only once (the root may be read a second time, as in
`PreASTImport`), `FinishAnalysis` ends with errors in some of the sources that do
not parse; else, unless the run is syntax-only and stops there (`Compiler.h:246`), with errors in
some of those that have a semantic defect. Between any two of these steps the main
thread may change a buffer, and a file may change on disk. A good full run harvests
every link; a run that failed or was syntax-only harvests any part of them (`Harvests`). The
completion provider keeps a good snapshot only if it is not empty, which for a
syntax-only run of texts that declare something may be either (`CompletionMayBeEmpty`).

Abstractions: a file's content is one of a few texts, of which only the list of
imports and the first defect matter; ranges, messages and severities of a
diagnostic, paths and their normalisation, and the JSON around everything are
left out. Timed waits may end at any time, so the length of the debounce does not
matter. Several watched-file events of one message are handled one by one, and
events of one file not yet sent coalesce into the last one, as clients do.
`generation` is a natural number; it is bounded in the runs because edits are,
and the code's 64-bit counter cannot be exhausted by an editor.

### AnalysisQueue

The abstract specification of the queue: `due` are the sources asked for, `hand`
those a worker has taken, `plan` the entries it will analyse for them, `newer`
says that something was asked for since, `open` that the server still works.
Sources are scheduled or withdrawn (`Schedule`, `Withdraw`), taken together (`Take`),
lead to entries (`Resolve`) that are settled one by one (`Settle`) until the batch
ends (`Finish`); only newer requests or the end of the server (`Close`) cut it short, and
then what is not settled goes back (`GiveBack`). Nothing is dropped, and no second
batch is taken before the first has ended. `LanguageServer` implements it under

    due   <- pending            newer <- changed # {} /\ generation # observed
    hand  <- changed            open  <- ~stop
    plan  <- Elements(batch)

`ImplementsQueue` is the safety part, `QueueIsServed` says that the abstract
fairness `Service` (due work is taken unless it is withdrawn again or the server
closes, and every batch ends) follows from that of the two threads.

### ReferenceProvider and rename

A snapshot keeps, per source the analysis read, the text it was made from and the
places of names in it; a failed analysis keeps the last good one behind the
current. `references_from_state` completes a failed index with references of the
last good one, but only in files whose live text is still that of the snapshot.
A name is a model value standing at a place of a text. In `LanguageServer` a rename
is five steps of the main thread, as it locks five times: `HandleRename` (the target),
`CollectLocations`, `ReadDeclaration` (the spelling expected, taken from the live
buffer), `CompareLocation` for each location, `AnswerRename`. The worker's
publication, one critical section in the code, is `RegisterAnalysis`, `PublishSnapshots` and
`PublishDiagnostics`, all under `m_state_mutex`. `settled` is a note for the
properties: the server was quiet when the rename began.

### StructHeap

The generated code: per struct an array of reference counts (`allocation`), a
`free_idx` from which a constructor looks for a free slot, member arrays, and
`__incr__`, `__decr__` and `__del__`. A program is any sequence of assignments,
declarations and ends of scopes over a few pointer variables and member paths. A
statement is lowered to moves as `ASTPointerScope` and the lowerings do it (the left
side is released, the right side is read and stored, the object is retained;
statements that read what they overwrite go through a temporary), and a step is
one release, store or retain, or one turn of a loop of `__decr__`. The four shapes
of `__decr__` are there: plain, a list (one recursive member, a loop along it), a
stack of its own (`Tree`), and stacks of several mutually recursive structs
drained in turn. Constants give the structs, their members and types, which
constructor parameters set which members, and what KSP reads outside an array
(`Outside`), and `Recursive`: for each struct the structs on cycles it reaches.
`RecursiveStructs` is the search that finds them (`collect_recursive_structs`), with
a recursive operator and therefore in a module of its own; the `Recursive` of the
instances is what it finds, and TLC compares it with a reference definition on
all shapes of three structs with up to two members. `RecursionIsClosed` says that a release drains every
stack it pushes on. `tidy` notes that the program has not overwritten an object with nil or
a new one, after which the generated counts are exact. Arrays of pointers, static
members and functions with pointer parameters are left out.

### CallbackStorage

A behaviour writes a program, compiles it and runs it. A program is a flat
sequence of statements (declaration, assignment, use, wait, if, while, callback,
end) over a few names, each chosen freely where lexical scoping accepts it.

`Analyse` is what earlier passes leave to the reuse pass: references bound to
declarations, lifetimes (`m_life_times`: to the last reference, or to the end of
the body of the outermost loop around it), and the marks of
`ASTThreadSafeAnalysis` (a variable declared before the last wait of its callback
needs a copy per instance unless no wait is counted between its declaration and its end).
The compiler computes lifetimes twice, once for the marks and once, after the passes in between,
for the reuse (`Compiler.h:540` to 545 and 615); the model computes them once: those
passes rewrite calls of functions and arrays, which its programs do not have.
The reuse pass is one action per statement (`EnterBlock`, `VisitDeclaration`, `VisitOther`,
`LeaveBlock`), with the pool of free storage by kind, the storage that a block
reuses and gives back at its end, the storage made for the lives that end at a
statement (each a list by kind, in the order it was handed out, as in the code's maps from
a hash to a vector), and the replacements by name. The compiled program then runs in several callback
instances: one runs until it waits, any other that waits or starts may go on.
Storage with copies is indexed by the instance. `meant` is what each variable of
the source holds in each instance; each assignment writes a value of its own.

Left out: function definitions (the same code marks and reuses their variables,
one definition at a time and apart from the callbacks), `on init`, arrays and
differences of type, declarations without an initial value, references in
conditions of `if` (a life whose last reference stands there ends at the `if` statement,
`ASTLifeTimeAnalysis.h:134` to 138), and a wait whose argument holds the first call of a function
(see the observations in section 6). More than `MAX::CB::STACK` invocations during
one wait share a copy by the compiler's design; instances here are told apart.

## 3. Plan

Done, in this order: the import graph and the tables, the server with both
threads, the queue as an abstract specification, rename, the struct heap, the
storage of callbacks, the proofs about the server's tables and queue, those
about the heap, and those about the storage of callbacks. What would follow, most useful first:

1. **More proofs about the server.** That a rename misses no place, under a condition on the
   declarations, with the freshness from `FreshInv`; coverage of open sources where owners keep their imports,
   and diagnostics with configured entries whose ownership does not end.
2. **Function bodies in `CallbackStorage`**, with waits inside functions and
   parameters; pointer arrays and `return` in `StructHeap`.
3. **Preprocessing**: macro nesting and the eight rounds, the incrementer's scopes
   against its last lines, import-once with namespaces.
4. **Pure algorithms**: constant folding at a small word width against a reference
   definition, function definition ordering, non-overlapping edits of a fix-all.

Recursive operators are kept out of every module with theorems.

## 4. Runs

| run | instance | asks |
|---|---|---|
| `import_graph` | three sources, three map changes, every start | do the maps agree, is the walk exact, distinct and finite |
| `standalone` | two files, no configured entry; open, change, exit; four moves; FairSpec | queue, wakeups, tables, subsumption, freshness, coverage, the refinement, rest, exit |
| `files` | the same files; open, close, write, remove; four moves | deletions, tables, what the client shows |
| `configured` | main is a configured entry that imports lib; one name at two places; open, change, close, rename; four moves | ownership keeps lib from being an entry; freshness, coverage, whole renames |
| `ownership` | a configured entry, a script beside it and a library both import, which may stop parsing; a name the three share; writes and renames; four moves | no leak of the script's diagnostics, freshness, renames that edit the name and nothing else |
| `heap` | trees; an instrument with a plain object and a list; nodes and edges in a cycle; one or two slots per struct; programs of four statements, five for nodes and edges | counts, free slots, stacks, the effect of an assignment, the end of a release |
| `storage` | two names, two callback instances, one or two callbacks; programs of nine statements with their ends | isolation of instances, reuse of storage |
| `orphan`, `closed_entry`, `self_read`, `undrained`, `captured` | as small as shows the finding | section 6 |

The state spaces are exhausted: about 31 000 distinct states for `import_graph`,
300 000 for `standalone`, 2 350 000 for `files`, 2 840 000 for `configured`,
2 160 000 for `ownership`, 145 000 for `heap` (with liveness) and 1 230 000 for `storage`, each in
half a minute to two and a half.

The properties:

* `MapsAgree`, `WalkIsExact`, `NoDuplicateDependents`, `WalkTerminates`: of the
  import graph, cycles and self-imports included.
* `NoLostWakeup`: the queue is filled under the lock and the worker notified after
  it; a sleeping worker never has work nobody is about to announce.
* `TablesAgree`: resolver, both providers and publisher name the same entries
  whenever `m_state_mutex` is free; six places of the code must get it right.
* `DeletedEntriesStayGone`: an analysis in flight does not resurrect an entry
  that was deleted and not brought back.
* `ImportedSourcesAreNotEntries`: no standalone entry is left beside a complete
  owner, whatever the order of the two analyses, not even for a moment.
* `SnapshotsAreFresh`, `OpenSourcesAreCovered`, `ClientShowsDiagnostics`,
  `NoLeakedDiagnostics`: of the quiet server (`Quiescent`: nothing to handle, an
  empty queue, a waiting worker). They are what the user of an editor sees after he stops
  typing, and they need every earlier interleaving to have gone right.
* `ServerComesToRest`, `ExitCompletes`: liveness.
* `ImplementsQueue`, `QueueIsServed`: the server implements `AnalysisQueue`.
* `SettledRenamesAreWhole`: a rename that begins in a quiet server whose entries
  parse edits every place where the name stands, and no other. Such a rename meets no
  analysis: the edits and closes that raced the worker lie before it, and what they
  left in the indexes of the entries must be complete and current.
* `RenamesEditTheName`: a rename asked for at any moment, while the worker resolves,
  analyses or publishes and files are written between its own steps, edits only places where
  the name of the declaration stands when it is answered. Left out are places in files that were
  changed on disk, are not hidden by a buffer, and whose event the server has not
  handled (`Unreported`): of those it cannot know.
* `CountsCoverReferences`: no object is freed while a variable or member refers to
  it; `CountsAreExact`: in tidy programs a count is the number of references;
  `AssignmentTakesEffect`: after a statement its left side is what the right side
  denoted when it began, and counts that object.
* `FreeSlotsAreFound`: `free_idx` is at or below every free slot, so a search that
  fails means a full heap; `FreeSlotsAreClean`: a reused slot has no member left.
* `StackFits`: the stack of a release never outgrows its array, which has an entry
  per slot, for the shapes of structs in the run. These have at most two members of one type and few
  parents of one child, so nothing is said of the shapes that need more (section 6).
  `StacksAreDrained`: between statements they are empty; `ReleaseEnds`:
  every release ends, on cycles too.
* `ReadsItsOwnValue`: whatever runs between the waits of an instance, it reads back
  what it wrote; `StorageIsInOnePlace`: storage is never free twice, nor lost.

Every property is broken by at least one mutant of a definition in its run; the
mutated forms stand beside the originals, commented as mutants.

**Bounds.** `MaxEdits` bounds what the environment does, never what the server
does: all reactions to the last move are explored to the end. Two files are the
least with an importer and an imported one; three with two importers of
one library, one of them configured. Four moves are enough to open a file, change it while it is analysed,
change the other one while the batch is cut short, and undo one of them. Three map changes make two-cycles,
self-imports, chains and forks over three sources; what more sources would do to
the walk is settled by the theorem. Two slots per struct make a slot free, taken and
searched past; four or five statements build a list or a cycle, share it, and release it. Nine
statements hold two nested loops with a wait in the outer one (the regression
`tests/thread_safety/carry_in_nested_loop.ksp` describes), or two callbacks that
reuse each other's storage; two instances are what isolation is about. Not every instance has every kind of move:
moves that a property does not depend on are left to another run, and findings (section 6)
are kept out of the passing runs by the choice of texts and moves that avoid
them: `standalone` and `configured` let main import lib whatever is typed, since an owner that drops
its import is the finding `orphan`; ownership that ends is absent where
`ClientShowsDiagnostics` is asked.

**Fairness.** `WF(Handle)`: the main thread finishes the handler it is in.
`WF(Work)`: the worker thread is scheduled, its timed wait returns and a compiler
run ends. `WF(HandleWatchedFile)`: the client sends the file events it owes. These
are the operating system's scheduler and a compiler without endless loops.
Nothing forces an edit, an exit or a spurious wakeup, and no strong fairness is
used: no lock is ever contended by an endless loop of the other thread, since
edits are finite. A spurious wakeup is always possible while the worker sleeps, so
TLC's deadlock check says little about the server; that everything gets
through is said by the liveness properties, for which spurious wakeups do
not count. In `heap`, `WF(Execute)` says that a callback that has begun a statement
goes on: KSP runs a callback to its end unless it waits, and the release
functions do not wait. `storage` states no liveness; its behaviours may stop where
a program cannot be completed within the bound.

## 5. Theorems

`ImportGraphWalk_proofs`, for any set of sources and any number of operations:

* `MapsAlwaysAgree`: `MapsAgree` is made inductive by `MapsInv`, which adds
  the types of the two maps.
* `WalkComputesDependents`: `transitive_dependents_of` returns exactly the sources
  that reach its argument. The invariant is `MapsInv /\ WalkInv`: everything
  visited reaches the start (`Sound`), and every importer of a visited source is
  visited, or the source is still on the stack, or it is among those the inner loop has
  left (`NothingSkipped`). With an empty stack the visited set is closed under importers,
  and a set closed under importers contains everything that reaches the start.
* `DependentsAreDistinct` and `TypeCorrect` come from the same invariant.

`LanguageServer_proofs`, for any sources, texts, imports, configured entries and
number of moves (`TextsAssumption`, `InstanceAssumption`, `WorkspaceAssumption`;
the set of sources is finite, as batches list it):

* `WorkerIsNotified` (`NoLostWakeup`) and `DeletionsStand`
  (`DeletedEntriesStayGone`) are inductive as they stand.
* `TablesAlwaysAgree` needs `TablesInv`: while the worker is between registering a
  result and publishing its diagnostics, the publisher lacks at most the entry of the job.
* `TypeCorrect` needs `BatchInv` (while an entry is analysed or handed back the
  batch is not empty, so that its head is a source) and `ImportInv` (what a job
  has loaded contains the importer of every edge it still has to follow).

* `QueueIsImplemented` (`Spec => ImplementsQueue`): the initial states map to
  initial states and every step of the server is a step of `AnalysisQueue` or leaves
  it unchanged. `QueueInv` says what the mapping needs: a worker that is idle,
  asleep, debouncing or done has nothing in hand; a non-empty batch means work in
  hand; a worker hands back only after a stop or a newer generation; the observed
  generation never runs ahead. `RefinementInv` adds the types.

`ServerResults_proofs`, from the same assumptions, the first three theorems each
under one more condition. The conditions are what the code needs, not what the proofs need: without
each there is a behaviour that breaks the property.

* `ClientIsUpToDate` (`Configured = {} /\ Spec => []ClientShowsDiagnostics`).
  Without configured entries nobody owns a source, and what is published for it is
  the union over all entries. `ShowsInv` says so in every state, not only when
  everything is handled: each of the six places that change `diags` publishes every
  source that the old or the new diagnostics are about. With configured entries
  the published list also depends on who imports the source, and when that changes
  nothing publishes it again (`DiagnosticPublisher.cpp:37`).
* `EditsAreNotOvertaken` (`"close" \notin EditorMoves /\ Spec => []SnapshotsAreFresh`).
  `SnapshotsAreFresh` only speaks of the quiet server; `FreshInv` says of every state
  why it will be true then. A text that differs from what an entry's snapshot was made
  from is `Owed` (its event is not yet sent, the main thread is about to schedule it,
  or it is pending), or it is being resolved, or the entry waits in the batch or is
  under analysis (`Coming`, `UnderWay`); and what the running analysis has loaded is
  current or owed (`JobIsFresh`), so that an analysis that was overtaken is followed
  by another. `Resolving` says that the first round
  resolves every changed source before an entry leaves the batch: a source resolved after
  that would be lost if its entries had been seen already. Later rounds only repeat
  sources that were resolved before. When the
  server stops, the promise ends (`stop \/ EntriesAreFresh`). Closing a file
  discards a text and only looks at the file's own entry: an entry closed while its
  analysis runs keeps a snapshot of the discarded text (the finding `closed_entry`), and
  an importer that is not registered yet may have read it (`LanguageServer.cpp:793`).
* `NoRedundantEntries` (`Spec /\ []ConfiguredExist => []ImportedSourcesAreNotEntries`).
  When an analysis succeeds, the entries that it imports are dropped in the same step;
  the danger is one that is registered afterwards. `ImportsInv` says that an entry under
  analysis is imported by no known entry. That is what `RecheckEntry` tests,
  provided no configured entry is without a graph: until then every source of the workspace
  is affected by itself. `OrderInv` shows that this never lets a redundant one
  through: in a batch, every configured entry without a graph comes before any
  standalone entry (`InOrder`), since `ResolveSource` appends the configured ones first,
  and each leaves the batch with a graph. An exit may cut a run short and break the order, but then
  no entry is started any more. The property holds inside the critical section too.
  `ConfiguredExist` says that each configured entry lies in the workspace and has a file: after
  a deletion its graph is gone for good and the temporary entries stay
  (`EntryPointResolver.cpp:79`). Editing, closing and removing other files is allowed.

* `RenamesAreExact` (`Spec => []RenamesEditTheName`, without a condition): wherever the worker is
  and whatever it publishes between the steps of a rename, a rename that is about to be answered
  edits only places where the name stands now, except in `Unreported` files. A file is
  `Unreported` while an event of it is pending that no open buffer hides; that
  includes events that were pending before the rename began, and leaves all other files covered.
  `ComparedInv` says it of the locations compared so far (`StandsAt`): a location that was compared
  stays as it was, since buffers change between messages only, and a write to a file
  makes it `Unreported` until the main thread has answered (`Undisturbed`). That the rename
  finds every place depends on what the files declare, as two declarations of one name are two targets.

`ServerInv` collects what `EditsAreNotOvertaken` and `NoRedundantEntries` need: types, the agreement of the tables,
`DeletedEntriesStayGone`, `QueueInv`, and `WorkerPlaceInv` (`seen_entries` is empty
between batches, and a run is that of the batch's head).

`StructHeap_proofs`, for any structs, members, variables, programs, sizes of the
heap and numbers of statements (`StructsAssumption`, `NamesAssumption`):

* `NothingIsFreedEarly` (`CountsCoverReferences`), `TidyProgramsLeakNothing`
  (`CountsAreExact`), `SearchesMissNothing` (`FreeSlotsAreFound`), `FreedSlotsAreEmptied`
  (`FreeSlotsAreClean`), `ReleasesDrainTheirStacks` (`StacksAreDrained`), `TypeCorrect`
  (`HeapTypeOK`) and `AssignmentsTakeEffect` (`AssignmentTakesEffect`) all follow
  from `HeapInvariant`: `HeapInv` is inductive.
* None of these properties is inductive without the others. A count covers its
  references only if a released object stays as it is until its members are
  passed on (`ReleasedOnce`, `ActivationsOK`); if nothing that is on a stack is forgotten
  (`StacksHaveDrains`); if the moves of a statement still mean what they meant
  when it was lowered (`MovesOK`, `TargetsReachable`, `SourceReachable`); and if the
  constructor's `free_idx` still names the object it has made (`NewMembersAreNil`,
  `BuildingIsQuiet`: until the object is stored, whatever is released is nil, so no
  `__del__` moves `free_idx`). `Slack` is what a count has beyond the cells, stack
  entries and activations that refer to its object and the reference that a
  constructor still owes: `CountsOK` says it is never negative, `CountsMatch`
  that it is zero in tidy programs, for which `NothingIsLost` says that no store
  loses a reference.
* The proof has one lemma per action (`DeleteKeeps`, ..., `PassOnMemberKeeps`), and
  each of these compares the references before and after: a `Store` makes the
  reference that the `Retain` will count, a `Delete` hands one from a cell to
  `__decr__`, a member that is passed on hands one to a list or a stack.
  `StructHeapCounts_proofs` has the counting, `StructHeapStatements_proofs` the
  lowered statements, `StructHeapMoves_proofs` and `StructHeap_proofs` the actions.
* The theorems assume `RecursionIsClosed`. Without it a release may leave an
  object on a stack (run `undrained`), and a later release, run by a constructor that fills its
  members, may drain it and move `free_idx`, so that neither `StacksAreDrained` nor
  `BuildingIsQuiet` holds. `CyclesAreClosed` says where the hypothesis holds: wherever the
  search finds, for each struct, all structs on cycles that it reaches. TLC
  evaluates the hypothesis for the structs of `MCStructHeap`. `AssignmentsTakeEffect` also
  assumes that no statement reads the member it overwrites (`~Overlaps`), which is the
  finding `self_read`.

`CallbackStorage_proofs`, for any names, any set of callback instances and programs of
any length (`StorageAssumption`; `MaxLength` and `MaxCallbacks` are arbitrary):

* `StorageIsTyped` (`StorageTypeOK`) and `StorageStaysInOnePlace`
  (`StorageIsInOnePlace`) follow from `CompileInv`, which is inductive. Its parts:
  `ProgramInv`, what `MayFollow` leaves true of a program however long it has become
  (depths, which block a position is in, that references have a visible declaration);
  `AnalysisInv`, that bindings, lifetimes and marks are what `Analyse` computed; and
  `ReuseInv`, what the reuse pass has done so far.
* Neither property is inductive alone. `ListsInv` numbers the lists by where storage
  goes next (free is 0, what ends with statement p is p, what block k has borrowed is -k), and
  says that over all of them each piece of storage occurs once (`OneEach`), that it is
  with the statement that ends its life until that statement and elsewhere
  afterwards, and that a variable in scope that has borrowed storage has it listed with
  its own block. So what is free belongs to no variable that may still be referred
  to, which is `Handed`: two declarations share storage only if the first is out of scope or
  dead where the second stands. This needs that lives end inside the blocks of their declarations,
  that the innermost of two nested scopes ends first, and that a loop around
  the last reference extends the life to the end of its body.
* `OwnValueIsRead` (`~Shadowing`, `Spec => []ReadsItsOwnValue`) takes the compiled program
  through any number of instances in any interleaving. `RunInv` says that before every statement
  of every instance, each variable that is live there (`Live`: in scope and not past its
  life; at the end of a loop body too, since the end leads back to the condition) is found in its
  storage with the value the source gave it, and that a live variable whose storage has
  no copy per instance is one of the instance that runs. The step that
  assigns disturbs no other live variable by `Handed`; a wait leaves no variable
  without copies alive, by the marks (`SharedDieBeforeWaits`); a branch or the way
  back to a loop's condition makes no variable live that was not so before.
  The hypothesis is what the code needs: where a block declares a name again, `Replacements` finds
  the outer variable (the finding `captured`), and the property fails. The first two
  theorems hold with shadowing as well.

Model-checked only: the liveness properties (fairness and ENABLED are out of the
prover's reach), termination of the walk and of releases, `StackFits` (it depends
on the shapes of structs, see section 6), `OpenSourcesAreCovered` and
`NoLeakedDiagnostics` (which hold in the instances of the runs and not in general: see
the finding `orphan` and the hazard at `DiagnosticPublisher.cpp:37`),
and `SettledRenamesAreWhole`, as far as it says that no place is missed (the instance has one
declaration of a name; with two it would not hold). What a recursive definition computes for
every input could not be proved here either, because the installed provers
cannot instantiate an induction theorem; the closure in `ImportGraph` is
therefore stated over sets, and `RecursiveStructs` is evaluated on instances.

## 6. Findings

Each is a disagreement between the code and a sentence in it, and a run that TLC
must find violated.

* **`orphan`**. A file loses its own entry to an importing owner; when the owner
  stops importing it nothing schedules the open file again, and no entry analyses
  it until it is edited, although the resolver promises that "orphan files that are not part
  of any entry point still get diagnostics".
* **`closed_entry`**. A standalone file is closed while its analysis runs: the teardown only
  sees registered entries, and the guard at publication only sees deleted ones, so
  the analysis registers an entry that "exist[s] solely because the file was open".
* **`self_read`**. `is_self_ptr_assignment` compares names, and a member access
  chain has none, so `list.head := list.head.next` releases the head before it
  reads `next` from it, against the comment at `ASTPointerScope.h:17`. The compiled
  program behaves so.
* **`undrained`**. A release drains the stacks of the structs that the search from its own
  struct has found on cycles. The search marks a cycle only where it meets its own path
  (`ASTDataStructures.cpp:647`); a struct whose members lead only to structs it has left is missed. With
  structs Engine {cable, rack}, Rack {socket, back: Engine}, Cable {top: Engine} and
  Socket {over: Cable}, all on cycles, `Engine::__decr__` does not drain the stack of Socket,
  though the turn of Rack in it pushes sockets there. A program that lets an engine go, whose rack
  holds a socket, leaves the socket on its stack and its count too high, against "all stacks are
  drained until every single one of them is empty"
  (`NodeStructCreateRefCountFunctions.h:232`). The compiled program does so. The search
  is right for the structs of `MCStructHeap`; whether it misses one depends on the order
  of a hash table.
* **`captured`**. The reuse pass replaces references by name. An inner variable
  with storage of its own is turned into an outer one of the same name that was
  given reused storage, though the pass promises "to avoid variable capturing"
  (`ASTVariableReuse.h:20`). The compiled program behaves so:

      declare a := EVENT_ID            $a6 := $EVENT_ID
      message(a)                       message($a6)
      declare x := 2                   $a6 := 2
      if EVENT_ID > 3                  if($EVENT_ID > 3)
          declare x := 3                 $x2 := 3
          message(x)                     message($a6)

Observed while modelling, and kept out of the passing runs by their instances:

* When ownership of a library ends, diagnostics of a standalone entry that were
  suppressed until then are not published, because `DiagnosticPublisher::publish` publishes
  only the sources its own entry reports on; `ClientShowsDiagnostics` fails in the
  instance of `MCOwnership`.
* `ASTThreadSafeAnalysis` forgets the statement it is in when it returns from a
  function body it visits for the first time (lines 198 to 203). With `wait(f(a))`,
  where `f` was not called before, the callback's range has no end, so none of its
  variables gets copies, and `a`, used after the wait, is shared by all instances.
  The compiler does so.
* A variable with copies and without an initial value is not set when it is declared
  (`ASTVariableReuse.h:173`): in a loop it keeps the value of the last turn, while a
  variable without copies is set to zero each time. The compiler does so.
* When the newest analysis of an entry failed, the last good index is used, but
  references in files that have changed since are dropped
  (`ReferenceProvider.cpp:198`); with main broken and open, a rename in lib edits
  lib alone, against "a partial or misplaced rename would corrupt the code"
  (`RenameProvider.h:40`). The server behaves so; `SettledRenamesAreWhole` is
  about entries that parse.
* `StackFits` depends on the shapes of structs: a node with two members of an edge struct that has one
  slot would push that edge twice (`NodeStructCreateRefCountFunctions.h:353`). Three members of one type
  and many parents of few children are of this kind too, and no run has them.
* Between the erasure of an entry's old snapshot and the publication of the new one
  a rename may collect the declaration alone; `expected` (`RenameProvider.cpp:45`) is read from the live buffer
  and is never compared with the name the analysis saw. Such a rename edits the name where it edits
  (`RenamesEditTheName`), but not everywhere; `SettledRenamesAreWhole` does not speak of it.

## 7. Not modelled

Of the server: the requests other than rename, the completion index, JSON-RPC
framing. Of the compiler: everything beyond what the server sees of a run, the
generated heap, and the storage of callbacks. Parsers and scanners (tokenizer,
parser, JSON), text output (generator, source maps), tables read at start-up (built-ins),
command line and crash reports are data conversion. The tree rewriting passes have a
whole syntax tree as their only state: they are functions on large data, which
neither TLC's enumeration nor the prover reaches and which the repository's golden
tests cover; they make up most of the source, so the share of lines that is
modelled is small and will remain so. Inside the modelled parts, section 2 names what each module leaves out.
`dump_import_graphs` and other debugging output is left out. Data races in the
C++ sense (`handle_code_action` reads the publisher without the mutex) are listed
as hazards; what such a read returns is not modelled.

## 8. Running it

    tlc -workers 2 -config MCStandalone.cfg MCLanguageServer.tla
    tlapm LanguageServer_proofs.tla

The names of module and configuration of every run are in `PROJECT.json`.
