# Formal models of Neuro SAN Studio / ModernizeAI

This directory holds TLA+ models of the parts of this repository that keep state across
awaits, signals, requests, files or crashes, the TLC configurations that check them on small
instances, and proofs, checked by TLAPS, of what holds for instances of any size.

Contents: [inventory](#inventory) · [modules and code](#modules-and-code) ·
[runs](#runs) · [what does not hold](#stated-and-known-not-to-hold) · [fairness](#fairness) ·
[proofs](#proofs) · [abstractions](#abstractions-by-name) · [plan](#plan) ·
[not modelled](#not-modelled)

To check: `tlc -config <run>.cfg <MC module>` for a run, `tlapm <module>_proofs.tla` for proofs.
`PROJECT.json` lists the runs, the lines of source each definition stands for, the mutations each
property was shown to detect, and the hazards the properties are for.

## Inventory

| Part | State | Operations | What is hard | What makes it correct |
| --- | --- | --- | --- | --- |
| **Persistent memory**, `middleware/persistent_memory/` | files per agent, or entries of the Mem0 service; an LRU cache of `asyncio.Lock`s per store | create, read, append, delete, search, list; summaries written back | interleaved calls between awaits, lock eviction, I/O errors and errors of the service, two stores on one folder | calls take effect as a whole on their own topic; the cache is bounded; every call returns |
| **Designer**, `middleware/agent_network_designer/` | the definition in `sly_data`; HOCON files; two manifests; a retry counter; reservations | resolve, validate, edit, retry, assemble, persist, reload | non-atomic update of shared manifests, crashes between files, two editors at a time, state that outlives a turn | manifests list what exists and what was saved; a turn ends, and starts with a full budget; the client has the text of what was saved; a reload is the network that was saved |
| **ModernizeAI**, `apps/modernizeai_ui/`, `coded_tools/modernize/` | tiers of memory and a knowledge graph shared by all requests; deliverables on disk | scan a path, clone or bucket; status, rules, readiness; questions; impact of a change | a scan over what earlier requests left, writes that fail half way, restarts | searches use the present chunks; cited files are kept; the dashboard shows one project; a scan repairs; distances in the graph are exact |
| **Runner**, `neuro_san_studio/{commands/run.py,plugins,runner}` | child processes, their `Popen` objects, plugins, who reads the pipes | configure, start, prompt about ports, wait, handle a signal | signals at any point of the start and inside the handler, a child that will not stop, a Phoenix that never listens | nothing is orphaned; pipes are read; the server is stopped before nsflow; a signal ends the runner; the start ends |
| **Log bridge**, `plugins/log_bridge/` | per stream: the lines collected for a record, the level held for a list | attach a process, read a line, drain the rest at the end | records of several lines, stray brackets, two streams on the same loggers, the end of a stream | no line is shown twice or for the other stream, or goes astray between the handlers; in order, with a level of its own or of its block |
| **Importer, exporter, `ns init`**, `neuro_san_studio/{importer,exporter,commands}` | the files, manifest and `mcp_info` of a project; a bundle | scaffold, import from the package or a bundle, export, merges | files that are skipped or fail half way, kills, repeated imports | what is written is declared; what could be read is imported with what it refers to; nothing of the user's is overwritten without force |
| **Skills**, `middleware/agent_skills_middleware.py` | a cache of skills and one HTTP session per agent | load, fetch, open and close the session | a turn that fails or is cancelled with the session open, partial loading | a fetch has an open session; no session leaks; an offered skill is found |
| **Checklist**, `middleware/agent_checklist_middleware.py` | one list of items; the progress told to the client | create, update, edit | concurrent tool calls on one list and its numbers | an update changes the item the model saw; the last report is right |
| CLI, coded tools, parsers, samples | mostly none | one call each | external services | [not modelled](#not-modelled) |

How they interact: the front end, or the designer's agents, talk to the neuro-san server, which
is not in this repository and which `ns run` starts as a child next to nsflow and Phoenix; the runner
hands the children's pipes to the log bridge, or to a plain logger without it. Inside the server each
agent has its own middleware objects: designer sessions share only the files of `registries/`,
invocations of one agent share only its memory. The import commands work on the files the server
reads later, while nobody else does. `modernizeai_ui` is a server of its own, whose requests share the
module-level `fabric` and `_GLOBAL_KG`. The models follow these lines: they share no variables, except
that `TopicStore` extends `TopicLocks` and is mapped to `TopicMap`, and `DesignerSession` composes the
designer's own agent with its two editors and the persistors.

## Modules and code

| Module | What it models | State | Actions |
| --- | --- | --- | --- |
| `TopicLocks` | `TopicStore._lock_for`, `_evict_cold_locks`, and the `asyncio.Lock`s they hand out | `cache` (the `OrderedDict`), `holder`, `waiters` | `Enter`, `Resume`, `Leave`, `LeaveEnter` |
| `TopicStore` | the six operations on `JsonFileStore`, `MarkdownFileStore` or `Mem0Store` (`layout`), with the summarizer, the enabled operations and the namespace of an agent | the lock variables, `layout`, `disk`, `task` | one per stretch of code between two awaits: `Begin`, `Wake`, `ReadTopic`, `LoadFile`, `Put`, `WriteRaises`, `Upsert`, `RemoteFails`, `Callback`, `ScanWhole`, `FetchNamespace`, `Glob`, `ScanFile` |
| `TopicMap` | abstract: a map of topics on which each call takes effect once and as a whole | `mem`, `call` | `Invoke`, `TakeEffect`, `Summarise`, `Return` |
| `NetworkPersistor` | `FileSystemAgentNetworkPersistor.async_persist` by several sessions | `netFile`, `exists`, `manifest`, `main`, `session`, `saved` | one per file operation, opening with truncation and writing apart, and `Crash` between any two |
| `DesignerSession` | the agent loop with the definition and persistence middlewares over many turns; the loops of the two editors with their validation middlewares; the factory and the three persistors | `sly`, `attempts`, `pc`, `at`, `text`, `reserved`, … | `StartTurn`, `BeforeModel`, `FetchRaises`, `CallTools`, `CallEditors`, `EditorStep`, `Answer`, `NothingToSave`, `Retry`, `GiveUp`, `Save` |
| `NetworkRoundTrip` | the HOCON and the deployable assembler, and `_config_to_network_def` that reads the result | `net`, `file`, `phase` | `Edit`, `Save`, `Load` |
| `LogBridge` | `attach_process_logger`, `_drain_pipe`, `_handle_line`, collecting of JSON, sticky levels, end of stream, for every stream of every process | per stream `input`, `buffer`, `balance`, `sticky`, `closed`; `out` of all | `Attach`, `HandleLine` (one disjunct per way a line is handled), `EndOfStream` |
| `Runner` | `NeuroSanRunner`, `PluginLoader`, `PhoenixPlugin`, `SimpleProcessLogger`, the server wrapper's stages | `child`, `stage`, `noted`, `drained`, `pc`, `frames` (the stack of handlers), … | configuring, starting, prompting, waiting, the steps of a handler, signals, ends of children |
| `KnowledgeFabric` | every request of `apps/modernizeai_ui/server.py` that changes state | tiers 1, 2, 3 and 5, `kg`, `disk`, `last` | `ScanPath`, `ScanClone`, `ScanFailedClone`, each a `Scan` that delivers all or some of its files or stops while it parses; `GetStatus`, `GetRules`, `GetReadiness`, five kinds of question, `Restart` |
| `BlastRadius` | `GraphAlgorithms.calculate_blast_radius`: the queue, turn by turn, and the risk level | none (operators) | checked over all graphs of four nodes, proved for every finite graph |
| `NetworkImport` | `ns init`, `ns export`, `ns import`, dependency analysis, the merges of the manifest and of `mcp_info` | `disk`, `manifest`, `shape`, `servers`, `mcpShape`, `bundle`, `cmd` | `InitCommand`, `CopyTemplate`, `ExportCommand`, `ImportCommand`, `NextItem`, `AnalyzeFails`, `CopyFile`, `SkipFile`, `CopyFails`, `MergeServers`, `UpdateManifest`, `Kill`, … |
| `AgentTurn` | the skills and the checklist middlewares over the turns of one agent whose tool calls run concurrently | `session`, `skills`, `list`, `progress`, `phase`, `call`, `seen`, … | `BeginTurn`, `LoadSource`, `CallModel`, `ChangeList`, `Report`, `AskSkill`, `AskRemote`, `EndTurn`, `TurnFails`, `CloseCancelled`, … |

The `MC…` modules give constants their values, the `…_proofs` modules hold the theorems. Definitions whose comment says *mutant* are not used by
any specification; they are the plausible mistakes each property was tried against.

The grain of the steps is the code's own. In `TopicStore` a step runs one task from an await that
suspends to the next; acquiring a free `asyncio.Lock` does not suspend, so looking a lock up and taking
it, or joining its queue, is one step. `os.replace` makes a file change in one step; `open(…, "w")` in the
persistor empties a file in one step and fills it in another. The handlers of the ModernizeAI server
never await and run on one event loop, so each request is one step. The two threads of a process in the
log bridge share the loggers and the raw log file only, so a line is one step. In `AgentTurn` a step runs
from one await to the next, in `NetworkImport` it handles one file or one directory of a class, in `Runner` it is a call after which
a signal may arrive.

## Runs

Each of the 12 finishes within three minutes. Ten pass:

| Run | Bounds | What it asks |
| --- | --- | --- |
| `store_layouts` | 2 tasks, 2 topics, summarizer, JSON, markdown and Mem0, 3 locks for 3 keys | `OperationsAreAtomic`: each store implements `TopicMap` under the mapping `mem <- Memory, call <- Call(p)`; `MutualExclusion`, `NoNestedLocks` |
| `store_faults` | JSON, markdown and Mem0, 3 keys and room for **one** lock; reads, writes and requests that fail | `CacheBounded`, `EveryCallReturns` (no deadlock and no lost wake-up although locks are evicted), `OthersGoByReadErrorOnly` (a topic changes by a write to it; in JSON it also goes with a rewrite after a read error, and is never put back as it was before another's write) |
| `persistor_crashes` | 1 session, 3 networks, 2 crashes | `NoDanglingReference`, `SavedStaysListed`, `ListedOnReturn` |
| `designer_turns` | any turns with any `sly_data`, a fetch of a reservation that raises, 2 retries, 2 rounds of each editor, each persistor | `ValidatorSeesDict`, `SavedHasText`, `ErrorIsFinal`, `RetryReachesModel`, `BudgetAfterSave`, `TurnEnds` |
| `roundtrip_kept` | 3 agents, any edits, 2 reloads | `SameNetwork` (agents, calls, kinds, front man first), `DemoTextOnce` |
| `bridge_lines` | any 4 lines of 9 kinds on the two streams of a process | `EachLineOnce`, `TextInOrder`, `EscalationCapped`, `ListOnConsole` |
| `runner_faults` | every mode and set of plugins, 2 signals, slow server, silent Phoenix, children that end, signals before a child is noted | `NoOrphansAfterOneSignal`, `PipesAreRead`, `FirstHandlerExitsCleanly`, `ServerStopsFirst`, `SignalEndsRunner`, `StartEnds` |
| `fabric_sessions` | 3 directories (default, documents only, a clone), 3 files, a scan failing at any of its writes, or while it parses after one of the files (`Partly`); graphs of 4 nodes | `SearchIsCurrent`, `CitedFilesExist`, `MirrorIsWhole`, `ScanRepairs`; the assumption `BlastRadiusIsExact` |
| `project_imports` | 3 commands, of which 1 may fail (an analysis, a copy, a merge of `mcp_info`) or be killed; 4 networks, a shared and another fragment, a class in a file and one in the directory around it; a new, an author's and a receiver's project | `EntriesKept`, `DoneIsRegistered`, `CompleteWhenClean`, `BundleIsClosed` |
| `agent_middlewares` | 2 turns, 2 rounds of 2 concurrent tool calls, 4 sources of 2 skills, 2 items | `NoSessionLeak`, `SessionIsOpen`, `OfferedSkillsStay`, `ProgressAtRest`, `ChangesSeenItem` |

Two end in a violation of something a comment or test of the repository says:

| Run | Property | What happens |
| --- | --- | --- |
| `locks_evicted` | `MutualExclusion` | `_evict_cold_locks` takes a lock that is released but has a task queued on it for cold: the task resumes on the evicted lock while a new one is handed out for the same key |
| `persistor_lost_entry` | `SavedStaysListed` | two sessions save at the same time: each reads the manifest before the entry of the other has been written, and the later write drops the earlier entry. The manifest is there from the start (`ManifestAtStart`). Without one there is a second way, the creation of an empty manifest (`:101`) by a session that looked before the other had written |

Why the bounds are enough. Conflicts in the store need two tasks on one key, and a listing or a second
topic in between; eviction needs one more key than locks. A third task adds queues longer than one, which
`TopicLocks` alone has in `locks_evicted`, and which the proofs cover. Three networks let one be listed,
one be lost and one be in the making; two crashes let a crash hit the retry of an earlier one. Two retries
distinguish the first, a middle and the last; two rounds of an editor one that is sent back and the last one
allowed. Three agents are the least with a front man, an agent with tools and a leaf in every order. With
`StickyMaxLines = 2`, four lines hold an error, a list up to its cap and the line after it, or a record of three
lines with a line of the other stream in between. Two signals put one handler on top of another. With three
directories one has been scanned before the last one, and the default is neither; `docs` has no code and
`clone` no documents, so that each tier is once refilled and once not. Three commands are an export, an import
that fails and the one that repeats it. Of the two networks that call each other one includes a fragment that `ns init`
does not bring, so that it can be read in some projects only, and the directory of its class has the module and
the `__init__.py` of the other in it; one in a group and one of the same base name are the other cases the commands tell apart. Two turns let a session be left by one and met by
the other; two tool calls are what an update needs to race a create, an update or a report. Four nodes have every
shape of shortcut, diamond and cycle through or beside the entity that is asked for.

## Stated and known not to hold

These properties are definitions in the modules and not in the configurations, because the code does not
have them. Each becomes a counterexample when it is put into the named configuration, alone and with the change
given.

| Property | Module | Shown by | Claim, and what happens |
| --- | --- | --- | --- |
| `CommittedOnReturn` | `TopicStore` | `store_layouts` with `Faults <- WriteFaults` | "Each operation is committed as soon as the LLM call returns": a failed write is only logged |
| `OperationsAreAtomic` | `TopicStore` | `store_layouts` with `Layouts <- Files`, `Store = {s1, s2}`, `StoreOf <- StorePerTask` | locks are per instance; two invocations of one agent lose updates |
| `OthersGoByReadErrorOnly` | `TopicStore` | `store_faults` with `FileOf <- SameFile` | two topics whose names sanitize to one file name share it |
| `OtherTopicsUntouched` | `TopicStore` | `store_faults` | an unreadable JSON file counts as empty, and the next write replaces it |
| `IncludedOnReturn` | `NetworkPersistor` | `persistor_crashes` | after a crash between the two manifests the retry finds its network listed and returns before the main manifest |
| `FullRetryBudget` | `DesignerSession` | `designer_turns` | a turn that gives up leaves the counter at its limit to the next turn |
| `SavedIsReserved` | `DesignerSession` | `designer_turns` | "If the return value is a string, an error has occurred": `_assemble_and_persist` drops the string of a reservation that was refused |
| `OnlyOwnInstructions` | `NetworkRoundTrip` | `roundtrip_kept` | the prefix and the AAOSA text stay in the instructions of a reloaded network |
| `MalformedFallsBack` | `LogBridge` | `bridge_lines` | a record still open at the end of the stream is dropped, not shown as text: `EachLineOnce` says where each line is, not that all are shown |
| `BlocksAreWhole` | `LogBridge` | `bridge_lines` | an inner line that parses by itself overtakes the block around it |
| `NoOrphans` | `Runner` | `runner_faults` | the wait for a slow server times out, the handler ends with the exception, and nsflow is left running |
| `CleanExit` | `Runner` | `runner_faults` | the handler waits for the process whose wait it interrupted and times out: with `--server-only` always |
| `PhoenixIsStopped` | `Runner` | `runner_faults` | only the handler cleans up; after a refused prompt, or the end of the other children, Phoenix runs on |
| `CitationsHold` | `KnowledgeFabric` | `fabric_sessions` | a question about the catalogue reads the default directory over the scanned files |
| `DocsAreSearchable` | `KnowledgeFabric` | `fabric_sessions` | a request that filled tier 1 only keeps the documents out of tier 3 |
| `ProceduresAreFresh` | `KnowledgeFabric` | `fabric_sessions` | a scan does not clear the procedures of tier 2 |
| `FoldersAreIsolated` | `KnowledgeFabric` | `fabric_sessions` with `Project <- SharedNameMC` | directories with the same base name share a folder |
| `GraphNamesItsFiles` | `KnowledgeFabric` | `fabric_sessions` | a scan of an absent path builds the default directory's graph under the absent one's name |
| `OnlyNetworksRegistered` | `NetworkImport` | `project_imports` | shared includes are not to be declared as networks; the other fragments of an archive are |
| `WrittenIsRegistered` | `NetworkImport` | `project_imports` | a command that ends by an error has written networks it does not declare |
| `DeclaredIsPresent` | `NetworkImport` | `project_imports` | a network whose copy failed is declared all the same |
| `EntriesKept` | `NetworkImport` | `project_imports` with `Projects <- WithBare`, or with `Faults <- AllFaults` | "Existing URLs are never overwritten" needs a document with braces, and no kill inside a write |
| `CleanIsComplete` | `NetworkImport` | `project_imports` | a network that cannot be read, because a fragment it includes is not in the project, is analysed to nothing without a word: its sub-networks, modules and servers stay behind |
| `IncludesAreImported` | `NetworkImport` | `project_imports` | "Imported alongside each network: HOCON include files": only the four shared ones are |
| `DirectoriesArrive` | `NetworkImport` | `project_imports` | "Re-running is safe": a directory that is there is skipped whole, although a kill cut its copy short or this import made it for one module in it |
| `BundleHasAll` | `NetworkImport` | `project_imports` | a network that the exporter cannot read brings its fragments only |
| `BundleHasTrees` | `NetworkImport` | `project_imports` | "full package trees with `__init__.py`": a module in a file brings the `__init__.py` above it and not the files next to it |
| `ResultsAreKept` | `NetworkImport` | `project_imports` | a merge of `mcp_info` that raises ends a network's part of the import before it is noted as imported |

Some more, met on the way and visible in the actions. The null persistor, documented as the fallback, raises
when it is asked for its assembler. Without a network, or with a model that `skip_designer` skips, an editor's turn is
ended by the framework's step limit only. File memories ignore the user; agents whose origins cannot be
parsed share `unknown.unknown`. A second SIGTERM cuts the server's flush off. Phoenix's pipes are never read. The
server wrapper looks for `config/plugins.hocon` below the package, not below the project. Skills are not reloaded
once any was found. A close of the session that is cancelled leaves a closed session for good
(the exception in `SessionIsOpen`), a failed merge loses a network's result (the one in `DoneIsRegistered`), and an update in the same round as a create hits another item (the one in
`ChangesSeenItem`).

## Fairness

Three specifications state it; the others are checked for safety.

- `TopicStore`: `WF(Progress(p))` for each task. The event loop resumes what is ready, file operations
  in threads and requests come back, with a result or an exception, and the summarizer returns or raises. Nothing
  makes a task start a call.
- `DesignerSession`: `WF` on the hooks of the designer and of the editors, which the agent runtime calls when an
  agent gets there, and `SF(Answer)`: the designer's model may call tools any number of times, but not for ever. That
  is an assumption about the model; LangGraph's recursion limit stands behind it, and for the editors, whose
  validators have no counter, that limit is in the model as `MaxSteps`. Nothing is assumed about the validators:
  `TurnEnds` holds although they may reject for ever.
- `Runner`: `WF` of the main thread and of the handlers, and of the end of the server once it was asked to
  stop, in runs where it is not slow. nsflow and Phoenix are not assumed to end by themselves, nor Phoenix to
  listen: `StartEnds` rests on the counted tries, `SignalEndsRunner` on the time limit of the wait.

## Proofs

| Theorem | For every | Argument |
| --- | --- | --- |
| `CacheIsBounded` | number of keys, tasks, `MaxLocks` | the cache grows by one, and then something unlocked is in it to drop: the new lock at least (`EvictColdProperties`, `ColdestExists`) |
| `LocksExclude` | the same, with `MaxLocks` at least the number of keys | inductive `OneLockPerKey`: keys in the cache are distinct and every lock in use is cached. Distinct keys bound the length (`DistinctKeysBound`), so nothing is evicted |
| `StoreExcludes` | tasks, topics, files, backends, faults | every step of the store is one lock operation (`StepIsLockOperation`), so `OneLockPerKey` is kept |
| `StoreTypes` | the same, any `MaxLocks` | inductive: types, and each program counter with the fields it needs (`TaskOK`) |
| `LocksAreNotNested` | the same | inductive `Places`: a task holds or waits for one lock at most, the one of what it works on, and holds it where it works under it |
| `NoTaskIsForgotten` | the same, any `MaxLocks` and faults | the safety core of `EveryCallReturns`: on top of `Places`, `EachHasAPlace` and `AllHandled`. A task in an operation is in its block at an await whose end is handled, or in a queue; a held lock has a holder at work that waits for nobody, a released one with a queue a head that can take it |
| `StoreImplementsTopicMap` | tasks, topics, layouts, summarizer or not, under `OneReliableStore` | `Places`, mutual exclusion and `Current`: what a task has read or shown to the summarizer is still what the file or the entry says. `Begin` maps to `Invoke`, the step that puts a file or entry in place to `TakeEffect` or `Summarise`, a step that ends the call to `Return`, every other step to a stutter (`Simulated`) |
| `WritesAreConfined` | tasks, topics, backends, faults, under `OwnFiles`; where JSON is a layout, also one instance with a lock per key (`OneStore`) | a file or entry per topic is replaced as a whole, for its own topic, for any number of instances and any cache. One JSON file for all needs the lock: what is carried over is still what the file says, unless the load failed (`LoadsAreFresh`) |
| `ReferencesAreSound` | sessions, networks, crashes | inductive `IInv`: what is about to be listed has a file, what is about to be included exists, in every local state |
| `AManifestLockIsEnough` | sessions, networks, crashes, main manifests, under `[]ManifestLocked` | inductive `KeptInv`: until a crash, what was saved, or written and not yet returned, is in the manifest or, between the truncation and the write, in what that session is about to write |
| `SavesAreKept` | the same, under `OneSession` | a single session is alone in the manifest |
| `ReturnsAreListed` | the same, under `DefaultDir` or `[]OneAtATime` | one at a time, `MainInv`: past its write the network is listed, and without a crash a listing main manifest is about to include it. In the default directory, `DirInv`: a call returns in the step that writes its network, or reads it in the list |
| `DemoTextNeverRepeats`, `ReloadsGiveTheNetwork`, `RoundTripTypes` | agents, edits, reloads | inductive `RoundTripInv`: names occur once, and what is saved is what the assembler makes of the network. What the folds of the assembler and of the parser return is proved by induction over the length |
| `ValidatorsSafe`, `ErrorsEndTurns`, `RetriesReachTheModel` | number of retries and of editor rounds, either progress style | inductive `SessionInv`: after resolving, `sly_data` holds a named dict unless the turn is to end |
| `TextIsGiven` | the same, any persistor and any failure | what was saved or reserved in this turn has its text in `sly_data`, because the text is put there before anything is persisted |
| `BudgetIsRestored` | the same | on top, `CounterIsReset`: counter and rounds agree in a turn that follows a validated one |
| `LinesAreKept` | processes, lines, `StickyMaxLines` | `InOnePlace` is inductive: the line just read has a new number, and comes last in one place (`StayApart`). A record that is dropped closes a block or has nothing to show (`StepDropsEmpty`) |
| `TextStaysInOrder` | the same | on top, `BufferIsLater`: what waits in a buffer came after everything that was shown |
| `EscalationIsCapped` | the same | on top, `HeldIsOpen`: the level that is held has counted the records shown since its list opened |
| `ListsReachTheConsole` | the same | on top, `OpenIsHeld`: a list that is open, with no other open before it, is the one that is held |
| `NoChildIsLeft`, `FirstHandlerIsClean`, `ServerIsStoppedFirst` | modes, plugins, ports, faults; any number of signals for the last | inductive `RunInv`: what a running child, each frame on the stack of handlers and each stage of the server say of each other |
| `PipesAreAlwaysRead` | modes, plugins, faults | on top, `PipesInv`: with the log bridge, every noted child but Phoenix has its pipes handed to it |
| `HandlersGoOn` | the same, any number of signals on top of each other | the safety core of `SignalEndsRunner`, inductive `WaitInv` on top of `RunInv`: whoever waits for the server knows it and asked it to stop, and a server that was asked serves no more |
| `RunnerTypes` | the same | `SettingsKept`: no server is started before the settings were exported, and then they stay |
| `CitedFilesAreKept` | directories, files, kinds | inductive `GraphInv`: a graph cites what was in tier 1 when it was built, tier 1 is only added to, from the default directory, until both are replaced together |
| `SearchStaysCurrent` | the same | inductive `SearchInv`: a fitted index is over the chunks there are, if any, and these are of files in tier 1; whatever adds chunks fits the index again |
| `DashboardIsWhole` | the same, a scan stopping while it parses or at any write | inductive itself: a scan that completes has done all its writes, and one that does not is not the last completed one |
| `FabricTypes`, `ScansRepair` | the same | from the three invariants and the types of tiers 2 and 5 (`IInv`) |
| `DistancesAreExact`, `RisksCountOnce` | every finite graph, target and depth | `SearchOK` holds after each turn of the queue: it is sorted by distance, spans two levels at most, and each visited node has its least distance. The nodes visited are the turns taken plus the queue still waiting, so the number of nodes bounds the turns |
| `BundlesAreClosed` | files, directories, references, projects, faults | types alone (`Typed`) and what the exporter's walk reaches (`ExportIsClosed`): a network in the bundle that can be read was read in the walk, so that its references and modules are in it too; fragments come from a scan of the text, which needs no parse |
| `ImportsKeepEntries`, `WrittenIsDeclared` | the same, under `Braced` | `Handled` and `Listing`: what the running import wrote of networks, or skipped, is listed for the manifest, or pending |
| `CleanImportsAreComplete` | the same, under `Braced` | `Settling`: as long as there was no warning and every network could be read, each one asked for is in the queue, or in a set closed under references that is at hand with what is still to be copied, or in one that has all it needs. A directory that was written is whole (`TreesAreWhole`), one that has a file in it is there (`Enclosed`) |
| `SessionsAreClosed`, `SessionsAreUsable` | sources, turns, rounds, failures | inductive `SessionInv`: every session but the present one is closed, and the present one only by a cancelled close |
| `OfferedSkillsAreKept` | the same | inductive `SkillInv`: while sources are still being loaded, nothing has been offered |
| `SeenItemsChange` | items, slots for concurrent calls | inductive `ListInv`: in a round that creates no checklist, each number stands for the item it had in the prompt |
| `ProgressIsReported` | the same | inductive itself: the end of a turn reports the list as it is then |
| `TurnTypes` | the same | inductive `TurnInv`: types, and each call's stage with what it reports |

They are in the module `<module>_proofs` beside each module; those of `TopicLocks` are in `TopicStore_proofs`, those of
`NetworkRoundTrip` in `NetworkPersistor_proofs`, and those of `BlastRadius` in `KnowledgeFabric_proofs`.
Each step is proved apart from the properties it serves: most modules state first what a step does to the
fields nobody else touches (`StepIsLockOperation`, `Reads`, `SameRequest`, …), then the invariants over that.

The properties themselves are seldom inductive: `MutualExclusion` needs that a lock in use can still be found in
the cache, `NoDanglingReference` needs to know what the sessions are about to write, `TextInOrder` what still waits, and the
properties of a designer turn what `sly_data` holds between the hooks. `ProgressAtRest`,
`MirrorIsWhole` and `NoOrphansAfterOneSignal` need no more than the types or the first invariant of their module.

The assumptions are those the modules name with `ASSUME`, which TLC evaluates in the runs (for `TopicStore`
they say that the tasks are those of one memory, that some operation is enabled, and that tasks on Mem0 share their
store), and, where a theorem says so, conditions that counterexamples show to be needed:

| Condition | Says | Without it |
| --- | --- | --- |
| `AmpleCache` | the lock cache has room for every key | `locks_evicted`: two tasks in one block |
| `OwnFiles` | no two topics share a file name | `OthersGoByReadErrorOnly` with `FileOf <- SameFile` |
| `OneReliableStore` | both of these, one instance, and I/O that does not fail | `OperationsAreAtomic` with a store per task, or with an unreadable JSON file |
| `OneSession`, `ManifestLocked` | there is one designer session; no two are between the read and the write of the manifest. The code has no such lock: the theorem says that it would be enough | `persistor_lost_entry` |
| `OneAtATime` | no two sessions save at once | `ListedOnReturn` with two sessions and `DefaultDir = FALSE` |
| `DefaultDir` | networks are saved in the default subdirectory, where the main manifest is left alone | `ListedOnReturn` with two sessions and `DefaultDir = FALSE`: between the write of one and its return the other truncates the manifest or replaces it by an older list |
| `Braced` | manifest and `mcp_info` of every project have braces, and no kill hits inside a write | `EntriesKept` with `WithBare` or `AllFaults` |

Only model-checked. Liveness (`EveryCallReturns`, `TurnEnds`, `SignalEndsRunner`, `StartEnds`) rests on fairness and
`ENABLED`. For two of the four the part that fairness cannot repair is proved (`NoTaskIsForgotten`, `HandlersGoOn`): nobody waits
for something that nobody will do. That the weak fairness of `TopicStore` then suffices also needs a lock object to be at hand,
which `Generation` bounds in the model and nothing bounds in the code. Every invariant and every safety action property of the
runs has a theorem. Inductions over data are done on recursive functions, with the set of the numbers for which the claim holds.

## Abstractions, by name

- *Text is what it accounts for.* A topic's content is the set of facts appended to it and whether it was
  summarised; a line of a log is one of eleven kinds; instructions are a sequence of pieces; a node of the graph is
  the file it cites; a skill is its source; a checklist item is the call that made it and the one that wrote its
  text. Search ranking, scores, wording and layout are left out.
- *Lock objects* are a key and a generation; a generation is used again when nobody references the object.
- `TopicStore`: the tasks are those that share a memory. Mem0's service answers in order or with an error; its
  filters are `Scope`. It holds one entry per topic: that two tasks, one on an evicted lock, both add one is left out. A
  topic that was summarised is not summarised again, where the code compares the length only.
- `NetworkPersistor`: the syntax of manifest entries is left out; a crash ends all sessions of the process.
- `DesignerSession`: the model, its tools and the validators are nondeterministic, an editor's hook is one step, and
  `skip_designer` may or may not be handed down to an editor. `ClientData` leaves out combinations nobody reads. Of the
  exceptions that leave a hook, the fetch of a reservation and the persistors' are in the model; a validator, a tool or the
  language model that raises is not.
- `LogBridge`: the raw log file is `input`; a record with a traceback is one record; `Info` stands for the levels
  that hold no list.
- `Runner`: Unix only. A handler on top of `server_process.wait()` cannot take the lock around `waitpid`; the
  moments in which other waits hold that lock are left out. All settings are one.
- `KnowledgeFabric`: of the deliverables, the drawn graph and the report stand for all. A file that cannot be read is one
  the directory does not hold. What a clone that timed out leaves of its directory is left out. `CitedFilesExist` speaks of the
  nodes made of a file: the Application node cites a directory (`knowledge_graph_tool.py:66`) and a Risk node a component
  (`provenance_validator.py:189`), which are no files, and neither is in the model. The Python files concerned use typing names in
  annotations without importing them; the model describes them where they can be imported.
- `BlastRadius`: parallel edges are one edge, and cycles are one question instead of an enumeration.
- `NetworkImport`: a file that was cut off (`torn`), or includes a fragment that is absent or cut off, refers to nothing
  (`Parsed`). The analysis looks for fragments in the directory the command runs in, also for networks of the package. Fragments
  that include fragments are left out, and so is `config/llm_config.hocon`, and a network that includes a fragment without
  using anything of it. A directory has a path of its own, and so has each file in it (`Package`, `Tree`); `.pyc` files and
  directories within directories are not told apart. Groups matter by `BaseName` only; the prompts are the set of what may be selected.
- `AgentTurn`: a tool call that raises ends the turn with its other calls; reports of concurrent calls arrive in any order.
- Bounds that are no part of the code: `Generation`, `MaxCrashes`, `MaxAgents`, the `MaxRounds` of `NetworkRoundTrip` and
  `AgentTurn`, `MaxTurns`, `MaxItems`, `MaxLines`, `MaxSignals`, `MaxCommands`, `MaxFailures`, `Partly`. `MaxSteps`, `MaxTries`,
  `MaxAttempts` and `StickyMaxLines` are the code's or the framework's own limits, made small.

## Plan

Modelled first was what many clients share (the store, the persistor), then what one session keeps, then the processes
around it; abstract specifications before the runs that compare with them. What is left:

1. **Composition**: persistor and round trip in one model, so that a crash and a reload meet.
2. **Proofs**: the safety core of `TurnEnds`, a measure over the counters of the designer and of its editors; the types of
   the bridge and of the importer as theorems of their own.
3. **Two instances of `Mem0Store`** on the same entries, which lock apart as the file stores do.

## Not modelled

Parsers, scoring, rendering, CLI commands other than `run`, `init`, `import` and `export`, and coded tools are single passes
without shared state, and page rank, communities and rank fusion are floating-point computations: a state machine says no
more about them than their code. The procedural memory is a list nothing adds to. OpenFGA, tracing and the sample servers put
one call in front of a remote service, of which only what the code makes of the answers could be said. The settings and
prompt section of the memory middleware, the progress reports and prompt injection of the designer's middlewares, and the
tracers the plugins register inside the server, are left out of components that are otherwise modelled. The
neuro-san server, nsflow, LangChain and the services are not in this repository and appear as what the code here makes of them.
