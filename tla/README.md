# kxs in TLA+

kxs is a Kubernetes client with two faces: a window (Tauri and Svelte, `src/src-tauri`,
`src/src`) and a terminal app (`src/crates/kxs-tui`).  Both edit kubeconfig files through
`kxs-core` and talk to clusters through `kxs-cluster`.  This directory models the parts of it
whose correctness depends on the order in which things happen, checks them with TLC on small
instances, and proves what matters most with TLAPS.

    tlc -workers 2 -config KubeStore.cfg MCKubeStore          one run
    tlapm KubeStore_proofs.tla                                one set of proofs

## 1. The system

| Component | State it keeps | Operations | What makes it correct |
|---|---|---|---|
| Kubeconfig store (`kubeconfig/store.rs`, `io.rs`, `spec.rs`) | the loaded files, in order; per file a config or an error; files and backups on disk | `load`, `reload`, lookups over the merge, upsert/delete/rename, `apply_context_spec` | an edit is decided on memory and applied to the file as it is; nothing is overwritten without a backup; the lookups and the edits take the same entry; a save that is refused wrote nothing |
| File watcher (`watch.rs`) | a queue of events, whether directories are registered | notify, debounce, reload under the store's mutex | a change it saw reaches memory; a broken file does not replace the last good state |
| Pods watch (`pods.rs`, `podtable.svelte.ts`) | a batch of deltas, a buffer for a relist, the status | kube's watcher events, the flush timer, stop | the table never goes back and catches up |
| Table watch (`resources.rs`) | a deadline, `first`, the items of a metadata watch | fetch, mark dirty, resync every 30s, stop | a change leads to a fetch; a driver whose view left ends |
| Window's sessions (`cluster_ipc.rs`, `ClusterTab.svelte` and the views) | tab -> session with the stop handles of its streams; process-wide ids | open, close, start a stream, stop a stream, prune | streams belong to their session, are stopped for no other, and end with their tab |
| Terminal app (`app.rs`, `chrome.rs`, `views/*.rs`) | the view stack, dialogs, the active context and namespace, favourites and history, follow-up commands | one `update` per message; keys and commands | watches are never lost and show what the title says; an action hits the row it was aimed at; what is remembered is saved; esc always leads back |
| Terminal runtime (`runtime.rs`, `suspend.rs`) | the message queue, sessions, the flags of the event pump | run the commands of an update, suspend for a shell or editor, drain | one reader of the terminal; the keys come back; every message is handled |
| Log stream (`logs.rs`, `views/logs.rs`) | a batch; a ring of 50000 lines and what of it is on screen | follow, restart, scroll, filter, pause | no line lost or twice, a paused screen stays put |
| Exec and attach (`exec.rs`) | stdin, output and resize channels | pump output, write stdin, close | one Closed, after all output when the end of the output causes it; no output lost; a stop ends the connection |
| Edit and apply (`edit.rs`, `YamlEditView.svelte`, `suspend.rs`) | base, saved and draft text | diff, stale check, dry run, patch, reseed | the patch changes what the user changed and nothing a newer writer did |
| Workload actions (`workloads.rs`) | none | drain, cordon, rollout undo, cronjob trigger, scale, restart, delete | each does what it reports, whatever changes between its requests |
| Pods as kxs shows them (`pods.rs`, `containers.rs`, `views/pods.rs`) | none | a row, a fault, containers and ports from a pod | nothing that is wrong is hidden by the fault filter |
| Describe, metrics and queries (`describe/*.rs`, `metrics.rs`, `quantity.rs`, `workloads.rs`, `resources.rs`) | none | several requests and what is made of their replies | the parts of an answer fit together; a node does not look emptier than it is |
| Contexts view (`views/contexts.rs`) | contexts whose answer is waited for | ping, answer, refresh | no context is waited for in vain |
| Sorting and filtering (`table/*.rs`, `events.rs`) | none | pure functions | rows keep a total order, empty cells last |
| Port-forward, schema cache, discovery, bridge | a listener; documents by content hash; none | requests | (not a question of ordering) |
| Window's stores, rendering, themes | tabs, remembered views; none | open, close, refresh; text layout | the latest answer wins |

How they interact.  The window's commands share the store behind one mutex with the watcher's
reload.  Every cluster stream (pods, table, log, exec, forward) is a task that sends events over
a channel and ends when its stop handle fires or is dropped; the window keeps the handles in
`Sessions` and hands ids to the page, the terminal app sends the handle itself to the view with
`Msg::Started`.  In the terminal app tasks post messages to one queue, the loop takes them one by
one, and `update` returns commands that start new tasks; connects are the exception and write the
active context from their task.  A shell or an editor takes the terminal away from the event pump
and stops the loop.  A question about the cluster is a task of several requests whose replies are put
together; an edit is a read, a comparison and a patch.

What is hard about it: other programs write the kubeconfig files at any time, writes fail and the
program dies between them; a command awaits the cluster with its lock released and finds another
session when it comes back; replies arrive for views that are gone; tasks finish in any order;
kube's watcher breaks, relists and reports a list piecemeal; two threads hand the terminal over by
two flags and bounded waits; others write to the object that is edited, and pods, endpoints and replica
sets change between the requests of one answer.  `PROJECT.json` lists these hazards one by one at their lines, with
the properties that cover them.

## 2. The modules

| Module | Models | State and actions |
|---|---|---|
| `KubeConfig` | `store.rs` lookups and list edits, `types.rs` | pure operators on a config: the merge over files (first file wins across files, last entry within one), replace, push, remove, the checks of an edit |
| `KubeStore` | `store.rs`, `io.rs`, `spec.rs`, `watch.rs`, the commands of `ipc.rs` | `files` is memory, `disk` the files, `backups` the newest backups.  A command is a spec turned into calls; each call goes through `StartCall` (decide on memory), `ReadFresh`, `Backup` (with rotation), `Persist` (temporary file and rename) and `Reread`; every read and write can fail (`FileFails`, `RereadFails`, `ReloadFails`, and those of the start), the program can die at each, an external writer can write between any two.  The history `missed` says whose read at the start or after a rename failed |
| `PodFeed` | (promise) | what a pods table promises: rows are versions their pod had, each row only moves forward, and the table is `Current` in the end |
| `PodWatch` | `drive_pod_events`, `podtable.svelte.ts` | kube's watcher (external) with lists, relists and errors; the batch, the relist buffer, the flush, the events in flight and the table they are applied to |
| `TableWatch` | `run_table_watch`, `drive_table_events`, `emit_table` | versions of the table; fetch, answer, send, deadline, resync, items of the metadata watch, stop |
| `SessionRegistry` | `cluster_ipc.rs`, `session.rs`, `tabs.svelte.ts`, the views that own streams | `handles` is the mutex's map; a command is as many actions as it takes the mutex; the page's views know, wait for, or gave up on a stream |
| `TuiApp` | `app.rs`, `runtime.rs`, `main.rs`, `views/pods.rs`, `views/namespaces.rs` | the message queue, the view on the stack, modals, the active context; one action per key, message and task |
| `EventPump` | `start_event_pump`, `stop_event_pump`, `run_session` | the program counters of the pump, the shell's stdin thread and the loop; every load and store of a flag is a step |
| `ExecSession` | `drive` of `exec.rs`, which exec and attach share | the process and its connection (external), the output pump, the control loop with the branches of its `select!`, the wake-ups between the two; what was known when `Closed` was sent |
| `Mirror` | (promise) | what a table of the server promises: it shows what was, never goes back, catches up or was left |
| `MergePatch` | the pure part of `edit.rs` | documents as trees of a bounded depth, `merge_patch_diff`, the paths of a patch, what the server owns, and the server's own application of a patch (external) |
| `ClusterActions` | `edit.rs`, `workloads.rs`, `suspend.rs`, `YamlEditView.svelte` | `object` with its versions (`version` is the last one given), `node`, `pods`, `jobs` on the server; `tasks` are the operations under way, each request a step; `window` is the editor with base, saved and draft; others write at any time and requests fail |
| `Views`, `TableOrder`, `TableView`, `LogsView`, `ListViews`, `Dialogs` | `view.rs`, `table/*.rs`, `events.rs`, `views/*.rs`, `chrome.rs` | a view or the dialogs as a record, and operators for its keys, ticks and messages that return the next record and the commands |
| `Terminal` | `app.rs`, and how `runtime.rs` executes its commands | `t` is the app: views, dialogs, session, config in memory and on disk, history, the tasks under way.  `Key`, `Answer`, `Rows`, `MetricsCome`, `Lines`, `Tick` and what tasks report run `update` and all commands it returns; the history `dropped` has the commands `update` threw away |
| `Amounts` | quantities of `describe/node.rs`, `quantity.rs`, `metrics.rs` | reading, adding, rounding up and printing a quantity with its suffix |
| `PodViews` | `pods.rs`, `containers.rs`, `views/pods.rs`, `describe/node.rs` | a pod's row, its faults, containers and ports, and what it asks of its node with sidecars, init containers, pod-level resources and resizes |
| `Answers` | `workloads.rs`, `metrics.rs`, `resources.rs`, `describe/mod.rs` | what is made of the replies: endpoints, history, new and old replica sets, a node's load, tables, usage |
| `Related` | `describe/hpa.rs`, `storage.rs`, `serviceaccount.rs`, `namespace.rs`, `events.rs` | the describers that set two readings side by side: metrics and what was measured, a claim and its users, an account and its secrets, quotas and limits, events |
| `Kubelet`, `ClusterWorld` | external | pods through start, crash, resize, eviction, deletion and end; controllers, people, nodes, metrics servers and events that change the rest |
| `ClusterReads` | `fetch` of `runtime.rs`, `describe/mod.rs`, `list_table`, `logs.rs` | one question, request by request with pages and failures, while the world goes on; a log read line by line into batches |
| `KubeStore_proofs`, `PodWatch_proofs`, `TableWatch_proofs`, `SessionRegistry_proofs`, `TuiApp_proofs`, `ClusterActions_proofs`, `Terminal_proofs` | | the theorems about the module of that name and their proofs |
| `Shell_proofs` | | the same for `EventPump` and `ExecSession`, which share no state: what a shell relies on |
| `MC*` | | the values TLC uses |

Two refinements are checked as properties of runs: `PodWatch` implements `PodFeed`
(`Feed == INSTANCE PodFeed WITH ...`, `FeedsTable == Feed!Spec`), so that driver and table together
keep the feed's promise, and `TableWatch` implements `Mirror` (`MirrorsCluster`).  `KubeStore` uses
`KubeConfig`'s operators for both memory and disk.  `Terminal` and `TuiApp` are two views of one app:
`TuiApp` has the handles of watches, the tasks and their races, with one view of few keys;
`Terminal` has every key, view and dialog, and a watch is what was asked for last.  `ClusterReads`
extends `ClusterWorld`, `Kubelet`, `Related`, `Answers`, `PodViews` and `Amounts`.

Each module that is mutated has operators marked `Faulty:`, which are what a plausible mistake
would make of the definition next to them; every property of a passing run is violated by one of
them (`mutants` in `PROJECT.json`), so that no property holds whatever the code does.

What the data stands for: an entry of a kubeconfig is its name, one value for what kxs edits and
one for the fields it does not know; a file that cannot be parsed is `bad`; a pod's row and a
table are version numbers in the watches, and rows with a sort cell in the terminal; a stream or a
watch is the number it was asked for as; the text of a filter is the names it matches; a line of a
log is its number; a quantity is a number with a suffix, a unit of which has 1000 parts; an event of a
described object is known by the kind of that object alone, of which a question has one.

## 3. The runs

| Run | Instance | What it asks |
|---|---|---|
| `kubestore` | two kinds of behaviour, chosen at the start (`menu`), over two files.  Commands: seven contents (duplicates, shared and dangling names, current-context in either, malformed), two commands out of eleven, one failing operation.  Races: three initial contents, four an external program leaves behind, two external writes, one command, the watcher, one failure, one crash; fair | `MergedViewAgrees`: the merged view shows the entries the lookups find; `MemoryMatchesDisk` after each command, but for files whose read failed; `EditIsLocal`: nothing but the entry edited changed; `SavesAreWhole`: what was saved is what is looked up, and what failed wrote nothing but in the two cases of section 5; `EditsBuildOnLatest`: what a rename puts in place is an edit of what the file holds; `OverwrittenIsBackedUp`; `NoDuplicateAdded`; `ExtrasPreservedWhenSynced`; `LastGoodKept`; `SeenChangesAreLoaded` |
| `kubestore_checks` | the commands, one save with a new cluster and a new user, no failure and no other writer | `ChecksComeFirst` does not hold (below) |
| `podwatch` | two pods, three changes, two errors; fair | `NothingLost`: what the watcher reported is in the table, the batch, the buffer or in flight; `FeedsTable`: the refinement of `PodFeed`, with its promise to catch up |
| `tablewatch` | three changes, one error; fair | `CaughtUp`: no change waits for the resync; `MirrorsCluster`: the refinement of `Mirror`; `LeftEnds` |
| `sessions` | one tab, two sessions, two streams, one reload; fair | `NeverStoppedForAnother`, `StreamsUseTheirSession`, `NoEntryLeftBehind`; `NothingRunsOn`: closed tabs and pages that were reloaded leave no stream running |
| `tui_app` | one context with a shell and two events, and two contexts and namespaces with two keys; fair | `WatchesAreOwned`: no watch runs without a view or message that has its handle, and a view's latest is not stopped; `Settles` in the active context and namespace |
| `tui_acts` | two contexts | `ActsOnSelectedRow` does not hold (below) |
| `event_pump` | three shells or editors; fair | `OneReader`, `KeysComeBack` |
| `exec_session` | two chunks of output, two of input or sizes; fair | `EndIsComplete`: a `Closed` that the end of the output caused comes after all output and has the exit message; `ExitIsReported` once; `EndsClean`: the output still drains and the connection is torn down |
| `cluster_actions` | eight menus of operations that meet: the window's editor, the terminal's, merges, deletion, undo, drain with cordon, triggers; two tasks, two typed changes, one change by others, one failed request | `NoBlindOverwrite`, `EditsOnlyWhatChanged`, `CleanMeansSaved`, `UndoRestores`, `DrainEvictsAll`: a drain without a failed eviction leaves only daemons and terminating pods |
| `terminal` | ten sittings (tables, their order, logs of a pod and of a workload, commands, contexts, dialogs, lists, shells, owners of kinds that are not known) and what rows of six kinds open, each with three to six keys out of those that concern it, and up to three events | `SelectionKept`, `PausedStaysPut`, `WatchedIsShown` and `MemoryAgrees`, but for commands that were dropped on the way to an unknown kind and not made up for since, `PingsAreUnderWay`: a context that is waited for has a ping, `EscGoesHome` |
| `cluster_reads` | five pods (a sidecar, init containers, a resize, pod-level resources, a job) through their lives; every question against a world of two or three objects with three to five changes and one failing request; a log of a few lines | `LoadCoversUse`: what `describe node` counts for a pod is no less than what its containers hold, and exact once it runs; `FaultsAreShown`; `AnswersHoldTogether`: each kind of answer fits the moment it is about, or says that it failed; a log is sent whole and in order |

**Bounds.**  Two files are enough for every question of precedence, and two names for every edit
that confuses one entry with another (a file of the instances holds up to three entries, two of one
name).  One backup per file is the fewest that rotation can lose.  Two external writes are the fewest that put one on each side of a step of the command; the
third file operation of a command differs from the second in nothing the store looks at.  Two pods
and three changes allow a pod to appear, go and come back while another is reported in the same
batch; two errors allow a relist of a relist.  Three changes of a table allow one before the first
list, one during a fetch and one while the watch is down.  Two sessions and two streams of a tab are
the fewest where one replaces the other; the ids of a third could only repeat what the second's do.
Two keys in quick succession start two watches or connects that overlap, which is what every
property of `TuiApp` is about; three keys are beyond what TLC enumerates in minutes.  Three shells in
a row are one more than the flags can remember.  Two chunks of output allow one read and one unread
when the process ends, and two of input a second one behind a write that blocks.  Two tasks in `ClusterActions` are the fewest that can meet, and one
change by others between any two requests is what a stale check has to find; menus keep operations
apart that touch different objects.  The documents are three deep (`MaxDepth`), as deep as the paths kxs writes to.  The keys of a sitting of `Terminal` are those that can interfere
(a filter, a sort and rows; a ring of four lines on a screen of two; three contexts for two pings), and
every one of its sittings has the fewest presses that open, change and leave what it is about.  One
restart, a page of one pod, two pages of two rows and batches of two lines let `ClusterReads` reach
each limit and go past it.  Every bound is a CONSTANT, a field of a scene or a guard of the
model; nothing is cut off by a constraint.  Deadlock is not checked, because every model stops
when its bounds are used up.

**Fairness.**  `KubeStore`: the watcher's thread runs and a command that started gets on.
`PodWatch` and `TableWatch`: tokio polls a task whose future is ready, timers fire, kube's watcher
retries; nothing forces the cluster to change or to fail, nor a
fetch to fail for ever.  `tokio::select!` picks one of its ready branches at random, so a branch that is
ready again and again is taken: strong fairness of `Due`, `TakeItem` and `Stops`.  `SessionRegistry`: every command
under way is polled to its end and a stopped stream ends; nobody has to open, close or ask.
`TuiApp`: the loop takes messages and tasks run; the user need not press a key.  `EventPump`:
threads are scheduled; a shell or an editor may last for ever.  `ExecSession`: both tasks run; the
process need not write, end, or take its input, so a write to it may block for ever.
`ClusterActions`, `Terminal` and `ClusterReads` are about safety and state no fairness.

## 4. The proofs

`KubeStore_proofs` holds for any set of paths, load order, names, contents an external program may
write, number of commands, failures and backups kept (`KubeStoreAssumption`):

- `TypeCorrect`: `Spec => []TypeOK`;
- `BuildsOnLatest`: `Spec => []EditsBuildOnLatest`;
- `BacksUpWhatItOverwrites`: `Spec => []OverwrittenIsBackedUp`;
- `AddsNoDuplicate`: `Spec => []NoDuplicateAdded`;
- `EditsAreLocal`: `Spec => []EditIsLocal`;
- `KeepsLastGood`: `Spec => LastGoodKept`, of every step;
- `MergeAgrees`: `Spec => []MergedViewAgrees`;
- `MemoryInvariant` and `MemoryIsSynced`: `Spec => []MemoryInv` and `Spec => []MemoryMatchesDisk`, if the
  paths are distinct (`DistinctPaths`);
- `ExtrasSurvive`: `Spec => []ExtrasPreservedWhenSynced`, if the paths are distinct;
- `SavesWork`: `Spec => SavesAreWhole`, if the paths are distinct and the forms name no file that is not
  loaded (`OnceLoaded`).

`EditsBuildOnLatest` speaks of the step before a rename, so it is not inductive: the invariant says
at every phase of a call what is known by then: which file it is about, that its base is what the
reread found unless somebody wrote since, that the newest backup holds the bytes the backup step
read, and that the checks of the edit hold for the base, not only for memory.  The history
`raced` of the model says whether an external write fell after the fresh read or the backup.

`EditIsLocal` follows for any base once the operators of `KubeConfig` are known: `set` replaces the
last entry of a name and leaves the places of the others, `del` keeps the others in their order.  The
choice of a last entry needs a list whose positions are finitely many, so `IsConfig` says that.

`MergedViewAgrees` compares a loop with a lookup.  The merge is a loop over files and over the entries of
one, which the model writes as recursive functions; what they have merged after each turn (`PlacedUpto`,
`MergedUpto`) is proved by the least turn at which it would fail, since a theorem of induction cannot be
instantiated here.

`MemoryMatchesDisk` looks at moments when the mutex is free.  Its invariant (`MemoryInv`) says of every
moment that each file has one place in memory, and that without another writer all of them show the
disk but those in `missed` and, between rename and reread, the one a call is writing.  `missed` grows in
three places only: when the program starts and cannot read a file (`load_tolerant`), when `mutate` cannot
read back what it renamed (`store.rs:177`, after which the command fails and memory is behind the file),
and when a file read back does not parse; a reload that can read the file ends it.  `DistinctPaths` is
stated by the theorems that need it: `paths.rs:9` splits `KUBECONFIG` without removing duplicates, and
with one the reread refreshes the first place of the file and leaves the second until the watcher
reloads.

`SavesAreWhole` is about two to five writes that each decide on memory anew.  `SaveInv` says of a save
under way that the calls left are in their order (`InTheirOrder`), that what each needs is known or comes
with a call before it (`RefsComing`, `ContextComing`), and that file and edit are those of the call that
runs (`OfItsCall`, `FromMemory`).  `Unnamed` is what remains of a spec that names too little: without a
cluster it fails before the first write, without a user it may fail behind one.  The property speaks of
the time until another program writes or a file is missed (`Undisturbed`): another writer can take
away what the checks found, and memory that was not read back is not what the checks should look at.

`PodWatch_proofs` holds for any pods, changes, errors and relists (`PodWatchAssumption`):

- `WatchTypeCorrect`: `Spec => []TypeOK`;
- `WatchInvariant`: `Spec => []Inv`;
- `ReportedIsNotLost`: `Spec => []NothingLost`;
- `WatchFeedsTable`: `Spec => Feed!Safe`, the safety half of the refinement of `PodFeed`: every step of
  watcher, driver, channel and table shows each pod as it was at one moment, and none is older than the
  one before.

`NothingLost` says what all that is under way will come to, and a step that sends, batches or
drops something changes that sum in several places.  The invariant takes it apart: each event in
flight shows a pod as it was at a moment the table has not passed (`InFlightTruthful`), those moments
never go back on the way (`InOrder`), the batch is later than all of them (`BatchTruthful`), the
buffer of a relist is what was listed while the batch is empty (`ListTruthful`), and every change the
live watcher reported can still reach the table (`AllReach`).  `NothingLost` and the refinement are then
two readings of it: the last of a row of moments that never go back is the latest.

`TuiApp_proofs` holds for any sittings: contexts, namespaces, keys, shells and events
(`TuiAppAssumption`, which only keeps `None` apart from what it stands next to):

- `AppInvariant`: `Spec => []Inv`;
- `AppTypeCorrect`: `Spec => []TypeOK`;
- `AppWatchesAreOwned`: `Spec => []WatchesAreOwned`.

An update is a chain of operators on a world (`StopHandle`, `StartWatch`, `SwitchNs`, ...), and the
invariant is one on worlds, so that each operator has its lemma and an action is proved by those it
is made of.  `Sound` holds at every point of an update: views are numbered as they are made
(`Numbered`), a `Started` tells the view of its watch and the `Started`s are queued in the order of their
watches (`Told`), and a view's handle is older than any still to be reported to it (`Held`).  Without
the order a `Started` could replace the handle of a newer watch, which would then be stopped by nobody
(`Owned`).  `Kept`, that the newest watch of a view runs in the namespace the view watches, is broken
within an update and restored at its end.

`Shell_proofs`, of `EventPump`, holds for any number of shells and editors:

- `TerminalHasOneReader`: `PumpSpec => []OneReader`;
- `PumpTypeCorrect`: `PumpSpec => []PumpTypeOK`, from the invariant `Handshake`.

The invariant is that `parked` is set exactly while the pump is in the stretch of its code in which
it waits, so that a value left over from the last shell is still right; the pump is paused unless
the loop is in charge; and only the current shell's stdin thread is alive.  All of it holds until a
bounded wait gave up on its thread (`late`).

`Shell_proofs`, of `ExecSession`, holds for any amount of output and input:

- `SessionTypeCorrect`: `Spec => []TypeOK`;
- `EofCloseComplete`: `Spec => []EndIsComplete`.

What it needs besides is that the pump tells the end only when nothing it read is undelivered, and
that this stays so while the control loop waits for the status.

`TableWatch_proofs` holds for any number of changes, fetches and failures:

- `DriverTypeCorrect`: `Spec => []TypeOK`;
- `NoChangeForgotten`: `Spec => []CaughtUp`;
- `NeverGoesBack`: `Spec => Abstract!Safe`, the safety half of the refinement of `Mirror`: every step of
  the driver shows a state the cluster was in, none older than the one before, or shows nothing.

`CaughtUp` looks at moments when nothing is under way, so it says nothing of the steps before.  The
invariant does: `NothingMissed`, that whatever the watch has reported is either in the table (or in the
answer that is about to be) or there is an item, a deadline or a fetch to come; `FirstListTold`, that
the flag of the first relist falls only with a list the watcher finished, since the driver does not fetch
for that one; and `Onward`, that an answer is no older than the table it replaces, which holds because
fetches do not overlap.

`SessionRegistry_proofs` holds for any number of tabs, sessions, streams and reloads:

- `OnlyOwnStreamsStop`: `Spec => []NeverStoppedForAnother`;
- `StreamsBelong`: `Spec => []StreamsUseTheirSession`;
- `EntriesGo`: `Spec => []NoEntryLeftBehind`.

One invariant carries all three: what a session's maps hold is started, of the tab, of that session and
of the kind of the map, under the id the stream itself was given and below the counter (`Holds`), and no
two log or table streams have the same id (`Ids`).  A prune or a stop that comes late then finds its
own entry or none, whatever session the tab has by now.  Ids of execs and port-forwards are counted per
session, so the same does not hold of them; `NeverStoppedForAnother` leaves them out.

`ClusterActions_proofs` holds for any pods, daemons, menus and numbers of tasks, typed changes, changes by
others and failures, and any bound on the depth of documents (`ClusterActionsAssumption`,
`MergePatchAssumption`):

- `ActionsTypeCorrect`: `Spec => []TypeOK`;
- `SeenBeforeOverwritten`: `Spec => []NoBlindOverwrite`;
- `CleanIsSaved`: `Spec => []CleanMeansSaved`;
- `DrainsEvictAll`: `Spec => []DrainEvictsAll`;
- `UndoIsWhole`: `Spec => UndoRestores`, of every step;
- `EditsChangeOnly`: `MaxDepth >= 3` implies `Spec => EditsOnlyWhatChanged`, of every step.

An edit that is compared and not yet sent is what `ComparedIsThere` is about: either its comparison still
holds of the object that is there or a write has put its editor into `raced`, and what a step of one
editor does to the object (`ObjectMoves`) keeps that for all others.  `SavedIsRead` says more than
`CleanMeansSaved`: also of a request that found nothing to send, since its answer makes the draft count as
saved.  It rests on one fact about the diff, that a document against itself has an empty patch
(`SameIsVacuous`).  `EvictsAll` carries a drain from its cordon to its end: while nobody uncordons, no pod
but a daemon's comes to the node, and those that run there and do not terminate are still to be evicted
or have failed.

`UndoRestores` relates what a rollback sends to an object read two requests earlier.  The invariant
`CopiesOK` says that the server numbers its objects upwards and that a copy with the version of the
object that is there is that object; a replace that is accepted therefore replaces what was read.  The
rest is what setting a value at a path does to the values at others (`ValueAtIs`, `SetAtIs`), proved for
paths of up to three keys by writing down the function that each recursive definition stands for.

`EditsOnlyWhatChanged` says what a patch does to an object that is not the one it was computed from.  The
functions that `Diff` and `Patched` are made of are defined by recursion over the levels of documents, and
choosing one is sound only if there is one: `DiffFunction` and `PatchedFunction` show it from the
well-foundedness of the levels, every argument of the recursion lying one level below (`PairsInside`,
`AppliedInside`).  `DiffIs` and `PatchedIs` then unfold one level.  That is enough for what an edit is
about, whose paths have three keys: `DiffOfDocs` says what the patch holds at each of them, `PatchedDoc`
what the server makes of it.  The invariant `DocsOK` says that every document an editor reads, holds or
sends, whatever others wrote, has the shape of a deployment: objects down to `spec.template`, and no
objects at the leaves.  The hypothesis asks that the bound lie no higher than those leaves.  `merge_patch_diff`
itself has no bound (`edit.rs` recurses to the end of the document), so every `MaxDepth` that can tell
the paths apart models it.  The run has `MaxDepth = 3`.

`Terminal_proofs` holds for any sittings: keys, kinds, contexts, rows, answers, and any numbers of
favourites, history and pings (`TerminalAssumption`, which says of which shape keys, answers and what is
remembered at the start are, and that no context is called `None`):

- `GoodAlways`: `Spec => []GoodInv`;
- `PingsStayUnderWay`: `Spec => []PingsAreUnderWay`;
- `MemoryStaysAgreed`: `Spec => []MemoryAgrees`;
- `WatchedStaysShown`: `Spec => []WatchedIsShown`;
- `EscLeadsHome`: `Spec => []EscGoesHome`, of the same invariant and `DialogsAssumption` (no dialog is
  called `None`);
- `SelectionStaysKept`: `Spec => SelectionKept`, the action property, of the same invariant and of `KeysLeft` (the keys
  that are left are a natural number, so the step of a key is never one on which `keys` stays).

A step of `Terminal` is a message and all it leads to: an update that changes the state and returns
commands, which are executed one after the other and may lead to others.  So the invariant is one on a
state and a list of commands of which the first k are executed (`Sound`).  Every table on the stack has the
watch it shows, or the last command for it that is still to be executed is that watch (`Watched`); what a list of
contexts waits for is pinged, or a ping is to come (`Pinging`); the file agrees with memory, or a write is to
come (`Saves`); tables are in the namespace of the session (`Current`), unless a connect is about to replace
them.  Within an operation some of that is owed for a while: `set_namespace` changes the session before the
views follow and the file is written, and an answer to a ping is taken from the tasks before the views hear
of it; `owed` says what.  Each operator of the model has a lemma for what it leaves behind (`Leaves`), each
view one for what it makes of a message (`Goes`), and each command one for its effect (`Effects`).  Between messages
nothing is owed and nothing left to execute (`Good`), and `GoodInv` holds on every state of the run `terminal`.
The folds by which views are told and commands executed are recursive functions; they are proved to be a
trail of single stages (`FoldTrail`), by the least stage at which they would not be.

`EscLeadsHome` is about one key in any state of the invariant.  `EscIs` finds who gets it: the first open dialog,
the cascade of the app, or the theme picker, which is the only view that gets it and closes itself.  What
`Depth` counts are sets of open dialogs and filtered views and the length of the stack, so an esc leads
nearer when none of them grows (`Below`) and one is not the same (`DepthFalls`): a dialog less, a
filter less (`ViewCleared`), or a view less (`PopBelow`), and if there was nothing to lose the depth is
one (`HomeIs`).  For that the invariant says that views without a filter of their own are unfiltered and that the
stack is not empty.

`SelectionStaysKept` compares the tables before and after a whole step, so it is not enough that every operation keeps the
selection: a row could leave in one of them and be back, unselected, in the next.  `Heard` says
that a message, whether it goes to one view or to all, changes each view at most once; `Fate`, that each table that stays has
its selection or no longer shows the row that was selected.  `fix_selection` sees to that for rows, metrics
and filters (`FixSelects`), and a change of the namespace leaves no row to show (`FollowSelects`, by `PassTrail`
for the fold of the filter and `NoneSorted` for the sorts).  An answer that replaces the whole stack makes views with new
numbers (`Begun`), so none of them is a table that was there before; the commands that follow only take views off
the stack (`Trims`), so what became of the tables is decided before they are executed (`FateRun`).

`MemoryAgrees` and `WatchedIsShown` have an exception, since the code has one: `open_kind_filtered` (`app.rs:1492`)
switches the namespace first and drops the commands of that switch when the kind turns out to be unknown, although
`set_namespace` says that it restarts every watch right away and saves (`app.rs:1924` tests it).  The history
`dropped` of the model holds those commands until they are made up for: a save by the next write of the
configuration, the start of a watch by the next start for the same table.  The properties hold of everything
that is not in it, and nothing else is assumed of the kinds.  In the run an owner of an unknown kind in another
namespace leads to both exceptions, and later saves and watches lead out of them; without the exception TLC finds
each property violated in four steps.

Only model-checked, and why:

- every liveness property, and with them the liveness half of the two refinements: this prover does
  not do liveness under fairness;
- what `Diff` and `Patched` make of documents of any shape, which needs induction over documents: the
  theorem above is about those of a deployment;
- of `Terminal`, `PausedStaysPut`: it compares the lines that a filter and the limit of the buffer leave before and
  after a step, which needs an account of folds over both;
- `ClusterReads`: its properties compare a computation of the code with one of the cluster, each a fold or a
  choice over a list;
- `ExitIsReported` and `LeftEnds`, and the type invariant of `SessionRegistry`, whose fields the proofs
  there type only as far as they need them.

## 5. Where the code and its words disagree

Two runs end in a violation; the findings in `PROJECT.json` quote the words.

`kubestore_checks`: spec.rs:71 says "no disk mutation may happen before all checks pass".  The checks do
not read the files: if one is malformed, a form with a new cluster for the other file and a new user for
this one writes the cluster and then fails.  Nor do they ask whether the spec names a cluster and a
user: the page always does, but a spec without a user is refused behind the write of its cluster.
`SavesAreWhole` says that nothing else ends a save half-way.

`tui_acts`: a connect makes its context active from its task, before the loop handles the message; until
then a key acts on a row of the old context in the new one.

What else the models showed.  Some are properties that are defined but that no run checks, since they
do not hold; others are behaviours the properties are stated around.

- *Kubeconfig.*  `rename_context` rewrites the current-context of the file that holds the context only;
  store.rs:396 says the fields of other files are ignored already, but one of them can be the merged
  current-context, which then names nothing.  Unknown fields of an edited entry are taken from memory
  over newer ones on disk.  A file that cannot be read back after its rename stays as it was in memory
  until the watcher reloads, although the command wrote it.  A change between the first load and the
  registration of the watch is in no event.
- *Watches.*  After an error without a relist a pods table says for ever that it is reconnecting
  (`PodWatch!StatusRecovers`).  A change between the first fetch of a table and its first list waits for
  the resync.
- *Window.*  A log or table view destroyed while it awaits the id of its stream leaves the stream running
  until the tab closes (`SessionRegistry!LeftViewsEnd`).  Ids of execs and forwards repeat across sessions.
- *Terminal app.*  A second shell whose containers arrive while the first is open reaches `unreachable!`
  in the loop that drains the queue (`TuiApp!NeverUnreachable`).  Rows of a stopped watch that are in
  the queue show under the next namespace (`RowsOfNamespace`).  The first connect to succeed takes the
  follow-up of another (`FollowUpInItsContext`).  Enter on a revision asks to undo even with `--readonly`.
  Jumping to an owner of an unknown kind drops the commands of `set_namespace`, so that what is remembered
  is not saved and the table below waits for a watch that was not started (`dropped`, section 4).  ctrl-r in the
  list of contexts clears what is waited for while the pings of before go on, so that more than
  `MAX_PINGS_IN_FLIGHT` can be under way; `PingsAreUnderWay` bounds nothing.  "0" (all namespaces) is
  remembered as no namespace, so a later connect goes to the kubeconfig's.  A `tui.toml` that does not
  parse loads as defaults, which the next save writes over it.  A theme previewed stays when a command
  leaves the picker.  `c` on a paused log leaves the distance from the end as it was, so the screen stays
  blank until scrolled.  A search in a pager before its text is there never matches.
- *Editing.*  A write between the comparison and the patch is overwritten (`NoBlindOverwrite` excludes
  it), and what is typed during a request is replaced by its answer (`CleanMeansSaved` excludes it).
- *Draining.*  `drain_node` does not wait: it reports the pods it evicted while they are still shutting
  down on the node (`DrainEvictsAll` asks for no more).
- *Reading.*  A pod with a running sidecar has the status `Init:n/m` and is listed among the faults; one
  whose sidecar has just ended with code 0 is not, though it is about to be restarted.  A completed pod
  is listed, because nothing of it is ready.  After a failed page of pods a description shows what it has
  without saying so, and a failed list of replica sets shows none.  `list_table` stops after ten pages.
  A service edited between the two reads of `resolve_service_endpoint` can pair one port with the
  target of another.  An autoscaler's metrics are paired with the measured ones by place and type, so
  between an edit of two metrics of one type and its controller's next round each shows the other's
  (`HpaHolds` says so).  Events are asked for by kind and name, so those of a deleted object of the same
  name are listed too.  A secret made between the two lists of a service account can be listed as a
  token and as not found.  Pod tables and metrics round quantities to the nearest unit, `describe node` up.

Two limits of `exec.rs` are in the model as they are in the code, and its properties are stated
around them: an exit status that overtakes the last output closes the session before the pump has
sent that output, and a write to a stdin the process does not read keeps the loop from its stop
handle (`EndsClean` excludes it).

## 6. What is not modelled

Port-forwarding itself, the schema cache, discovery, the bridge to kube's configuration, path
splitting, rendering and themes: requests, copies and layout that decide nothing that depends on order.
Of the descriptions, the kinds and sections that only lay fields out as text.  Within the modelled parts: which paths
the watcher finds relevant and the length of the debounce, certificate and exec fields of an entry, the
text of errors and flashes, the parsing of commands and filters (a command is what it parses to), the
completions of the prompt, page keys and mouse, the order of columns, messages that quit the app, the
format of its configuration (a write of it succeeds at once), the window's tabs and remembered views, the
selection and filters of the window's tables, and overflow of quantities, which the code counts in 128
bits.  The clock of the backups only moves forward, and the paths of `KUBECONFIG` are distinct.

## 7. What is left

1. Proofs for the parts that are only model-checked (section 4): `ClusterReads`, the order of `Terminal`'s tables, its paused logs.
2. `WindowStores` (tabs, view stacks, refreshes out of order, `startWatch` of `ClusterTab`).
3. A clock of the backups that jumps, and the atomic write of `tui.toml` against a second instance.
4. Discovery and the parsing of commands as pure functions.
