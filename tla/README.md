# A model of the System Informer chart plugin

The program is a plugin DLL of System Informer (C++, `src/windows/runner`) that
opens a window with a Flutter page in it (Dart, `src/lib`). The page asks the
host, over a platform channel, for the processes and the system statistics, and
draws the processes as a treemap; it can draw a saved CSV instead.

This directory holds TLA+ modules for its core logic, what TLC checks of them,
and proofs for TLAPS.

## The system

| Part | State | Operations | Hard because |
|---|---|---|---|
| Chart window: `dllmain.cpp`, `win32_window.cpp`, `flutter_window.cpp` | thread handle, window handle, event, window count, class flag: plain globals | `startFlutterWindow` on the host's UI thread, `flutterWindowThread` on a thread per window | two threads of different windows and the UI thread share the globals without a lock; the UI thread waits without a timeout |
| Host API: `api.cpp`, `messages.g.*` | one statistics buffer, references to process items, bitmaps | nine calls from Dart, answered in order | errors; addresses and handles leave the host as plain integers |
| Processes provider: `provider/processes.dart`, `main.dart` | what the page shows and the tool bar's choices | refreshes suspended at awaits, CSV, setters | refreshes overlap and assign a state they captured earlier |
| Process tree: `proc_tree.dart`, `treemap.dart` | nodes, children, parents, sizes | one pass over the list, depth, idle switch, sum, self tiles | the list has any order; parents may be gone, come later, or form a cycle |
| CSV import: `csv.dart`, `proc_items.dart` | a stack of PIDs | one row at a time | parents exist only as indentation |
| Icons: `icon.dart`, `settings_ui.dart`, `api.cpp` | caches, the dialog's picture, GDI handles | fetch and decode | test before an await; early returns that free nothing; handles run out |
| Settings: `api.cpp`, `utils.cpp`, `dllmain.cpp` | the host's settings | get, add | conversions of strings, a status that is overwritten |
| Logger: `logger.dart`, `main.dart` | late globals | `loggerInit` before `runApp` | three awaits, a failure in between |
| Visibility: `provider/treemap.dart` | disabled PIDs | toggle | self tiles |
| Sizes as text, generated code, headers | - | - | see `PROJECT.json` for why they are left out |

The parts meet as follows. A click in the host starts a window thread; its
window creates the Flutter engine and registers the host API with it. The page's
`initState` calls `update()`, which sends a request over the channel; the host's
handler answers it on the platform thread; the isolate resumes the call and
assigns the provider's state, which makes the `Treemap` widget build a new
`ProcTree`.

What makes each part correct:

- the window: one at a time, no thread touches what belongs to the next one, no
  handle leaks, every click comes back;
- the provider: a refresh leaves nothing older than the click, keeps the rest of
  the state consistent, ends; what the user set stays;
- the tree: every process once, under its parent whatever the order of the list,
  and sizes that add up; a build ends;
- CSV: the forest that the indentation draws;
- icons and process items: nothing is freed on its way to the isolate, a cache
  holds the icon it is asked for and is used, what is lost is lost by a failure;
- settings: the declared ones are found, and read as they were written;
- the page: nothing runs before the logger is there.

## The modules

### ChartWindow, OneChart

`ChartWindow` has one action per access to shared memory. The UI thread's
program counter is `uiPc`; each element of `Threads` is one run of
`flutterWindowThread` with its program counter `pc`, and `uiThread` is the local
result of `PhCreateThreadEx`, which writes the global handle only after the
thread has started (`CreateThread`, `StoreHandle`). `++` and `--` on
`g_active_window_count` are a load and a store, each; C++ gives this race no
meaning, and a lost update is what the build produces. `Win32Window::Destroy` is
called from four places: `ret` is where it returns. `Failures` selects what may
fail in a run: `PhCreateThreadEx`, `CreateWindow`, the Flutter controller, and
`GetMessage`.

Assumed of Windows: a class cannot be unregistered while a window of it exists;
`RegisterClass` of a registered class changes nothing; closing a window that
still exists runs its `WM_DESTROY` before `DestroyWindow` returns. Merged: the
user closes a window only after its first frame; the messages that only move,
paint or theme the window do nothing.

`OneChart` is what the plugin promises: sessions one after another, and only the
session that owns the slot opens a window. `Abstract` in `ChartWindow` is the
refinement mapping: the owner is the thread whose handle is, or is about to be,
in the global.

### Processes

The isolate runs one event at a time, so an action is everything from a reply to
the next await. A call is a record: its method, the await it is suspended at,
the state it captured (`self`), and what it holds. `update()` evaluates the
receiver of `state.copyWith` before its awaits: `UpdateGotStatistics` captures,
`Commit` assigns. The channel is a FIFO of requests and one of replies. The
processes of the host are a number, `clock`, that grows when they change. The
host writes its one buffer in two actions, because the isolate reads it through a
pointer: a read in between gives `TORN`. Every host call may fail if `HostFails`.

### CsvImport, ProcTree, Treemap

`CsvImport` reads a row per action, with one action for each sign of the change
of level. `ProcTree` runs the loop of `_buildTree` one entry per action
(`TopLevel`, `Child`, `Orphan`), then the loop of `_setDepth` one node per
action, then the idle switch, then the sums, a node per action (`Sum`: any order
in which children come before their parents, as d4's `eachAfter` is one), and the
self tiles. What has not been summed has the value `NULL`, as d4's nodes have. A
node is named by
its PID, which is the key of `treeNodeMap`; a placeholder is a PID in `known`
whose entry has not come. `ProcessIds` has the PIDs they share.
`Treemap` composes the two: `EXTENDS ProcTree`, and
`Csv` is an instance of `CsvImport`; a build starts from a host list or from the
rows read.

The nodes under the root (`Shown`) and the processes whose chain of parents leads
to a node (`Below`, `Rooted`) are least closed sets, and a total (`TotalSize`) is the
number of units in a set of sizes: neither needs an induction, which is what
makes them usable in proofs.

A node for the share of a process that its children do not take is not a PID of
its own: it is a member of `selfTiles`.

Assumed of System Informer: a CSV is its process tree in preorder with the idle
process at the top, each process once. A process called `Root`, which would get
the PID 0, is left out. Sorting and layout are left out: they move tiles.

### HostObjects, Settings, HostApi

`HostApi` is the other side of the channel: what the host keeps behind the
integers it hands out, and the page's callers that use them. A task is a refresh
(`Loads`), an icon a tile watches (`Keys`: index and size), an entry in the
settings dialog (`1..Entries`) or one use of a setting (`Clients`). The host
answers one request at a time (`HostStep`), the isolate resumes one reply at a
time (`IsolateStep`). `main()` is modelled from the start of the isolate to
`runApp` (`Open`, `FindPackageConfig`, `OpenLogFile`). Once the page runs (the
window is shown with the first frame, `flutter_window.cpp:40`), `Close` ends the
isolate between any two of its steps, with its requests, replies and caches, while
bitmaps, icons and references stay in the host. A page whose start has failed is
not closed. Closing the settings dialog, which disposes of the picture's
state while fetches for it may be under way, is not modelled: entries go on in
one dialog until the window closes.

- `EnumProcessItems` counts a reference per item (`refs`), which nobody gives
  back; `FromRaw` reads through the addresses. An answer also carries what was at
  each address when it was sent, for the properties alone.
- `GetImageListIcon` and its failures follow the GDI handles: colour and mask
  take two, the bitmap one. With fewer than two `GetIconInfo` fails and the
  early return loses the `HICON` (`icons`). With exactly two `PhIconToBitmap`
  fails, which `api.cpp:147` does not test: the answer is the handle 0, no error,
  and `icon.dart` goes on with uninitialised memory (`ReadNoBitmap`: a garbled
  picture, or an exception, nondeterministically). If `HostFails`, either fails
  with any number of handles left, too, as for lack of memory.
- `unmade` is a history variable: the icons, by session, for which
  `PhIconToBitmap` failed. No action reads it; `CacheTells` does, to say that a
  garbled picture in a cache has that cause and no other.
- One icon may be fetched twice at the same time, by a tile and by the dialog:
  both find the cache empty. The model has this, and each of the two writes the
  cache; a good picture can so be followed by a garbled one. `NeverFetchedAgain`
  is about fetches that begin after one has ended.
- `Settings` has the table of the host. A key is a counted string, so `Key` and
  `AddedKey` carry the length each conversion gives; `toStdString` compares the
  buffer's bytes with those of the text, whose two lengths are all that is kept.

`HostObjects` is the promise: while an address is on its way to a reader, what
is behind it is not freed. `Abstract` in `HostApi` maps the messages under way
to its `sent`; `memory` is the same in both.

Assumed of the host: `PhGetStringSetting` throws for a setting that does not
exist and keys are equal only if their lengths are; the allocator takes a
certain place of each set of free ones (`Place`), which makes every reuse there
can be happen with fewer states; a process that exits frees its item with the
last reference.

## The runs

| Run | Instance | Shows |
|---|---|---|
| `chart_window_safety` | 3 threads, all failures | `OwnHandle`, `SignalOfLoop`, `LiveHandle`, `LeakOnlyWhenHung`, `ClassFlagHonest` |
| `chart_window_sessions` | 2 threads, failures of creation, fair | `OneWindow`, `ImplementsOneChart`, `ClickReturns` |
| `chart_window_click` | 2 threads, no failure | a click can open nothing |
| `chart_window_report` | 2 threads, `CreateWindow` fails | the UI thread of the host hangs |
| `chart_window_count` | 2 threads, no failure | the window count can become wrong |
| `processes_page` | 3 refreshes, 1 CSV, 1 switch, errors | `RootTileSafe`, `CsvTile`, `AloneReadsWhole` |
| `processes_api` | 2 calls of any method, 1 CSV, errors, fair | `NotOlderThanClick`, `CallEnds`, `SpinnerEnds` |
| `processes_three` | 3 refreshes | an older snapshot can replace a newer one |
| `processes_choice` | 2 refreshes, 1 switch | a refresh undoes a choice |
| `treemap_tree` | idle process and 3 others in any order with any parents; CSVs of up to 4 rows | `OnePlace`, `PlaceholdersFilled`, `TreeOfParents`, `TilesShowAll`, `TilesFillTheirParent`, `ParentIsIndentation`, `CsvForest`, `BuildProgresses`, `BuildEnds` |
| `treemap_idle` | CSVs of 2 rows | a CSV's idle process is never shown |
| `host_api` | two sessions of the page; in a behaviour either 2 refreshes and 2 processes, or 2 icons, 2 entries in the dialog and 4 GDI handles, or 1 use of a setting and 1 edit; failures; fair | `ImplementsHostObjects`, `LoggerReady`, `CacheTells`, `NeverFetchedAgain`, `GoesBackOnlyPastAHit`, `IconLostOnlyByFailure`, `SettingsRead`, `TaskEnds` |

The runs that expect a violation are the findings in `PROJECT.json`: each
quotes what the repository says.

**Bounds.** `Threads` is the number of windows ever opened. A thread meets
the rest of the one before it and the start of the one after it, so three give
every overlap there is; two are enough where the overlap of neighbours is the
question. `Calls` is the number of refreshes in a behaviour; two overlap in
every way, and three are what it takes for one of them to find the basic
information present while two others are in flight. `MaxClock` is the number of
changes of the host's processes: one for each call that could see a new one.
Three processes and the idle process give chains of three, cycles of two and
three, a self-contained cycle beside a rooted process, and every order of child
and parent. Four rows give a drop of two levels, the smallest that pops twice.
`Size` maps processes to powers of two, so that no two sets have the same sum.
Two sessions (`MaxSessions`) are what it takes for something to outlive one.
Refreshes, icons and settings share no state but the channel, so `Mixes` lets a
behaviour have one kind of caller; the proofs below take any mix. Of four GDI
handles two fetches leave two, so `PhIconToBitmap` fails for want of handles as
well as, with `HostFails`, at four and at three of them. Two
entries (`Entries`) are the fewest that can overtake each other. The texts are
empty, ASCII, and one with letters of three bytes.

**Deadlock** is not checked where a system may stop: no more clicks, no more
threads, or a UI thread that hangs (which `ClickReturns` is about).

**Fairness.** Windows schedules the UI thread and the window threads: weak
fairness on `UiStep` and on each `ThreadStep`. Nothing makes the user click or
close a window, nothing makes a failure occur: none on `Click` and
`MessageStep`. Both event loops, the isolate's and the host's, run: weak
fairness on `IsolateStep` and `HostStep`; none on the user, on `Tick`, or on
anything else the page or the host's own windows do. A build
runs to its end: weak fairness on `BuildStep`.

**Mutants.** Each property of a passing run has a slip in the code that breaks
it: the definitions in the sections "Slips in the code", which no specification
uses.

## The proofs

`ChartWindowProofs` proves, for any set of threads and any failures:

- `Typing`: `TypeOK`;
- `OwnHandleSafe`, `SignalSafe`, `LiveHandleSafe`, `LeakSafe`, `FlagSafe`: the
  safety invariants of `chart_window_safety`;
- `OneWindowSafe`: never two windows, unless `GetMessage` may fail;
- `Refinement`: `ChartWindow` implements `OneChart`, unless `GetMessage` may
  fail. A loop that `GetMessage` ends leaves its window open while it gives the
  slot up, so without that assumption the claim is false.

They rest on `Inductive`, the invariant `IInv`. None of these invariants is
inductive by itself, because what keeps the threads apart is no lock but the
place at which each of them may be. `IInv` is four things:

- `Slot`, the argument proper. A thread that has not set the event has the UI
  thread waiting for it (`StartingIsAwaited`); a thread that has not cleared the
  handle owns the slot, by the global handle or by the UI thread that is about to
  store it (`OwnersOwn`), and so there is at most one; a thread that failed is
  waited for in vain and keeps the slot for good (`FailedIsAwaited`); and the
  place of the UI thread tells what the handle and the event hold (`HandleByUi`).
- `OpenOnlyHere`: where a thread may have a window.
- `LeakedIsAwaited`: a handle that its thread did not close is the one with
  which the UI thread waits.
- `FlagHonest`: the class flag is wrong only while a thread is about to clear it,
  is about to miss the class, or has missed it. It needs no arithmetic: it holds
  whatever lost updates have made of the count.

The proof has a lemma per conjunct and a step per action. The assumptions are
`NullAssumption` and `FailuresAssumption` of `ChartWindow`, which TLC evaluates
on every run.

`ProcessesProofs` proves, for any number of calls, files and moments:

- `TypeCorrect`: `TypeOK`, with the channel's discipline;
- `AloneIsWhole` and `NoOlder`: `AloneReadsWhole` and `NotOlderThanClick`;
- `RootTileIsSafe` and `CsvTileTells`: `RootTileSafe` and `CsvTile`, if the only
  method called is `update()`, as in `processes_page`; the program calls no
  other, and with the other two both claims are false.

`TypeOK` is not inductive: that a call waits for one message is kept only if no
message is of a call that does not wait, and no two are of one. `IInv` says so
(`Channel`, `Awaited`), and says what a call waits for by its method
(`Methods`) and that the host writes the buffer for the request at the head
(`WritesForHead`). `Fresh` is the argument about time: whatever a call holds, and
whatever is under way for it, was made after the call began, because the queue
is first in, first out and the buffer is filled anew for each call. The two
conditional theorems add the invariant of `TileInv`, on the states that
suspended calls have captured.

`HostApiProofs`, `HostPageProofs` and `HostCallsProofs` prove every safety
property of `host_api`, for any tasks, places, sessions, and any mix of callers:

- `Refines`, `AddressesHold`: `HostApi` implements `HostObjects`, and a reader
  finds the object the address was handed out for. `IInv` has the reason: an
  address under way has a reference (`Referenced`), a handle under way is of the
  bitmap asked for (`Drawn`, which also says what a handle 0 came from), and a page that does not run has nothing under way
  (`OnlyRunning`), which makes losing the isolate harmless.
- `CachesTell`, `FetchedOnce`, `GoesBackPastAHit`, `LoggerIsReady`: the page.
  `Page` has what these need together: what was fetched in this session is
  in the cache, which is empty without a page (`CacheKnown`), and the dialog's
  messages are in the order of its
  entries across both queues, behind the one that is shown (`InOrder`,
  `ShownInOrder`).
- `SettingsAreRead`: a separate invariant, `DeclaredOnly`. The key an
  added setting gets, of length 4(n+1), is not the key of length 2n under which
  its name is looked up, so that nothing added is ever found.
- `TypesHold`, `LostOnlyByFailure`: one message per waiting task
  (`OneMessage`), counted with cardinalities; and icons lost by session
  (`LostSoFar`).

`TreemapProofs` proves, for any processes, any order and any parents, and a file
of any length:

- `StackNeverEmpty`, `ParentsAreIndentation`: `CsvTypeOK` and
  `ParentIsIndentation`. The stack alone does not tell whose PIDs it holds;
  `Path` says that position l+1 is the owner of level l, the last row before
  that is less deep, and `Owned` that each row got its owner.
- `PlacesAreUnique`, `PlaceholdersAreFilled`: `OnePlace` and
  `PlaceholdersFilled`, the assertion after the loop of `_buildTree`. In the loop
  the children of all nodes are entries already read, each at one place
  (`ReadSoFar`, `OneEach`), and what is known lies between the entries read and
  the list, so that at the end both are the same.

`TreeProofs` proves, for the same instances and sizes of any kind:

- `TreeTyped`, `TreeIsOfParents`, `TilesSumAll`, `TilesFill`,
  `ForestIsIndentation`: `TypeOK`, `TreeOfParents`, `TilesShowAll`,
  `TilesFillTheirParent` and `CsvForest`.
- `BuildIsProgress`: `BuildProgresses`, the safety half of `BuildEnds`. `StepsLeft`
  is a number and goes down with every step, so that nothing in a list, a cycle of
  parents least of all, can make a build run on. It needs `MetOnce`: no node is
  on the stack of `_setDepth` twice, and nothing that belongs under a node on it
  has been met.
- `SumIsPossible`: while the root waits for its sum, some node waits for no child,
  so that the sums cannot block; every other stage has a step by its guards.

They rest on the invariant `Drawing`, which follows a build through its stages.
`AtHome`: a node's children are the processes that have their place and belong
under it. `Depths`: `_setDepth` has met only rooted processes, gave each its
home for a parent and the depth below it, and still has to go through whatever
of a met node's children it has not met; when the stack is empty, what it has met
gathers all that belongs under it, and so is everything rooted, cycles left
aside. `Sums`: the nodes summed so far hold their children; and of every set of
summed nodes that has with a node its children, those that are no children of
others in it (`Tops`) have together as many units as the processes of the set,
each once. It has to speak of all such sets for the sums of inner tiles: a drawn
node is the only top of what is below it, because what is below is deeper
(`BelowIsDeeper`). `Tiles` and `FromRows` say what the tiles are and that a CSV's
tree is made of its rows. Where an argument is an induction, it is one over
a least set (`BelowFacts`, `ShownFacts`: whatever closed set one exhibits has
all of it) or over numbers, by a least counterexample (`Least`). That the
recursive function in `Total` has a solution is a lemma (`PartialTotals`).

`SequenceFacts` has the facts about `Tail`, `Append` and the elements of a
sequence that the proofs about queues and stacks share.

All theorems rest on the named assumptions on constants of the modules they are
about, which TLC evaluates on every run of those modules.

Only model-checked: the liveness properties `ClickReturns`, `CallEnds`,
`SpinnerEnds`, `BuildEnds` and `TaskEnds`, because fairness is out of the
prover's reach. Of `BuildEnds`, that is all that is left: a step is always
possible, and each leaves less to do. Every invariant and every action property
that a passing run checks is a theorem.

## Not modelled

- **Visibility of processes** (`provider/treemap.dart`). One boolean per PID, set
  and read without an await; what it hides is drawn or not, and counted nowhere.
  A property would repeat `treemap.dart:391`. That the booleans outlive the
  processes is listed as a hazard.
- **Sorting and layout** (d4). They move tiles and change no size.
- **Sizes as text**: floating-point arithmetic, whose rounding integers cannot
  stand for.
- **`patchLaunchJson`** (`debug.dart`): debug builds, and a file that belongs to
  an editor.
- **Settings provider**: three fields with setters.
- **Statistics structures**: copied field by field. **Generated code**, the
  encoding of messages, the logger's output, console set-up, the standalone
  runner: no control of their own, or input and output.
- **The SDK's headers** (`src/sdk/include`). They are some 125000 of the 128000
  lines of C, C++ and Dart in the repository, and declare types, constants and
  functions of System Informer and Windows. They hold no logic of this program:
  a definition that claimed to model them would be one of nothing. What the
  plugin calls of them is modelled from its use, and so the lines mapped are few
  of the whole: some 1500, of which 1300 are among the 4000 lines that are
  written by hand. The rest of those build widgets, paint, copy fields and
  format.
