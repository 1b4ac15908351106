# Task Switcher for NVDA: TLA+ models, checks and proofs

This directory models the add-on in `src/`: the order of windows and how a
keystroke goes through it, the windows it hides, the entries and their file, how
it keeps its hook installed, and how its parts start and stop.
Each module is written from the code; the comments name the functions.
`PROJECT.json` maps definitions to source lines and lists the runs, the hazards
and the theorems.

To check a run: `tlc -config MCHwndCache_queries.cfg MCHwndCache`. To check the
proofs of a module: `tlapm HwndCacheProofs.tla`.

## 1. The system

The user presses a keystroke, and NVDA activates the next window of the
application that the keystroke is for. "Next" is by time of creation, which
Windows does not tell, so that the add-on records it.

| part | where | its state | its operations |
|---|---|---|---|
| CBT hook | `cbt_hook/cbt_hook` (a DLL in every process of its architecture) | hook handle and installer's process id in a shared segment | `CBTProc` posts a message for each created and destroyed window; `InstallCBTHook`, `UninstallCBTHook` |
| CBT client | `cbt_hook/cbt_client` (a process per architecture) | its window | finds the observer's window, installs the hook, waits to be told to quit |
| Observer | `cbt_hook/hwndObserver/dllmain.cpp` (a DLL in NVDA) | LevelDB `hwndCache`, `appNameCache`, window thread, invisible window, a watchdog per architecture with restart count and process id, terminate signal | `init`, `queryHwnds`, `updateTimestamps`, `healthCheck`, `terminate`, called from NVDA's main thread as JSON; `WindowProc` on the window thread; `cbtClientSpawnerThreadFunc` on each watchdog |
| Plug-in, switching | `addon/globalPlugins/taskSwitcher.py` (NVDA's main thread, a worker thread per activation) | the cycle (`lastEntry`, gesture and key counters), `hiddenWindows` | `script_taskSwitch`, `script_HideWindow`, `script_showWindows`, `activateWindowBetter` |
| Plug-in, entries | the same file, main thread, modal dialogs inside its loop | `globalConfig`, `globalGesturesToEntries`, the panel's deep copy, the JSON file | creating, editing and removing entries, `saveConfig`, `loadConfig`, `updateKeystrokes` and its generator |
| Plug-in, observer | the same file | `cbtState` | `initHwndObserver`, `queryObserver`, `destroyHwndObserver`, the dialog that reorders windows |

How they interact:

- hook to observer: `PostMessage` from any thread of any process, unordered with
  everything but itself, lost when the queue is full, when no hook is installed
  or when the window is gone;
- window thread and main thread: only through LevelDB, whose `Get`, `Put`,
  `Delete` and `Write` are atomic one by one;
- watchdog and main thread: the terminate signal, and two maps under
  `watchdogMtx`;
- observer and clients: process handles, and `FindWindow` by class name;
- sessions: the cache file, its writes not synced, and the file of entries;
- NVDA's keyboard hook and the main thread: keys are counted and scripts queued
  when a key goes down, in a thread of its own; the main thread runs the scripts
  when their turn comes;
- main thread and activation worker: an event that is waited for at most a
  second, after which the worker goes on alone;
- dialogs: they hold the object that `globalConfig` named when they opened, and
  a save puts another in its place.

What is hard in it:

- a query is a dozen steps (enumerate, answer, scan, delete, look up, write)
  that window messages overtake anywhere;
- handles are reused, messages are late or lost, LevelDB's reads, writes and
  iterators and `EnumWindows` may fail, and the clock that gives the timestamps
  is the wall clock, which may be set back;
- clients crash, hang, or come up after they have been given up, while
  `terminate` tries to end them;
- NVDA and the machine stop at any moment, and window handles mean nothing
  after a reboot;
- loading and unloading the plug-in orders two threads and the database, and
  each step of it can fail;
- a list of windows that is asked for anew at each press, with the titles and the
  visibility that the windows have then, is indexed with a count of presses; both
  move under the user's fingers;
- dialogs overlap, and each trusts what it saw when it opened;
- the file of entries is truncated before it is written, and a file that cannot be
  opened is taken for an empty one.

What makes each part correct:

| part | properties |
|---|---|
| window time cache | it behaves as one order of windows that only the user changes; windows sort by creation; a window at rest keeps its stamp; the user's order stays; an answer has only the application's windows; the cache does not drift from what is open |
| clients and watchdogs | one client, one hook per architecture; the hook comes back after a crash; processes are bounded; nothing survives or restarts after `terminate` |
| cache file | no timestamp of an earlier boot is used, none of this boot is lost |
| life cycle | the database is open whenever a thread uses it; `terminate` returns; a corrupt cache is purged |
| switching | a repeated press goes to another window; the high tone comes when every window has had its turn, not before; the main thread comes to rest |
| activation | a switch that was reported stays in force until somebody acts; only a worker that was given up can undo it |
| hidden windows | a hidden window is remembered until it is shown |
| entries | the file holds what the user asked for; names and keystrokes are unique; every keystroke leads to its entry; what installs the keystrokes at start ends |

## 2. Modules

    Desktop  <--  HwndCache  <--  MCHwndCache, HwndCacheProofs <-- HwndQueryProofs,
                      :                                            HwndOrderProofs
                  implements
                      v
                  WindowOrder
                      ^
                  its order
                      :
                  TaskSwitch <--  MCTaskSwitch, TaskSwitchProofs
    EntriesConfig            <--  MCEntriesConfig, EntriesConfigProofs
    CbtClients               <--  MCCbtClients, CbtClientsProofs
        : implements
        v
    HookService
    CacheSession             <--  MCCacheSession, CacheSessionProofs
    ObserverLifecycle        <--  MCObserverLifecycle, ObserverLifecycleProofs

The arrows with a line are EXTENDS, the dotted ones INSTANCE.

### Desktop: windows, the hook, the queue

The environment. `window[h]` follows the window a handle names from
`HCBT_CREATEWND` ("creating": the hook has fired, `EnumWindows` does not list it
yet) over "live" to `HCBT_DESTROYWND` ("destroying": the hook has fired, it is
still listed). `CBTProc` appends to `queue` or, with no hook or a full queue,
does nothing. `Vanish` is a window that goes without a message, as when its
process is killed. `SetHook` stands for all that CbtClients does in detail.
`Tick` and `SetClockBack` move the clock that `getTimestamp` reads, which is
`system_clock`. What came first is therefore told by the number of the event
(`born`, and `at` in a message, both history) and not by the clock. Only
`CBTProc` and what posts through it is code under `src/`; the life of windows is
Windows' own and is marked external in the map.

### HwndCache: the two threads on the cache

`HandleCreate` and `HandleDestroy` are `WindowProc`. The main thread's `pc` goes
through `QueryHwnds` (the filter and `data.timestamp`), `EnumWindows` (the list
of handles is taken), one `EnumWindowsCallback` per handle, `ScanCache` (the
iterator, a snapshot) and `DropUnlisted` (the first batch), one `LookUp` per
handle and `AddMissing` (the second batch), `Return`. `OpenReorderDialog`,
`OnMoveClick`, `CancelReorder` and `ReorderOk` are the dialog, `UpdateTimestamp`
one `Put` of `updateTimestamps`. History variables say who wrote an entry
(`stampedBy`; `hookBefore` is the hook before the clock was last set back), which
entries a running query does not decide, because a message did meanwhile or because
the query failed to read or write them (`undecided`), which windows were at rest
(`settled`: in place, no message waiting, an entry stored, no call running) and
which order the user confirmed (`chosen`). The code does not read them.

`MayFail` says which calls may fail. "write" is any `Put`, `Delete` or `Write`,
which is only logged. "read" is a `Get` that is neither ok nor `NotFound` (in
`EnumWindowsCallback` the answer then says `data.timestamp`, in `LookUp` the
handle is not added) and an iterator that ends early (`ScanCache`; its status is
not looked at). "enumerate" is an `EnumWindows` that lists only some windows, or
none; its result is not looked at either. "process" is a process that cannot be
opened or whose path cannot be read.

`Order` is the refinement mapping to WindowOrder: its windows are the settled
ones, their order is the one in which `queryHwnds` sorts (by stored timestamp,
then by handle), `reordering` is the loop of `updateTimestamps`, and an answer is
what a query returns of the settled windows whose entries it could read. A window
that `EnumWindows` fails to list loses its place, as if it had closed.
`OneOrder == Order!Spec` is a property of the runs `queries` and `converge` and a
theorem.

Abstractions: an executable is one value (path and file name together); the
query is the one the add-on makes (`onlyVisible` true, `requestTitle` false);
the timestamp is taken and stored in one step in `WindowProc`.

### WindowOrder: what the cache promises

Windows come and go, those that stay keep their order, an answer lists its
windows in that order, and only the user's reordering changes it. There are no
timestamps, messages or threads in it. HwndCache implements it; TaskSwitch, which
is about presses and not about queries, takes its windows in such an order.

### TaskSwitch: keystrokes, activation, hidden windows

`Press` is the keyboard hook's thread: it counts the key and queues its script.
`TaskSwitch` is `script_taskSwitch` up to the choice of a window (`Again` and
`NextCounter` are its counters, `queryEntry` its query), `TaskSwitchNone` the
branch that starts the application or raises; `CloseStartMenu` is
`maybeCloseStartMenu`; `WorkerActivates`, `WorkerReports` and `LateWorker` are
`_activate_window_impl` on its thread, `SwitchReturns` and `GiveUp` the two ends
of `done.wait(1.0)`. `HideWindow` and `ShowWindows` are the two scripts,
`ReloadPlugin` a reload that makes the class attribute anew. Between any two of
these the user and applications open, close, reorder and bring forward windows,
and applications change titles (`Retitle`) and hide and show windows of their own
(`AppHides`, `AppShows`).

`queryEntry` finds what the code finds at that press: the visible windows of
`matching[entry]`, in the observer's order. `matching` starts as the constant
`Match`, the windows of the entry's application and path; for an entry with a
title pattern (`Titled`) `Retitle` moves windows in and out of it, for the regular
expression is applied anew at each press. The windows are numbered in the order in
which they are listed at first, and at first every title fits; `Reorder` and
`Retitle` lead from there to every other order and to titles that do not fit.

History variables: the list the cycle began with (`owed`, emptied when a window
leaves the list, by closing, hiding or its title, when the user reorders, or when a
switch fails; windows may enter it anywhere), the windows picked since (`visited`),
when the last handled key went down (`pressedAt`), whether a switch has reported
success and nothing was done since (`landed`), the targets of workers given up
(`givenUp`), windows hidden by their application or at a reload (`forgotten`).

Abstractions: an entry is what it matches and its index; the filter by size,
`AttachThreadInput`, restoring and maximizing, speech and the focus event are left
out. When the start menu has closed Windows gives the foreground to some window,
any of those that are visible.

### EntriesConfig: entries, their file, their keystrokes

`globalConfig` is the list of entries, `file` its file, `dialogs` the open
`EditEntryDialog`s (each a modal loop inside the main thread), `panel` the open
`SettingsEntriesDialog` with its deep copy. Which object a dialog holds matters:
`Live` is the one `globalConfig` names, `OfPanel` the panel's, and `Detached`
turns the views of an object that a load has replaced into what it holds. `Save`
is `saveConfig`, which truncates first and may fail or be cut off after that,
with the `loadConfig` and `updateKeystrokes` that follow; `DialogOk` is the rest
of `openEntryDialog`, `DialogIndexError` what happens if the list has become
shorter; `OnEditOk`, `OnRemoveClick`, `OnSave`, `ClosePanel` are the panel.
`InstallKeystrokes` resumes the generator. `Restart` may come at any moment.

`gestureMap` is what the plug-in's `_gestureMap` binds to `script_taskSwitch`: from
the start the decorator's `windows+z` (`DefaultKey`), after `updateKeystrokes` the
keystrokes of the entries. `Load` and `Save` have `loadConfig`'s `except OSError`:
a file that is there but cannot be opened gives an empty list, and the keystrokes
stay as they were.

History variables: `wanted` (what the user asked for; a restart does not change
it), `overlapped`, `gaveUp`, `failed` (the last save failed), `unread`
(`globalConfig` is empty because the file could not be opened) and `lost` (NVDA was
restarted after a failed save, or saved over a file it had not read: from here on
nothing in the program knows what is missing).

Abstractions: an entry is its name and its keystroke; the checks of `make` that
look at the entry alone (its pattern, its application's name) are left out.

### CbtClients: the watchdogs and their processes

Per architecture the watchdog loop (`WaitForProcess`, `CheckRestart`,
`SpawnFind`, `SpawnCreate`, `SpawnPoll`, `RecordProcess`), each client's `main`
(`CheckAlone`, `FindTarget`, `InstallCBTHook`, `CreateClientWindow`,
`QuitLoop`), and `terminate` with `killCbtClient` (`Terminate`, `KillPost`,
`KillPollWindow`, `KillPollProcess`). Time-outs are numbers of polls: after
the last one (two seconds in the code) the watchdog gives up the process, which
may run on; `late` remembers that it did. Faults (crashes, failing
`CreateProcess`, hook installation or `CreateWindowEx`, after which a client sits
in its loop unseen) are bounded by `MaxFaults`.

`Service` is the refinement mapping to HookService: `hook` is the holder, a
process has had its turn (`HadTurn`) once it has come to install the hook or has
ended, `late` lets clients contend, `waiting` is where the service closes.
`HookServed == Service!Spec` is a property of the run `clients` and a theorem.

### HookService: what the clients promise

Each architecture's hook goes from one client to none and on to the next; each
client has one turn, and there are fewer clients than the limit; where the service
is closing there are no turns any more. Clients may contend only once one was given
up while it ran. Desktop, where the hook comes and goes at will (`SetHook`), relies
on less than that.

### CacheSession: the file over sessions and boots

`disk` is the sequence of contents after each write that may still be lost: NVDA
sees the last, a power failure leaves any one. `OpenCache`, `CompareBootTime`,
`DeleteAllEntries`, `PutBootTime` are `loadCache`; a session may end between any
two. Python's boot time drifts by up to `MaxDrift` seconds over a boot.

### ObserverLifecycle: loading and unloading

The main thread through `initHwndObserver`, `init` and `terminate`, and the
window thread through `windowThreadFunc`, over several loads in one NVDA
process. The DLL stays in the process and keeps its globals, among them the
window class, which nothing unregisters; Python's globals are new at each
import. A message handled with no database ends NVDA ("crashed", a null
pointer), and so does assigning to `windowThread` while it holds an unjoined
thread ("aborted", `std::terminate`). `Accepts` is whether Windows takes a posted
message: the window exists and its queue is not full. The code does not look at the
result, neither in `CBTProc` nor in `terminate` (`PostDestroy`).

## 3. Runs

| run | question | bounds |
|---|---|---|
| queries | under every interleaving of hook and query, with failing reads, writes and enumerations and a clock that is set back: creation order, stamps of settled windows, agreement of answer and cache, and the refinement of WindowOrder | 2 handles, reused; 2 events; 2 clock values; queue of 2 |
| converge | the dialog: does the confirmed order stand, and WindowOrder with reordering; does an answer have only the application's windows, handles not reused; are lost messages made good (liveness) | 2 applications, 2 handles, 2 events, 1 clock value |
| switch | the cycle, its tone, windows that come, go, hide and change titles, activation against late and hanging workers, hidden windows; does the main thread come to rest (liveness) | 3 windows, 2 entries (one cycles and has a title pattern, one has an index), 3 keys, 2 events |
| entries | the file, the dialogs, the panel and the keystrokes, failing saves, a file that cannot be opened and restarts; does the generator end (liveness) | 2 names, 1 keystroke, 1 dialog at a time, 2 entries, 3 saves |
| clients | one client, hook restored (liveness), bounded processes, a clean end, `terminate` at every step, and the refinement of HookService | 1 architecture, 4 restarts, 2 polls, 3 faults |
| boots | the file over three boots | 2 handles, 3 unsynced writes |
| lifecycle | order of database and window thread; terminate returns (liveness) | 5 loads, queue of 3 |
| reuse, recorded, rapid, panel, lifecycle_retry | statements of the repository that do not hold (section 5) | the smallest that show it |

Why the bounds are enough. The properties of HwndCache speak of one window or of
two, and the code treats handles independently but for the two batches: two
handles meet in a batch, in a tie and in an order. Two events close a window and
open another under its handle, or open two, within one query. A queue of two fills
up. Clock values only matter as equal, greater or less. The failing calls and the
dialog are in runs of their own, and with both TLC does not end in time: that the
confirmed order stands when `Put` fails, the clock is set back and handles are
reused is shown by the theorem `ConfirmedOrderStands` alone. The cycling entry
matches up to three windows, two of which the other may select, so that a cycle of
two ends within three presses, its list grows or shrinks within it, and switching
to the other entry ends it; two events are one that disturbs and one that repairs.
Three keys queue up behind a script that runs. One keystroke for two entries makes
every clash; one dialog at a time may still be over an open panel, two are in the
run `panel`; three saves are one that succeeds, one that fails and one that
follows. A watchdog's life is a repetition: four restarts have a first (null
handle), a middle and a last. Two polls have one that is not the last. One
architecture is enough because two meet only in `terminate`, which kills the
clients of one after those of the other; the proofs of section 6 are for any
number. Three boots are an earlier one, this one, and one whose file was left half
written by the earlier. Five loads reach each way in which NVDA ends and the loads
after it. Clocks, events, keys, dialogs, entries, saves, faults, boots, unsynced
writes, loads and queue lengths are all bounded by a named constant in the guards.

Deadlock is checked where the system never stops (HwndCache, CacheSession).
CbtClients stops when `terminate` is through and the watchdogs have given up,
ObserverLifecycle when NVDA ends, TaskSwitch when no key is left to press and no
event to happen. In EntriesConfig the check adds nothing: NVDA may always be
restarted.

## 4. Fairness

- HwndCache: the window thread is weakly fair (its loop blocks in `GetMessage`
  only while the queue is empty, and `WindowProc` always returns), and so is a
  call that has begun on the main thread. No event, key press or query is
  fair: `CacheConverges` assumes in its premise that queries go on and that the
  windows stop changing.
- CbtClients: each watchdog, each client process and a `terminate` that has
  begun are weakly fair, being threads and processes that the system schedules.
  Crashes and the call of `terminate` are not.
- TaskSwitch: the main thread, which runs what is queued and whose waits end by
  the clock (half a second for the start menu, one for the worker). Workers are
  not fair: one may hang in a call to a window's thread for ever. Keys and events
  are not.
- EntriesConfig: `Register` (NVDA finishes its start) and `InstallKeystrokes`
  (wx.CallLater's timer fires once the main loop runs). Nothing that the user
  does is fair, and `InstallerEnds` assumes that NVDA is not restarted for ever.
- ObserverLifecycle: the window thread, and the main thread while it is inside
  `init` or `terminate`. Loading, unloading and posting are not.

## 5. What the checks show

Holds, on the instances above:

- `OneOrder`: all that the cache, its messages and its queries do is one order of
  the windows at rest that only the user changes, also when LevelDB's calls fail;
  an answer is in that order as far as the query could read the entries.
  `CreationOrder`, `SettledKeepsStamp`, `UserOrderKept` say which order, and that
  the stamps do not move either, in spite of the unlocked steps of a query. The
  reason is that `data.timestamp` is taken before the enumeration and only stored
  where no entry is found, and that a window at rest is on every query's list, if
  `EnumWindows` makes one. `CreationOrder` speaks of the windows that the hook
  stamped since the clock was last set back: before that a later window may get an
  earlier time. It does not speak of windows that a query stamped.
- `Reconciled`, `AnswerIsStored`: a query and the cache agree but for what messages
  decided meanwhile and what the query failed to read or write: after an iterator
  that ended early entries of closed windows stay, after a failed `Get` a window is
  not added, or answered with `data.timestamp` although its entry is older.
  `CacheConverges`: differences do not last, where LevelDB and `EnumWindows` work.
- `HighToneMeansAllVisited`: the tone is true although the list is asked for anew
  at each press, also when windows open, are shown or get a title that fits, in
  front of the present one or behind it: what enters the list moves the others back
  and is passed over or visited again, but none is skipped. When a window leaves
  the list (it closes, is hidden by whomever, or gets another title), the user
  reorders it, or a switch fails, the tone may come too early, and the property
  excepts these cycles.
- `PromptPressAdvances`: a press that is handled before the next key goes down
  picks another window; `LastSwitchWins`: nothing takes the foreground back but a
  worker that was given up, which the code cannot stop; `HiddenAreRemembered`: the
  windows that the keystroke hides, over any hiding, showing and closing, but not
  over a reload of the plug-ins, which loses the list; `PressesAreHandled`: no
  worker that hangs and no menu that stays keeps the main thread.
- `SavedIsWanted`, `EntriesAreUnique`, `KeystrokesFindEntries`: while dialogs do
  not overlap. A save that fails is made good by the next that succeeds, and a start
  that could not read the file by one that can, as long as nothing has been saved
  over it; what a restart after a failed save, or a save over an unread file, has
  made final is excepted (`lost`): the file then holds less than the user asked for,
  and the program takes it for the user's entries. `KeystrokesFindEntries` excepts
  the time in which the last save failed, the file is unread or the generator gave
  up. `InstallerEnds`: by installing or by giving up.
- `OneClientHolds`, `HookComesBack` while clients come up in time (`~late`);
  `SpawnsBounded`, `NoSurvivor`, `NoRestartAfterTerminate` also when they do not.
- `HookServed`: no client ever takes the hook from one that runs, and none comes
  to install it after `terminate` met its watchdog waiting, though the clients ask
  nobody but `FindWindow`: the watchdog's order of waiting, checking and starting
  is what keeps them apart.
- `StampsOfThisBoot`, `RestartKeepsStamps`: the two unsynced writes of
  `loadCache` are in the right order, and a tolerance of five seconds is right
  as long as the reported boot time varies by less than five seconds within a
  boot and boots are further apart than the sum of both
  (`CacheSessionAssumption`).
- `OpenUnlessOrphaned`, `TerminateReturns`, `AbortNeedsThreeLoads`: within a
  load, and over loads that leave no window thread behind, the database is
  opened before and closed after the thread that uses it. `TerminateReturns`
  excepts a `PostMessage` that a full queue refuses (`dllmain.cpp:742`; its result
  is not looked at): the join then never returns.

Does not hold, each shown by a run that finds the counterexample:

| run | what the repository says | what the code does |
|---|---|---|
| reuse | the keystroke switches to "that application" | `appNameCache` is never invalidated (`dllmain.cpp:795`): a reused handle is taken for a window of the executable it named before |
| recorded | creation times are recorded "for all windows" | `updateCache` deletes the entry of a window created after `EnumWindows` took its list (`dllmain.cpp:263`), and the next query gives it a later time |
| rapid | index zero is "to cycle through all available windows" (`taskSwitcher.py:899`) | the count of keys is read when the script runs, not when its key went down (`taskSwitcher.py:1421`): of two quick presses the second starts the cycle anew, at the window the first picked |
| panel | "In order to add new entry ... select 'create a new entry'" (`taskSwitcher.py:1078`, in the panel) | `onSave` saves the copy taken when the panel was opened (`taskSwitcher.py:1109`): an entry created from the menu since, and already in the file, is lost |
| lifecycle_retry | "try to delete the cache ... and try again" | `queryObserver("terminate")` is refused by the assertion on `cbtState` (`taskSwitcher.py:282`): the first failure is the last |

Met while modelling, without a run of their own:

- a load after a `terminate` that failed resets `hwndCache` before it looks at
  the status of `Open` (`dllmain.cpp:317`), under the window thread that is still
  in its loop; this is the exception in `OpenUnlessOrphaned`;
- `healthCheck` reports `joinable()` as `isThreadRunning=` (`dllmain.cpp:926`),
  which is true of a thread that has returned;
- when a save fails, the panel and `globalConfig` are one object from then on:
  what is changed and then cancelled in the panel takes effect;
- before a first entry has been saved or loaded, `windows+z` is bound by the
  decorator (`taskSwitcher.py:1415`) while `globalGesturesToEntries` is `None`, so
  that pressing it raises; `KeystrokesFindEntries` says that it is the only such key;
- `loadConfig` takes any `OSError` for a file that does not exist
  (`taskSwitcher.py:252`): after a start that could not open the file, the next save
  overwrites the user's entries; after a save, the keystrokes stay installed beside
  an empty configuration;
- a window whose title changes, or that its application hides, while its entry is
  cycled through shortens the list under the count of presses: the high tone can
  come with windows left out;
- an `EnumWindows` that fails makes `updateCache` drop the entries of the windows it
  did not list, which get the time of the next query (`dllmain.cpp:884`);
- a file that was cut off keeps the plug-in from loading until it is deleted;
- when NVDA takes longer than ten seconds to start, the generator gives up
  without a last look, and no keystroke works until the next save;
- a window that opens while the cycle is on its second lap can make a press pick
  the window it is at (`PromptPressAdvances` speaks of an unchanged list);
- the counters move before the query, the menu and the activation can fail, so
  that the press after a failure skips a window;
- "Move to top" and its twin for the bottom, which has the same label, swap two
  windows instead of moving one (`taskSwitcher.py:1170`, `1195`).

## 6. What is proved

For every value of the constants that satisfies the named assumptions
(`DesktopAssumption`, `HwndCacheAssumption`, `TaskSwitchAssumption`,
`EntriesConfigAssumption`, `ValuesAssumption`, `CbtClientsAssumption`,
`CacheSessionAssumption`, `ObserverLifecycleAssumption`), every safety property
that a passing run checks:

| module | theorem | property | inductive invariant |
|---|---|---|---|
| HwndCacheProofs | `TypeCorrect` | `TypeOK` | itself |
| | `SettledWindowsKeepTheirStamp` | `SettledKeepsStamp` | `SettledInv` |
| | `ImplementsWindowOrder` | `OneOrder` | `OrderInv` |
| HwndQueryProofs | `QueriesReconcile` | `Reconciled` | `ReconcileInv` |
| | `AnswersAreStored` | `AnswerIsStored` | `AnswerInv` |
| | `AnswersBelong`, if handles are not reused | `AnswerBelongsToApp` | `OwnerInv` |
| HwndOrderProofs | `HookKeepsCreationOrder` | `CreationOrder` | `CreationInv` |
| | `ConfirmedOrderStands` | `UserOrderKept` | `UserOrderInv` |
| TaskSwitchProofs | `TypeCorrect` | `TypeOK` | itself |
| | `HighToneIsTrue` | `HighToneMeansAllVisited` | `CycleInv` |
| | `PromptPressesAdvance` | `PromptPressAdvances` | `CycleInv` |
| | `SwitchesWin` | `LastSwitchWins` | `SwitchInv` |
| | `HiddenComeBack` | `HiddenAreRemembered` | `HiddenInv` |
| EntriesConfigProofs | `TypeCorrect` | `TypeOK` | `TypeInv` |
| | `EntriesStayUnique` | `EntriesAreUnique` | `UniqueInv` |
| | `EveryKeystrokeFindsItsEntry` | `KeystrokesFindEntries` | `KeysInv` |
| | `WhatIsWantedIsSaved` | `SavedIsWanted` | `SavedInv` |
| | `SortIsStable` | (about `SortedByName`) | |
| CbtClientsProofs | `TypeCorrect` | `TypeOK` | `TypeInv` |
| | `ProcessesBounded` | `SpawnsBounded` | `TypeInv` |
| | `OneClient` | `OneClientHolds` | `TypeInv`, `Known` |
| | `NoRestart` | `NoRestartAfterTerminate` | `TypeInv`, `Signalled` |
| | `TerminateEndsClients` | `NoSurvivor` | `TypeInv`, `Ending` |
| | `ImplementsHookService` | `HookServed` | `ServiceInv` |
| CacheSessionProofs | `TypeCorrect` | `TypeOK` | `SessionInv` |
| | `NoStaleStamp` | `StampsOfThisBoot` | `SessionInv` |
| | `StampsSurviveRestart` | `RestartKeepsStamps` | `SessionInv` |
| ObserverLifecycleProofs | `TypeCorrect` | `TypeOK` | `TypeInv` |
| | `CacheOrderedWithThread` | `OpenUnlessOrphaned` | `LifecycleInv` |
| | `ThirdLoadAborts` | `AbortNeedsThreeLoads` | `TypeInv`, `LeftBehind` |

`SettledKeepsStamp` is about a step. To know that a batch spares a settled window
one has to know what the batch was collected from: `SettledSpared` says that in
each phase of a query every settled window is still to be visited or has been
listed, then that it is listed, then that it is in no batch. `SettledAtRest`
says that a settled window has an entry and no message waiting, so that neither
`WindowProc` nor `AddMissing` decides it. `SettledStep` combines both for each
action; what is left is the user's `UpdateTimestamp`, which the property exempts.
Failed reads change nothing in this: an entry that is not seen is not in the batch.

`ImplementsWindowOrder` maps every step of HwndCache to a step of WindowOrder or
to none. What it needs beyond `SettledInv` is `AnswerTrue`: what a query has found
so far of the settled windows whose entries it could read is what the cache still
holds, so that its answer is in the order of the cache when it returns.

`ReconcileInv` follows the two batches of a query for the handles that are the
query's to decide, that is not in `undecided`: until the scan every entry is still
where it was (`Scanned`), then what is not on the list is in the first batch or
gone, and what is on the list and has no entry is still to be looked up or in the
second (`LookedUp`). `AnswerInv` adds what the answer holds of a window
(`AnswerKnown`): the stored time, or `data.timestamp` if there was none, which is
what the second batch stores.

`OwnerInv` is about `appNameCache`, which is never cleared: what it remembers of a
handle is the executable that the handle's only window belongs to (`Remembered`),
and so is what the filter let into the answer (`AnswerOwned`). The theorem assumes
`ReuseHandles = FALSE`, as the run `converge` does; with reuse the property does not
hold, which is what the run `reuse` shows.

`CreationInv` relates the events, the queue, the clock and the stamps: messages
wait in the order of the events that posted them (`QueueInOrder`); the last
announcement of a handle that waits carries the birth of its window, and once none
waits, everything in the queue was posted no earlier than that birth
(`BornInOrder`); a stamp of the hook since the clock was last set back is no later
than now (`HookStamps`); and of the windows so stamped with nothing waiting, the
older has the earlier stamp or the same (`StampsInOrder`). Setting the clock back
takes all windows out of the last two. `UserOrderInv` says of a running
`updateTimestamps` that the settled windows it has passed, unless the write
failed, hold the stamps `0, 1, ...` of the dialog's list (`StoredSoFar`), for
which that list must hold each window once (`OnceEach`).

For EntriesConfig, `Standing` says when there are dialogs and a panel at all, and
`ValuesAssumption` that the markers (`None`, `NoFile`, `Live` and the like) are no
configurations. `UniqueEverywhere` claims uniqueness of every list that may come
to be the configuration: the one in memory, the file's and the panel's, and that
each dialog checks against a living one of them. `KeysInstalled` adds what a start
has left to do when the generator is not waiting. `WantedInMemory` is the
strengthening of `SavedIsWanted`: until a loss is final, what the user wants is in
the file unless a save failed, and in memory unless the file is unread
(`InMemory`); the panel's list is what is wanted once its changes are applied to
it (`Applied`); and each dialog is at the place of the entry it shows (`InPlace`),
at most one of them in the panel. What these need of the pure parts is proved for
lists of any length: `SortIsStable` (the ranks are an injection of a finite set
into itself, so that each is taken once), `SortKeeps`, `PutKeeps`, `RemoveKeeps`
and `KeysTyped`, the last from the existence of a greatest index.

`CycleInv` says where the cycle stands: the windows it began with are still listed
(`LapListed`), those of them at a place up to the present count have been picked
(`LapVisited`), and, if nothing else is listed, the present target is the one at that
count, modulo the number of windows (`LapTarget`). A step either ends the cycle or
lets the list grow and keeps its order (`CycleGrows`): windows that enter it only move
others to later places, and so never below the count. The high tone at `0` then means
that the count has reached the number of windows listed (`NoRest`). That the next
press picks another window is `NextDiffers`, that consecutive numbers differ modulo
anything above one, and `PositionsDiffer`, that two windows never have one position.

`SwitchInv` says that the worker whose report is awaited is the only one that
runs and was not given up; `HiddenInv` adds only the types.

`Known` says which of the processes the watchdog knows at each of its stages, as
long as none was given up; `Counted`, in `TypeInv`, how many it has created by
then. `Signalled` says that a watchdog that waited at the call of `terminate` has
the signal before it could look for it; `Ending`, that each architecture
`terminate` is through with has none of the announced clients left.

`ImplementsHookService` maps every step of CbtClients to one of HookService or to
none. `Served` says that an installed hook has a living client, and that the
process the watchdog waits for has had its turn; with `Known` a client that is
about to install the hook is then the only one there is, finds no hook installed,
and does not belong to a watchdog that was waiting when `terminate` was called.

`SessionInv` says of every contents a power failure could leave (not only of the
current one) that its entries are of the boot whose time it carries, and that
this boot is the present one or began at least `MinUptime` earlier
(`ContentsSound`); and what each stage of `loadCache` has established about the
current one (`SessionSound`). That "less than five seconds" then decides rightly
is arithmetic from `CacheSessionAssumption`.

`LifecycleInv` says where the main thread is while the window thread starts or
is in its loop. It claims nothing once a load has found the last one's thread in
its loop, which is where the property stops holding. `LeftBehind` says how many
loads it takes to leave a thread object, one without a database, and a database
beside it, on which the third load ends NVDA.

Model-checked only: the liveness properties (`CacheConverges`,
`PressesAreHandled`, `InstallerEnds`, `HookComesBack`, `TerminateReturns`). TLAPS
does not reason about fairness and ENABLED.

## 7. Not modelled

- Vendored sources: `json.hpp`, `json_fwd.hpp` and the headers of LevelDB. They
  are most of the lines under `src/` and none of this program's logic; LevelDB,
  Windows, psutil and wxWidgets are modelled from their use.
- `healthCheck`, which only reads; the JSON bridge, which parses a request and
  calls what the modules model.
- Activation and focus messages of the hook: `WindowProc` ignores them.
- The text of titles (TaskSwitch has which entries they fit), tones as sound,
  messages, layout, logging (`debug.log`), the first settings panel (two options
  in NVDA's own configuration).
- Dead code: `createPipe`, `killCbtClientOld`, `processHandles`,
  `getBootupTime`, the test program.
- Window handles with bits above the lower 32, which three places parse into
  three widths: Windows says that these bits carry nothing.
- Iterators that are never deleted: what they hold is inside LevelDB.
- An iterator of `deleteAllEntries` that ends early (`dllmain.cpp:295`):
  CacheSession assumes that it sees every entry. If it does not, timestamps of an
  earlier boot stay under the new boot time.
- The timing of `CBTProc` in other processes beyond order: a hook that blocks.

## 8. What is left

1. HwndCache and TaskSwitch composed, for the lists of windows that a query
   returns while windows are not yet at rest.
2. The safety half of the liveness properties: the steps by which a query brings
   the cache nearer to what is open, and a watchdog its client nearer to the hook.
