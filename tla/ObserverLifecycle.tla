-------------------------- MODULE ObserverLifecycle --------------------------
(***************************************************************************)
(* The observer's life in one NVDA process: NVDA's main thread loads and   *)
(* unloads the plug-in, which opens the cache, starts the window thread    *)
(* and later ends both.  hwndObserver.dll is never unloaded, so that its   *)
(* globals outlive the plug-in; a new import of the plug-in starts with    *)
(* fresh Python globals.                                                   *)
(***************************************************************************)
EXTENDS Naturals, Sequences, SequencesExt

CONSTANTS
  MaxLoads,   \* bound on how often the plug-in is loaded
  MaxInbox    \* PostMessage fails on a queue that already holds so many

ASSUME ObserverLifecycleAssumption == MaxLoads \in Nat /\ MaxInbox \in Nat

VARIABLES
  pc,              \* where NVDA's main thread is in the plug-in
  cbtState,        \* the state the plug-in has of itself
  attempt,         \* calls of "init" that this load has made
  loads,           \* how often the plug-in has been loaded
  hwndCache,       \* the database is open
  registered,      \* the window class is registered with the process
  windowThread,    \* "none" when the pointer is null
  invisibleHwnd,   \* the observer's window exists
  inbox,           \* its messages
  orphaned         \* history: a load found the last one's window thread running

vars == <<pc, cbtState, attempt, loads, hwndCache, registered, windowThread,
          invisibleHwnd, inbox, orphaned>>

python == <<cbtState, attempt, loads, orphaned>>
window == <<registered, invisibleHwnd, inbox>>

CBT == "WM_CBT_CREATE_WINDOW_MSG"
DESTROY == "WM_HWND_OBSERVER_DESTROY_WINDOW"

TypeOK ==
  /\ pc \in {"absent", "loadCache", "find", "create", "future", "except", "running",
             "kill", "post", "join", "close", "aborted", "crashed"}
  /\ cbtState \in {"NOT_STARTED", "INITIALIZING", "RUNNING", "TERMINATED"}
  /\ attempt \in 0..2
  /\ loads \in 0..MaxLoads
  /\ windowThread \in {"none", "register", "create", "loop", "quit", "ended"}
  /\ hwndCache \in BOOLEAN /\ registered \in BOOLEAN
  /\ invisibleHwnd \in BOOLEAN /\ orphaned \in BOOLEAN
  /\ inbox \in Seq({CBT, DESTROY})
  /\ Len(inbox) <= MaxInbox

Init ==
  /\ pc = "absent"
  /\ cbtState = "NOT_STARTED"
  /\ attempt = 0
  /\ loads = 0
  /\ hwndCache = FALSE
  /\ registered = FALSE
  /\ windowThread = "none"
  /\ invisibleHwnd = FALSE
  /\ inbox = <<>>
  /\ orphaned = FALSE

-----------------------------------------------------------------------------
(* NVDA's main thread: loading.                                            *)

\* queryObserver's assertions.
Answers(command) ==
  cbtState = IF command = "init" THEN "INITIALIZING" ELSE "RUNNING"

\* Mutant: the attempts of earlier loads count.
LoadKeepsAttempts ==
  /\ pc = "absent"
  /\ loads < MaxLoads
  /\ loads' = loads + 1
  /\ cbtState' = "INITIALIZING"
  /\ orphaned' = (orphaned \/ windowThread = "loop")
  /\ pc' \in {"loadCache", "absent"}
  /\ UNCHANGED <<attempt, hwndCache, windowThread, window>>

\* NVDA imports the plug-in and constructs it; ending old clients may raise.
Load ==
  /\ pc = "absent"
  /\ loads < MaxLoads
  /\ loads' = loads + 1
  /\ cbtState' = "INITIALIZING"
  /\ attempt' = 0
  /\ orphaned' = (orphaned \/ windowThread = "loop")
  /\ pc' \in {"loadCache", "absent"}
  /\ UNCHANGED <<hwndCache, windowThread, window>>

\* Mutant: the old database is closed before the new one is opened.
LoadCacheClosesFirst ==
  /\ pc = "loadCache"
  /\ Answers("init")
  /\ attempt' = attempt + 1
  /\ \/ hwndCache' = FALSE /\ pc' = "except"
     \/ hwndCache' = TRUE /\ pc' \in {"find", "except"}
  /\ UNCHANGED <<cbtState, loads, orphaned, windowThread, window>>

\* A database that is open cannot be opened again, and hwndCache is reset before
\* the status of Open is looked at.  When the boot time cannot be read or
\* written the database stays open behind the error.
LoadCache ==
  /\ pc = "loadCache"
  /\ Answers("init")
  /\ attempt' = attempt + 1
  /\ \/ hwndCache' = FALSE /\ pc' = "except"
     \/ ~hwndCache /\ hwndCache' = TRUE /\ pc' \in {"find", "except"}
  /\ UNCHANGED <<cbtState, loads, orphaned, windowThread, window>>

\* FindWindow sees the windows of every process: another's may be there.
FindMonitoringWindow ==
  /\ pc = "find"
  /\ \/ pc' = "except"
     \/ ~invisibleHwnd /\ pc' = "create"
  /\ UNCHANGED <<python, hwndCache, windowThread, window>>

\* Assigning to windowThread destroys the thread object it held: std::terminate
\* when that has not been joined, whether its thread has returned or not.
CreateInvisibleWindow ==
  /\ pc = "create"
  /\ IF windowThread = "none"
       THEN windowThread' = "register" /\ pc' = "future"
       ELSE pc' = "aborted" /\ UNCHANGED windowThread
  /\ UNCHANGED <<python, hwndCache, window>>

\* errorFuture.get(), then the watchdogs, which cannot fail to start.  Their
\* slots are free: RegisterClass succeeds once in a process.
WaitForWindow ==
  /\ pc = "future"
  /\ \/ windowThread = "loop" /\ pc' = "running" /\ cbtState' = "RUNNING"
     \/ windowThread = "ended" /\ pc' = "except" /\ UNCHANGED cbtState
  /\ UNCHANGED <<attempt, loads, orphaned, hwndCache, windowThread, window>>

\* The except clause: the second attempt raises; the first is to terminate the
\* observer, which queryObserver's assertion may refuse.
InitException ==
  /\ pc = "except"
  /\ pc' = IF attempt = 1 /\ Answers("terminate") THEN "kill" ELSE "absent"
  /\ UNCHANGED <<python, hwndCache, windowThread, window>>

-----------------------------------------------------------------------------
(* NVDA's main thread: unloading.                                          *)

Unload ==
  /\ pc = "running"
  /\ Answers("terminate")
  /\ pc' = "kill"
  /\ UNCHANGED <<python, hwndCache, windowThread, window>>

\* A client that does not go in time ends terminate() with an error, and NVDA
\* drops the plug-in all the same.
KillCbtClients ==
  /\ pc = "kill"
  /\ pc' \in {"post", "absent"}
  /\ UNCHANGED <<python, hwndCache, windowThread, window>>

\* PostMessage fails when the window is gone or its queue full; the result is not
\* looked at.
Accepts == invisibleHwnd /\ Len(inbox) < MaxInbox

PostDestroy ==
  /\ pc = "post"
  /\ pc' = "join"
  /\ inbox' = IF Accepts THEN Append(inbox, DESTROY) ELSE inbox
  /\ UNCHANGED <<python, hwndCache, windowThread, registered, invisibleHwnd>>

\* Mutant: the thread is left to itself.
DetachWindowThread ==
  /\ pc = "join"
  /\ pc' = "close"
  /\ UNCHANGED <<python, hwndCache, windowThread, window>>

JoinWindowThread ==
  /\ pc = "join"
  /\ windowThread \in {"none", "ended"}
  /\ windowThread' = "none"
  /\ pc' = "close"
  /\ UNCHANGED <<python, hwndCache, window>>

\* terminateCache; initHwndObserver would purge the cache and try again.
TerminateCache ==
  /\ pc = "close"
  /\ hwndCache' = FALSE
  /\ IF cbtState = "RUNNING"
       THEN pc' = "absent" /\ cbtState' = "TERMINATED"
       ELSE pc' = "loadCache" /\ UNCHANGED cbtState
  /\ UNCHANGED <<attempt, loads, orphaned, windowThread, window>>

-----------------------------------------------------------------------------
(* The window thread and the hook.                                         *)

Alive == pc \notin {"aborted", "crashed"}

\* The class outlives the window: nothing unregisters it.
RegisterWindowClass ==
  /\ Alive
  /\ windowThread = "register"
  /\ \/ windowThread' = "ended" /\ UNCHANGED registered
     \/ ~registered /\ registered' = TRUE /\ windowThread' = "create"
  /\ UNCHANGED <<pc, python, hwndCache, invisibleHwnd, inbox>>

CreateObserverWindow ==
  /\ Alive
  /\ windowThread = "create"
  /\ \/ windowThread' = "loop" /\ invisibleHwnd' = TRUE
     \/ windowThread' = "ended" /\ UNCHANGED invisibleHwnd
  /\ UNCHANGED <<pc, python, hwndCache, registered, inbox>>

\* A hook posts to the window, in whatever state the plug-in is.
PostCbt ==
  /\ Alive
  /\ Accepts
  /\ inbox' = Append(inbox, CBT)
  /\ UNCHANGED <<pc, python, hwndCache, registered, windowThread, invisibleHwnd>>

\* cacheTimestamp and deleteTimestamp go through the null pointer when the
\* database is not open.
HandleCbt ==
  /\ Alive
  /\ windowThread = "loop"
  /\ inbox # <<>>
  /\ Head(inbox) = CBT
  /\ inbox' = Tail(inbox)
  /\ pc' = IF hwndCache THEN pc ELSE "crashed"
  /\ UNCHANGED <<python, hwndCache, registered, windowThread, invisibleHwnd>>

\* Mutant: WM_DESTROY does not post the quit message.
HandleDestroyWindowOnly ==
  /\ Alive
  /\ windowThread = "loop"
  /\ inbox # <<>>
  /\ Head(inbox) = DESTROY
  /\ inbox' = <<>>
  /\ invisibleHwnd' = FALSE
  /\ UNCHANGED <<pc, python, hwndCache, registered, windowThread>>

\* DestroyWindow takes the window's messages with it and sends WM_DESTROY, which
\* posts the quit message.
HandleDestroyWindow ==
  /\ Alive
  /\ windowThread = "loop"
  /\ inbox # <<>>
  /\ Head(inbox) = DESTROY
  /\ inbox' = <<>>
  /\ invisibleHwnd' = FALSE
  /\ windowThread' = "quit"
  /\ UNCHANGED <<pc, python, hwndCache, registered>>

ExitLoop ==
  /\ Alive
  /\ windowThread = "quit"
  /\ windowThread' = "ended"
  /\ UNCHANGED <<pc, python, hwndCache, window>>

-----------------------------------------------------------------------------

MainThread ==
  \/ Load
  \/ LoadCache
  \/ FindMonitoringWindow
  \/ CreateInvisibleWindow
  \/ WaitForWindow
  \/ InitException
  \/ Unload
  \/ KillCbtClients
  \/ PostDestroy
  \/ JoinWindowThread
  \/ TerminateCache

WindowThread ==
  \/ RegisterWindowClass
  \/ CreateObserverWindow
  \/ HandleCbt
  \/ HandleDestroyWindow
  \/ ExitLoop

Next == MainThread \/ WindowThread \/ PostCbt

Spec == Init /\ [][Next]_vars

\* Threads that can run do; loading, unloading and posting are up to others.
FairSpec ==
  /\ Spec
  /\ WF_vars(WindowThread)
  /\ WF_vars(MainThread /\ pc \notin {"absent", "running"})

-----------------------------------------------------------------------------
(* Properties.                                                             *)

\* Whoever uses the database finds it open: the window thread in its loop, the
\* main thread while the plug-in runs.
CacheOpenWhenUsed ==
  windowThread = "loop" \/ pc = "running" => hwndCache

\* init and terminate order the cache and the window thread rightly, also when
\* terminate gives up half way and over reloads, as long as no load finds the
\* last one's thread in its loop.
OpenUnlessOrphaned == orphaned \/ CacheOpenWhenUsed

\* A load that fails leaves a database or a thread object behind.  It takes two
\* such loads before a third ends NVDA by std::terminate.
AbortNeedsThreeLoads == pc = "aborted" => loads >= 3

\* terminate() returns whenever Windows took the message that is to end the window
\* thread, or that thread has left its loop before: what still waits in the queue
\* is handled first, and the thread cannot miss that it is to end.
TerminateReturns ==
  pc = "join" /\ (windowThread = "loop" => DESTROY \in ToSet(inbox)) ~> pc # "join"

\* "try to delete the cache in case it could be corrupted, and try again": no
\* load fails after a single call of init.
PurgeAndRetry == pc = "absent" /\ cbtState = "INITIALIZING" => attempt # 1
=============================================================================
