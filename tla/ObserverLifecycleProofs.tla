----------------------- MODULE ObserverLifecycleProofs -----------------------
(***************************************************************************)
(* Proofs about ObserverLifecycle, for every number of loads and every     *)
(* length of the queue.                                                    *)
(***************************************************************************)
EXTENDS ObserverLifecycle, TLAPS

\* Init has opened the database before it looks for a window.
OpenSinceInit ==
  pc \in {"find", "create", "future", "running"} => hwndCache

\* The window thread is in its loop only with the database open, and never while
\* the main thread opens or closes it.
LoopBetweenInitAndJoin ==
  windowThread = "loop" =>
    hwndCache /\ pc \notin {"loadCache", "find", "create", "except", "close"}

\* The window thread starts under the eyes of the main thread.
StartIsAwaited == windowThread \in {"register", "create"} => pc = "future"

Ordered == OpenSinceInit /\ LoopBetweenInitAndJoin /\ StartIsAwaited

\* Nothing is claimed once a load has found the last one's thread in its loop.
LifecycleInv ==
  /\ orphaned \in BOOLEAN
  /\ orphaned = FALSE => Ordered

-----------------------------------------------------------------------------

\* There is no observer before the first load.
LEMMA LifecycleInit == Init => LifecycleInv
BY DEF Init, LifecycleInv, Ordered, OpenSinceInit, LoopBetweenInitAndJoin, StartIsAwaited

\* Loading and initialising keep the order.
LEMMA LoadingOrdered ==
  ASSUME LifecycleInv,
         Load \/ LoadCache \/ FindMonitoringWindow \/ CreateInvisibleWindow
           \/ WaitForWindow \/ InitException
  PROVE  LifecycleInv'
<1> USE DEF LifecycleInv, Ordered, OpenSinceInit, LoopBetweenInitAndJoin, StartIsAwaited
<1>1. CASE Load
  BY <1>1 DEF Load, window
<1>2. CASE LoadCache
  BY <1>2 DEF LoadCache, window
<1>3. CASE FindMonitoringWindow
  BY <1>3 DEF FindMonitoringWindow, python, window
<1>4. CASE CreateInvisibleWindow
  BY <1>4 DEF CreateInvisibleWindow, python, window
<1>5. CASE WaitForWindow
  BY <1>5 DEF WaitForWindow, window
<1>6. CASE InitException
  BY <1>6 DEF InitException, python, window
<1> QED
  BY <1>1, <1>2, <1>3, <1>4, <1>5, <1>6

\* Unloading keeps the order: the join comes before the cache is closed.
LEMMA UnloadingOrdered ==
  ASSUME LifecycleInv,
         Unload \/ KillCbtClients \/ PostDestroy \/ JoinWindowThread \/ TerminateCache
  PROVE  LifecycleInv'
<1> USE DEF LifecycleInv, Ordered, OpenSinceInit, LoopBetweenInitAndJoin, StartIsAwaited
<1>1. CASE Unload
  BY <1>1 DEF Unload, python, window
<1>2. CASE KillCbtClients
  BY <1>2 DEF KillCbtClients, python, window
<1>3. CASE PostDestroy
  BY <1>3 DEF PostDestroy, python
<1>4. CASE JoinWindowThread
  BY <1>4 DEF JoinWindowThread, python, window
<1>5. CASE TerminateCache
  BY <1>5 DEF TerminateCache, window
<1> QED
  BY <1>1, <1>2, <1>3, <1>4, <1>5

\* The window thread and the hook's messages keep the order.
LEMMA WindowThreadOrdered ==
  ASSUME LifecycleInv, WindowThread \/ PostCbt
  PROVE  LifecycleInv'
<1> USE DEF LifecycleInv, Ordered, OpenSinceInit, LoopBetweenInitAndJoin, StartIsAwaited
<1>1. CASE RegisterWindowClass
  BY <1>1 DEF RegisterWindowClass, python
<1>2. CASE CreateObserverWindow
  BY <1>2 DEF CreateObserverWindow, python
<1>3. CASE HandleCbt
  BY <1>3 DEF HandleCbt, python
<1>4. CASE HandleDestroyWindow
  BY <1>4 DEF HandleDestroyWindow, python
<1>5. CASE ExitLoop
  BY <1>5 DEF ExitLoop, python, window
<1>6. CASE PostCbt
  BY <1>6 DEF PostCbt, python
<1> QED
  BY <1>1, <1>2, <1>3, <1>4, <1>5, <1>6 DEF WindowThread

\* However often the plug-in is loaded and whichever step of init or terminate
\* fails, the database is open whenever the window thread or a command uses it,
\* unless a load found the last one's window thread in its loop.
THEOREM CacheOrderedWithThread == Spec => []OpenUnlessOrphaned
<1>1. ASSUME LifecycleInv, [Next]_vars PROVE LifecycleInv'
  <2>1. CASE Next
    BY <1>1, <2>1, LoadingOrdered, UnloadingOrdered, WindowThreadOrdered
    DEF Next, MainThread
  <2>2. CASE UNCHANGED vars
    BY <1>1, <2>2
    DEF vars, LifecycleInv, Ordered, OpenSinceInit, LoopBetweenInitAndJoin, StartIsAwaited
  <2> QED
    BY <1>1, <2>1, <2>2
<1>2. LifecycleInv => OpenUnlessOrphaned
  BY DEF LifecycleInv, Ordered, OpenSinceInit, LoopBetweenInitAndJoin,
         OpenUnlessOrphaned, CacheOpenWhenUsed
<1> QED
  BY LifecycleInit, <1>1, <1>2, PTL DEF Spec
-----------------------------------------------------------------------------
(* Type correctness, and how often the plug-in can be loaded.              *)

\* The plug-in's state and its place in the code agree; in particular it is
\* never running when init has failed, so that init is called once in a load.
Staged ==
  /\ pc \in {"loadCache", "find", "create", "future", "except"} => cbtState = "INITIALIZING"
  /\ pc \in {"running", "kill", "post", "join", "close"} => cbtState = "RUNNING"
  /\ pc = "loadCache" => attempt = 0

\* The window lives with its thread's loop and takes its messages with it.
Posted ==
  /\ invisibleHwnd <=> windowThread = "loop"
  /\ windowThread # "loop" => inbox = <<>>

TypeInv == TypeOK /\ Staged /\ Posted

\* What earlier loads left behind: a thread object is one load old, one without
\* a database two, and a load that opens a database beside it is the third.
LeftBehind ==
  /\ pc # "absent" => loads >= 1
  /\ windowThread # "none" => loads >= 1
  /\ windowThread # "none" /\ pc = "loadCache" => loads >= 2
  /\ windowThread # "none" /\ ~hwndCache => loads >= 2
  /\ windowThread # "none" /\ ~hwndCache /\ pc = "loadCache" => loads >= 3
  /\ windowThread # "none" /\ pc \in {"find", "create"} => loads >= 3
  /\ pc \in {"find", "create", "future"} => hwndCache
  /\ pc = "close" => windowThread = "none"
  /\ AbortNeedsThreeLoads

LEMMA TypeInit == Init => TypeInv /\ LeftBehind
<1> SUFFICES ASSUME Init PROVE TypeInv /\ LeftBehind
  OBVIOUS
<1>1. inbox = <<>> /\ inbox \in Seq({CBT, DESTROY}) /\ Len(inbox) = 0
  BY DEF Init
<1>2. TypeInv
  <2>1. TypeOK
    <3>1. 0 \in 0..2 /\ 0 \in 0..MaxLoads /\ Len(inbox) <= MaxInbox
      BY <1>1, ObserverLifecycleAssumption
    <3> QED
      BY <1>1, <3>1 DEF Init, TypeOK
  <2>2. Staged /\ Posted
    BY <1>1, ObserverLifecycleAssumption DEF Init, Staged, Posted
  <2> QED
    BY <2>1, <2>2 DEF TypeInv
<1>3. LeftBehind
  BY DEF Init, LeftBehind, AbortNeedsThreeLoads
<1> QED
  BY <1>2, <1>3

LEMMA MainThreadTyped == ASSUME TypeInv, MainThread PROVE TypeInv'
<1> USE ObserverLifecycleAssumption DEF TypeInv
<1>1. CASE Load
  <2>1. TypeOK'
    BY <1>1 DEF Load, python, window, TypeOK, Staged, Posted
  <2>2. Staged' /\ Posted'
    BY <1>1 DEF Load, python, window, TypeOK, Staged, Posted
  <2> QED
    BY <2>1, <2>2
<1>2. CASE LoadCache
  <2>1. TypeOK'
    <3>1. attempt + 1 \in 0..2
      BY <1>2 DEF LoadCache, Staged
    <3> QED
      BY <1>2, <3>1 DEF LoadCache, window, TypeOK
  <2>2. Staged' /\ Posted'
    BY <1>2 DEF LoadCache, python, window, TypeOK, Staged, Posted
  <2> QED
    BY <2>1, <2>2
<1>3. CASE FindMonitoringWindow
  <2>1. TypeOK'
    BY <1>3 DEF FindMonitoringWindow, python, window, TypeOK, Staged, Posted
  <2>2. Staged' /\ Posted'
    BY <1>3 DEF FindMonitoringWindow, python, window, TypeOK, Staged, Posted
  <2> QED
    BY <2>1, <2>2
<1>4. CASE CreateInvisibleWindow
  <2>1. TypeOK'
    BY <1>4 DEF CreateInvisibleWindow, python, window, TypeOK, Staged, Posted
  <2>2. Staged' /\ Posted'
    BY <1>4 DEF CreateInvisibleWindow, python, window, TypeOK, Staged, Posted
  <2> QED
    BY <2>1, <2>2
<1>5. CASE WaitForWindow
  <2>1. TypeOK'
    BY <1>5 DEF WaitForWindow, python, window, TypeOK, Staged, Posted
  <2>2. Staged' /\ Posted'
    BY <1>5 DEF WaitForWindow, python, window, TypeOK, Staged, Posted
  <2> QED
    BY <2>1, <2>2
<1>6. CASE InitException
  <2>1. TypeOK'
    BY <1>6 DEF InitException, Answers, python, window, TypeOK, Staged, Posted
  <2>2. Staged' /\ Posted'
    BY <1>6 DEF InitException, Answers, python, window, TypeOK, Staged, Posted
  <2> QED
    BY <2>1, <2>2
<1>7. CASE Unload
  <2>1. TypeOK'
    BY <1>7 DEF Unload, python, window, TypeOK, Staged, Posted
  <2>2. Staged' /\ Posted'
    BY <1>7 DEF Unload, python, window, TypeOK, Staged, Posted
  <2> QED
    BY <2>1, <2>2
<1>8. CASE KillCbtClients
  <2>1. TypeOK'
    BY <1>8 DEF KillCbtClients, python, window, TypeOK, Staged, Posted
  <2>2. Staged' /\ Posted'
    BY <1>8 DEF KillCbtClients, python, window, TypeOK, Staged, Posted
  <2> QED
    BY <2>1, <2>2
<1>9. CASE PostDestroy
  <2>1. TypeOK'
    BY <1>9 DEF PostDestroy, Accepts, python, window, TypeOK, Staged, Posted
  <2>2. Staged' /\ Posted'
    BY <1>9 DEF PostDestroy, Accepts, python, window, TypeOK, Staged, Posted
  <2> QED
    BY <2>1, <2>2
<1>10. CASE JoinWindowThread
  <2>1. TypeOK'
    BY <1>10 DEF JoinWindowThread, python, window, TypeOK, Staged, Posted
  <2>2. Staged' /\ Posted'
    BY <1>10 DEF JoinWindowThread, python, window, TypeOK, Staged, Posted
  <2> QED
    BY <2>1, <2>2
<1>11. CASE TerminateCache
  <2>1. TypeOK'
    BY <1>11 DEF TerminateCache, python, window, TypeOK, Staged, Posted
  <2>2. Staged' /\ Posted'
    BY <1>11 DEF TerminateCache, python, window, TypeOK, Staged, Posted
  <2> QED
    BY <2>1, <2>2
<1> QED
  BY <1>1, <1>2, <1>3, <1>4, <1>5, <1>6, <1>7, <1>8, <1>9, <1>10, <1>11 DEF MainThread

LEMMA WindowThreadTyped == ASSUME TypeInv, WindowThread \/ PostCbt PROVE TypeInv'
<1> USE ObserverLifecycleAssumption DEF TypeInv
<1>1. CASE RegisterWindowClass
  <2>1. TypeOK'
    BY <1>1 DEF RegisterWindowClass, python, window, TypeOK, Staged, Posted
  <2>2. Staged' /\ Posted'
    BY <1>1 DEF RegisterWindowClass, python, window, TypeOK, Staged, Posted
  <2> QED
    BY <2>1, <2>2
<1>2. CASE CreateObserverWindow
  <2>1. TypeOK'
    BY <1>2 DEF CreateObserverWindow, python, window, TypeOK, Staged, Posted
  <2>2. Staged' /\ Posted'
    BY <1>2 DEF CreateObserverWindow, python, window, TypeOK, Staged, Posted
  <2> QED
    BY <2>1, <2>2
<1>3. CASE HandleCbt
  <2>1. TypeOK'
    BY <1>3 DEF HandleCbt, python, window, TypeOK, Staged, Posted
  <2>2. Staged' /\ Posted'
    BY <1>3 DEF HandleCbt, python, window, TypeOK, Staged, Posted
  <2> QED
    BY <2>1, <2>2
<1>4. CASE HandleDestroyWindow
  <2>1. TypeOK'
    <3>1. inbox' \in Seq({CBT, DESTROY}) /\ Len(inbox') <= MaxInbox
      BY <1>4 DEF HandleDestroyWindow
    <3> QED
      BY <1>4, <3>1 DEF HandleDestroyWindow, python, TypeOK
  <2>2. Staged' /\ Posted'
    BY <1>4 DEF HandleDestroyWindow, python, window, TypeOK, Staged, Posted
  <2> QED
    BY <2>1, <2>2
<1>5. CASE ExitLoop
  <2>1. TypeOK'
    BY <1>5 DEF ExitLoop, python, window, TypeOK, Staged, Posted
  <2>2. Staged' /\ Posted'
    BY <1>5 DEF ExitLoop, python, window, TypeOK, Staged, Posted
  <2> QED
    BY <2>1, <2>2
<1>6. CASE PostCbt
  <2>1. TypeOK'
    BY <1>6 DEF PostCbt, Accepts, python, window, TypeOK, Staged, Posted
  <2>2. Staged' /\ Posted'
    BY <1>6 DEF PostCbt, Accepts, python, window, TypeOK, Staged, Posted
  <2> QED
    BY <2>1, <2>2
<1> QED
  BY <1>1, <1>2, <1>3, <1>4, <1>5, <1>6 DEF WindowThread

LEMMA TypeNext == ASSUME TypeInv, [Next]_vars PROVE TypeInv'
<1>1. CASE UNCHANGED vars
  BY <1>1 DEF vars, TypeInv, TypeOK, Staged, Posted
<1> QED
  BY <1>1, MainThreadTyped, WindowThreadTyped DEF Next

\* Type correctness: init is called at most twice in a load, and the queue never
\* holds more than the hook's messages and the one that ends the window.
THEOREM TypeCorrect == Spec => []TypeOK
<1>1. TypeInv => TypeOK
  BY DEF TypeInv
<1> QED
  BY <1>1, TypeInit, TypeNext, PTL DEF Spec

LEMMA LeftBehindNext == ASSUME TypeInv, LeftBehind, [Next]_vars PROVE LeftBehind'
<1> USE DEF TypeInv, TypeOK, Staged, LeftBehind, AbortNeedsThreeLoads
<1>12. CASE UNCHANGED vars
  BY <1>12 DEF vars
<1>13. CASE WindowThread \/ PostCbt
  BY <1>13 DEF WindowThread, RegisterWindowClass, CreateObserverWindow, HandleCbt,
     HandleDestroyWindow, ExitLoop, PostCbt, python, Alive
<1>1. CASE Load
  BY <1>1 DEF Load, python, window
<1>2. CASE LoadCache
  BY <1>2 DEF LoadCache, python, window
<1>3. CASE FindMonitoringWindow
  BY <1>3 DEF FindMonitoringWindow, python, window
<1>4. CASE CreateInvisibleWindow
  BY <1>4 DEF CreateInvisibleWindow, python, window
<1>5. CASE WaitForWindow
  BY <1>5 DEF WaitForWindow, python, window
<1>6. CASE InitException
  BY <1>6 DEF InitException, python, window
<1>7. CASE Unload
  BY <1>7 DEF Unload, python, window
<1>8. CASE KillCbtClients
  BY <1>8 DEF KillCbtClients, python, window
<1>9. CASE PostDestroy
  BY <1>9 DEF PostDestroy, python, window
<1>10. CASE JoinWindowThread
  BY <1>10 DEF JoinWindowThread, python, window
<1>11. CASE TerminateCache
  BY <1>11 DEF TerminateCache, python, window
<1> QED
  BY <1>1, <1>2, <1>3, <1>4, <1>5, <1>6, <1>7, <1>8, <1>9, <1>10, <1>11, <1>12, <1>13
  DEF Next, MainThread

\* However often the plug-in is loaded, and whatever fails: NVDA is ended by
\* std::terminate in the third load at the earliest.
THEOREM ThirdLoadAborts == Spec => []AbortNeedsThreeLoads
<1>1. LeftBehind => AbortNeedsThreeLoads
  BY DEF LeftBehind
<1> QED
  BY <1>1, TypeInit, TypeNext, LeftBehindNext, PTL DEF Spec
=============================================================================
