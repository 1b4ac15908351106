----------------------------- MODULE CbtClients -----------------------------
(***************************************************************************)
(* The processes that keep the CBT hook installed.  For each architecture  *)
(* hwndObserver.dll runs a watchdog thread (cbtClientSpawnerThreadFunc)    *)
(* that starts cbt_client.exe, waits for its window to appear, then waits  *)
(* for the process to end and starts it again, until it has done so often  *)
(* enough or terminate() tells it to stop.  The client installs the hook   *)
(* and sits in a message loop; the hook is gone when its installer is.     *)
(* terminate() asks the client through its window to quit and polls for    *)
(* its end.                                                                *)
(***************************************************************************)
EXTENDS Integers, Sequences

CONSTANTS
  arches,                  \* the sequence of architectures, {"Win32", "x64"}
  MAX_CBT_RESTART_COUNT,   \* 10 in the code
  SpawnPolls,              \* how often spawnCbtClient looks for the window: 20
  KillPolls,               \* how often killCbtClient looks: 20
  MaxFaults                \* bound on crashes and failing system calls

ASSUME CbtClientsAssumption ==
  /\ MAX_CBT_RESTART_COUNT \in Nat \ {0}
  /\ SpawnPolls \in Nat \ {0}
  /\ KillPolls \in Nat \ {0}
  /\ MaxFaults \in Nat
  /\ arches \in Seq(STRING) /\ arches # <<>>
  /\ \A i, j \in DOMAIN arches : arches[i] = arches[j] => i = j

Arch == {arches[i] : i \in DOMAIN arches}

\* The processes a watchdog starts, by number; 0 stands for no process, no
\* handle and no installer.
Process == 1..MAX_CBT_RESTART_COUNT

VARIABLES
  client,         \* client[arch][p]: where process p of arch is in its main()
  quit,           \* processes whose window was sent WM_HWND_OBSERVER_DESTROY_WINDOW
  hook,           \* the process whose CBT hook is the installed one
  watchdog,       \* where the watchdog thread is
  hProcess,       \* the handle it waits for
  process,        \* what spawnCbtClient works on, then what it returned
  polls,          \* the poll it is at
  late,           \* history: a process was given up while it ran
  restartCountByArch,
  processIDByArch,
  cbtClientTerminateSignal,
  main,           \* where NVDA's main thread is in terminate()
  killing,        \* index of the architecture whose client is being killed
  killPolls,      \* the poll killCbtClient is at
  isWindowFound,  \* its local of that name
  observerWindow, \* the observer's invisible window exists
  faults,         \* crashes and failures so far
  announced,      \* history: <<arch, p>> with a window when terminate() was called
  waiting         \* history: the architectures whose watchdog then waited for a process

clientVars == <<client, quit, hook>>
watchdogVars == <<watchdog, hProcess, process, polls, late, restartCountByArch, processIDByArch>>
mainVars == <<cbtClientTerminateSignal, main, killing, killPolls, isWindowFound,
              observerWindow, announced, waiting>>
vars == <<clientVars, watchdogVars, mainVars, faults>>

ClientTypeOK ==
  /\ client \in [Arch -> [Process -> {"none", "starting", "alone", "targeted", "hooked",
                                      "looping", "windowless", "exited"}]]
  /\ quit \in [Arch -> SUBSET Process]
  /\ hook \in [Arch -> Process \cup {0}]

WatchdogTypeOK ==
  /\ watchdog \in [Arch -> {"wait", "check", "find", "create", "poll", "record", "done"}]
  /\ hProcess \in [Arch -> Process \cup {0}]
  /\ process \in [Arch -> Process \cup {0}]
  /\ polls \in [Arch -> 0..SpawnPolls]
  /\ late \in BOOLEAN
  /\ restartCountByArch \in [Arch -> 0..MAX_CBT_RESTART_COUNT]
  /\ processIDByArch \in [Arch -> Process \cup {0}]

MainTypeOK ==
  /\ cbtClientTerminateSignal \in BOOLEAN
  /\ main \in {"running", "kill", "window", "process", "ended", "failed"}
  /\ killing \in DOMAIN arches
  /\ killPolls \in 0..KillPolls
  /\ isWindowFound \in BOOLEAN
  /\ observerWindow \in BOOLEAN
  /\ faults \in 0..MaxFaults
  /\ announced \subseteq Arch \X Process
  /\ waiting \subseteq Arch

TypeOK == ClientTypeOK /\ WatchdogTypeOK /\ MainTypeOK

\* init() has created the invisible window and the watchdog threads, which
\* start with a null handle; initHwndObserver killed the clients of earlier
\* sessions before.
Init ==
  /\ client = [a \in Arch |-> [p \in Process |-> "none"]]
  /\ quit = [a \in Arch |-> {}]
  /\ hook = [a \in Arch |-> 0]
  /\ watchdog = [a \in Arch |-> "wait"]
  /\ hProcess = [a \in Arch |-> 0]
  /\ process = [a \in Arch |-> 0]
  /\ polls = [a \in Arch |-> 0]
  /\ late = FALSE
  /\ restartCountByArch = [a \in Arch |-> 0]
  /\ processIDByArch = [a \in Arch |-> 0]
  /\ cbtClientTerminateSignal = FALSE
  /\ main = "running"
  /\ killing = 1
  /\ killPolls = 0
  /\ isWindowFound = FALSE
  /\ observerWindow = TRUE
  /\ faults = 0
  /\ announced = {}
  /\ waiting = {}

Fault == faults < MaxFaults /\ faults' = faults + 1

Running(a) == {p \in Process : client[a][p] \notin {"none", "exited"}}

\* The processes with a window of the class that FindWindow looks for.
Windows(a) == {p \in Process : client[a][p] = "looping"}

findCBTClientWindow(a) == Windows(a) # {}

IsProcessRunning(a, p) == p \in Running(a)

-----------------------------------------------------------------------------
(* cbt_client.exe: main().                                                 *)

\* The process ends, by itself or not, and Windows removes its hook.
Exit(a, p) ==
  /\ client' = [client EXCEPT ![a][p] = "exited"]
  /\ hook' = [hook EXCEPT ![a] = IF @ = p THEN 0 ELSE @]
  /\ UNCHANGED quit

Advance(a, p, state) ==
  /\ client' = [client EXCEPT ![a][p] = state]
  /\ UNCHANGED <<quit, hook>>

\* FindWindow on its own class.
CheckAlone(a, p) ==
  /\ client[a][p] = "starting"
  /\ IF findCBTClientWindow(a) THEN Exit(a, p) ELSE Advance(a, p, "alone")
  /\ UNCHANGED <<watchdogVars, mainVars, faults>>

\* FindWindow on the observer's invisible window.
FindTarget(a, p) ==
  /\ client[a][p] = "alone"
  /\ IF observerWindow THEN Advance(a, p, "targeted") ELSE Exit(a, p)
  /\ UNCHANGED <<watchdogVars, mainVars, faults>>

\* Mutant: the client goes on when the hook could not be installed.
InstallCBTHookIgnored(a, p) ==
  /\ client[a][p] = "targeted"
  /\ client' = [client EXCEPT ![a][p] = "hooked"]
  /\ \/ hook' = [hook EXCEPT ![a] = p] /\ UNCHANGED faults
     \/ Fault /\ hook' = [hook EXCEPT ![a] = 0]
  /\ UNCHANGED <<quit, watchdogVars, mainVars>>

\* The hook of another process of the architecture is uninstalled first.
InstallCBTHook(a, p) ==
  /\ client[a][p] = "targeted"
  /\ \/ /\ client' = [client EXCEPT ![a][p] = "hooked"]
        /\ hook' = [hook EXCEPT ![a] = p]
        /\ UNCHANGED <<quit, faults>>
     \/ /\ Fault
        /\ client' = [client EXCEPT ![a][p] = "exited"]
        /\ hook' = [hook EXCEPT ![a] = 0]
        /\ UNCHANGED quit
  /\ UNCHANGED <<watchdogVars, mainVars>>

\* CreateWindowEx's failure is not looked at: the client holds its hook in a
\* message loop in which nothing will ever find it.
CreateClientWindow(a, p) ==
  /\ client[a][p] = "hooked"
  /\ \/ Advance(a, p, "looping") /\ UNCHANGED faults
     \/ Fault /\ Advance(a, p, "windowless")
  /\ UNCHANGED <<watchdogVars, mainVars>>

\* The message loop gets WM_HWND_OBSERVER_DESTROY_WINDOW.
QuitLoop(a, p) ==
  /\ client[a][p] = "looping"
  /\ p \in quit[a]
  /\ Exit(a, p)
  /\ UNCHANGED <<watchdogVars, mainVars, faults>>

\* A client crashes, is killed, or fails to register its class.
Crash(a, p) ==
  /\ Fault
  /\ p \in Running(a)
  /\ Exit(a, p)
  /\ UNCHANGED <<watchdogVars, mainVars>>

Client(a, p) ==
  CheckAlone(a, p) \/ FindTarget(a, p) \/ InstallCBTHook(a, p)
  \/ CreateClientWindow(a, p) \/ QuitLoop(a, p)

-----------------------------------------------------------------------------
(* hwndObserver.dll: cbtClientSpawnerThreadFunc.                           *)

\* WaitForSingleObject returns at once for a null handle.  Then, under
\* watchdogMtx, the restart is counted and the process forgotten.
WaitForProcess(a) ==
  /\ watchdog[a] = "wait"
  /\ ~IsProcessRunning(a, hProcess[a])
  /\ hProcess' = [hProcess EXCEPT ![a] = 0]
  /\ restartCountByArch' = [restartCountByArch EXCEPT ![a] = @ + 1]
  /\ processIDByArch' = [processIDByArch EXCEPT ![a] = 0]
  /\ watchdog' = [watchdog EXCEPT ![a] = "check"]
  /\ UNCHANGED <<clientVars, mainVars, process, polls, late, faults>>

\* Mutants: the terminate signal is not looked at; one restart too few; one too many.
GivesUpDeaf(a) == restartCountByArch[a] >= MAX_CBT_RESTART_COUNT
GivesUpEarly(a) == cbtClientTerminateSignal \/ restartCountByArch[a] + 1 >= MAX_CBT_RESTART_COUNT
GivesUpLate(a) == cbtClientTerminateSignal \/ restartCountByArch[a] > MAX_CBT_RESTART_COUNT

GivesUp(a) == cbtClientTerminateSignal \/ restartCountByArch[a] >= MAX_CBT_RESTART_COUNT

CheckRestart(a) ==
  /\ watchdog[a] = "check"
  /\ watchdog' = [watchdog EXCEPT ![a] = IF GivesUp(a) THEN "done" ELSE "find"]
  /\ UNCHANGED <<clientVars, mainVars, hProcess, process, polls, late,
                 restartCountByArch, processIDByArch, faults>>

\* spawnCbtClient returns p, which is 0 for (0, nullptr).
SpawnReturns(a, p) ==
  /\ watchdog' = [watchdog EXCEPT ![a] = "record"]
  /\ process' = [process EXCEPT ![a] = p]

SpawnFind(a) ==
  /\ watchdog[a] = "find"
  /\ IF findCBTClientWindow(a)
       THEN SpawnReturns(a, 0)
       ELSE watchdog' = [watchdog EXCEPT ![a] = "create"] /\ UNCHANGED process
  /\ UNCHANGED <<clientVars, mainVars, hProcess, polls, late, restartCountByArch,
                 processIDByArch, faults>>

\* CreateProcess; the new process gets the next number.
SpawnCreate(a) ==
  /\ watchdog[a] = "create"
  /\ \/ \E p \in Process :
          /\ client[a][p] = "none"
          /\ \A q \in Process : q < p => client[a][q] # "none"
          /\ client' = [client EXCEPT ![a][p] = "starting"]
          /\ process' = [process EXCEPT ![a] = p]
          /\ polls' = [polls EXCEPT ![a] = 0]
          /\ watchdog' = [watchdog EXCEPT ![a] = "poll"]
          /\ UNCHANGED faults
     \/ /\ Fault
        /\ SpawnReturns(a, 0)
        /\ UNCHANGED <<client, polls>>
  /\ UNCHANGED <<quit, hook, mainVars, hProcess, late, restartCountByArch, processIDByArch>>

\* Mutant: the number of polls is not limited.
SpawnPollEndless(a) ==
  /\ watchdog[a] = "poll"
  /\ \/ /\ findCBTClientWindow(a)
        /\ SpawnReturns(a, process[a])
        /\ UNCHANGED polls
     \/ /\ ~findCBTClientWindow(a)
        /\ polls' = [polls EXCEPT ![a] = @ + 1]
        /\ UNCHANGED <<watchdog, process>>
  /\ UNCHANGED <<clientVars, mainVars, hProcess, late, restartCountByArch, processIDByArch, faults>>

\* One Sleep(100) and FindWindow; after the last one the process is given up,
\* running or not.
SpawnPoll(a) ==
  /\ watchdog[a] = "poll"
  /\ \/ /\ findCBTClientWindow(a)
        /\ SpawnReturns(a, process[a])
        /\ UNCHANGED <<polls, late>>
     \/ /\ ~findCBTClientWindow(a)
        /\ polls[a] + 1 < SpawnPolls
        /\ polls' = [polls EXCEPT ![a] = @ + 1]
        /\ UNCHANGED <<watchdog, process, late>>
     \/ /\ ~findCBTClientWindow(a)
        /\ polls[a] + 1 = SpawnPolls
        /\ SpawnReturns(a, 0)
        /\ late' = (late \/ IsProcessRunning(a, process[a]))
        /\ UNCHANGED polls
  /\ UNCHANGED <<clientVars, mainVars, hProcess, restartCountByArch, processIDByArch, faults>>

RecordProcess(a) ==
  /\ watchdog[a] = "record"
  /\ processIDByArch' = [processIDByArch EXCEPT ![a] = process[a]]
  /\ hProcess' = [hProcess EXCEPT ![a] = process[a]]
  /\ process' = [process EXCEPT ![a] = 0]
  /\ polls' = [polls EXCEPT ![a] = 0]
  /\ watchdog' = [watchdog EXCEPT ![a] = "wait"]
  /\ UNCHANGED <<clientVars, mainVars, late, restartCountByArch, faults>>

Watchdog(a) ==
  WaitForProcess(a) \/ CheckRestart(a) \/ SpawnFind(a) \/ SpawnCreate(a) \/ SpawnPoll(a)
  \/ RecordProcess(a)

-----------------------------------------------------------------------------
(* hwndObserver.dll: terminate() on NVDA's main thread.                    *)

Terminate ==
  /\ main = "running"
  /\ main' = "kill"
  /\ cbtClientTerminateSignal' = TRUE
  /\ announced' = {c \in Arch \X Process : c[2] \in Windows(c[1])}
  /\ waiting' = {a \in Arch : watchdog[a] = "wait" /\ hProcess[a] # 0}
  /\ UNCHANGED <<clientVars, watchdogVars, killing, killPolls, isWindowFound,
                 observerWindow, faults>>

\* killCbtClient: the message goes to whichever window FindWindow returns.
KillPost ==
  /\ main = "kill"
  /\ main' = "window"
  /\ killPolls' = 0
  /\ LET a == arches[killing]
     IN IF findCBTClientWindow(a)
          THEN \E p \in Windows(a) : quit' = [quit EXCEPT ![a] = @ \cup {p}]
          ELSE UNCHANGED quit
  /\ UNCHANGED <<client, hook, watchdogVars, cbtClientTerminateSignal, killing,
                 isWindowFound, observerWindow, announced, waiting, faults>>

KillPollWindow ==
  /\ main = "window"
  /\ main' = "process"
  /\ isWindowFound' = findCBTClientWindow(arches[killing])
  /\ UNCHANGED <<clientVars, watchdogVars, cbtClientTerminateSignal, killing, killPolls,
                 observerWindow, announced, waiting, faults>>

\* Mutant: the window is not looked at.
EndedProcess(a) == ~IsProcessRunning(a, processIDByArch[a])

\* Neither the window nor the process the watchdog knows of is there.
Ended(a) == ~isWindowFound /\ ~IsProcessRunning(a, processIDByArch[a])

\* Ended: on to the next architecture, or, after the last one, the invisible
\* window is destroyed, its thread joined and the cache closed.
KillPollProcess ==
  /\ main = "process"
  /\ IF Ended(arches[killing])
       THEN /\ killPolls' = 0
            /\ IF killing < Len(arches)
                 THEN main' = "kill" /\ killing' = killing + 1 /\ UNCHANGED observerWindow
                 ELSE main' = "ended" /\ observerWindow' = FALSE /\ UNCHANGED killing
       ELSE /\ killPolls' = killPolls + 1
            /\ main' = IF killPolls + 1 < KillPolls THEN "window" ELSE "failed"
            /\ UNCHANGED <<killing, observerWindow>>
  /\ UNCHANGED <<clientVars, watchdogVars, cbtClientTerminateSignal, isWindowFound,
                 announced, waiting, faults>>

Main == Terminate \/ KillPost \/ KillPollWindow \/ KillPollProcess

-----------------------------------------------------------------------------

Next ==
  \/ Main
  \/ \E a \in Arch : Watchdog(a) \/ \E p \in Process : Client(a, p) \/ Crash(a, p)

Spec == Init /\ [][Next]_vars

\* Threads and processes are scheduled; nothing makes a client crash or NVDA
\* terminate.
FairSpec ==
  /\ Spec
  /\ \A a \in Arch : WF_vars(Watchdog(a)) /\ \A p \in Process : WF_vars(Client(a, p))
  /\ WF_vars(KillPost \/ KillPollWindow \/ KillPollProcess)

-----------------------------------------------------------------------------
(* Properties.                                                             *)

\* The watchdog gives up before it has started MAX_CBT_RESTART_COUNT processes,
\* also when each of them fails in another way, because a start that fails
\* counts as a restart too.
SpawnsBounded ==
  \A a \in Arch : client[a][MAX_CBT_RESTART_COUNT] = "none"

\* As long as clients come up within the time-out, an architecture never has two
\* of them, and one that is in its message loop is the one whose hook is
\* installed.
OneClientHolds ==
  late \/ \A a \in Arch :
            /\ \A p, q \in Running(a) : p = q
            /\ \A p \in Windows(a) : hook[a] = p

\* When terminate() reports success, every client that had a window when it was
\* called has ended, whether or not the watchdog still knew of it.
NoSurvivor ==
  main = "ended" => \A c \in announced : client[c[1]][c[2]] = "exited"

\* A watchdog that waited for its process when terminate() was called never
\* starts another one: the signal is up before the process is told to quit.
NoRestartAfterTerminate ==
  main # "running" => \A a \in waiting : watchdog[a] \in {"wait", "check", "done"}

\* The clients that have come to install the hook, or have ended before.
HadTurn == [a \in Arch |-> {p \in Process : client[a][p] \notin
                                           {"none", "starting", "alone", "targeted"}}]

\* The abstract specification; the last process would be one too many.
Service == INSTANCE HookService WITH
  Turns <- Process \ {MAX_CBT_RESTART_COUNT},
  holder <- hook,
  spent <- HadTurn,
  contended <- late,
  closing <- waiting

\* The watchdogs, the clients and terminate() implement HookService: the hook goes
\* from one client to none to the next, each client has it once, fewer clients
\* than the limit have it, and where terminate() met a watchdog that waited for
\* its client, nobody installs the hook again.
HookServed == Service!Spec

\* The hook is restored after every crash: if NVDA keeps running and clients
\* come up within the time-out, in the end every architecture's hook is
\* installed for good, unless failures use up the restarts, of which the first
\* start is one.
HookComesBack ==
  []( /\ main = "running"
      /\ ~late
      /\ faults + 1 < MAX_CBT_RESTART_COUNT )
    => <>[](\A a \in Arch : hook[a] # 0)
=============================================================================
