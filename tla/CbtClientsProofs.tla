-------------------------- MODULE CbtClientsProofs --------------------------
(***************************************************************************)
(* Proofs about CbtClients, for any number of architectures, restarts,     *)
(* polls and faults.                                                       *)
(***************************************************************************)
EXTENDS CbtClients, SequenceTheorems, TLAPS

-----------------------------------------------------------------------------
(* The strengthening.                                                      *)

\* A watchdog that goes on has restarts left; each process it started has cost
\* one, and the one being counted has not been started yet.
Counted ==
  \A a \in Arch :
    /\ watchdog[a] \notin {"check", "done"} => restartCountByArch[a] < MAX_CBT_RESTART_COUNT
    /\ watchdog[a] \in {"check", "find", "create", "done"} => restartCountByArch[a] > 0
    /\ \A p \in Process :
         client[a][p] # "none" =>
           /\ p <= restartCountByArch[a]
           /\ watchdog[a] \in {"check", "find", "create", "done"} => p < restartCountByArch[a]

Polled == main \in {"window", "process"} => killPolls < KillPolls

TypeInv == TypeOK /\ Counted /\ Polled

\* While clients come up in time, the watchdog knows the only process there is.
Known ==
  late \/ \A a \in Arch :
    /\ watchdog[a] = "wait" => Running(a) \subseteq {hProcess[a]}
    /\ watchdog[a] \in {"poll", "record"} => Running(a) \subseteq {process[a]}
    /\ watchdog[a] \in {"check", "find", "create", "done"} => Running(a) = {}
    /\ \A p \in Process :
         client[a][p] \in {"hooked", "looping", "windowless"} => hook[a] = p

\* terminate() has raised the signal, and has seen the clients of the
\* architectures that are done end.
Signalled ==
  /\ main # "running" => cbtClientTerminateSignal
  /\ \A a \in waiting : a \in Arch /\ watchdog[a] \in {"wait", "check", "done"}

Gone(a) == \A c \in announced : c[1] = a => client[c[1]][c[2]] = "exited"

Ending ==
  /\ main = "running" => killing = 1 /\ announced = {} /\ waiting = {}
  /\ \A c \in announced : client[c[1]][c[2]] \in {"looping", "exited"}
  /\ \A i \in DOMAIN arches : i < killing => Gone(arches[i])
  /\ main = "process" /\ ~isWindowFound => Gone(arches[killing])
  /\ main = "ended" => \A a \in Arch : Gone(a)

-----------------------------------------------------------------------------
(* Type correctness.                                                       *)

LEMMA ConstantFacts ==
  /\ MAX_CBT_RESTART_COUNT \in Nat \ {0} /\ SpawnPolls \in Nat \ {0} /\ KillPolls \in Nat \ {0}
  /\ MaxFaults \in Nat
  /\ Process \subseteq Nat \ {0} /\ 0 \notin Process /\ MAX_CBT_RESTART_COUNT \in Process
BY CbtClientsAssumption DEF Process

LEMMA ArchFacts ==
  /\ Len(arches) \in Nat \ {0} /\ DOMAIN arches = 1..Len(arches)
  /\ \A i \in DOMAIN arches : arches[i] \in Arch
BY CbtClientsAssumption, EmptySeq, LenProperties DEF Arch

LEMMA TypeInit == Init => TypeInv
<1> SUFFICES ASSUME Init PROVE TypeInv
  OBVIOUS
<1>1. ClientTypeOK
  BY DEF Init, ClientTypeOK
<1>4. WatchdogTypeOK
  <2>1. 0 \in 0..SpawnPolls /\ 0 \in 0..MAX_CBT_RESTART_COUNT
    BY ConstantFacts
  <2> QED
    BY <2>1 DEF Init, WatchdogTypeOK
<1>2. MainTypeOK
  <2>1. 0 \in 0..KillPolls /\ 0 \in 0..MaxFaults /\ 1 \in DOMAIN arches
    BY ConstantFacts, ArchFacts
  <2> QED
    BY <2>1 DEF Init, MainTypeOK
<1>3. Counted /\ Polled
  BY ConstantFacts DEF Init, Counted, Polled
<1> QED
  BY <1>1, <1>2, <1>3, <1>4 DEF TypeInv, TypeOK

\* A watchdog's step, and a client's, is about one architecture.
LEMMA WatchdogTyped == ASSUME TypeInv, NEW a \in Arch, Watchdog(a) PROVE TypeInv'
<1> USE ConstantFacts DEF TypeInv, TypeOK, clientVars, mainVars
<1>1. CASE WaitForProcess(a)
  <2>1. ClientTypeOK'
    BY <1>1 DEF WaitForProcess, ClientTypeOK
  <2>2. WatchdogTypeOK'
    <3>1. restartCountByArch[a] + 1 \in 0..MAX_CBT_RESTART_COUNT
      BY <1>1 DEF WaitForProcess, WatchdogTypeOK, Counted
    <3> QED
      BY <1>1, <3>1 DEF WaitForProcess, WatchdogTypeOK
  <2>3. MainTypeOK'
    BY <1>1 DEF WaitForProcess, MainTypeOK
  <2>4. Counted' /\ Polled'
    BY <1>1 DEF WaitForProcess, ClientTypeOK, WatchdogTypeOK, MainTypeOK, Counted, Polled
  <2> QED
    BY <2>1, <2>2, <2>3, <2>4
<1>2. CASE CheckRestart(a)
  <2>1. ClientTypeOK'
    BY <1>2 DEF CheckRestart, GivesUp, ClientTypeOK
  <2>2. WatchdogTypeOK'
    BY <1>2 DEF CheckRestart, GivesUp, WatchdogTypeOK
  <2>3. MainTypeOK'
    BY <1>2 DEF CheckRestart, GivesUp, MainTypeOK
  <2>4. Counted' /\ Polled'
    BY <1>2 DEF CheckRestart, GivesUp, ClientTypeOK, WatchdogTypeOK, MainTypeOK, Counted, Polled
  <2> QED
    BY <2>1, <2>2, <2>3, <2>4
<1>3. CASE SpawnFind(a)
  <2>1. ClientTypeOK'
    BY <1>3 DEF SpawnFind, SpawnReturns, ClientTypeOK
  <2>2. WatchdogTypeOK'
    BY <1>3 DEF SpawnFind, SpawnReturns, WatchdogTypeOK
  <2>3. MainTypeOK'
    BY <1>3 DEF SpawnFind, SpawnReturns, MainTypeOK
  <2>4. Counted' /\ Polled'
    BY <1>3 DEF SpawnFind, SpawnReturns, ClientTypeOK, WatchdogTypeOK, MainTypeOK, Counted, Polled
  <2> QED
    BY <2>1, <2>2, <2>3, <2>4
<1>4. CASE SpawnCreate(a)
  <2>1. ClientTypeOK'
    BY <1>4 DEF SpawnCreate, SpawnReturns, Fault, ClientTypeOK
  <2>2. WatchdogTypeOK'
    BY <1>4 DEF SpawnCreate, SpawnReturns, Fault, WatchdogTypeOK
  <2>3. MainTypeOK'
    BY <1>4 DEF SpawnCreate, SpawnReturns, Fault, MainTypeOK
  <2>4. Counted' /\ Polled'
    <3>1. ASSUME NEW p \in Process, client[a][p] = "none",
                 \A q \in Process : q < p => client[a][q] # "none",
                 client' = [client EXCEPT ![a][p] = "starting"],
                 watchdog' = [watchdog EXCEPT ![a] = "poll"]
          PROVE  Counted'
      <4>1. p <= restartCountByArch[a]
        <5>1. CASE p = 1
          BY <1>4, <5>1 DEF SpawnCreate, WatchdogTypeOK, Counted
        <5>2. CASE p # 1
          <6>1. p - 1 \in Process /\ p - 1 < p
            BY <5>2 DEF Process
          <6>2. client[a][p - 1] # "none"
            BY <3>1, <6>1
          <6> QED
            BY <1>4, <6>1, <6>2 DEF SpawnCreate, WatchdogTypeOK, Counted
        <5> QED
          BY <5>1, <5>2
      <4>2. UNCHANGED restartCountByArch /\ watchdog[a] = "create"
        BY <1>4 DEF SpawnCreate
      <4> QED
        BY <3>1, <4>1, <4>2 DEF ClientTypeOK, WatchdogTypeOK, Counted
    <3>2. ASSUME SpawnReturns(a, 0), UNCHANGED client PROVE Counted'
      <4>1. /\ UNCHANGED <<client, restartCountByArch>> /\ watchdog[a] = "create"
            /\ watchdog' = [watchdog EXCEPT ![a] = "record"]
        BY <1>4, <3>2 DEF SpawnCreate, SpawnReturns
      <4> QED
        BY <4>1 DEF WatchdogTypeOK, Counted
    <3>3. Polled'
      BY <1>4 DEF SpawnCreate, Polled
    <3> QED
      BY <1>4, <3>1, <3>2, <3>3 DEF SpawnCreate
  <2> QED
    BY <2>1, <2>2, <2>3, <2>4
<1>5. CASE SpawnPoll(a)
  <2>1. ClientTypeOK'
    BY <1>5 DEF SpawnPoll, SpawnReturns, ClientTypeOK
  <2>2. WatchdogTypeOK'
    <3>1. polls[a] + 1 < SpawnPolls => polls[a] + 1 \in 0..SpawnPolls
      BY DEF WatchdogTypeOK
    <3> QED
      BY <1>5, <3>1 DEF SpawnPoll, SpawnReturns, WatchdogTypeOK
  <2>3. MainTypeOK'
    BY <1>5 DEF SpawnPoll, SpawnReturns, MainTypeOK
  <2>4. Counted' /\ Polled'
    BY <1>5 DEF SpawnPoll, SpawnReturns, ClientTypeOK, WatchdogTypeOK, MainTypeOK, Counted, Polled
  <2> QED
    BY <2>1, <2>2, <2>3, <2>4
<1>6. CASE RecordProcess(a)
  <2>1. ClientTypeOK'
    BY <1>6 DEF RecordProcess, ClientTypeOK
  <2>2. WatchdogTypeOK'
    BY <1>6 DEF RecordProcess, WatchdogTypeOK
  <2>3. MainTypeOK'
    BY <1>6 DEF RecordProcess, MainTypeOK
  <2>4. Counted' /\ Polled'
    BY <1>6 DEF RecordProcess, ClientTypeOK, WatchdogTypeOK, MainTypeOK, Counted, Polled
  <2> QED
    BY <2>1, <2>2, <2>3, <2>4
<1> QED
  BY <1>1, <1>2, <1>3, <1>4, <1>5, <1>6 DEF Watchdog

LEMMA ClientTyped ==
  ASSUME TypeInv, NEW a \in Arch, NEW p \in Process, Client(a, p) \/ Crash(a, p)
  PROVE  TypeInv'
<1> USE ConstantFacts DEF TypeInv, TypeOK, watchdogVars, mainVars
<1>1. CASE CheckAlone(a, p)
  <2>1. ClientTypeOK'
    <3>1. CASE Exit(a, p)
      BY <3>1 DEF Exit, ClientTypeOK
    <3>2. CASE Advance(a, p, "alone")
      BY <3>2 DEF Advance, ClientTypeOK
    <3> QED
      BY <1>1, <3>1, <3>2 DEF CheckAlone
  <2>2. WatchdogTypeOK'
    <3>1. UNCHANGED watchdogVars
      BY <1>1 DEF CheckAlone, Exit, Advance
    <3> QED BY <3>1 DEF WatchdogTypeOK
  <2>3. MainTypeOK'
    BY <1>1 DEF CheckAlone, Exit, Advance, MainTypeOK
  <2>4. Counted' /\ Polled'
    <3>1. \A b \in Arch, q \in Process : client'[b][q] # "none" => client[b][q] # "none"
      BY <1>1 DEF CheckAlone, Exit, Advance, ClientTypeOK
    <3> QED
      BY <1>1, <3>1 DEF CheckAlone, Counted, Polled
  <2> QED
    BY <2>1, <2>2, <2>3, <2>4
<1>2. CASE FindTarget(a, p)
  <2>1. ClientTypeOK'
    BY <1>2 DEF FindTarget, Exit, Advance, ClientTypeOK
  <2>2. WatchdogTypeOK'
    BY <1>2 DEF FindTarget, Exit, Advance, WatchdogTypeOK
  <2>3. MainTypeOK'
    BY <1>2 DEF FindTarget, Exit, Advance, MainTypeOK
  <2>4. Counted' /\ Polled'
    <3>1. \A b \in Arch, q \in Process : client'[b][q] # "none" => client[b][q] # "none"
      BY <1>2 DEF FindTarget, Exit, Advance, ClientTypeOK
    <3> QED
      BY <1>2, <3>1 DEF FindTarget, Counted, Polled
  <2> QED
    BY <2>1, <2>2, <2>3, <2>4
<1>3. CASE InstallCBTHook(a, p)
  <2>1. ClientTypeOK'
    BY <1>3 DEF InstallCBTHook, Fault, ClientTypeOK
  <2>2. WatchdogTypeOK'
    BY <1>3 DEF InstallCBTHook, Fault, WatchdogTypeOK
  <2>3. MainTypeOK'
    BY <1>3 DEF InstallCBTHook, Fault, MainTypeOK
  <2>4. Counted'
    <3>1. \A b \in Arch, q \in Process : client'[b][q] # "none" => client[b][q] # "none"
      BY <1>3 DEF InstallCBTHook, ClientTypeOK
    <3> QED
      BY <1>3, <3>1 DEF InstallCBTHook, Fault, MainTypeOK, Counted
  <2>5. Polled'
    BY <1>3 DEF InstallCBTHook, Fault, WatchdogTypeOK, Polled
  <2> QED
    BY <2>1, <2>2, <2>3, <2>4, <2>5
<1>4. CASE CreateClientWindow(a, p)
  <2>1. ClientTypeOK'
    BY <1>4 DEF CreateClientWindow, Advance, Fault, ClientTypeOK
  <2>2. WatchdogTypeOK'
    BY <1>4 DEF CreateClientWindow, Advance, Fault, WatchdogTypeOK
  <2>3. MainTypeOK'
    BY <1>4 DEF CreateClientWindow, Advance, Fault, MainTypeOK
  <2>4. Counted' /\ Polled'
    BY <1>4 DEF CreateClientWindow, Advance, Fault, ClientTypeOK, WatchdogTypeOK, MainTypeOK,
      Counted, Polled
  <2> QED
    BY <2>1, <2>2, <2>3, <2>4
<1>5. CASE QuitLoop(a, p)
  <2>1. ClientTypeOK'
    BY <1>5 DEF QuitLoop, Exit, ClientTypeOK
  <2>2. WatchdogTypeOK'
    BY <1>5 DEF QuitLoop, Exit, WatchdogTypeOK
  <2>3. MainTypeOK'
    BY <1>5 DEF QuitLoop, Exit, MainTypeOK
  <2>4. Counted' /\ Polled'
    BY <1>5 DEF QuitLoop, Exit, ClientTypeOK, WatchdogTypeOK, MainTypeOK, Counted, Polled
  <2> QED
    BY <2>1, <2>2, <2>3, <2>4
<1>6. CASE Crash(a, p)
  <2>1. ClientTypeOK'
    BY <1>6 DEF Crash, Exit, Fault, Running, ClientTypeOK
  <2>2. WatchdogTypeOK'
    BY <1>6 DEF Crash, Exit, Fault, Running, WatchdogTypeOK
  <2>3. MainTypeOK'
    BY <1>6 DEF Crash, Exit, Fault, Running, MainTypeOK
  <2>4. Counted' /\ Polled'
    BY <1>6 DEF Crash, Exit, Fault, Running, ClientTypeOK, WatchdogTypeOK, MainTypeOK,
      Counted, Polled
  <2> QED
    BY <2>1, <2>2, <2>3, <2>4
<1> QED
  BY <1>1, <1>2, <1>3, <1>4, <1>5, <1>6 DEF Client

LEMMA MainTyped == ASSUME TypeInv, Main PROVE TypeInv'
<1> USE ConstantFacts DEF TypeInv, TypeOK, clientVars, watchdogVars
<1>1. CASE Terminate
  <2>1. ClientTypeOK'
    BY <1>1 DEF Terminate, ClientTypeOK
  <2>2. WatchdogTypeOK'
    BY <1>1 DEF Terminate, WatchdogTypeOK
  <2>3. MainTypeOK'
    BY <1>1 DEF Terminate, MainTypeOK
  <2>4. Counted' /\ Polled'
    BY <1>1 DEF Terminate, ClientTypeOK, WatchdogTypeOK, MainTypeOK, Counted, Polled
  <2> QED
    BY <2>1, <2>2, <2>3, <2>4
<1>2. CASE KillPost
  <2>1. ClientTypeOK'
    BY <1>2, ArchFacts DEF KillPost, Windows, ClientTypeOK, MainTypeOK
  <2>2. WatchdogTypeOK'
    BY <1>2 DEF KillPost, Windows, Arch, WatchdogTypeOK
  <2>3. MainTypeOK'
    BY <1>2 DEF KillPost, Windows, Arch, MainTypeOK
  <2>4. Counted' /\ Polled'
    BY <1>2 DEF KillPost, Windows, Arch, ClientTypeOK, WatchdogTypeOK, MainTypeOK, Counted, Polled
  <2> QED
    BY <2>1, <2>2, <2>3, <2>4
<1>3. CASE KillPollWindow
  <2>1. ClientTypeOK'
    BY <1>3 DEF KillPollWindow, findCBTClientWindow, ClientTypeOK
  <2>2. WatchdogTypeOK'
    BY <1>3 DEF KillPollWindow, findCBTClientWindow, WatchdogTypeOK
  <2>3. MainTypeOK'
    BY <1>3 DEF KillPollWindow, findCBTClientWindow, MainTypeOK
  <2>4. Counted' /\ Polled'
    BY <1>3 DEF KillPollWindow, findCBTClientWindow, ClientTypeOK, WatchdogTypeOK, MainTypeOK,
      Counted, Polled
  <2> QED
    BY <2>1, <2>2, <2>3, <2>4
<1>4. CASE KillPollProcess
  <2>1. ClientTypeOK'
    BY <1>4 DEF KillPollProcess, ClientTypeOK
  <2>2. WatchdogTypeOK'
    BY <1>4 DEF KillPollProcess, WatchdogTypeOK
  <2>3. MainTypeOK'
    <3>1. /\ 0 \in 0..KillPolls /\ killPolls + 1 \in 0..KillPolls
          /\ killing < Len(arches) => killing + 1 \in DOMAIN arches
      BY <1>4, ArchFacts DEF KillPollProcess, MainTypeOK, Polled
    <3> QED
      BY <1>4, <3>1 DEF KillPollProcess, MainTypeOK
  <2>4. Counted' /\ Polled'
    BY <1>4 DEF KillPollProcess, ClientTypeOK, WatchdogTypeOK, MainTypeOK, Counted, Polled
  <2> QED
    BY <2>1, <2>2, <2>3, <2>4
<1> QED
  BY <1>1, <1>2, <1>3, <1>4 DEF Main

LEMMA TypeNext == ASSUME TypeInv, [Next]_vars PROVE TypeInv'
<1>1. CASE UNCHANGED vars
  BY <1>1 DEF vars, clientVars, watchdogVars, mainVars, TypeInv, TypeOK, ClientTypeOK,
              WatchdogTypeOK, MainTypeOK, Counted, Polled
<1> QED
  BY <1>1, WatchdogTyped, ClientTyped, MainTyped DEF Next

\* Type correctness: no counter passes its bound and no index leaves its range,
\* whichever calls fail and whichever clients crash.
THEOREM TypeCorrect == Spec => []TypeOK
<1>1. TypeInv => TypeOK
  BY DEF TypeInv
<1> QED
  BY <1>1, TypeInit, TypeNext, PTL DEF Spec

LEMMA ProcessesUnder == TypeInv => SpawnsBounded
BY ConstantFacts DEF TypeInv, TypeOK, WatchdogTypeOK, Counted, SpawnsBounded

\* A watchdog starts fewer processes than its limit, for any limit and whatever
\* fails: every start, also one that fails, has been counted.
THEOREM ProcessesBounded == Spec => []SpawnsBounded
BY ProcessesUnder, TypeInit, TypeNext, PTL DEF Spec

-----------------------------------------------------------------------------
(* One client, one hook.                                                   *)

\* A process that does not run has not been started or has ended.
LEMMA RunningIff ==
  ASSUME TypeInv, NEW a \in Arch, NEW p \in Process
  PROVE  p \in Running(a) <=> client[a][p] \notin {"none", "exited"}
BY DEF Running

\* A watchdog's step keeps what it knows.
LEMMA WatchdogKnown == ASSUME TypeInv, Known, NEW a \in Arch, Watchdog(a) PROVE Known'
<1> USE ConstantFacts DEF TypeInv, TypeOK, ClientTypeOK, WatchdogTypeOK, clientVars, mainVars
<1>1. CASE WaitForProcess(a)
  BY <1>1 DEF WaitForProcess, IsProcessRunning, Running, Known
<1>2. CASE CheckRestart(a)
  BY <1>2 DEF CheckRestart, Running, Known
<1>3. CASE SpawnFind(a)
  <2>1. ~late => ~findCBTClientWindow(a)
    BY <1>3 DEF SpawnFind, Known, findCBTClientWindow, Windows, Running
  <2> QED
    BY <1>3, <2>1 DEF SpawnFind, Running, Known
<1>4. CASE SpawnCreate(a)
  <2>1. UNCHANGED <<late, hProcess, hook>> /\ watchdog[a] = "create"
    BY <1>4 DEF SpawnCreate
  <2>2. ~late => Running(a) = {}
    BY <2>1 DEF Known
  <2>3. ASSUME NEW p \in Process,
               client' = [client EXCEPT ![a][p] = "starting"],
               process' = [process EXCEPT ![a] = p],
               watchdog' = [watchdog EXCEPT ![a] = "poll"]
        PROVE  Known'
    <3>1. ~late => Running(a)' \subseteq {p}
      BY <2>2, <2>3 DEF Running
    <3>2. \A b \in Arch \ {a} : Running(b)' = Running(b)
      BY <2>3 DEF Running
    <3>3. ~late => \A q \in Process : client'[a][q] \in {"none", "exited", "starting"}
      BY <2>2, <2>3 DEF Running
    <3>4. process'[a] = p /\ watchdog'[a] = "poll"
          /\ \A b \in Arch \ {a} : client'[b] = client[b] /\ process'[b] = process[b]
                                  /\ watchdog'[b] = watchdog[b]
      BY <2>3
    <3>5. \A q \in Process : client'[a][q] \in {"hooked", "looping", "windowless"} => late
      BY <3>3
    <3>6. UNCHANGED <<hProcess, hook, late>>
      BY <2>1
    <3> HIDE DEF TypeInv, TypeOK, ClientTypeOK, WatchdogTypeOK
    <3> QED
      BY <3>1, <3>2, <3>4, <3>5, <3>6 DEF Known
  <2>4. ASSUME SpawnReturns(a, 0), UNCHANGED client PROVE Known'
    BY <2>1, <2>2, <2>4 DEF SpawnReturns, Running, Known
  <2> QED
    BY <1>4, <2>3, <2>4 DEF SpawnCreate
<1>5. CASE SpawnPoll(a)
  <2>2. UNCHANGED <<client, hook, hProcess>> /\ watchdog[a] = "poll"
    BY <1>5 DEF SpawnPoll
  <2>3. \A b \in Arch : Running(b)' = Running(b)
    BY <2>2 DEF Running
  <2>4. ~late => Running(a) \subseteq {process[a]}
    BY <2>2 DEF Known
  <2>5. ASSUME ~late'
        PROVE  Running(a) \subseteq {process'[a]} /\ watchdog'[a] \in {"poll", "record"}
    <3>1. ~late
      BY <1>5, <2>5 DEF SpawnPoll
    <3>2. CASE UNCHANGED process
      BY <1>5, <2>4, <3>1, <3>2 DEF SpawnPoll, SpawnReturns
    <3>3. CASE SpawnReturns(a, process[a])
      BY <2>4, <3>1, <3>3 DEF SpawnReturns
    <3>4. CASE SpawnReturns(a, 0) /\ ~IsProcessRunning(a, process[a])
      BY <2>4, <3>1, <3>4 DEF SpawnReturns, IsProcessRunning
    <3> QED
      BY <1>5, <2>5, <3>2, <3>3, <3>4 DEF SpawnPoll
  <2>6. \A b \in Arch \ {a} : watchdog'[b] = watchdog[b] /\ process'[b] = process[b]
    BY <1>5 DEF SpawnPoll, SpawnReturns
  <2>7. late => late'
    BY <1>5 DEF SpawnPoll
  <2> QED
    BY <2>2, <2>3, <2>5, <2>6, <2>7 DEF Known
<1>6. CASE RecordProcess(a)
  BY <1>6 DEF RecordProcess, Running, Known
<1> QED
  BY <1>1, <1>2, <1>3, <1>4, <1>5, <1>6 DEF Watchdog

LEMMA ClientKnown ==
  ASSUME TypeInv, Known, NEW a \in Arch, NEW p \in Process, Client(a, p) \/ Crash(a, p)
  PROVE  Known'
<1> USE ConstantFacts DEF TypeInv, TypeOK, ClientTypeOK, watchdogVars, mainVars
<1>1. CASE CheckAlone(a, p)
  BY <1>1 DEF CheckAlone, Exit, Advance, Running, Known
<1>2. CASE FindTarget(a, p)
  BY <1>2 DEF FindTarget, Exit, Advance, Running, Known
<1>3. CASE InstallCBTHook(a, p)
  <2>1. p \in Running(a) /\ UNCHANGED watchdogVars /\ client[a][p] = "targeted"
    BY <1>3 DEF InstallCBTHook, Running
  <2>2. ~late => Running(a) = {p}
    <3>1. watchdog[a] \in {"wait", "check", "find", "create", "poll", "record", "done"}
      BY DEF WatchdogTypeOK
    <3> QED
      BY <2>1, <3>1 DEF Known
  <2>3. ASSUME NEW b \in Arch, b # a
        PROVE  client'[b] = client[b] /\ hook'[b] = hook[b] /\ Running(b)' = Running(b)
    BY <1>3, <2>3 DEF InstallCBTHook, Running
  <2>4. Running(a)' \subseteq Running(a)
    BY <1>3 DEF InstallCBTHook, Running
  <2>5. ASSUME ~late, NEW q \in Process, client'[a][q] \in {"hooked", "looping", "windowless"}
        PROVE  hook'[a] = q
    <3>1. q = p
      BY <2>2, <2>4, <2>5 DEF Running
    <3> QED
      BY <1>3, <2>5, <3>1 DEF InstallCBTHook
  <2> QED
    BY <2>1, <2>3, <2>4, <2>5 DEF Known
<1>4. CASE CreateClientWindow(a, p)
  BY <1>4 DEF CreateClientWindow, Advance, Fault, Running, Known
<1>5. CASE QuitLoop(a, p)
  BY <1>5 DEF QuitLoop, Exit, Running, Known
<1>6. CASE Crash(a, p)
  BY <1>6 DEF Crash, Exit, Fault, Running, Known
<1> QED
  BY <1>1, <1>2, <1>3, <1>4, <1>5, <1>6 DEF Client

LEMMA KnownNext == ASSUME TypeInv, Known, [Next]_vars PROVE Known'
<1>1. CASE UNCHANGED vars
  BY <1>1 DEF vars, clientVars, watchdogVars, Known, Running
<1>2. CASE Main
  <2>1. UNCHANGED <<client, hook, watchdogVars>>
    BY <1>2 DEF Main, Terminate, KillPost, KillPollWindow, KillPollProcess, clientVars
  <2> QED
    BY <2>1 DEF watchdogVars, Known, Running
<1> QED
  BY <1>1, <1>2, WatchdogKnown, ClientKnown DEF Next

\* For any number of restarts and any crashes: while clients come up within the
\* time-out, an architecture has one of them and its hook is the one installed.
THEOREM OneClient == Spec => []OneClientHolds
<1>1. Init => Known
  BY DEF Init, Known, Running
<1>2. TypeInv /\ Known => OneClientHolds
  <2> SUFFICES ASSUME TypeInv, Known, ~late, NEW a \in Arch
               PROVE  /\ \A p, q \in Running(a) : p = q
                      /\ \A p \in Windows(a) : hook[a] = p
    BY DEF OneClientHolds
  <2>1. watchdog[a] \in {"wait", "check", "find", "create", "poll", "record", "done"}
    BY DEF TypeInv, TypeOK, WatchdogTypeOK
  <2> QED
    BY <2>1 DEF Known, Windows
<1> QED
  BY <1>1, <1>2, TypeInit, TypeNext, KnownNext, PTL DEF Spec

-----------------------------------------------------------------------------
(* terminate().                                                            *)

LEMMA SignalledNext == ASSUME TypeInv, Signalled, Ending, [Next]_vars PROVE Signalled'
<1> USE DEF TypeInv, TypeOK, WatchdogTypeOK, Signalled
<1>1. CASE UNCHANGED vars
  BY <1>1 DEF vars, watchdogVars, mainVars
<1>2. CASE Main
  BY <1>2 DEF Main, Terminate, KillPost, KillPollWindow, KillPollProcess, watchdogVars
<1>3. ASSUME NEW a \in Arch, Watchdog(a) PROVE Signalled'
  <2>1. UNCHANGED mainVars
    BY <1>3 DEF Watchdog, WaitForProcess, CheckRestart, SpawnFind, SpawnCreate, SpawnPoll,
                RecordProcess
  <2>2. \A b \in Arch \ {a} : watchdog'[b] = watchdog[b]
    BY <1>3 DEF Watchdog, WaitForProcess, CheckRestart, SpawnFind, SpawnCreate, SpawnPoll,
                RecordProcess, SpawnReturns
  <2>3. a \in waiting => watchdog'[a] \in {"check", "done"}
    BY <1>3 DEF Ending, Watchdog, WaitForProcess, CheckRestart, GivesUp, SpawnFind,
                SpawnCreate, SpawnPoll, RecordProcess
  <2> QED
    BY <2>1, <2>2, <2>3 DEF mainVars
<1>4. ASSUME NEW a \in Arch, NEW p \in Process, Client(a, p) \/ Crash(a, p) PROVE Signalled'
  BY <1>4 DEF Client, CheckAlone, FindTarget, InstallCBTHook, CreateClientWindow, QuitLoop,
              Crash, watchdogVars, mainVars
<1> QED
  BY <1>1, <1>2, <1>3, <1>4 DEF Next

LEMMA EndingNext == ASSUME TypeInv, Ending, [Next]_vars PROVE Ending'
<1> USE DEF TypeInv, TypeOK, ClientTypeOK, MainTypeOK
<1>1. CASE UNCHANGED vars
  BY <1>1 DEF vars, clientVars, mainVars, Ending, Gone
<1>2. ASSUME UNCHANGED mainVars,
             \A c \in announced : client[c[1]][c[2]] = "exited" => client'[c[1]][c[2]] = "exited",
             \A c \in announced : client'[c[1]][c[2]] \in {"looping", "exited"}
      PROVE  Ending'
  BY <1>2 DEF mainVars, Ending, Gone
<1>3. ASSUME NEW a \in Arch, Watchdog(a) PROVE Ending'
  BY <1>2, <1>3 DEF Ending, Watchdog, WaitForProcess, CheckRestart, SpawnFind, SpawnCreate,
     SpawnPoll, RecordProcess, clientVars
<1>4. ASSUME NEW a \in Arch, NEW p \in Process, Client(a, p) \/ Crash(a, p) PROVE Ending'
  <2>1. UNCHANGED mainVars
    BY <1>4 DEF Client, CheckAlone, FindTarget, InstallCBTHook, CreateClientWindow, QuitLoop, Crash
  <2>2. ASSUME NEW b \in Arch, NEW q \in Process, client[b][q] \in {"looping", "exited"}
        PROVE  client'[b][q] \in {client[b][q], "exited"}
    <3>1. CASE a = b /\ p = q
      BY <1>4, <2>2, <3>1 DEF Client, CheckAlone, FindTarget, InstallCBTHook,
         CreateClientWindow, QuitLoop, Crash, Exit, Running
    <3>2. CASE ~(a = b /\ p = q)
      BY <1>4, <2>2, <3>2 DEF Client, CheckAlone, FindTarget, InstallCBTHook,
         CreateClientWindow, QuitLoop, Crash, Exit, Advance
    <3> QED
      BY <3>1, <3>2
  <2>3. \A c \in announced : c[1] \in Arch /\ c[2] \in Process
    OBVIOUS
  <2> QED
    BY <1>2, <2>1, <2>2, <2>3 DEF Ending
<1>5. CASE Terminate
  BY <1>5, ArchFacts DEF Terminate, Ending, Gone, clientVars, Windows
<1>6. CASE KillPost
  BY <1>6 DEF KillPost, Ending, Gone
<1>7. CASE KillPollWindow
  BY <1>7, ArchFacts DEF KillPollWindow, Ending, Gone, clientVars, findCBTClientWindow, Windows
<1>8. CASE KillPollProcess
  <2>1. UNCHANGED <<client, announced, waiting, isWindowFound>> /\ main = "process"
    BY <1>8 DEF KillPollProcess, clientVars
  <2>2. \A a \in Arch : Gone(a)' <=> Gone(a)
    BY <2>1 DEF Gone
  <2>3. \A c \in announced : client'[c[1]][c[2]] \in {"looping", "exited"}
    BY <2>1 DEF Ending
  <2>4. CASE ~Ended(arches[killing])
    BY <1>8, <2>1, <2>2, <2>3, <2>4, ArchFacts DEF KillPollProcess, Ending
  <2>5. CASE Ended(arches[killing])
    <3>1. Gone(arches[killing])
      BY <2>1, <2>5 DEF Ending, Ended
    <3>2. \A i \in DOMAIN arches : i <= killing => Gone(arches[i])
      BY <3>1, ArchFacts DEF Ending
    <3>3. CASE killing < Len(arches)
      <4>1. main' = "kill" /\ killing' = killing + 1
        BY <1>8, <2>5, <3>3 DEF KillPollProcess
      <4>2. \A i \in DOMAIN arches : i < killing' => Gone(arches[i])'
        BY <2>2, <3>2, <4>1, ArchFacts
      <4> QED
        BY <2>1, <2>3, <4>1, <4>2 DEF Ending
    <3>4. CASE ~(killing < Len(arches))
      <4>1. main' = "ended" /\ killing' = killing
        BY <1>8, <2>5, <3>4 DEF KillPollProcess
      <4>2. \A i \in DOMAIN arches : Gone(arches[i])'
        BY <2>2, <3>2, <3>4, ArchFacts
      <4>3. \A a \in Arch : Gone(a)'
        BY <4>2 DEF Arch
      <4> QED
        BY <2>1, <2>3, <4>1, <4>2, <4>3 DEF Ending
    <3> QED
      BY <3>3, <3>4
  <2> QED
    BY <2>4, <2>5
<1> QED
  BY <1>1, <1>3, <1>4, <1>5, <1>6, <1>7, <1>8 DEF Next, Main

LEMMA EndInit == Init => Signalled /\ Ending
BY ArchFacts DEF Init, Signalled, Ending, Gone

\* For any number of architectures: a watchdog that waited for its client when
\* terminate() was called never starts another one.
THEOREM NoRestart == Spec => []NoRestartAfterTerminate
<1>1. Signalled => NoRestartAfterTerminate
  BY DEF Signalled, NoRestartAfterTerminate
<1> QED
  BY <1>1, EndInit, TypeInit, TypeNext, SignalledNext, EndingNext, PTL DEF Spec

\* For any number of architectures: when terminate() succeeds, every client
\* that had a window has ended.
THEOREM TerminateEndsClients == Spec => []NoSurvivor
<1>1. TypeInv /\ Ending => NoSurvivor
  BY DEF TypeInv, TypeOK, MainTypeOK, Ending, Gone, NoSurvivor
<1> QED
  BY <1>1, EndInit, TypeInit, TypeNext, EndingNext, PTL DEF Spec

-----------------------------------------------------------------------------
(* The hook service.                                                       *)

Waits == {"none", "starting", "alone", "targeted"}

\* An installed hook has a living client, and the process that the watchdog has
\* found a window of has had its turn.
Served ==
  /\ \A a \in Arch : hook[a] # 0 => client[a][hook[a]] \in {"hooked", "looping", "windowless"}
  /\ late \/ \A a \in Arch :
       /\ watchdog[a] = "wait" /\ hProcess[a] # 0 => client[a][hProcess[a]] \notin Waits
       /\ watchdog[a] = "record" /\ process[a] # 0 => client[a][process[a]] \notin Waits

ServiceInv == TypeInv /\ Known /\ Signalled /\ Ending /\ Served

LEMMA ServiceInit == Init => ServiceInv
<1>1. Init => Known /\ Served
  BY DEF Init, Known, Served, Running
<1> QED
  BY <1>1, TypeInit, EndInit DEF ServiceInv

\* One process moves on.
LEMMA ProcessMoves ==
  ASSUME TypeInv, NEW a \in Arch, NEW p \in Process, NEW state,
         client' = [client EXCEPT ![a][p] = state]
  PROVE  /\ client'[a][p] = state
         /\ \A b \in Arch, q \in Process : b # a \/ q # p => client'[b][q] = client[b][q]
BY DEF TypeInv, TypeOK, ClientTypeOK

LEMMA ServedNext == ASSUME ServiceInv, [Next]_vars PROVE Served'
<1> USE ConstantFacts DEF ServiceInv, TypeInv, TypeOK, ClientTypeOK, WatchdogTypeOK
<1>1. ASSUME UNCHANGED <<client, hook, watchdog, hProcess, process, late>> PROVE Served'
  BY <1>1 DEF Served
<1>2. CASE Main \/ UNCHANGED vars
  BY <1>1, <1>2 DEF Main, Terminate, KillPost, KillPollWindow, KillPollProcess, vars, clientVars,
     watchdogVars
<1>3. ASSUME NEW a \in Arch, Watchdog(a) PROVE Served'
  <2>1. CASE WaitForProcess(a) \/ CheckRestart(a) \/ SpawnFind(a)
    BY <2>1 DEF Served, WaitForProcess, CheckRestart, SpawnFind, SpawnReturns, clientVars
  <2>2. CASE SpawnCreate(a)
    <3>1. UNCHANGED <<hook, hProcess, late>> /\ watchdog[a] = "create"
      BY <2>2 DEF SpawnCreate
    <3>2. ASSUME NEW p \in Process, client[a][p] = "none",
                 client' = [client EXCEPT ![a][p] = "starting"],
                 process' = [process EXCEPT ![a] = p],
                 watchdog' = [watchdog EXCEPT ![a] = "poll"]
          PROVE  Served'
      <4>1. \A b \in Arch, q \in Process : client[b][q] # "none" => client'[b][q] = client[b][q]
        BY <3>2, ProcessMoves
      <4>2. watchdog'[a] = "poll"
            /\ \A b \in Arch \ {a} : watchdog'[b] = watchdog[b] /\ process'[b] = process[b]
        BY <3>2
      <4>3. \A b \in Arch : hook'[b] # 0 =>
              client'[b][hook'[b]] \in {"hooked", "looping", "windowless"}
        <5> SUFFICES ASSUME NEW b \in Arch, hook[b] # 0
                     PROVE  client'[b][hook[b]] \in {"hooked", "looping", "windowless"}
          BY <3>1
        <5>1. hook[b] \in Process /\ client[b][hook[b]] \in {"hooked", "looping", "windowless"}
          BY DEF Served
        <5> QED
          BY <4>1, <5>1
      <4>4. ASSUME ~late, NEW b \in Arch
            PROVE  /\ watchdog'[b] = "wait" /\ hProcess[b] # 0 =>
                        client'[b][hProcess[b]] \notin Waits
                   /\ watchdog'[b] = "record" /\ process'[b] # 0 =>
                        client'[b][process'[b]] \notin Waits
        <5>1. \A q \in Process : client[b][q] \notin Waits => client'[b][q] \notin Waits
          BY <4>1 DEF Waits
        <5>2. CASE b = a
          BY <4>2, <5>2
        <5>3. CASE b # a
          <6>1. watchdog'[b] = watchdog[b] /\ process'[b] = process[b]
            BY <4>2, <5>3
          <6>2. /\ watchdog[b] = "wait" /\ hProcess[b] # 0 => client[b][hProcess[b]] \notin Waits
                /\ watchdog[b] = "record" /\ process[b] # 0 => client[b][process[b]] \notin Waits
            BY <4>4 DEF Served
          <6>3. hProcess[b] \in Process \cup {0} /\ process[b] \in Process \cup {0}
            OBVIOUS
          <6> HIDE DEF ServiceInv, TypeInv, TypeOK, ClientTypeOK, WatchdogTypeOK
          <6> QED
            BY <5>1, <6>1, <6>2, <6>3
        <5> QED
          BY <5>2, <5>3
      <4> QED
        BY <3>1, <4>3, <4>4 DEF Served
    <3>3. CASE SpawnReturns(a, 0) /\ UNCHANGED client
      BY <3>1, <3>3 DEF Served, SpawnReturns
    <3> QED
      BY <2>2, <3>2, <3>3 DEF SpawnCreate
  <2>3. CASE SpawnPoll(a)
    <3>1. UNCHANGED <<client, hook, hProcess>> /\ watchdog[a] = "poll" /\ (late => late')
      BY <2>3 DEF SpawnPoll, clientVars
    <3>2. \A b \in Arch \ {a} : watchdog'[b] = watchdog[b] /\ process'[b] = process[b]
      BY <2>3 DEF SpawnPoll, SpawnReturns
    <3>3. ASSUME ~late, watchdog'[a] = "record", process'[a] # 0
          PROVE  client'[a][process'[a]] \notin Waits
      <4>1. findCBTClientWindow(a) /\ process'[a] = process[a]
        BY <2>3, <3>3 DEF SpawnPoll, SpawnReturns
      <4>2. PICK q \in Process : client[a][q] = "looping"
        BY <4>1 DEF findCBTClientWindow, Windows
      <4>3. q = process[a]
        BY <3>1, <3>3, <4>2 DEF Known, Running
      <4> QED
        BY <3>1, <4>1, <4>2, <4>3 DEF Waits
    <3>4. watchdog'[a] # "wait"
      BY <2>3 DEF SpawnPoll, SpawnReturns
    <3> QED
      BY <3>1, <3>2, <3>3, <3>4 DEF Served
  <2>4. CASE RecordProcess(a)
    BY <2>4 DEF Served, RecordProcess, clientVars
  <2> QED
    BY <1>3, <2>1, <2>2, <2>3, <2>4 DEF Watchdog
<1>4. ASSUME NEW a \in Arch, NEW p \in Process, Client(a, p) \/ Crash(a, p) PROVE Served'
  <2>1. UNCHANGED <<watchdog, hProcess, process, late>>
    BY <1>4 DEF Client, CheckAlone, FindTarget, InstallCBTHook, CreateClientWindow, QuitLoop, Crash,
       watchdogVars
  <2>2. PICK state : client' = [client EXCEPT ![a][p] = state]
    BY <1>4 DEF Client, CheckAlone, FindTarget, InstallCBTHook, CreateClientWindow, QuitLoop, Crash,
       Exit, Advance
  <2>3. client[a][p] \notin Waits => client'[a][p] \notin Waits
    BY <1>4 DEF Waits, Client, CheckAlone, FindTarget, InstallCBTHook, CreateClientWindow, QuitLoop,
       Crash, Exit, Advance
  <2>4. \A b \in Arch, q \in Process : client[b][q] \notin Waits => client'[b][q] \notin Waits
    BY <2>2, <2>3, ProcessMoves
  <2>5. \A b \in Arch : hook'[b] # 0 =>
          client'[b][hook'[b]] \in {"hooked", "looping", "windowless"}
    <3>1. CASE hook' = [hook EXCEPT ![a] = IF @ = p THEN 0 ELSE @]
      <4>1. \A b \in Arch : hook'[b] # 0 => hook'[b] = hook[b] /\ (b # a \/ hook[b] # p)
        BY <3>1
      <4> QED
        BY <2>2, <4>1, ProcessMoves DEF Served
    <3>2. CASE hook' = hook /\ client'[a][p] \in {"hooked", "looping", "windowless"}
      BY <2>2, <3>2, ProcessMoves DEF Served
    <3>3. CASE hook' = hook /\ client[a][p] \in Waits
      BY <2>2, <3>3, ProcessMoves DEF Served, Waits
    <3>4. CASE hook' \in {[hook EXCEPT ![a] = p], [hook EXCEPT ![a] = 0]} /\ InstallCBTHook(a, p)
      <4>1. CASE hook' = [hook EXCEPT ![a] = p] /\ client' = [client EXCEPT ![a][p] = "hooked"]
        BY <4>1, ProcessMoves DEF Served
      <4>2. CASE hook' = [hook EXCEPT ![a] = 0]
        BY <2>2, <4>2, ProcessMoves DEF Served
      <4> QED
        BY <3>4, <4>1, <4>2 DEF InstallCBTHook
    <3> QED
      BY <1>4, <3>1, <3>2, <3>3, <3>4 DEF Waits, Client, CheckAlone, FindTarget, InstallCBTHook,
         CreateClientWindow, QuitLoop, Crash, Exit, Advance
  <2> QED
    BY <2>1, <2>4, <2>5 DEF Served
<1> QED
  BY <1>2, <1>3, <1>4 DEF Next

\* What a client's move is to the service.
LEMMA TurnTaken ==
  ASSUME TypeInv, NEW a \in Arch, NEW p \in Process, NEW state,
         client' = [client EXCEPT ![a][p] = state], state \notin Waits
  PROVE  HadTurn' = [HadTurn EXCEPT ![a] = @ \cup {p}]
<1>1. \A b \in Arch : HadTurn[b] = {q \in Process : client[b][q] \notin Waits}
  BY DEF HadTurn, Waits
<1>2. HadTurn' = [b \in Arch |-> {q \in Process : client'[b][q] \notin Waits}]
  BY DEF HadTurn, Waits
<1>3. ASSUME NEW b \in Arch
      PROVE  {q \in Process : client'[b][q] \notin Waits}
               = IF b = a THEN HadTurn[b] \cup {p} ELSE HadTurn[b]
  <2>1. client'[a][p] \notin Waits
    BY ProcessMoves
  <2>2. \A q \in Process : b # a \/ q # p => client'[b][q] = client[b][q]
    BY ProcessMoves
  <2> QED
    BY <1>1, <2>1, <2>2
<1>4. DOMAIN HadTurn = Arch
  BY DEF HadTurn
<1> QED
  BY <1>2, <1>3, <1>4 DEF HadTurn

LEMMA TurnWaits ==
  ASSUME TypeInv, NEW a \in Arch, NEW p \in Process, NEW state,
         client' = [client EXCEPT ![a][p] = state],
         state \in Waits <=> client[a][p] \in Waits
  PROVE  HadTurn' = HadTurn
<1>1. \A b \in Arch, q \in Process : client'[b][q] \in Waits <=> client[b][q] \in Waits
  BY ProcessMoves
<1> QED
  BY <1>1 DEF HadTurn, Waits

\* Every step is one of the service's, or none.
LEMMA ServiceStep == ASSUME ServiceInv, [Next]_vars PROVE [Service!Next]_Service!vars
<1> USE ConstantFacts DEF ServiceInv, TypeInv, TypeOK
<1> DEFINE Turns == Process \ {MAX_CBT_RESTART_COUNT}
<1>1. ASSUME UNCHANGED <<client, hook, late, waiting>> PROVE UNCHANGED Service!vars
  BY <1>1 DEF Service!vars, HadTurn
<1>2. CASE UNCHANGED vars
  BY <1>1, <1>2 DEF vars, clientVars, watchdogVars, mainVars
<1>3. CASE Main
  <2>1. CASE Terminate
    <3>1. waiting = {} /\ waiting' \subseteq Arch /\ UNCHANGED <<client, hook, late>>
      BY <2>1 DEF Terminate, Ending, clientVars, watchdogVars
    <3>2. Service!Close
      BY <3>1 DEF Service!Close, HadTurn
    <3> QED
      BY <3>2 DEF Service!Next
  <2>2. CASE KillPost \/ KillPollWindow \/ KillPollProcess
    BY <1>1, <2>2 DEF KillPost, KillPollWindow, KillPollProcess, clientVars, watchdogVars
  <2> QED
    BY <1>3, <2>1, <2>2 DEF Main
<1>4. ASSUME NEW a \in Arch, Watchdog(a) PROVE [Service!Next]_Service!vars
  <2>1. CASE WaitForProcess(a) \/ CheckRestart(a) \/ SpawnFind(a) \/ RecordProcess(a)
    BY <1>1, <2>1 DEF WaitForProcess, CheckRestart, SpawnFind, RecordProcess, clientVars, mainVars
  <2>2. CASE SpawnCreate(a)
    <3>1. UNCHANGED <<hook, late, waiting>>
      BY <2>2 DEF SpawnCreate, mainVars
    <3>2. ASSUME NEW p \in Process, client[a][p] = "none",
                 client' = [client EXCEPT ![a][p] = "starting"]
          PROVE  UNCHANGED Service!vars
      BY <3>1, <3>2, TurnWaits DEF Service!vars, Waits
    <3>3. CASE UNCHANGED client
      BY <1>1, <3>1, <3>3
    <3> QED
      BY <2>2, <3>2, <3>3 DEF SpawnCreate
  <2>3. CASE SpawnPoll(a)
    <3>1. UNCHANGED <<client, hook, waiting>> /\ late' \in {late, TRUE}
      BY <2>3 DEF SpawnPoll, clientVars, mainVars, WatchdogTypeOK
    <3>2. CASE late' = late
      BY <1>1, <3>1, <3>2
    <3>3. CASE late' = TRUE
      <4>1. Service!GiveUp
        BY <3>1, <3>3 DEF Service!GiveUp, HadTurn
      <4> QED
        BY <4>1 DEF Service!Next
    <3> QED
      BY <3>1, <3>2, <3>3
  <2> QED
    BY <1>4, <2>1, <2>2, <2>3 DEF Watchdog
<1>5. ASSUME NEW a \in Arch, NEW p \in Process, Client(a, p) \/ Crash(a, p)
      PROVE  [Service!Next]_Service!vars
  <2>1. UNCHANGED <<late, waiting>>
    BY <1>5 DEF Client, CheckAlone, FindTarget, InstallCBTHook, CreateClientWindow, QuitLoop, Crash,
       watchdogVars, mainVars
  <2>2. p \in Turns
    <3>1. client[a][p] # "none"
      BY <1>5 DEF Client, CheckAlone, FindTarget, InstallCBTHook, CreateClientWindow, QuitLoop,
         Crash, Running
    <3> QED
      BY <3>1, ProcessesUnder DEF SpawnsBounded
  <2>3. CASE Exit(a, p)
    <3>1. HadTurn' = [HadTurn EXCEPT ![a] = @ \cup {p}]
      <4>1. client' = [client EXCEPT ![a][p] = "exited"] /\ "exited" \notin Waits
        BY <2>3 DEF Exit, Waits
      <4> QED
        BY <4>1, TurnTaken
    <3>2. Service!End(a, p)
      BY <2>1, <2>3, <3>1 DEF Service!End, Service!Spend, Exit
    <3> QED
      BY <2>2, <3>2 DEF Service!Next
  <2>4. ASSUME NEW state, Advance(a, p, state), state \in Waits <=> client[a][p] \in Waits
        PROVE  UNCHANGED Service!vars
    BY <2>1, <2>4, TurnWaits DEF Advance, Service!vars
  <2>5. CASE InstallCBTHook(a, p)
    <3>1. client[a][p] = "targeted" /\ p \notin HadTurn[a]
      BY <2>5 DEF InstallCBTHook, HadTurn
    <3>2. ASSUME ~late PROVE hook[a] = 0 /\ a \notin waiting
      <4>1. watchdog[a] \in {"wait", "check", "find", "create", "poll", "record", "done"}
        BY DEF WatchdogTypeOK
      <4>2. \A q \in Running(a) : q = p
        BY <3>1, <3>2, <4>1 DEF Known, Running
      <4>3. hook[a] = 0
        <5>1. hook[a] \in Process \cup {0}
          BY DEF ClientTypeOK
        <5>2. ASSUME hook[a] # 0 PROVE FALSE
          BY <3>1, <4>2, <5>1, <5>2 DEF Served, Running
        <5> QED
          BY <5>2
      <4>4. a \notin waiting
        <5>1. ASSUME a \in waiting PROVE FALSE
          <6>1. watchdog[a] \in {"wait", "check", "done"} /\ p \in Running(a)
            BY <3>1, <5>1 DEF Signalled, Running
          <6>2. watchdog[a] = "wait" /\ hProcess[a] = p
            BY <3>2, <6>1 DEF Known
          <6> QED
            BY <3>1, <3>2, <6>2 DEF Served, Waits
        <5> QED
          BY <5>1
      <4> QED
        BY <4>3, <4>4
    <3>3. /\ hook' \in {[hook EXCEPT ![a] = p], [hook EXCEPT ![a] = 0]}
          /\ HadTurn' = [HadTurn EXCEPT ![a] = @ \cup {p}]
      <4>1. \E state : client' = [client EXCEPT ![a][p] = state] /\ state \notin Waits
        BY <2>5 DEF InstallCBTHook, Waits
      <4> QED
        BY <2>5, <4>1, TurnTaken DEF InstallCBTHook
    <3>4. Service!Turn(a, p)
      BY <2>1, <3>1, <3>2, <3>3 DEF Service!Turn, Service!Spend
    <3> QED
      BY <2>2, <3>4 DEF Service!Next
  <2> QED
    BY <1>5, <2>3, <2>4, <2>5 DEF Client, CheckAlone, FindTarget, CreateClientWindow, QuitLoop,
       Crash, Waits
<1> QED
  BY <1>2, <1>3, <1>4, <1>5 DEF Next

\* The watchdogs, their clients and terminate() implement HookService, for any
\* architectures, restarts, polls and faults.
THEOREM ImplementsHookService == Spec => HookServed
<1>1. Init => Service!Init
  BY DEF Init, Service!Init, HadTurn
<1>2. ASSUME ServiceInv, [Next]_vars PROVE ServiceInv'
  BY <1>2, TypeNext, KnownNext, SignalledNext, EndingNext, ServedNext DEF ServiceInv
<1> QED
  BY <1>1, <1>2, ServiceInit, ServiceStep, PTL DEF Spec, HookServed, Service!Spec
=============================================================================
