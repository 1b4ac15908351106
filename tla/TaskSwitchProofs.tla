-------------------------- MODULE TaskSwitchProofs --------------------------
(***************************************************************************)
(* Theorems about TaskSwitch, for any windows, entries and bounds.         *)
(***************************************************************************)
EXTENDS TaskSwitch, FiniteSetTheorems, TLAPS

USE TaskSwitchAssumption DEF TaskSwitchAssumption, listing

-----------------------------------------------------------------------------
(* Types.                                                                  *)

LEMMA InitTyped == Init => TypeOK
<1> SUFFICES ASSUME Init PROVE TypeOK
  OBVIOUS
<1>1. DesktopTypeOK
  BY DEF Init, DesktopTypeOK, Matchings, Place
<1>2. PluginTypeOK
  BY DEF Init, PluginTypeOK
<1>3. ScriptTypeOK
  BY DEF Init, ScriptTypeOK, Place
<1>4. HistoryTypeOK
  BY DEF Init, HistoryTypeOK
<1> QED BY <1>1, <1>2, <1>3, <1>4 DEF TypeOK

\* The head of the queue is a gesture and its rest a queue.
LEMMA QueueTyped ==
  ASSUME TypeOK, NEW g, NextScript(g)
  PROVE  /\ Head(gestures).at \in Nat
         /\ gestures' \in Seq([gesture: Keystroke, at: Nat])
<1> DEFINE Gesture == [gesture: Keystroke, at: Nat]
<1>1. gestures \in Seq(Gesture) /\ gestures # <<>>
  BY DEF TypeOK, DesktopTypeOK, NextScript
<1> HIDE DEF Gesture
<1>2. Head(gestures) \in Gesture /\ Tail(gestures) \in Seq(Gesture)
  BY <1>1
<1> QED BY <1>2 DEF NextScript, Gesture

LEMMA PluginFramed == ASSUME PluginTypeOK, UNCHANGED plugin PROVE PluginTypeOK'
  BY DEF plugin, PluginTypeOK

LEMMA ScriptFramed == ASSUME ScriptTypeOK, UNCHANGED running PROVE ScriptTypeOK'
  BY DEF running, ScriptTypeOK

LEMMA PressTyped ==
  ASSUME TypeOK, NEW key \in Keystroke \cup {AnyKey}, Press(key)
  PROVE  TypeOK'
<1> DEFINE Gesture == [gesture: Keystroke, at: Nat]
<1>1. gestures' \in Seq(Gesture)
  <2>1. key # AnyKey => [gesture |-> key, at |-> keyCounter + 1] \in Gesture
    BY DEF TypeOK, DesktopTypeOK
  <2>2. gestures \in Seq(Gesture)
    BY DEF TypeOK, DesktopTypeOK
  <2> HIDE DEF Gesture
  <2> QED BY <2>1, <2>2 DEF Press
<1>2. DesktopTypeOK'
  BY <1>1 DEF Press, TypeOK, DesktopTypeOK, desktop
<1>3. PluginTypeOK' /\ ScriptTypeOK'
  BY PluginFramed, ScriptFramed DEF TypeOK, Press
<1>4. HistoryTypeOK'
  BY DEF TypeOK, HistoryTypeOK, Press, history, cycle, desktop
<1> QED BY <1>2, <1>3, <1>4 DEF TypeOK

LEMMA TitlesTyped ==
  ASSUME matching \in Matchings, NEW w, NEW fits, Titles(w, fits)
  PROVE  matching' \in Matchings
  BY DEF Titles, Matchings

LEMMA LeavesTyped == ASSUME NEW w, Leaves(w) PROVE owed' \in {owed, {}}
  BY DEF Leaves

LEMMA EventTyped == ASSUME TypeOK, World, Event PROVE TypeOK'
<1> USE DEF TypeOK
<1>1. ScriptTypeOK' /\ UNCHANGED keyboard
  BY ScriptFramed DEF Event
<1>2. ASSUME NEW place, GoTo(place) PROVE TypeOK'
  <2>1. DesktopTypeOK'
    BY <1>1, <1>2 DEF GoTo, Event, DesktopTypeOK, keyboard, Place, Visible
  <2>2. PluginTypeOK' /\ HistoryTypeOK'
    BY <1>2, PluginFramed DEF GoTo, Event, HistoryTypeOK
  <2> QED BY <1>1, <2>1, <2>2
<1>3. ASSUME NEW w \in Window, OpenWindow(w) PROVE TypeOK'
  <2>1. matching' \in Matchings
    BY <1>3, TitlesTyped DEF OpenWindow, DesktopTypeOK
  <2>2. DesktopTypeOK'
    BY <1>1, <1>3, <2>1 DEF OpenWindow, Event, DesktopTypeOK, keyboard, Place
  <2>3. PluginTypeOK' /\ HistoryTypeOK'
    BY <1>3, PluginFramed DEF OpenWindow, Event, HistoryTypeOK
  <2> QED BY <1>1, <2>2, <2>3
<1>4. ASSUME NEW w \in Window, CloseWindow(w) PROVE TypeOK'
  <2>1. foreground' \in windows' \cup {Other, StartMenu}
    BY <1>4 DEF CloseWindow, Vanishes, DesktopTypeOK, Visible
  <2>2. windows' \subseteq Window /\ before' \subseteq windows' \X windows'
    BY <1>4 DEF CloseWindow, DesktopTypeOK, Order!Among
  <2>3. hidden' \subseteq windows' /\ UNCHANGED matching
    BY <1>4 DEF CloseWindow, DesktopTypeOK
  <2>4. events' \in Nat
    BY <1>4 DEF CloseWindow, Event, DesktopTypeOK
  <2>5. DesktopTypeOK'
    BY <1>1, <2>1, <2>2, <2>3, <2>4 DEF DesktopTypeOK, keyboard
  <2>6. owed' \in {owed, {}}
    BY <1>4, LeavesTyped DEF CloseWindow, Vanishes
  <2>7. PluginTypeOK' /\ HistoryTypeOK'
    BY <1>4, <2>6, PluginFramed DEF CloseWindow, Event, HistoryTypeOK
  <2> QED BY <1>1, <2>5, <2>7
<1>8. ASSUME NEW w \in Window, Retitle(w) PROVE TypeOK'
  <2>1. matching' \in Matchings
    BY <1>8, TitlesTyped DEF Retitle, DesktopTypeOK
  <2>2. DesktopTypeOK'
    BY <1>1, <1>8, <2>1 DEF Retitle, Event, DesktopTypeOK, keyboard
  <2>3. owed' \in {owed, {}}
    BY <1>8, LeavesTyped DEF Retitle
  <2>4. PluginTypeOK' /\ HistoryTypeOK'
    BY <1>8, <2>3, PluginFramed DEF Retitle, Event, HistoryTypeOK
  <2> QED BY <1>1, <2>2, <2>4
<1>9. ASSUME NEW w \in Window, AppHides(w) PROVE TypeOK'
  <2>1. foreground' \in windows \cup {Other, StartMenu} /\ w \in windows
    BY <1>9 DEF AppHides, Vanishes, DesktopTypeOK, Visible
  <2>2. DesktopTypeOK'
    BY <1>1, <1>9, <2>1 DEF AppHides, Event, DesktopTypeOK, keyboard
  <2>3. owed' \in {owed, {}}
    BY <1>9, LeavesTyped DEF AppHides, Vanishes
  <2>4. PluginTypeOK' /\ HistoryTypeOK'
    BY <1>9, <2>1, <2>3, PluginFramed DEF AppHides, Event, HistoryTypeOK
  <2> QED BY <1>1, <2>2, <2>4
<1>10. ASSUME NEW w \in Window, AppShows(w) PROVE TypeOK'
  <2>1. DesktopTypeOK'
    BY <1>1, <1>10 DEF AppShows, Event, DesktopTypeOK, keyboard
  <2>2. PluginTypeOK' /\ HistoryTypeOK'
    BY <1>10, PluginFramed DEF AppShows, Event, HistoryTypeOK
  <2> QED BY <1>1, <2>1, <2>2
<1>5. ASSUME Reorder PROVE TypeOK'
  <2>1. DesktopTypeOK'
    BY <1>1, <1>5 DEF Reorder, Event, DesktopTypeOK, keyboard, Orders
  <2>2. PluginTypeOK' /\ HistoryTypeOK'
    BY <1>5, PluginFramed DEF Reorder, Event, HistoryTypeOK
  <2> QED BY <1>1, <2>1, <2>2
<1>6. ASSUME ReloadPlugin PROVE TypeOK'
  <2>1. DesktopTypeOK'
    BY <1>1, <1>6 DEF ReloadPlugin, Event, DesktopTypeOK, keyboard
  <2>2. PluginTypeOK'
    BY <1>6 DEF ReloadPlugin, PluginTypeOK
  <2>3. HistoryTypeOK'
    BY <1>6 DEF ReloadPlugin, Event, HistoryTypeOK, DesktopTypeOK
  <2> QED BY <1>1, <2>1, <2>2, <2>3
<1>7. ASSUME NEW key, Press(key) PROVE FALSE
  BY <1>7 DEF Press, Event, desktop, DesktopTypeOK
<1> QED BY <1>2, <1>3, <1>4, <1>5, <1>6, <1>7, <1>8, <1>9, <1>10 DEF World

LEMMA CountTyped ==
  ASSUME TypeOK, NEW entry \in Entry, Count(entry)
  PROVE  lastGestureCounter' \in Nat /\ PluginTypeOK'
<1>1. keyCounter \in Nat /\ PluginTypeOK
  BY DEF TypeOK, DesktopTypeOK
<1>2. lastGestureCounter' \in Nat
  BY <1>1 DEF Count, NextCounter, PluginTypeOK
<1> QED BY <1>1, <1>2 DEF Count, PluginTypeOK

\* What is listed for an entry are visible windows.
LEMMA ListedVisible ==
  ASSUME NEW entry
  PROVE  queryEntry(entry) \subseteq Visible \cap matching[entry]
  BY DEF queryEntry

LEMMA TaskSwitchTyped ==
  ASSUME TypeOK, NEW entry \in Entry, TaskSwitch(entry)
  PROVE  TypeOK'
<1> DEFINE hwnds == queryEntry(entry)
<1>1. gestures' \in Seq([gesture: Keystroke, at: Nat]) /\ Head(gestures).at \in Nat
  BY QueueTyped DEF TaskSwitch
<1>2. hwnds \subseteq windows /\ windows \subseteq Window
  BY ListedVisible DEF Visible, TypeOK, DesktopTypeOK
<1>3. target' \in hwnds /\ toneHz' \in {100, 1000}
  BY DEF TaskSwitch
<1>4. owed' \in {owed, hwnds} /\ visited' \subseteq visited \cup {target'}
  BY DEF TaskSwitch
<1> HIDE DEF hwnds
<1>5. PluginTypeOK'
  BY CountTyped DEF TaskSwitch
<1>6. DesktopTypeOK'
  <2>1. UNCHANGED <<listing, hidden, foreground, events, keyCounter>>
    BY DEF TaskSwitch, NextScript
  <2> QED BY <1>1, <2>1 DEF listing, TypeOK, DesktopTypeOK
<1>7. ScriptTypeOK'
  <2>1. script' = "menu" /\ UNCHANGED <<worker, late>>
    BY DEF TaskSwitch, NextScript
  <2>2. target' \in Place
    BY <1>2, <1>3 DEF Place
  <2> QED BY <1>3, <2>1, <2>2 DEF TypeOK, ScriptTypeOK
<1>8. HistoryTypeOK'
  <2>1. owed' \subseteq Window /\ visited' \subseteq Window
    BY <1>2, <1>3, <1>4 DEF TypeOK, HistoryTypeOK
  <2>2. UNCHANGED <<windows, givenUp, forgotten>> /\ landed' = FALSE /\ pressedAt' \in Nat
    BY <1>1 DEF TaskSwitch, NextScript
  <2> QED BY <2>1, <2>2 DEF TypeOK, HistoryTypeOK
<1> QED BY <1>5, <1>6, <1>7, <1>8 DEF TypeOK

LEMMA TaskSwitchNoneTyped ==
  ASSUME TypeOK, NEW entry \in Entry, TaskSwitchNone(entry)
  PROVE  TypeOK'
<1>1. gestures' \in Seq([gesture: Keystroke, at: Nat]) /\ Head(gestures).at \in Nat
  BY QueueTyped DEF TaskSwitchNone
<1>2. PluginTypeOK'
  BY CountTyped DEF TaskSwitchNone
<1>3. DesktopTypeOK'
  BY <1>1 DEF TaskSwitchNone, NextScript, TypeOK, DesktopTypeOK
<1>4. ScriptTypeOK' /\ HistoryTypeOK'
  BY <1>1 DEF TaskSwitchNone, NextScript, TypeOK, ScriptTypeOK, HistoryTypeOK
<1> QED BY <1>2, <1>3, <1>4 DEF TypeOK

LEMMA HideTyped == ASSUME TypeOK, HideWindow PROVE TypeOK'
<1>1. gestures' \in Seq([gesture: Keystroke, at: Nat]) /\ Head(gestures).at \in Nat
  BY QueueTyped DEF HideWindow
<1>2. foreground \in Place /\ hiddenWindows \in Seq(Place)
  BY DEF TypeOK, DesktopTypeOK, PluginTypeOK, Place
<1>3. PluginTypeOK'
  BY <1>2 DEF HideWindow, Remembered, TypeOK, PluginTypeOK
<1>4. foreground' \in windows \cup {Other, StartMenu}
  BY DEF HideWindow, TypeOK, DesktopTypeOK, Visible
<1>5. hidden' \subseteq windows
  BY DEF HideWindow, TypeOK, DesktopTypeOK
<1>6. DesktopTypeOK'
  BY <1>1, <1>4, <1>5 DEF HideWindow, NextScript, TypeOK, DesktopTypeOK
<1>7. owed' \subseteq Window
  BY DEF HideWindow, Leaves, TypeOK, HistoryTypeOK
<1>8. ScriptTypeOK'
  BY DEF HideWindow, NextScript, TypeOK, ScriptTypeOK
<1>9. HistoryTypeOK'
  BY <1>1, <1>7 DEF HideWindow, NextScript, TypeOK, HistoryTypeOK
<1> QED BY <1>3, <1>6, <1>8, <1>9 DEF TypeOK

LEMMA ShowTyped == ASSUME TypeOK, ShowWindows PROVE TypeOK'
<1>1. gestures' \in Seq([gesture: Keystroke, at: Nat]) /\ Head(gestures).at \in Nat
  BY QueueTyped DEF ShowWindows
<1>2. PluginTypeOK'
  BY DEF ShowWindows, TypeOK, PluginTypeOK
<1>3. foreground' \in windows \cup {Other, StartMenu}
  BY DEF ShowWindows, TypeOK, DesktopTypeOK
<1>4. hidden' \subseteq windows /\ forgotten' \subseteq windows
  BY DEF ShowWindows, TypeOK, DesktopTypeOK, HistoryTypeOK
<1>5. DesktopTypeOK'
  BY <1>1, <1>3, <1>4 DEF ShowWindows, NextScript, TypeOK, DesktopTypeOK
<1>7. ScriptTypeOK'
  BY DEF ShowWindows, NextScript, TypeOK, ScriptTypeOK
<1>8. HistoryTypeOK'
  BY <1>1, <1>4 DEF ShowWindows, NextScript, TypeOK, HistoryTypeOK
<1> QED BY <1>2, <1>5, <1>7, <1>8 DEF TypeOK

\* The steps between a script's start and its end, and the workers'.
Switching ==
  \/ CloseStartMenu \/ SwitchReturns \/ GiveUp
  \/ WorkerActivates \/ WorkerReports \/ \E w \in Window : LateWorker(w)

LEMMA LateCounted ==
  ASSUME late \in [Window -> Nat], NEW w
  PROVE  /\ [late EXCEPT ![w] = @ + 1] \in [Window -> Nat]
         /\ \A v \in Window : [late EXCEPT ![w] = @ + 1][v] > 0 => v = w \/ late[v] > 0
         /\ late[w] > 0 /\ w \in Window =>
              /\ [late EXCEPT ![w] = @ - 1] \in [Window -> Nat]
              /\ \A v \in Window : [late EXCEPT ![w] = @ - 1][v] > 0 => late[v] > 0
<1>1. \A n \in Nat : n + 1 \in Nat /\ (n > 0 => n - 1 \in Nat)
  OBVIOUS
<1>2. \A v \in Window : late[v] \in Nat
  OBVIOUS
<1> QED BY <1>1, <1>2

LEMMA SwitchingTyped == ASSUME TypeOK, Switching PROVE TypeOK'
<1> USE DEF TypeOK, desktop, keyboard
<1>1. ASSUME CloseStartMenu PROVE TypeOK'
  <2>1. DesktopTypeOK'
    BY <1>1 DEF CloseStartMenu, DesktopTypeOK, Place, Visible
  <2>2. PluginTypeOK'
    BY <1>1, PluginFramed DEF CloseStartMenu
  <2>3. ScriptTypeOK'
    BY <1>1 DEF CloseStartMenu, ScriptTypeOK, Fail
  <2>4. HistoryTypeOK'
    BY <1>1 DEF CloseStartMenu, HistoryTypeOK, Fail, cycle
  <2> QED BY <2>1, <2>2, <2>3, <2>4
<1>2. ASSUME SwitchReturns PROVE TypeOK'
  <2>1. DesktopTypeOK'
    BY <1>2 DEF SwitchReturns, DesktopTypeOK
  <2>2. PluginTypeOK'
    BY <1>2, PluginFramed DEF SwitchReturns
  <2>3. ScriptTypeOK'
    BY <1>2 DEF SwitchReturns, ScriptTypeOK, Fail
  <2>4. HistoryTypeOK'
    BY <1>2 DEF SwitchReturns, HistoryTypeOK, Fail, cycle, DesktopTypeOK
  <2> QED BY <2>1, <2>2, <2>3, <2>4
<1>3. ASSUME GiveUp PROVE TypeOK'
  <2>1. DesktopTypeOK'
    BY <1>3 DEF GiveUp, DesktopTypeOK
  <2>2. PluginTypeOK'
    BY <1>3, PluginFramed DEF GiveUp
  <2>3. ScriptTypeOK'
    <3>1. late' \in [Window -> Nat]
      <4>1. late \in [Window -> Nat]
        BY DEF ScriptTypeOK
      <4>2. late' = late \/ late' = [late EXCEPT ![target] = @ + 1]
        BY <1>3 DEF GiveUp
      <4> HIDE DEF TypeOK
      <4> QED BY <4>1, <4>2, LateCounted
    <3>2. script' = "idle" /\ worker' = "none" /\ UNCHANGED <<target, toneHz>>
      BY <1>3 DEF GiveUp, Fail
    <3>3. target \in Place /\ toneHz \in {100, 1000}
      BY DEF ScriptTypeOK
    <3> HIDE DEF TypeOK, desktop, keyboard
    <3> QED BY <3>1, <3>2, <3>3 DEF ScriptTypeOK
  <2>4. HistoryTypeOK'
    <3>1. /\ givenUp' = givenUp \cup {target} /\ target \in Place /\ owed' = {}
          /\ UNCHANGED <<landed, visited, pressedAt, forgotten, windows>>
      BY <1>3 DEF GiveUp, ScriptTypeOK, Fail, listing
    <3> QED BY <3>1 DEF HistoryTypeOK
  <2> QED BY <2>1, <2>2, <2>3, <2>4
<1>4. ASSUME WorkerActivates PROVE TypeOK'
  <2>1. DesktopTypeOK'
    BY <1>4 DEF WorkerActivates, SetForeground, DesktopTypeOK, Place
  <2>2. PluginTypeOK'
    BY <1>4, PluginFramed DEF WorkerActivates
  <2>3. ScriptTypeOK'
    BY <1>4 DEF WorkerActivates, ScriptTypeOK
  <2>4. HistoryTypeOK'
    BY <1>4 DEF WorkerActivates, HistoryTypeOK, history, cycle
  <2> QED BY <2>1, <2>2, <2>3, <2>4
<1>5. ASSUME WorkerReports PROVE TypeOK'
  <2>1. DesktopTypeOK'
    BY <1>5 DEF WorkerReports, DesktopTypeOK
  <2>2. PluginTypeOK'
    BY <1>5, PluginFramed DEF WorkerReports
  <2>3. ScriptTypeOK'
    BY <1>5 DEF WorkerReports, ScriptTypeOK
  <2>4. HistoryTypeOK'
    BY <1>5 DEF WorkerReports, HistoryTypeOK, cycle, DesktopTypeOK, Activated
  <2> QED BY <2>1, <2>2, <2>3, <2>4
<1>6. ASSUME NEW w \in Window, LateWorker(w) PROVE TypeOK'
  <2>1. DesktopTypeOK'
    BY <1>6 DEF LateWorker, SetForeground, DesktopTypeOK, Place
  <2>2. PluginTypeOK'
    BY <1>6, PluginFramed DEF LateWorker
  <2>3. ScriptTypeOK'
    <3>1. late' \in [Window -> Nat]
      <4>1. late \in [Window -> Nat]
        BY DEF ScriptTypeOK
      <4>2. late[w] > 0 /\ late' = [late EXCEPT ![w] = @ - 1]
        BY <1>6 DEF LateWorker
      <4> HIDE DEF TypeOK
      <4> QED BY <4>1, <4>2, LateCounted
    <3>2. UNCHANGED <<script, target, toneHz, worker>>
      BY <1>6 DEF LateWorker
    <3>3. /\ script \in {"idle", "menu", "wait"} /\ target \in Place /\ toneHz \in {100, 1000}
          /\ worker \in {"none", "running", "activated", "ok", "not ok"}
      BY DEF ScriptTypeOK
    <3> HIDE DEF TypeOK, desktop, keyboard
    <3> QED BY <3>1, <3>2, <3>3 DEF ScriptTypeOK
  <2>4. HistoryTypeOK'
    BY <1>6 DEF LateWorker, HistoryTypeOK, history, cycle
  <2> QED BY <2>1, <2>2, <2>3, <2>4
<1> QED BY <1>1, <1>2, <1>3, <1>4, <1>5, <1>6 DEF Switching

LEMMA NextTyped == ASSUME TypeOK, [Next]_vars PROVE TypeOK'
<1>1. CASE UNCHANGED vars
  <2>1. PluginTypeOK' /\ ScriptTypeOK'
    BY <1>1, PluginFramed, ScriptFramed DEF vars, TypeOK
  <2>2. DesktopTypeOK' /\ HistoryTypeOK'
    BY <1>1 DEF vars, desktop, keyboard, history, cycle, TypeOK, DesktopTypeOK, HistoryTypeOK
  <2> QED BY <2>1, <2>2 DEF TypeOK
<1>2. CASE World
  <2>1. CASE Event
    BY <1>2, <2>1, EventTyped
  <2>2. CASE ~Event
    BY <1>2, <2>2, PressTyped DEF World, GoTo, OpenWindow, CloseWindow, Retitle, AppHides,
                                      AppShows, Reorder, ReloadPlugin
  <2> QED BY <2>1, <2>2
<1>3. CASE Switching
  BY <1>3, SwitchingTyped
<1>4. CASE \E entry \in Entry : TaskSwitch(entry) \/ TaskSwitchNone(entry)
  BY <1>4, TaskSwitchTyped, TaskSwitchNoneTyped
<1>5. CASE HideWindow \/ ShowWindows
  BY <1>5, HideTyped, ShowTyped
<1> QED BY <1>1, <1>2, <1>3, <1>4, <1>5 DEF Next, MainThread, Worker, Switching

\* The variables keep their types: the windows listed, hidden or remembered
\* are windows, and the worker's states are those that the script waits for.
THEOREM TypeCorrect == Spec => []TypeOK
  BY InitTyped, NextTyped, PTL DEF Spec

-----------------------------------------------------------------------------
(* The worker whose report is waited for is the only one that can take the *)
(* foreground from the window that was switched to, but for those given    *)
(* up.                                                                     *)

Waiting ==
  /\ worker # "none" => script = "wait"
  /\ script = "menu" \/ worker = "running" => ~landed
  /\ \A w \in Window : late[w] > 0 => w \in givenUp

SwitchInv == TypeOK /\ Waiting /\ LastSwitchWins

LEMMA SwitchInit == Init => SwitchInv
<1> SUFFICES ASSUME Init PROVE SwitchInv
  OBVIOUS
<1>1. TypeOK
  BY InitTyped
<1>2. Waiting /\ LastSwitchWins
  BY DEF Init, Waiting, LastSwitchWins
<1> QED BY <1>1, <1>2 DEF SwitchInv

LEMMA SwitchNext == ASSUME SwitchInv, [Next]_vars PROVE SwitchInv'
<1>1. TypeOK /\ TypeOK'
  BY NextTyped DEF SwitchInv
<1> SUFFICES Waiting' /\ LastSwitchWins'
  BY <1>1 DEF SwitchInv
<1> USE DEF SwitchInv, Waiting, LastSwitchWins
<1>2. CASE UNCHANGED vars
  BY <1>2 DEF vars, desktop, running, history
<1>3. CASE Event
  BY <1>3 DEF Event, running
<1>4. ASSUME NEW key, Press(key) PROVE Waiting' /\ LastSwitchWins'
  BY <1>4 DEF Press, desktop, running, history
<1>5. ASSUME NEW g, NextScript(g), UNCHANGED script \/ script' = "menu"
      PROVE  Waiting' /\ LastSwitchWins'
  BY <1>5 DEF NextScript
<1>6. CASE \E entry \in Entry : TaskSwitch(entry) \/ TaskSwitchNone(entry)
  BY <1>5, <1>6 DEF TaskSwitch, TaskSwitchNone
<1>7. CASE HideWindow \/ ShowWindows
  BY <1>5, <1>7 DEF HideWindow, ShowWindows
<1>8. CASE CloseStartMenu
  BY <1>8 DEF CloseStartMenu, Fail
<1>9. CASE SwitchReturns
  BY <1>9 DEF SwitchReturns, Fail, desktop
<1>10. CASE GiveUp
  <2>1. LastSwitchWins'
    BY <1>10 DEF GiveUp, Fail, desktop
  <2>2. \A w \in Window : late'[w] > 0 => w \in givenUp'
    <3>1. late \in [Window -> Nat]
      BY <1>1 DEF TypeOK, ScriptTypeOK
    <3>2. late' \in {late, [late EXCEPT ![target] = @ + 1]} /\ givenUp' = givenUp \cup {target}
      BY <1>10 DEF GiveUp
    <3>3. \A w \in Window : late'[w] > 0 => w = target \/ late[w] > 0
      BY <3>1, <3>2, LateCounted
    <3> QED BY <3>2, <3>3
  <2> QED BY <1>10, <2>1, <2>2 DEF GiveUp, Fail
<1>11. CASE WorkerActivates
  BY <1>11 DEF WorkerActivates, history
<1>12. CASE WorkerReports
  BY <1>12 DEF WorkerReports, Activated, desktop
<1>13. ASSUME NEW w \in Window, LateWorker(w) PROVE Waiting' /\ LastSwitchWins'
  <2>1. w \in givenUp /\ foreground' \in {foreground, w}
    BY <1>13 DEF LateWorker, SetForeground
  <2>2. \A v \in Window : late'[v] > 0 => late[v] > 0
    <3>1. late \in [Window -> Nat]
      BY <1>1 DEF TypeOK, ScriptTypeOK
    <3>2. late[w] > 0 /\ late' = [late EXCEPT ![w] = @ - 1]
      BY <1>13 DEF LateWorker
    <3> QED BY <3>1, <3>2, LateCounted
  <2> QED BY <1>13, <2>1, <2>2 DEF LateWorker, history
<1> QED BY <1>2, <1>3, <1>4, <1>6, <1>7, <1>8, <1>9, <1>10, <1>11, <1>12, <1>13
        DEF Next, World, MainThread, Worker, GoTo, OpenWindow, CloseWindow, Retitle, AppHides,
            AppShows, Reorder, ReloadPlugin

\* LastSwitchWins, of _activate_window_impl and activateWindowBetter: a switch
\* that reported success keeps the foreground until something else happens, or
\* a worker that was given up comes late.
THEOREM SwitchesWin == Spec => []LastSwitchWins
<1>1. SwitchInv => LastSwitchWins
  BY DEF SwitchInv
<1> QED BY <1>1, SwitchInit, SwitchNext, PTL DEF Spec

-----------------------------------------------------------------------------
(* Hidden windows.                                                         *)

HiddenInv == TypeOK /\ HiddenAreRemembered

LEMMA HiddenNext == ASSUME HiddenInv, [Next]_vars PROVE HiddenInv'
<1>1. TypeOK /\ TypeOK'
  BY NextTyped DEF HiddenInv
<1> SUFFICES HiddenAreRemembered'
  BY <1>1 DEF HiddenInv
<1> USE DEF HiddenInv, HiddenAreRemembered
<1>2. ASSUME UNCHANGED <<hidden, hiddenWindows, forgotten>> PROVE HiddenAreRemembered'
  BY <1>2
<1>3. ASSUME NEW w, CloseWindow(w) \/ AppHides(w) \/ AppShows(w) PROVE HiddenAreRemembered'
  BY <1>3 DEF CloseWindow, AppHides, AppShows, Event, plugin
<1>4. CASE ReloadPlugin
  BY <1>4 DEF ReloadPlugin
<1>5. CASE HideWindow
  <2> DEFINE now == Append(hiddenWindows, foreground)
  <2>1. hiddenWindows \in Seq(Place) /\ foreground \in Place
    BY <1>1 DEF TypeOK, PluginTypeOK, DesktopTypeOK, Place
  <2>2. ToSet(now) = ToSet(hiddenWindows) \cup {foreground}
    <3>1. /\ Len(now) = Len(hiddenWindows) + 1 /\ now[Len(now)] = foreground
          /\ \A i \in 1 .. Len(hiddenWindows) : now[i] = hiddenWindows[i]
          /\ DOMAIN now = 1 .. Len(now) /\ DOMAIN hiddenWindows = 1 .. Len(hiddenWindows)
          /\ Len(hiddenWindows) \in Nat
      BY <2>1
    <3> HIDE DEF now
    <3> QED BY <3>1 DEF ToSet
  <2> QED BY <1>5, <2>2 DEF HideWindow, Remembered
<1>6. CASE ShowWindows
  BY <1>6 DEF ShowWindows
<1>7. CASE UNCHANGED vars
  BY <1>2, <1>7 DEF vars, desktop, plugin, history
<1>8. CASE World
  BY <1>2, <1>3, <1>4, <1>8
     DEF World, Press, GoTo, OpenWindow, Retitle, Reorder, Event, desktop, plugin, history
<1>9. CASE Worker
  BY <1>2, <1>9 DEF Worker, WorkerActivates, WorkerReports, LateWorker, desktop, plugin, history
<1>10. CASE \E entry \in Entry : TaskSwitch(entry) \/ TaskSwitchNone(entry)
  BY <1>2, <1>10 DEF TaskSwitch, TaskSwitchNone, Count
<1>11. CASE CloseStartMenu \/ SwitchReturns \/ GiveUp
  BY <1>2, <1>11 DEF CloseStartMenu, SwitchReturns, GiveUp, Fail, desktop, plugin
<1> QED BY <1>5, <1>6, <1>7, <1>8, <1>9, <1>10, <1>11 DEF Next, MainThread

\* HiddenAreRemembered, of script_HideWindow and script_showWindows.
THEOREM HiddenComeBack == Spec => []HiddenAreRemembered
<1>1. Init => HiddenInv
  BY InitTyped DEF Init, HiddenInv, HiddenAreRemembered
<1>2. HiddenInv => HiddenAreRemembered
  BY DEF HiddenInv
<1> QED BY <1>1, <1>2, HiddenNext, PTL DEF Spec

-----------------------------------------------------------------------------
(* The cycle.  As long as no window leaves the list and the order of those *)
(* that are listed stays, all that the cycle began with are still listed,  *)
(* and those of them that stand no further than the counter have been      *)
(* picked: a window that enters the list only moves others away from its   *)
(* beginning.                                                              *)

\* The next window in the cycle is another one.
LEMMA NextDiffers ==
  ASSUME NEW a \in Nat, NEW n \in Nat, n > 1
  PROVE  (a + 1) % n # a % n
<1> DEFINE q == a \div n
           p == (a + 1) \div n
<1>1. a = (n * q) + (a % n) /\ q \in Int
  OBVIOUS
<1>2. a + 1 = (n * p) + ((a + 1) % n) /\ p \in Int
  OBVIOUS
<1> SUFFICES ASSUME (a + 1) % n = a % n PROVE FALSE
  OBVIOUS
<1> HIDE DEF q, p
<1>3. a % n \in Int
  OBVIOUS
<1>4. (n * p) - (n * q) = 1
  BY <1>1, <1>2, <1>3
<1>5. n * (p - q) = 1
  BY <1>1, <1>2, <1>4
<1>6. p - q <= 0 \/ p - q >= 1
  BY <1>1, <1>2
<1>7. ASSUME NEW k \in Int, k <= 0 PROVE n * k <= 0
  BY <1>7
<1>8. ASSUME NEW k \in Int, k >= 1 PROVE n * k >= n
  BY <1>8
<1> QED BY <1>1, <1>2, <1>5, <1>6, <1>7, <1>8

LEMMA RestOfSmaller == ASSUME NEW a \in Nat, NEW n \in Nat \ {0}, a < n PROVE a % n = a
  OBVIOUS

LEMMA NoRest == ASSUME NEW a \in Nat, NEW n \in Nat \ {0}, a > 0, a % n = 0 PROVE a >= n
  OBVIOUS

\* No two windows stand at one position.
LEMMA PositionsDiffer ==
  ASSUME Order!IsOrder(before, windows), NEW S \in SUBSET windows, IsFiniteSet(S),
         NEW v \in S, NEW w \in S, v # w
  PROVE  Position(v, S) # Position(w, S)
<1> DEFINE Below(x) == {u \in S : <<u, x>> \in before}
<1>1. ASSUME NEW x \in S, NEW y \in S, <<x, y>> \in before
      PROVE  Cardinality(Below(x)) < Cardinality(Below(y))
  <2>1. IsFiniteSet(Below(x)) /\ IsFiniteSet(Below(y))
    BY FS_Subset
  <2>2. x \notin Below(x) /\ x \in Below(y)
    BY <1>1 DEF Order!IsOrder
  <2>3. Below(x) \cup {x} \subseteq Below(y)
    BY <1>1, <2>2 DEF Order!IsOrder
  <2> HIDE DEF Below
  <2>4. Cardinality(Below(x) \cup {x}) = Cardinality(Below(x)) + 1
    BY <2>1, <2>2, FS_AddElement
  <2>5. Cardinality(Below(x) \cup {x}) <= Cardinality(Below(y))
    BY <2>1, <2>3, FS_Subset
  <2> QED BY <2>1, <2>4, <2>5, FS_CardinalityType
<1>2. \A x \in S : IsFiniteSet(Below(x))
  BY FS_Subset
<1>3. <<v, w>> \in before \/ <<w, v>> \in before
  BY DEF Order!IsOrder
<1> HIDE DEF Below
<1>4. Cardinality(Below(v)) \in Nat /\ Cardinality(Below(w)) \in Nat
  BY <1>2, FS_CardinalityType
<1>5. Cardinality(Below(v)) # Cardinality(Below(w))
  BY <1>1, <1>3, <1>4
<1> QED BY <1>5 DEF Position, Below

\* The positions of n windows are smaller than n.
LEMMA PositionSmall ==
  ASSUME Order!IsOrder(before, windows), NEW S \in SUBSET windows, IsFiniteSet(S), NEW w \in S
  PROVE  Position(w, S) \in Nat /\ Position(w, S) < Cardinality(S)
<1> DEFINE Below == {u \in S : <<u, w>> \in before}
<1>1. Below \subseteq S \ {w}
  BY DEF Order!IsOrder
<1>2. IsFiniteSet(S \ {w}) /\ Cardinality(S \ {w}) = Cardinality(S) - 1
  BY FS_RemoveElement
<1> HIDE DEF Below
<1>3. IsFiniteSet(Below) /\ Cardinality(Below) <= Cardinality(S) - 1
  BY <1>1, <1>2, FS_Subset
<1>4. Cardinality(Below) \in Nat /\ Cardinality(S) \in Nat
  BY <1>3, FS_CardinalityType
<1>5. Position(w, S) = Cardinality(Below)
  BY DEF Position, Below
<1> QED BY <1>3, <1>4, <1>5

Sorted == Order!IsOrder(before, windows)

\* What the cycle began with is still listed.
LapListed == owed \subseteq queryEntry(lastEntry)

LapVisited ==
  \A w \in owed : Position(w, queryEntry(lastEntry)) <= lastGestureCounter => w \in visited

LapTarget ==
  owed = queryEntry(lastEntry) =>
    target \in owed /\ Position(target, owed) = lastGestureCounter % Cardinality(owed)

Lap ==
  owed # {} => /\ lastEntry \in Entry
               /\ Index[lastEntry] = 0 => LapListed /\ LapVisited /\ LapTarget

CycleInv == TypeOK /\ Sorted /\ Lap /\ HighToneMeansAllVisited

LEMMA CycleInit == Init => CycleInv
<1> SUFFICES ASSUME Init PROVE CycleInv
  OBVIOUS
<1>1. TypeOK
  BY InitTyped
<1>2. Sorted
  BY DEF Init, Sorted, Order!IsOrder
<1>3. Lap /\ HighToneMeansAllVisited
  BY DEF Init, Lap, HighToneMeansAllVisited
<1> QED BY <1>1, <1>2, <1>3 DEF CycleInv

\* What is listed for the entry of the cycle.
Listed == Visible \cap matching[lastEntry]

\* It keeps its windows and their order.
Grows ==
  lastEntry \in Entry /\ Index[lastEntry] = 0 =>
    /\ Listed \subseteq Listed'
    /\ \A v, w \in Listed : <<v, w>> \in before' <=> <<v, w>> \in before

\* A step that lets windows enter the list, if any, and leaves the rest of it and
\* the cycle alone; or ends the cycle.
LEMMA CycleGrows ==
  ASSUME CycleInv, TypeOK',
         UNCHANGED <<lastEntry, lastGestureCounter, target, visited, toneHz>>,
         owed' = {} \/ (owed' = owed /\ Grows)
  PROVE  Lap' /\ HighToneMeansAllVisited'
<1>1. CASE owed' = {}
  BY <1>1 DEF Lap, HighToneMeansAllVisited
<1>2. CASE owed' = owed /\ Grows
  <2>1. HighToneMeansAllVisited'
    BY <1>2 DEF CycleInv, HighToneMeansAllVisited
  <2>2. ASSUME owed # {}, Index[lastEntry] = 0 PROVE (LapListed /\ LapVisited /\ LapTarget)'
    <3>1. lastEntry \in Entry /\ LapListed /\ LapVisited /\ LapTarget
      BY <2>2 DEF CycleInv, Lap
    <3>2. queryEntry(lastEntry) = Listed /\ queryEntry(lastEntry)' = Listed'
      BY <2>2 DEF queryEntry, Listed
    <3>3. Listed \subseteq windows /\ Listed' \subseteq windows'
      BY DEF Listed, Visible
    <3>4. IsFiniteSet(Listed')
      BY <3>3, FS_Subset DEF TypeOK, DesktopTypeOK
    <3>5. /\ Listed \subseteq Listed'
          /\ \A v, w \in Listed : <<v, w>> \in before' <=> <<v, w>> \in before
      BY <1>2, <2>2, <3>1 DEF Grows
    <3>6. ASSUME NEW x \in owed PROVE Position(x, Listed) <= Position(x, Listed)'
      <4> DEFINE now == {v \in Listed' : <<v, x>> \in before'}
                 then == {v \in Listed : <<v, x>> \in before}
      <4>1. x \in Listed
        BY <3>1, <3>2 DEF LapListed
      <4>2. then \subseteq now
        BY <3>5, <4>1
      <4>3. IsFiniteSet(now)
        BY <3>4, FS_Subset
      <4> HIDE DEF now, then
      <4>4. Cardinality(then) <= Cardinality(now)
        BY <4>2, <4>3, FS_Subset
      <4> QED BY <4>4 DEF Position, now, then
    <3>7. ASSUME NEW x \in owed PROVE Position(x, Listed) \in Nat /\ Position(x, Listed)' \in Nat
      <4>1. IsFiniteSet(Listed)
        BY <3>4, <3>5, FS_Subset
      <4>2. /\ IsFiniteSet({v \in Listed' : <<v, x>> \in before'})
            /\ IsFiniteSet({v \in Listed : <<v, x>> \in before})
        BY <3>4, <4>1, FS_Subset
      <4> QED BY <4>2, FS_CardinalityType DEF Position
    <3>8. LapListed'
      BY <1>2, <3>1, <3>2, <3>5 DEF LapListed
    <3>9. LapVisited'
      <4> SUFFICES ASSUME NEW x \in owed, Position(x, Listed)' <= lastGestureCounter
                   PROVE  x \in visited
        BY <1>2, <3>2 DEF LapVisited
      <4>1. Position(x, Listed) <= lastGestureCounter
        <5>1. lastGestureCounter \in Nat
          BY DEF CycleInv, TypeOK, PluginTypeOK
        <5> QED BY <3>6, <3>7, <5>1
      <4> QED BY <3>1, <3>2, <4>1 DEF LapVisited
    <3>10. LapTarget'
      <4> SUFFICES ASSUME owed = Listed'
                   PROVE  /\ target \in owed
                          /\ Position(target, owed)' = lastGestureCounter % Cardinality(owed)
        BY <1>2, <3>2 DEF LapTarget
      <4>1. owed = Listed
        BY <3>1, <3>2, <3>5 DEF LapListed
      <4>2. target \in owed /\ Position(target, owed) = lastGestureCounter % Cardinality(owed)
        BY <3>1, <3>2, <4>1 DEF LapTarget
      <4>3. {v \in owed : <<v, target>> \in before'} = {v \in owed : <<v, target>> \in before}
        BY <3>5, <4>1, <4>2
      <4> QED BY <1>2, <4>2, <4>3 DEF Position
    <3> QED BY <3>8, <3>9, <3>10
  <2>3. Lap'
    BY <1>2, <2>2 DEF CycleInv, Lap
  <2> QED BY <2>1, <2>3
<1> QED BY <1>1, <1>2

\* A step that leaves the windows and the cycle alone, or ends the cycle.
LEMMA CycleFramed ==
  ASSUME CycleInv,
         \/ owed' = {}
         \/ UNCHANGED <<windows, before, matching, hidden, lastEntry, lastGestureCounter, owed,
                        visited, target>>,
         owed' = {} \/ UNCHANGED <<visited, toneHz>>
  PROVE  Lap' /\ HighToneMeansAllVisited'
<1>1. CASE owed' = {}
  BY <1>1 DEF Lap, HighToneMeansAllVisited
<1>2. CASE UNCHANGED <<windows, before, matching, hidden, lastEntry, lastGestureCounter, owed,
                       visited, target, toneHz>>
  <2>1. \A e : queryEntry(e)' = queryEntry(e)
    BY <1>2 DEF queryEntry, Visible, Position
  <2>2. \A w, S : Position(w, S)' = Position(w, S)
    BY <1>2 DEF Position
  <2>3. HighToneMeansAllVisited'
    BY <1>2 DEF CycleInv, HighToneMeansAllVisited
  <2>4. (LapListed /\ LapVisited /\ LapTarget <=> LapListed' /\ LapVisited' /\ LapTarget')
    BY <1>2, <2>1, <2>2 DEF LapListed, LapVisited, LapTarget
  <2> QED BY <1>2, <2>3, <2>4 DEF CycleInv, Lap
<1> QED BY <1>1, <1>2

\* A window that opens is the last of the list.
LEMMA CycleOpens ==
  ASSUME CycleInv, TypeOK', NEW w \in Window, OpenWindow(w)
  PROVE  Sorted' /\ Lap' /\ HighToneMeansAllVisited'
<1>1. /\ w \notin windows /\ windows' = windows \cup {w}
      /\ before' = before \cup (windows \X {w})
      /\ UNCHANGED <<hidden, owed>>
      /\ UNCHANGED <<lastEntry, lastGestureCounter, target, visited, toneHz>>
  BY DEF OpenWindow, Event, plugin, running
<1>2. TypeOK /\ Sorted
  BY DEF CycleInv
<1>3. before \subseteq windows \X windows
  BY <1>2 DEF TypeOK, DesktopTypeOK
<1>4. Sorted'
  <2>1. before' \subseteq windows' \X windows'
    BY <1>1, <1>3
  <2>2. \A g, h \in windows : <<g, h>> \in before' <=> <<g, h>> \in before
    BY <1>1
  <2>3. \A g \in windows' : <<w, g>> \notin before' /\ (g # w => <<g, w>> \in before')
    BY <1>1, <1>3
  <2> QED BY <1>1, <1>2, <2>1, <2>2, <2>3 DEF Sorted, Order!IsOrder
<1>5. ASSUME lastEntry \in Entry, NEW x \in Listed PROVE x \in Listed'
  <2>1. lastEntry \in Entry /\ x \in windows /\ x \notin hidden /\ x \in matching[lastEntry]
    BY <1>5 DEF Listed, Visible
  <2>2. PICK fits \in SUBSET Titled : Titles(w, fits)
    BY DEF OpenWindow
  <2>3. x \in matching'[lastEntry]
    BY <1>1, <2>1, <2>2 DEF Titles
  <2> QED BY <1>1, <2>1, <2>3 DEF Listed, Visible
<1>6. Grows
  BY <1>1, <1>5 DEF Grows, Listed, Visible
<1> QED BY <1>1, <1>4, <1>6, CycleGrows

\* A window that leaves the list of the cycle ends it; one that does not leaves
\* the list as it is.
LEMMA CycleLeaves ==
  ASSUME CycleInv, TypeOK', NEW w, Leaves(w),
         UNCHANGED <<lastEntry, lastGestureCounter, target, visited, toneHz>>,
         lastEntry \in Entry => Listed \ {w} \subseteq Listed',
         \A u, v \in windows \ {w} : <<u, v>> \in before' <=> <<u, v>> \in before
  PROVE  Lap' /\ HighToneMeansAllVisited'
<1>1. CASE lastEntry # NoEntry /\ w \in queryEntry(lastEntry)
  <2>1. owed' = {}
    BY <1>1 DEF Leaves
  <2> QED BY <2>1 DEF Lap, HighToneMeansAllVisited
<1>2. CASE ~(lastEntry # NoEntry /\ w \in queryEntry(lastEntry))
  <2>1. owed' = owed
    BY <1>2 DEF Leaves
  <2>2. ASSUME lastEntry \in Entry, Index[lastEntry] = 0 PROVE w \notin Listed
    BY <1>2, <2>2 DEF queryEntry, Listed
  <2>3. Grows
    BY <2>2 DEF Grows, Listed, Visible
  <2> QED BY <2>1, <2>3, CycleGrows
<1> QED BY <1>1, <1>2

LEMMA CycleRetitled ==
  ASSUME CycleInv, TypeOK', NEW w \in Window, Retitle(w)
  PROVE  Lap' /\ HighToneMeansAllVisited'
<1>1. /\ UNCHANGED <<windows, before, hidden>>
      /\ UNCHANGED <<lastEntry, lastGestureCounter, target, visited, toneHz>>
  BY DEF Retitle, Event, plugin, running
<1>2. PICK fits \in SUBSET Titled : Titles(w, fits)
  BY DEF Retitle
<1>3. ASSUME lastEntry \in Entry
      PROVE  matching[lastEntry] \ {w} \subseteq matching'[lastEntry]
  BY <1>2, <1>3 DEF Titles
<1>4. lastEntry \in Entry => Listed \ {w} \subseteq Listed'
  BY <1>1, <1>3 DEF Listed, Visible
<1>5. CASE lastEntry # NoEntry /\ w \in matching'[lastEntry]
  <2>1. owed' = owed
    BY <1>5 DEF Retitle
  <2>2. lastEntry \in Entry => Listed \subseteq Listed'
    BY <1>1, <1>4, <1>5 DEF Listed, Visible
  <2>3. Grows
    BY <1>1, <2>2 DEF Grows
  <2> QED BY <1>1, <2>1, <2>3, CycleGrows
<1>6. CASE ~(lastEntry # NoEntry /\ w \in matching'[lastEntry])
  <2>1. Leaves(w)
    BY <1>6 DEF Retitle
  <2> QED BY <1>1, <1>4, <2>1, CycleLeaves
<1> QED BY <1>5, <1>6

\* The keystroke: the first press begins a cycle, another goes on with it.
LEMMA CycleSwitches ==
  ASSUME CycleInv, NEW entry \in Entry, TaskSwitch(entry)
  PROVE  Lap' /\ HighToneMeansAllVisited'
<1> DEFINE hwnds == queryEntry(entry)
           n == Cardinality(hwnds)
<1>1. TypeOK /\ Sorted /\ Lap
  BY DEF CycleInv
<1>2. /\ lastEntry' = entry /\ UNCHANGED <<windows, before, matching, hidden>>
      /\ lastGestureCounter' = NextCounter(entry)
  BY DEF TaskSwitch, Count
<1>3. hwnds' = hwnds /\ \A x, S : Position(x, S)' = Position(x, S)
  BY <1>2 DEF queryEntry, Visible, Position
<1>4. /\ owed' = IF Again(entry) THEN owed ELSE hwnds
      /\ visited' = {target'} \cup IF Again(entry) THEN visited ELSE {}
      /\ toneHz' = 1000 => Index[entry] = 0 /\ lastGestureCounter' > 0
                             /\ lastGestureCounter' % n = 0
      /\ target' \in hwnds
      /\ Index[entry] = 0 => Position(target', hwnds) = lastGestureCounter' % n
  BY DEF TaskSwitch
<1>5. hwnds \subseteq windows /\ IsFiniteSet(hwnds)
  BY <1>1, ListedVisible, FS_Subset DEF Visible, TypeOK, DesktopTypeOK
<1> HIDE DEF hwnds
<1>6. n \in Nat \ {0}
  BY <1>4, <1>5, FS_CardinalityType, FS_EmptySet
<1>7. lastGestureCounter \in Nat /\ lastGestureCounter' \in Nat
  BY <1>1, CountTyped DEF TaskSwitch, TypeOK, PluginTypeOK
<1> HIDE DEF n
<1>8. CASE Index[entry] # 0
  BY <1>2, <1>4, <1>8 DEF Lap, HighToneMeansAllVisited
<1>9. CASE Index[entry] = 0 /\ ~Again(entry)
  <2>1. lastGestureCounter' = 0 /\ owed' = hwnds /\ visited' = {target'}
    BY <1>2, <1>4, <1>9 DEF NextCounter
  <2>2. Position(target', hwnds) = 0
    BY <1>4, <1>6, <1>9, <2>1
  <2>3. \A x \in hwnds : Position(x, hwnds) <= 0 => x = target'
    <3> SUFFICES ASSUME NEW x \in hwnds, Position(x, hwnds) <= 0 PROVE x = target'
      OBVIOUS
    <3>1. Position(x, hwnds) = 0
      BY <1>1, <1>5, PositionSmall DEF Sorted
    <3> QED BY <1>1, <1>4, <1>5, <2>2, <3>1, PositionsDiffer DEF Sorted
  <2>4. LapListed'
    BY <1>2, <1>3, <2>1 DEF LapListed, hwnds
  <2>5. LapVisited'
    BY <1>2, <1>3, <2>1, <2>3 DEF LapVisited, hwnds
  <2>6. LapTarget'
    BY <1>3, <1>4, <1>9, <2>1 DEF LapTarget, n
  <2> QED BY <1>2, <1>4, <2>1, <2>4, <2>5, <2>6 DEF Lap, HighToneMeansAllVisited
<1>10. CASE Index[entry] = 0 /\ Again(entry)
  <2>1. /\ entry = lastEntry /\ lastGestureCounter' = lastGestureCounter + 1
        /\ owed' = owed /\ visited' = {target'} \cup visited
    BY <1>2, <1>4, <1>10 DEF NextCounter, Again
  <2>2. CASE owed = {}
    BY <2>1, <2>2 DEF Lap, HighToneMeansAllVisited
  <2>3. CASE owed # {}
    <3>1. LapListed /\ LapVisited /\ LapTarget
      BY <1>1, <1>10, <2>1, <2>3 DEF Lap
    <3>2. owed \subseteq hwnds
      BY <2>1, <3>1 DEF LapListed, hwnds
    <3>4. \A x \in owed : Position(x, hwnds) \in Nat /\ Position(x, hwnds) < n
      BY <1>1, <1>5, <3>2, PositionSmall DEF Sorted, n
    <3>6. \A x \in owed : Position(x, hwnds) <= lastGestureCounter' => x \in visited'
      <4> SUFFICES ASSUME NEW x \in owed, Position(x, hwnds) <= lastGestureCounter'
                   PROVE  x \in visited'
        OBVIOUS
      <4>1. CASE Position(x, hwnds) <= lastGestureCounter
        BY <2>1, <3>1, <4>1 DEF LapVisited, hwnds
      <4>2. CASE Position(x, hwnds) > lastGestureCounter
        <5>1. Position(x, hwnds) = lastGestureCounter' /\ lastGestureCounter' < n
          BY <1>6, <1>7, <2>1, <3>4, <4>2
        <5>2. lastGestureCounter' % n = lastGestureCounter'
          BY <1>6, <1>7, <5>1, RestOfSmaller
        <5>3. Position(x, hwnds) = Position(target', hwnds)
          BY <1>4, <1>10, <5>1, <5>2
        <5>4. x = target'
          BY <1>1, <1>4, <1>5, <3>2, <5>3, PositionsDiffer DEF Sorted
        <5> QED BY <2>1, <5>4
      <4> QED BY <1>7, <3>4, <4>1, <4>2
    <3>7. LapListed' /\ LapVisited'
      BY <1>2, <1>3, <2>1, <3>1, <3>6 DEF LapListed, LapVisited, hwnds
    <3>8. LapTarget'
      BY <1>2, <1>3, <1>4, <1>10, <2>1 DEF LapTarget, hwnds, n
    <3>9. ASSUME toneHz' = 1000, NEW x \in owed PROVE x \in visited
      <4>1. lastGestureCounter' >= n
        BY <1>4, <1>6, <1>7, <3>9, NoRest
      <4>2. Position(x, hwnds) <= lastGestureCounter
        BY <1>6, <1>7, <2>1, <3>4, <4>1
      <4> QED BY <2>1, <3>1, <4>2 DEF LapVisited, hwnds
    <3> QED BY <1>2, <2>1, <3>7, <3>8, <3>9 DEF Lap, HighToneMeansAllVisited
  <2> QED BY <2>2, <2>3
<1> QED BY <1>8, <1>9, <1>10

LEMMA CycleNext == ASSUME CycleInv, [Next]_vars PROVE CycleInv'
<1>1. TypeOK /\ TypeOK' /\ Sorted
  BY NextTyped DEF CycleInv
<1> SUFFICES Sorted' /\ Lap' /\ HighToneMeansAllVisited'
  BY <1>1 DEF CycleInv
<1>2. ASSUME UNCHANGED <<windows, before>> PROVE Sorted'
  BY <1>1, <1>2 DEF Sorted
<1> DEFINE Done == Sorted' /\ Lap' /\ HighToneMeansAllVisited'
<1>3. CASE UNCHANGED vars
  BY <1>2, <1>3, CycleFramed DEF vars, desktop, plugin, running, history, cycle
<1>4. ASSUME NEW key, Press(key) PROVE Done
  BY <1>2, <1>4, CycleFramed DEF Press, desktop, plugin, running, history, cycle
<1>5. ASSUME NEW place, GoTo(place) PROVE Done
  BY <1>2, <1>5, CycleFramed DEF GoTo, Event, plugin, running
<1>6. ASSUME NEW w \in Window, OpenWindow(w) PROVE Done
  BY <1>1, <1>6, CycleOpens
<1>7. ASSUME NEW w \in Window, CloseWindow(w) PROVE Done
  <2>1. windows' \subseteq windows /\ before' = before \cap (windows' \X windows')
    BY <1>7 DEF CloseWindow, Order!Among
  <2>2. Sorted'
    BY <1>1, <2>1 DEF Sorted, Order!IsOrder
  <2>3. /\ UNCHANGED <<lastEntry, lastGestureCounter, target, visited, toneHz>>
        /\ Leaves(w) /\ windows' = windows \ {w} /\ hidden' = hidden \ {w} /\ UNCHANGED matching
    BY <1>7 DEF CloseWindow, Vanishes, Event, plugin, running
  <2>4. Listed \ {w} \subseteq Listed'
    BY <2>3 DEF Listed, Visible
  <2>5. \A u, v \in windows \ {w} : <<u, v>> \in before' <=> <<u, v>> \in before
    BY <2>1, <2>3
  <2> QED BY <1>1, <2>2, <2>3, <2>4, <2>5, CycleLeaves
<1>16. ASSUME NEW w \in Window, Retitle(w) PROVE Done
  <2>1. UNCHANGED <<windows, before>>
    BY <1>16 DEF Retitle
  <2> QED BY <1>1, <1>2, <1>16, <2>1, CycleRetitled
<1>17. ASSUME NEW w \in Window, AppHides(w) PROVE Done
  <2>1. /\ UNCHANGED <<lastEntry, lastGestureCounter, target, visited, toneHz>>
        /\ Leaves(w) /\ hidden' = hidden \cup {w} /\ UNCHANGED <<windows, before, matching>>
    BY <1>17 DEF AppHides, Vanishes, Event, plugin, running
  <2>2. Listed \ {w} \subseteq Listed'
    BY <2>1 DEF Listed, Visible
  <2> QED BY <1>1, <1>2, <2>1, <2>2, CycleLeaves
<1>18. ASSUME NEW w \in Window, AppShows(w) PROVE Done
  <2>1. /\ UNCHANGED <<lastEntry, lastGestureCounter, target, visited, toneHz>>
        /\ hidden' = hidden \ {w} /\ UNCHANGED <<windows, before, matching, owed>>
    BY <1>18 DEF AppShows, Event, plugin, running
  <2>2. Grows
    BY <2>1 DEF Grows, Listed, Visible
  <2> QED BY <1>1, <1>2, <2>1, <2>2, CycleGrows
<1>8. CASE Reorder
  <2>1. Sorted'
    BY <1>8 DEF Reorder, Orders, Sorted
  <2> QED BY <1>8, <2>1, CycleFramed DEF Reorder
<1>9. CASE ReloadPlugin
  BY <1>2, <1>9, CycleFramed DEF ReloadPlugin
<1>10. ASSUME NEW entry \in Entry, TaskSwitch(entry) PROVE Done
  BY <1>2, <1>10, CycleSwitches DEF TaskSwitch
<1>11. ASSUME NEW entry \in Entry, TaskSwitchNone(entry) PROVE Done
  BY <1>2, <1>11, CycleFramed DEF TaskSwitchNone
<1>12. CASE HideWindow
  <2>1. /\ UNCHANGED <<windows, before, matching, lastEntry, lastGestureCounter, target, visited>>
        /\ Leaves(foreground) /\ hidden' \subseteq hidden \cup {foreground} /\ UNCHANGED toneHz
    BY <1>12 DEF HideWindow
  <2>2. Listed \ {foreground} \subseteq Listed'
    BY <2>1 DEF Listed, Visible
  <2> QED BY <1>1, <1>2, <2>1, <2>2, CycleLeaves
<1>13. CASE ShowWindows
  <2>1. /\ UNCHANGED <<windows, before, matching, lastEntry, lastGestureCounter, target, visited>>
        /\ hidden' \subseteq hidden /\ UNCHANGED <<owed, toneHz>>
    BY <1>13 DEF ShowWindows
  <2>2. Grows
    BY <2>1 DEF Grows, Listed, Visible
  <2> QED BY <1>1, <1>2, <2>1, <2>2, CycleGrows
<1>14. CASE CloseStartMenu \/ SwitchReturns \/ GiveUp
  BY <1>2, <1>14, CycleFramed
     DEF CloseStartMenu, SwitchReturns, GiveUp, Fail, desktop, plugin, cycle
<1>15. CASE Worker
  BY <1>2, <1>15, CycleFramed
     DEF Worker, WorkerActivates, WorkerReports, LateWorker, desktop, plugin, history, cycle
<1> QED BY <1>3, <1>4, <1>5, <1>6, <1>7, <1>8, <1>9, <1>10, <1>11, <1>12, <1>13, <1>14, <1>15,
           <1>16, <1>17, <1>18
        DEF Next, World, MainThread

\* HighToneMeansAllVisited, of script_taskSwitch: the high tone is not sounded
\* before every window that the cycle began with has had its turn, however many
\* there are and whichever enter the list meanwhile: windows that open, that are
\* shown, or whose title has come to fit.  Only a window that leaves the list
\* (closed, hidden or retitled), a new order or a failed switch is excepted.
THEOREM HighToneIsTrue == Spec => []HighToneMeansAllVisited
<1>1. CycleInv => HighToneMeansAllVisited
  BY DEF CycleInv
<1> QED BY <1>1, CycleInit, CycleNext, PTL DEF Spec

\* An entry with an index has one window at most.
LEMMA AtMostOne ==
  ASSUME TypeOK, Sorted, NEW entry \in Entry, Index[entry] # 0
  PROVE  Cardinality(queryEntry(entry)) <= 1
<1> DEFINE hwnds == Visible \cap matching[entry]
           listed == {w \in hwnds : Position(w, hwnds) + 1 = Index[entry]}
<1>1. hwnds \in SUBSET windows /\ IsFiniteSet(hwnds)
  BY FS_Subset DEF TypeOK, DesktopTypeOK, Visible
<1>2. queryEntry(entry) = listed
  BY DEF queryEntry
<1> HIDE DEF hwnds
<1>3. \A v, w \in listed : v = w
  <2>1. \A v \in hwnds : Position(v, hwnds) \in Nat
    BY <1>1, PositionSmall DEF Sorted
  <2>2. \A v, w \in listed : Position(v, hwnds) = Position(w, hwnds)
    BY <2>1
  <2> QED BY <1>1, <2>2, PositionsDiffer DEF Sorted
<1>4. queryEntry(entry) = {} \/ \E w : queryEntry(entry) = {w}
  <2>1. \A v, w \in queryEntry(entry) : v = w
    BY <1>2, <1>3
  <2>2. ASSUME NEW w \in queryEntry(entry) PROVE queryEntry(entry) = {w}
    BY <2>1
  <2> QED BY <2>2
<1> HIDE DEF listed
<1>5. CASE queryEntry(entry) = {}
  <2>1. Cardinality({}) = 0
    BY FS_EmptySet
  <2> QED BY <1>5, <2>1
<1>6. ASSUME NEW w, queryEntry(entry) = {w} PROVE Cardinality(queryEntry(entry)) <= 1
  <2>1. Cardinality({w}) = 1
    BY FS_Singleton
  <2> QED BY <1>6, <2>1
<1> QED BY <1>4, <1>5, <1>6

\* PromptPressAdvances, of script_taskSwitch: a press that is handled before the
\* next key goes down, and directly follows the one before, goes to another window.
THEOREM PromptPressesAdvance == Spec => PromptPressAdvances
<1>1. ASSUME CycleInv, [Next]_vars, NEW entry \in Entry, PressedAgain(entry),
             lastKeyCounter = pressedAt, keyCounter = Head(gestures).at
      PROVE  script' = "idle" \/ target' # target
  <2>1. /\ script = "idle" /\ gestures # <<>> /\ Head(gestures).gesture = entry
        /\ entry = lastEntry /\ owed = queryEntry(entry) /\ Cardinality(owed) > 1
        /\ keyCounter = lastKeyCounter + 1
    BY <1>1 DEF PressedAgain, NextScript
  <2>2. TypeOK /\ Sorted /\ Lap
    BY <1>1 DEF CycleInv
  <2>3. CASE TaskSwitch(entry)
    <3>1. Again(entry) /\ lastGestureCounter' = lastGestureCounter + 1
      BY <2>1, <2>3 DEF Again, TaskSwitch, Count, NextCounter
    <3>2. IsFiniteSet(owed) /\ owed # {}
      <4>1. owed \subseteq Window
        BY <2>2 DEF TypeOK, HistoryTypeOK
      <4>2. IsFiniteSet(owed)
        BY <4>1, FS_Subset
      <4> QED BY <2>1, <4>2, FS_EmptySet
    <3>3. Cardinality(owed) \in Nat
      BY <3>2, FS_CardinalityType
    <3>4. Index[entry] = 0
      BY <2>1, <2>2, <3>3, AtMostOne
    <3>5. Position(target, owed) = lastGestureCounter % Cardinality(owed)
      BY <2>1, <2>2, <3>2, <3>4 DEF Lap, LapTarget
    <3>6. Position(target', queryEntry(entry))
            = lastGestureCounter' % Cardinality(queryEntry(entry))
      BY <2>3, <3>4 DEF TaskSwitch
    <3>7. lastGestureCounter \in Nat
      BY <2>2 DEF TypeOK, PluginTypeOK
    <3> QED BY <2>1, <3>1, <3>3, <3>5, <3>6, <3>7, NextDiffers
  <2>4. CASE ~TaskSwitch(entry)
    <3>1. ASSUME NEW e \in Entry, TaskSwitch(e) PROVE FALSE
      BY <2>1, <2>4, <3>1 DEF TaskSwitch, NextScript
    <3>2. CASE UNCHANGED script
      BY <2>1, <3>2
    <3>3. CASE CloseStartMenu \/ SwitchReturns \/ GiveUp
      BY <2>1, <3>3 DEF CloseStartMenu, SwitchReturns, GiveUp
    <3>4. CASE Worker
      BY <3>2, <3>4 DEF Worker, WorkerActivates, WorkerReports, LateWorker
    <3>5. CASE World
      BY <3>2, <3>5
         DEF World, Press, GoTo, OpenWindow, CloseWindow, Retitle, AppHides, AppShows, Reorder,
             ReloadPlugin, Event, running
    <3>6. CASE UNCHANGED vars
      BY <3>2, <3>6 DEF vars, running
    <3>7. CASE HideWindow \/ ShowWindows \/ \E e \in Entry : TaskSwitchNone(e)
      BY <3>2, <3>7 DEF HideWindow, ShowWindows, TaskSwitchNone
    <3> QED BY <1>1, <3>1, <3>3, <3>4, <3>5, <3>6, <3>7 DEF Next, MainThread
  <2> QED BY <2>3, <2>4
<1>2. CycleInv /\ [Next]_vars =>
        [\A entry \in Entry :
           PressedAgain(entry) /\ lastKeyCounter = pressedAt /\ keyCounter = Head(gestures).at
             => script' = "idle" \/ target' # target]_vars
  BY <1>1
<1> QED BY <1>2, CycleInit, CycleNext, PTL DEF Spec, PromptPressAdvances
=============================================================================
