----------------------------- MODULE TaskSwitch -----------------------------
(***************************************************************************)
(* globalPlugins/taskSwitcher.py: what the keystrokes do.  NVDA's keyboard *)
(* hook runs in a thread of its own; it counts the keys and queues the     *)
(* scripts for the main thread, which runs one at a time.                  *)
(* script_taskSwitch picks a window of the entry, closes the start menu    *)
(* and waits up to a second for a worker thread that activates the window. *)
(* The windows are in the order in which the observer lists them; one that *)
(* appears is last.  Their titles, and what applications hide and show,    *)
(* change behind the plug-in's back.  The size of windows, speech and the  *)
(* focus event are left out.                                               *)
(***************************************************************************)
EXTENDS Integers, Sequences, FiniteSets, SequencesExt

CONSTANTS
  Window,      \* top-level windows; numbers, in the order they are listed at first
  Entry,       \* the entries that have a keystroke
  Match,       \* Match[entry]: windows of its application and path
  Titled,      \* the entries with a title pattern
  Index,       \* Index[entry]: 0 to cycle, or the number of the window it selects
  NoEntry,     \* None
  Other,       \* the foreground is no window of an entry, nor the start menu
  StartMenu,
  Hide, Show,  \* the keystrokes NVDA+Shift+- and NVDA+Shift+=
  AnyKey,      \* a key that runs no script of the add-on
  MaxKeys,     \* bound on the keys pressed
  MaxEvents    \* bound on what the user and applications do otherwise

ASSUME TaskSwitchAssumption ==
  /\ Window \subseteq Nat /\ IsFiniteSet(Window)
  /\ Match \in [Entry -> SUBSET Window] /\ Titled \subseteq Entry
  /\ Index \in [Entry -> Nat]
  /\ NoEntry \notin Entry
  /\ {Other, StartMenu} \cap Window = {} /\ Other # StartMenu
  /\ Hide # Show /\ AnyKey \notin {Hide, Show} /\ {Hide, Show, AnyKey} \cap Entry = {}
  /\ MaxKeys \in Nat /\ MaxEvents \in Nat

VARIABLES
  windows,        \* the open windows, hidden ones included
  before,         \* the order in which the observer lists them: a set of pairs
  matching,       \* matching[entry]: those in Match[entry] whose title fits by now
  hidden,         \* windows hidden by ShowWindow(SW_HIDE), whoever called it
  foreground,     \* what GetForegroundWindow names
  events,
  keyCounter,     \* NVDA's count of keys pressed
  gestures,       \* the scripts queued for the main thread
  lastEntry, lastGestureCounter, lastKeyCounter,
  hiddenWindows,
  script,         \* where script_taskSwitch is
  target,         \* its hwnd
  toneHz,
  worker,         \* where the worker it waits for is
  late,           \* late[w]: workers given up that are still to activate w
  owed,           \* history: the list the cycle began with, {} once it changed
  visited,        \* history: the windows the cycle has picked since
  pressedAt,      \* history: the key count when the last handled keystroke was pressed
  landed,         \* history: a worker reported success and nothing has been done since
  givenUp,        \* history: the targets of workers that were given up
  forgotten       \* history: windows hidden by their application, or when the
                  \*   plug-in was reloaded

listing == <<windows, before, matching>>
desktop == <<listing, hidden, foreground, events>>
keyboard == <<keyCounter, gestures>>
plugin == <<lastEntry, lastGestureCounter, lastKeyCounter, hiddenWindows>>
running == <<script, target, toneHz, worker, late>>
cycle == <<owed, visited, pressedAt>>
history == <<cycle, landed, givenUp, forgotten>>
vars == <<desktop, keyboard, plugin, running, history>>

\* The windows stand in an order, as WindowOrder has it.
Order == INSTANCE WindowOrder WITH reordering <- FALSE, answer <- {}

\* What the titles can make of the entries.
Matchings ==
  {m \in [Entry -> SUBSET Window] :
     \A e \in Entry : m[e] \subseteq Match[e] /\ (e \in Titled \/ m[e] = Match[e])}

Orders(S) == {r \in SUBSET (S \X S) : Order!IsOrder(r, S)}

Place == Window \cup {Other, StartMenu}
Keystroke == Entry \cup {Hide, Show}

DesktopTypeOK ==
  /\ windows \subseteq Window /\ before \subseteq windows \X windows
  /\ matching \in Matchings /\ hidden \subseteq windows
  /\ foreground \in windows \cup {Other, StartMenu}
  /\ events \in Nat
  /\ keyCounter \in Nat
  /\ gestures \in Seq([gesture: Keystroke, at: Nat])

PluginTypeOK ==
  /\ lastEntry \in Entry \cup {NoEntry}
  /\ lastGestureCounter \in Nat /\ lastKeyCounter \in Nat
  /\ hiddenWindows \in Seq(Place)

ScriptTypeOK ==
  /\ script \in {"idle", "menu", "wait"}
  /\ target \in Place
  /\ toneHz \in {100, 1000}
  /\ worker \in {"none", "running", "activated", "ok", "not ok"}
  /\ late \in [Window -> Nat]

HistoryTypeOK ==
  /\ owed \subseteq Window /\ visited \subseteq Window
  /\ pressedAt \in Nat
  /\ landed \in BOOLEAN
  /\ givenUp \subseteq Place /\ forgotten \subseteq windows

TypeOK == DesktopTypeOK /\ PluginTypeOK /\ ScriptTypeOK /\ HistoryTypeOK

Init ==
  /\ windows = Window /\ before = {o \in Window \X Window : o[1] < o[2]} /\ matching = Match
  /\ hidden = {} /\ hiddenWindows = <<>> /\ forgotten = {}
  /\ foreground = Other
  /\ events = 0
  /\ keyCounter = 0 /\ gestures = <<>>
  /\ lastEntry = NoEntry /\ lastGestureCounter = 0 /\ lastKeyCounter = 0
  /\ script = "idle" /\ target = Other /\ toneHz = 100
  /\ worker = "none" /\ late = [w \in Window |-> 0]
  /\ owed = {} /\ visited = {} /\ pressedAt = 0
  /\ landed = FALSE /\ givenUp = {}

Visible == windows \ hidden

-----------------------------------------------------------------------------
(* The windows of an entry.                                                *)

\* How many of the windows in S are listed before w.
Position(w, S) == Cardinality({v \in S : <<v, w>> \in before})

\* The visible windows of the entry; one of them, or none, if it has an index.
queryEntry(entry) ==
  LET hwnds == Visible \cap matching[entry]
  IN IF Index[entry] = 0 THEN hwnds
                         ELSE {w \in hwnds : Position(w, hwnds) + 1 = Index[entry]}

\* w is no longer listed: if the cycle lists it, what the cycle owes is void.
Leaves(w) ==
  owed' = IF lastEntry # NoEntry /\ w \in queryEntry(lastEntry) THEN {} ELSE owed

-----------------------------------------------------------------------------
(* The keyboard hook's thread and the world.                               *)

\* The key is counted when it goes down, the script runs when its turn comes.
Press(key) ==
  /\ keyCounter < MaxKeys
  /\ keyCounter' = keyCounter + 1
  /\ gestures' = IF key = AnyKey
                   THEN gestures
                   ELSE Append(gestures, [gesture |-> key, at |-> keyCounter + 1])
  /\ UNCHANGED <<desktop, plugin, running, history>>

\* The user or an application does something; what the last switch achieved
\* is void.
Event ==
  /\ events < MaxEvents
  /\ events' = events + 1
  /\ landed' = FALSE
  /\ UNCHANGED <<keyboard, plugin, running, visited, pressedAt, givenUp>>

GoTo(place) ==
  /\ Event
  /\ place \in (Visible \cup {Other, StartMenu}) \ {foreground}
  /\ foreground' = place
  /\ UNCHANGED <<listing, hidden, owed, forgotten>>

\* w has the title that the patterns of these entries look for.
Titles(w, fits) ==
  matching' = [e \in Entry |->
                 IF e \in Titled
                   THEN (matching[e] \ {w}) \cup (IF e \in fits THEN {w} \cap Match[e] ELSE {})
                   ELSE matching[e]]

OpenWindow(w) ==
  /\ Event
  /\ w \notin windows
  /\ windows' = windows \cup {w}
  /\ before' = before \cup (windows \X {w})
  /\ \E fits \in SUBSET Titled : Titles(w, fits)
  /\ foreground' \in {foreground, w}
  /\ UNCHANGED <<hidden, owed, forgotten>>

\* Its application gives the window another title.
Retitle(w) ==
  /\ Event
  /\ w \in windows
  /\ \E fits \in SUBSET Titled : Titles(w, fits)
  /\ IF lastEntry # NoEntry /\ w \in matching'[lastEntry] THEN UNCHANGED owed ELSE Leaves(w)
  /\ UNCHANGED <<windows, before, hidden, foreground, forgotten>>

\* The window is no longer to be seen: another has the foreground if it had it.
Vanishes(w) ==
  /\ IF foreground = w
       THEN foreground' \in (Visible \cup {Other}) \ {w}
       ELSE UNCHANGED foreground
  /\ Leaves(w)

CloseWindow(w) ==
  /\ Event
  /\ w \in windows
  /\ windows' = windows \ {w}
  /\ before' = Order!Among(before, windows')
  /\ hidden' = hidden \ {w} /\ forgotten' = forgotten \ {w}
  /\ Vanishes(w)
  /\ UNCHANGED matching

\* An application hides a window of its own, into the tray for instance, or
\* shows one, whoever has hidden it.
AppHides(w) ==
  /\ Event
  /\ w \in Visible
  /\ hidden' = hidden \cup {w} /\ forgotten' = forgotten \cup {w}
  /\ Vanishes(w)
  /\ UNCHANGED listing

AppShows(w) ==
  /\ Event
  /\ w \in hidden
  /\ hidden' = hidden \ {w} /\ forgotten' = forgotten \ {w}
  /\ foreground' \in {foreground, w}
  /\ UNCHANGED <<listing, owed>>

\* The user confirms another order in the "Reorder windows" dialog.
Reorder ==
  /\ Event
  /\ before' \in Orders(windows) \ {before}
  /\ owed' = {}
  /\ UNCHANGED <<windows, matching, hidden, foreground, forgotten>>

\* NVDA reloads its plug-ins: the module is imported anew, and with it the
\* class attribute hiddenWindows and the instance.
ReloadPlugin ==
  /\ Event
  /\ script = "idle" /\ gestures = <<>>
  /\ lastEntry' = NoEntry /\ lastGestureCounter' = 0 /\ lastKeyCounter' = 0
  /\ hiddenWindows' = <<>>
  /\ owed' = {} /\ visited' = {} /\ pressedAt' = 0
  /\ forgotten' = hidden
  /\ UNCHANGED <<listing, hidden, foreground, keyboard, running, givenUp>>

-----------------------------------------------------------------------------
(* script_taskSwitch.                                                      *)

\* Mutant: the key count has to stand still.
AgainAtOnce(entry) == entry = lastEntry /\ keyCounter = lastKeyCounter

\* The same keystroke again and no other key in between.
Again(entry) == entry = lastEntry /\ keyCounter = lastKeyCounter + 1

\* Mutant: the counter moves by two.
NextCounterByTwo(entry) == IF Again(entry) THEN lastGestureCounter + 2 ELSE 0

NextCounter(entry) == IF Again(entry) THEN lastGestureCounter + 1 ELSE 0

NextScript(gesture) ==
  /\ script = "idle"
  /\ gestures # <<>> /\ Head(gestures).gesture = gesture
  /\ gestures' = Tail(gestures)
  /\ pressedAt' = Head(gestures).at
  /\ landed' = FALSE
  /\ UNCHANGED <<events, keyCounter, worker, late, givenUp>>

\* The counters move before anything that can fail.
Count(entry) ==
  /\ lastEntry' = entry
  /\ lastGestureCounter' = NextCounter(entry)
  /\ lastKeyCounter' = keyCounter
  /\ UNCHANGED hiddenWindows

\* No window, and launchApp starts the application, or the query raises.
TaskSwitchNone(entry) ==
  /\ NextScript(entry)
  /\ Count(entry)
  /\ owed' = {} /\ visited' = {}
  /\ UNCHANGED <<listing, hidden, foreground, script, target, toneHz, forgotten>>

TaskSwitch(entry) ==
  /\ NextScript(entry)
  /\ Count(entry)
  /\ LET hwnds == queryEntry(entry)
         hwndIndex == IF Index[entry] = 0 THEN lastGestureCounter' % Cardinality(hwnds) ELSE 0
     IN /\ \E w \in hwnds : Position(w, hwnds) = hwndIndex /\ target' = w
        /\ toneHz' = IF Index[entry] = 0 /\ lastGestureCounter' > 0 /\ hwndIndex = 0
                       THEN 1000 ELSE 100
        /\ owed' = IF Again(entry) THEN owed ELSE hwnds
        /\ visited' = {target'} \cup IF Again(entry) THEN visited ELSE {}
  /\ script' = "menu"
  /\ UNCHANGED <<listing, hidden, foreground, forgotten>>

\* The script raises; the window it picked has not been visited.
Fail ==
  /\ script' = "idle"
  /\ owed' = {}
  /\ UNCHANGED <<landed, visited, pressedAt, forgotten>>

\* maybeCloseStartMenu: WM_CLOSE, and half a second for the menu to go; Windows
\* gives the foreground to some window then.
CloseStartMenu ==
  /\ script = "menu"
  /\ \/ /\ IF foreground = StartMenu THEN foreground' \in Visible \cup {Other}
                                    ELSE UNCHANGED foreground
        /\ script' = "wait" /\ worker' = "running"
        /\ UNCHANGED <<cycle, landed, forgotten>>
     \/ /\ foreground = StartMenu
        /\ Fail
        /\ UNCHANGED <<foreground, worker>>
  /\ UNCHANGED <<listing, hidden, events, keyboard, plugin, target, toneHz, late, givenUp>>

\* _activate_window_impl on a worker's thread: SetForegroundWindow may be
\* refused, and does nothing for a window that is gone.
SetForeground(w) ==
  \/ w \in windows /\ foreground' = w
  \/ UNCHANGED foreground

WorkerActivates ==
  /\ worker = "running"
  /\ worker' = "activated"
  /\ SetForeground(target)
  /\ UNCHANGED <<listing, hidden, events, keyboard, plugin, script, target, toneHz,
                 late, history>>

\* Mutant: the foreground is not looked at.
ActivatedUnchecked == TRUE

Activated == foreground = target

WorkerReports ==
  /\ worker = "activated"
  /\ worker' = IF Activated THEN "ok" ELSE "not ok"
  /\ landed' = Activated
  /\ UNCHANGED <<desktop, keyboard, plugin, script, target, toneHz, late, cycle, givenUp,
                 forgotten>>

LateWorker(w) ==
  /\ late[w] > 0
  /\ late' = [late EXCEPT ![w] = @ - 1]
  /\ SetForeground(w)
  /\ UNCHANGED <<listing, hidden, events, keyboard, plugin, script, target, toneHz,
                 worker, history>>

\* done is set within the second.
SwitchReturns ==
  /\ script = "wait"
  /\ worker \in {"ok", "not ok"}
  /\ worker' = "none"
  /\ IF worker = "ok"
       THEN script' = "idle" /\ UNCHANGED <<cycle, landed, forgotten>>
       ELSE Fail
  /\ UNCHANGED <<desktop, keyboard, plugin, target, toneHz, late, givenUp>>

\* Mutant: done.wait() without a time-out.
TimesOutNever == FALSE

TimesOut == worker \in {"running", "activated"}

\* done.wait(1.0) times out: the script raises and the worker goes on.
GiveUp ==
  /\ script = "wait"
  /\ TimesOut
  /\ worker' = "none"
  /\ late' = IF worker = "running" THEN [late EXCEPT ![target] = @ + 1] ELSE late
  /\ givenUp' = givenUp \cup {target}
  /\ Fail
  /\ UNCHANGED <<desktop, keyboard, plugin, target, toneHz>>

-----------------------------------------------------------------------------
(* Hidden windows.                                                         *)

\* Mutants: only the window hidden last is remembered; fg stays None.
RememberedLast == <<foreground>>
RememberedNone == Append(hiddenWindows, NoEntry)

Remembered == Append(hiddenWindows, foreground)

\* The foreground window is hidden, whatever it is, and Alt+Tab is sent.
HideWindow ==
  /\ NextScript(Hide)
  /\ hiddenWindows' = Remembered
  /\ hidden' = hidden \cup ({foreground} \cap Window)
  /\ forgotten' = forgotten \ {foreground}
  /\ foreground' \in (Visible \cup {Other}) \ hidden'
  /\ Leaves(foreground)
  /\ UNCHANGED <<listing, lastEntry, lastGestureCounter, lastKeyCounter, script, target, toneHz,
                 visited>>

ShowWindows ==
  /\ NextScript(Show)
  /\ hiddenWindows' = <<>>
  /\ hidden' = hidden \ ToSet(hiddenWindows)
  /\ forgotten' = forgotten \ ToSet(hiddenWindows)
  /\ \/ /\ hiddenWindows # <<>> /\ Last(hiddenWindows) \in windows \cup {Other, StartMenu}
        /\ foreground' = Last(hiddenWindows)
     \/ UNCHANGED foreground
  /\ UNCHANGED <<listing, lastEntry, lastGestureCounter, lastKeyCounter, script, target, toneHz,
                 owed, visited>>

-----------------------------------------------------------------------------

World ==
  \/ \E key \in Keystroke \cup {AnyKey} : Press(key)
  \/ \E place \in Place : GoTo(place)
  \/ \E w \in Window :
       OpenWindow(w) \/ CloseWindow(w) \/ Retitle(w) \/ AppHides(w) \/ AppShows(w)
  \/ Reorder
  \/ ReloadPlugin

MainThread ==
  \/ \E entry \in Entry : TaskSwitch(entry) \/ TaskSwitchNone(entry)
  \/ CloseStartMenu \/ SwitchReturns \/ GiveUp \/ HideWindow \/ ShowWindows

Worker == WorkerActivates \/ WorkerReports \/ \E w \in Window : LateWorker(w)

Next == World \/ MainThread \/ Worker

Spec == Init /\ [][Next]_vars

\* The main thread runs what is queued and its waits end, by the worker's
\* answer or by the clock; a worker may hang in a call to the window's thread.
FairSpec == Spec /\ WF_vars(MainThread)

-----------------------------------------------------------------------------
(* Properties.                                                             *)

\* The high tone says that the cycle is back at its first window: every window
\* that the entry had when the cycle began has been picked by then, also when
\* others opened, were shown or got a title that fits meanwhile, anywhere in the
\* list; provided that none left the list, closed, hidden or retitled, that the
\* user did not reorder it, and that no switch failed.
HighToneMeansAllVisited == toneHz = 1000 => owed \subseteq visited

\* The script runs for a press of the keystroke that directly follows the one
\* handled before, the list being the one the cycle began with.
PressedAgain(entry) ==
  /\ NextScript(entry)
  /\ entry = lastEntry
  /\ Head(gestures).at = pressedAt + 1
  /\ Cardinality(queryEntry(entry)) > 1
  /\ owed = queryEntry(entry)

\* Pressing the keystroke again goes to another window, if each press is
\* handled before the next key goes down.
PromptPressAdvances ==
  [][\A entry \in Entry :
       PressedAgain(entry) /\ lastKeyCounter = pressedAt /\ keyCounter = Head(gestures).at
         => script' = "idle" \/ target' # target]_vars

\* "... set to zero to cycle through all available windows": pressing the
\* keystroke again goes to another window, however fast.
EveryPressAdvances ==
  [][\A entry \in Entry : PressedAgain(entry) => script' = "idle" \/ target' # target]_vars

\* When a switch has reported success the window has the foreground until the
\* user or an application changes that; only a worker that an earlier switch
\* gave up can take it away.
LastSwitchWins == landed => foreground \in {target} \cup givenUp

\* A window hidden by the keystroke can be brought back: it is remembered until
\* it is shown, unless the plug-in was reloaded; the others are hidden by their
\* applications.
HiddenAreRemembered == hidden \subseteq ToSet(hiddenWindows) \cup forgotten

\* Whenever the user stops pressing keys, the main thread comes to rest with
\* every keystroke handled: no worker that hangs and no start menu that stays
\* keeps it for good.
PressesAreHandled == []<>(script = "idle" /\ gestures = <<>>)
=============================================================================
