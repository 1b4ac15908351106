------------------------------- MODULE Desktop -------------------------------
(***************************************************************************)
(* The world the observer lives in: top-level windows of applications, the *)
(* system-wide CBT hook that the cbt_client processes install              *)
(* (cbt_hook/cbt_hook/dllmain.cpp), and the message queue of the           *)
(* observer's invisible window.  The lifetime of windows is Windows' own   *)
(* and is modelled from how the hook and EnumWindows use it.               *)
(***************************************************************************)
EXTENDS Integers, Sequences

CONSTANTS
  Hwnd,          \* window handles; numbers, because ties are broken by handle
  App,           \* executables that own windows (path and file name are one)
  NoApp,         \* no executable
  EmptyName,     \* the file name of an executable whose path cannot be read
  NoEntry,       \* no timestamp
  Epoch,         \* the time at which the behaviour starts, in milliseconds
  MaxClock,      \* bound on the clock
  MaxEvents,     \* bound on what applications and the hook's clients do
  QueueLimit,    \* PostMessage fails on a queue that already holds so many
  ReuseHandles   \* may Windows give a freed handle to a new window

ASSUME DesktopAssumption ==
  /\ Hwnd \subseteq Nat
  /\ NoApp \notin App
  /\ EmptyName \notin App \cup {NoApp}
  /\ NoEntry \notin Nat
  /\ Epoch \in Nat
  /\ MaxClock \in Nat
  /\ MaxEvents \in Nat
  /\ QueueLimit \in Nat
  /\ ReuseHandles \in BOOLEAN

VARIABLES
  events,   \* how many of the MaxEvents events have happened
  clock,    \* what getTimestamp() returns
  window,   \* where each handle is in the life of the window it names
  owner,    \* the executable of that window
  shown,    \* the window is visible and has no parent
  born,     \* history: the event at which the hook posted its creation, NoEntry
            \*   if it did not
  hooked,   \* the CBT hook is installed
  queue     \* messages posted to the invisible window, oldest first

desktopVars == <<events, clock, window, owner, shown, born, hooked, queue>>

MessageType == {"WM_CBT_CREATE_WINDOW_MSG", "WM_CBT_DESTROY_WINDOW_MSG"}

\* "at" is history: the event that posted it; the program sees only the message
\* number and wParam.
Message == [type: MessageType, hwnd: Hwnd, at: Nat]

\* The handles for which a message still waits to be handled.
Pending == {queue[i].hwnd : i \in DOMAIN queue}

\* The handles EnumWindows lists: linked into the desktop's window list, which
\* a window is not yet when HCBT_CREATEWND fires, and still is when
\* HCBT_DESTROYWND fires.
Enumerable == {h \in Hwnd : window[h] \in {"live", "destroying"}}

Live == {h \in Hwnd : window[h] = "live"}

DesktopTypeOK ==
  /\ events \in Nat
  /\ clock \in Nat
  /\ window \in [Hwnd -> {"none", "creating", "live", "destroying", "retired"}]
  /\ owner \in [Hwnd -> App \cup {NoApp}]
  /\ shown \in [Hwnd -> BOOLEAN]
  /\ born \in [Hwnd -> Nat \cup {NoEntry}]
  /\ hooked \in BOOLEAN
  /\ queue \in Seq(Message)

\* Some windows exist before the observer starts; their creation was not seen.
DesktopInit ==
  /\ events = 0
  /\ clock = Epoch
  /\ window \in [Hwnd -> {"none", "live"}]
  /\ owner \in {f \in [Hwnd -> App \cup {NoApp}] :
                  \A h \in Hwnd : f[h] = NoApp <=> window[h] = "none"}
  /\ shown = [h \in Hwnd |-> window[h] = "live"]
  /\ born = [h \in Hwnd |-> NoEntry]
  /\ hooked \in BOOLEAN
  /\ queue = <<>>

\* An event the program does not control; steps that merely complete one are free.
Event == events < MaxEvents /\ events' = events + 1

-----------------------------------------------------------------------------
(* The CBT hook.                                                           *)

Delivered == hooked /\ Len(queue) < QueueLimit

\* CBTProc runs in the thread that creates or destroys the window and posts;
\* a post to a full queue, or an event while no hook is installed, is lost.
CBTProc(type, h) ==
  queue' = IF Delivered
             THEN Append(queue, [type |-> type, hwnd |-> h, at |-> events + 1])
             ELSE queue

\* cbt_client starts (InstallCBTHook) or its process ends.
SetHook ==
  /\ Event
  /\ hooked' = ~hooked
  /\ UNCHANGED <<clock, window, owner, shown, born, queue>>

-----------------------------------------------------------------------------
(* Windows.                                                                *)

\* CreateWindow: the hook fires before the window can be enumerated.
BeginCreate(h, a) ==
  /\ Event
  /\ window[h] = "none"
  /\ window' = [window EXCEPT ![h] = "creating"]
  /\ owner' = [owner EXCEPT ![h] = a]
  /\ born' = [born EXCEPT ![h] = IF Delivered THEN events + 1 ELSE NoEntry]
  /\ CBTProc("WM_CBT_CREATE_WINDOW_MSG", h)
  /\ UNCHANGED <<clock, shown, hooked>>

FinishCreate(h) ==
  /\ window[h] = "creating"
  /\ window' = [window EXCEPT ![h] = "live"]
  /\ \E visible \in BOOLEAN : shown' = [shown EXCEPT ![h] = visible]
  /\ UNCHANGED <<events, clock, owner, born, hooked, queue>>

Gone(h) ==
  /\ window' = [window EXCEPT ![h] = IF ReuseHandles THEN "none" ELSE "retired"]
  /\ owner' = [owner EXCEPT ![h] = NoApp]
  /\ shown' = [shown EXCEPT ![h] = FALSE]
  /\ born' = [born EXCEPT ![h] = NoEntry]
  /\ UNCHANGED <<clock, hooked, queue>>

\* Creation is refused after the hook fired, or the owning process is killed:
\* the window disappears without HCBT_DESTROYWND.
Vanish(h) ==
  /\ Event
  /\ window[h] \in {"creating", "live"}
  /\ Gone(h)

\* DestroyWindow: the hook fires while the window can still be enumerated.
BeginDestroy(h) ==
  /\ Event
  /\ window[h] = "live"
  /\ window' = [window EXCEPT ![h] = "destroying"]
  /\ CBTProc("WM_CBT_DESTROY_WINDOW_MSG", h)
  /\ UNCHANGED <<clock, owner, shown, born, hooked>>

FinishDestroy(h) ==
  /\ window[h] = "destroying"
  /\ Gone(h)
  /\ UNCHANGED events

\* ShowWindow, minimising to the tray, re-parenting.
ToggleShown(h) ==
  /\ Event
  /\ window[h] = "live"
  /\ shown' = [shown EXCEPT ![h] = ~@]
  /\ UNCHANGED <<clock, window, owner, born, hooked, queue>>

Tick ==
  /\ clock < MaxClock
  /\ clock' = clock + 1
  /\ UNCHANGED <<events, window, owner, shown, born, hooked, queue>>

\* system_clock is the wall clock: the user or the time service may set it back.
SetClockBack ==
  /\ clock' \in 0..(clock - 1)
  /\ UNCHANGED <<events, window, owner, shown, born, hooked, queue>>

DesktopNext ==
  \/ SetHook
  \/ Tick
  \/ SetClockBack
  \/ \E h \in Hwnd :
       \/ \E a \in App : BeginCreate(h, a)
       \/ FinishCreate(h)
       \/ Vanish(h)
       \/ BeginDestroy(h)
       \/ FinishDestroy(h)
       \/ ToggleShown(h)
=============================================================================
