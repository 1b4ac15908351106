------------------------------ MODULE HwndCache ------------------------------
(***************************************************************************)
(* hwndObserver.dll: the cache of window creation times.  Two threads use  *)
(* it.  The window thread handles the messages of the CBT hook             *)
(* (WindowProc) and stores or deletes one entry per message.  NVDA's main  *)
(* thread runs queryHwndsImpl, which enumerates the windows, answers, and  *)
(* then reconciles the cache with what it enumerated (updateCache), and    *)
(* updateTimestamps for the "Reorder windows" dialog.  LevelDB makes each  *)
(* Get, Put, Delete and Write atomic; nothing else orders the two threads. *)
(***************************************************************************)
EXTENDS Desktop, FiniteSets

CONSTANTS
  MayFail,         \* which calls may return an error, which is only logged, or not
                   \*   looked at: LevelDB's, EnumWindows, and looking at a process
  UserReorders,    \* may the user open the "Reorder windows" dialog
  EarlierStamps    \* the timestamps that an earlier session may have left

ASSUME HwndCacheAssumption ==
  /\ MayFail \subseteq {"write", "read", "enumerate", "process"}
  /\ UserReorders \in BOOLEAN
  /\ EarlierStamps \subseteq Nat

VARIABLES
  cache,          \* the LevelDB entries "ht<hwnd>": NoEntry or a timestamp
  appNameCache,   \* process-wide cache of the executable behind a handle
  pc,             \* where the main thread is
  processFilter,  \* RequestData of the running query: the application asked for
  timestamp,      \*   data.timestamp, taken before the enumeration
  allHwnds,       \*   data.allHwnds
  hwnds,          \*   data.hwnds: the windows of the answer
  todo,           \* handles that the running loop has still to visit
  batch,          \* handles collected in the leveldb::WriteBatch
  dialog,         \* the list shown by ReorderWindowsDialog, <<>> when closed
  pos,            \* index into dialog while updateTimestamps runs
  stampedBy,      \* history: who wrote the entry of a handle
  undecided,      \* history: entries that something other than this query decided,
                  \*   or that it failed to read or write
  settled,        \* history: windows that were at rest when no call was running
  chosen          \* history: which settled window the user last put before which

cacheVars == <<cache, stampedBy>>
queryVars == <<processFilter, timestamp, allHwnds, hwnds, todo, batch>>
dialogVars == <<dialog, pos>>
vars == <<desktopVars, cacheVars, queryVars, dialogVars, appNameCache, pc, undecided, settled,
          chosen>>

Entry == Nat \cup {NoEntry}

\* "hookBefore": by the hook, before the clock was set back; "query" stands for
\* an earlier session too, and for nobody when there is no entry.
Writer == {"hook", "hookBefore", "query", "user", "failed"}
Phase == {"idle", "begin", "enumerate", "drop", "lookup", "return", "update"}

\* The phases in which queryHwndsImpl is on the main thread's stack.
Querying == pc \notin {"idle", "update"}

TypeOK ==
  /\ DesktopTypeOK
  /\ cache \in [Hwnd -> Entry]
  /\ appNameCache \in [Hwnd -> App \cup {NoApp, EmptyName}]
  /\ pc \in Phase
  /\ processFilter \in App \cup {NoApp}
  /\ timestamp \in Nat
  /\ allHwnds \subseteq Hwnd
  /\ hwnds \subseteq [hwnd: Hwnd, timestamp: Nat]
  /\ IsFiniteSet(hwnds)
  /\ todo \subseteq Hwnd
  /\ batch \subseteq Hwnd
  /\ dialog \in Seq(Hwnd)
  /\ pos \in Nat
  /\ pc = "update" => pos \in DOMAIN dialog
  /\ stampedBy \in [Hwnd -> Writer]
  /\ undecided \subseteq Hwnd
  /\ settled \subseteq Hwnd
  /\ chosen \subseteq Hwnd \X Hwnd

\* init() has run: loadCache opened a cache that is empty, or that an earlier
\* NVDA session of the same boot filled for whatever windows existed then.
Init ==
  /\ DesktopInit
  /\ cache \in [Hwnd -> {NoEntry} \cup EarlierStamps]
  /\ stampedBy = [h \in Hwnd |-> "query"]
  /\ appNameCache = [h \in Hwnd |-> NoApp]
  /\ pc = "idle"
  /\ processFilter = NoApp
  /\ timestamp = 0
  /\ allHwnds = {}
  /\ hwnds = {}
  /\ todo = {}
  /\ batch = {}
  /\ dialog = <<>>
  /\ pos = 0
  /\ undecided = {}
  /\ settled = {h \in Live : cache[h] # NoEntry}
  /\ chosen = {}

-----------------------------------------------------------------------------
(* LevelDB.                                                                *)

\* One atomic write that sets the entries of hs to e; a failed one changes
\* nothing and the caller only logs it.
WriteEntries(hs, e, who) ==
  \/ /\ cache' = [h \in Hwnd |-> IF h \in hs THEN e ELSE cache[h]]
     /\ stampedBy' = [h \in Hwnd |-> IF h \in hs THEN who ELSE stampedBy[h]]
  \/ /\ "write" \in MayFail
     /\ stampedBy' = [h \in Hwnd |-> IF h \in hs THEN "failed" ELSE stampedBy[h]]
     /\ UNCHANGED cache

cacheTimestamp(h, t, who) == WriteEntries({h}, t, who)
deleteTimestamp(h) == WriteEntries({h}, NoEntry, "query")

\* History: a running query does not decide what becomes of these entries.
Undecided(hs) == undecided' = IF Querying THEN undecided \cup hs ELSE undecided

-----------------------------------------------------------------------------
(* The window thread: WindowProc on the message at the head of the queue.  *)

\* Mutant: an entry that is already there is kept.
HandleCreateIfAbsent ==
  /\ queue # <<>>
  /\ Head(queue).type = "WM_CBT_CREATE_WINDOW_MSG"
  /\ queue' = Tail(queue)
  /\ LET h == Head(queue).hwnd
     IN cacheTimestamp(h, IF cache[h] = NoEntry THEN clock ELSE cache[h], "hook")
  /\ Undecided({Head(queue).hwnd})
  /\ UNCHANGED <<events, clock, window, owner, shown, born, hooked, appNameCache,
                 pc, queryVars, dialogVars>>

HandleCreate ==
  /\ queue # <<>>
  /\ Head(queue).type = "WM_CBT_CREATE_WINDOW_MSG"
  /\ queue' = Tail(queue)
  /\ cacheTimestamp(Head(queue).hwnd, clock, "hook")
  /\ Undecided({Head(queue).hwnd})
  /\ UNCHANGED <<events, clock, window, owner, shown, born, hooked, appNameCache,
                 pc, queryVars, dialogVars>>

HandleDestroy ==
  /\ queue # <<>>
  /\ Head(queue).type = "WM_CBT_DESTROY_WINDOW_MSG"
  /\ queue' = Tail(queue)
  /\ deleteTimestamp(Head(queue).hwnd)
  /\ Undecided({Head(queue).hwnd})
  /\ UNCHANGED <<events, clock, window, owner, shown, born, hooked, appNameCache,
                 pc, queryVars, dialogVars>>

-----------------------------------------------------------------------------
(* The main thread: queryHwndsImpl.                                        *)

QueryHwnds(app) ==
  /\ pc = "idle"
  /\ pc' = "begin"
  /\ processFilter' = app
  /\ timestamp' = clock
  /\ allHwnds' = {}
  /\ hwnds' = {}
  /\ todo' = {}
  /\ batch' = {}
  /\ undecided' = {}
  /\ UNCHANGED <<desktopVars, cacheVars, dialogVars, appNameCache>>

\* EnumWindows takes the list of handles first and then calls back for each.
\* When it fails some, or all, of them are missing; its result is not looked at.
EnumWindows ==
  /\ pc = "begin"
  /\ pc' = "enumerate"
  /\ \/ todo' = Enumerable
     \/ "enumerate" \in MayFail /\ todo' \in SUBSET Enumerable
  /\ UNCHANGED <<desktopVars, cacheVars, dialogVars, appNameCache,
                 processFilter, timestamp, allHwnds, hwnds, batch, undecided>>

\* GetParent and IsWindowVisible let the window through.
PassesVisibility(h) == shown[h]

Known(h) == appNameCache[h] # NoApp

\* Mutant: the comparison with the filter is forgotten.
KnownPassesAny(h) == appNameCache[h] # EmptyName

\* A known handle is judged by what is remembered and never looked up again.
KnownPassesFilter(h) == appNameCache[h] = processFilter

\* Mutant: the cache is not looked up.
AnswerForUncached(h) == [hwnd |-> h, timestamp |-> timestamp]

\* Mutant: no default timestamp.
AnswerForCached(h) == [hwnd |-> h, timestamp |-> cache[h]]

AnswerFor(h) ==
  [hwnd |-> h, timestamp |-> IF cache[h] = NoEntry THEN timestamp ELSE cache[h]]

\* The window joins the answer; with data.timestamp also when Get fails to read
\* the entry that it has.
Answer(h) ==
  \/ /\ hwnds' = hwnds \cup {AnswerFor(h)}
     /\ UNCHANGED undecided
  \/ /\ "read" \in MayFail /\ cache[h] # NoEntry
     /\ hwnds' = hwnds \cup {[hwnd |-> h, timestamp |-> timestamp]}
     /\ Undecided({h})

EnumWindowsCallback(h) ==
  /\ pc = "enumerate"
  /\ h \in todo
  /\ todo' = todo \ {h}
  /\ allHwnds' = allHwnds \cup {h}
  /\ \/ \* not visible, or remembered as a window of another application
        /\ ~PassesVisibility(h) \/ (Known(h) /\ ~KnownPassesFilter(h))
        /\ UNCHANGED <<appNameCache, hwnds, undecided>>
     \/ \* remembered as a window of this application
        /\ Known(h) /\ KnownPassesFilter(h)
        /\ PassesVisibility(h)
        /\ Answer(h)
        /\ UNCHANGED appNameCache
     \/ \* a new handle, and the process cannot be opened
        /\ "process" \in MayFail
        /\ ~Known(h) /\ PassesVisibility(h)
        /\ UNCHANGED <<appNameCache, hwnds, undecided>>
     \/ \* a new handle, and the path of the process cannot be read
        /\ "process" \in MayFail
        /\ ~Known(h) /\ PassesVisibility(h)
        /\ appNameCache' = [appNameCache EXCEPT ![h] = EmptyName]
        /\ UNCHANGED <<hwnds, undecided>>
     \/ \* a new handle, and its executable is known from now on
        /\ ~Known(h) /\ PassesVisibility(h)
        /\ appNameCache' = [appNameCache EXCEPT ![h] = owner[h]]
        /\ IF owner[h] = processFilter THEN Answer(h) ELSE UNCHANGED <<hwnds, undecided>>
  /\ UNCHANGED <<desktopVars, cacheVars, dialogVars, pc, processFilter, timestamp,
                 batch>>

\* Mutants: the answer, which lacks hidden windows, is taken for the list of
\* windows; no entry is stale.
UnlistedInAnswer == {h \in Hwnd : cache[h] # NoEntry /\ \A r \in hwnds : r.hwnd # h}
UnlistedNone == {}

\* The entries of handles that were not enumerated.
Unlisted == {h \in Hwnd : cache[h] # NoEntry /\ h \notin allHwnds}

\* updateCache, part 1: the iterator sees the entries of one moment; the stale
\* ones go into the batch.  It passes over those that it cannot read, and its
\* status is not looked at.
ScanCache ==
  /\ pc = "enumerate"
  /\ todo = {}
  /\ pc' = "drop"
  /\ \/ batch' = Unlisted
     \/ "read" \in MayFail /\ batch' \in SUBSET Unlisted
  /\ Undecided(Unlisted \ batch')
  /\ UNCHANGED <<desktopVars, cacheVars, dialogVars, appNameCache,
                 processFilter, timestamp, allHwnds, hwnds, todo>>

DropUnlisted ==
  /\ pc = "drop"
  /\ pc' = "lookup"
  /\ WriteEntries(batch, NoEntry, "query")
  /\ Undecided(IF cache' = cache THEN batch ELSE {})
  /\ todo' = allHwnds
  /\ batch' = {}
  /\ UNCHANGED <<desktopVars, dialogVars, appNameCache, processFilter, timestamp,
                 allHwnds, hwnds>>

\* updateCache, part 2: one Get per enumerated handle, then one Write.  A handle
\* without an entry is not added when Get fails to say so.
LookUp(h) ==
  /\ pc = "lookup"
  /\ h \in todo
  /\ todo' = todo \ {h}
  /\ \/ /\ batch' = IF cache[h] = NoEntry THEN batch \cup {h} ELSE batch
        /\ UNCHANGED undecided
     \/ /\ "read" \in MayFail /\ cache[h] = NoEntry
        /\ Undecided({h})
        /\ UNCHANGED batch
  /\ UNCHANGED <<desktopVars, cacheVars, dialogVars, appNameCache, pc,
                 processFilter, timestamp, allHwnds, hwnds>>

\* Mutant: missing entries get the time of the write, not data.timestamp.
AddMissingNow ==
  /\ pc = "lookup"
  /\ todo = {}
  /\ pc' = "return"
  /\ WriteEntries(batch, clock, "query")
  /\ Undecided(IF cache' = cache THEN batch ELSE {})
  /\ batch' = {}
  /\ UNCHANGED <<desktopVars, dialogVars, appNameCache, processFilter, timestamp,
                 allHwnds, hwnds, todo>>

AddMissing ==
  /\ pc = "lookup"
  /\ todo = {}
  /\ pc' = "return"
  /\ WriteEntries(batch, timestamp, "query")
  /\ Undecided(IF cache' = cache THEN batch ELSE {})
  /\ batch' = {}
  /\ UNCHANGED <<desktopVars, dialogVars, appNameCache, processFilter, timestamp,
                 allHwnds, hwnds, todo>>

\* The Python side has read the answer.
QueryDone ==
  /\ pc' = "idle"
  /\ processFilter' = NoApp
  /\ timestamp' = 0
  /\ allHwnds' = {}
  /\ hwnds' = {}
  /\ undecided' = {}
  /\ UNCHANGED <<desktopVars, cacheVars, appNameCache, todo, batch>>

Return ==
  /\ pc = "return"
  /\ QueryDone
  /\ UNCHANGED dialogVars

-----------------------------------------------------------------------------
(* The main thread: ReorderWindowsDialog and updateTimestamps.             *)

\* queryHwnds() in Python sorts by (timestamp, hwnd).
Before(a, b) ==
  a.timestamp < b.timestamp \/ (a.timestamp = b.timestamp /\ a.hwnd < b.hwnd)

Listings(S) ==
  {s \in [1..Cardinality(S) -> S] :
     \A i, j \in 1..Cardinality(S) : i < j => Before(s[i], s[j])}

\* The dialog's constructor runs a query and keeps its answer.
OpenReorderDialog ==
  /\ UserReorders
  /\ pc = "return"
  /\ dialog = <<>>
  /\ \E s \in Listings(hwnds) : dialog' = [i \in DOMAIN s |-> s[i].hwnd]
  /\ QueryDone
  /\ UNCHANGED pos

\* The move buttons: -1, 1, -1000, 1000; the new index is clamped to the list
\* and the two windows swap places.
OnMoveClick(i, increment) ==
  /\ pc = "idle"
  /\ i \in DOMAIN dialog
  /\ LET target == i + increment
         n == IF target < 1 THEN 1 ELSE IF target > Len(dialog) THEN Len(dialog) ELSE target
     IN dialog' = [dialog EXCEPT ![i] = dialog[n], ![n] = dialog[i]]
  /\ UNCHANGED <<desktopVars, cacheVars, queryVars, appNameCache, pc, pos, undecided>>

CancelReorder ==
  /\ pc = "idle"
  /\ dialog # <<>>
  /\ dialog' = <<>>
  /\ UNCHANGED <<desktopVars, cacheVars, queryVars, appNameCache, pc, pos, undecided>>

ReorderOk ==
  /\ pc = "idle"
  /\ dialog # <<>>
  /\ pc' = "update"
  /\ pos' = 1
  /\ UNCHANGED <<desktopVars, cacheVars, queryVars, dialog, appNameCache, undecided>>

\* updateTimestamps: one Put per listed window, its timestamp the 0-based index.
\* Mutant: every listed window gets the time of the reordering.
UpdateTimestampNow ==
  /\ pc = "update"
  /\ cacheTimestamp(dialog[pos], clock, "user")
  /\ IF pos < Len(dialog)
       THEN pos' = pos + 1 /\ UNCHANGED <<pc, dialog>>
       ELSE pos' = 0 /\ pc' = "idle" /\ dialog' = <<>>
  /\ UNCHANGED <<desktopVars, queryVars, appNameCache, undecided>>

UpdateTimestamp ==
  /\ pc = "update"
  /\ cacheTimestamp(dialog[pos], pos - 1, "user")
  /\ IF pos < Len(dialog)
       THEN pos' = pos + 1 /\ UNCHANGED <<pc, dialog>>
       ELSE pos' = 0 /\ pc' = "idle" /\ dialog' = <<>>
  /\ UNCHANGED <<desktopVars, queryVars, appNameCache, undecided>>

-----------------------------------------------------------------------------

WindowThread == HandleCreate \/ HandleDestroy

MainThread ==
  \/ \E app \in App : QueryHwnds(app)
  \/ EnumWindows
  \/ \E h \in Hwnd : EnumWindowsCallback(h) \/ LookUp(h)
  \/ ScanCache
  \/ DropUnlisted
  \/ AddMissing
  \/ Return
  \/ OpenReorderDialog
  \/ \E i \in DOMAIN dialog : \E increment \in {-1, 1, -1000, 1000} : OnMoveClick(i, increment)
  \/ CancelReorder
  \/ ReorderOk
  \/ UpdateTimestamp

World ==
  /\ DesktopNext
  /\ stampedBy' = IF clock' < clock
                    THEN [h \in Hwnd |->
                            IF stampedBy[h] = "hook" THEN "hookBefore" ELSE stampedBy[h]]
                    ELSE stampedBy
  /\ UNCHANGED <<cache, queryVars, dialogVars, appNameCache, pc, undecided>>

Precedes(s) ==
  {p \in Hwnd \X Hwnd : \E i, j \in DOMAIN s : i < j /\ s[i] = p[1] /\ s[j] = p[2]}

\* A window settles when no call runs, it is in place, every message about it
\* has been handled and it has an entry; it stays so until it is destroyed, or
\* EnumWindows fails to list it.
AtRest(h) == window[h] = "live" /\ h \notin Pending /\ cache[h] # NoEntry

Stays(h) == window'[h] = "live" /\ (pc = "begin" /\ pc' = "enumerate" => h \in todo')

Settle ==
  /\ settled' = {h \in Hwnd : (h \in settled /\ Stays(h)) \/ (pc' = "idle" /\ AtRest(h)')}
  /\ chosen' = {p \in IF pc # "update" /\ pc' = "update" THEN Precedes(dialog) ELSE chosen :
                  p[1] \in settled' /\ p[2] \in settled'}

Next == (World \/ WindowThread \/ MainThread) /\ Settle

Spec == Init /\ [][Next]_vars
-----------------------------------------------------------------------------
(* Properties.                                                             *)

\* When updateCache is done, the cache holds exactly the enumerated windows:
\* no stale entry of a closed window survives a query and no enumerated window
\* is left without a timestamp, but for the entries that a message handled
\* meanwhile or a failed write decided, or that the query failed to read.
Reconciled ==
  pc = "return" =>
    \A h \in Hwnd \ undecided : cache[h] # NoEntry <=> h \in allHwnds

\* What a query answered is what the cache now holds, so that the next query
\* sorts the same windows in the same order: the default timestamp that
\* EnumWindowsCallback reports for an unknown window is the one updateCache
\* stores for it.  Excepted are the entries that Reconciled excepts: after a
\* failed Get the answer says data.timestamp, whatever is stored.
AnswerIsStored ==
  pc = "return" =>
    \A r \in hwnds : r.hwnd \notin undecided => cache[r.hwnd] = r.timestamp

\* Of two open windows whose entries the hook's messages stored since the clock
\* was last set back, the one that was created earlier never has the later
\* timestamp, whatever the delay between the hook and WindowProc and whatever
\* handles were reused.  A window that a query stamped is not spoken of.
CreationOrder ==
  \A g, h \in {w \in Live \ Pending : stampedBy[w] = "hook" /\ born[w] # NoEntry} :
    born[g] < born[h] => cache[g] <= cache[h]

\* Once a window is at rest, nothing but the user's own reordering changes its
\* timestamp as long as the window lives and EnumWindows lists it: no query, in
\* whatever phase the messages of other windows overtake it and whatever reads
\* and writes fail, drops or restamps it, also while it is hidden.
SettledKeepsStamp ==
  [][\A h \in settled \cap settled' : pc # "update" => cache'[h] = cache[h]]_vars

\* Settled windows stay in the order in which the user confirmed them, however
\* many queries and window events follow, until the user confirms another one,
\* but for those that updateTimestamps failed to write.
UserOrderKept ==
  pc # "update" =>
    \A p \in chosen :
      "failed" \notin {stampedBy[p[1]], stampedBy[p[2]]} => cache[p[1]] < cache[p[2]]

\* The abstract specification: the windows at rest have their place, and stand
\* in the order in which queryHwnds() sorts them.
Order == INSTANCE WindowOrder WITH
  Window <- Hwnd,
  windows <- settled,
  before <- {p \in settled \X settled : Before([hwnd |-> p[1], timestamp |-> cache[p[1]]],
                                               [hwnd |-> p[2], timestamp |-> cache[p[2]]])},
  reordering <- pc = "update",
  answer <- IF pc # "return" THEN {}
            ELSE {<<p[1].hwnd, p[2].hwnd>> :
                    p \in {q \in hwnds \X hwnds :
                             /\ {q[1].hwnd, q[2].hwnd} \subseteq settled \ undecided
                             /\ Before(q[1], q[2])}}

\* The windows at rest stand in one order, which only the user's reordering
\* changes, however messages and failing calls interrupt the queries; and every
\* query answers in it, as far as it could read the entries.
OneOrder == Order!Spec

\* Every window a query returns belongs to the application asked for, if the
\* window has been there since before the query.
AnswerBelongsToApp ==
  pc = "return" => \A r \in hwnds : r.hwnd \in settled => owner[r.hwnd] = processFilter

\* README.md: "Once it starts, Task switcher will monitor and record creation
\* time for all windows": when nothing is under way, an open window whose
\* creation the hook reported has the timestamp recorded then, or the one the
\* user gave it.
CreationTimeRecorded ==
  pc = "idle" /\ queue = <<>> =>
    \A h \in Live : born[h] # NoEntry => stampedBy[h] \in {"hook", "hookBefore", "user"}

-----------------------------------------------------------------------------
(* Liveness.  GetMessage blocks until there is a message and WindowProc    *)
(* always returns; a call of the main thread runs to its end.  Nothing     *)
(* makes the user press a key or an application open a window.             *)

Running == EnumWindows \/ ScanCache \/ DropUnlisted \/ AddMissing \/ Return \/ UpdateTimestamp
           \/ \E h \in Hwnd : EnumWindowsCallback(h) \/ LookUp(h)

FairSpec == Spec /\ WF_vars(WindowThread /\ Settle) /\ WF_vars(Running /\ Settle)

\* If windows stop coming and going and the user keeps switching tasks without
\* reordering, the cache comes to hold the open windows and only those, for
\* good, where LevelDB and EnumWindows do not fail: lost messages and interrupted
\* reconciliations are made good.
CacheConverges ==
  <>[][window' = window]_vars /\ []<>(pc = "return") /\ <>[](dialog = <<>>)
    => <>[](\A h \in Hwnd : cache[h] # NoEntry <=> h \in Enumerable)
=============================================================================
