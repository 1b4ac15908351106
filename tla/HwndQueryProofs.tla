-------------------------- MODULE HwndQueryProofs --------------------------
(***************************************************************************)
(* What a query leaves in the cache and what it answers, for any windows   *)
(* and applications, whatever comes between its steps.                     *)
(***************************************************************************)
EXTENDS HwndCacheProofs

USE DesktopAssumption

-----------------------------------------------------------------------------
(* The cache holds what was enumerated.  The strengthening: what the two   *)
(* batches hold of the handles that the query decides.                     *)

Scanned ==
  pc = "drop" =>
    \A h \in Hwnd \ undecided : h \in batch <=> cache[h] # NoEntry /\ h \notin allHwnds

LookedUp ==
  pc = "lookup" =>
    /\ todo \subseteq allHwnds /\ batch \subseteq allHwnds \ todo
    /\ \A h \in Hwnd \ undecided :
         /\ h \notin allHwnds => cache[h] = NoEntry
         /\ h \in allHwnds \ todo => (h \in batch <=> cache[h] = NoEntry)

ReconcileInv == TypeOK /\ Scanned /\ LookedUp /\ Reconciled

\* Of the handles that a write is given it decides all, or changes nothing.
LEMMA WriteDecides ==
  ASSUME TypeOK, NEW hs, NEW e, NEW who, WriteEntries(hs, e, who)
  PROVE  \/ UNCHANGED cache
         \/ \A h \in Hwnd : cache'[h] = IF h \in hs THEN e ELSE cache[h]
BY DEF WriteEntries

\* A running query does not decide the entry that a message changes.
LEMMA MessageDecides ==
  ASSUME TypeOK, WindowThread
  PROVE  /\ UNCHANGED <<pc, queryVars, dialogVars>>
         /\ Querying => /\ undecided \subseteq undecided'
                        /\ \A h \in Hwnd \ undecided' : cache'[h] = cache[h]
<1> DEFINE g == Head(queue).hwnd
<1>1. /\ UNCHANGED <<pc, queryVars, dialogVars>> /\ Undecided({g})
      /\ WriteEntries({g}, clock, "hook") \/ WriteEntries({g}, NoEntry, "query")
  BY DEF WindowThread, HandleCreate, HandleDestroy, cacheTimestamp, deleteTimestamp
<1>2. clock \in Entry /\ NoEntry \in Entry
  BY DEF TypeOK, DesktopTypeOK, Entry
<1>3. \A h \in Hwnd : h # g => cache'[h] = cache[h]
  <2> HIDE DEF g
  <2> QED
    BY <1>1, <1>2, WriteLocal
<1> QED
  BY <1>1, <1>3 DEF Undecided

LEMMA ReconcileStep ==
  ASSUME ReconcileInv, Next
  PROVE  Scanned' /\ LookedUp' /\ Reconciled'
<1> USE DEF desktopVars, cacheVars, queryVars, dialogVars
<1>1. TypeOK /\ Scanned /\ LookedUp /\ Reconciled
  BY DEF ReconcileInv
<1>2. CASE pc' \notin {"drop", "lookup", "return"}
  BY <1>2 DEF Scanned, LookedUp, Reconciled
<1>3. CASE World
  <2>1. UNCHANGED <<pc, cache, todo, allHwnds, batch, undecided>>
    BY <1>3 DEF World
  <2> QED
    BY <1>1, <2>1 DEF Scanned, LookedUp, Reconciled
<1>4. CASE WindowThread /\ pc \in {"drop", "lookup", "return"}
  <2>1. /\ UNCHANGED <<pc, todo, allHwnds, batch>> /\ undecided \subseteq undecided'
        /\ \A h \in Hwnd \ undecided' : cache'[h] = cache[h]
    BY <1>1, <1>4, MessageDecides DEF Querying
  <2> QED
    BY <1>1, <2>1 DEF Scanned, LookedUp, Reconciled
<1>5. CASE ScanCache
  <2>1. /\ pc' = "drop" /\ UNCHANGED <<cache, allHwnds>> /\ batch' \subseteq Unlisted
        /\ undecided' = undecided \cup (Unlisted \ batch')
    BY <1>5 DEF ScanCache, Undecided, Querying
  <2> QED
    BY <2>1 DEF Unlisted, Scanned, LookedUp, Reconciled
<1>6. CASE DropUnlisted
  <2>1. /\ pc = "drop" /\ pc' = "lookup" /\ todo' = allHwnds /\ batch' = {}
        /\ UNCHANGED allHwnds
        /\ undecided' = undecided \cup IF cache' = cache THEN batch ELSE {}
    BY <1>6 DEF DropUnlisted, Undecided, Querying
  <2>2. \A h \in Hwnd \ undecided' : h \notin allHwnds => cache'[h] = NoEntry
    BY <1>1, <1>6, <2>1, WriteDecides DEF DropUnlisted, Scanned
  <2> QED
    BY <2>1, <2>2 DEF Scanned, LookedUp, Reconciled
<1>7. ASSUME NEW h \in Hwnd, LookUp(h) PROVE Scanned' /\ LookedUp' /\ Reconciled'
  <2>1. /\ pc = "lookup" /\ h \in todo /\ todo' = todo \ {h}
        /\ \/ /\ batch' = IF cache[h] = NoEntry THEN batch \cup {h} ELSE batch
              /\ UNCHANGED undecided
           \/ UNCHANGED batch /\ undecided' = undecided \cup {h}
        /\ UNCHANGED <<pc, cache, allHwnds>>
    BY <1>7 DEF LookUp, Undecided, Querying
  <2>2. todo' \subseteq allHwnds /\ batch' \subseteq allHwnds \ todo'
    BY <1>1, <2>1 DEF LookedUp
  <2>3. \A g \in Hwnd : g # h => (g \in batch' <=> g \in batch) /\ (g \in todo' <=> g \in todo)
    BY <2>1
  <2>4. h \notin undecided' => (h \in batch' <=> cache[h] = NoEntry)
    BY <1>1, <2>1 DEF LookedUp
  <2> QED
    BY <1>1, <2>1, <2>2, <2>3, <2>4 DEF Scanned, LookedUp, Reconciled
<1>8. CASE AddMissing
  <2>1. /\ pc = "lookup" /\ pc' = "return" /\ todo = {} /\ UNCHANGED allHwnds
        /\ undecided' = undecided \cup IF cache' = cache THEN batch ELSE {}
    BY <1>8 DEF AddMissing, Undecided, Querying
  <2>2. timestamp # NoEntry
    BY <1>1 DEF TypeOK
  <2>3. \A h \in Hwnd \ undecided' : cache'[h] # NoEntry <=> h \in allHwnds
    BY <1>1, <1>8, <2>1, <2>2, WriteDecides DEF AddMissing, LookedUp
  <2> QED
    BY <2>1, <2>3 DEF Scanned, LookedUp, Reconciled
<1>9. CASE pc \notin {"drop", "lookup", "return"} /\ UNCHANGED pc
  BY <1>2, <1>9
<1> QED
  BY <1>2, <1>3, <1>4, <1>5, <1>6, <1>7, <1>8, <1>9
  DEF Next, WindowThread, HandleCreate, HandleDestroy, MainThread, QueryHwnds, EnumWindows,
      EnumWindowsCallback, Return, QueryDone, OpenReorderDialog, OnMoveClick, CancelReorder,
      ReorderOk, UpdateTimestamp

LEMMA ReconcileInit == Init => ReconcileInv
BY TypeInit DEF Init, ReconcileInv, Scanned, LookedUp, Reconciled

LEMMA ReconcileNext == ASSUME ReconcileInv, [Next]_vars PROVE ReconcileInv'
<1>1. TypeOK'
  BY TypeNext DEF ReconcileInv
<1>2. CASE Next
  BY <1>1, <1>2, ReconcileStep DEF ReconcileInv
<1>3. CASE UNCHANGED vars
  BY <1>1, <1>3
  DEF vars, cacheVars, queryVars, ReconcileInv, Scanned, LookedUp, Reconciled
<1> QED
  BY <1>2, <1>3

\* A query leaves the cache with exactly the windows it enumerated, but for the
\* entries that messages or failed writes decided meanwhile and for those that
\* the query failed to read, for any number of windows and messages.
THEOREM QueriesReconcile == Spec => []Reconciled
<1>1. ReconcileInv => Reconciled
  BY DEF ReconcileInv
<1> QED
  BY <1>1, ReconcileInit, ReconcileNext, PTL DEF Spec

-----------------------------------------------------------------------------
(* The answer is what is stored.                                           *)

AnswerKnown ==
  /\ pc \in {"idle", "begin", "update"} => hwnds = {}
  /\ \A r \in hwnds :
       /\ r.hwnd \in allHwnds
       /\ r.hwnd \notin undecided =>
            r.timestamp = IF cache[r.hwnd] = NoEntry THEN timestamp ELSE cache[r.hwnd]

AnswerInv == ReconcileInv /\ AnswerKnown

LEMMA AnswerKnownStep == ASSUME AnswerInv, Next PROVE AnswerKnown'
<1> USE DEF desktopVars, cacheVars, queryVars, dialogVars
<1>1. /\ TypeOK /\ Scanned /\ LookedUp /\ AnswerKnown
      /\ \A r \in hwnds : r.hwnd \in Hwnd
  BY DEF AnswerInv, ReconcileInv, TypeOK
<1>2. CASE hwnds' = {}
  BY <1>2 DEF AnswerKnown
<1>3. CASE World
  <2>1. UNCHANGED <<pc, cache, timestamp, allHwnds, hwnds, undecided>>
    BY <1>3 DEF World
  <2> QED
    BY <1>1, <2>1 DEF AnswerKnown
<1>4. CASE WindowThread
  <2>1. UNCHANGED <<pc, timestamp, allHwnds, hwnds>>
    BY <1>1, <1>4, MessageDecides
  <2>2. CASE Querying
    BY <1>1, <1>4, <2>1, <2>2, MessageDecides DEF AnswerKnown
  <2>3. CASE ~Querying
    BY <1>1, <1>2, <2>1, <2>3 DEF AnswerKnown, Querying
  <2> QED
    BY <2>2, <2>3
<1>5. ASSUME NEW h \in Hwnd, EnumWindowsCallback(h) PROVE AnswerKnown'
  <2>1. /\ pc = "enumerate" /\ UNCHANGED <<pc, cache, timestamp>>
        /\ allHwnds' = allHwnds \cup {h}
        /\ \/ hwnds' \subseteq hwnds \cup {AnswerFor(h)} /\ UNCHANGED undecided
           \/ /\ hwnds' = hwnds \cup {[hwnd |-> h, timestamp |-> timestamp]}
              /\ undecided' = undecided \cup {h}
    BY <1>5 DEF EnumWindowsCallback, Answer, Undecided, Querying
  <2> QED
    BY <1>1, <2>1 DEF AnswerKnown, AnswerFor
<1>6. CASE ScanCache
  BY <1>1, <1>6 DEF ScanCache, AnswerKnown, Undecided
<1>7. CASE DropUnlisted
  <2>1. /\ pc = "drop" /\ pc' = "lookup" /\ undecided \subseteq undecided'
        /\ UNCHANGED <<timestamp, allHwnds, hwnds>>
    BY <1>7 DEF DropUnlisted, Undecided, Querying
  <2>2. \A r \in hwnds : r.hwnd \notin undecided => cache'[r.hwnd] = cache[r.hwnd]
    BY <1>1, <1>7, <2>1, WriteDecides DEF DropUnlisted, Scanned, AnswerKnown
  <2> QED
    BY <1>1, <2>1, <2>2 DEF AnswerKnown
<1>8. ASSUME NEW h \in Hwnd, LookUp(h) PROVE AnswerKnown'
  BY <1>1, <1>8 DEF LookUp, AnswerKnown, Undecided
<1>9. CASE AddMissing
  <2>1. /\ pc = "lookup" /\ pc' = "return" /\ todo = {}
        /\ undecided' = undecided \cup IF cache' = cache THEN batch ELSE {}
        /\ UNCHANGED <<timestamp, allHwnds, hwnds>>
    BY <1>9 DEF AddMissing, Undecided, Querying
  <2>2. timestamp # NoEntry
    BY <1>1 DEF TypeOK
  <2>3. \A h \in allHwnds \ undecided : h \in Hwnd => (h \in batch <=> cache[h] = NoEntry)
    BY <1>1, <2>1 DEF LookedUp
  <2>4. \A h \in Hwnd : h \in allHwnds \ undecided' =>
          cache'[h] = IF cache[h] = NoEntry THEN timestamp ELSE cache[h]
    BY <1>1, <1>9, <2>1, <2>3, WriteDecides DEF AddMissing
  <2> QED
    BY <1>1, <2>1, <2>2, <2>4 DEF AnswerKnown
<1>10. CASE pc \in {"idle", "begin", "update"} /\ UNCHANGED hwnds
  BY <1>1, <1>2, <1>10 DEF AnswerKnown
<1> QED
  BY <1>2, <1>3, <1>4, <1>5, <1>6, <1>7, <1>8, <1>9, <1>10
  DEF Next, MainThread, QueryHwnds, EnumWindows, Return, QueryDone, OpenReorderDialog,
      OnMoveClick, CancelReorder, ReorderOk, UpdateTimestamp

LEMMA AnswerInit == Init => AnswerInv
BY ReconcileInit DEF Init, AnswerInv, AnswerKnown

LEMMA AnswerNext == ASSUME AnswerInv, [Next]_vars PROVE AnswerInv'
<1>1. ReconcileInv'
  BY ReconcileNext DEF AnswerInv
<1>2. CASE Next
  BY <1>1, <1>2, AnswerKnownStep DEF AnswerInv
<1>3. CASE UNCHANGED vars
  BY <1>1, <1>3 DEF vars, cacheVars, queryVars, AnswerInv, AnswerKnown
<1> QED
  BY <1>2, <1>3

\* What a query has answered is what the next one finds in the cache: the time
\* it gave to windows without an entry is the one it has stored for them.  The
\* entries that it did not decide, or failed to read, are excepted.
THEOREM AnswersAreStored == Spec => []AnswerIsStored
<1>1. AnswerInv => AnswerIsStored
  BY DEF AnswerInv, ReconcileInv, AnswerKnown, Reconciled, AnswerIsStored, TypeOK
<1> QED
  BY <1>1, AnswerInit, AnswerNext, PTL DEF Spec

-----------------------------------------------------------------------------
(* The answer has only windows of the application asked for, if handles    *)
(* are not reused.  The strengthening: what is remembered of a handle is   *)
(* true from then on.                                                      *)

Remembered ==
  \A h \in Hwnd :
    /\ window[h] = "none" => appNameCache[h] = NoApp
    /\ window[h] \in {"creating", "live", "destroying"} =>
         appNameCache[h] \in {NoApp, EmptyName, owner[h]}
    /\ shown[h] => window[h] \in {"live", "destroying"}

AnswerOwned ==
  /\ pc \in {"idle", "begin", "update"} => hwnds = {}
  /\ pc \notin {"idle", "update"} => processFilter \in App
  /\ \A r \in hwnds :
       \/ window[r.hwnd] = "retired"
       \/ window[r.hwnd] \in {"live", "destroying"} /\ owner[r.hwnd] = processFilter

OwnerInv == SettledInv /\ Remembered /\ AnswerOwned

\* The life of windows.
LEMMA OwnersLive ==
  ASSUME ReuseHandles = FALSE, OwnerInv, World
  PROVE  Remembered' /\ AnswerOwned'
<1> USE DEF cacheVars, queryVars, dialogVars
<1>1. /\ TypeOK /\ DesktopTypeOK /\ Remembered /\ AnswerOwned
      /\ UNCHANGED <<pc, processFilter, hwnds, appNameCache>>
      /\ \A r \in hwnds : r.hwnd \in Hwnd
  BY DEF OwnerInv, SettledInv, TypeOK, World
<1>2. CASE UNCHANGED <<window, owner, shown>>
  BY <1>1, <1>2 DEF Remembered, AnswerOwned
<1>3. ASSUME NEW h \in Hwnd, NEW a \in App, BeginCreate(h, a)
      PROVE  Remembered' /\ AnswerOwned'
  BY <1>1, <1>3 DEF BeginCreate, DesktopTypeOK, Remembered, AnswerOwned
<1>4. ASSUME NEW h \in Hwnd, FinishCreate(h) PROVE Remembered' /\ AnswerOwned'
  BY <1>1, <1>4 DEF FinishCreate, DesktopTypeOK, Remembered, AnswerOwned
<1>5. ASSUME NEW h \in Hwnd, Gone(h) PROVE Remembered' /\ AnswerOwned'
  BY <1>1, <1>5 DEF Gone, DesktopTypeOK, Remembered, AnswerOwned
<1>6. ASSUME NEW h \in Hwnd, BeginDestroy(h) PROVE Remembered' /\ AnswerOwned'
  BY <1>1, <1>6 DEF BeginDestroy, DesktopTypeOK, Remembered, AnswerOwned
<1>7. ASSUME NEW h \in Hwnd, ToggleShown(h) PROVE Remembered' /\ AnswerOwned'
  BY <1>1, <1>7 DEF ToggleShown, DesktopTypeOK, Remembered, AnswerOwned
<1> QED
  BY <1>2, <1>3, <1>4, <1>5, <1>6, <1>7
  DEF World, DesktopNext, SetHook, Tick, SetClockBack, Vanish, FinishDestroy

LEMMA OwnerStep ==
  ASSUME ReuseHandles = FALSE, OwnerInv, Next
  PROVE  Remembered' /\ AnswerOwned'
<1> USE DEF desktopVars, cacheVars, queryVars, dialogVars
<1>1. /\ TypeOK /\ DesktopTypeOK /\ Remembered /\ AnswerOwned
  BY DEF OwnerInv, SettledInv, TypeOK
<1>2. CASE World
  BY <1>2, OwnersLive
<1>3. ASSUME NEW h \in Hwnd, EnumWindowsCallback(h) PROVE Remembered' /\ AnswerOwned'
  <2>1. pc = "enumerate" /\ UNCHANGED <<window, owner, shown, pc, processFilter>>
    BY <1>3 DEF EnumWindowsCallback
  <2>2. UNCHANGED appNameCache
        \/ /\ shown[h]
           /\ \/ appNameCache' = [appNameCache EXCEPT ![h] = EmptyName]
              \/ appNameCache' = [appNameCache EXCEPT ![h] = owner[h]]
    BY <1>3 DEF EnumWindowsCallback, PassesVisibility
  <2>3. Remembered'
    BY <1>1, <2>1, <2>2 DEF Remembered, TypeOK
  <2>4. \/ hwnds' = hwnds
        \/ /\ shown[h] /\ (owner[h] = processFilter \/ appNameCache[h] = processFilter)
           /\ \A r \in hwnds' : r \in hwnds \/ r.hwnd = h
    <3>1. \/ hwnds' = hwnds
          \/ /\ shown[h] /\ Answer(h)
             /\ (owner[h] = processFilter \/ appNameCache[h] = processFilter)
      BY <1>3 DEF EnumWindowsCallback, PassesVisibility, KnownPassesFilter
    <3>2. Answer(h) => \A r \in hwnds' : r \in hwnds \/ r.hwnd = h
      BY DEF Answer, AnswerFor
    <3> QED
      BY <3>1, <3>2
  <2>5. shown[h] /\ appNameCache[h] = processFilter => owner[h] = processFilter
    BY <1>1, <2>1 DEF Remembered, AnswerOwned
  <2> QED
    BY <1>1, <2>1, <2>3, <2>4, <2>5 DEF Remembered, AnswerOwned
<1>4. CASE ~World /\ UNCHANGED appNameCache
  <2>1. Remembered'
    <3>1. UNCHANGED <<window, owner, shown>>
      BY <1>4, CallsSpareDesktop DEF Next, WindowThread, HandleCreate, HandleDestroy
    <3> QED
      BY <1>1, <1>4, <3>1 DEF Remembered
  <2>2. ASSUME ~\E h \in Hwnd : EnumWindowsCallback(h)
        PROVE  /\ UNCHANGED <<window, owner>>
               /\ \/ /\ UNCHANGED <<processFilter, hwnds>>
                     /\ pc' \in {"idle", "begin", "update"} => pc \in {"idle", "begin", "update"}
                     /\ pc' \notin {"idle", "update"} => pc \notin {"idle", "update"}
                  \/ hwnds' = {} /\ (pc' \in {"idle", "update"} \/ processFilter' \in App)
    <3>1. CASE WindowThread
      BY <3>1 DEF WindowThread, HandleCreate, HandleDestroy
    <3>2. CASE EnumWindows \/ ScanCache \/ DropUnlisted \/ AddMissing \/ \E h \in Hwnd : LookUp(h)
      BY <3>2 DEF EnumWindows, ScanCache, DropUnlisted, LookUp, AddMissing
    <3>3. CASE (\E app \in App : QueryHwnds(app)) \/ Return \/ OpenReorderDialog
      BY <3>3 DEF QueryHwnds, Return, QueryDone, OpenReorderDialog
    <3>4. ASSUME NEW i \in DOMAIN dialog, NEW increment \in {-1, 1, -1000, 1000},
                 OnMoveClick(i, increment)
          PROVE  UNCHANGED <<window, owner, processFilter, hwnds, pc>>
      BY <3>4 DEF OnMoveClick
    <3>5. CASE CancelReorder \/ ReorderOk \/ UpdateTimestamp
      BY <3>5 DEF CancelReorder, ReorderOk, UpdateTimestamp
    <3> QED
      BY <1>4, <2>2, <3>1, <3>2, <3>3, <3>4, <3>5 DEF Next, MainThread
  <2> QED
    BY <1>1, <1>3, <2>1, <2>2 DEF AnswerOwned
<1>5. CASE WindowThread \/ MainThread
  <2>1. UNCHANGED appNameCache \/ \E h \in Hwnd : EnumWindowsCallback(h)
    <3>1. CASE WindowThread
      BY <3>1 DEF WindowThread, HandleCreate, HandleDestroy
    <3>2. CASE EnumWindows \/ ScanCache \/ DropUnlisted \/ AddMissing \/ \E h \in Hwnd : LookUp(h)
      BY <3>2 DEF EnumWindows, ScanCache, DropUnlisted, LookUp, AddMissing
    <3>3. CASE (\E app \in App : QueryHwnds(app)) \/ Return \/ OpenReorderDialog
      BY <3>3 DEF QueryHwnds, Return, QueryDone, OpenReorderDialog
    <3>4. ASSUME NEW i \in DOMAIN dialog, NEW increment \in {-1, 1, -1000, 1000},
                 OnMoveClick(i, increment)
          PROVE  UNCHANGED appNameCache
      BY <3>4 DEF OnMoveClick
    <3>5. CASE CancelReorder \/ ReorderOk \/ UpdateTimestamp
      BY <3>5 DEF CancelReorder, ReorderOk, UpdateTimestamp
    <3> QED
      BY <1>5, <3>1, <3>2, <3>3, <3>4, <3>5 DEF MainThread
  <2> QED
    BY <1>2, <1>3, <1>4, <2>1
<1> QED
  BY <1>2, <1>5 DEF Next

LEMMA OwnerInit == Init => OwnerInv
<1> SUFFICES ASSUME Init PROVE OwnerInv
  OBVIOUS
<1>1. SettledInv
  BY SettledInit
<1>2. Remembered /\ AnswerOwned
  BY DEF Init, DesktopInit, Remembered, AnswerOwned
<1> QED BY <1>1, <1>2 DEF OwnerInv

LEMMA OwnerNext ==
  ASSUME ReuseHandles = FALSE, OwnerInv, [Next]_vars
  PROVE  OwnerInv'
<1>1. SettledInv'
  BY SettledNext DEF OwnerInv
<1>2. CASE Next
  BY <1>1, <1>2, OwnerStep DEF OwnerInv
<1>3. CASE UNCHANGED vars
  BY <1>1, <1>3 DEF vars, desktopVars, queryVars, OwnerInv, Remembered, AnswerOwned
<1> QED
  BY <1>2, <1>3

\* As long as Windows does not reuse handles, the executables remembered for
\* the whole session never let a window of another application into an answer.
THEOREM AnswersBelong ==
  ASSUME ReuseHandles = FALSE
  PROVE  Spec => []AnswerBelongsToApp
<1>1. OwnerInv => AnswerBelongsToApp
  BY DEF OwnerInv, SettledInv, SettledAtRest, AtRest, AnswerOwned, AnswerBelongsToApp
<1>2. OwnerInv /\ [Next]_vars => OwnerInv'
  BY OwnerNext
<1> QED
  BY <1>1, <1>2, OwnerInit, PTL DEF Spec
=============================================================================
