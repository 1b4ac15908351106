-------------------------- MODULE HwndCacheProofs --------------------------
(***************************************************************************)
(* What holds of the cache for every set of windows and applications,      *)
(* every bound on the clock and on the events, and every length of the     *)
(* queue.                                                                  *)
(***************************************************************************)
EXTENDS HwndCache, FiniteSetTheorems, SequenceTheorems, TLAPS

USE DesktopAssumption, HwndCacheAssumption

-----------------------------------------------------------------------------
(* Typing.                                                                 *)

\* What a write does to the cache is well typed.
LEMMA WriteTyped ==
  ASSUME TypeOK, NEW hs, NEW e \in Entry, NEW who \in Writer, WriteEntries(hs, e, who)
  PROVE  cache' \in [Hwnd -> Entry] /\ stampedBy' \in [Hwnd -> Writer]
BY DEF TypeOK, WriteEntries, Writer

\* The history variables that Settle maintains are well typed.
LEMMA SettleTyped ==
  ASSUME TypeOK, Settle
  PROVE  settled' \subseteq Hwnd /\ chosen' \subseteq Hwnd \X Hwnd
BY DEF TypeOK, Settle, Precedes

\* A listing of the answer is a sequence of handles.
LEMMA ListingTyped ==
  ASSUME TypeOK, NEW s \in Listings(hwnds)
  PROVE  [i \in DOMAIN s |-> s[i].hwnd] \in Seq(Hwnd)
<1>1. Cardinality(hwnds) \in Nat
  BY FS_CardinalityType DEF TypeOK
<1>2. /\ DOMAIN s = 1..Cardinality(hwnds)
      /\ \A i \in DOMAIN s : s[i].hwnd \in Hwnd
  BY DEF TypeOK, Listings
<1>3. [i \in DOMAIN s |-> s[i].hwnd] \in [1..Cardinality(hwnds) -> Hwnd]
  BY <1>2
<1> QED
  BY <1>1, <1>3, SeqDef

\* The initial states are well typed.
LEMMA TypeInit == Init => TypeOK
<1> SUFFICES ASSUME Init PROVE TypeOK
  OBVIOUS
<1>1. DesktopTypeOK
  BY DEF Init, DesktopInit, DesktopTypeOK
<1>2. IsFiniteSet(hwnds)
  BY FS_EmptySet DEF Init
<1>3. cache \in [Hwnd -> Entry] /\ stampedBy \in [Hwnd -> Writer]
  BY DEF Init, Entry, Writer
<1> QED
  BY <1>1, <1>2, <1>3 DEF Init, TypeOK, Live, Phase

\* What the hook leaves in the queue is well typed.
LEMMA CBTProcTyped ==
  ASSUME TypeOK, NEW type \in MessageType, NEW h \in Hwnd, CBTProc(type, h)
  PROVE  queue' \in Seq(Message)
<1> DEFINE m == [type |-> type, hwnd |-> h, at |-> events + 1]
<1>1. m \in Message
  BY DEF TypeOK, DesktopTypeOK, Message
<1>2. queue \in Seq(Message)
  BY DEF TypeOK, DesktopTypeOK
<1>3. queue' = Append(queue, m) \/ queue' = queue
  BY DEF CBTProc
<1> QED
  <2> HIDE DEF m
  <2> QED
    BY <1>1, <1>2, <1>3

\* Nothing in the world outside makes a well-typed state ill typed.
LEMMA WorldTyped == ASSUME TypeOK, World, Settle PROVE TypeOK'
<1> USE DEF DesktopTypeOK, TypeOK, desktopVars, cacheVars, queryVars, dialogVars, Event
<1>1. /\ UNCHANGED <<cache, queryVars, dialogVars, appNameCache, pc, undecided>>
      /\ stampedBy' \in [Hwnd -> Writer]
  BY DEF World, Writer
<1>2. SUFFICES DesktopTypeOK'
  BY <1>1, SettleTyped
<1>3. CASE SetHook
  BY <1>3 DEF SetHook
<1>4. CASE Tick \/ SetClockBack
  BY <1>4 DEF Tick, SetClockBack
<1>5. ASSUME NEW h \in Hwnd, NEW a \in App, BeginCreate(h, a) PROVE DesktopTypeOK'
  <2>1. queue' \in Seq(Message)
    BY <1>5, CBTProcTyped DEF BeginCreate, MessageType
  <2> QED
    BY <1>5, <2>1 DEF BeginCreate
<1>6. ASSUME NEW h \in Hwnd, FinishCreate(h) PROVE DesktopTypeOK'
  BY <1>6 DEF FinishCreate
<1>7. ASSUME NEW h \in Hwnd, Vanish(h) PROVE DesktopTypeOK'
  BY <1>7 DEF Vanish, Gone
<1>8. ASSUME NEW h \in Hwnd, BeginDestroy(h) PROVE DesktopTypeOK'
  <2>1. queue' \in Seq(Message)
    BY <1>8, CBTProcTyped DEF BeginDestroy, MessageType
  <2> QED
    BY <1>8, <2>1 DEF BeginDestroy
<1>9. ASSUME NEW h \in Hwnd, FinishDestroy(h) PROVE DesktopTypeOK'
  BY <1>9 DEF FinishDestroy, Gone
<1>10. ASSUME NEW h \in Hwnd, ToggleShown(h) PROVE DesktopTypeOK'
  BY <1>10 DEF ToggleShown
<1> QED
  BY <1>3, <1>4, <1>5, <1>6, <1>7, <1>8, <1>9, <1>10 DEF World, DesktopNext

\* The window thread's handlers keep the state well typed.
LEMMA WindowThreadTyped == ASSUME TypeOK, WindowThread, Settle PROVE TypeOK'
<1>1. queue \in Seq(Message) /\ queue # <<>> /\ queue' = Tail(queue)
  BY DEF TypeOK, DesktopTypeOK, WindowThread, HandleCreate, HandleDestroy
<1>2. queue' \in Seq(Message) /\ Head(queue) \in Message
  BY <1>1
<1>3. UNCHANGED <<events, clock, window, owner, shown, born, hooked, appNameCache,
                  pc, queryVars, dialogVars>>
  BY DEF WindowThread, HandleCreate, HandleDestroy
<1>4. clock \in Entry /\ NoEntry \in Entry /\ "hook" \in Writer /\ "query" \in Writer
  BY DEF TypeOK, DesktopTypeOK, Entry, Writer
<1>5. cache' \in [Hwnd -> Entry] /\ stampedBy' \in [Hwnd -> Writer]
  <2>1. CASE HandleCreate
    BY <1>4, <2>1, WriteTyped DEF HandleCreate, cacheTimestamp
  <2>2. CASE HandleDestroy
    BY <1>4, <2>2, WriteTyped DEF HandleDestroy, deleteTimestamp
  <2> QED
    BY <2>1, <2>2 DEF WindowThread
<1>6. undecided' \subseteq Hwnd
  BY <1>2 DEF TypeOK, WindowThread, HandleCreate, HandleDestroy, Undecided, Message
<1> QED
  BY <1>2, <1>3, <1>5, <1>6, SettleTyped
  DEF TypeOK, DesktopTypeOK, queryVars, dialogVars

\* The calls of the main thread only watch the windows and the queue.
LEMMA CallsSpareDesktop == ASSUME MainThread PROVE UNCHANGED desktopVars
<1>1. ASSUME NEW h \in Hwnd, EnumWindowsCallback(h) \/ LookUp(h) PROVE UNCHANGED desktopVars
  BY <1>1 DEF EnumWindowsCallback, LookUp
<1>2. ASSUME NEW i \in DOMAIN dialog, NEW increment \in {-1, 1, -1000, 1000},
             OnMoveClick(i, increment)
      PROVE  UNCHANGED desktopVars
  BY <1>2 DEF OnMoveClick
<1>3. CASE \/ \E app \in App : QueryHwnds(app)
           \/ EnumWindows \/ ScanCache \/ DropUnlisted \/ AddMissing
  BY <1>3 DEF QueryHwnds, EnumWindows, ScanCache, DropUnlisted, AddMissing
<1>4. CASE Return \/ OpenReorderDialog \/ CancelReorder \/ ReorderOk \/ UpdateTimestamp
  BY <1>4 DEF Return, QueryDone, OpenReorderDialog, CancelReorder, ReorderOk, UpdateTimestamp
<1> QED
  BY <1>1, <1>2, <1>3, <1>4 DEF MainThread

\* They write the two batches of a query, and what the user has reordered.
LEMMA CallsWrite ==
  ASSUME MainThread
  PROVE  \/ UNCHANGED cacheVars
         \/ pc = "drop" /\ WriteEntries(batch, NoEntry, "query")
         \/ pc = "lookup" /\ WriteEntries(batch, timestamp, "query")
         \/ UpdateTimestamp
<1>1. CASE DropUnlisted
  BY <1>1 DEF DropUnlisted
<1>2. CASE AddMissing
  BY <1>2 DEF AddMissing
<1>3. ASSUME NEW h \in Hwnd, EnumWindowsCallback(h) \/ LookUp(h) PROVE UNCHANGED cacheVars
  BY <1>3 DEF EnumWindowsCallback, LookUp
<1>4. CASE \/ \E app \in App : QueryHwnds(app)
           \/ EnumWindows \/ ScanCache \/ Return
  BY <1>4 DEF QueryHwnds, EnumWindows, ScanCache, Return, QueryDone
<1>5. CASE OpenReorderDialog \/ CancelReorder \/ ReorderOk
  BY <1>5 DEF OpenReorderDialog, QueryDone, CancelReorder, ReorderOk
<1>6. ASSUME NEW i \in DOMAIN dialog, NEW increment \in {-1, 1, -1000, 1000},
             OnMoveClick(i, increment)
      PROVE  UNCHANGED cacheVars
  BY <1>6 DEF OnMoveClick
<1> QED
  BY <1>1, <1>2, <1>3, <1>4, <1>5, <1>6 DEF MainThread

\* How updateTimestamps begins and goes on, and how a query comes to its return.
LEMMA Phases ==
  ASSUME Next
  PROVE  /\ pc = "update" => UpdateTimestamp \/ UNCHANGED <<pc, dialogVars>>
         /\ pc' = "update" => pc = "update" \/ ReorderOk
         /\ pc' = "return" => AddMissing \/ (pc = "return" /\ UNCHANGED queryVars)
<1>1. CASE World
  BY <1>1 DEF World
<1>2. CASE WindowThread
  BY <1>2 DEF WindowThread, HandleCreate, HandleDestroy
<1>3. ASSUME NEW h \in Hwnd, EnumWindowsCallback(h) \/ LookUp(h)
      PROVE  pc \notin {"update", "return"} /\ pc' = pc
  BY <1>3 DEF EnumWindowsCallback, LookUp
<1>4. ASSUME NEW i \in DOMAIN dialog, NEW increment \in {-1, 1, -1000, 1000},
             OnMoveClick(i, increment)
      PROVE  pc = "idle" /\ pc' = pc
  BY <1>4 DEF OnMoveClick
<1>5. CASE \/ \E app \in App : QueryHwnds(app)
           \/ EnumWindows \/ ScanCache \/ DropUnlisted \/ AddMissing
  BY <1>5 DEF QueryHwnds, EnumWindows, ScanCache, DropUnlisted, AddMissing
<1>6. CASE Return \/ OpenReorderDialog \/ CancelReorder \/ ReorderOk \/ UpdateTimestamp
  BY <1>6 DEF Return, QueryDone, OpenReorderDialog, CancelReorder, ReorderOk, UpdateTimestamp
<1> QED
  BY <1>1, <1>2, <1>3, <1>4, <1>5, <1>6 DEF Next, MainThread

\* The main thread's steps keep the state well typed.
LEMMA MainThreadTyped == ASSUME TypeOK, MainThread, Settle PROVE TypeOK'
<1> USE DEF TypeOK, desktopVars, cacheVars, queryVars, dialogVars
<1>1. settled' \subseteq Hwnd /\ chosen' \subseteq Hwnd \X Hwnd
  BY SettleTyped
<1>2. DesktopTypeOK'
  <2>1. UNCHANGED desktopVars
    BY CallsSpareDesktop
  <2> QED
    BY <2>1 DEF DesktopTypeOK
<1>3. clock \in Nat /\ NoEntry \in Entry /\ Nat \subseteq Entry
  BY DEF DesktopTypeOK, Entry
<1>4. "query" \in Writer /\ "user" \in Writer
  BY DEF Writer
<1>5. ASSUME NEW app \in App, QueryHwnds(app) PROVE TypeOK'
  BY <1>1, <1>2, <1>3, <1>5, FS_EmptySet DEF QueryHwnds, Phase
<1>6. CASE EnumWindows
  BY <1>1, <1>2, <1>6 DEF EnumWindows, Enumerable, Phase
<1>7. ASSUME NEW h \in Hwnd, EnumWindowsCallback(h) PROVE TypeOK'
  <2>1. AnswerFor(h) \in [hwnd: Hwnd, timestamp: Nat]
    BY DEF AnswerFor, Entry
  <2>2. \A r : IsFiniteSet(hwnds \cup {r})
    BY FS_AddElement
  <2>3. /\ \/ UNCHANGED <<hwnds, undecided>>
           \/ \E r \in [hwnd: Hwnd, timestamp: Nat] : hwnds' = hwnds \cup {r}
        /\ undecided' \subseteq Hwnd
    BY <1>7, <2>1 DEF EnumWindowsCallback, Answer, Undecided
  <2>4. hwnds' \subseteq [hwnd: Hwnd, timestamp: Nat] /\ IsFiniteSet(hwnds')
    BY <2>2, <2>3
  <2>5. appNameCache' \in [Hwnd -> App \cup {NoApp, EmptyName}]
    BY <1>7 DEF EnumWindowsCallback, DesktopTypeOK
  <2> QED
    BY <1>1, <1>2, <1>7, <2>3, <2>4, <2>5 DEF EnumWindowsCallback
<1>8. CASE ScanCache
  BY <1>1, <1>2, <1>8 DEF ScanCache, Unlisted, Undecided, Phase
<1>9. CASE DropUnlisted
  <2>1. cache' \in [Hwnd -> Entry] /\ stampedBy' \in [Hwnd -> Writer]
    BY <1>3, <1>4, <1>9, WriteTyped DEF DropUnlisted
  <2>2. undecided' \subseteq Hwnd
    BY <1>9 DEF DropUnlisted, Undecided
  <2> QED
    BY <1>1, <1>2, <1>9, <2>1, <2>2 DEF DropUnlisted, Phase
<1>10. ASSUME NEW h \in Hwnd, LookUp(h) PROVE TypeOK'
  BY <1>1, <1>2, <1>10 DEF LookUp, Undecided
<1>11. CASE AddMissing
  <2>1. cache' \in [Hwnd -> Entry] /\ stampedBy' \in [Hwnd -> Writer]
    BY <1>3, <1>4, <1>11, WriteTyped DEF AddMissing
  <2>2. undecided' \subseteq Hwnd
    BY <1>11 DEF AddMissing, Undecided
  <2> QED
    BY <1>1, <1>2, <1>11, <2>1, <2>2 DEF AddMissing, Phase
<1>12. CASE Return
  BY <1>1, <1>2, <1>12, FS_EmptySet DEF Return, QueryDone, Phase
<1>13. CASE OpenReorderDialog
  <2>1. dialog' \in Seq(Hwnd)
    BY <1>13, ListingTyped DEF OpenReorderDialog
  <2> QED
    BY <1>1, <1>2, <1>13, <2>1, FS_EmptySet DEF OpenReorderDialog, QueryDone, Phase
<1>14. ASSUME NEW i \in DOMAIN dialog, NEW increment \in {-1, 1, -1000, 1000},
              OnMoveClick(i, increment)
       PROVE  TypeOK'
  <2>1. Len(dialog) \in Nat /\ dialog \in [1..Len(dialog) -> Hwnd]
    BY LenProperties
  <2>2. dialog' \in [1..Len(dialog) -> Hwnd]
    <3> DEFINE target == i + increment
               n == IF target < 1 THEN 1 ELSE IF target > Len(dialog) THEN Len(dialog) ELSE target
    <3>1. n \in 1..Len(dialog) /\ i \in 1..Len(dialog)
      BY <2>1
    <3>2. dialog' = [dialog EXCEPT ![i] = dialog[n], ![n] = dialog[i]]
      BY <1>14 DEF OnMoveClick
    <3> HIDE DEF n
    <3> QED
      BY <2>1, <3>1, <3>2
  <2>3. dialog' \in Seq(Hwnd)
    BY <2>1, <2>2, SeqDef
  <2> QED
    BY <1>1, <1>2, <1>14, <2>3 DEF OnMoveClick
<1>15. CASE CancelReorder
  BY <1>1, <1>2, <1>15 DEF CancelReorder
<1>16. CASE ReorderOk
  <2>1. 1 \in DOMAIN dialog
    BY <1>16, EmptySeq, LenProperties DEF ReorderOk
  <2> QED
    BY <1>1, <1>2, <1>16, <2>1 DEF ReorderOk, Phase
<1>17. CASE UpdateTimestamp
  <2>1. Len(dialog) \in Nat /\ DOMAIN dialog = 1..Len(dialog) /\ pos \in DOMAIN dialog
    BY <1>17, LenProperties DEF UpdateTimestamp
  <2>2. pos - 1 \in Nat
    BY <2>1
  <2>3. cache' \in [Hwnd -> Entry] /\ stampedBy' \in [Hwnd -> Writer]
    BY <1>3, <1>4, <1>17, <2>2, WriteTyped DEF UpdateTimestamp, cacheTimestamp
  <2>4. UNCHANGED <<queryVars, appNameCache, undecided>>
    BY <1>17 DEF UpdateTimestamp
  <2>5. CASE pos < Len(dialog)
    <3>1. pos' = pos + 1 /\ UNCHANGED <<pc, dialog>>
      BY <1>17, <2>5 DEF UpdateTimestamp
    <3>2. pos' \in Nat /\ pos' \in DOMAIN dialog'
      BY <2>1, <2>5, <3>1
    <3> QED
      BY <1>1, <1>2, <2>3, <2>4, <3>1, <3>2
  <2>6. CASE ~(pos < Len(dialog))
    <3>1. pos' = 0 /\ pc' = "idle" /\ dialog' = <<>>
      BY <1>17, <2>6 DEF UpdateTimestamp
    <3>2. dialog' \in Seq(Hwnd)
      BY <3>1
    <3> QED
      BY <1>1, <1>2, <2>3, <2>4, <3>1, <3>2 DEF Phase
  <2> QED
    BY <2>5, <2>6
<1> QED
  BY <1>5, <1>6, <1>7, <1>8, <1>9, <1>10, <1>11, <1>12, <1>13, <1>14, <1>15, <1>16, <1>17
  DEF MainThread

\* No step makes a well-typed state ill typed.
LEMMA TypeNext == ASSUME TypeOK, [Next]_vars PROVE TypeOK'
<1>1. CASE Next
  BY <1>1, WorldTyped, WindowThreadTyped, MainThreadTyped DEF Next
<1>2. CASE UNCHANGED vars
  BY <1>2 DEF vars, desktopVars, cacheVars, queryVars, dialogVars, TypeOK, DesktopTypeOK
<1> QED
  BY <1>1, <1>2

\* Type correctness: whatever the windows do and however often the threads
\* interleave, the cache holds timestamps, an answer is a finite set of windows
\* with timestamps, and updateTimestamps never leaves the list it was given.
THEOREM TypeCorrect == Spec => []TypeOK
<1> QED
  BY TypeInit, TypeNext, PTL DEF Spec
-----------------------------------------------------------------------------
(* A settled window keeps its timestamp.  The strengthening: a settled     *)
(* window really is at rest, and a running query is bound to list it, so   *)
(* that neither batch can hold it.                                         *)

SettledAtRest == \A h \in settled : AtRest(h)

SettledSpared ==
  /\ pc = "enumerate" => settled \subseteq todo \cup allHwnds
  /\ pc = "drop" => settled \subseteq allHwnds
  /\ pc \in {"drop", "lookup"} => settled \cap batch = {}

SettledInv == TypeOK /\ SettledAtRest /\ SettledSpared

\* A write decides only the entries it is given, and a handle whose entry is
\* set to a timestamp has one afterwards.
LEMMA WriteLocal ==
  ASSUME TypeOK, NEW hs, NEW e \in Entry, NEW who, WriteEntries(hs, e, who), NEW h \in Hwnd
  PROVE  /\ h \notin hs => cache'[h] = cache[h]
         /\ cache[h] # NoEntry /\ e # NoEntry => cache'[h] # NoEntry
BY DEF TypeOK, WriteEntries

\* Handling a message leaves messages only for handles that had one.
LEMMA TailPending ==
  ASSUME TypeOK, queue # <<>>, queue' = Tail(queue)
  PROVE  Pending' \subseteq Pending /\ Head(queue).hwnd \in Pending
<1>1. queue \in Seq(Message) /\ Len(queue) \in Nat /\ Len(queue) > 0
  BY EmptySeq, LenProperties DEF TypeOK, DesktopTypeOK
<1>2. /\ DOMAIN queue' = 1..(Len(queue) - 1)
      /\ \A i \in DOMAIN queue' : i + 1 \in DOMAIN queue /\ queue'[i] = queue[i + 1]
  BY <1>1
<1>3. 1 \in DOMAIN queue /\ Head(queue) = queue[1]
  BY <1>1
<1> QED
  BY <1>2, <1>3 DEF Pending

\* A message posted by the hook concerns the window it was called for.
LEMMA CBTProcPending ==
  ASSUME TypeOK, NEW type \in MessageType, NEW h \in Hwnd, CBTProc(type, h)
  PROVE  Pending' \subseteq Pending \cup {h}
<1> DEFINE m == [type |-> type, hwnd |-> h, at |-> events + 1]
<1>1. queue \in Seq(Message) /\ Len(queue) \in Nat /\ m.hwnd = h
  BY LenProperties DEF TypeOK, DesktopTypeOK
<1>2. queue' = Append(queue, m) \/ queue' = queue
  BY DEF CBTProc
<1> HIDE DEF m
<1>3. CASE queue' = queue
  BY <1>3 DEF Pending
<1>4. CASE queue' = Append(queue, m)
  <2>1. /\ DOMAIN queue' = 1..(Len(queue) + 1)
        /\ \A i \in 1..Len(queue) : queue'[i] = queue[i]
        /\ queue'[Len(queue) + 1] = m
    BY <1>1, <1>4
  <2>2. \A i \in DOMAIN queue' : i \in DOMAIN queue \/ i = Len(queue) + 1
    BY <1>1, <2>1
  <2> QED
    BY <1>1, <2>1, <2>2 DEF Pending
<1> QED
  BY <1>2, <1>3, <1>4

\* The initial states satisfy the strengthening.
LEMMA SettledInit == Init => SettledInv
<1> SUFFICES ASSUME Init PROVE SettledInv
  OBVIOUS
<1>1. TypeOK
  BY TypeInit
<1>2. Pending = {}
  BY DEF Init, DesktopInit, Pending
<1> QED
  BY <1>1, <1>2 DEF Init, SettledInv, SettledAtRest, SettledSpared, AtRest, Live

\* What has settled before a step and is still settled after it keeps its entry
\* and stays at rest, unless the user's reordering gives it another timestamp.
LEMMA SettledStep ==
  ASSUME SettledInv, Next, NEW h \in settled \cap settled'
  PROVE  /\ pc # "update" => cache'[h] = cache[h]
         /\ AtRest(h)'
<1> USE DEF desktopVars, cacheVars, queryVars, dialogVars
<1>1. /\ TypeOK /\ h \in Hwnd /\ AtRest(h)
      /\ window[h] = "live" /\ h \notin Pending /\ cache[h] # NoEntry
  BY DEF SettledInv, SettledAtRest, TypeOK, AtRest
<1>2. Settle
  BY DEF Next
<1>3. window'[h] = "live"
  BY <1>2 DEF Settle, Stays, AtRest
<1>4. CASE World
  <2>1. UNCHANGED cache
    BY <1>4 DEF World
  <2>2. h \notin Pending'
    <3>1. ASSUME NEW g \in Hwnd, NEW a \in App, BeginCreate(g, a) PROVE h \notin Pending'
      BY <1>1, <3>1, CBTProcPending DEF BeginCreate, MessageType
    <3>2. ASSUME NEW g \in Hwnd, BeginDestroy(g) PROVE h \notin Pending'
      <4>1. g # h
        BY <1>1, <1>3, <3>2 DEF BeginDestroy, TypeOK, DesktopTypeOK
      <4> QED
        BY <1>1, <3>2, <4>1, CBTProcPending DEF BeginDestroy, MessageType
    <3>3. CASE UNCHANGED queue
      BY <1>1, <3>3 DEF Pending
    <3> QED
      BY <1>4, <3>1, <3>2, <3>3
      DEF World, DesktopNext, SetHook, Tick, SetClockBack, FinishCreate, Vanish,
          FinishDestroy, Gone, ToggleShown
  <2> QED
    BY <1>1, <1>3, <2>1, <2>2 DEF AtRest
<1>5. CASE WindowThread
  <2>1. h \notin Pending' /\ Head(queue).hwnd # h
    BY <1>1, <1>5, TailPending DEF WindowThread, HandleCreate, HandleDestroy
  <2>2. clock \in Entry /\ NoEntry \in Entry
    BY <1>1 DEF TypeOK, DesktopTypeOK, Entry
  <2>3. cache'[h] = cache[h]
    <3> DEFINE g == Head(queue).hwnd
    <3>1. \/ WriteEntries({g}, clock, "hook")
          \/ WriteEntries({g}, NoEntry, "query")
      BY <1>5 DEF WindowThread, HandleCreate, HandleDestroy, cacheTimestamp, deleteTimestamp
    <3>2. h \notin {g}
      BY <2>1
    <3> HIDE DEF g
    <3> QED
      BY <1>1, <2>2, <3>1, <3>2, WriteLocal
  <2> QED
    BY <1>1, <1>3, <2>1, <2>3 DEF AtRest
<1>6. CASE MainThread
  <2>1. h \notin Pending'
    <3>1. UNCHANGED queue
      BY <1>6, CallsSpareDesktop
    <3> QED
      BY <1>1, <3>1 DEF Pending
  <2>2. CASE pc = "drop" /\ WriteEntries(batch, NoEntry, "query")
    <3>1. h \notin batch /\ NoEntry \in Entry
      BY <2>2 DEF SettledInv, SettledSpared, Entry
    <3>2. cache'[h] = cache[h]
      BY <1>1, <2>2, <3>1, WriteLocal
    <3> QED
      BY <1>1, <1>3, <2>1, <3>2 DEF AtRest
  <2>3. CASE pc = "lookup" /\ WriteEntries(batch, timestamp, "query")
    <3>1. h \notin batch /\ timestamp \in Entry
      BY <1>1, <2>3 DEF SettledInv, SettledSpared, Entry, TypeOK
    <3>2. cache'[h] = cache[h]
      BY <1>1, <2>3, <3>1, WriteLocal
    <3> QED
      BY <1>1, <1>3, <2>1, <3>2 DEF AtRest
  <2>4. CASE UpdateTimestamp
    <3>1. pc = "update" /\ pos \in 1..Len(dialog) /\ Len(dialog) \in Nat
      BY <1>1, <2>4, LenProperties DEF UpdateTimestamp, TypeOK
    <3>2. pos - 1 \in Entry /\ pos - 1 # NoEntry
      BY <3>1 DEF Entry
    <3>3. cache'[h] # NoEntry
      BY <1>1, <2>4, <3>2, WriteLocal DEF UpdateTimestamp, cacheTimestamp
    <3> QED
      BY <1>3, <2>1, <3>1, <3>3 DEF AtRest
  <2>5. CASE UNCHANGED cache
    BY <1>1, <1>3, <2>1, <2>5 DEF AtRest
  <2> QED
    BY <1>6, <2>2, <2>3, <2>4, <2>5, CallsWrite
<1> QED
  BY <1>4, <1>5, <1>6 DEF Next

\* A step keeps settled windows on the running query's list.
LEMMA SparedStep == ASSUME SettledInv, Next PROVE SettledSpared'
<1> USE DEF desktopVars, cacheVars, queryVars, dialogVars
<1>1. /\ TypeOK /\ Settle /\ SettledSpared
      /\ \A h \in settled : window[h] = "live" /\ cache[h] # NoEntry /\ h \in Hwnd
  BY DEF SettledInv, SettledAtRest, AtRest, TypeOK, Next
<1>2. /\ pc' # "idle" => settled' \subseteq settled
      /\ pc = "begin" /\ pc' = "enumerate" => settled' \subseteq todo'
  BY <1>1 DEF Settle, Stays
<1>3. CASE World \/ WindowThread
  <2>1. UNCHANGED <<pc, todo, allHwnds, batch>>
    BY <1>3 DEF World, WindowThread, HandleCreate, HandleDestroy
  <2> QED
    BY <1>1, <1>2, <2>1 DEF SettledSpared
<1>4. CASE EnumWindows
  BY <1>1, <1>2, <1>4 DEF EnumWindows, SettledSpared
<1>5. ASSUME NEW h \in Hwnd, EnumWindowsCallback(h) PROVE SettledSpared'
  BY <1>1, <1>2, <1>5 DEF EnumWindowsCallback, SettledSpared
<1>6. CASE ScanCache
  BY <1>1, <1>2, <1>6 DEF ScanCache, Unlisted, SettledSpared
<1>7. CASE DropUnlisted
  BY <1>1, <1>2, <1>7 DEF DropUnlisted, SettledSpared
<1>8. ASSUME NEW h \in Hwnd, LookUp(h) PROVE SettledSpared'
  BY <1>1, <1>2, <1>8 DEF LookUp, SettledSpared
<1>9. CASE pc' \notin {"enumerate", "drop", "lookup"}
  BY <1>9 DEF SettledSpared
<1>10. CASE \E i \in DOMAIN dialog, increment \in {-1, 1, -1000, 1000} : OnMoveClick(i, increment)
  BY <1>1, <1>2, <1>10 DEF OnMoveClick, SettledSpared
<1>11. CASE CancelReorder \/ UpdateTimestamp
  BY <1>1, <1>2, <1>11 DEF CancelReorder, UpdateTimestamp, SettledSpared
<1> QED
  BY <1>3, <1>4, <1>5, <1>6, <1>7, <1>8, <1>9, <1>10, <1>11
  DEF Next, MainThread, QueryHwnds, AddMissing, Return, QueryDone, OpenReorderDialog, ReorderOk

\* The strengthening is preserved by every step.
LEMMA SettledNext == ASSUME SettledInv, [Next]_vars PROVE SettledInv'
<1>1. TypeOK'
  BY TypeNext DEF SettledInv
<1>2. CASE Next
  <2>1. SettledAtRest'
    <3> SUFFICES ASSUME NEW h \in settled' PROVE AtRest(h)'
      BY DEF SettledAtRest
    <3> QED
      BY <1>2, SettledStep DEF Next, Settle
  <2> QED
    BY <1>1, <1>2, <2>1, SparedStep DEF SettledInv
<1>3. CASE UNCHANGED vars
  BY <1>1, <1>3
  DEF vars, desktopVars, cacheVars, queryVars, dialogVars, SettledInv, SettledAtRest,
      SettledSpared, AtRest, Pending
<1> QED
  BY <1>2, <1>3

\* No query and no message of another window ever drops or restamps a window
\* that is at rest, hidden or not: only the user's reordering does.
THEOREM SettledWindowsKeepTheirStamp == Spec => SettledKeepsStamp
<1>1. SettledInv /\ [Next]_vars
        => [\A h \in settled \cap settled' : pc # "update" => cache'[h] = cache[h]]_vars
  BY SettledStep
<1> QED
  BY <1>1, SettledInit, SettledNext, PTL DEF Spec, SettledKeepsStamp
-----------------------------------------------------------------------------
(* The cache implements WindowOrder.  The strengthening: what a query has  *)
(* found so far is what the cache holds, of the windows at rest.           *)

AnswerTrue ==
  /\ pc \in {"idle", "begin", "update"} => hwnds = {}
  /\ \A r \in hwnds : r.hwnd \in settled \ undecided => r.timestamp = cache[r.hwnd]

OrderInv == SettledInv /\ AnswerTrue

\* While a call runs, no window settles.
LEMMA NoneSettles ==
  ASSUME Next, pc' # "idle"
  PROVE  settled' \subseteq settled
BY DEF Next, Settle

\* What has been given up as undecided stays so until the query returns.
LEMMA UndecidedGrows ==
  ASSUME Next, Querying, pc' # "idle"
  PROVE  undecided \subseteq undecided'
BY DEF Next, World, WindowThread, HandleCreate, HandleDestroy, MainThread, QueryHwnds,
  EnumWindows, EnumWindowsCallback, Answer, ScanCache, DropUnlisted, LookUp, AddMissing, Return,
  OpenReorderDialog, QueryDone, OnMoveClick, CancelReorder, ReorderOk, UpdateTimestamp,
  Undecided, Querying

\* A window found by the query is listed with its entry.
LEMMA AnswerTrueStep == ASSUME OrderInv, Next PROVE AnswerTrue'
<1> USE DEF desktopVars, cacheVars, queryVars, dialogVars
<1>1. /\ TypeOK /\ SettledInv /\ AnswerTrue
      /\ \A h \in settled : h \in Hwnd /\ cache[h] # NoEntry
  BY DEF OrderInv, SettledInv, SettledAtRest, AtRest, TypeOK
<1>2. CASE hwnds' = {}
  BY <1>2 DEF AnswerTrue
<1>3. CASE UNCHANGED <<pc, hwnds>> /\ pc \notin {"idle", "begin", "update"}
  BY <1>1, <1>3, NoneSettles, UndecidedGrows, SettledStep DEF AnswerTrue, Querying
<1>4. ASSUME NEW h \in Hwnd, EnumWindowsCallback(h) PROVE AnswerTrue'
  <2>1. /\ pc = "enumerate" /\ pc' = "enumerate" /\ UNCHANGED cache /\ settled' \subseteq settled
        /\ undecided \subseteq undecided'
    BY <1>4, NoneSettles, UndecidedGrows DEF EnumWindowsCallback, Querying
  <2>2. \/ hwnds' \subseteq hwnds \cup {AnswerFor(h)}
        \/ /\ hwnds' = hwnds \cup {[hwnd |-> h, timestamp |-> timestamp]}
           /\ h \in undecided'
    BY <1>4, <2>1 DEF EnumWindowsCallback, Answer, Undecided, Querying
  <2>3. AnswerFor(h).hwnd = h /\ (h \in settled => AnswerFor(h).timestamp = cache[h])
    BY <1>1 DEF AnswerFor
  <2> QED
    BY <1>1, <2>1, <2>2, <2>3 DEF AnswerTrue
<1>5. CASE ScanCache \/ DropUnlisted \/ AddMissing \/ \E h \in Hwnd : LookUp(h)
  <2>1. UNCHANGED hwnds /\ pc \notin {"idle", "begin", "update"}
        /\ pc' \notin {"idle", "begin", "update"}
    BY <1>5 DEF ScanCache, DropUnlisted, AddMissing, LookUp
  <2> QED
    BY <1>1, <2>1, NoneSettles, UndecidedGrows, SettledStep DEF AnswerTrue, Querying
<1>6. CASE pc \in {"idle", "begin", "update"} /\ UNCHANGED hwnds
  BY <1>1, <1>2, <1>6 DEF AnswerTrue
<1>7. CASE World \/ WindowThread
  BY <1>3, <1>6, <1>7 DEF World, WindowThread, HandleCreate, HandleDestroy
<1>8. CASE MainThread
  BY <1>2, <1>4, <1>5, <1>6, <1>8
  DEF MainThread, QueryHwnds, EnumWindows, Return, OpenReorderDialog, QueryDone, OnMoveClick,
      CancelReorder, ReorderOk, UpdateTimestamp
<1> QED
  BY <1>7, <1>8 DEF Next

LEMMA OrderInit == Init => OrderInv
BY SettledInit DEF Init, OrderInv, AnswerTrue

LEMMA OrderNext == ASSUME OrderInv, [Next]_vars PROVE OrderInv'
<1>1. SettledInv'
  BY SettledNext DEF OrderInv
<1>2. CASE Next
  BY <1>1, <1>2, AnswerTrueStep DEF OrderInv
<1>3. CASE UNCHANGED vars
  BY <1>1, <1>3
  DEF vars, cacheVars, queryVars, OrderInv, AnswerTrue
<1> QED
  BY <1>2, <1>3

\* The mapping of before and answer.
Stands == {p \in settled \X settled : Before([hwnd |-> p[1], timestamp |-> cache[p[1]]],
                                             [hwnd |-> p[2], timestamp |-> cache[p[2]]])}

Listed == IF pc # "return" THEN {}
          ELSE {<<p[1].hwnd, p[2].hwnd>> :
                  p \in {q \in hwnds \X hwnds :
                           /\ {q[1].hwnd, q[2].hwnd} \subseteq settled \ undecided
                           /\ Before(q[1], q[2])}}

\* By timestamp and then by handle is an order.
LEMMA StampsOrder ==
  ASSUME NEW S, NEW c, \A h \in S : h \in Nat /\ c[h] \in Nat
  PROVE  Order!IsOrder({p \in S \X S : Before([hwnd |-> p[1], timestamp |-> c[p[1]]],
                                              [hwnd |-> p[2], timestamp |-> c[p[2]]])}, S)
<1> DEFINE R == {p \in S \X S : Before([hwnd |-> p[1], timestamp |-> c[p[1]]],
                                       [hwnd |-> p[2], timestamp |-> c[p[2]]])}
<1>1. R \subseteq S \X S
  OBVIOUS
<1>2. \A g, h \in S : <<g, h>> \in R <=> c[g] < c[h] \/ (c[g] = c[h] /\ g < h)
  BY DEF Before
<1> HIDE DEF R
<1>3. \A g \in S : <<g, g>> \notin R
  BY <1>2
<1>4. \A g, h \in S : g # h => (<<g, h>> \in R <=> <<h, g>> \notin R)
  BY <1>2
<1>5. \A g, h, k \in S : <<g, h>> \in R /\ <<h, k>> \in R => <<g, k>> \in R
  BY <1>2
<1>6. Order!IsOrder(R, S)
  BY <1>1, <1>3, <1>4, <1>5 DEF Order!IsOrder
<1> QED
  BY <1>6 DEF R

\* Where the entries do not change, neither does the order of those who stay.
LEMMA StandsKept ==
  ASSUME \A h \in settled \cap settled' : cache'[h] = cache[h]
  PROVE  Order!Among(Stands', settled) = Order!Among(Stands, settled')
<1>1. ASSUME NEW p \in settled \X settled, p \in settled' \X settled'
      PROVE  p \in Stands <=> p \in Stands'
  <2>1. cache'[p[1]] = cache[p[1]] /\ cache'[p[2]] = cache[p[2]]
    BY <1>1
  <2> QED
    BY <1>1, <2>1 DEF Stands, Before
<1>2. Stands \subseteq settled \X settled /\ Stands' \subseteq settled' \X settled'
  BY DEF Stands
<1> HIDE DEF Stands
<1> QED
  BY <1>1, <1>2 DEF Order!Among

\* An answer that agrees with the cache about the windows at rest lists them in
\* the order in which they stand.
LEMMA ListedStands ==
  ASSUME NEW T, NEW c, NEW H \in SUBSET [hwnd: Hwnd, timestamp: Nat],
         \A r \in H : r.hwnd \in T => r.timestamp = c[r.hwnd]
  PROVE  \E S \in SUBSET T :
           {<<p[1].hwnd, p[2].hwnd>> :
              p \in {q \in H \X H : /\ {q[1].hwnd, q[2].hwnd} \subseteq T
                                    /\ Before(q[1], q[2])}}
           = Order!Among({p \in T \X T : Before([hwnd |-> p[1], timestamp |-> c[p[1]]],
                                                [hwnd |-> p[2], timestamp |-> c[p[2]]])}, S)
<1> DEFINE Own == {r \in H : r.hwnd \in T}
           S == {r.hwnd : r \in Own}
           L == {<<p[1].hwnd, p[2].hwnd>> :
                   p \in {q \in H \X H : /\ {q[1].hwnd, q[2].hwnd} \subseteq T
                                         /\ Before(q[1], q[2])}}
           R == {p \in T \X T : Before([hwnd |-> p[1], timestamp |-> c[p[1]]],
                                       [hwnd |-> p[2], timestamp |-> c[p[2]]])}
<1>1. S \subseteq T
  OBVIOUS
<1>2. \A r \in Own : r = [hwnd |-> r.hwnd, timestamp |-> c[r.hwnd]]
  OBVIOUS
<1>3. L = {<<p[1].hwnd, p[2].hwnd>> : p \in {q \in Own \X Own : Before(q[1], q[2])}}
  OBVIOUS
<1>4. ASSUME NEW g, NEW h
      PROVE  <<g, h>> \in L <=> <<g, h>> \in Order!Among(R, S)
  <2>1. CASE <<g, h>> \in L
    <3>1. PICK a \in Own, b \in Own : g = a.hwnd /\ h = b.hwnd /\ Before(a, b)
      BY <1>3, <2>1
    <3>2. g \in S /\ h \in S
      BY <3>1
    <3>3. <<g, h>> \in R
      BY <1>1, <1>2, <3>1, <3>2 DEF R, Before
    <3> QED
      BY <2>1, <3>2, <3>3 DEF Order!Among
  <2>2. CASE <<g, h>> \in Order!Among(R, S)
    <3>1. <<g, h>> \in R /\ g \in S /\ h \in S
      BY <2>2 DEF Order!Among
    <3>2. PICK a \in Own, b \in Own : g = a.hwnd /\ h = b.hwnd
      BY <3>1
    <3>3. Before(a, b)
      BY <1>2, <3>1, <3>2 DEF R, Before
    <3>4. <<a, b>> \in {q \in Own \X Own : Before(q[1], q[2])}
      BY <3>3
    <3>5. <<g, h>> \in L
      BY <1>3, <3>2, <3>4
    <3> QED
      BY <2>2, <3>5
  <2> QED
    BY <2>1, <2>2
<1>5. L \subseteq S \X S /\ Order!Among(R, S) \subseteq S \X S
  BY <1>3 DEF Order!Among
<1>6. L = Order!Among(R, S)
  <2> DEFINE M == Order!Among(R, S)
  <2> HIDE DEF L, R, S, M
  <2>1. L \subseteq S \X S /\ M \subseteq S \X S
    BY <1>5 DEF M
  <2>2. \A g, h : <<g, h>> \in L <=> <<g, h>> \in M
    BY <1>4 DEF M
  <2>3. \A p \in S \X S : p = <<p[1], p[2]>>
    OBVIOUS
  <2>4. \A p : p \in L <=> p \in M
    BY <2>1, <2>2, <2>3
  <2>5. L = M
    BY <2>4, Zenon
  <2> QED
    BY <2>5 DEF M
<1> QED
  BY <1>1, <1>6

\* Every step of the two threads is a step of WindowOrder.
LEMMA OrderStep == ASSUME OrderInv, OrderInv', [Next]_vars PROVE [Order!Next]_Order!vars
<1> USE DEF desktopVars, cacheVars, queryVars, dialogVars
<1>1. /\ TypeOK /\ SettledInv /\ AnswerTrue /\ settled' \subseteq Hwnd
      /\ \A h \in settled : h \in Hwnd /\ window[h] = "live" /\ h \notin Pending
  BY DEF OrderInv, SettledInv, SettledAtRest, AtRest, TypeOK
<1>2. Order!IsOrder(Stands', settled')
  <2>1. \A h \in settled' : h \in Nat /\ cache'[h] \in Nat
    BY DesktopAssumption DEF OrderInv, SettledInv, SettledAtRest, AtRest, TypeOK, Entry
  <2> QED
    BY <2>1, StampsOrder DEF Stands
<1>3. CASE UNCHANGED vars
  BY <1>3 DEF vars, Order!vars, Before
<1>4. CASE Next /\ pc = "update"
  <2>1. UNCHANGED Listed
    BY <1>1, <1>4 DEF Listed, Next, World, WindowThread, HandleCreate, HandleDestroy, MainThread,
      QueryHwnds, EnumWindows, EnumWindowsCallback, ScanCache, DropUnlisted, LookUp, AddMissing,
      Return, OpenReorderDialog, OnMoveClick, CancelReorder, ReorderOk, UpdateTimestamp
  <2>2. Order!Reorder
    BY <1>1, <1>2, <1>4, <2>1 DEF Order!Reorder, Stands, Listed
  <2> QED
    BY <2>2 DEF Order!Next
<1>5. CASE Next /\ pc # "update"
  <2>1. Order!Among(Stands', settled) = Order!Among(Stands, settled')
    BY <1>1, <1>5, SettledStep, StandsKept DEF OrderInv
  <2>2. pc' # "idle" => settled' \subseteq settled
    BY <1>5, NoneSettles
  <2>4. CASE ReorderOk
    <3>1. window' = window
      BY <2>4 DEF ReorderOk
    <3>2. settled' = settled
      BY <1>1, <1>5, <2>2, <2>4, <3>1 DEF ReorderOk, Next, Settle, Stays
    <3>3. UNCHANGED <<Stands, Listed>>
      BY <2>4, <3>2 DEF ReorderOk, Stands, Listed
    <3>4. Order!BeginReorder
      BY <2>4, <3>2, <3>3 DEF ReorderOk, Order!BeginReorder, Stands, Listed
    <3> QED
      BY <3>4 DEF Order!Next
  <2>5. CASE AddMissing
    <3>1. window' = window /\ pc = "lookup" /\ pc' = "return"
      BY <2>5 DEF AddMissing
    <3>2. settled' = settled
      BY <1>1, <1>5, <2>2, <3>1 DEF Next, Settle, Stays
    <3>3. Stands' = Stands
      <4>1. \A h \in settled : cache'[h] = cache[h]
        BY <1>1, <1>5, <3>2, SettledStep DEF OrderInv
      <4> QED
        BY <3>2, <4>1 DEF Stands, Before
    <3>4. \E S \in SUBSET settled : Listed' = Order!Among(Stands', S)
      <4> DEFINE T == settled' \ undecided'
      <4>1. /\ hwnds' \in SUBSET [hwnd: Hwnd, timestamp: Nat]
            /\ \A r \in hwnds' : r.hwnd \in T => r.timestamp = cache'[r.hwnd]
        BY DEF OrderInv, SettledInv, TypeOK, AnswerTrue
      <4>2. Listed' = {<<p[1].hwnd, p[2].hwnd>> :
                         p \in {q \in hwnds' \X hwnds' :
                                  /\ {q[1].hwnd, q[2].hwnd} \subseteq T
                                  /\ Before(q[1], q[2])}}
        BY <3>1 DEF Listed
      <4> DEFINE L(U, H) == {<<p[1].hwnd, p[2].hwnd>> :
                               p \in {q \in H \X H : /\ {q[1].hwnd, q[2].hwnd} \subseteq U
                                                     /\ Before(q[1], q[2])}}
                 R(U, c) == {p \in U \X U : Before([hwnd |-> p[1], timestamp |-> c[p[1]]],
                                                   [hwnd |-> p[2], timestamp |-> c[p[2]]])}
      <4>3. \A U, c : \A H \in SUBSET [hwnd: Hwnd, timestamp: Nat] :
              (\A r \in H : r.hwnd \in U => r.timestamp = c[r.hwnd])
                => \E S \in SUBSET U : L(U, H) = Order!Among(R(U, c), S)
        BY ListedStands
      <4>4. Listed' = L(T, hwnds') /\ Stands' = R(settled', cache')
        BY <4>2 DEF Stands
      <4>5. \A S \in SUBSET T : Order!Among(R(T, cache'), S) = Order!Among(R(settled', cache'), S)
        BY DEF Order!Among
      <4>6. T \subseteq settled'
        OBVIOUS
      <4> HIDE DEF L, R, T
      <4>7. \E S \in SUBSET T : L(T, hwnds') = Order!Among(R(T, cache'), S)
        BY <4>1, <4>3
      <4> QED
        BY <3>2, <4>4, <4>5, <4>6, <4>7
    <3>5. Order!Answer
      BY <3>1, <3>2, <3>3, <3>4 DEF Order!Answer, Stands, Listed
    <3> QED
      BY <3>5 DEF Order!Next
  <2>6. CASE ~ReorderOk /\ ~AddMissing
    <3>1. /\ pc' # "update"
          /\ pc' = "return" => pc = "return" /\ UNCHANGED hwnds
      BY <1>5, <2>6, Phases
    <3>4. pc' = "return" => settled' \ undecided' = settled' \ undecided
      <4>1. CASE WindowThread
        <5>1. Head(queue).hwnd \in Pending
          BY <1>1, <4>1, TailPending DEF WindowThread, HandleCreate, HandleDestroy
        <5>2. undecided' \in {undecided, undecided \cup {Head(queue).hwnd}}
          BY <4>1 DEF WindowThread, HandleCreate, HandleDestroy, Undecided
        <5>3. pc' = pc
          BY <4>1 DEF WindowThread, HandleCreate, HandleDestroy
        <5> QED
          BY <1>1, <2>2, <3>1, <5>1, <5>2, <5>3
      <4>2. CASE ~WindowThread
        <5>1. pc' = "return" => undecided' = undecided
          BY <1>5, <2>6, <4>2, <3>1 DEF Next, World, MainThread, QueryHwnds, EnumWindows,
            EnumWindowsCallback, ScanCache, DropUnlisted, LookUp, Return, OpenReorderDialog,
            QueryDone, OnMoveClick, CancelReorder, UpdateTimestamp
        <5> QED
          BY <5>1
      <4> QED
        BY <4>1, <4>2
    <3>2. Listed' \in {{}, Order!Among(Listed, settled')}
      <4>1. CASE pc' # "return"
        BY <4>1 DEF Listed
      <4>2. CASE pc' = "return"
        BY <2>2, <3>1, <3>4, <4>2 DEF Listed, Order!Among
      <4> QED
        BY <4>1, <4>2
    <3>3. Order!ComeAndGo
      BY <1>1, <1>2, <1>5, <2>1, <3>1, <3>2 DEF Order!ComeAndGo, Stands, Listed
    <3> QED
      BY <3>3 DEF Order!Next
  <2> QED
    BY <2>4, <2>5, <2>6
<1> QED
  BY <1>3, <1>4, <1>5

\* The cache implements the abstract specification: for any number of windows,
\* whatever messages, lost or late, and failing reads, writes and enumerations
\* come between the steps of a query, windows at rest stand in one order, which
\* only the user changes; and in it all queries list the windows whose entries
\* they did not fail to read.
THEOREM ImplementsWindowOrder == Spec => OneOrder
<1>1. Init => Order!Init
  <2> SUFFICES ASSUME Init PROVE Order!Init
    OBVIOUS
  <2>1. settled \subseteq Hwnd /\ Listed = {} /\ pc = "idle"
    BY DEF Init, Live, Listed
  <2>2. \A h \in settled : h \in Nat /\ cache[h] \in Nat
    BY SettledInit, DesktopAssumption DEF SettledInv, SettledAtRest, AtRest, TypeOK, Entry
  <2>3. Order!IsOrder(Stands, settled)
    BY <2>2, StampsOrder DEF Stands
  <2> QED
    BY <2>1, <2>3 DEF Order!Init, Stands, Listed
<1> QED
  BY <1>1, OrderInit, OrderNext, OrderStep, PTL DEF Spec, OneOrder, Order!Spec
=============================================================================
