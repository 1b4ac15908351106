-------------------------- MODULE HwndOrderProofs --------------------------
(***************************************************************************)
(* In which order windows stand, for any windows and any queue: by         *)
(* creation when the hook has stamped them, and as the user has put them.  *)
(***************************************************************************)
EXTENDS HwndCacheProofs

USE DesktopAssumption

-----------------------------------------------------------------------------
(* Windows stamped by the hook stand in the order of creation.  The queue  *)
(* keeps the order in which messages were posted, so that of two messages  *)
(* of creation the earlier is handled, and stamped, earlier.               *)

QueueInOrder ==
  /\ \A i \in DOMAIN queue : queue[i].at <= events
  /\ \A i, j \in DOMAIN queue : i < j => queue[i].at <= queue[j].at

Announces(i, h) ==
  i \in DOMAIN queue /\ queue[i].type = "WM_CBT_CREATE_WINDOW_MSG" /\ queue[i].hwnd = h

\* The creation of a window is the last one announced for its handle; when that
\* has been handled, everything that still waits was posted later.
BornBefore(h) ==
  /\ born[h] <= events
  /\ \A i \in DOMAIN queue :
       Announces(i, h) /\ (\A j \in DOMAIN queue : Announces(j, h) => j <= i)
         => queue[i].at = born[h]
  /\ (\A i \in DOMAIN queue : ~Announces(i, h)) => \A i \in DOMAIN queue : born[h] <= queue[i].at

BornInOrder == \A h \in Hwnd : born[h] # NoEntry => BornBefore(h)

\* A stamp of the hook, if the clock has not been set back since, is a time that
\* has been.
HookStamps ==
  \A h \in Hwnd : stampedBy[h] = "hook" => cache[h] \in Nat /\ cache[h] <= clock

Stamped == {h \in Hwnd \ Pending : stampedBy[h] = "hook" /\ born[h] # NoEntry}

StampsInOrder == \A g, h \in Stamped : born[g] < born[h] => cache[g] <= cache[h]

Creation == QueueInOrder /\ BornInOrder /\ HookStamps /\ StampsInOrder

CreationInv == TypeOK /\ Creation

\* Times are numbers.
LEMMA TimesTyped ==
  ASSUME TypeOK
  PROVE  /\ clock \in Nat /\ events \in Nat
         /\ \A i \in DOMAIN queue : queue[i].at \in Nat
         /\ \A h \in Hwnd : born[h] # NoEntry => born[h] \in Nat
         /\ Len(queue) \in Nat /\ DOMAIN queue = 1..Len(queue)
<1>1. /\ queue \in Seq(Message) /\ clock \in Nat /\ events \in Nat
      /\ born \in [Hwnd -> Nat \cup {NoEntry}]
  BY DEF TypeOK, DesktopTypeOK
<1>2. Len(queue) \in Nat /\ DOMAIN queue = 1..Len(queue)
  BY <1>1, LenProperties
<1>3. \A i \in DOMAIN queue : queue[i] \in Message
  BY <1>1, ElementOfSeq, <1>2
<1>4. \A m \in Message : m.at \in Nat
  BY DEF Message
<1> QED
  BY <1>1, <1>2, <1>3, <1>4

\* The queue after its first message has been taken off.
LEMMA QueueTaken ==
  ASSUME TypeOK, queue # <<>>, queue' = Tail(queue)
  PROVE  /\ Len(queue) \in Nat /\ DOMAIN queue = 1..Len(queue) /\ 1 \in DOMAIN queue
         /\ Head(queue) = queue[1]
         /\ DOMAIN queue' = 1..(Len(queue) - 1)
         /\ \A i \in DOMAIN queue' : i + 1 \in DOMAIN queue /\ queue'[i] = queue[i + 1]
         /\ \A i \in DOMAIN queue : i = 1 \/ (i - 1 \in DOMAIN queue' /\ queue'[i - 1] = queue[i])
<1>1. queue \in Seq(Message) /\ Len(queue) \in Nat /\ Len(queue) > 0
  BY EmptySeq, LenProperties DEF TypeOK, DesktopTypeOK
<1>2. DOMAIN queue = 1..Len(queue) /\ DOMAIN queue' = 1..(Len(queue) - 1)
  BY <1>1
<1>3. \A i \in DOMAIN queue' : i + 1 \in DOMAIN queue /\ queue'[i] = queue[i + 1]
  BY <1>1
<1>4. Head(queue) = queue[1]
  BY <1>1
<1> QED
  BY <1>1, <1>2, <1>3, <1>4

\* The queue after the hook has posted a message, or has not.
LEMMA QueuePosted ==
  ASSUME TypeOK, NEW type \in MessageType, NEW h \in Hwnd, CBTProc(type, h)
  PROVE  \/ UNCHANGED queue /\ ~Delivered
         \/ /\ Delivered
            /\ Len(queue) \in Nat /\ DOMAIN queue = 1..Len(queue)
            /\ DOMAIN queue' = 1..(Len(queue) + 1)
            /\ \A i \in DOMAIN queue : queue'[i] = queue[i]
            /\ queue'[Len(queue) + 1] = [type |-> type, hwnd |-> h, at |-> events + 1]
<1> DEFINE m == [type |-> type, hwnd |-> h, at |-> events + 1]
<1>1. queue \in Seq(Message) /\ Len(queue) \in Nat /\ DOMAIN queue = 1..Len(queue)
  BY LenProperties DEF TypeOK, DesktopTypeOK
<1>2. IF Delivered THEN queue' = Append(queue, m) ELSE queue' = queue
  BY DEF CBTProc
<1> HIDE DEF m
<1>3. ASSUME queue' = Append(queue, m)
      PROVE  /\ DOMAIN queue' = 1..(Len(queue) + 1)
             /\ \A i \in DOMAIN queue : queue'[i] = queue[i]
             /\ queue'[Len(queue) + 1] = m
  BY <1>1, <1>3
<1> QED
  BY <1>1, <1>2, <1>3 DEF m

\* Whatever takes stamps away from the hook, or windows away, keeps the order of
\* the others; setting the clock back takes them all.
LEMMA FewerStamps ==
  ASSUME TypeOK, Creation, UNCHANGED queue, events' \in {events, events + 1}, clock' \in Nat,
         \A h \in Hwnd : born'[h] # NoEntry => born'[h] = born[h],
         \A h \in Hwnd : stampedBy'[h] = "hook" =>
           stampedBy[h] = "hook" /\ cache'[h] = cache[h] /\ clock <= clock'
  PROVE  Creation'
<1> USE DEF Creation
<1>1. /\ events \in Nat /\ clock \in Nat
      /\ \A i \in DOMAIN queue : queue[i].at \in Nat
      /\ \A h \in Hwnd : born[h] # NoEntry => born[h] \in Nat
  BY TimesTyped
<1>2. QueueInOrder'
  BY <1>1 DEF QueueInOrder
<1>3. BornInOrder'
  BY <1>1 DEF BornInOrder, BornBefore, Announces
<1>4. HookStamps'
  BY <1>1 DEF HookStamps
<1>5. Stamped' \subseteq Stamped
  BY DEF Stamped, Pending
<1>6. \A h \in Stamped' : cache'[h] = cache[h] /\ born'[h] = born[h]
  BY DEF Stamped
<1>7. StampsInOrder'
  BY <1>5, <1>6 DEF StampsInOrder
<1> QED BY <1>2, <1>3, <1>4, <1>7

\* A posted message joins the queue behind everything, as the latest event.
LEMMA PostedInOrder ==
  ASSUME TypeOK, Creation, NEW type \in MessageType, NEW h \in Hwnd, CBTProc(type, h),
         UNCHANGED <<clock, cache, stampedBy>>, events' = events + 1,
         \A g \in Hwnd : g # h => born'[g] = born[g],
         type = "WM_CBT_CREATE_WINDOW_MSG" => born'[h] = IF Delivered THEN events + 1 ELSE NoEntry,
         type # "WM_CBT_CREATE_WINDOW_MSG" => born'[h] = born[h]
  PROVE  Creation'
<1> USE DEF Creation
<1>1. /\ clock \in Nat /\ events \in Nat
      /\ \A i \in DOMAIN queue : queue[i].at \in Nat
      /\ \A g \in Hwnd : born[g] # NoEntry => born[g] \in Nat
  BY TimesTyped
<1>2. CASE UNCHANGED queue /\ ~Delivered
  <2>1. \A g \in Hwnd : born'[g] # NoEntry => born'[g] = born[g]
    BY <1>2 DEF MessageType
  <2> QED
    BY <1>1, <1>2, <2>1, FewerStamps
<1>3. ASSUME NEW n \in Nat, Delivered,
             DOMAIN queue = 1..n, DOMAIN queue' = 1..(n + 1),
             \A i \in DOMAIN queue : queue'[i] = queue[i],
             queue'[n + 1] = [type |-> type, hwnd |-> h, at |-> events + 1]
      PROVE  Creation'
  <2>1. QueueInOrder'
    BY <1>1, <1>3 DEF QueueInOrder
  <2>2. HookStamps'
    BY DEF HookStamps
  <2>3. BornInOrder'
    <3> SUFFICES ASSUME NEW g \in Hwnd, born'[g] # NoEntry
                 PROVE  /\ born'[g] <= events'
                        /\ \A i \in DOMAIN queue' :
                             /\ Announces(i, g)'
                             /\ \A j \in DOMAIN queue' : Announces(j, g)' => j <= i
                             => queue'[i].at = born'[g]
                        /\ (\A i \in DOMAIN queue' : ~Announces(i, g)')
                             => \A i \in DOMAIN queue' : born'[g] <= queue'[i].at
      BY DEF BornInOrder, BornBefore
    <3>1. CASE g = h /\ type = "WM_CBT_CREATE_WINDOW_MSG"
      <4>1. Announces(n + 1, g)' /\ n + 1 \in DOMAIN queue' /\ born'[g] = events + 1
        BY <1>3, <3>1 DEF Announces
      <4>2. \A i \in DOMAIN queue' : n + 1 <= i => i = n + 1
        BY <1>3
      <4> QED
        BY <1>1, <1>3, <4>1, <4>2
    <3>2. CASE ~(g = h /\ type = "WM_CBT_CREATE_WINDOW_MSG")
      <4>1. born'[g] = born[g] /\ born[g] \in Nat
        BY <1>1, <3>2
      <4>2. \A i \in DOMAIN queue : Announces(i, g)' <=> Announces(i, g)
        BY <1>3 DEF Announces
      <4>3. ~Announces(n + 1, g)'
        BY <1>3, <3>2 DEF Announces
      <4>4. \A i \in DOMAIN queue' : i \in DOMAIN queue \/ i = n + 1
        BY <1>3
      <4>5. DOMAIN queue \subseteq DOMAIN queue'
        BY <1>3
      <4>6. BornBefore(g)
        BY <4>1 DEF BornInOrder
      <4>7. ASSUME NEW i \in DOMAIN queue', Announces(i, g)',
                   \A j \in DOMAIN queue' : Announces(j, g)' => j <= i
            PROVE  queue'[i].at = born'[g]
        <5>1. i \in DOMAIN queue /\ Announces(i, g) /\ queue'[i] = queue[i]
          BY <1>3, <4>2, <4>3, <4>4, <4>7
        <5>2. \A j \in DOMAIN queue : Announces(j, g) => j <= i
          BY <4>2, <4>5, <4>7
        <5>3. queue[i].at = born[g]
          BY <4>6, <5>1, <5>2 DEF BornBefore
        <5> QED
          BY <4>1, <5>1, <5>3
      <4>8. ASSUME \A i \in DOMAIN queue' : ~Announces(i, g)', NEW i \in DOMAIN queue'
            PROVE  born'[g] <= queue'[i].at
        <5>1. \A j \in DOMAIN queue : ~Announces(j, g)
          BY <4>2, <4>5, <4>8
        <5>2. CASE i \in DOMAIN queue
          <6>1. born[g] <= queue[i].at
            BY <4>6, <5>1, <5>2 DEF BornBefore
          <6> QED
            BY <1>3, <4>1, <5>2, <6>1
        <5>3. CASE i = n + 1
          BY <1>1, <1>3, <4>1, <4>6, <5>3 DEF BornBefore
        <5> QED
          BY <4>4, <5>2, <5>3
      <4>9. born'[g] <= events'
        BY <1>1, <4>1, <4>6 DEF BornBefore
      <4> QED
        BY <4>7, <4>8, <4>9
    <3> QED BY <3>1, <3>2
  <2>4. Stamped' \subseteq Stamped /\ h \notin Stamped'
    <3>1. h \in Pending' /\ Pending \subseteq Pending'
      BY <1>3 DEF Pending
    <3> QED
      BY <3>1 DEF Stamped
  <2>5. StampsInOrder'
    BY <2>4 DEF StampsInOrder, Stamped
  <2> QED BY <2>1, <2>2, <2>3, <2>5
<1> QED
  BY <1>2, <1>3, QueuePosted

\* The life of windows and the clock.
LEMMA WorldInOrder == ASSUME TypeOK, Creation, World PROVE Creation'
<1> USE DEF cacheVars, queryVars, dialogVars
<1>1. /\ UNCHANGED cache /\ (clock' < clock \/ UNCHANGED stampedBy)
      /\ clock' < clock => \A h \in Hwnd : stampedBy'[h] # "hook"
  BY DEF World
<1>2. clock \in Nat /\ events \in Nat
  BY TimesTyped
<1>3. ASSUME NEW h \in Hwnd, NEW a \in App, BeginCreate(h, a) PROVE Creation'
  <2>1. /\ CBTProc("WM_CBT_CREATE_WINDOW_MSG", h) /\ UNCHANGED clock /\ events' = events + 1
        /\ born' = [born EXCEPT ![h] = IF Delivered THEN events + 1 ELSE NoEntry]
        /\ born \in [Hwnd -> Nat \cup {NoEntry}]
    BY <1>3 DEF BeginCreate, Event, TypeOK, DesktopTypeOK
  <2>2. UNCHANGED stampedBy
    BY <1>1, <1>2, <2>1
  <2> QED
    BY <1>1, <2>1, <2>2, PostedInOrder DEF MessageType
<1>4. ASSUME NEW h \in Hwnd, BeginDestroy(h) PROVE Creation'
  <2>1. /\ CBTProc("WM_CBT_DESTROY_WINDOW_MSG", h) /\ UNCHANGED <<clock, born>>
        /\ events' = events + 1
    BY <1>4 DEF BeginDestroy, Event
  <2>2. UNCHANGED stampedBy
    BY <1>1, <1>2, <2>1
  <2> QED
    BY <1>1, <2>1, <2>2, PostedInOrder DEF MessageType
<1>5. ASSUME UNCHANGED queue, events' \in {events, events + 1}, clock' \in Nat,
             \A h \in Hwnd : born'[h] # NoEntry => born'[h] = born[h]
      PROVE  Creation'
  <2>1. \A h \in Hwnd : stampedBy'[h] = "hook" =>
          stampedBy[h] = "hook" /\ cache'[h] = cache[h] /\ clock <= clock'
    BY <1>1, <1>2, <1>5
  <2> QED
    BY <1>5, <2>1, FewerStamps
<1>6. ASSUME NEW h \in Hwnd, Gone(h)
      PROVE  UNCHANGED <<clock, queue>> /\ \A g \in Hwnd : born'[g] # NoEntry => born'[g] = born[g]
  BY <1>6 DEF Gone, TypeOK, DesktopTypeOK
<1>7. CASE \E h \in Hwnd : Vanish(h) \/ FinishDestroy(h)
  BY <1>2, <1>5, <1>6, <1>7 DEF Vanish, FinishDestroy, Event
<1>8. CASE SetHook \/ Tick \/ SetClockBack \/ \E h \in Hwnd : FinishCreate(h) \/ ToggleShown(h)
  <2>1. UNCHANGED <<queue, born>> /\ events' \in {events, events + 1} /\ clock' \in Nat
    BY <1>2, <1>8 DEF SetHook, Tick, SetClockBack, FinishCreate, ToggleShown, Event
  <2> QED
    BY <1>5, <2>1
<1> QED
  BY <1>3, <1>4, <1>7, <1>8 DEF World, DesktopNext

\* What WindowProc does to the entries: it decides the one of its message, and
\* stamps it, with the present, only when a creation is announced.
LEMMA HandlerWrites ==
  ASSUME TypeOK, WindowThread
  PROVE  /\ queue # <<>> /\ queue' = Tail(queue) /\ UNCHANGED <<clock, events, born>>
         /\ \A g \in Hwnd : g # Head(queue).hwnd =>
                              cache'[g] = cache[g] /\ stampedBy'[g] = stampedBy[g]
         /\ \A g \in Hwnd : g = Head(queue).hwnd /\ stampedBy'[g] = "hook" =>
                              /\ Head(queue).type = "WM_CBT_CREATE_WINDOW_MSG"
                              /\ cache'[g] = clock
<1>1. cache \in [Hwnd -> Entry] /\ stampedBy \in [Hwnd -> Writer]
  BY DEF TypeOK
<1>2. \A hs, e, who : WriteEntries(hs, e, who) =>
        /\ \A g \in Hwnd : g \notin hs => cache'[g] = cache[g] /\ stampedBy'[g] = stampedBy[g]
        /\ \A g \in Hwnd : g \in hs /\ stampedBy'[g] = "hook" => who = "hook" /\ cache'[g] = e
  BY <1>1 DEF WriteEntries
<1>3. CASE HandleCreate
  BY <1>2, <1>3 DEF HandleCreate, cacheTimestamp
<1>4. CASE HandleDestroy
  BY <1>2, <1>4 DEF HandleDestroy, deleteTimestamp
<1> QED
  BY <1>3, <1>4 DEF WindowThread

\* Taking the first message keeps what is known of the others.
LEMMA TakenInOrder ==
  ASSUME TypeOK, QueueInOrder, BornInOrder,
         queue # <<>>, queue' = Tail(queue), UNCHANGED <<events, born>>
  PROVE  /\ QueueInOrder' /\ BornInOrder'
         /\ \A h \in Hwnd \ Pending : born[h] # NoEntry => born[h] <= queue[1].at
         /\ \A h \in Hwnd \ Pending' :
              born[h] # NoEntry /\ Announces(1, h) => queue[1].at = born[h]
<1>1. /\ Len(queue) \in Nat /\ DOMAIN queue = 1..Len(queue) /\ 1 \in DOMAIN queue
      /\ DOMAIN queue' = 1..(Len(queue) - 1)
      /\ \A i \in DOMAIN queue' : i + 1 \in DOMAIN queue /\ queue'[i] = queue[i + 1]
      /\ \A i \in DOMAIN queue :
           i = 1 \/ (i - 1 \in DOMAIN queue' /\ queue'[i - 1] = queue[i])
  BY QueueTaken
<1>2. /\ events \in Nat /\ \A i \in DOMAIN queue : queue[i].at \in Nat
      /\ \A h \in Hwnd : born[h] # NoEntry => born[h] \in Nat
  BY TimesTyped
<1>3. QueueInOrder'
  <2>1. ASSUME NEW i \in DOMAIN queue' PROVE queue'[i].at <= events'
    BY <1>1, <2>1 DEF QueueInOrder
  <2>2. ASSUME NEW i \in DOMAIN queue', NEW j \in DOMAIN queue', i < j
        PROVE  queue'[i].at <= queue'[j].at
    <3>1. i + 1 < j + 1
      BY <1>1, <2>2
    <3> QED
      BY <1>1, <2>2, <3>1 DEF QueueInOrder
  <2> QED
    BY <2>1, <2>2 DEF QueueInOrder
<1>4. ASSUME NEW h \in Hwnd, born[h] # NoEntry,
             \A i \in DOMAIN queue' : ~Announces(i, h)', Announces(1, h)
      PROVE  queue[1].at = born[h]
  <2>1. \A j \in DOMAIN queue : Announces(j, h) => j <= 1
    <3> SUFFICES ASSUME NEW j \in DOMAIN queue, Announces(j, h), j # 1 PROVE FALSE
      BY <1>1
    <3>1. j - 1 \in DOMAIN queue' /\ queue'[j - 1] = queue[j]
      BY <1>1
    <3>2. Announces(j - 1, h)'
      BY <3>1 DEF Announces
    <3> QED
      BY <1>4, <3>1, <3>2
  <2> QED
    BY <1>1, <1>4, <2>1 DEF BornInOrder, BornBefore
<1>5. ASSUME NEW h \in Hwnd, born'[h] # NoEntry PROVE BornBefore(h)'
  <2>1. BornBefore(h) /\ born[h] # NoEntry
    BY <1>5 DEF BornInOrder
  <2>2. ASSUME NEW i \in DOMAIN queue', Announces(i, h)',
               \A j \in DOMAIN queue' : Announces(j, h)' => j <= i
        PROVE  queue'[i].at = born'[h]
    <3>1. i + 1 \in DOMAIN queue /\ Announces(i + 1, h) /\ queue'[i] = queue[i + 1]
      BY <1>1, <2>2 DEF Announces
    <3>2. ASSUME NEW j \in DOMAIN queue, Announces(j, h) PROVE j <= i + 1
      <4>1. CASE j = 1
        BY <1>1, <4>1
      <4>2. CASE j # 1
        <5>1. j - 1 \in DOMAIN queue' /\ queue'[j - 1] = queue[j]
          BY <1>1, <4>2
        <5>2. j - 1 <= i
          BY <2>2, <3>2, <5>1 DEF Announces
        <5> QED
          BY <1>1, <5>2
      <4> QED
        BY <4>1, <4>2
    <3>3. queue[i + 1].at = born[h]
      BY <2>1, <3>1, <3>2 DEF BornBefore
    <3> QED
      BY <3>1, <3>3
  <2>3. ASSUME \A i \in DOMAIN queue' : ~Announces(i, h)', NEW i \in DOMAIN queue'
        PROVE  born'[h] <= queue'[i].at
    <3>1. i + 1 \in DOMAIN queue /\ 1 < i + 1 /\ queue'[i] = queue[i + 1]
      BY <1>1
    <3>2. CASE Announces(1, h)
      <4>1. queue[1].at = born[h]
        BY <1>4, <2>1, <2>3, <3>2
      <4>2. queue[1].at <= queue[i + 1].at
        BY <1>1, <3>1 DEF QueueInOrder
      <4> QED
        BY <3>1, <4>1, <4>2
    <3>3. CASE ~Announces(1, h)
      <4>1. \A j \in DOMAIN queue : ~Announces(j, h)
        BY <1>1, <2>3, <3>3 DEF Announces
      <4>2. born[h] <= queue[i + 1].at
        BY <2>1, <3>1, <4>1 DEF BornBefore
      <4> QED
        BY <3>1, <4>2
    <3> QED
      BY <3>2, <3>3
  <2>4. born'[h] <= events'
    BY <2>1 DEF BornBefore
  <2> QED
    BY <2>2, <2>3, <2>4 DEF BornBefore
<1>6. ASSUME NEW h \in Hwnd \ Pending, born[h] # NoEntry PROVE born[h] <= queue[1].at
  <2>1. \A j \in DOMAIN queue : ~Announces(j, h)
    BY <1>6 DEF Announces, Pending
  <2> QED
    BY <1>1, <1>6, <2>1 DEF BornInOrder, BornBefore
<1>7. \A h \in Hwnd \ Pending' : \A i \in DOMAIN queue' : ~Announces(i, h)'
  BY DEF Announces, Pending
<1> QED
  BY <1>3, <1>4, <1>5, <1>6, <1>7 DEF BornInOrder

\* A window stamped now was announced by the oldest message, after every window
\* of which nothing waits.
LEMMA HandledInOrder == ASSUME TypeOK, Creation, WindowThread PROVE Creation'
<1> USE DEF Creation
<1> DEFINE h == Head(queue).hwnd
<1>1. /\ queue # <<>> /\ queue' = Tail(queue) /\ UNCHANGED <<clock, events, born>>
      /\ \A g \in Hwnd : g # h => cache'[g] = cache[g] /\ stampedBy'[g] = stampedBy[g]
      /\ \A g \in Hwnd : g = h /\ stampedBy'[g] = "hook" =>
                           Head(queue).type = "WM_CBT_CREATE_WINDOW_MSG" /\ cache'[g] = clock
  BY HandlerWrites
<1>2. Head(queue) = queue[1] /\ 1 \in DOMAIN queue
  BY <1>1, QueueTaken
<1>3. /\ QueueInOrder' /\ BornInOrder'
      /\ \A g \in Hwnd \ Pending : born[g] # NoEntry => born[g] <= queue[1].at
      /\ \A g \in Hwnd \ Pending' :
           born[g] # NoEntry /\ Announces(1, g) => queue[1].at = born[g]
  BY <1>1, TakenInOrder
<1>4. /\ clock \in Nat /\ \A i \in DOMAIN queue : queue[i].at \in Nat
      /\ \A g \in Hwnd : born[g] # NoEntry => born[g] \in Nat
  BY TimesTyped
<1>5. HookStamps'
  <2> SUFFICES ASSUME NEW g \in Hwnd, stampedBy'[g] = "hook"
               PROVE  cache'[g] \in Nat /\ cache'[g] <= clock'
    BY DEF HookStamps
  <2> HIDE DEF h
  <2>1. CASE g = h
    <3>1. cache'[g] = clock /\ clock' = clock
      BY <1>1, <2>1
    <3> QED
      BY <1>4, <3>1
  <2>2. CASE g # h
    BY <1>1, <2>2 DEF HookStamps
  <2> QED
    BY <2>1, <2>2
<1>6. ASSUME NEW g \in Stamped', g # h PROVE g \in Stamped
  <2>1. g \notin Pending
    <3>1. \A i \in DOMAIN queue : i = 1 \/ (i - 1 \in DOMAIN queue' /\ queue'[i - 1] = queue[i])
      BY <1>1, QueueTaken
    <3> QED
      BY <1>2, <1>6, <3>1 DEF Stamped, Pending
  <2> QED
    BY <1>1, <1>6, <2>1 DEF Stamped
<1>7. ASSUME NEW g \in Stamped', g = h PROVE cache'[g] = clock /\ queue[1].at = born[g]
  <2>1. g \in Hwnd \ Pending' /\ stampedBy'[g] = "hook" /\ born[g] # NoEntry
    BY <1>1 DEF Stamped
  <2>2. cache'[g] = clock /\ Announces(1, g)
    BY <1>1, <1>2, <1>7, <2>1 DEF Announces
  <2> QED
    BY <1>3, <2>1, <2>2
<1> HIDE DEF h
<1>8. ASSUME NEW g \in Stamped', NEW k \in Stamped', born'[g] < born'[k]
      PROVE  cache'[g] <= cache'[k]
  <2>1. CASE g # h /\ k # h
    <3>1. g \in Stamped /\ k \in Stamped /\ g \in Hwnd /\ k \in Hwnd
      BY <1>6, <2>1 DEF Stamped
    <3> QED
      BY <1>1, <1>8, <2>1, <3>1 DEF StampsInOrder
  <2>2. CASE g # h /\ k = h
    <3>1. g \in Hwnd /\ stampedBy[g] = "hook"
      BY <1>6, <2>2 DEF Stamped
    <3> QED
      BY <1>1, <1>7, <2>2, <3>1 DEF HookStamps
  <2>3. CASE g = h /\ k # h
    <3>1. k \in Hwnd \ Pending /\ born[k] # NoEntry
      BY <1>6, <2>3 DEF Stamped
    <3>2. born[k] <= queue[1].at /\ queue[1].at = born[g]
      BY <1>3, <1>7, <2>3, <3>1
    <3>3. born[k] \in Nat /\ queue[1].at \in Nat
      BY <1>2, <1>4, <3>1
    <3> QED
      BY <1>1, <1>8, <3>2, <3>3
  <2>4. CASE g = h /\ k = h
    BY <1>4, <1>7, <2>4
  <2> QED
    BY <2>1, <2>2, <2>3, <2>4
<1> QED
  BY <1>3, <1>5, <1>8 DEF StampsInOrder

\* The calls of the main thread only take stamps away from the hook.
LEMMA CallsInOrder == ASSUME TypeOK, Creation, MainThread PROVE Creation'
<1> USE DEF desktopVars, cacheVars
<1>1. UNCHANGED <<clock, events, born, queue>> /\ clock \in Nat
  BY TimesTyped, CallsSpareDesktop
<1>2. ASSUME NEW hs, NEW e, NEW who \in {"query", "user"}, WriteEntries(hs, e, who)
      PROVE  \A h \in Hwnd : stampedBy'[h] = "hook" =>
                               stampedBy[h] = "hook" /\ cache'[h] = cache[h]
  BY <1>2 DEF WriteEntries, TypeOK
<1>3. \/ UNCHANGED cacheVars
      \/ WriteEntries(batch, NoEntry, "query")
      \/ WriteEntries(batch, timestamp, "query")
      \/ WriteEntries({dialog[pos]}, pos - 1, "user")
  BY CallsWrite DEF UpdateTimestamp, cacheTimestamp
<1>4. \A h \in Hwnd : stampedBy'[h] = "hook" =>
                        stampedBy[h] = "hook" /\ cache'[h] = cache[h]
  BY <1>2, <1>3
<1> QED
  BY <1>1, <1>4, FewerStamps

LEMMA CreationInit == Init => CreationInv
<1> SUFFICES ASSUME Init PROVE Creation
  BY TypeInit DEF CreationInv
<1>1. queue = <<>> /\ \A h \in Hwnd : born[h] = NoEntry
  BY DEF Init, DesktopInit
<1>2. \A h \in Hwnd : stampedBy[h] # "hook"
  BY DEF Init
<1> QED
  BY <1>1, <1>2 DEF Creation, QueueInOrder, BornInOrder, HookStamps, StampsInOrder, Stamped

LEMMA CreationNext == ASSUME CreationInv, [Next]_vars PROVE CreationInv'
<1>1. TypeOK /\ Creation /\ TypeOK'
  BY TypeNext DEF CreationInv
<1>2. CASE Next
  BY <1>1, <1>2, WorldInOrder, HandledInOrder, CallsInOrder DEF Next, CreationInv
<1>3. CASE UNCHANGED vars
  BY <1>1, <1>3, TimesTyped, FewerStamps DEF CreationInv, vars, desktopVars, cacheVars
<1> QED
  BY <1>2, <1>3

\* Windows that the hook has stamped since the clock was last set back stand in
\* the order of their creation: for any number of windows, any delay of the
\* messages and any reuse of handles.
THEOREM HookKeepsCreationOrder == Spec => []CreationOrder
<1>1. CreationInv => CreationOrder
  BY DEF CreationInv, Creation, StampsInOrder, Stamped, CreationOrder, Live
<1> QED
  BY <1>1, CreationInit, CreationNext, PTL DEF Spec

-----------------------------------------------------------------------------
(* Windows stand as the user has put them.                                 *)

\* A list of windows has each of them once.
OnceEach ==
  /\ \A i, j \in DOMAIN dialog : dialog[i] = dialog[j] => i = j
  /\ \A q, r \in hwnds : q.hwnd = r.hwnd => q = r
  /\ \A r \in hwnds : r.hwnd \in allHwnds
  /\ pc = "begin" => allHwnds = {}
  /\ pc = "enumerate" => todo \cap allHwnds = {}

ChosenSettled == chosen \subseteq settled \X settled

\* What updateTimestamps has stored so far.
StoredSoFar ==
  pc = "update" =>
    /\ chosen \subseteq Precedes(dialog)
    /\ \A k \in 1..(pos - 1) :
         dialog[k] \in settled =>
           stampedBy[dialog[k]] = "failed" \/ cache[dialog[k]] = k - 1

UserOrderInv == SettledInv /\ OnceEach /\ ChosenSettled /\ StoredSoFar /\ UserOrderKept

\* Nothing but updateTimestamps writes the entry of a window at rest.
LEMMA OthersSpare ==
  ASSUME SettledInv, Next, ~UpdateTimestamp, NEW h \in settled
  PROVE  cache'[h] = cache[h] /\ (stampedBy'[h] = "failed" <=> stampedBy[h] = "failed")
<1> USE DEF cacheVars
<1>1. TypeOK /\ h \in Hwnd /\ h \notin Pending
  BY DEF SettledInv, SettledAtRest, AtRest, TypeOK
<1>2. CASE World
  BY <1>1, <1>2 DEF World
<1>3. CASE WindowThread
  <2>1. Head(queue).hwnd \in Pending
    BY <1>1, <1>3, TailPending, HandlerWrites
  <2> QED
    BY <1>1, <1>3, <2>1, HandlerWrites
<1>4. CASE MainThread
  <2>1. \/ UNCHANGED cacheVars
        \/ pc = "drop" /\ WriteEntries(batch, NoEntry, "query")
        \/ pc = "lookup" /\ WriteEntries(batch, timestamp, "query")
    BY <1>4, CallsWrite
  <2>2. pc \in {"drop", "lookup"} => h \notin batch
    BY DEF SettledInv, SettledSpared
  <2>3. \A e, who : h \notin batch /\ WriteEntries(batch, e, who) =>
                      cache'[h] = cache[h] /\ stampedBy'[h] = stampedBy[h]
    BY <1>1 DEF WriteEntries
  <2> QED
    BY <2>1, <2>2, <2>3
<1> QED
  BY <1>2, <1>3, <1>4 DEF Next

\* The list of an answer has each window once.
LEMMA ListingOnceEach ==
  ASSUME TypeOK, OnceEach, NEW s \in Listings(hwnds),
         NEW i \in DOMAIN s, NEW j \in DOMAIN s, s[i].hwnd = s[j].hwnd
  PROVE  i = j
<1>1. Cardinality(hwnds) \in Nat
  BY FS_CardinalityType DEF TypeOK
<1>2. /\ DOMAIN s = 1..Cardinality(hwnds)
      /\ s[i] \in hwnds /\ s[j] \in hwnds
      /\ i < j => Before(s[i], s[j])
      /\ j < i => Before(s[j], s[i])
  BY DEF Listings
<1>3. s[i] = s[j] /\ s[i].timestamp \in Nat /\ s[i].hwnd \in Nat
  BY <1>2 DEF OnceEach, TypeOK
<1>4. ~Before(s[i], s[j]) /\ ~Before(s[j], s[i])
  BY <1>3 DEF Before
<1> QED
  BY <1>1, <1>2, <1>4

\* The list of the dialog and the answer have each window once, after every step.
LEMMA OnceEachStep == ASSUME TypeOK, OnceEach, Next PROVE OnceEach'
<1> USE DEF queryVars, dialogVars
<1>1. CASE World \/ WindowThread
  BY <1>1 DEF World, WindowThread, HandleCreate, HandleDestroy, OnceEach
<1>2. ASSUME NEW app \in App, QueryHwnds(app) PROVE OnceEach'
  BY <1>2 DEF QueryHwnds, OnceEach
<1>3. CASE EnumWindows
  BY <1>3 DEF EnumWindows, OnceEach
<1>4. ASSUME NEW h \in Hwnd, EnumWindowsCallback(h) PROVE OnceEach'
  <2>1. /\ pc = "enumerate" /\ pc' = pc /\ h \in todo /\ todo' = todo \ {h}
        /\ allHwnds' = allHwnds \cup {h} /\ dialog' = dialog
        /\ \/ hwnds' = hwnds
           \/ \E r : r.hwnd = h /\ hwnds' = hwnds \cup {r}
    BY <1>4 DEF EnumWindowsCallback, Answer, AnswerFor
  <2>2. \A r \in hwnds : r.hwnd # h
    BY <2>1 DEF OnceEach
  <2> QED
    BY <2>1, <2>2 DEF OnceEach
<1>5. CASE ScanCache \/ DropUnlisted \/ AddMissing \/ \E h \in Hwnd : LookUp(h)
  BY <1>5 DEF ScanCache, DropUnlisted, AddMissing, LookUp, OnceEach
<1>6. CASE Return
  BY <1>6 DEF Return, QueryDone, OnceEach
<1>7. CASE OpenReorderDialog
  <2>1. PICK s \in Listings(hwnds) : dialog' = [i \in DOMAIN s |-> s[i].hwnd]
    BY <1>7 DEF OpenReorderDialog
  <2>2. \A i, j \in DOMAIN dialog' : dialog'[i] = dialog'[j] => i = j
    BY <2>1, ListingOnceEach
  <2> QED
    BY <1>7, <2>2 DEF OpenReorderDialog, QueryDone, OnceEach
<1>8. ASSUME NEW i \in DOMAIN dialog, NEW increment \in {-1, 1, -1000, 1000},
             OnMoveClick(i, increment)
      PROVE  OnceEach'
  <2> DEFINE target == i + increment
             n == IF target < 1 THEN 1 ELSE IF target > Len(dialog) THEN Len(dialog) ELSE target
  <2>1. n \in DOMAIN dialog /\ dialog' = [dialog EXCEPT ![i] = dialog[n], ![n] = dialog[i]]
    <3>1. Len(dialog) \in Nat /\ DOMAIN dialog = 1..Len(dialog)
      BY LenProperties DEF TypeOK
    <3> QED
      BY <1>8, <3>1 DEF OnMoveClick
  <2> HIDE DEF n
  <2>2. \A j, k \in DOMAIN dialog' : dialog'[j] = dialog'[k] => j = k
    BY <2>1 DEF OnceEach
  <2> QED
    BY <1>8, <2>2 DEF OnMoveClick, OnceEach
<1>9. CASE CancelReorder \/ ReorderOk \/ UpdateTimestamp
  BY <1>9 DEF CancelReorder, ReorderOk, UpdateTimestamp, OnceEach
<1> QED
  BY <1>1, <1>2, <1>3, <1>4, <1>5, <1>6, <1>7, <1>8, <1>9 DEF Next, MainThread

\* What updateTimestamps does with the window at pos.
LEMMA StoresPosition ==
  ASSUME UserOrderInv, Next, UpdateTimestamp
  PROVE  /\ Len(dialog) \in Nat /\ DOMAIN dialog = 1..Len(dialog) /\ pos \in DOMAIN dialog
         /\ \A k \in 1..pos :
              dialog[k] \in settled =>
                stampedBy'[dialog[k]] = "failed" \/ cache'[dialog[k]] = k - 1
<1>1. /\ pc = "update" /\ Len(dialog) \in Nat /\ DOMAIN dialog = 1..Len(dialog)
      /\ pos \in DOMAIN dialog
  BY LenProperties DEF UserOrderInv, SettledInv, TypeOK, UpdateTimestamp
<1>2. WriteEntries({dialog[pos]}, pos - 1, "user")
  BY DEF UpdateTimestamp, cacheTimestamp
<1>3. ASSUME NEW k \in 1..pos, dialog[k] \in settled
      PROVE  stampedBy'[dialog[k]] = "failed" \/ cache'[dialog[k]] = k - 1
  <2>1. dialog[k] \in Hwnd
    BY <1>3 DEF UserOrderInv, SettledInv, TypeOK
  <2>2. CASE k = pos
    BY <1>2, <2>1, <2>2 DEF WriteEntries
  <2>3. CASE k # pos
    <3>1. k \in 1..(pos - 1) /\ k \in DOMAIN dialog
      BY <1>1, <2>3
    <3>2. dialog[k] # dialog[pos]
      BY <1>1, <2>3, <3>1 DEF UserOrderInv, OnceEach
    <3>3. stampedBy[dialog[k]] = "failed" \/ cache[dialog[k]] = k - 1
      BY <1>1, <1>3, <3>1 DEF UserOrderInv, StoredSoFar
    <3> QED
      BY <1>2, <2>1, <3>2, <3>3 DEF WriteEntries
  <2> QED
    BY <2>2, <2>3
<1> QED
  BY <1>1, <1>3

LEMMA StoredStep == ASSUME UserOrderInv, Next PROVE StoredSoFar'
<1> SUFFICES ASSUME pc' = "update" PROVE StoredSoFar'
  BY DEF StoredSoFar
<1>1. settled' \subseteq settled
  BY NoneSettles
<1>2. CASE UpdateTimestamp
  <2>1. pc = "update" /\ dialog' = dialog /\ pos' = pos + 1
    BY <1>2 DEF UpdateTimestamp
  <2>2. pos' - 1 = pos
    BY <2>1 DEF UserOrderInv, SettledInv, TypeOK
  <2>3. chosen' \subseteq chosen /\ chosen \subseteq Precedes(dialog)
    BY <2>1 DEF Next, Settle, UserOrderInv, StoredSoFar
  <2>4. Precedes(dialog)' = Precedes(dialog)
    BY <2>1 DEF Precedes
  <2>5. \A k \in 1..pos : dialog[k] \in settled =>
            stampedBy'[dialog[k]] = "failed" \/ cache'[dialog[k]] = k - 1
    BY <1>2, StoresPosition
  <2> QED
    BY <1>1, <2>1, <2>2, <2>3, <2>4, <2>5 DEF StoredSoFar
<1>3. CASE pc = "update" /\ ~UpdateTimestamp
  <2>1. UNCHANGED <<dialog, pos>>
    BY <1>3, Phases DEF dialogVars
  <2>2. chosen' \subseteq chosen /\ chosen \subseteq Precedes(dialog)
    BY <1>3 DEF Next, Settle, UserOrderInv, StoredSoFar
  <2>3. Precedes(dialog)' = Precedes(dialog)
    BY <2>1 DEF Precedes
  <2>4. \A h \in settled : /\ cache'[h] = cache[h]
                           /\ stampedBy'[h] = "failed" <=> stampedBy[h] = "failed"
    BY <1>3, OthersSpare DEF UserOrderInv
  <2> QED
    BY <1>1, <1>3, <2>1, <2>2, <2>3, <2>4 DEF UserOrderInv, StoredSoFar
<1>4. CASE pc # "update"
  <2>1. ReorderOk
    BY <1>4, Phases
  <2>2. pos' = 1 /\ dialog' = dialog
    BY <2>1 DEF ReorderOk
  <2>3. chosen' \subseteq Precedes(dialog) /\ Precedes(dialog)' = Precedes(dialog)
    BY <1>4, <2>2 DEF Next, Settle, Precedes
  <2> QED
    BY <2>2, <2>3 DEF StoredSoFar
<1> QED
  BY <1>2, <1>3, <1>4

LEMMA UserOrderStep == ASSUME UserOrderInv, Next PROVE UserOrderKept'
<1> SUFFICES ASSUME pc' # "update", NEW p \in chosen',
                    "failed" \notin {stampedBy'[p[1]], stampedBy'[p[2]]}
             PROVE  cache'[p[1]] < cache'[p[2]]
  BY DEF UserOrderKept
<1>1. p \in chosen /\ p[1] \in settled /\ p[2] \in settled
  BY DEF Next, Settle, UserOrderInv, ChosenSettled
<1>2. CASE UpdateTimestamp
  <2>1. pc = "update" /\ ~(pos < Len(dialog))
    BY <1>2 DEF UpdateTimestamp
  <2>2. Len(dialog) \in Nat /\ DOMAIN dialog = 1..Len(dialog) /\ pos = Len(dialog)
    BY <1>2, <2>1, StoresPosition
  <2>3. PICK i \in DOMAIN dialog, j \in DOMAIN dialog :
               i < j /\ dialog[i] = p[1] /\ dialog[j] = p[2]
    BY <1>1, <2>1 DEF UserOrderInv, StoredSoFar, Precedes
  <2>4. cache'[p[1]] = i - 1 /\ cache'[p[2]] = j - 1
    BY <1>1, <1>2, <2>2, <2>3, StoresPosition
  <2> QED
    BY <2>2, <2>3, <2>4
<1>3. CASE ~UpdateTimestamp
  <2>1. pc # "update"
    BY <1>3, Phases
  <2>2. \A h \in {p[1], p[2]} : /\ cache'[h] = cache[h]
                                /\ stampedBy'[h] = "failed" <=> stampedBy[h] = "failed"
    BY <1>1, <1>3, OthersSpare DEF UserOrderInv
  <2> QED
    BY <1>1, <2>1, <2>2 DEF UserOrderInv, UserOrderKept
<1> QED
  BY <1>2, <1>3

LEMMA UserOrderInit == Init => UserOrderInv
<1> SUFFICES ASSUME Init PROVE UserOrderInv
  OBVIOUS
<1>1. SettledInv
  BY SettledInit
<1> QED
  BY <1>1 DEF Init, UserOrderInv, OnceEach, ChosenSettled, StoredSoFar, UserOrderKept

LEMMA UserOrderNext == ASSUME UserOrderInv, [Next]_vars PROVE UserOrderInv'
<1>1. SettledInv'
  BY SettledNext DEF UserOrderInv
<1>2. CASE Next
  <2>1. ChosenSettled'
    <3>1. chosen' \subseteq Hwnd \X Hwnd
      BY <1>1 DEF SettledInv, TypeOK
    <3> QED
      BY <1>2, <3>1 DEF Next, Settle, ChosenSettled
  <2>2. OnceEach'
    BY <1>2, OnceEachStep DEF UserOrderInv, SettledInv
  <2> QED
    BY <1>1, <1>2, <2>1, <2>2, StoredStep, UserOrderStep DEF UserOrderInv
<1>3. CASE UNCHANGED vars
  BY <1>1, <1>3 DEF vars, cacheVars, queryVars, dialogVars, UserOrderInv, OnceEach,
                    ChosenSettled, StoredSoFar, Precedes, UserOrderKept
<1> QED
  BY <1>2, <1>3

\* The order that the user has confirmed stands: for any number of windows and
\* however many queries and messages follow, windows at rest keep the places
\* that updateTimestamps wrote, until the user confirms another order.
THEOREM ConfirmedOrderStands == Spec => []UserOrderKept
<1>1. UserOrderInv => UserOrderKept
  BY DEF UserOrderInv
<1> QED
  BY <1>1, UserOrderInit, UserOrderNext, PTL DEF Spec
=============================================================================
