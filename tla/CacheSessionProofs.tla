------------------------- MODULE CacheSessionProofs -------------------------
(***************************************************************************)
(* What loadCache guarantees for every set of windows, every number of     *)
(* boots and sessions, and every number of writes that a power failure may *)
(* take, as long as boots are far enough apart (CacheSessionAssumption).   *)
(***************************************************************************)
EXTENDS CacheSession, SequenceTheorems, TLAPS

USE CacheSessionAssumption DEF Tolerance

\* What is true of each of the contents the machine may wake up with: its
\* entries are of the boot its boot time is from, which is this boot or one
\* that began long before.
Sound(c, now) ==
  /\ \A h \in Hwnd : c.entries[h] \in {0, c.of}
  /\ c.keyBootTime >= c.of
  /\ c.keyBootTime <= c.of + MaxDrift
  /\ c.of = now \/ c.of + MinUptime <= now

ContentsSound == \A i \in DOMAIN disk : Sound(disk[i], bootTime)

\* What a session has found out so far.
SessionSound ==
  /\ session \in {"opened", "delete", "put", "running"} =>
       uBootTime >= bootTime /\ uBootTime <= bootTime + MaxDrift
  /\ session = "delete" => hwndCache.of # bootTime
  /\ session = "put" => hwndCache = Blank
  /\ session = "running" => hwndCache.of = bootTime

SessionInv == TypeOK /\ bootTime >= MinUptime /\ ContentsSound /\ SessionSound

\* What NVDA sees is one of the contents.
LEMMA CurrentContents ==
  ASSUME TypeOK
  PROVE  /\ Len(disk) \in Nat /\ Len(disk) >= 1 /\ DOMAIN disk = 1..Len(disk)
         /\ Len(disk) \in DOMAIN disk
         /\ hwndCache \in Contents
BY EmptySeq, LenProperties, ElementOfSeq DEF TypeOK, hwndCache

\* A write makes its contents the current ones and keeps the others.
LEMMA WriteContents ==
  ASSUME TypeOK, NEW c \in Contents, Write(c)
  PROVE  /\ disk' \in Seq(Contents) /\ disk' # <<>>
         /\ hwndCache' = c
         /\ \A i \in DOMAIN disk' : disk'[i] = c \/ \E j \in DOMAIN disk : disk'[i] = disk[j]
<1>1. disk \in Seq(Contents) /\ Len(disk) \in Nat
  BY CurrentContents DEF TypeOK
<1>2. disk' = Append(disk, c)
  BY DEF Write
<1>3. /\ disk' \in Seq(Contents) /\ Len(disk') = Len(disk) + 1
      /\ disk'[Len(disk) + 1] = c
      /\ \A i \in 1..Len(disk) : disk'[i] = disk[i]
  BY <1>1, <1>2
<1>4. \A i \in DOMAIN disk' : i = Len(disk) + 1 \/ i \in DOMAIN disk
  BY <1>1, <1>3, LenProperties
<1> QED
  BY <1>1, <1>3, <1>4, LenProperties, EmptySeq DEF hwndCache

\* The contents that the actions write are well formed.
LEMMA WrittenContents ==
  ASSUME TypeOK
  PROVE  /\ Blank \in Contents
         /\ [hwndCache EXCEPT !.keyBootTime = uBootTime, !.of = bootTime] \in Contents
         /\ \A hs \in SUBSET Hwnd, stamp \in {0, bootTime} :
              [hwndCache EXCEPT !.entries = [h \in Hwnd |-> IF h \in hs THEN stamp ELSE @[h]]]
                \in Contents
<1>1. hwndCache \in Contents /\ bootTime \in Nat /\ uBootTime \in Nat
  BY CurrentContents DEF TypeOK
<1>2. Blank \in Contents
  BY DEF Contents, Blank
<1> HIDE DEF hwndCache
<1>3. [hwndCache EXCEPT !.keyBootTime = uBootTime, !.of = bootTime] \in Contents
  BY <1>1 DEF Contents
<1>4. ASSUME NEW hs \in SUBSET Hwnd, NEW stamp \in {0, bootTime}
      PROVE  [hwndCache EXCEPT !.entries = [h \in Hwnd |-> IF h \in hs THEN stamp ELSE @[h]]]
               \in Contents
  <2> DEFINE e == [h \in Hwnd |-> IF h \in hs THEN stamp ELSE hwndCache.entries[h]]
  <2>1. e \in [Hwnd -> Nat]
    BY <1>1 DEF Contents
  <2>2. [hwndCache EXCEPT !.entries = e] \in Contents
    <3> HIDE DEF e
    <3> QED
      BY <1>1, <2>1 DEF Contents
  <2> QED
    BY <2>2
<1> QED
  BY <1>2, <1>3, <1>4

\* The file that create_if_missing makes satisfies the session invariant.
LEMMA SessionInit == Init => SessionInv
<1> SUFFICES ASSUME Init PROVE SessionInv
  OBVIOUS
<1>1. Blank \in Contents /\ Sound(Blank, MinUptime)
  BY DEF Blank, Contents, Sound
<1>2. disk \in Seq(Contents) /\ disk # <<>> /\ DOMAIN disk = {1} /\ disk[1] = Blank
  BY <1>1 DEF Init
<1> QED
  BY <1>1, <1>2 DEF Init, SessionInv, TypeOK, ContentsSound, SessionSound

\* Every step of loadCache, every write, crash and reboot keeps the invariant.
LEMMA SessionNext == ASSUME SessionInv, [Next]_vars PROVE SessionInv'
<1>1. /\ TypeOK /\ ContentsSound /\ SessionSound
      /\ bootTime \in Nat /\ uBootTime \in Nat /\ bootTime >= MinUptime
      /\ disk \in Seq(Contents) /\ disk # <<>>
  BY DEF SessionInv, TypeOK
<1>2. Len(disk) \in DOMAIN disk /\ hwndCache \in Contents /\ Sound(hwndCache, bootTime)
  BY <1>1, CurrentContents DEF ContentsSound, hwndCache
<1>3. CASE OpenCache
  <2>1. UNCHANGED <<bootTime, disk>> /\ UNCHANGED hwndCache
    BY <1>3 DEF OpenCache, hwndCache
  <2> QED
    BY <1>1, <1>3, <2>1 DEF OpenCache, SessionInv, TypeOK, ContentsSound, SessionSound
<1>4. CASE CompareBootTime
  <2>1. UNCHANGED <<bootTime, disk, uBootTime>> /\ UNCHANGED hwndCache
    BY <1>4 DEF CompareBootTime, hwndCache
  <2>2. uBootTime >= bootTime /\ uBootTime <= bootTime + MaxDrift
    BY <1>1, <1>4 DEF CompareBootTime, SessionSound
  <2>3. hwndCache.of \in Nat /\ hwndCache.keyBootTime \in Nat
    BY <1>2 DEF Contents
  <2>4. SameBoot(hwndCache.keyBootTime) <=> hwndCache.of = bootTime
    BY <1>1, <1>2, <2>2, <2>3 DEF SameBoot, Sound
  <2> QED
    BY <1>1, <1>4, <2>1, <2>2, <2>4
    DEF CompareBootTime, SessionInv, TypeOK, ContentsSound, SessionSound
<1>5. CASE DeleteAllEntries
  <2>1. CASE Write(Blank)
    <3>1. Sound(Blank, bootTime)
      BY <1>1 DEF Sound, Blank
    <3>2. /\ disk' \in Seq(Contents) /\ disk' # <<>> /\ hwndCache' = Blank
          /\ \A i \in DOMAIN disk' : disk'[i] = Blank \/ \E j \in DOMAIN disk : disk'[i] = disk[j]
      BY <1>1, <2>1, WriteContents, WrittenContents
    <3>3. ContentsSound'
      BY <1>1, <1>5, <3>1, <3>2 DEF DeleteAllEntries, ContentsSound
    <3>4. session' \in {"put", "failed"} /\ UNCHANGED <<bootTime, uBootTime>>
      BY <1>5 DEF DeleteAllEntries
    <3>5. session = "delete"
      BY <1>5 DEF DeleteAllEntries
    <3> QED
      BY <1>1, <3>2, <3>3, <3>4, <3>5 DEF SessionInv, TypeOK, SessionSound
  <2>2. CASE session' = "failed" /\ UNCHANGED disk
    BY <1>1, <1>5, <2>2 DEF DeleteAllEntries, SessionInv, TypeOK, ContentsSound, SessionSound
  <2> QED
    BY <1>5, <2>1, <2>2 DEF DeleteAllEntries
<1>6. CASE PutBootTime
  <2> DEFINE c == [hwndCache EXCEPT !.keyBootTime = uBootTime, !.of = bootTime]
  <2>1. CASE session' = "running" /\ Write(c)
    <3>1. /\ session = "put" /\ hwndCache = Blank /\ UNCHANGED <<bootTime, uBootTime>>
          /\ uBootTime >= bootTime /\ uBootTime <= bootTime + MaxDrift
      BY <1>1, <1>6 DEF PutBootTime, SessionSound
    <3>2. c \in Contents /\ c.of = bootTime /\ Sound(c, bootTime)
      BY <1>1, <3>1, WrittenContents DEF Sound, Blank
    <3> HIDE DEF c
    <3>3. /\ disk' \in Seq(Contents) /\ disk' # <<>> /\ hwndCache' = c
          /\ \A i \in DOMAIN disk' : disk'[i] = c \/ \E j \in DOMAIN disk : disk'[i] = disk[j]
      BY <1>1, <2>1, <3>2, WriteContents
    <3>4. ContentsSound'
      BY <1>1, <3>1, <3>2, <3>3 DEF ContentsSound
    <3> QED
      BY <1>1, <2>1, <3>1, <3>2, <3>3, <3>4 DEF SessionInv, TypeOK, SessionSound
  <2>2. CASE session' = "failed" /\ UNCHANGED disk
    BY <1>1, <1>6, <2>2 DEF PutBootTime, SessionInv, TypeOK, ContentsSound, SessionSound
  <2> QED
    BY <1>6, <2>1, <2>2 DEF PutBootTime
<1>7. CASE WriteEntries
  <2>1. PICK hs \in SUBSET Hwnd, stamp \in {0, bootTime} :
          Write([hwndCache EXCEPT !.entries = [h \in Hwnd |-> IF h \in hs THEN stamp ELSE @[h]]])
    BY <1>7 DEF WriteEntries
  <2> DEFINE c == [hwndCache EXCEPT !.entries = [h \in Hwnd |-> IF h \in hs THEN stamp ELSE @[h]]]
  <2>2. session = "running" /\ hwndCache.of = bootTime /\ UNCHANGED <<bootTime, session, uBootTime>>
    BY <1>1, <1>7 DEF WriteEntries, SessionSound
  <2>3. c \in Contents
    BY <1>1, WrittenContents
  <2>4. c.of = bootTime /\ Sound(c, bootTime)
    BY <1>2, <2>2 DEF Sound, Contents
  <2>5. Write(c)
    BY <2>1
  <2> HIDE DEF c
  <2>6. /\ disk' \in Seq(Contents) /\ disk' # <<>> /\ hwndCache' = c
        /\ \A i \in DOMAIN disk' : disk'[i] = c \/ \E j \in DOMAIN disk : disk'[i] = disk[j]
    BY <1>1, <2>3, <2>5, WriteContents
  <2>7. ContentsSound'
    BY <1>1, <2>2, <2>4, <2>6 DEF ContentsSound
  <2> QED
    BY <1>1, <2>2, <2>4, <2>6, <2>7 DEF SessionInv, TypeOK, SessionSound
<1>8. CASE EndSession
  BY <1>1, <1>8 DEF EndSession, SessionInv, TypeOK, ContentsSound, SessionSound
<1>9. CASE Sync
  <2>1. PICK n \in 2..Len(disk) : disk' = SubSeq(disk, n, Len(disk))
    BY <1>9 DEF Sync
  <2>2. Len(disk) \in Nat /\ DOMAIN disk = 1..Len(disk)
    BY <1>1, LenProperties
  <2>3. \A i \in n..Len(disk) : disk[i] \in Contents
    BY <1>1, <2>2, ElementOfSeq
  <2>4. /\ disk' \in Seq(Contents) /\ Len(disk') = Len(disk) - n + 1
        /\ \A i \in 1..(Len(disk) - n + 1) : disk'[i] = disk[n + i - 1]
    BY <2>1, <2>2, <2>3, SubSeqProperties
  <2>5. DOMAIN disk' = 1..(Len(disk) - n + 1)
    BY <2>4, LenProperties
  <2>6. disk' # <<>> /\ hwndCache' = hwndCache
    <3> DEFINE k == Len(disk) - n + 1
    <3>1. k \in 1..(Len(disk) - n + 1) /\ k >= 1 /\ n + k - 1 = Len(disk) /\ Len(disk') = k
      BY <2>1, <2>2, <2>4
    <3>2. disk'[k] = disk[Len(disk)]
      BY <2>4, <3>1
    <3> HIDE DEF k
    <3> QED
      BY <2>4, <3>1, <3>2, EmptySeq DEF hwndCache
  <2>7. UNCHANGED <<bootTime, session, uBootTime>>
    BY <1>9 DEF Sync
  <2>8. ContentsSound'
    BY <1>1, <2>1, <2>2, <2>4, <2>5, <2>7 DEF ContentsSound
  <2> QED
    BY <1>1, <2>4, <2>6, <2>7, <2>8 DEF SessionInv, TypeOK, SessionSound
<1>10. CASE Reboot
  <2>1. PICK i \in DOMAIN disk : disk' = <<disk[i]>>
    BY <1>10 DEF Reboot
  <2>2. /\ bootTime' \in Nat /\ bootTime' >= bootTime + MinUptime
        /\ session' = "down" /\ uBootTime' = 0
    BY <1>1, <1>10 DEF Reboot
  <2>3. disk[i] \in Contents /\ Sound(disk[i], bootTime)
    BY <1>1, LenProperties, ElementOfSeq DEF ContentsSound
  <2>4. disk[i].of \in Nat
    BY <2>3 DEF Contents
  <2>5. Sound(disk[i], bootTime')
    BY <1>1, <2>2, <2>3, <2>4 DEF Sound
  <2>6. disk' \in Seq(Contents) /\ disk' # <<>> /\ DOMAIN disk' = {1} /\ disk'[1] = disk[i]
    BY <2>1, <2>3
  <2> QED
    BY <1>1, <2>2, <2>5, <2>6 DEF SessionInv, TypeOK, ContentsSound, SessionSound
<1>11. CASE UNCHANGED vars
  BY <1>1, <1>11 DEF vars, SessionInv, TypeOK, ContentsSound, SessionSound, hwndCache
<1> QED
  BY <1>3, <1>4, <1>5, <1>6, <1>7, <1>8, <1>9, <1>10, <1>11 DEF Next

\* Type correctness, for any boot times, sessions and lost writes: there is
\* always a contents to fall back on, and a boot time NVDA compares is a number.
THEOREM TypeCorrect == Spec => []TypeOK
<1>1. SessionInv => TypeOK
  BY DEF SessionInv
<1> QED
  BY <1>1, SessionInit, SessionNext, PTL DEF Spec

\* No timestamp of an earlier boot is ever used, whatever a power failure took
\* and wherever loadCache was interrupted.
THEOREM NoStaleStamp == Spec => []StampsOfThisBoot
<1>1. SessionInv => StampsOfThisBoot
  BY CurrentContents DEF SessionInv, ContentsSound, SessionSound, Sound, StampsOfThisBoot, hwndCache
<1> QED
  BY <1>1, SessionInit, SessionNext, PTL DEF Spec

\* A restart of NVDA within a boot never deletes the timestamps.
THEOREM StampsSurviveRestart == Spec => []RestartKeepsStamps
<1>1. SessionInv => RestartKeepsStamps
  BY DEF SessionInv, SessionSound, RestartKeepsStamps
<1> QED
  BY <1>1, SessionInit, SessionNext, PTL DEF Spec
=============================================================================
