---------------------------- MODULE CacheSession ----------------------------
(***************************************************************************)
(* The cache file over the sessions of NVDA and the boots of the machine.  *)
(* loadCache decides by the boot time whether the timestamps in the file   *)
(* still name the windows they were recorded for: window handles mean      *)
(* nothing after a reboot.  Writes are not synced, so that a power failure *)
(* may lose the last of them; a crash of NVDA loses none.                  *)
(***************************************************************************)
EXTENDS Integers, Sequences

CONSTANTS
  Hwnd,          \* window handles
  MaxBootTime,   \* bound on the boot times, in seconds
  MinUptime,     \* boots are at least so many seconds apart
  MaxDrift,      \* by how much psutil.boot_time() varies during a boot
  MaxUnsynced    \* bound on the writes that are not on the disk yet

\* "Boot time is reported with up to second accuracy": less than five seconds
\* of difference are the same boot.
Tolerance == 5

ASSUME CacheSessionAssumption ==
  /\ MaxBootTime \in Nat
  /\ MaxUnsynced \in Nat
  /\ MaxDrift \in 0..(Tolerance - 1)
  /\ MinUptime \in Nat
  /\ MinUptime >= Tolerance + MaxDrift

VARIABLES
  bootTime,     \* when this boot began
  disk,         \* the contents of the file after each write that may still be
                \* lost; the last are those that NVDA sees
  session,      \* where loadCache is
  uBootTime     \* the boot time this session received from Python

vars == <<bootTime, disk, session, uBootTime>>

\* keyBootTime ("0" when it is not found) and, for each window, 0 or the boot in
\* which its entry was written.  "of" is history: the boot keyBootTime is from.
Contents == [keyBootTime: Nat, of: Nat, entries: [Hwnd -> Nat]]

\* Mutant: no boot time is -1.
BlankMinusOne == [keyBootTime |-> -1, of |-> 0, entries |-> [h \in Hwnd |-> 0]]

Blank == [keyBootTime |-> 0, of |-> 0, entries |-> [h \in Hwnd |-> 0]]

hwndCache == disk[Len(disk)]

TypeOK ==
  /\ bootTime \in Nat
  /\ disk \in Seq(Contents)
  /\ disk # <<>>
  /\ session \in {"down", "opened", "delete", "put", "running", "failed"}
  /\ uBootTime \in Nat

\* Boot times are far from 0, which is 1970.
Init ==
  /\ bootTime = MinUptime
  /\ disk = <<Blank>>
  /\ session = "down"
  /\ uBootTime = 0

-----------------------------------------------------------------------------

\* Writing is appending to the log; the bound keeps the model finite.
Write(contents) ==
  /\ Len(disk) <= MaxUnsynced
  /\ disk' = Append(disk, contents)

\* A new session; the path and the boot time come from Python.
OpenCache ==
  /\ session = "down"
  /\ \/ /\ session' = "opened"
        /\ \E drift \in 0..MaxDrift : uBootTime' = bootTime + drift
     \/ \* no boot time, the file is corrupt or another process has it open
        session' = "failed" /\ UNCHANGED uBootTime
  /\ UNCHANGED <<bootTime, disk>>

\* Mutant: the sign of the difference is forgotten.
SameBootSigned(uCacheBootTime) == uCacheBootTime - uBootTime < Tolerance

\* Mutant: a second is taken for another boot.
SameBootExact(uCacheBootTime) == uBootTime = uCacheBootTime

\* uBootTimeDiff < 5
SameBoot(uCacheBootTime) ==
  /\ uBootTime - uCacheBootTime < Tolerance
  /\ uCacheBootTime - uBootTime < Tolerance

CompareBootTime ==
  /\ session = "opened"
  /\ \/ session' = IF SameBoot(hwndCache.keyBootTime) THEN "running" ELSE "delete"
     \/ session' = "failed"
  /\ UNCHANGED <<bootTime, disk, uBootTime>>

\* deleteAllEntries: one batch, keyBootTime included.
DeleteAllEntries ==
  /\ session = "delete"
  /\ \/ session' = "put" /\ Write(Blank)
     \/ session' = "failed" /\ UNCHANGED disk
  /\ UNCHANGED <<bootTime, uBootTime>>

PutBootTime ==
  /\ session = "put"
  /\ \/ /\ session' = "running"
        /\ Write([hwndCache EXCEPT !.keyBootTime = uBootTime, !.of = bootTime])
     \/ session' = "failed" /\ UNCHANGED disk
  /\ UNCHANGED <<bootTime, uBootTime>>

\* cacheTimestamp, deleteTimestamp and the batches of updateCache, for any of
\* the windows.
WriteEntries ==
  /\ session = "running"
  /\ \E hs \in SUBSET Hwnd, stamp \in {0, bootTime} :
       Write([hwndCache EXCEPT !.entries = [h \in Hwnd |-> IF h \in hs THEN stamp ELSE @[h]]])
  /\ UNCHANGED <<bootTime, session, uBootTime>>

\* NVDA exits or crashes: what it wrote is with the operating system.
EndSession ==
  /\ session # "down"
  /\ session' = "down"
  /\ uBootTime' = 0
  /\ UNCHANGED <<bootTime, disk>>

\* The operating system gets the older of the writes onto the disk.
Sync ==
  /\ \E n \in 2..Len(disk) : disk' = SubSeq(disk, n, Len(disk))
  /\ UNCHANGED <<bootTime, session, uBootTime>>

\* The machine restarts or loses power, at any moment.
Reboot ==
  /\ \E i \in DOMAIN disk : disk' = <<disk[i]>>
  /\ \E t \in (bootTime + MinUptime)..MaxBootTime : bootTime' = t
  /\ session' = "down"
  /\ uBootTime' = 0

Next ==
  \/ OpenCache
  \/ CompareBootTime
  \/ DeleteAllEntries
  \/ PutBootTime
  \/ WriteEntries
  \/ EndSession
  \/ Sync
  \/ Reboot

Spec == Init /\ [][Next]_vars

-----------------------------------------------------------------------------
(* Properties.                                                             *)

\* No timestamp survives a reboot: while NVDA runs, every entry it sees was
\* written since the machine was started, whichever writes a power failure
\* took and wherever in loadCache earlier sessions ended.
StampsOfThisBoot ==
  session = "running" => \A h \in Hwnd : hwndCache.entries[h] \in {0, bootTime}

\* Once a session has put the boot time, no later session of the same boot
\* deletes the timestamps, however often NVDA crashes and restarts.
RestartKeepsStamps ==
  session = "delete" => hwndCache.of # bootTime
=============================================================================
