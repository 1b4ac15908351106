---------------------------- MODULE HookService ----------------------------
(***************************************************************************)
(* What the watchdogs and their clients promise of the CBT hook: each      *)
(* architecture's is held by one client at a time, no client holds it      *)
(* twice, a client never takes it from another, and none takes it any more *)
(* where the service is closing.  Only when a client was given up while it *)
(* ran may clients contend for the hook.  Neither polls nor restart counts *)
(* nor messages occur here.                                                *)
(***************************************************************************)
EXTENDS Naturals

CONSTANTS
  Arch,
  Turns    \* the clients that an architecture may have, one after the other; 0 is none

VARIABLES
  holder,     \* the client that holds the architecture's hook
  spent,      \* the clients that have had their turn
  contended,  \* a client was given up while it ran
  closing     \* the architectures that get no client any more

vars == <<holder, spent, contended, closing>>

Init ==
  /\ holder = [a \in Arch |-> 0]
  /\ spent = [a \in Arch |-> {}]
  /\ contended = FALSE
  /\ closing = {}

Spend(a, c) ==
  /\ spent' = [spent EXCEPT ![a] = @ \cup {c}]
  /\ UNCHANGED <<contended, closing>>

\* A client has its turn: it gets the hook, or fails, and then nobody has it.
Turn(a, c) ==
  /\ c \notin spent[a]
  /\ contended \/ (holder[a] = 0 /\ a \notin closing)
  /\ holder' \in {[holder EXCEPT ![a] = c], [holder EXCEPT ![a] = 0]}
  /\ Spend(a, c)

\* A client ends, and its hook with it.
End(a, c) ==
  /\ holder' = [holder EXCEPT ![a] = IF @ = c THEN 0 ELSE @]
  /\ Spend(a, c)

GiveUp ==
  /\ contended' = TRUE
  /\ UNCHANGED <<holder, spent, closing>>

Close ==
  /\ closing = {} /\ closing' \subseteq Arch
  /\ UNCHANGED <<holder, spent, contended>>

Next == GiveUp \/ Close \/ \E a \in Arch, c \in Turns : Turn(a, c) \/ End(a, c)

Spec == Init /\ [][Next]_vars
=============================================================================
