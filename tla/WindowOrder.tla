---------------------------- MODULE WindowOrder ----------------------------
(***************************************************************************)
(* What the cache of creation times promises: the windows stand in one     *)
(* order.  Windows come and go, and each finds a place in it; those that   *)
(* stay keep their order among each other, every query answers in it, and  *)
(* only the user's reordering changes it.  Neither timestamps nor messages *)
(* nor threads occur here.                                                 *)
(***************************************************************************)
CONSTANT Window

VARIABLES
  windows,     \* the windows that have their place
  before,      \* their order: a set of pairs
  reordering,  \* the user's reordering is being stored
  answer       \* the order in which a query's answer lists its windows

vars == <<windows, before, reordering, answer>>

IsOrder(r, S) ==
  /\ r \subseteq S \X S
  /\ \A g \in S : <<g, g>> \notin r
  /\ \A g, h \in S : g # h => (<<g, h>> \in r <=> <<h, g>> \notin r)
  /\ \A g, h, k \in S : <<g, h>> \in r /\ <<h, k>> \in r => <<g, k>> \in r

Among(r, S) == r \cap (S \X S)

Init ==
  /\ windows \subseteq Window
  /\ IsOrder(before, windows)
  /\ reordering = FALSE
  /\ answer = {}

\* A query answers with some of the windows.
Answer ==
  /\ ~reordering /\ answer = {}
  /\ answer' \in {Among(before, S) : S \in SUBSET windows}
  /\ UNCHANGED <<windows, before, reordering>>

\* Windows come and go, and an answer may be read.
ComeAndGo ==
  /\ ~reordering
  /\ windows' \subseteq Window
  /\ IsOrder(before', windows')
  /\ Among(before', windows) = Among(before, windows')
  /\ answer' \in {{}, Among(answer, windows')}
  /\ UNCHANGED reordering

BeginReorder ==
  /\ ~reordering /\ answer = {}
  /\ reordering' = TRUE
  /\ UNCHANGED <<windows, before, answer>>

\* The order is open until the last window has been written.
Reorder ==
  /\ reordering /\ reordering' \in BOOLEAN
  /\ windows' \subseteq Window
  /\ IsOrder(before', windows')
  /\ UNCHANGED answer

Next == Answer \/ ComeAndGo \/ BeginReorder \/ Reorder

Spec == Init /\ [][Next]_vars
=============================================================================
