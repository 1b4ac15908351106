----------------------------- MODULE MCTaskSwitch -----------------------------
EXTENDS TaskSwitch

\* An entry that cycles through an editor's windows with a certain title, and one
\* that selects a browser's second window.
Matches == [e \in Entry |-> IF e = "editor" THEN {1, 2, 3} ELSE {2, 3}]
Indices == [e \in Entry |-> IF e = "editor" THEN 0 ELSE 2]
=============================================================================
