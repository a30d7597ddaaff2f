------------------------------- MODULE WorkGraph -------------------------------
(***************************************************************************)
(* What flowcore promises about dependencies, without tables, projects,    *)
(* hierarchy or log: a set of work items and a relation "waits for" that   *)
(* never closes a circle.  FlowStore implements this (module StoreRefines).*)
(***************************************************************************)
CONSTANT Items   \* whatever can be an item of work

VARIABLES
  items,   \* the items that exist
  waits    \* pairs <<a, b>>: b waits for a

workVars == <<items, waits>>

\* Every non-empty set of items has one that waits for none of the others.
NoCircle == \A S \in SUBSET items : S # {} => \E n \in S : \A m \in S : <<m, n>> \notin waits

\* Nothing that waits for b, however indirectly, is a: some set holds b and all that waits
\* for its members, and a is not in it.
Independent(a, b) ==
  \E S \in SUBSET Items : b \in S /\ a \notin S /\ \A e \in waits : e[1] \in S => e[2] \in S

Init == items \subseteq Items /\ waits \subseteq items \X items /\ NoCircle

Add == \E n \in Items \ items : items' = items \cup {n} /\ UNCHANGED waits

\* Items go together with what they wait for and what waits for them.
Drop == \E S \in SUBSET items :
  items' = items \ S /\ waits' = {e \in waits : e[1] \notin S /\ e[2] \notin S}

Link == \E a, b \in items :
  Independent(a, b) /\ waits' = waits \cup {<<a, b>>} /\ UNCHANGED items

Unlink == \E a, b \in Items : waits' = waits \ {<<a, b>>} /\ UNCHANGED items

Next == Add \/ Drop \/ Link \/ Unlink

Spec == Init /\ [][Next]_workVars
=============================================================================
