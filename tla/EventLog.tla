------------------------------- MODULE EventLog -------------------------------
(***************************************************************************)
(* What flowcore promises about its event log, which is what the watchers  *)
(* and pollers rely on: an event has a number above every number that was  *)
(* ever given, it is never changed, and it may go when its node does.      *)
(* FlowStore implements this (module StoreRefines).                        *)
(***************************************************************************)
EXTENDS Naturals

CONSTANTS
  Projects,   \* whatever can own an event
  Seqs        \* the numbers there are

VARIABLES
  log,    \* the events that exist: seq -> project
  last    \* the largest seq ever given

logVars == <<log, last>>

Init ==
  /\ last \in Seqs
  /\ \A s \in DOMAIN log : s \in Seqs /\ s <= last /\ log[s] \in Projects

\* One commit: consecutive numbers up to `new` for the events of one project, while those
\* outside `kept` go.
AppendEvents(p, new, kept) ==
  /\ new > last
  /\ last' = new
  /\ log' = [s \in kept \cup (last + 1) .. new |-> IF s <= last THEN log[s] ELSE p]

Next == \E p \in Projects, new \in Seqs, kept \in SUBSET DOMAIN log : AppendEvents(p, new, kept)

Spec == Init /\ [][Next]_logVars
=============================================================================
