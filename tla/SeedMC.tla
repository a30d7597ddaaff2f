-------------------------------- MODULE SeedMC --------------------------------
(***************************************************************************)
(* The store for TLC from the dev fixture.                                 *)
(***************************************************************************)
EXTENDS StoreRefines, TLC

CONSTANTS
  Wp, Task1, Task2,   \* the nodes of the fixture
  Travel, Docs        \* its projects, the second one archived

ASSUME SeedAssumption ==
  /\ {Wp, Task1, Task2} \subseteq NodeIds /\ Wp \notin {Task1, Task2} /\ Task1 # Task2
  /\ {Travel, Docs} \subseteq ProjectIds /\ Travel # Docs
  /\ MaxSeq >= 1   \* the fixture has an event

\* SEED_SQL: a work package, an open task and a task that is done although the first
\* blocks it, and the creation event of the first task.
SeedRow(n) ==
  [project |-> Travel,
   parent |-> IF n = Wp THEN NoNode ELSE Wp, kind |-> IF n = Wp THEN "WORK_PACKAGE" ELSE "TASK",
   status |-> IF n = Task2 THEN "DONE" ELSE "OPEN", updated |-> 0]

SeedInit ==
  /\ projects = [p \in {Travel, Docs} |-> p = Docs]
  /\ nodes = [n \in {Wp, Task1, Task2} |-> SeedRow(n)]
  /\ deps = {<<Task1, Task2>>}
  /\ verifications = Empty
  /\ events = [s \in {1} |-> Event(Travel, Task1, "NODE_CREATED", NoPayload)] /\ lastSeq = 1
  /\ idem = Empty /\ minted = {Wp, Task1, Task2}
  /\ now = 0 /\ reply = Error

\* Every request.
SeedSpec == SeedInit /\ [][Next]_vars

\* The latest reply is not part of what requests depend on.
View == <<tables, now>>

\* The ids that no fixture row has are alike.
Symmetry == Permutations(NodeIds \ {Wp, Task1, Task2})
=============================================================================
