------------------------------- MODULE FlowReads -------------------------------
(***************************************************************************)
(* The reads of the store (src/store.rs), as functions of the tables: the  *)
(* snapshot of a project with its progress, the forward poll and the       *)
(* backward page.  A read takes the session lock for its whole duration,   *)
(* so that its queries see one state.                                      *)
(*                                                                         *)
(* A page of events is the set of its seqs: the order is that of numbers.  *)
(* Full-text search is left to SQLite.                                     *)
(***************************************************************************)
EXTENDS FlowProperties, FiniteSetsExt

CONSTANTS
  PollDefault,  \* the limit of a poll that names none (1000)
  RecentLimit   \* events in a snapshot (25)

ASSUME ReadsAssumption == PollDefault \in Nat \ {0} /\ RecentLimit \in Nat \ {0}

\* ORDER BY seq ASC LIMIT k, and ORDER BY seq DESC LIMIT k.
Oldest(S, k) == {s \in S : Cardinality({t \in S : t < s}) < k}
Newest(S, k) == {s \in S : Cardinality({t \in S : t > s}) < k}

EventsIn(p) == {s \in DOMAIN events : events[s].project = p}
EventsAfter(p, from) == {s \in EventsIn(p) : s > from}

\* The cursor of a snapshot: the last seq of all projects.
CursorOf(p) == Max(DOMAIN events \cup {0})

\* Mutant: a poll that is cut short hands out the cursor of a snapshot.
PollToTheEnd(p, after, limit) ==
  [events |-> Oldest(EventsAfter(p, after), limit), seq |-> CursorOf(p)]

\* poll_changes: the next cursor is the last seq of the page, or stays.
PollChanges(p, after, limit) ==
  LET page == Oldest(EventsAfter(p, after), IF limit = 0 THEN PollDefault ELSE limit)
  IN [events |-> page, seq |-> IF page = {} THEN after ELSE Max(page)]

\* Mutant: the boundary of a page is on both sides of it.
ListedThrough(p, n, before) ==
  {s \in EventsIn(p) : n \in {NoNode, events[s].node} /\ (before = 0 \/ s <= before)}

\* The events that list_events asks for: of the project or of one node, below `before`.
Listed(p, n, before) ==
  {s \in EventsIn(p) : n \in {NoNode, events[s].node} /\ (before = 0 \/ s < before)}

\* list_events: one row more than asked for tells whether there is another page.
ListEvents(p, n, before, limit) ==
  LET asked == Max({limit, 1})
      rows == Newest(Listed(p, n, before), asked + 1)
  IN [events |-> Newest(rows, asked), more |-> Cardinality(rows) > asked]

-----------------------------------------------------------------------------
(* Snapshot.                                                                 *)

\* Mutant: the steps count, their task does too.
UnitsWithTask(t) == {t} \cup {s \in Children(nodes, t) : nodes[s].kind = "STEP"}

\* The units of a task that count: its steps where it has some, else the task.
Units(t) ==
  LET steps == {s \in Children(nodes, t) : nodes[s].kind = "STEP"}
  IN IF steps = {} THEN {t} ELSE steps

\* Of units with their statuses.
Counts(statuses) ==
  LET count(status) == Cardinality({u \in DOMAIN statuses : statuses[u] = status}) IN
  [total |-> Cardinality(DOMAIN statuses), done |-> count("DONE"), deferred |-> count("DEFERRED"),
   ready |-> count("READY"), blocked |-> count("BLOCKED")]

\* progress_for: the tasks of the project, by work package; none for one without tasks.
Progress(p) ==
  LET tasks == {t \in Live : nodes[t].kind = "TASK" /\ nodes[t].project = p} IN
  [wp \in {nodes[t].parent : t \in tasks} |->
     LET units == UNION {Units(t) : t \in {u \in tasks : nodes[u].parent = wp}}
     IN Counts([u \in units |-> Effective(u)])]

\* row_to_node and row_to_verification: a row with what is derived of it.
NodeView(n) == [row |-> nodes[n], status |-> Effective(n), stale |-> Stale(nodes, verifications, n),
                verification |-> VerificationOf(n)]

\* get_snapshot. The cursor is that of the whole log, as seq is global.
Snapshot(p) ==
  LET mine == {n \in Live : nodes[n].project = p} IN
  [found |-> p \in DOMAIN projects,
   nodes |-> [n \in mine |-> NodeView(n)],
   dependencies |-> deps \cap (mine \X mine),
   progress |-> Progress(p),
   recent |-> Newest(EventsIn(p), RecentLimit),
   seq |-> CursorOf(p)]

\* What a client paints of it.
Picture(p) == <<Snapshot(p).nodes, Snapshot(p).dependencies, Snapshot(p).progress>>

-----------------------------------------------------------------------------
\* The progress of a snapshot is what a client would count itself in the nodes of the same
\* snapshot: every unit once, under its work package, by its status.
ProgressAgreesWithNodes ==
  \A p \in DOMAIN projects :
    LET snapshot == Snapshot(p)
        Parent(n) == snapshot.nodes[n].row.parent
        Kind(n) == snapshot.nodes[n].row.kind
        leaves == {n \in DOMAIN snapshot.nodes :
                     \/ Kind(n) = "STEP"
                     \/ Kind(n) = "TASK" /\ \A m \in DOMAIN snapshot.nodes : Parent(m) # n}
        PackageOf(n) == IF Kind(n) = "STEP" THEN Parent(Parent(n)) ELSE Parent(n)
    IN snapshot.progress =
         [wp \in {PackageOf(n) : n \in leaves} |->
            Counts([n \in {l \in leaves : PackageOf(l) = wp} |-> snapshot.nodes[n].status])]

\* "Everything above is consistent as of here" (flow.proto:273): the cursor of a snapshot is
\* that of the newest commit, although cascades take events out of the log.
SnapshotIsAsOfNow == \A p \in DOMAIN projects : Snapshot(p).seq = lastSeq

\* Cursor, nodes and progress are of one moment, although each has a query of its own.
SnapshotIsOfOneMoment == SnapshotIsAsOfNow /\ ProgressAgreesWithNodes
=============================================================================
