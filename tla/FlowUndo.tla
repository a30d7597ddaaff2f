------------------------------- MODULE FlowUndo -------------------------------
(***************************************************************************)
(* What undo gives back.  A variable that is not in the code remembers the *)
(* graph from before the latest write, and an undo of that write is        *)
(* compared with it.                                                       *)
(***************************************************************************)
EXTENDS SeedMC

VARIABLE prior   \* the graph before the write that logged lastSeq, as a set: {} before the first

\* The graph without the columns that any write touches.
Graph ==
  [rows |-> [n \in Live |-> [project |-> nodes[n].project, parent |-> nodes[n].parent,
                             kind |-> nodes[n].kind, status |-> nodes[n].status]],
   deps |-> deps]

UndoInit == SeedInit /\ prior = {}

UndoRequest ==
  /\ \/ \E p \in DOMAIN projects : Undo(p, 0, NoKey) \/ CreateNode(p, NoNode, "WORK_PACKAGE", NoKey)
     \/ \E n \in Live :
          \/ CreateNode(nodes[n].project, n, "TASK", NoKey)
          \/ DeleteNode(n, FALSE, NoKey)
          \/ \E status \in Statuses : SetStatus(n, status, NoKey)
          \/ \E parent \in Live, kind \in {"TASK", "STEP"} : MoveNode(n, parent, kind, NoKey)
          \/ AddComment(n, NoKey)
          \/ \E m \in Live : AddDependency(n, m, NoKey) \/ RemoveDependency(n, m, NoKey)
  /\ UNCHANGED now
  /\ prior' = IF Logs THEN {Graph} ELSE prior

-----------------------------------------------------------------------------
\* A step that undoes the latest write of the database.
UndoesLatest ==
  /\ prior # {}
  /\ lastSeq \in DOMAIN events
  /\ Undo(events[lastSeq].project, 0, NoKey)
  /\ reply'.ok

\* The write did something, is not an undo itself, and deleted nothing but one node that had
\* neither children nor edges: the image of a deleted node holds its row only.
Exact ==
  /\ Graph \notin prior
  /\ ~IsInverse(events[lastSeq])
  /\ events[lastSeq].kind = "NODE_DELETED" =>
       \A g \in prior : g.deps = deps /\ Cardinality(DOMAIN g.rows \ Live) = 1

\* An undo of the latest write gives back the graph from before it, status, hierarchy and
\* edges, as far as the write was one that the log describes.
UndoRestoresGraph == [][UndoesLatest /\ Exact => Graph' \in prior]_<<vars, prior>>
=============================================================================
