----------------------------- MODULE StoreRefines -----------------------------
(***************************************************************************)
(* The store implements WorkGraph: its live nodes are the items and its    *)
(* dependency rows the relation.  And it implements EventLog.              *)
(***************************************************************************)
EXTENDS FlowProperties

Work == INSTANCE WorkGraph WITH Items <- NodeIds, items <- DOMAIN nodes, waits <- deps

\* Every request does to the graph one of the four things WorkGraph allows, or nothing:
\* create and restore add an item, delete, demote and the undo of a create drop a set of
\* them with their edges, the others add or remove one edge.
ImplementsWorkGraph == Work!Spec

Feed == INSTANCE EventLog
  WITH Projects <- ProjectIds, Seqs <- 0 .. MaxSeq,
       log <- [s \in DOMAIN events |-> events[s].project], last <- lastSeq

\* A cursor is safe: what is logged after a client has read up to lastSeq has a higher seq,
\* also when cascades have deleted the newest events (AUTOINCREMENT, not MAX + 1); an event
\* is never renumbered and never changes hands.
ImplementsEventLog == Feed!Spec
=============================================================================
