------------------------- MODULE StoreRefines_proofs -------------------------
(***************************************************************************)
(* The store implements the abstract work graph and the abstract event     *)
(* log, for any number of nodes, projects, keys and events; and with the   *)
(* work graph's invariant, nobody ever waits in a circle.                  *)
(***************************************************************************)
EXTENDS StoreRefines, FlowStore_proofs

Abstract == INSTANCE WorkGraph_proofs
  WITH Items <- NodeIds, items <- DOMAIN nodes, waits <- deps

\* A step of the store is a step or a stutter of each abstract specification.
GraphStep == [Work!Next]_(Work!workVars)
FeedStep == [Feed!Next]_(Feed!logVars)

-----------------------------------------------------------------------------
(* The four things that may happen to the graph.                             *)

\* No node comes or goes, and no edge.
LEMMA GraphStays ==
  ASSUME DOMAIN nodes' = DOMAIN nodes, deps' = deps
  PROVE  GraphStep
  BY DEF GraphStep, Work!workVars

\* A row is inserted, or replaced, or left alone as it is there.
LEMMA GraphAdds ==
  ASSUME NEW n \in NodeIds, DOMAIN nodes' = DOMAIN nodes \cup {n}, deps' = deps
  PROVE  GraphStep
<1>1. CASE n \in DOMAIN nodes
  BY <1>1, GraphStays
<1>2. CASE n \notin DOMAIN nodes
  BY <1>2 DEF GraphStep, Work!Next, Work!Add
<1> QED
  BY <1>1, <1>2

\* Rows go, with the edges at them.
LEMMA GraphDrops ==
  ASSUME NEW S \in SUBSET DOMAIN nodes, DOMAIN nodes' = DOMAIN nodes \ S,
         deps' = DepsWithout(deps, S)
  PROVE  GraphStep
  BY DEF GraphStep, Work!Next, Work!Drop, DepsWithout

\* An edge that the trigger lets pass: what the walk from the blocked node collects is one
\* of the sets closed under the edges, and the blocker is outside one of them.
LEMMA GraphLinks ==
  ASSUME TypeOK, NEW a \in NodeIds, NEW b \in NodeIds, EdgeAccepted(nodes, deps, a, b),
         deps' = deps \cup {<<a, b>>}, UNCHANGED nodes
  PROVE  GraphStep
<1>1. a \in DOMAIN nodes /\ b \in DOMAIN nodes /\ a \notin Reach(deps, b)
  BY DEF EdgeAccepted, NoCycle
<1>2. PICK S \in SUBSET NodeIds : b \in S /\ ClosedUnder(deps, S) /\ a \notin S
  BY <1>1 DEF Reach
<1>3. Work!Independent(a, b)
  BY <1>2 DEF Work!Independent, ClosedUnder
<1>4. Work!Link
  BY <1>1, <1>3 DEF Work!Link
<1> QED
  BY <1>4 DEF GraphStep, Work!Next

\* An edge is taken away, whether or not it was there.
LEMMA GraphUnlinks ==
  ASSUME NEW a \in NodeIds, NEW b \in NodeIds, deps' = deps \ {<<a, b>>}, UNCHANGED nodes
  PROVE  GraphStep
  BY DEF GraphStep, Work!Next, Work!Unlink

-----------------------------------------------------------------------------
(* The log.                                                                  *)

Survive(kept) == DOMAIN kept \subseteq DOMAIN events /\ \A s \in DOMAIN kept : kept[s] = events[s]

\* Events that a cascade leaves are events as they were.
LEMMA CascadeSurvivors ==
  ASSUME NEW S
  PROVE  Survive(EventsWithout(events, S))
  BY DEF Survive, EventsWithout, Restrict

\* The common end of every write appends to the log.
LEMMA CommitAppends ==
  ASSUME TypeOK, NEW kept, Survive(kept), NEW bare \in Nat, NEW event \in EventRows,
         NEW key, NEW entity, NEW affected, Commit(kept, bare, event, key, entity, affected)
  PROVE  FeedStep
<1> DEFINE p == event.project
           seq == lastSeq + bare + 1
           log == [s \in DOMAIN events |-> events[s].project]
<1>1. /\ seq <= MaxSeq /\ lastSeq' = seq
      /\ events' = [s \in DOMAIN kept \cup (lastSeq + 1) .. seq |->
                      IF s = seq THEN event ELSE IF s > lastSeq THEN BareDeletion(p) ELSE kept[s]]
  BY DEF Commit, SeqBase
<1>2. p \in ProjectIds /\ lastSeq \in Nat /\ MaxSeq \in Nat /\ DOMAIN events \subseteq Nat
  BY FieldsOfEvent, StoreAssumption DEF TypeOK, IsTable
<1>3. seq \in 0 .. MaxSeq /\ seq > lastSeq
  BY <1>1, <1>2
<1>4. ASSUME NEW s \in DOMAIN events'
      PROVE  events'[s].project = IF s <= lastSeq THEN log[s] ELSE p
  <2>1. s \in Nat /\ (s \in DOMAIN kept \/ s \in (lastSeq + 1) .. seq)
    BY <1>1, <1>2, <1>3, <1>4 DEF Survive
  <2>2. CASE s = seq
    BY <1>1, <1>2, <1>3, <2>1, <2>2
  <2>3. CASE s # seq /\ s > lastSeq
    <3>1. events'[s] = BareDeletion(p)
      BY <1>1, <2>1, <2>3
    <3> QED
      BY <1>2, <2>1, <2>3, <3>1 DEF BareDeletion, Event
  <2>4. CASE s <= lastSeq
    <3>1. s \in DOMAIN kept /\ events'[s] = kept[s]
      BY <1>1, <1>2, <1>3, <2>1, <2>4
    <3> QED
      BY <2>4, <3>1 DEF Survive
  <2> QED
    BY <1>2, <2>1, <2>2, <2>3, <2>4
<1>5. [s \in DOMAIN events' |-> events'[s].project]
        = [s \in DOMAIN kept \cup (lastSeq + 1) .. seq |-> IF s <= lastSeq THEN log[s] ELSE p]
  BY <1>1, <1>4
<1>6. DOMAIN kept \in SUBSET DOMAIN log
  BY DEF Survive
<1> HIDE DEF seq
<1>7. Feed!AppendEvents(p, seq, DOMAIN kept)
  BY <1>1, <1>3, <1>5 DEF Feed!AppendEvents
<1> QED
  BY <1>2, <1>3, <1>6, <1>7 DEF FeedStep, Feed!Next

\* And what does not write leaves it alone.
LEMMA LogStays ==
  ASSUME UNCHANGED <<events, lastSeq>>
  PROVE  FeedStep
  BY DEF FeedStep, Feed!logVars

\* So does a write of one event.
LEMMA LogAppends ==
  ASSUME TypeOK, NEW event \in EventRows, NEW key, NEW affected, Log(event, key, affected)
  PROVE  FeedStep
  BY CommitAppends DEF Log, Survive

-----------------------------------------------------------------------------
(* The operations.                                                           *)

Steps == GraphStep /\ FeedStep

\* A request that writes no row of nodes, dependencies or events.
LEMMA NothingSteps ==
  ASSUME UNCHANGED <<nodes, deps, events, lastSeq>>
  PROVE  Steps
  BY GraphStays, LogStays DEF Steps

\* A refusal and an answer from the ledger write nothing.
LEMMA AnswerSteps ==
  ASSUME Refuse \/ \E scope, key, changed, entity : Replay(scope, key, changed, entity)
  PROVE  Steps
  BY NothingSteps DEF Refuse, Replay, tables

\* So does an operation on a node that ends early.
LEMMA NotWrittenSteps ==
  ASSUME NEW n, NEW key, NEW refused, NotWritten(n, key, refused)
  PROVE  Steps
  BY AnswerSteps DEF NotWritten

\* The requests on projects, which log nothing.
LEMMA ProjectSteps ==
  ASSUME NEW p, NEW key, NEW mask, NEW archived,
         CreateProject(key) \/ UpdateProject(p, mask) \/ ArchiveProject(p, archived)
  PROVE  Steps
<1>1. CASE CreateProject(key)
  BY <1>1, NothingSteps DEF CreateProject, Replay, tables
<1>2. CASE UpdateProject(p, mask)
  BY <1>2, NothingSteps DEF UpdateProject, Refuse, tables
<1>3. CASE ArchiveProject(p, archived)
  BY <1>3, NothingSteps DEF ArchiveProject, Refuse, tables
<1> QED
  BY <1>1, <1>2, <1>3

\* create_node adds an item.
LEMMA CreateNodeSteps ==
  ASSUME TypeOK, NEW p \in ProjectIds, NEW parent, NEW kind, NEW key,
         CreateNode(p, parent, kind, key)
  PROVE  Steps
<1> DEFINE row == [project |-> p, parent |-> parent, kind |-> KindStr(kind), status |-> "OPEN",
                   updated |-> now]
<1>1. CASE Refuse \/ \E scope, changed, entity : Replay(scope, key, changed, entity)
  BY <1>1, AnswerSteps
<1>2. ASSUME NEW n \in NodeIds \ minted, nodes' = Upsert(nodes, n, row),
             Commit(events, 0, Event(p, n, "NODE_CREATED", NoPayload), key, n, {n}),
             deps' = deps
      PROVE  Steps
  <2>1. GraphStep
    BY <1>2, GraphAdds DEF Upsert
  <2>2. Event(p, n, "NODE_CREATED", NoPayload) \in EventRows
    BY EventTypes
  <2>3. FeedStep
    BY <1>2, <2>2, CommitAppends DEF Survive
  <2> QED
    BY <2>1, <2>3 DEF Steps
<1> QED
  BY <1>1, <1>2 DEF CreateNode

\* The writes that touch one node's row, its verification, or neither.
LEMMA InPlaceSteps ==
  ASSUME TypeOK, NEW event \in EventRows, NEW key, NEW affected, Log(event, key, affected),
         DOMAIN nodes' = DOMAIN nodes, deps' = deps
  PROVE  Steps
  BY GraphStays, LogAppends DEF Steps

\* update_node changes a row in place,
LEMMA UpdateNodeSteps ==
  ASSUME TypeOK, NEW n, NEW mask, NEW key, UpdateNode(n, mask, key)
  PROVE  Steps
<1> DEFINE refused == ~MaskAccepted(nodes[n].kind, mask)
<1>1. CASE NotWritten(n, key, refused)
  BY <1>1, NotWrittenSteps
<1>2. CASE /\ n \in DOMAIN nodes /\ deps' = deps
           /\ nodes' = [nodes EXCEPT ![n] = Touch(nodes[n])]
           /\ Log(Event(nodes[n].project, n, "NODE_UPDATED", NoPayload), key, {n})
  BY <1>2, LiveRow, EventTypes, InPlaceSteps
<1> QED
  BY <1>1, <1>2 DEF UpdateNode, Accepted

\* and so does set_status.
LEMMA SetStatusSteps ==
  ASSUME TypeOK, NEW n, NEW status, NEW key, SetStatus(n, status, key)
  PROVE  Steps
<1>1. CASE NotWritten(n, key, FALSE)
  BY <1>1, NotWrittenSteps
<1>2. CASE /\ n \in DOMAIN nodes /\ deps' = deps
           /\ nodes' = [nodes EXCEPT ![n] = Touch([nodes[n] EXCEPT !.status = DeclaredStr(status)])]
           /\ Log(Event(nodes[n].project, n, "STATUS_SET", [before |-> nodes[n].status]), key,
                  {n} \cup Dependents(deps, {n}))
  BY <1>2, LiveRow, EventTypes, InPlaceSteps
<1> QED
  BY <1>1, <1>2 DEF SetStatus, Accepted

\* Reports, verdicts and comments do not write the graph.
LEMMA ReviewSteps ==
  ASSUME TypeOK, NEW n, NEW key, NEW result, NEW verdict,
         ReportCondition(n, result, key) \/ SetVerdict(n, verdict, key) \/ AddComment(n, key)
  PROVE  Steps
<1>1. CASE \E refused : NotWritten(n, key, refused)
  BY <1>1, NotWrittenSteps
<1>2. CASE /\ n \in DOMAIN nodes /\ UNCHANGED <<nodes, deps>>
           /\ \E kind \in {"AGENT_REPORTED", "VERDICT_SET", "COMMENT"} :
                Log(Event(nodes[n].project, n, kind, NoPayload), key, {n})
  BY <1>2, LiveRow, EventTypes, InPlaceSteps
<1> QED
  BY <1>1, <1>2 DEF ReportCondition, SetVerdict, AddComment, Accepted

\* delete_node drops the node and what is below it.
LEMMA DeleteNodeSteps ==
  ASSUME TypeOK, NEW n, NEW failIfReferenced, NEW key, DeleteNode(n, failIfReferenced, key)
  PROVE  Steps
<1> DEFINE gone == Subtree(nodes, n)
           refused == failIfReferenced /\ \E e \in deps : n \in {e[1], e[2]}
           event == Event(nodes[n].project, NoNode, "NODE_DELETED",
                          [image |-> [id |-> n, row |-> nodes[n]]])
<1>1. CASE NotWritten(n, key, refused)
  BY <1>1, NotWrittenSteps
<1>2. CASE /\ n \in DOMAIN nodes
           /\ nodes' = NodesWithout(nodes, gone)
           /\ deps' = DepsWithout(deps, gone)
           /\ Commit(EventsWithout(events, gone), Cardinality(Descendants(n)), event, key, NoNode,
                     Dependents(deps, gone) \ gone)
  <2>1. GraphStep
    BY <1>2, SubtreeLive, CascadeTables, GraphDrops
  <2>2. event \in EventRows
    BY <1>2, LiveRow, EventTypes DEF Images
  <2>3. Cardinality(Descendants(n)) \in Nat
    BY SubtreeIds, FiniteIds DEF Descendants
  <2>4. FeedStep
    BY <1>2, <2>2, <2>3, CascadeSurvivors, CommitAppends
  <2> QED
    BY <2>1, <2>4 DEF Steps
<1> QED
  BY <1>1, <1>2 DEF DeleteNode, Accepted

\* move_node drops the steps of a task that becomes a step.
LEMMA MoveNodeSteps ==
  ASSUME TypeOK, NEW n, NEW parent, NEW kind, NEW key, MoveNode(n, parent, kind, key)
  PROVE  Steps
<1> DEFINE demoted == IF nodes[n].kind = "TASK" /\ kind = "STEP" THEN Children(nodes, n) ELSE {}
           gone == UNION {Subtree(nodes, c) : c \in demoted}
           rest == NodesWithout(nodes, gone)
           refused == \/ kind \in {"UNSPECIFIED", "WORK_PACKAGE"}
                      \/ nodes[n].kind = "WORK_PACKAGE"
                      \/ ~UpdateAccepted(rest, n, parent, kind)
           event == Event(nodes[n].project, n, "NODE_UPDATED", NoPayload)
<1>1. CASE NotWritten(n, key, refused)
  BY <1>1, NotWrittenSteps
<1>2. CASE /\ n \in DOMAIN nodes
           /\ nodes' = [rest EXCEPT ![n] = Touch([nodes[n] EXCEPT !.parent = parent, !.kind = kind])]
           /\ deps' = DepsWithout(deps, gone)
           /\ Commit(EventsWithout(events, gone), Cardinality(demoted), event, key, NoNode,
                     {n} \cup Dependents(deps, demoted))
  <2>1. gone \subseteq DOMAIN nodes
    BY SubtreeLive
  <2>2. DOMAIN nodes' = DOMAIN nodes \ gone
    BY <1>2, CascadeTables
  <2>3. GraphStep
    BY <1>2, <2>1, <2>2, GraphDrops
  <2>4. event \in EventRows
    BY <1>2, LiveRow, EventTypes
  <2>5. demoted \in SUBSET NodeIds
    BY DEF Children, TypeOK, IsTable
  <2>6. FeedStep
    BY <1>2, <2>4, <2>5, FiniteIds, CascadeSurvivors, CommitAppends
  <2> QED
    BY <2>3, <2>6 DEF Steps
<1> QED
  BY <1>1, <1>2 DEF MoveNode, Accepted

\* add_dependency links, remove_dependency unlinks.
LEMMA AddDependencySteps ==
  ASSUME TypeOK, NEW a \in NodeIds, NEW b \in NodeIds, NEW key, AddDependency(a, b, key)
  PROVE  Steps
<1>1. CASE Refuse \/ Replay(ProjectOf(a), key, {}, NoNode)
  BY <1>1, AnswerSteps
<1>2. CASE /\ EdgeAccepted(nodes, deps, a, b)
           /\ deps' = deps \cup {<<a, b>>} /\ UNCHANGED nodes
           /\ Log(Event(ProjectOf(a), NoNode, "DEP_ADDED", [pair |-> <<a, b>>]), key, {b})
  <2>1. ProjectOf(a) \in ProjectIds
    BY <1>2, LiveRow DEF EdgeAccepted, ProjectOf
  <2>2. Event(ProjectOf(a), NoNode, "DEP_ADDED", [pair |-> <<a, b>>]) \in EventRows
    BY <2>1, EventTypes DEF Pairs
  <2> QED
    BY <1>2, <2>2, GraphLinks, LogAppends DEF Steps
<1> QED
  BY <1>1, <1>2 DEF AddDependency

\* An edge is taken away, there or not.
LEMMA RemoveDependencySteps ==
  ASSUME TypeOK, NEW a \in NodeIds, NEW b \in NodeIds, NEW key, RemoveDependency(a, b, key)
  PROVE  Steps
<1>1. CASE Refuse \/ Replay(ProjectOf(a), key, {}, NoNode)
  BY <1>1, AnswerSteps
<1>2. CASE /\ ProjectOf(a) # NoProject
           /\ deps' = deps \ {<<a, b>>} /\ UNCHANGED nodes
           /\ Log(Event(ProjectOf(a), NoNode, "DEP_REMOVED", [pair |-> <<a, b>>]), key, {b})
  <2>1. ProjectOf(a) \in ProjectIds
    BY <1>2, ProjectOfTypes
  <2>2. Event(ProjectOf(a), NoNode, "DEP_REMOVED", [pair |-> <<a, b>>]) \in EventRows
    BY <2>1, EventTypes DEF Pairs
  <2> QED
    BY <1>2, <2>2, GraphUnlinks, LogAppends DEF Steps
<1> QED
  BY <1>1, <1>2 DEF RemoveDependency

-----------------------------------------------------------------------------
(* Undo does one of the four things as well.                                 *)

\* Undo of a status changes a row in place.
LEMMA UndoStatusSteps ==
  ASSUME TypeOK, NEW event \in EventRows, NEW key, UndoStatus(event, key)
  PROVE  Steps
<1>1. Event(event.project, event.node, "STATUS_SET", NoPayload) \in EventRows
  BY FieldsOfEvent, EventTypes
<1>2. DOMAIN nodes' = DOMAIN nodes /\ deps' = deps
  BY DEF UndoStatus
<1> QED
  BY <1>1, <1>2, InPlaceSteps DEF UndoStatus

\* Undo of a new edge unlinks.
LEMMA UndoDepAddedSteps ==
  ASSUME TypeOK, NEW event \in EventRows, NEW key, UndoDepAdded(event, key)
  PROVE  Steps
<1> DEFINE pair == event.payload.pair
<1>1. /\ event.kind = "DEP_ADDED" /\ event.payload # NoPayload
      /\ deps' = deps \ {pair} /\ UNCHANGED nodes
      /\ Log(Event(event.project, NoNode, "DEP_REMOVED", NoPayload), key, {pair[2]})
  BY DEF UndoDepAdded
<1>2. pair \in Pairs
  BY <1>1, FieldsOfEvent
<1>3. pair[1] \in NodeIds /\ pair[2] \in NodeIds /\ pair = <<pair[1], pair[2]>>
  BY <1>2 DEF Pairs
<1>4. GraphStep
  BY <1>1, <1>3, GraphUnlinks
<1> QED
  BY <1>1, <1>4, InverseTypes, LogAppends DEF Steps

\* Undo of a removed edge links, if the trigger lets it.
LEMMA UndoDepRemovedSteps ==
  ASSUME TypeOK, NEW event \in EventRows, NEW key, UndoDepRemoved(event, key)
  PROVE  Steps
<1> DEFINE pair == event.payload.pair
<1>1. /\ event.kind = "DEP_REMOVED" /\ event.payload # NoPayload
      /\ EdgeAccepted(nodes, deps, pair[1], pair[2])
      /\ deps' = deps \cup {<<pair[1], pair[2]>>} /\ UNCHANGED nodes
      /\ Log(Event(event.project, NoNode, "DEP_ADDED", NoPayload), key, {pair[2]})
  BY DEF UndoDepRemoved
<1>2. pair[1] \in NodeIds /\ pair[2] \in NodeIds
  BY <1>1, FieldsOfEvent DEF Pairs
<1>3. GraphStep
  BY <1>1, <1>2, GraphLinks
<1> QED
  BY <1>1, <1>3, InverseTypes, LogAppends DEF Steps

\* Undo of a creation drops the node and what is below it.
LEMMA UndoCreatedSteps ==
  ASSUME TypeOK, NEW event \in EventRows, NEW key, UndoCreated(event, key)
  PROVE  Steps
<1> DEFINE gone == Subtree(nodes, event.node)
<1>1. /\ nodes' = NodesWithout(nodes, gone) /\ deps' = DepsWithout(deps, gone)
      /\ Commit(EventsWithout(events, gone), 0,
                Event(event.project, NoNode, "NODE_DELETED", NoPayload), key, NoNode, {})
  BY DEF UndoCreated
<1>2. GraphStep
  BY <1>1, SubtreeLive, CascadeTables, GraphDrops
<1>3. FeedStep
  BY <1>1, InverseTypes, CascadeSurvivors, CommitAppends
<1> QED
  BY <1>2, <1>3 DEF Steps

\* Undo of a deletion adds the node, unless it is there or the image has only an id.
LEMMA UndoDeletedSteps ==
  ASSUME TypeOK, NEW event \in EventRows, NEW key, UndoDeleted(event, key)
  PROVE  Steps
<1> DEFINE image == event.payload.image
<1>1. /\ event.kind = "NODE_DELETED" /\ event.payload # NoPayload
      /\ nodes' = Restored(image) /\ deps' = deps
      /\ Log(Event(event.project, NoNode, "NODE_CREATED", NoPayload), key, {})
  BY DEF UndoDeleted
<1>2. image \in Images
  BY <1>1, FieldsOfEvent
<1>3. ASSUME image = NoImage PROVE GraphStep
  BY <1>1, <1>3, GraphStays DEF Restored
<1>4. ASSUME image # NoImage PROVE GraphStep
  <2>1. image.id \in NodeIds
    BY <1>2, <1>4 DEF Images
  <2>2. DOMAIN nodes' = DOMAIN nodes \cup {image.id}
    BY <1>1, <1>4 DEF Restored, InsertOrIgnore, Upsert
  <2> QED
    BY <1>1, <2>1, <2>2, GraphAdds
<1> QED
  BY <1>1, <1>3, <1>4, InverseTypes, LogAppends DEF Steps

\* Whichever event undo is about.
LEMMA UndoSteps ==
  ASSUME TypeOK, NEW p, NEW seq, NEW key, Undo(p, seq, key)
  PROVE  Steps
<1>1. CASE Refuse \/ Replay(p, key, {}, NoNode)
  BY <1>1, AnswerSteps
<1>2. ASSUME NEW t \in DOMAIN events, Revert(events[t], key)
      PROVE  Steps
  <2>1. events[t] \in EventRows
    BY DEF TypeOK, IsTable
  <2> QED
    BY <1>2, <2>1, AnswerSteps, UndoStatusSteps, UndoDepAddedSteps, UndoDepRemovedSteps,
       UndoCreatedSteps, UndoDeletedSteps DEF Revert
<1> QED
  BY <1>1, <1>2 DEF Undo

-----------------------------------------------------------------------------
(* The theorems.                                                             *)

\* Every step of the store is a step or a stutter of both.
LEMMA NextSteps ==
  ASSUME TypeOK, [Next]_vars
  PROVE  Steps
<1>1. CASE UNCHANGED vars \/ Tick
  BY <1>1, NothingSteps DEF vars, Tick, tables
<1>2. ASSUME NEW key, OnProjects(key)
      PROVE  Steps
  BY <1>2, ProjectSteps, CreateNodeSteps, UndoSteps DEF OnProjects
<1>3. ASSUME NEW key, OnNodes(key)
      PROVE  Steps
  BY <1>3, UpdateNodeSteps, DeleteNodeSteps, SetStatusSteps, MoveNodeSteps, ReviewSteps,
     AddDependencySteps, RemoveDependencySteps DEF OnNodes
<1> QED
  BY <1>1, <1>2, <1>3 DEF Next, Request

\* The database starts out as an empty graph and an empty log.
LEMMA InitRefines == Init => Work!Init /\ Feed!Init
  BY StoreAssumption DEF Init, Empty, Work!Init, Work!NoCircle, Feed!Init

\* Every request does to the graph one of the four things that WorkGraph allows, or nothing:
\* in particular the trigger's walk refuses each edge that is not independent, whoever writes
\* it, and a cascade takes with the nodes all their edges.
THEOREM RefinesWorkGraph == Spec => ImplementsWorkGraph
<1>1. TypeOK /\ [Next]_vars => [Work!Next]_(Work!workVars)
  BY NextSteps DEF Steps, GraphStep
<1> QED
  BY <1>1, InitRefines, TypeCorrect, PTL DEF Spec, ImplementsWorkGraph, Work!Spec

\* Every commit numbers its events above all that ever were, whatever the cascades have
\* deleted, and leaves the surviving ones as they were: the log that watchers and pollers
\* read is EventLog's.
THEOREM RefinesEventLog == Spec => ImplementsEventLog
<1>1. TypeOK /\ [Next]_vars => [Feed!Next]_(Feed!logVars)
  BY NextSteps DEF Steps, FeedStep
<1> QED
  BY <1>1, InitRefines, TypeCorrect, PTL DEF Spec, ImplementsEventLog, Feed!Spec

\* No set of nodes waits on itself, in any database that requests can lead to: the store
\* implements the work graph, and that never closes a circle.
THEOREM NobodyWaitsInACircle == Spec => []NoCircularWait
<1>1. Abstract!Spec => []Abstract!GraphInv
  BY Abstract!NeverCircular
<1>2. Work!Init => Abstract!Init
  BY DEF Work!Init, Work!NoCircle, Abstract!Init, Abstract!NoCircle
<1>3. [Work!Next]_(Work!workVars) => [Abstract!Next]_(Abstract!workVars)
  BY DEF Work!Next, Work!Add, Work!Drop, Work!Link, Work!Unlink, Work!Independent, Work!workVars,
         Abstract!Next, Abstract!Add, Abstract!Drop, Abstract!Link, Abstract!Unlink,
         Abstract!Independent, Abstract!workVars
<1>4. Work!Spec => Abstract!Spec
  BY <1>2, <1>3, PTL DEF Work!Spec, Abstract!Spec
<1>5. Abstract!GraphInv => NoCircularWait
  BY DEF Abstract!GraphInv, Abstract!NoCircle, NoCircularWait, Live
<1> QED
  BY <1>1, <1>4, <1>5, RefinesWorkGraph, PTL DEF ImplementsWorkGraph
=============================================================================
