--------------------------- MODULE FlowStore_proofs ---------------------------
(***************************************************************************)
(* What the store promises, for any number of nodes, projects, keys,       *)
(* events and seconds.  First its types; then what it promises of its      *)
(* tables, its ledger, its replies and its verifications; and what callers *)
(* are told of a request that it refuses.                                  *)
(*                                                                         *)
(* For these, one lemma says what any request does (Effect); one lemma per *)
(* request shows it.  The inductive invariant and the theorems follow from *)
(* Effect alone, whatever the request was.                                 *)
(***************************************************************************)
EXTENDS FlowErrors, FlowProperties, TLAPS, FiniteSetTheorems

-----------------------------------------------------------------------------
(* Tables.                                                                   *)

\* The row of an id that is there is a row of the table's type.
LEMMA RowOfTable ==
  ASSUME NEW table, NEW ids, NEW rows, IsTable(table, ids, rows), NEW id \in DOMAIN table
  PROVE  id \in ids /\ table[id] \in rows
  BY DEF IsTable

\* Nothing is in the empty table.
LEMMA EmptyTable ==
  ASSUME NEW ids, NEW rows
  PROVE  IsTable(Empty, ids, rows)
  BY DEF Empty, IsTable

\* Inserting or replacing a row of the type keeps the table's type.
LEMMA UpsertTable ==
  ASSUME NEW table, NEW ids, NEW rows, IsTable(table, ids, rows),
         NEW id \in ids, NEW row \in rows
  PROVE  IsTable(Upsert(table, id, row), ids, rows)
  BY DEF IsTable, Upsert

\* INSERT OR IGNORE keeps the table's type as well.
LEMMA InsertOrIgnoreTable ==
  ASSUME NEW table, NEW ids, NEW rows, IsTable(table, ids, rows),
         NEW id \in ids, NEW row \in rows
  PROVE  IsTable(InsertOrIgnore(table, id, row), ids, rows)
  BY UpsertTable DEF InsertOrIgnore

\* So does an update of one row, whether or not it is there.
LEMMA UpdateTable ==
  ASSUME NEW table, NEW ids, NEW rows, IsTable(table, ids, rows),
         NEW id, NEW row, id \in DOMAIN table => row \in rows
  PROVE  /\ IsTable([table EXCEPT ![id] = row], ids, rows)
         /\ DOMAIN [table EXCEPT ![id] = row] = DOMAIN table
  BY DEF IsTable

\* A cascade only takes rows away.
LEMMA RestrictTable ==
  ASSUME NEW table, NEW ids, NEW rows, IsTable(table, ids, rows),
         NEW S, S \subseteq DOMAIN table
  PROVE  /\ IsTable(Restrict(table, S), ids, rows)
         /\ DOMAIN Restrict(table, S) = S
         /\ \A id \in S : Restrict(table, S)[id] = table[id]
  BY DEF IsTable, Restrict

\* What a cascade leaves of each table is of the table's type.
LEMMA CascadeTables ==
  ASSUME NEW S, TypeOK
  PROVE  /\ IsTable(NodesWithout(nodes, S), NodeIds, NodeRows)
         /\ DOMAIN NodesWithout(nodes, S) = DOMAIN nodes \ S
         /\ \A n \in DOMAIN nodes \ S : NodesWithout(nodes, S)[n] = nodes[n]
         /\ DepsWithout(deps, S) \subseteq Pairs
         /\ IsTable(VerificationsWithout(verifications, S), NodeIds, VerificationRows)
         /\ IsTable(EventsWithout(events, S), Nat, EventRows)
         /\ DOMAIN EventsWithout(events, S) \subseteq DOMAIN events
<1>1. DOMAIN nodes \ S \subseteq DOMAIN nodes /\ DOMAIN verifications \ S \subseteq DOMAIN verifications
  OBVIOUS
<1>2. {s \in DOMAIN events : events[s].node \notin S} \subseteq DOMAIN events
  OBVIOUS
<1>3. IsTable(nodes, NodeIds, NodeRows) /\ IsTable(verifications, NodeIds, VerificationRows)
        /\ IsTable(events, Nat, EventRows) /\ deps \subseteq Pairs
  BY DEF TypeOK
<1>4. DepsWithout(deps, S) \subseteq Pairs
  BY <1>3 DEF DepsWithout
<1>5. /\ IsTable(NodesWithout(nodes, S), NodeIds, NodeRows)
      /\ DOMAIN NodesWithout(nodes, S) = DOMAIN nodes \ S
      /\ \A n \in DOMAIN nodes \ S : NodesWithout(nodes, S)[n] = nodes[n]
  BY <1>1, <1>3, RestrictTable DEF NodesWithout
<1>6. IsTable(VerificationsWithout(verifications, S), NodeIds, VerificationRows)
  BY <1>1, <1>3, RestrictTable DEF VerificationsWithout
<1>7. /\ IsTable(EventsWithout(events, S), Nat, EventRows)
      /\ DOMAIN EventsWithout(events, S) \subseteq DOMAIN events
  BY <1>2, <1>3, RestrictTable DEF EventsWithout
<1> QED
  BY <1>4, <1>5, <1>6, <1>7

-----------------------------------------------------------------------------
(* Rows and events.                                                          *)

\* The touch trigger keeps a row a row.
LEMMA TouchedRow ==
  ASSUME NEW row \in NodeRows, now \in Nat
  PROVE  Touch(row) \in NodeRows
  BY DEF Touch, NodeRows

\* A declared status can be written into a row.
LEMMA RowWithStatus ==
  ASSUME NEW row \in NodeRows, NEW status \in Statuses
  PROVE  [row EXCEPT !.status = status] \in NodeRows
  BY DEF NodeRows

\* A parent and a kind can be written into a row.
LEMMA RowUnder ==
  ASSUME NEW row \in NodeRows, NEW parent \in NodeIds \cup {NoNode}, NEW kind \in Kinds
  PROVE  [row EXCEPT !.parent = parent, !.kind = kind] \in NodeRows
  BY DEF NodeRows

\* The columns of a node's row.
LEMMA FieldsOfRow ==
  ASSUME NEW row \in NodeRows
  PROVE  /\ row.project \in ProjectIds /\ row.parent \in NodeIds \cup {NoNode}
         /\ row.kind \in Kinds /\ row.status \in Statuses /\ row.updated \in Nat
  BY DEF NodeRows

\* Every event an operation logs is of the type its kind asks for.
LEMMA EventTypes ==
  ASSUME NEW p \in ProjectIds, NEW n \in NodeIds \cup {NoNode}
  PROVE  /\ \A kind \in {"STATUS_SET", "DEP_ADDED", "DEP_REMOVED", "NODE_DELETED", "NODE_CREATED",
                         "NODE_UPDATED", "AGENT_REPORTED", "VERDICT_SET", "COMMENT"} :
              Event(p, n, kind, NoPayload) \in EventRows
         /\ \A before \in Statuses : Event(p, n, "STATUS_SET", [before |-> before]) \in EventRows
         /\ \A kind \in {"DEP_ADDED", "DEP_REMOVED"}, pair \in Pairs :
              Event(p, n, kind, [pair |-> pair]) \in EventRows
         /\ \A image \in Images : Event(p, n, "NODE_DELETED", [image |-> image]) \in EventRows
  BY DEF Event, EventRows, EventsOf

\* The columns of an event, and what undo finds in the payload of each kind.
LEMMA FieldsOfEvent ==
  ASSUME NEW event \in EventRows
  PROVE  /\ event.project \in ProjectIds /\ event.node \in NodeIds \cup {NoNode}
         /\ event.kind = "STATUS_SET" /\ event.payload # NoPayload =>
              event.payload.before \in Statuses
         /\ event.kind \in {"DEP_ADDED", "DEP_REMOVED"} /\ event.payload # NoPayload =>
              event.payload.pair \in Pairs
         /\ event.kind = "NODE_DELETED" /\ event.payload # NoPayload =>
              event.payload.image \in Images
  BY DEF EventRows, EventsOf

\* Sets of node ids can be counted.
LEMMA FiniteIds ==
  ASSUME NEW S \in SUBSET NodeIds
  PROVE  Cardinality(S) \in Nat
  BY SchemaAssumption, FS_Subset, FS_CardinalityType

\* What a cascade deletes are nodes.
LEMMA SubtreeIds ==
  ASSUME NEW n
  PROVE  Subtree(nodes, n) \subseteq NodeIds
  BY DEF Subtree, Reach

\* A cascade takes nodes that are there: they are a set closed under the parent edges.
LEMMA SubtreeLive ==
  ASSUME TypeOK, NEW n
  PROVE  Subtree(nodes, n) \subseteq DOMAIN nodes
<1>1. CASE n \notin DOMAIN nodes
  BY <1>1 DEF Subtree
<1>2. CASE n \in DOMAIN nodes
  <2>1. DOMAIN nodes \subseteq NodeIds
    BY DEF TypeOK, IsTable
  <2>2. ClosedUnder(ParentEdges(nodes), DOMAIN nodes)
    BY DEF ClosedUnder, ParentEdges
  <2> QED
    BY <1>2, <2>1, <2>2 DEF Subtree, Reach
<1> QED
  BY <1>1, <1>2

-----------------------------------------------------------------------------
(* The common end of every write.                                            *)

KeysOrNone == Keys \cup {NoKey}

\* A commit keeps the types of the log, the counter, the ledger and the reply.
LEMMA CommitTypes ==
  ASSUME TypeOK,
         NEW kept, IsTable(kept, Nat, EventRows),
         NEW bare \in Nat, NEW event \in EventRows, NEW key \in KeysOrNone,
         NEW entity \in Entities, NEW affected,
         DOMAIN nodes' \subseteq NodeIds,
         Commit(kept, bare, event, key, entity, affected)
  PROVE  /\ IsTable(events', Nat, EventRows)
         /\ lastSeq' \in Nat
         /\ IsTable(idem', Scopes \X Keys, IdemRows)
         /\ reply' \in Replies
<1> DEFINE base == SeqBase(kept)
           seq == base + bare + 1
<1>1. base \in Nat /\ seq \in Nat
  BY DEF SeqBase, TypeOK
<1>2. /\ lastSeq' = seq
      /\ events' = [s \in DOMAIN kept \cup (base + 1) .. seq |->
                      IF s = seq THEN event
                      ELSE IF s > base THEN BareDeletion(event.project) ELSE kept[s]]
      /\ idem' = Recorded(event.project, key, seq, entity)
      /\ reply' = [ok |-> TRUE, scope |-> event.project, key |-> key, seq |-> seq,
                   changed |-> affected \cap DOMAIN nodes', entity |-> entity]
  BY DEF Commit
<1> HIDE DEF base, seq
<1>3. event.project \in ProjectIds
  BY FieldsOfEvent
<1>4. BareDeletion(event.project) \in EventRows
  <2>1. NoNode \in NodeIds \cup {NoNode} /\ NoImage \in Images
    BY DEF Images
  <2> QED
    BY <1>3, <2>1, EventTypes DEF BareDeletion
<1>5. IsTable(events', Nat, EventRows)
  <2>1. DOMAIN events' = DOMAIN kept \cup (base + 1) .. seq
    BY <1>2
  <2>2. DOMAIN events' \subseteq Nat
    BY <2>1, <1>1 DEF IsTable
  <2>3. ASSUME NEW s \in DOMAIN events'
        PROVE  events'[s] \in EventRows
    <3>1. CASE s = seq
      BY <3>1, <1>2
    <3>2. CASE s # seq /\ s > base
      BY <3>2, <1>2, <1>4
    <3>3. CASE s # seq /\ ~(s > base)
      <4>1. s \in DOMAIN kept
        BY <3>3, <2>1, <2>2, <1>1
      <4> QED
        BY <3>3, <4>1, <1>2 DEF IsTable
    <3> QED
      BY <3>1, <3>2, <3>3
  <2> QED
    BY <2>2, <2>3, <1>2 DEF IsTable
<1>6. IsTable(idem', Scopes \X Keys, IdemRows)
  <2>1. IsTable(idem, Scopes \X Keys, IdemRows)
    BY DEF TypeOK
  <2>2. CASE key = NoKey
    BY <2>1, <2>2, <1>2 DEF Recorded
  <2>3. CASE key # NoKey
    <3>1. <<event.project, key>> \in Scopes \X Keys
      BY <2>3, <1>3 DEF Scopes, KeysOrNone
    <3>2. [seq |-> seq, entity |-> entity] \in IdemRows
      BY <1>1 DEF IdemRows
    <3> QED
      BY <2>1, <2>3, <3>1, <3>2, <1>2, InsertOrIgnoreTable DEF Recorded
  <2> QED
    BY <2>2, <2>3
<1>7. reply' \in Replies
  <2>1. affected \cap DOMAIN nodes' \in SUBSET NodeIds
    OBVIOUS
  <2> QED
    BY <1>1, <1>2, <1>3, <2>1 DEF Replies, Scopes, KeysOrNone
<1> QED
  BY <1>1, <1>2, <1>5, <1>6, <1>7

\* A request that writes nothing keeps every type.
LEMMA RefuseTypes ==
  ASSUME TypeOK, Refuse, UNCHANGED now
  PROVE  TypeOK'
<1>1. Error \in Replies
  BY DEF Error, Replies, Scopes, Entities
<1> QED
  BY <1>1 DEF TypeOK, Refuse, tables

\* An answer from the ledger keeps every type.
LEMMA ReplayTypes ==
  ASSUME TypeOK, NEW scope \in Scopes, NEW key \in KeysOrNone, NEW changed \in SUBSET NodeIds,
         NEW entity \in Entities, Replay(scope, key, changed, entity), UNCHANGED now
  PROVE  TypeOK'
<1>1. idem[<<scope, key>>] \in IdemRows
  BY DEF Replay, Hit, TypeOK, IsTable
<1>2. reply' \in Replies
  BY <1>1 DEF Replay, Replies, IdemRows, KeysOrNone
<1> QED
  BY <1>2 DEF TypeOK, Replay, tables

\* A write keeps every type when what it does to the tables does.
LEMMA WriteTypes ==
  ASSUME TypeOK, UNCHANGED <<projects, now>>,
         IsTable(nodes', NodeIds, NodeRows), deps' \subseteq Pairs,
         IsTable(verifications', NodeIds, VerificationRows), minted' \subseteq NodeIds,
         NEW kept, IsTable(kept, Nat, EventRows),
         NEW bare \in Nat, NEW event \in EventRows, NEW key \in KeysOrNone,
         NEW entity \in Entities, NEW affected,
         Commit(kept, bare, event, key, entity, affected)
  PROVE  TypeOK'
<1>1. DOMAIN nodes' \subseteq NodeIds
  BY DEF IsTable
<1>2. /\ IsTable(events', Nat, EventRows) /\ lastSeq' \in Nat
      /\ IsTable(idem', Scopes \X Keys, IdemRows) /\ reply' \in Replies
  BY <1>1, CommitTypes
<1> QED
  BY <1>2 DEF TypeOK

\* The same where only one event is logged and none goes.
LEMMA LogTypes ==
  ASSUME TypeOK, UNCHANGED <<projects, now, minted>>,
         IsTable(nodes', NodeIds, NodeRows), deps' \subseteq Pairs,
         IsTable(verifications', NodeIds, VerificationRows),
         NEW event \in EventRows, NEW key \in KeysOrNone, NEW affected,
         Log(event, key, affected)
  PROVE  TypeOK'
<1>1. IsTable(events, Nat, EventRows) /\ minted' \subseteq NodeIds
  BY DEF TypeOK
<1>2. NoNode \in Entities /\ 0 \in Nat
  BY DEF Entities
<1>3. Commit(events, 0, event, key, NoNode, affected)
  BY DEF Log
<1> QED
  BY <1>1, <1>2, <1>3, WriteTypes

\* An operation on a node that ends early keeps every type.
LEMMA NotWrittenTypes ==
  ASSUME TypeOK, NEW n \in NodeIds, NEW key \in KeysOrNone, NEW refused,
         NotWritten(n, key, refused), UNCHANGED now
  PROVE  TypeOK'
<1>1. CASE Refuse
  BY <1>1, RefuseTypes
<1>2. CASE n \in DOMAIN nodes /\ Replay(nodes[n].project, key, {}, NoNode)
  <2>1. nodes[n].project \in Scopes
    BY <1>2, FieldsOfRow DEF TypeOK, IsTable, Scopes
  <2>2. NoNode \in Entities /\ {} \in SUBSET NodeIds
    BY DEF Entities
  <2> QED
    BY <1>2, <2>1, <2>2, ReplayTypes
<1> QED
  BY <1>1, <1>2 DEF NotWritten

\* The row of a node that is there.
LEMMA LiveRow ==
  ASSUME TypeOK, NEW n \in DOMAIN nodes
  PROVE  /\ n \in NodeIds /\ nodes[n] \in NodeRows
         /\ nodes[n].project \in ProjectIds /\ nodes[n].status \in Statuses
         /\ nodes[n].updated \in Nat
  BY FieldsOfRow DEF TypeOK, IsTable

-----------------------------------------------------------------------------
(* One lemma per operation.                                                  *)

\* create_project keeps every type.
LEMMA CreateProjectTypes ==
  ASSUME TypeOK, NEW key \in KeysOrNone, CreateProject(key), UNCHANGED now
  PROVE  TypeOK'
<1>1. CASE /\ Hit(NoProject, key)
           /\ Replay(NoProject, key, {}, idem[<<NoProject, key>>].entity)
  <2>1. idem[<<NoProject, key>>].entity \in Entities
    BY <1>1 DEF TypeOK, IsTable, Hit, IdemRows
  <2>2. NoProject \in Scopes /\ {} \in SUBSET NodeIds
    BY DEF Scopes
  <2> QED
    BY <1>1, <2>1, <2>2, ReplayTypes
<1>2. ASSUME NEW p \in ProjectIds,
             projects' = Upsert(projects, p, FALSE),
             idem' = Recorded(NoProject, key, 0, p),
             reply' = [Error EXCEPT !.ok = TRUE, !.key = key, !.entity = p],
             UNCHANGED <<nodes, deps, verifications, events, lastSeq, minted>>
      PROVE  TypeOK'
  <2>1. IsTable(projects', ProjectIds, BOOLEAN)
    BY <1>2, UpsertTable DEF TypeOK
  <2>2. IsTable(idem', Scopes \X Keys, IdemRows)
    <3>1. CASE key = NoKey
      BY <1>2, <3>1 DEF Recorded, TypeOK
    <3>2. CASE key # NoKey
      <4>1. <<NoProject, key>> \in Scopes \X Keys
        BY <3>2 DEF Scopes, KeysOrNone
      <4>2. [seq |-> 0, entity |-> p] \in IdemRows
        BY DEF IdemRows, Entities
      <4>3. IsTable(idem, Scopes \X Keys, IdemRows)
        BY DEF TypeOK
      <4> QED
        BY <1>2, <3>2, <4>1, <4>2, <4>3, InsertOrIgnoreTable DEF Recorded
    <3> QED
      BY <3>1, <3>2
  <2>3. reply' \in Replies
    BY <1>2 DEF Error, Replies, Scopes, Entities, KeysOrNone
  <2> QED
    BY <1>2, <2>1, <2>2, <2>3 DEF TypeOK
<1> QED
  BY <1>1, <1>2 DEF CreateProject

\* The answer that names a project is a reply.
LEMMA ProjectReply ==
  ASSUME NEW p \in ProjectIds
  PROVE  [Error EXCEPT !.ok = TRUE, !.entity = p] \in Replies
  BY DEF Error, Replies, Scopes, Entities

\* update_project keeps every type.
LEMMA UpdateProjectTypes ==
  ASSUME TypeOK, NEW p \in ProjectIds, NEW mask, UpdateProject(p, mask), UNCHANGED now
  PROVE  TypeOK'
<1>1. CASE Refuse
  BY <1>1, RefuseTypes
<1>2. CASE reply' = [Error EXCEPT !.ok = TRUE, !.entity = p] /\ UNCHANGED tables
  BY <1>2, ProjectReply DEF TypeOK, tables
<1> QED
  BY <1>1, <1>2 DEF UpdateProject

\* archive_project keeps every type.
LEMMA ArchiveProjectTypes ==
  ASSUME TypeOK, NEW p \in ProjectIds, NEW archived \in BOOLEAN, ArchiveProject(p, archived),
         UNCHANGED now
  PROVE  TypeOK'
<1>1. CASE Refuse
  BY <1>1, RefuseTypes
<1>2. CASE /\ projects' = [projects EXCEPT ![p] = archived]
           /\ reply' = [Error EXCEPT !.ok = TRUE, !.entity = p]
           /\ UNCHANGED <<nodes, deps, verifications, events, lastSeq, idem, minted>>
  <2>1. IsTable(projects, ProjectIds, BOOLEAN)
    BY DEF TypeOK
  <2>2. IsTable(projects', ProjectIds, BOOLEAN)
    BY <1>2, <2>1, UpdateTable
  <2> QED
    BY <1>2, <2>2, ProjectReply DEF TypeOK
<1> QED
  BY <1>1, <1>2 DEF ArchiveProject

\* create_node keeps every type.
LEMMA CreateNodeTypes ==
  ASSUME TypeOK, NEW p \in ProjectIds, NEW parent \in Parents,
         NEW kind \in Kinds \cup {"UNSPECIFIED"}, NEW key \in KeysOrNone,
         CreateNode(p, parent, kind, key), UNCHANGED now
  PROVE  TypeOK'
<1> DEFINE row == [project |-> p, parent |-> parent, kind |-> KindStr(kind), status |-> "OPEN",
                   updated |-> now]
           created == idem[<<p, key>>].entity
<1>1. row \in NodeRows
  BY DEF TypeOK, NodeRows, KindStr, Kinds, Statuses, Parents
<1>2. p \in Scopes /\ {} \in SUBSET NodeIds /\ NoNode \in Entities
  BY DEF Scopes, Entities
<1>3. CASE Replay(p, key, {created}, created) /\ created \in DOMAIN nodes
  <2>1. created \in NodeIds
    BY <1>3 DEF TypeOK, IsTable
  <2>2. {created} \in SUBSET NodeIds /\ created \in Entities
    BY <2>1 DEF Entities
  <2> QED
    BY <1>2, <1>3, <2>2, ReplayTypes
<1>4. CASE Replay(p, key, {}, NoNode)
  BY <1>2, <1>4, ReplayTypes
<1>5. ASSUME NEW n \in NodeIds \ minted,
             minted' = minted \cup {n},
             nodes' = Upsert(nodes, n, row),
             Commit(events, 0, Event(p, n, "NODE_CREATED", NoPayload), key, n, {n}),
             UNCHANGED <<projects, deps, verifications>>
      PROVE  TypeOK'
  <2>1. IsTable(nodes', NodeIds, NodeRows)
    BY <1>1, <1>5, UpsertTable DEF TypeOK
  <2>2. Event(p, n, "NODE_CREATED", NoPayload) \in EventRows
    BY EventTypes
  <2>3. n \in Entities /\ minted' \subseteq NodeIds /\ 0 \in Nat
    BY <1>5 DEF Entities, TypeOK
  <2>4. /\ deps' \subseteq Pairs /\ IsTable(verifications', NodeIds, VerificationRows)
        /\ IsTable(events, Nat, EventRows)
    BY <1>5 DEF TypeOK
  <2> QED
    BY <1>5, <2>1, <2>2, <2>3, <2>4, WriteTypes
<1>6. CASE Refuse
  BY <1>6, RefuseTypes
<1> QED
  BY <1>3, <1>4, <1>5, <1>6 DEF CreateNode

\* A write that leaves every table but that of the nodes as it is.
LEMMA NodeWriteTypes ==
  ASSUME TypeOK, NEW event \in EventRows, NEW key \in KeysOrNone, NEW affected,
         IsTable(nodes', NodeIds, NodeRows), Log(event, key, affected),
         UNCHANGED <<projects, deps, verifications, minted, now>>
  PROVE  TypeOK'
<1>1. deps' \subseteq Pairs /\ IsTable(verifications', NodeIds, VerificationRows)
  BY DEF TypeOK
<1> QED
  BY <1>1, LogTypes

\* update_node keeps every type.
LEMMA UpdateNodeTypes ==
  ASSUME TypeOK, NEW n \in NodeIds, NEW mask, NEW key \in KeysOrNone, UpdateNode(n, mask, key),
         UNCHANGED now
  PROVE  TypeOK'
<1> DEFINE refused == ~MaskAccepted(nodes[n].kind, mask)
<1>1. CASE NotWritten(n, key, refused)
  BY <1>1, NotWrittenTypes
<1>2. CASE /\ n \in DOMAIN nodes
           /\ nodes' = [nodes EXCEPT ![n] = Touch(nodes[n])]
           /\ Log(Event(nodes[n].project, n, "NODE_UPDATED", NoPayload), key, {n})
           /\ UNCHANGED <<projects, deps, verifications, minted>>
  <2>1. IsTable(nodes', NodeIds, NodeRows)
    BY <1>2, LiveRow, TouchedRow, UpdateTable DEF TypeOK
  <2>2. Event(nodes[n].project, n, "NODE_UPDATED", NoPayload) \in EventRows
    BY <1>2, LiveRow, EventTypes
  <2> QED
    BY <1>2, <2>1, <2>2, NodeWriteTypes
<1> QED
  BY <1>1, <1>2 DEF UpdateNode, Accepted

\* set_status keeps every type: declared_str maps to a declared status.
LEMMA SetStatusTypes ==
  ASSUME TypeOK, NEW n \in NodeIds, NEW status \in Statuses \cup {"UNSPECIFIED"},
         NEW key \in KeysOrNone, SetStatus(n, status, key), UNCHANGED now
  PROVE  TypeOK'
<1> DEFINE row == Touch([nodes[n] EXCEPT !.status = DeclaredStr(status)])
<1>1. CASE NotWritten(n, key, FALSE)
  BY <1>1, NotWrittenTypes
<1>2. CASE /\ n \in DOMAIN nodes
           /\ nodes' = [nodes EXCEPT ![n] = row]
           /\ Log(Event(nodes[n].project, n, "STATUS_SET", [before |-> nodes[n].status]), key,
                  {n} \cup Dependents(deps, {n}))
           /\ UNCHANGED <<projects, deps, verifications, minted>>
  <2>1. DeclaredStr(status) \in Statuses
    BY DEF DeclaredStr, Statuses
  <2>2. row \in NodeRows
    BY <1>2, <2>1, LiveRow, RowWithStatus, TouchedRow DEF TypeOK
  <2>3. IsTable(nodes', NodeIds, NodeRows)
    BY <1>2, <2>2, UpdateTable DEF TypeOK
  <2>4. Event(nodes[n].project, n, "STATUS_SET", [before |-> nodes[n].status]) \in EventRows
    BY <1>2, LiveRow, EventTypes
  <2> QED
    BY <1>2, <2>3, <2>4, NodeWriteTypes
<1> QED
  BY <1>1, <1>2 DEF SetStatus, Accepted

\* delete_node keeps every type: the image it logs is a row.
LEMMA DeleteNodeTypes ==
  ASSUME TypeOK, NEW n \in NodeIds, NEW failIfReferenced, NEW key \in KeysOrNone,
         DeleteNode(n, failIfReferenced, key), UNCHANGED now
  PROVE  TypeOK'
<1> DEFINE gone == Subtree(nodes, n)
           refused == failIfReferenced /\ \E e \in deps : n \in {e[1], e[2]}
           event == Event(nodes[n].project, NoNode, "NODE_DELETED",
                          [image |-> [id |-> n, row |-> nodes[n]]])
<1>1. CASE NotWritten(n, key, refused)
  BY <1>1, NotWrittenTypes
<1>2. CASE /\ n \in DOMAIN nodes
           /\ nodes' = NodesWithout(nodes, gone)
           /\ deps' = DepsWithout(deps, gone)
           /\ verifications' = VerificationsWithout(verifications, gone)
           /\ Commit(EventsWithout(events, gone), Cardinality(Descendants(n)), event, key, NoNode,
                     Dependents(deps, gone) \ gone)
           /\ UNCHANGED <<projects, minted>>
  <2>1. /\ IsTable(nodes', NodeIds, NodeRows) /\ deps' \subseteq Pairs
        /\ IsTable(verifications', NodeIds, VerificationRows)
        /\ IsTable(EventsWithout(events, gone), Nat, EventRows)
    BY <1>2, CascadeTables
  <2>2. Cardinality(Descendants(n)) \in Nat
    BY SubtreeIds, FiniteIds DEF Descendants
  <2>3. event \in EventRows
    <3>1. [id |-> n, row |-> nodes[n]] \in Images
      BY <1>2, LiveRow DEF Images
    <3> QED
      BY <1>2, <3>1, LiveRow, EventTypes
  <2>4. minted' \subseteq NodeIds /\ NoNode \in Entities
    BY <1>2 DEF TypeOK, Entities
  <2> QED
    BY <1>2, <2>1, <2>2, <2>3, <2>4, WriteTypes
<1> QED
  BY <1>1, <1>2 DEF DeleteNode, Accepted

\* move_node keeps every type: a kind that gets past the guards is one of the three.
LEMMA MoveNodeTypes ==
  ASSUME TypeOK, NEW n \in NodeIds, NEW parent \in Parents,
         NEW kind \in Kinds \cup {"UNSPECIFIED"}, NEW key \in KeysOrNone,
         MoveNode(n, parent, kind, key), UNCHANGED now
  PROVE  TypeOK'
<1> DEFINE demoted == IF nodes[n].kind = "TASK" /\ kind = "STEP" THEN Children(nodes, n) ELSE {}
           gone == UNION {Subtree(nodes, c) : c \in demoted}
           rest == NodesWithout(nodes, gone)
           refused == \/ kind \in {"UNSPECIFIED", "WORK_PACKAGE"}
                      \/ nodes[n].kind = "WORK_PACKAGE"
                      \/ ~UpdateAccepted(rest, n, parent, kind)
           row == Touch([nodes[n] EXCEPT !.parent = parent, !.kind = kind])
           event == Event(nodes[n].project, n, "NODE_UPDATED", NoPayload)
<1>1. CASE NotWritten(n, key, refused)
  BY <1>1, NotWrittenTypes
<1>2. CASE /\ n \in DOMAIN nodes /\ ~refused
           /\ nodes' = [rest EXCEPT ![n] = row]
           /\ deps' = DepsWithout(deps, gone)
           /\ verifications' = VerificationsWithout(verifications,
                                 IF nodes[n].kind = kind THEN gone ELSE gone \cup {n})
           /\ Commit(EventsWithout(events, gone), Cardinality(demoted), event, key, NoNode,
                     {n} \cup Dependents(deps, demoted))
           /\ UNCHANGED <<projects, minted>>
  <2>1. row \in NodeRows
    <3>1. kind \in Kinds
      BY <1>2
    <3> QED
      BY <1>2, <3>1, LiveRow, RowUnder, TouchedRow DEF TypeOK, Parents
  <2>2. IsTable(nodes', NodeIds, NodeRows)
    <3>1. IsTable(rest, NodeIds, NodeRows)
      BY CascadeTables
    <3> QED
      BY <1>2, <2>1, <3>1, UpdateTable
  <2>3. /\ deps' \subseteq Pairs
        /\ IsTable(verifications', NodeIds, VerificationRows)
        /\ IsTable(EventsWithout(events, gone), Nat, EventRows)
    BY <1>2, CascadeTables
  <2>4. Cardinality(demoted) \in Nat
    <3>1. demoted \subseteq NodeIds
      BY DEF Children, TypeOK, IsTable
    <3> QED
      BY <3>1, FiniteIds
  <2>5. event \in EventRows
    BY <1>2, LiveRow, EventTypes
  <2>6. minted' \subseteq NodeIds /\ NoNode \in Entities
    BY <1>2 DEF TypeOK, Entities
  <2> QED
    BY <1>2, <2>2, <2>3, <2>4, <2>5, <2>6, WriteTypes
<1> QED
  BY <1>1, <1>2 DEF MoveNode, Accepted

\* A write that leaves every table but those of the edges and verifications as it is.
LEMMA RowlessWriteTypes ==
  ASSUME TypeOK, NEW event \in EventRows, NEW key \in KeysOrNone, NEW affected,
         deps' \subseteq Pairs, IsTable(verifications', NodeIds, VerificationRows),
         Log(event, key, affected), UNCHANGED <<projects, nodes, minted, now>>
  PROVE  TypeOK'
<1>1. IsTable(nodes', NodeIds, NodeRows)
  BY DEF TypeOK
<1> QED
  BY <1>1, LogTypes

\* A verification stays one when either half of it is written.
LEMMA VerificationTypes ==
  ASSUME TypeOK, NEW n \in NodeIds
  PROVE  /\ VerificationOf(n) \in VerificationRows
         /\ \A result \in AgentResults, rev \in Nat :
              [VerificationOf(n) EXCEPT !.result = result, !.rev = rev] \in VerificationRows
         /\ \A verdict \in Verdicts \cup {"NULL"} :
              [VerificationOf(n) EXCEPT !.verdict = verdict] \in VerificationRows
<1>1. VerificationOf(n) \in VerificationRows
  BY DEF VerificationOf, NoVerification, VerificationRows, TypeOK, IsTable
<1> QED
  BY <1>1 DEF VerificationRows

\* report_condition keeps every type.
LEMMA ReportConditionTypes ==
  ASSUME TypeOK, NEW n \in NodeIds, NEW result \in AgentResults \cup {"UNSPECIFIED"},
         NEW key \in KeysOrNone, ReportCondition(n, result, key), UNCHANGED now
  PROVE  TypeOK'
<1> DEFINE refused == result = "UNSPECIFIED"
<1>1. CASE NotWritten(n, key, refused)
  BY <1>1, NotWrittenTypes
<1>2. CASE /\ n \in DOMAIN nodes /\ ~refused
           /\ verifications' = Upsert(verifications, n,
                [VerificationOf(n) EXCEPT !.result = result, !.rev = nodes[n].updated])
           /\ UNCHANGED <<projects, nodes, deps, minted>>
           /\ Log(Event(nodes[n].project, n, "AGENT_REPORTED", NoPayload), key, {n})
  <2>1. result \in AgentResults
    BY <1>2
  <2>2. nodes[n].updated \in Nat
    BY <1>2, LiveRow
  <2>3. IsTable(verifications', NodeIds, VerificationRows)
    BY <1>2, <2>1, <2>2, VerificationTypes, UpsertTable DEF TypeOK
  <2>4. Event(nodes[n].project, n, "AGENT_REPORTED", NoPayload) \in EventRows
    BY <1>2, LiveRow, EventTypes
  <2>5. deps' \subseteq Pairs
    BY <1>2 DEF TypeOK
  <2> QED
    BY <1>2, <2>3, <2>4, <2>5, RowlessWriteTypes
<1> QED
  BY <1>1, <1>2 DEF ReportCondition, Accepted

\* set_verdict keeps every type.
LEMMA SetVerdictTypes ==
  ASSUME TypeOK, NEW n \in NodeIds, NEW verdict \in Verdicts \cup {"UNSPECIFIED"},
         NEW key \in KeysOrNone, SetVerdict(n, verdict, key), UNCHANGED now
  PROVE  TypeOK'
<1>1. CASE NotWritten(n, key, FALSE)
  BY <1>1, NotWrittenTypes
<1>2. CASE /\ n \in DOMAIN nodes
           /\ verifications' =
                IF verdict # "UNSPECIFIED"
                  THEN Upsert(verifications, n, [VerificationOf(n) EXCEPT !.verdict = verdict])
                ELSE IF n \in DOMAIN verifications
                  THEN [verifications EXCEPT ![n].verdict = "NULL"]
                ELSE verifications
           /\ UNCHANGED <<projects, nodes, deps, minted>>
           /\ Log(Event(nodes[n].project, n, "VERDICT_SET", NoPayload), key, {n})
  <2>1. IsTable(verifications, NodeIds, VerificationRows)
    BY DEF TypeOK
  <2>2. IsTable(verifications', NodeIds, VerificationRows)
    <3>1. CASE verdict # "UNSPECIFIED"
      <4>1. verdict \in Verdicts \cup {"NULL"}
        BY <3>1
      <4> QED
        BY <1>2, <2>1, <3>1, <4>1, VerificationTypes, UpsertTable
    <3>2. CASE verdict = "UNSPECIFIED" /\ n \in DOMAIN verifications
      <4>1. [verifications[n] EXCEPT !.verdict = "NULL"] \in VerificationRows
        <5>1. VerificationOf(n) = verifications[n]
          BY <3>2 DEF VerificationOf
        <5> QED
          BY <5>1, VerificationTypes
      <4>2. verifications' = [verifications EXCEPT ![n] = [verifications[n] EXCEPT !.verdict = "NULL"]]
        BY <1>2, <3>2
      <4> QED
        BY <2>1, <4>1, <4>2, UpdateTable
    <3>3. CASE verdict = "UNSPECIFIED" /\ n \notin DOMAIN verifications
      BY <1>2, <2>1, <3>3
    <3> QED
      BY <3>1, <3>2, <3>3
  <2>3. Event(nodes[n].project, n, "VERDICT_SET", NoPayload) \in EventRows
    BY <1>2, LiveRow, EventTypes
  <2>4. deps' \subseteq Pairs
    BY <1>2 DEF TypeOK
  <2> QED
    BY <1>2, <2>2, <2>3, <2>4, RowlessWriteTypes
<1> QED
  BY <1>1, <1>2 DEF SetVerdict, Accepted

\* add_comment keeps every type.
LEMMA AddCommentTypes ==
  ASSUME TypeOK, NEW n \in NodeIds, NEW key \in KeysOrNone, AddComment(n, key), UNCHANGED now
  PROVE  TypeOK'
<1>1. CASE NotWritten(n, key, FALSE)
  BY <1>1, NotWrittenTypes
<1>2. CASE /\ n \in DOMAIN nodes
           /\ UNCHANGED <<projects, nodes, deps, verifications, minted>>
           /\ Log(Event(nodes[n].project, n, "COMMENT", NoPayload), key, {n})
  <2>1. Event(nodes[n].project, n, "COMMENT", NoPayload) \in EventRows
    BY <1>2, LiveRow, EventTypes
  <2>2. deps' \subseteq Pairs /\ IsTable(verifications', NodeIds, VerificationRows)
    BY <1>2 DEF TypeOK
  <2> QED
    BY <1>2, <2>1, <2>2, RowlessWriteTypes
<1> QED
  BY <1>1, <1>2 DEF AddComment, Accepted

\* The project of a node is one that exists, or the empty id.
LEMMA ProjectOfTypes ==
  ASSUME TypeOK, NEW n
  PROVE  /\ ProjectOf(n) \in Scopes
         /\ ProjectOf(n) # NoProject => ProjectOf(n) \in ProjectIds
  BY LiveRow DEF ProjectOf, Scopes

\* add_dependency keeps every type: an accepted edge has a blocker with a project.
LEMMA AddDependencyTypes ==
  ASSUME TypeOK, NEW blocker \in NodeIds, NEW blocked \in NodeIds, NEW key \in KeysOrNone,
         AddDependency(blocker, blocked, key), UNCHANGED now
  PROVE  TypeOK'
<1> DEFINE p == ProjectOf(blocker)
<1>1. CASE Replay(p, key, {}, NoNode)
  BY <1>1, ProjectOfTypes, ReplayTypes DEF Entities
<1>2. CASE /\ EdgeAccepted(nodes, deps, blocker, blocked)
           /\ deps' = deps \cup {<<blocker, blocked>>}
           /\ UNCHANGED <<projects, nodes, verifications, minted>>
           /\ Log(Event(p, NoNode, "DEP_ADDED", [pair |-> <<blocker, blocked>>]), key, {blocked})
  <2>1. p \in ProjectIds
    BY <1>2, LiveRow DEF EdgeAccepted, ProjectOf
  <2>2. <<blocker, blocked>> \in Pairs
    BY DEF Pairs
  <2>3. Event(p, NoNode, "DEP_ADDED", [pair |-> <<blocker, blocked>>]) \in EventRows
    BY <2>1, <2>2, EventTypes
  <2>4. deps' \subseteq Pairs /\ IsTable(verifications', NodeIds, VerificationRows)
    BY <1>2, <2>2 DEF TypeOK
  <2> QED
    BY <1>2, <2>3, <2>4, RowlessWriteTypes
<1>3. CASE Refuse
  BY <1>3, RefuseTypes
<1> QED
  BY <1>1, <1>2, <1>3 DEF AddDependency

\* remove_dependency keeps every type.
LEMMA RemoveDependencyTypes ==
  ASSUME TypeOK, NEW blocker \in NodeIds, NEW blocked \in NodeIds, NEW key \in KeysOrNone,
         RemoveDependency(blocker, blocked, key), UNCHANGED now
  PROVE  TypeOK'
<1> DEFINE p == ProjectOf(blocker)
<1>1. CASE Replay(p, key, {}, NoNode)
  BY <1>1, ProjectOfTypes, ReplayTypes DEF Entities
<1>2. CASE /\ p # NoProject
           /\ deps' = deps \ {<<blocker, blocked>>}
           /\ UNCHANGED <<projects, nodes, verifications, minted>>
           /\ Log(Event(p, NoNode, "DEP_REMOVED", [pair |-> <<blocker, blocked>>]), key, {blocked})
  <2>1. p \in ProjectIds
    BY <1>2, ProjectOfTypes
  <2>2. <<blocker, blocked>> \in Pairs
    BY DEF Pairs
  <2>3. Event(p, NoNode, "DEP_REMOVED", [pair |-> <<blocker, blocked>>]) \in EventRows
    BY <2>1, <2>2, EventTypes
  <2>4. deps' \subseteq Pairs /\ IsTable(verifications', NodeIds, VerificationRows)
    BY <1>2 DEF TypeOK
  <2> QED
    BY <1>2, <2>3, <2>4, RowlessWriteTypes
<1>3. CASE Refuse
  BY <1>3, RefuseTypes
<1> QED
  BY <1>1, <1>2, <1>3 DEF RemoveDependency

-----------------------------------------------------------------------------
(* Undo.                                                                     *)

\* Undo of a status keeps every type: what it writes is a declared status.
LEMMA UndoStatusTypes ==
  ASSUME TypeOK, NEW event \in EventRows, NEW key \in KeysOrNone, UndoStatus(event, key),
         UNCHANGED now
  PROVE  TypeOK'
<1> DEFINE n == event.node
           row == Touch([nodes[n] EXCEPT !.status = StatusBefore(event)])
           inverse == Event(event.project, n, "STATUS_SET", NoPayload)
<1>1. /\ event.kind = "STATUS_SET"
      /\ nodes' = [nodes EXCEPT ![n] = row]
      /\ Log(inverse, key, Dependents(deps, {n}))
      /\ UNCHANGED <<projects, deps, verifications, minted>>
  BY DEF UndoStatus
<1>2. StatusBefore(event) \in Statuses
  BY <1>1, FieldsOfEvent DEF StatusBefore, Statuses
<1>3. ASSUME n \in DOMAIN nodes
      PROVE  row \in NodeRows
  BY <1>2, <1>3, LiveRow, RowWithStatus, TouchedRow DEF TypeOK
<1>4. IsTable(nodes', NodeIds, NodeRows)
  BY <1>1, <1>3, UpdateTable DEF TypeOK
<1>5. inverse \in EventRows
  BY FieldsOfEvent, EventTypes
<1> QED
  BY <1>1, <1>4, <1>5, NodeWriteTypes

\* The pair of a logged edge, and the inverse that names no node.
LEMMA InverseTypes ==
  ASSUME NEW event \in EventRows, NEW kind \in {"DEP_ADDED", "DEP_REMOVED", "NODE_DELETED", "NODE_CREATED"}
  PROVE  Event(event.project, NoNode, kind, NoPayload) \in EventRows
  BY FieldsOfEvent, EventTypes

\* Undo of a new edge keeps every type.
LEMMA UndoDepAddedTypes ==
  ASSUME TypeOK, NEW event \in EventRows, NEW key \in KeysOrNone, UndoDepAdded(event, key),
         UNCHANGED now
  PROVE  TypeOK'
<1>1. /\ deps' = deps \ {event.payload.pair}
      /\ UNCHANGED <<projects, nodes, verifications, minted>>
      /\ Log(Event(event.project, NoNode, "DEP_REMOVED", NoPayload), key, {event.payload.pair[2]})
  BY DEF UndoDepAdded
<1>2. deps' \subseteq Pairs /\ IsTable(verifications', NodeIds, VerificationRows)
  BY <1>1 DEF TypeOK
<1> QED
  BY <1>1, <1>2, InverseTypes, RowlessWriteTypes

\* Undo of a removed edge keeps every type: the logged pair is one.
LEMMA UndoDepRemovedTypes ==
  ASSUME TypeOK, NEW event \in EventRows, NEW key \in KeysOrNone, UndoDepRemoved(event, key),
         UNCHANGED now
  PROVE  TypeOK'
<1>1. /\ event.kind = "DEP_REMOVED" /\ event.payload # NoPayload
      /\ deps' = deps \cup {<<event.payload.pair[1], event.payload.pair[2]>>}
      /\ UNCHANGED <<projects, nodes, verifications, minted>>
      /\ Log(Event(event.project, NoNode, "DEP_ADDED", NoPayload), key, {event.payload.pair[2]})
  BY DEF UndoDepRemoved
<1>2. event.payload.pair \in Pairs
  BY <1>1, FieldsOfEvent
<1>3. <<event.payload.pair[1], event.payload.pair[2]>> \in Pairs
  BY <1>2 DEF Pairs
<1>4. deps' \subseteq Pairs /\ IsTable(verifications', NodeIds, VerificationRows)
  BY <1>1, <1>3 DEF TypeOK
<1> QED
  BY <1>1, <1>4, InverseTypes, RowlessWriteTypes

\* Undo of a creation keeps every type.
LEMMA UndoCreatedTypes ==
  ASSUME TypeOK, NEW event \in EventRows, NEW key \in KeysOrNone, UndoCreated(event, key),
         UNCHANGED now
  PROVE  TypeOK'
<1> DEFINE gone == Subtree(nodes, event.node)
           inverse == Event(event.project, NoNode, "NODE_DELETED", NoPayload)
<1>1. /\ nodes' = NodesWithout(nodes, gone)
      /\ deps' = DepsWithout(deps, gone)
      /\ verifications' = VerificationsWithout(verifications, gone)
      /\ Commit(EventsWithout(events, gone), 0, inverse, key, NoNode, {})
      /\ UNCHANGED <<projects, minted>>
  BY DEF UndoCreated
<1>2. /\ IsTable(nodes', NodeIds, NodeRows) /\ deps' \subseteq Pairs
      /\ IsTable(verifications', NodeIds, VerificationRows)
      /\ IsTable(EventsWithout(events, gone), Nat, EventRows)
  BY <1>1, CascadeTables
<1>3. inverse \in EventRows
  BY InverseTypes
<1>4. minted' \subseteq NodeIds /\ NoNode \in Entities /\ 0 \in Nat
  BY <1>1 DEF TypeOK, Entities
<1> QED
  BY <1>1, <1>2, <1>3, <1>4, WriteTypes

\* What restore_node inserts is a row.
LEMMA RestoredTypes ==
  ASSUME TypeOK, NEW image \in Images
  PROVE  IsTable(Restored(image), NodeIds, NodeRows)
<1>1. IsTable(nodes, NodeIds, NodeRows)
  BY DEF TypeOK
<1>2. CASE image = NoImage
  BY <1>1, <1>2 DEF Restored
<1>3. CASE image # NoImage
  <2>1. image.id \in NodeIds /\ image.row \in NodeRows
    BY <1>3 DEF Images
  <2>2. [image.row EXCEPT !.updated = now] \in NodeRows
    BY <2>1, TouchedRow DEF Touch, TypeOK
  <2> QED
    BY <1>1, <1>3, <2>1, <2>2, InsertOrIgnoreTable DEF Restored
<1> QED
  BY <1>2, <1>3

\* Undo of a deletion keeps every type.
LEMMA UndoDeletedTypes ==
  ASSUME TypeOK, NEW event \in EventRows, NEW key \in KeysOrNone, UndoDeleted(event, key),
         UNCHANGED now
  PROVE  TypeOK'
<1>1. /\ event.kind = "NODE_DELETED" /\ event.payload # NoPayload
      /\ nodes' = Restored(event.payload.image)
      /\ Log(Event(event.project, NoNode, "NODE_CREATED", NoPayload), key, {})
      /\ UNCHANGED <<projects, deps, verifications, minted>>
  BY DEF UndoDeleted
<1>2. IsTable(nodes', NodeIds, NodeRows)
  BY <1>1, FieldsOfEvent, RestoredTypes
<1> QED
  BY <1>1, <1>2, InverseTypes, NodeWriteTypes

\* Undo keeps every type, whichever event it is about.
LEMMA UndoTypes ==
  ASSUME TypeOK, NEW p \in ProjectIds, NEW seq, NEW key \in KeysOrNone, Undo(p, seq, key),
         UNCHANGED now
  PROVE  TypeOK'
<1>1. CASE Refuse
  BY <1>1, RefuseTypes
<1>2. CASE Replay(p, key, {}, NoNode)
  BY <1>2, ReplayTypes DEF Scopes, Entities
<1>3. ASSUME NEW t \in DOMAIN events, Revert(events[t], key)
      PROVE  TypeOK'
  <2>1. events[t] \in EventRows
    BY DEF TypeOK, IsTable
  <2> QED
    BY <1>1, <1>3, <2>1, UndoStatusTypes, UndoDepAddedTypes, UndoDepRemovedTypes,
       UndoCreatedTypes, UndoDeletedTypes DEF Revert
<1> QED
  BY <1>1, <1>2, <1>3 DEF Undo

-----------------------------------------------------------------------------

\* A request on a project keeps every type.
LEMMA OnProjectsTypes ==
  ASSUME TypeOK, NEW key \in KeysOrNone, OnProjects(key), UNCHANGED now
  PROVE  TypeOK'
  BY CreateProjectTypes, UpdateProjectTypes, ArchiveProjectTypes, CreateNodeTypes, UndoTypes
     DEF OnProjects

\* A request on a node keeps every type.
LEMMA OnNodesTypes ==
  ASSUME TypeOK, NEW key \in KeysOrNone, OnNodes(key), UNCHANGED now
  PROVE  TypeOK'
  BY UpdateNodeTypes, DeleteNodeTypes, SetStatusTypes, MoveNodeTypes, ReportConditionTypes,
     SetVerdictTypes, AddCommentTypes, AddDependencyTypes, RemoveDependencyTypes
     DEF OnNodes

\* The empty database is of every type.
LEMMA InitTypes == Init => TypeOK
<1> SUFFICES ASSUME Init PROVE TypeOK
  OBVIOUS
<1>1. reply \in Replies
  BY DEF Init, Error, Replies, Scopes, Entities
<1> QED
  BY <1>1, EmptyTable DEF Init, TypeOK

\* Every step keeps every type.
LEMMA NextTypes == TypeOK /\ [Next]_vars => TypeOK'
<1> SUFFICES ASSUME TypeOK, [Next]_vars PROVE TypeOK'
  OBVIOUS
<1>1. CASE Request
  BY <1>1, OnProjectsTypes, OnNodesTypes DEF Request, KeysOrNone
<1>2. CASE Tick
  BY <1>2 DEF Tick, tables, TypeOK
<1>3. CASE UNCHANGED vars
  BY <1>3 DEF vars, TypeOK
<1> QED
  BY <1>1, <1>2, <1>3 DEF Next

\* The tables hold rows of the schema, and replies the ids and cursors they promise, after
\* any requests in any order: what an operation writes from its arguments, from other rows
\* and from the payloads of past events is of the column's type.
THEOREM TypeCorrect == Spec => []TypeOK
  BY InitTypes, NextTypes, PTL DEF Spec

-----------------------------------------------------------------------------
(* The inductive invariant.                                                  *)

\* The references between rows, the log left aside.
RowsFit ==
  /\ HierarchyOK
  /\ \A e \in deps : e[1] \in Live /\ e[2] \in Live
  /\ DOMAIN verifications \subseteq Live
  /\ \A n \in Live : nodes[n].project \in DOMAIN projects

\* The references of the log.
LogFits ==
  /\ \A s \in DOMAIN events : events[s].node \in Live \cup {NoNode}
  /\ \A s \in DOMAIN events : events[s].project \in DOMAIN projects

\* An event that undo can restore a node from.
HasImage(event) ==
  event.kind = "NODE_DELETED" /\ event.payload # NoPayload /\ event.payload.image # NoImage

\* Nodes that are there, and nodes that can come back, have been created.
IdsAreMinted ==
  /\ Live \subseteq minted
  /\ \A s \in DOMAIN events : HasImage(events[s]) => events[s].payload.image.id \in minted

\* Events have the numbers that were given out.
LogIsNumbered == DOMAIN events \subseteq 1 .. lastSeq

\* What the ledger's entries name: the entries of create_project projects that exist, the
\* others nodes of the project whose scope they are in, also if they come back from an image.
EntriesFit ==
  \A k \in DOMAIN idem :
    LET entity == idem[k].entity IN
    /\ k[1] = NoProject => entity \in DOMAIN projects
    /\ entity \in NodeIds => entity \in minted
    /\ \A s \in DOMAIN events :
         HasImage(events[s]) /\ events[s].payload.image.id = entity =>
           events[s].payload.image.row.project = k[1]

StoreInv ==
  /\ TypeOK /\ RowsFit /\ LogFits
  /\ IdsAreMinted /\ LogIsNumbered
  /\ LedgerPointsAtItsWrite /\ EntriesFit

-----------------------------------------------------------------------------
(* What a request does.                                                      *)

\* The events that a commit keeps are events as they were, and name nodes that stay.
Keeps(kept) ==
  \A s \in DOMAIN kept :
    s \in DOMAIN events /\ kept[s] = events[s] /\ kept[s].node \in DOMAIN nodes' \cup {NoNode}

\* The parent of a row that is written again: the one it had, or another of its project.
StaysIn(n) ==
  LET parent == nodes'[n].parent IN
  \/ parent = nodes[n].parent
  \/ parent \in Live /\ nodes[parent].project = nodes[n].project

\* Where the nodes after a commit come from: from before it, from create_node, or from an
\* image; they stay in their project, and so do their parents.
Origins(event, entity) ==
  /\ \A n \in DOMAIN nodes' :
       \/ n \in Live /\ nodes'[n].project = nodes[n].project /\ StaysIn(n)
       \/ n = entity /\ nodes'[n].project = event.project
       \/ \E s \in DOMAIN events :
            /\ HasImage(events[s]) /\ events[s].payload.image.id = n
            /\ nodes'[n].project = events[s].payload.image.row.project
            /\ nodes'[n].parent = events[s].payload.image.row.parent
  /\ entity \in (NodeIds \ minted) \cup {NoNode}
  /\ minted' = IF entity = NoNode THEN minted ELSE minted \cup {entity}
  /\ HasImage(event) => LET image == event.payload.image IN
                        image.id \in Live /\ image.row = nodes[image.id]

\* The deletions that a commit logs are those it makes, or it takes back a creation.
Counted(bare, event) ==
  \/ event.kind = "NODE_DELETED" /\ event.payload = NoPayload
  \/ Cardinality(Live \ DOMAIN nodes') = bare + (IF event.kind = "NODE_DELETED" THEN 1 ELSE 0)

\* What it does to verifications, and when it says that it wrote a row.
Reviewed(event) ==
  /\ \A n \in DOMAIN verifications \cap DOMAIN nodes' :
       IF nodes'[n].kind # nodes[n].kind THEN n \notin DOMAIN verifications'
       ELSE /\ n \in DOMAIN verifications'
            /\ \/ /\ verifications'[n].result = verifications[n].result
                  /\ verifications'[n].rev = verifications[n].rev
               \/ verifications'[n].verdict = verifications[n].verdict
  /\ event.kind \in {"NODE_UPDATED", "STATUS_SET"} =>
       (event.node \in DOMAIN verifications' => nodes'[event.node].updated = now)

\* A request that logged `event`.
Wrote(kept, bare, event, key, entity, affected) ==
  /\ Commit(kept, bare, event, key, entity, affected)
  /\ bare \in Nat /\ ~Hit(event.project, key)
  /\ UNCHANGED <<projects, now>>
  /\ event.project \in DOMAIN projects /\ event.node \in DOMAIN nodes' \cup {NoNode}
  /\ RowsFit' /\ Keeps(kept) /\ Origins(event, entity)
  /\ Counted(bare, event)
  /\ IsInverse(event) \/ StatusChanged \subseteq affected
  /\ Reviewed(event)

\* A request on projects: they are never deleted, and the scope of its key is ''.
Filed ==
  /\ UNCHANGED <<nodes, deps, verifications, events, lastSeq, minted, now>>
  /\ DOMAIN projects \subseteq DOMAIN projects'
  /\ \/ idem' = idem /\ reply'.key = NoKey
     \/ \E p \in ProjectIds, key \in KeysOrNone :
          /\ p \in DOMAIN projects' /\ ~Hit(NoProject, key)
          /\ idem' = Recorded(NoProject, key, 0, p)
          /\ reply'.scope = NoProject /\ reply'.key = key

\* What any step does.
Effect ==
  \/ UNCHANGED tables
  \/ Filed
  \/ \E kept, bare, event, key, entity, affected : Wrote(kept, bare, event, key, entity, affected)

-----------------------------------------------------------------------------
(* Rows that stay where they are.                                            *)

\* The references hold on when rows keep their place, whatever else is written in them.
LEMMA StandingRows ==
  ASSUME RowsFit, UNCHANGED projects, DOMAIN nodes' = DOMAIN nodes,
         \A n \in Live : /\ nodes'[n].project = nodes[n].project
                        /\ nodes'[n].parent = nodes[n].parent /\ nodes'[n].kind = nodes[n].kind,
         \A e \in deps' : e[1] \in Live /\ e[2] \in Live,
         DOMAIN verifications' \subseteq Live
  PROVE  RowsFit'
<1>1. HierarchyOK'
  BY DEF RowsFit, HierarchyOK, ParentFits, Live
<1> QED
  BY <1>1 DEF RowsFit, Live

\* Nor does any effective status change that reads the same statuses over the same edges.
LEMMA SameStatuses ==
  ASSUME DOMAIN nodes' = DOMAIN nodes, deps' = deps,
         \A n \in Live : nodes'[n].status = nodes[n].status
  PROVE  StatusChanged = {}
<1>1. ASSUME NEW n \in DOMAIN nodes'
      PROVE  Effective(n)' = Effective(n)
  <2>1. Blocked(nodes, deps, n)' <=> Blocked(nodes, deps, n)
    BY DEF Blocked, Live
  <2> QED
    BY <1>1, <2>1 DEF Effective, EffectiveStatus, Live
<1> QED
  BY <1>1 DEF StatusChanged, Live

\* A write in place: what is left to show of it is what it says of statuses and verifications.
LEMMA InPlaceWrote ==
  ASSUME StoreInv, UNCHANGED <<projects, minted, now>>, DOMAIN nodes' = DOMAIN nodes,
         \A n \in Live : /\ nodes'[n].project = nodes[n].project
                        /\ nodes'[n].parent = nodes[n].parent /\ nodes'[n].kind = nodes[n].kind,
         \A e \in deps' : e[1] \in Live /\ e[2] \in Live,
         DOMAIN verifications' \subseteq Live,
         NEW event, NEW key, NEW affected, Log(event, key, affected),
         event.project \in DOMAIN projects, ~Hit(event.project, key),
         event.node \in Live \cup {NoNode}, event.kind # "NODE_DELETED",
         IsInverse(event) \/ StatusChanged \subseteq affected, Reviewed(event)
  PROVE  Wrote(events, 0, event, key, NoNode, affected)
<1>1. RowsFit'
  BY StandingRows DEF StoreInv
<1>2. Keeps(events)
  BY DEF Keeps, StoreInv, LogFits, Live
<1>3. Origins(event, NoNode)
  BY DEF Origins, StaysIn, HasImage, Live
<1>4. Counted(0, event)
  <2>1. Live \ DOMAIN nodes' = {}
    BY DEF Live
  <2>2. Cardinality(Live \ DOMAIN nodes') = 0
    BY <2>1, FS_EmptySet
  <2> QED
    BY <2>2 DEF Counted
<1> QED
  BY <1>1, <1>2, <1>3, <1>4 DEF Wrote, Log, Live

\* The write of one row that stays where it is, by a statement that the touch trigger follows.
LEMMA RowWrote ==
  ASSUME StoreInv, UNCHANGED <<projects, deps, verifications, minted, now>>,
         NEW n \in Live \cup {NoNode}, NEW row, nodes' = [nodes EXCEPT ![n] = row],
         n \in Live => /\ row.project = nodes[n].project /\ row.parent = nodes[n].parent
                       /\ row.kind = nodes[n].kind /\ row.updated = now,
         NEW event, NEW key, NEW affected, Log(event, key, affected),
         event.project \in DOMAIN projects, ~Hit(event.project, key),
         event.node = n, event.kind # "NODE_DELETED",
         IsInverse(event) \/ StatusChanged \subseteq affected
  PROVE  Wrote(events, 0, event, key, NoNode, affected)
<1>1. /\ DOMAIN nodes' = DOMAIN nodes
      /\ \A m \in Live : /\ nodes'[m].project = nodes[m].project
                         /\ nodes'[m].parent = nodes[m].parent /\ nodes'[m].kind = nodes[m].kind
  BY DEF Live
<1>2. DOMAIN verifications \subseteq Live /\ \A e \in deps : e[1] \in Live /\ e[2] \in Live
  BY DEF StoreInv, RowsFit
<1>3. Reviewed(event)
  BY <1>1, <1>2 DEF Reviewed, Live
<1> QED
  BY <1>1, <1>2, <1>3, InPlaceWrote

\* The write of a verification, an edge or a comment leaves the rows as they are.
LEMMA RowlessWrote ==
  ASSUME StoreInv, UNCHANGED <<projects, nodes, minted, now>>,
         \A e \in deps' : e[1] \in Live /\ e[2] \in Live,
         DOMAIN verifications' \subseteq Live,
         \A n \in DOMAIN verifications :
           /\ n \in DOMAIN verifications'
           /\ \/ /\ verifications'[n].result = verifications[n].result
                 /\ verifications'[n].rev = verifications[n].rev
              \/ verifications'[n].verdict = verifications[n].verdict,
         NEW event, NEW key, NEW affected, Log(event, key, affected),
         event.project \in DOMAIN projects, ~Hit(event.project, key),
         event.node \in Live \cup {NoNode},
         event.kind \notin {"NODE_DELETED", "NODE_UPDATED", "STATUS_SET"},
         IsInverse(event) \/ StatusChanged \subseteq affected
  PROVE  Wrote(events, 0, event, key, NoNode, affected)
<1>1. Reviewed(event)
  BY DEF Reviewed
<1> QED
  BY <1>1, InPlaceWrote

\* A new status of a node is felt by those that wait directly on it, and by no others.
LEMMA StatusSpreads ==
  ASSUME TypeOK, NEW n, NEW row, nodes' = [nodes EXCEPT ![n] = row], deps' = deps
  PROVE  StatusChanged \subseteq {n} \cup Dependents(deps, {n})
<1>1. ASSUME NEW m \in DOMAIN nodes', m # n, m \notin Dependents(deps, {n})
      PROVE  m \in Live /\ Effective(m)' = Effective(m)
  <2>1. m \in Live /\ m \in NodeIds /\ nodes'[m] = nodes[m]
    BY <1>1 DEF Live, TypeOK, IsTable
  <2>2. <<n, m>> \notin deps
    BY <1>1, <2>1 DEF Dependents
  <2>3. Blocked(nodes, deps, m)' <=> Blocked(nodes, deps, m)
    BY <2>2 DEF Blocked
  <2> QED
    BY <2>1, <2>3 DEF Effective, EffectiveStatus
<1> QED
  BY <1>1 DEF StatusChanged

\* An edge that comes or goes is felt by the node that waits.
LEMMA EdgeStatuses ==
  ASSUME NEW a, NEW b, nodes' = nodes, deps' \ {<<a, b>>} = deps \ {<<a, b>>}
  PROVE  StatusChanged \subseteq {b}
<1>1. ASSUME NEW m \in DOMAIN nodes', m # b
      PROVE  Effective(m)' = Effective(m)
  <2>1. \A k \in DOMAIN nodes : <<k, m>> \in deps' <=> <<k, m>> \in deps
    BY <1>1
  <2>2. Blocked(nodes, deps, m)' <=> Blocked(nodes, deps, m)
    BY <2>1 DEF Blocked
  <2> QED
    BY <2>2 DEF Effective, EffectiveStatus
<1> QED
  BY <1>1 DEF StatusChanged, Live

-----------------------------------------------------------------------------
(* The requests that write in place.                                         *)

\* A refusal and an answer from the ledger write nothing.
LEMMA AnswerEffect ==
  ASSUME Refuse \/ \E scope, key, changed, entity : Replay(scope, key, changed, entity)
  PROVE  Effect
  BY DEF Refuse, Replay, Effect

\* Nor does an operation on a node that ends early.
LEMMA NotWrittenEffect ==
  ASSUME NEW n, NEW key, NEW refused, NotWritten(n, key, refused)
  PROVE  Effect
  BY AnswerEffect DEF NotWritten

\* What a write needs to know of the node it is about.
LEMMA NodeAtHand ==
  ASSUME StoreInv, NEW n \in DOMAIN nodes
  PROVE  /\ nodes[n] \in NodeRows /\ n \in NodeIds /\ n \in Live
         /\ nodes[n].project \in DOMAIN projects
  BY LiveRow DEF StoreInv, RowsFit, Live

\* update_node touches the row.
LEMMA UpdateNodeEffect ==
  ASSUME StoreInv, NEW n, NEW mask, NEW key, UpdateNode(n, mask, key), UNCHANGED now
  PROVE  Effect
<1> DEFINE refused == ~MaskAccepted(nodes[n].kind, mask)
           row == Touch(nodes[n])
           event == Event(nodes[n].project, n, "NODE_UPDATED", NoPayload)
<1>1. CASE NotWritten(n, key, refused)
  BY <1>1, NotWrittenEffect
<1>2. CASE /\ n \in DOMAIN nodes /\ ~Hit(nodes[n].project, key)
           /\ nodes' = [nodes EXCEPT ![n] = row]
           /\ Log(event, key, {n})
           /\ UNCHANGED <<projects, deps, verifications, minted>>
  <2>1. /\ row.project = nodes[n].project /\ row.parent = nodes[n].parent
        /\ row.kind = nodes[n].kind /\ row.status = nodes[n].status /\ row.updated = now
    BY <1>2, NodeAtHand DEF Touch, NodeRows
  <2>2. StatusChanged \subseteq {n}
    BY <1>2, <2>1, SameStatuses DEF Live
  <2>3. /\ event.project = nodes[n].project /\ event.node = n /\ event.kind = "NODE_UPDATED"
    BY DEF Event
  <2>4. Wrote(events, 0, event, key, NoNode, {n})
    BY <1>2, <2>1, <2>2, <2>3, NodeAtHand, RowWrote
  <2> QED
    BY <2>4 DEF Effect
<1> QED
  BY <1>1, <1>2 DEF UpdateNode, Accepted

\* set_status answers with the node and those that wait on it.
LEMMA SetStatusEffect ==
  ASSUME StoreInv, NEW n, NEW status, NEW key, SetStatus(n, status, key), UNCHANGED now
  PROVE  Effect
<1> DEFINE row == Touch([nodes[n] EXCEPT !.status = DeclaredStr(status)])
           event == Event(nodes[n].project, n, "STATUS_SET", [before |-> nodes[n].status])
           affected == {n} \cup Dependents(deps, {n})
<1>1. CASE NotWritten(n, key, FALSE)
  BY <1>1, NotWrittenEffect
<1>2. CASE /\ n \in DOMAIN nodes /\ ~Hit(nodes[n].project, key)
           /\ nodes' = [nodes EXCEPT ![n] = row]
           /\ Log(event, key, affected)
           /\ UNCHANGED <<projects, deps, verifications, minted>>
  <2>1. /\ row.project = nodes[n].project /\ row.parent = nodes[n].parent
        /\ row.kind = nodes[n].kind /\ row.updated = now
    BY <1>2, NodeAtHand DEF Touch, NodeRows
  <2>2. StatusChanged \subseteq affected
    BY <1>2, StatusSpreads DEF StoreInv
  <2>3. event.project = nodes[n].project /\ event.node = n /\ event.kind = "STATUS_SET"
    BY DEF Event
  <2>4. Wrote(events, 0, event, key, NoNode, affected)
    BY <1>2, <2>1, <2>2, <2>3, NodeAtHand, RowWrote
  <2> QED
    BY <2>4 DEF Effect
<1> QED
  BY <1>1, <1>2 DEF SetStatus, Accepted

\* What is in the verifications is of nodes that are there, and edges connect such nodes.
LEMMA ReferencesHold ==
  ASSUME StoreInv
  PROVE  /\ DOMAIN verifications \subseteq Live
         /\ \A e \in deps : e[1] \in Live /\ e[2] \in Live
  BY DEF StoreInv, RowsFit

\* report_condition writes the agent's half of the verification.
LEMMA ReportConditionEffect ==
  ASSUME StoreInv, NEW n, NEW result, NEW key, ReportCondition(n, result, key), UNCHANGED now
  PROVE  Effect
<1> DEFINE refused == result = "UNSPECIFIED"
           event == Event(nodes[n].project, n, "AGENT_REPORTED", NoPayload)
           row == [VerificationOf(n) EXCEPT !.result = result, !.rev = nodes[n].updated]
<1>1. CASE NotWritten(n, key, refused)
  BY <1>1, NotWrittenEffect
<1>2. CASE /\ n \in DOMAIN nodes /\ ~Hit(nodes[n].project, key)
           /\ verifications' = Upsert(verifications, n, row)
           /\ UNCHANGED <<projects, nodes, deps, minted>>
           /\ Log(event, key, {n})
  <2>1. DOMAIN verifications' = DOMAIN verifications \cup {n}
    BY <1>2 DEF Upsert
  <2>2. ASSUME NEW m \in DOMAIN verifications
        PROVE  m \in DOMAIN verifications' /\ verifications'[m].verdict = verifications[m].verdict
    <3>1. CASE m # n
      BY <1>2, <3>1 DEF Upsert
    <3>2. CASE m = n
      <4>1. verifications[n] \in VerificationRows
        BY <3>2 DEF StoreInv, TypeOK, IsTable
      <4>2. VerificationOf(n) = verifications[n]
        BY <3>2 DEF VerificationOf
      <4>3. row.verdict = verifications[n].verdict
        BY <4>1, <4>2 DEF VerificationRows
      <4> QED
        BY <1>2, <3>2, <4>3 DEF Upsert
    <3> QED
      BY <3>1, <3>2
  <2>3. StatusChanged \subseteq {n}
    BY <1>2, SameStatuses DEF Live
  <2>4. /\ event.project = nodes[n].project /\ event.node = n /\ event.kind = "AGENT_REPORTED"
    BY DEF Event
  <2>5. DOMAIN verifications' \subseteq Live /\ \A e \in deps' : e[1] \in Live /\ e[2] \in Live
    BY <1>2, <2>1, ReferencesHold, NodeAtHand
  <2>6. Wrote(events, 0, event, key, NoNode, {n})
    BY <1>2, <2>2, <2>3, <2>4, <2>5, NodeAtHand, RowlessWrote
  <2> QED
    BY <2>6 DEF Effect
<1> QED
  BY <1>1, <1>2 DEF ReportCondition, Accepted

\* set_verdict writes the operator's half.
LEMMA SetVerdictEffect ==
  ASSUME StoreInv, NEW n, NEW verdict, NEW key, SetVerdict(n, verdict, key), UNCHANGED now
  PROVE  Effect
<1> DEFINE event == Event(nodes[n].project, n, "VERDICT_SET", NoPayload)
<1>1. CASE NotWritten(n, key, FALSE)
  BY <1>1, NotWrittenEffect
<1>2. CASE /\ n \in DOMAIN nodes /\ ~Hit(nodes[n].project, key)
           /\ verifications' =
                IF verdict # "UNSPECIFIED"
                  THEN Upsert(verifications, n, [VerificationOf(n) EXCEPT !.verdict = verdict])
                ELSE IF n \in DOMAIN verifications
                  THEN [verifications EXCEPT ![n].verdict = "NULL"]
                ELSE verifications
           /\ UNCHANGED <<projects, nodes, deps, minted>>
           /\ Log(event, key, {n})
  <2>1. DOMAIN verifications' \subseteq DOMAIN verifications \cup {n}
    BY <1>2 DEF Upsert
  <2>2. ASSUME NEW m \in DOMAIN verifications
        PROVE  /\ m \in DOMAIN verifications'
               /\ verifications'[m].result = verifications[m].result
               /\ verifications'[m].rev = verifications[m].rev
    <3>1. verifications[m] \in VerificationRows /\ VerificationOf(m) = verifications[m]
      BY DEF StoreInv, TypeOK, IsTable, VerificationOf
    <3>2. CASE verdict # "UNSPECIFIED"
      BY <1>2, <3>1, <3>2 DEF Upsert, VerificationRows
    <3>3. CASE verdict = "UNSPECIFIED"
      BY <1>2, <3>1, <3>3 DEF VerificationRows
    <3> QED
      BY <3>2, <3>3
  <2>3. StatusChanged \subseteq {n}
    BY <1>2, SameStatuses DEF Live
  <2>4. /\ event.project = nodes[n].project /\ event.node = n /\ event.kind = "VERDICT_SET"
    BY DEF Event
  <2>5. DOMAIN verifications' \subseteq Live /\ \A e \in deps' : e[1] \in Live /\ e[2] \in Live
    BY <1>2, <2>1, ReferencesHold, NodeAtHand
  <2>6. Wrote(events, 0, event, key, NoNode, {n})
    BY <1>2, <2>2, <2>3, <2>4, <2>5, NodeAtHand, RowlessWrote
  <2> QED
    BY <2>6 DEF Effect
<1> QED
  BY <1>1, <1>2 DEF SetVerdict, Accepted

\* add_comment writes an event and nothing else.
LEMMA AddCommentEffect ==
  ASSUME StoreInv, NEW n, NEW key, AddComment(n, key), UNCHANGED now
  PROVE  Effect
<1> DEFINE event == Event(nodes[n].project, n, "COMMENT", NoPayload)
<1>1. CASE NotWritten(n, key, FALSE)
  BY <1>1, NotWrittenEffect
<1>2. CASE /\ n \in DOMAIN nodes /\ ~Hit(nodes[n].project, key)
           /\ UNCHANGED <<projects, nodes, deps, verifications, minted>>
           /\ Log(event, key, {n})
  <2>1. StatusChanged \subseteq {n}
    BY <1>2, SameStatuses DEF Live
  <2>2. event.project = nodes[n].project /\ event.node = n /\ event.kind = "COMMENT"
    BY DEF Event
  <2>3. DOMAIN verifications' \subseteq Live /\ \A e \in deps' : e[1] \in Live /\ e[2] \in Live
    BY <1>2, ReferencesHold
  <2>4. Wrote(events, 0, event, key, NoNode, {n})
    BY <1>2, <2>1, <2>2, <2>3, NodeAtHand, RowlessWrote
  <2> QED
    BY <2>4 DEF Effect
<1> QED
  BY <1>1, <1>2 DEF AddComment, Accepted

\* The write of one edge, in or out, forward or as an inverse.
LEMMA EdgeWrote ==
  ASSUME StoreInv, UNCHANGED <<projects, nodes, verifications, minted, now>>,
         NEW a, NEW b, deps' \ {<<a, b>>} = deps \ {<<a, b>>},
         <<a, b>> \in deps' => a \in Live /\ b \in Live,
         NEW event, NEW key, Log(event, key, {b}),
         event.project \in DOMAIN projects, ~Hit(event.project, key),
         event.node = NoNode, event.kind \in {"DEP_ADDED", "DEP_REMOVED"}
  PROVE  Effect
<1>1. \A e \in deps' : e[1] \in Live /\ e[2] \in Live
  BY ReferencesHold
<1>2. StatusChanged \subseteq {b}
  BY EdgeStatuses
<1>3. Wrote(events, 0, event, key, NoNode, {b})
  BY <1>1, <1>2, ReferencesHold, RowlessWrote
<1> QED
  BY <1>3 DEF Effect

\* add_dependency: the scope is the blocker's project, which exists as the blocker does.
LEMMA AddDependencyEffect ==
  ASSUME StoreInv, NEW a, NEW b, NEW key, AddDependency(a, b, key), UNCHANGED now
  PROVE  Effect
<1> DEFINE event == Event(ProjectOf(a), NoNode, "DEP_ADDED", [pair |-> <<a, b>>])
<1>1. CASE Refuse \/ Replay(ProjectOf(a), key, {}, NoNode)
  BY <1>1, AnswerEffect
<1>2. CASE /\ ~Hit(ProjectOf(a), key) /\ EdgeAccepted(nodes, deps, a, b)
           /\ deps' = deps \cup {<<a, b>>}
           /\ UNCHANGED <<projects, nodes, verifications, minted>>
           /\ Log(event, key, {b})
  <2>1. a \in Live /\ b \in Live
    BY <1>2 DEF EdgeAccepted, Live
  <2>2. ProjectOf(a) \in DOMAIN projects
    BY <2>1, NodeAtHand DEF ProjectOf, Live
  <2>3. event.project = ProjectOf(a) /\ event.node = NoNode /\ event.kind = "DEP_ADDED"
    BY DEF Event
  <2> QED
    BY <1>2, <2>1, <2>2, <2>3, EdgeWrote
<1> QED
  BY <1>1, <1>2 DEF AddDependency

\* remove_dependency.
LEMMA RemoveDependencyEffect ==
  ASSUME StoreInv, NEW a, NEW b, NEW key, RemoveDependency(a, b, key), UNCHANGED now
  PROVE  Effect
<1> DEFINE event == Event(ProjectOf(a), NoNode, "DEP_REMOVED", [pair |-> <<a, b>>])
<1>1. CASE Refuse \/ Replay(ProjectOf(a), key, {}, NoNode)
  BY <1>1, AnswerEffect
<1>2. CASE /\ ~Hit(ProjectOf(a), key) /\ ProjectOf(a) # NoProject
           /\ deps' = deps \ {<<a, b>>}
           /\ UNCHANGED <<projects, nodes, verifications, minted>>
           /\ Log(event, key, {b})
  <2>1. ProjectOf(a) \in DOMAIN projects
    BY <1>2, NodeAtHand DEF ProjectOf
  <2>2. event.project = ProjectOf(a) /\ event.node = NoNode /\ event.kind = "DEP_REMOVED"
    BY DEF Event
  <2> QED
    BY <1>2, <2>1, <2>2, EdgeWrote
<1> QED
  BY <1>1, <1>2 DEF RemoveDependency

-----------------------------------------------------------------------------
(* The requests that insert a row.                                           *)

\* A row that the insert trigger lets in: it fits, nothing waits on it, and those that were
\* there are as they were.
LEMMA InsertedRow ==
  ASSUME StoreInv, UNCHANGED <<projects, deps, verifications, now>>,
         NEW n \in NodeIds \ Live, NEW row, nodes' = Upsert(nodes, n, row),
         InsertAccepted(projects, nodes, row)
  PROVE  /\ DOMAIN nodes' = Live \cup {n} /\ \A m \in Live : nodes'[m] = nodes[m]
         /\ nodes'[n] = row
         /\ RowsFit' /\ Keeps(events)
         /\ StatusChanged \subseteq {n}
         /\ Cardinality(Live \ DOMAIN nodes') = 0
<1>1. /\ DOMAIN nodes' = Live \cup {n} /\ \A m \in Live : nodes'[m] = nodes[m]
      /\ nodes'[n] = row
  BY DEF Upsert, Live
<1>2. row.project \in DOMAIN projects /\ ParentFits(nodes, row.kind, row.parent)
  BY DEF InsertAccepted
<1>3. HierarchyOK'
  <2>1. ASSUME NEW m \in DOMAIN nodes'
        PROVE  ParentFits(nodes', nodes'[m].kind, nodes'[m].parent)
    <3>1. CASE m = n
      BY <1>1, <1>2, <3>1 DEF ParentFits, Live
    <3>2. CASE m # n
      <4>1. m \in Live /\ ParentFits(nodes, nodes[m].kind, nodes[m].parent)
        BY <1>1, <3>2 DEF StoreInv, RowsFit, HierarchyOK
      <4> QED
        BY <1>1, <4>1 DEF ParentFits, Live
    <3> QED
      BY <3>1, <3>2
  <2> QED
    BY <2>1 DEF HierarchyOK, Live
<1>4. RowsFit'
  BY <1>1, <1>2, <1>3 DEF StoreInv, RowsFit, Live
<1>5. Keeps(events)
  BY <1>1 DEF Keeps, StoreInv, LogFits
<1>6. ASSUME NEW m \in DOMAIN nodes', m # n
      PROVE  m \in Live /\ Effective(m)' = Effective(m)
  <2>1. m \in Live /\ nodes'[m] = nodes[m] /\ <<n, m>> \notin deps
    BY <1>1, <1>6, ReferencesHold
  <2>2. Blocked(nodes, deps, m)' <=> Blocked(nodes, deps, m)
    BY <1>1, <2>1 DEF Blocked, Live
  <2> QED
    BY <2>1, <2>2 DEF Effective, EffectiveStatus
<1>7. StatusChanged \subseteq {n}
  BY <1>6 DEF StatusChanged
<1>8. Live \ DOMAIN nodes' = {}
  BY <1>1
<1> QED
  BY <1>1, <1>4, <1>5, <1>7, <1>8, FS_EmptySet

\* create_node: the id is one that was never given out.
LEMMA CreateNodeEffect ==
  ASSUME StoreInv, NEW p \in ProjectIds, NEW parent, NEW kind, NEW key,
         CreateNode(p, parent, kind, key), UNCHANGED now
  PROVE  Effect
<1> DEFINE row == [project |-> p, parent |-> parent, kind |-> KindStr(kind), status |-> "OPEN",
                   updated |-> now]
<1>1. CASE Refuse \/ \E scope, changed, entity : Replay(scope, key, changed, entity)
  BY <1>1, AnswerEffect
<1>2. ASSUME ~Hit(p, key), InsertAccepted(projects, nodes, row),
             NEW n \in NodeIds \ minted, minted' = minted \cup {n}, nodes' = Upsert(nodes, n, row),
             Commit(events, 0, Event(p, n, "NODE_CREATED", NoPayload), key, n, {n}),
             UNCHANGED <<projects, deps, verifications>>
      PROVE  Effect
  <2> DEFINE event == Event(p, n, "NODE_CREATED", NoPayload)
  <2>1. n \in NodeIds \ Live /\ n # NoNode
    BY SchemaAssumption DEF StoreInv, IdsAreMinted
  <2>2. /\ DOMAIN nodes' = Live \cup {n} /\ \A m \in Live : nodes'[m] = nodes[m]
        /\ nodes'[n] = row
        /\ RowsFit' /\ Keeps(events)
        /\ StatusChanged \subseteq {n}
        /\ Cardinality(Live \ DOMAIN nodes') = 0
    BY <1>2, <2>1, InsertedRow
  <2>3. event.project = p /\ event.node = n /\ event.kind = "NODE_CREATED"
    BY DEF Event
  <2>4. Origins(event, n)
    BY <1>2, <2>1, <2>2, <2>3 DEF Origins, StaysIn, HasImage
  <2>5. Counted(0, event)
    BY <2>2, <2>3 DEF Counted
  <2>6. Reviewed(event)
    BY <1>2, <2>2, <2>3, ReferencesHold DEF Reviewed
  <2>7. p \in DOMAIN projects
    BY <1>2 DEF InsertAccepted
  <2>8. Wrote(events, 0, event, key, n, {n})
    BY <1>2, <2>2, <2>3, <2>4, <2>5, <2>6, <2>7 DEF Wrote
  <2> QED
    BY <2>8 DEF Effect
<1> QED
  BY <1>1, <1>2 DEF CreateNode

\* What undo needs to know of the event that it reverts.
LEMMA EventAtHand ==
  ASSUME StoreInv, NEW t \in DOMAIN events
  PROVE  /\ events[t] \in EventRows /\ events[t].project \in DOMAIN projects
         /\ events[t].node \in Live \cup {NoNode}
  BY DEF StoreInv, TypeOK, IsTable, LogFits

\* Undo of a deletion: the trigger judges the image, and a node that is there stays.
LEMMA UndoDeletedEffect ==
  ASSUME StoreInv, NEW t \in DOMAIN events, NEW key, UndoDeleted(events[t], key),
         ~Hit(events[t].project, key), UNCHANGED now
  PROVE  Effect
<1> DEFINE image == events[t].payload.image
           row == [image.row EXCEPT !.updated = now]
           event == Event(events[t].project, NoNode, "NODE_CREATED", NoPayload)
<1>1. /\ events[t].kind = "NODE_DELETED" /\ events[t].payload # NoPayload
      /\ RestoreAccepted(image) /\ nodes' = Restored(image)
      /\ Log(event, key, {})
      /\ UNCHANGED <<projects, deps, verifications, minted>>
  BY DEF UndoDeleted
<1>2. /\ event.project = events[t].project /\ event.node = NoNode /\ event.kind = "NODE_CREATED"
      /\ IsInverse(event)
  BY DEF Event, IsInverse
<1>3. CASE nodes' = nodes
  <2>1. Wrote(events, 0, event, key, NoNode, {})
    BY <1>1, <1>2, <1>3, EventAtHand, ReferencesHold, RowlessWrote
  <2> QED
    BY <2>1 DEF Effect
<1>4. CASE image # NoImage /\ image.id \notin Live
  <2>1. image.id \in NodeIds /\ image.row \in NodeRows
    BY <1>1, <1>4, EventAtHand, FieldsOfEvent DEF Images
  <2>2. nodes' = Upsert(nodes, image.id, row)
    BY <1>1, <1>4 DEF Restored, InsertOrIgnore, Live
  <2>3. row.project = image.row.project /\ row.parent = image.row.parent /\ row.kind = image.row.kind
    BY <2>1 DEF NodeRows
  <2>4. InsertAccepted(projects, nodes, row)
    BY <1>1, <1>4, <2>3 DEF RestoreAccepted, InsertAccepted
  <2> HIDE DEF row, image
  <2>5. /\ DOMAIN nodes' = Live \cup {image.id} /\ \A m \in Live : nodes'[m] = nodes[m]
        /\ nodes'[image.id] = row
        /\ RowsFit' /\ Keeps(events)
        /\ Cardinality(Live \ DOMAIN nodes') = 0
    BY <1>1, <1>4, <2>1, <2>2, <2>4, InsertedRow
  <2>6. Origins(event, NoNode)
    <3>1. HasImage(events[t]) /\ events[t].payload.image = image
      BY <1>1, <1>4 DEF HasImage, image
    <3>2. ~HasImage(event)
      BY <1>2 DEF HasImage
    <3>3. nodes'[image.id].project = image.row.project /\ nodes'[image.id].parent = image.row.parent
      BY <2>3, <2>5
    <3>4. ASSUME NEW n \in DOMAIN nodes'
          PROVE  \/ n \in Live /\ nodes'[n].project = nodes[n].project /\ StaysIn(n)
                 \/ \E s \in DOMAIN events :
                      /\ HasImage(events[s]) /\ events[s].payload.image.id = n
                      /\ nodes'[n].project = events[s].payload.image.row.project
                      /\ nodes'[n].parent = events[s].payload.image.row.parent
      <4>1. CASE n = image.id
        BY <3>1, <3>3, <4>1
      <4>2. CASE n # image.id
        BY <2>5, <4>2 DEF StaysIn
      <4> QED
        BY <4>1, <4>2
    <3> QED
      BY <1>1, <3>2, <3>4 DEF Origins
  <2>7. Counted(0, event)
    BY <1>2, <2>5 DEF Counted
  <2>8. Reviewed(event)
    BY <1>1, <1>2, <2>5, ReferencesHold DEF Reviewed
  <2>9. Wrote(events, 0, event, key, NoNode, {})
    BY <1>1, <1>2, <2>5, <2>6, <2>7, <2>8, EventAtHand DEF Wrote, Log
  <2> QED
    BY <2>9 DEF Effect
<1> QED
  BY <1>1, <1>3, <1>4 DEF Restored, InsertOrIgnore, Live

-----------------------------------------------------------------------------
(* The requests that cascade.                                                *)

\* A subtree holds its root and, with a node, the children of the node.
LEMMA SubtreeCloses ==
  ASSUME TypeOK, NEW n
  PROVE  /\ n \in Live => n \in Subtree(nodes, n)
         /\ \A c \in Live : nodes[c].parent \in Subtree(nodes, n) => c \in Subtree(nodes, n)
<1>1. Live \subseteq NodeIds
  BY DEF TypeOK, IsTable, Live
<1>2. n \in Live => n \in Subtree(nodes, n)
  BY <1>1 DEF Subtree, Reach, Live
<1>3. ASSUME NEW c \in Live, nodes[c].parent \in Subtree(nodes, n)
      PROVE  c \in Subtree(nodes, n)
  <2>1. n \in DOMAIN nodes /\ nodes[c].parent \in Reach(ParentEdges(nodes), n)
    BY <1>3 DEF Subtree
  <2>2. <<nodes[c].parent, c>> \in ParentEdges(nodes)
    BY <1>3 DEF ParentEdges, Live
  <2>3. ASSUME NEW S \in SUBSET NodeIds, n \in S, ClosedUnder(ParentEdges(nodes), S)
        PROVE  c \in S
    BY <2>1, <2>2, <2>3 DEF Reach, ClosedUnder
  <2>4. c \in Reach(ParentEdges(nodes), n)
    BY <1>1, <2>3 DEF Reach
  <2> QED
    BY <2>1, <2>4 DEF Subtree
<1> QED
  BY <1>2, <1>3

\* What is left when a set of nodes goes that holds the children of its members: no parent is
\* missing, no edge, verification or event names one of them.
LEMMA CutTables ==
  ASSUME StoreInv, NEW S \in SUBSET Live, \A c \in Live : nodes[c].parent \in S => c \in S,
         DOMAIN nodes' = Live \ S, deps' = DepsWithout(deps, S)
  PROVE  /\ \A m \in Live \ S : NodesWithout(nodes, S)[m] = nodes[m]
         /\ DOMAIN NodesWithout(nodes, S) = Live \ S
         /\ \A m \in Live \ S : ParentFits(NodesWithout(nodes, S), nodes[m].kind, nodes[m].parent)
         /\ \A e \in deps' : e[1] \in DOMAIN nodes' /\ e[2] \in DOMAIN nodes'
         /\ DOMAIN VerificationsWithout(verifications, S) = DOMAIN verifications \ S
         /\ \A m \in DOMAIN verifications \ S :
              VerificationsWithout(verifications, S)[m] = verifications[m]
         /\ Keeps(EventsWithout(events, S))
<1> DEFINE rest == NodesWithout(nodes, S)
<1>1. DOMAIN rest = Live \ S /\ \A m \in Live \ S : rest[m] = nodes[m]
  BY DEF NodesWithout, Restrict, Live
<1>2. ASSUME NEW m \in Live \ S
      PROVE  ParentFits(rest, nodes[m].kind, nodes[m].parent)
  <2>1. ParentFits(nodes, nodes[m].kind, nodes[m].parent) /\ nodes[m].parent \notin S
    BY DEF StoreInv, RowsFit, HierarchyOK
  <2> QED
    BY <1>1, <2>1 DEF ParentFits, Live
<1>3. \A e \in deps' : e[1] \in DOMAIN nodes' /\ e[2] \in DOMAIN nodes'
  BY ReferencesHold DEF DepsWithout
<1>4. /\ DOMAIN VerificationsWithout(verifications, S) = DOMAIN verifications \ S
      /\ \A m \in DOMAIN verifications \ S :
           VerificationsWithout(verifications, S)[m] = verifications[m]
  BY DEF VerificationsWithout, Restrict
<1>5. Keeps(EventsWithout(events, S))
  BY EventAtHand DEF Keeps, EventsWithout, Restrict
<1> QED
  BY <1>1, <1>2, <1>3, <1>4, <1>5

\* A cascade is felt by those that waited directly on what goes.
LEMMA CutStatuses ==
  ASSUME TypeOK, NEW S, DOMAIN nodes' = Live \ S, deps' = DepsWithout(deps, S),
         \A m \in DOMAIN nodes' : nodes'[m].status = nodes[m].status
  PROVE  StatusChanged \subseteq Dependents(deps, S) \ S
<1>1. ASSUME NEW m \in DOMAIN nodes', m \notin Dependents(deps, S)
      PROVE  m \in Live /\ Effective(m)' = Effective(m)
  <2>1. m \in Live \ S /\ m \in NodeIds
    BY <1>1 DEF Live, TypeOK, IsTable
  <2>2. \A b \in S : <<b, m>> \notin deps
    BY <1>1, <2>1 DEF Dependents
  <2>3. \A b \in Live : <<b, m>> \in deps <=> b \in DOMAIN nodes' /\ <<b, m>> \in deps'
    BY <2>1, <2>2 DEF DepsWithout
  <2>4. Blocked(nodes, deps, m)' <=> Blocked(nodes, deps, m)
    BY <2>3 DEF Blocked, Live
  <2> QED
    BY <1>1, <2>1, <2>4 DEF Effective, EffectiveStatus
<1> QED
  BY <1>1 DEF StatusChanged

\* Subtrees can be counted, and a node is one more than its descendants.
LEMMA DescendantsCount ==
  ASSUME TypeOK, NEW n \in Live
  PROVE  /\ Cardinality(Descendants(n)) \in Nat
         /\ Cardinality(Subtree(nodes, n)) = Cardinality(Descendants(n)) + 1
<1>1. IsFiniteSet(Descendants(n)) /\ n \notin Descendants(n)
  BY SubtreeIds, SchemaAssumption, FS_Subset DEF Descendants
<1>2. Subtree(nodes, n) = Descendants(n) \cup {n}
  BY SubtreeCloses DEF Descendants
<1> QED
  BY <1>1, <1>2, FS_CardinalityType, FS_AddElement

\* A subtree goes, and nothing else is written.
LEMMA SubtreeGoes ==
  ASSUME StoreInv, NEW n, UNCHANGED <<projects, now>>,
         nodes' = NodesWithout(nodes, Subtree(nodes, n)),
         deps' = DepsWithout(deps, Subtree(nodes, n)),
         verifications' = VerificationsWithout(verifications, Subtree(nodes, n))
  PROVE  LET gone == Subtree(nodes, n) IN
         /\ gone \subseteq Live /\ DOMAIN nodes' = Live \ gone
         /\ \A m \in DOMAIN nodes' : nodes'[m] = nodes[m]
         /\ RowsFit' /\ Keeps(EventsWithout(events, gone))
         /\ StatusChanged \subseteq Dependents(deps, gone) \ gone
         /\ \A m \in DOMAIN verifications \cap DOMAIN nodes' :
              m \in DOMAIN verifications' /\ verifications'[m] = verifications[m]
<1> DEFINE gone == Subtree(nodes, n)
<1>1. gone \subseteq Live /\ \A c \in Live : nodes[c].parent \in gone => c \in gone
  BY SubtreeLive, SubtreeCloses DEF StoreInv, Live
<1>2. DOMAIN nodes' = Live \ gone
  BY DEF NodesWithout, Restrict, Live
<1> HIDE DEF gone
<1>3. /\ \A m \in Live \ gone : nodes'[m] = nodes[m]
      /\ \A m \in Live \ gone : ParentFits(nodes', nodes[m].kind, nodes[m].parent)
      /\ \A e \in deps' : e[1] \in DOMAIN nodes' /\ e[2] \in DOMAIN nodes'
      /\ DOMAIN verifications' = DOMAIN verifications \ gone
      /\ \A m \in DOMAIN verifications \ gone : verifications'[m] = verifications[m]
      /\ Keeps(EventsWithout(events, gone))
  BY <1>1, <1>2, CutTables DEF gone
<1>4. RowsFit'
  <2>1. HierarchyOK'
    BY <1>2, <1>3 DEF HierarchyOK, Live
  <2> QED
    BY <1>2, <1>3, <2>1, ReferencesHold, NodeAtHand DEF RowsFit, Live
<1>5. StatusChanged \subseteq Dependents(deps, gone) \ gone
  BY <1>2, <1>3, CutStatuses DEF StoreInv, gone
<1> QED
  BY <1>1, <1>2, <1>3, <1>4, <1>5 DEF gone

\* delete_node: one delete event for each node that goes.
LEMMA DeleteNodeEffect ==
  ASSUME StoreInv, NEW n, NEW failIfReferenced, NEW key,
         DeleteNode(n, failIfReferenced, key), UNCHANGED now
  PROVE  Effect
<1> DEFINE gone == Subtree(nodes, n)
           refused == failIfReferenced /\ \E e \in deps : n \in {e[1], e[2]}
           bare == Cardinality(Descendants(n))
           event == Event(nodes[n].project, NoNode, "NODE_DELETED",
                          [image |-> [id |-> n, row |-> nodes[n]]])
           affected == Dependents(deps, gone) \ gone
<1>1. CASE NotWritten(n, key, refused)
  BY <1>1, NotWrittenEffect
<1>2. CASE /\ n \in DOMAIN nodes /\ ~Hit(nodes[n].project, key)
           /\ nodes' = NodesWithout(nodes, gone)
           /\ deps' = DepsWithout(deps, gone)
           /\ verifications' = VerificationsWithout(verifications, gone)
           /\ Commit(EventsWithout(events, gone), bare, event, key, NoNode, affected)
           /\ UNCHANGED <<projects, minted>>
  <2>1. /\ gone \subseteq Live /\ DOMAIN nodes' = Live \ gone
        /\ \A m \in DOMAIN nodes' : nodes'[m] = nodes[m]
        /\ RowsFit' /\ Keeps(EventsWithout(events, gone))
        /\ StatusChanged \subseteq affected
        /\ \A m \in DOMAIN verifications \cap DOMAIN nodes' :
             m \in DOMAIN verifications' /\ verifications'[m] = verifications[m]
    BY <1>2, SubtreeGoes
  <2>2. bare \in Nat /\ Cardinality(gone) = bare + 1
    BY <1>2, DescendantsCount, NodeAtHand DEF StoreInv
  <2>3. /\ event.project = nodes[n].project /\ event.node = NoNode /\ event.kind = "NODE_DELETED"
        /\ event.payload = [image |-> [id |-> n, row |-> nodes[n]]]
    BY DEF Event
  <2>4. Origins(event, NoNode)
    <3>1. event.payload.image.id = n /\ event.payload.image.row = nodes[n]
      BY <2>3
    <3> QED
      BY <1>2, <2>1, <3>1 DEF Origins, StaysIn, Live
  <2>5. Counted(bare, event)
    <3>1. Live \ DOMAIN nodes' = gone
      BY <2>1
    <3> QED
      BY <2>2, <2>3, <3>1 DEF Counted
  <2>6. Reviewed(event)
    BY <2>1, <2>3 DEF Reviewed
  <2>7. nodes[n].project \in DOMAIN projects
    BY <1>2, NodeAtHand
  <2> HIDE DEF gone, bare, event, affected
  <2>8. Wrote(EventsWithout(events, gone), bare, event, key, NoNode, affected)
    BY <1>2, <2>1, <2>2, <2>3, <2>4, <2>5, <2>6, <2>7 DEF Wrote
  <2> QED
    BY <2>8 DEF Effect
<1> QED
  BY <1>1, <1>2 DEF DeleteNode, Accepted

\* Undo of a creation: the delete event has an empty payload.
LEMMA UndoCreatedEffect ==
  ASSUME StoreInv, NEW t \in DOMAIN events, NEW key, UndoCreated(events[t], key),
         ~Hit(events[t].project, key), UNCHANGED now
  PROVE  Effect
<1> DEFINE gone == Subtree(nodes, events[t].node)
           event == Event(events[t].project, NoNode, "NODE_DELETED", NoPayload)
<1>1. /\ nodes' = NodesWithout(nodes, gone)
      /\ deps' = DepsWithout(deps, gone)
      /\ verifications' = VerificationsWithout(verifications, gone)
      /\ Commit(EventsWithout(events, gone), 0, event, key, NoNode, {})
      /\ UNCHANGED <<projects, minted>>
  BY DEF UndoCreated
<1>2. /\ gone \subseteq Live /\ DOMAIN nodes' = Live \ gone
      /\ \A m \in DOMAIN nodes' : nodes'[m] = nodes[m]
      /\ RowsFit' /\ Keeps(EventsWithout(events, gone))
      /\ \A m \in DOMAIN verifications \cap DOMAIN nodes' :
           m \in DOMAIN verifications' /\ verifications'[m] = verifications[m]
  BY <1>1, SubtreeGoes
<1>3. /\ event.project = events[t].project /\ event.node = NoNode /\ event.kind = "NODE_DELETED"
      /\ event.payload = NoPayload
  BY DEF Event
<1>4. Origins(event, NoNode)
  BY <1>1, <1>2, <1>3 DEF Origins, StaysIn, HasImage, Live
<1>5. Counted(0, event) /\ IsInverse(event)
  BY <1>3 DEF Counted, IsInverse
<1>6. Reviewed(event)
  BY <1>2, <1>3 DEF Reviewed
<1> HIDE DEF gone, event
<1>7. Wrote(EventsWithout(events, gone), 0, event, key, NoNode, {})
  BY <1>1, <1>2, <1>3, <1>4, <1>5, <1>6, EventAtHand DEF Wrote
<1> QED
  BY <1>7 DEF Effect

\* Nothing sits under a step, so that a step goes alone.
LEMMA StepsHaveNothingBelow ==
  ASSUME StoreInv, NEW n \in Live, nodes[n].kind = "STEP"
  PROVE  Subtree(nodes, n) = {n} /\ Children(nodes, n) = {}
<1>1. Children(nodes, n) = {}
  <2>1. ASSUME NEW c \in Live, nodes[c].parent = n
        PROVE  FALSE
    <3>1. ParentFits(nodes, nodes[c].kind, n) /\ n # NoNode
      BY <2>1, NodeAtHand, SchemaAssumption DEF StoreInv, RowsFit, HierarchyOK, Live
    <3>2. nodes[c].kind \in {"TASK", "STEP"} /\ nodes[n].kind = ParentKind[nodes[c].kind]
      BY <3>1 DEF ParentFits, ParentKind
    <3> QED
      BY <3>2 DEF ParentKind
  <2> QED
    BY <2>1 DEF Children, Live
<1>2. ClosedUnder(ParentEdges(nodes), {n})
  BY <1>1 DEF ClosedUnder, ParentEdges, Children
<1>3. n \in NodeIds /\ n \in DOMAIN nodes
  BY NodeAtHand DEF Live
<1>4. Subtree(nodes, n) \subseteq {n}
  BY <1>2, <1>3 DEF Subtree, Reach
<1> QED
  BY <1>1, <1>4, SubtreeCloses DEF StoreInv

\* What hangs below a task are its steps.
LEMMA StepsOfTask ==
  ASSUME StoreInv, NEW n \in Live, nodes[n].kind = "TASK"
  PROVE  /\ \A c \in Children(nodes, n) : c \in Live /\ nodes[c].kind = "STEP"
         /\ UNION {Subtree(nodes, c) : c \in Children(nodes, n)} = Children(nodes, n)
<1>1. ASSUME NEW c \in Children(nodes, n)
      PROVE  c \in Live /\ nodes[c].kind = "STEP"
  <2>1. c \in Live /\ nodes[c].parent = n
    BY DEF Children, Live
  <2>2. ParentFits(nodes, nodes[c].kind, n) /\ n # NoNode
    BY <2>1, NodeAtHand, SchemaAssumption DEF StoreInv, RowsFit, HierarchyOK, Live
  <2>3. nodes[c].kind \in {"TASK", "STEP"} /\ nodes[n].kind = ParentKind[nodes[c].kind]
    BY <2>2 DEF ParentFits, ParentKind
  <2> QED
    BY <2>1, <2>3 DEF ParentKind
<1> QED
  BY <1>1, StepsHaveNothingBelow

\* The tables that move_node leaves, when what goes are steps that have the node above them.
LEMMA MovedRows ==
  ASSUME StoreInv, UNCHANGED projects, NEW n \in Live, NEW parent, NEW kind, NEW row,
         NEW S \in SUBSET (Live \ {n}), \A c \in Live : nodes[c].parent \in S => c \in S,
         UpdateAccepted(NodesWithout(nodes, S), n, parent, kind),
         row.project = nodes[n].project, row.parent = parent, row.kind = kind,
         row.status = nodes[n].status,
         nodes' = [NodesWithout(nodes, S) EXCEPT ![n] = row],
         deps' = DepsWithout(deps, S), DOMAIN verifications' \subseteq Live \ S
  PROVE  /\ DOMAIN nodes' = Live \ S /\ \A m \in Live \ S : m # n => nodes'[m] = nodes[m]
         /\ nodes'[n] = row
         /\ RowsFit' /\ Keeps(EventsWithout(events, S))
         /\ StatusChanged \subseteq Dependents(deps, S) \ S
<1> DEFINE rest == NodesWithout(nodes, S)
<1>1. DOMAIN rest = Live \ S
  BY DEF NodesWithout, Restrict, Live
<1>2. DOMAIN nodes' = Live \ S /\ n \in Live \ S
  BY <1>1
<1>3. /\ \A m \in Live \ S : rest[m] = nodes[m]
      /\ \A m \in Live \ S : ParentFits(rest, nodes[m].kind, nodes[m].parent)
      /\ \A e \in deps' : e[1] \in DOMAIN nodes' /\ e[2] \in DOMAIN nodes'
      /\ Keeps(EventsWithout(events, S))
  BY <1>2, CutTables
<1>4. nodes'[n] = row /\ \A m \in Live \ S : m # n => nodes'[m] = nodes[m]
  BY <1>1, <1>2, <1>3
<1>5. /\ parent # n /\ ParentFits(rest, kind, parent)
      /\ \A c \in Children(rest, n) : rest[c].kind # "WORK_PACKAGE" /\ ParentKind[rest[c].kind] = kind
  BY DEF UpdateAccepted
<1> HIDE DEF rest
<1>6. ASSUME NEW m \in Live \ S
      PROVE  ParentFits(nodes', nodes'[m].kind, nodes'[m].parent)
  <2>1. CASE m = n
    BY <1>1, <1>2, <1>3, <1>4, <1>5, <2>1 DEF ParentFits
  <2>2. CASE m # n /\ nodes[m].parent = n
    <3>1. m \in Children(rest, n)
      BY <1>1, <1>3, <2>2 DEF Children
    <3>2. ParentKind[nodes[m].kind] = kind /\ nodes[m].kind # "WORK_PACKAGE"
      BY <1>3, <1>5, <3>1
    <3>3. nodes[m].kind \in DOMAIN ParentKind
      BY <1>3, <3>2 DEF ParentFits
    <3> QED
      BY <1>2, <1>4, <2>2, <3>2, <3>3 DEF ParentFits
  <2>3. CASE m # n /\ nodes[m].parent # n
    BY <1>1, <1>2, <1>3, <1>4, <2>3 DEF ParentFits
  <2> QED
    BY <2>1, <2>2, <2>3
<1>7. RowsFit'
  <2>1. HierarchyOK'
    BY <1>2, <1>6 DEF HierarchyOK, Live
  <2>2. \A m \in Live \ S : nodes'[m].project \in DOMAIN projects'
    BY <1>4, NodeAtHand DEF Live
  <2> QED
    BY <1>2, <1>3, <2>1, <2>2 DEF RowsFit, Live
<1>8. StatusChanged \subseteq Dependents(deps, S) \ S
  BY <1>2, <1>4, CutStatuses DEF StoreInv
<1> QED
  BY <1>2, <1>3, <1>4, <1>7, <1>8

\* move_node: the steps of a demoted task go, each with a delete event of its own.
LEMMA MoveNodeEffect ==
  ASSUME StoreInv, NEW n, NEW parent, NEW kind, NEW key, MoveNode(n, parent, kind, key),
         UNCHANGED now
  PROVE  Effect
<1> DEFINE demoted == IF nodes[n].kind = "TASK" /\ kind = "STEP" THEN Children(nodes, n) ELSE {}
           gone == UNION {Subtree(nodes, c) : c \in demoted}
           rest == NodesWithout(nodes, gone)
           refused == \/ kind \in {"UNSPECIFIED", "WORK_PACKAGE"}
                      \/ nodes[n].kind = "WORK_PACKAGE"
                      \/ ~UpdateAccepted(rest, n, parent, kind)
           row == Touch([nodes[n] EXCEPT !.parent = parent, !.kind = kind])
           unseen == IF nodes[n].kind = kind THEN gone ELSE gone \cup {n}
           event == Event(nodes[n].project, n, "NODE_UPDATED", NoPayload)
           affected == {n} \cup Dependents(deps, demoted)
<1>1. CASE NotWritten(n, key, refused)
  BY <1>1, NotWrittenEffect
<1>2. CASE /\ n \in DOMAIN nodes /\ ~Hit(nodes[n].project, key) /\ ~refused
           /\ nodes' = [rest EXCEPT ![n] = row]
           /\ deps' = DepsWithout(deps, gone)
           /\ verifications' = VerificationsWithout(verifications, unseen)
           /\ Commit(EventsWithout(events, gone), Cardinality(demoted), event, key, NoNode, affected)
           /\ UNCHANGED <<projects, minted>>
  <2>1. n \in Live /\ nodes[n] \in NodeRows /\ nodes[n].project \in DOMAIN projects
    BY <1>2, NodeAtHand
  <2>2. gone = demoted
    BY <2>1, StepsOfTask
  <2>3. \A c \in demoted : c \in Live /\ nodes[c].kind = "STEP" /\ c # n
    BY <2>1, StepsOfTask
  <2>4. \A c \in Live : nodes[c].parent \in gone => c \in gone
    BY <2>2, <2>3, StepsHaveNothingBelow DEF Children, Live
  <2>5. /\ row.project = nodes[n].project /\ row.parent = parent /\ row.kind = kind
        /\ row.status = nodes[n].status /\ row.updated = now
    BY <2>1 DEF Touch, NodeRows
  <2>6. UpdateAccepted(rest, n, parent, kind)
    BY <1>2
  <2>7. /\ event.project = nodes[n].project /\ event.node = n /\ event.kind = "NODE_UPDATED"
    BY DEF Event
  <2>8. /\ DOMAIN verifications' = DOMAIN verifications \ unseen
        /\ \A m \in DOMAIN verifications \ unseen : verifications'[m] = verifications[m]
    BY <1>2 DEF VerificationsWithout, Restrict
  <2>9. unseen = IF nodes[n].kind = kind THEN gone ELSE gone \cup {n}
    OBVIOUS
  <2>10. gone \in SUBSET (Live \ {n})
    BY <2>2, <2>3
  <2> HIDE DEF demoted, gone, row, event, unseen
  <2>11. /\ DOMAIN nodes' = Live \ gone /\ \A m \in Live \ gone : m # n => nodes'[m] = nodes[m]
         /\ nodes'[n] = row
         /\ RowsFit' /\ Keeps(EventsWithout(events, gone))
         /\ StatusChanged \subseteq Dependents(deps, gone) \ gone
    <3>1. DOMAIN verifications' \subseteq Live \ gone
      BY <2>8, <2>9, ReferencesHold
    <3>2. /\ nodes' = [NodesWithout(nodes, gone) EXCEPT ![n] = row]
          /\ deps' = DepsWithout(deps, gone) /\ UNCHANGED projects
          /\ UpdateAccepted(NodesWithout(nodes, gone), n, parent, kind)
      BY <1>2, <2>6
    <3> HIDE DEF rest, refused
    <3> QED
      BY <2>1, <2>4, <2>5, <2>10, <3>1, <3>2, MovedRows, ZenonT(60)
  <2>12. Origins(event, NoNode)
    <3>1. DOMAIN rest = Live \ gone /\ \A m \in Live \ gone : rest[m] = nodes[m]
      BY DEF NodesWithout, Restrict, Live
    <3>2. parent \in DOMAIN rest /\ rest[parent].project = rest[n].project
      <4>1. ParentFits(rest, kind, parent) /\ kind # "WORK_PACKAGE"
        BY <1>2, <2>6 DEF UpdateAccepted
      <4>2. parent \in DOMAIN rest
        BY <4>1 DEF ParentFits
      <4>3. parent # NoNode
        BY <3>1, <4>2, NodeAtHand, SchemaAssumption DEF Live
      <4> QED
        BY <2>6, <4>2, <4>3 DEF UpdateAccepted
    <3> HIDE DEF rest
    <3>3. parent \in Live /\ nodes[parent].project = nodes[n].project
      BY <2>1, <2>10, <3>1, <3>2
    <3>4. StaysIn(n) /\ \A m \in DOMAIN nodes' : m # n => StaysIn(m)
      BY <2>5, <2>11, <3>3 DEF StaysIn
    <3> QED
      BY <1>2, <2>5, <2>7, <2>10, <2>11, <3>4 DEF Origins, HasImage
  <2>13. Cardinality(demoted) \in Nat /\ Counted(Cardinality(demoted), event)
    <3>1. Live \ DOMAIN nodes' = demoted
      BY <2>2, <2>10, <2>11
    <3>2. demoted \in SUBSET NodeIds
      BY <2>3, NodeAtHand DEF Live
    <3>3. Cardinality(demoted) \in Nat
      BY <3>2, FiniteIds
    <3>4. (IF event.kind = "NODE_DELETED" THEN 1 ELSE 0) = 0
      BY <2>7
    <3> QED
      BY <3>1, <3>3, <3>4 DEF Counted
  <2>14. Reviewed(event)
    BY <2>5, <2>7, <2>8, <2>9, <2>10, <2>11 DEF Reviewed
  <2>15. StatusChanged \subseteq affected
    BY <2>2, <2>11
  <2> HIDE DEF affected
  <2>16. n \in DOMAIN nodes'
    BY <2>1, <2>10, <2>11
  <2>17. Wrote(EventsWithout(events, gone), Cardinality(demoted), event, key, NoNode, affected)
    BY <1>2, <2>1, <2>7, <2>11, <2>12, <2>13, <2>14, <2>15, <2>16 DEF Wrote
  <2> QED
    BY <2>17 DEF Effect
<1> QED
  BY <1>1, <1>2 DEF MoveNode, Accepted

-----------------------------------------------------------------------------
(* Undo, and the requests on projects.                                       *)

\* Undo of a status touches the row, if the node is still there.
LEMMA UndoStatusEffect ==
  ASSUME StoreInv, NEW t \in DOMAIN events, NEW key, UndoStatus(events[t], key),
         ~Hit(events[t].project, key), UNCHANGED now
  PROVE  Effect
<1> DEFINE n == events[t].node
           row == Touch([nodes[n] EXCEPT !.status = StatusBefore(events[t])])
           event == Event(events[t].project, n, "STATUS_SET", NoPayload)
           affected == Dependents(deps, {n})
<1>1. /\ nodes' = [nodes EXCEPT ![n] = row]
      /\ Log(event, key, affected)
      /\ UNCHANGED <<projects, deps, verifications, minted>>
  BY DEF UndoStatus
<1>2. /\ event.project = events[t].project /\ event.node = n /\ event.kind = "STATUS_SET"
      /\ IsInverse(event)
  BY DEF Event, IsInverse
<1>3. n \in Live => /\ row.project = nodes[n].project /\ row.parent = nodes[n].parent
                    /\ row.kind = nodes[n].kind /\ row.updated = now
  BY NodeAtHand DEF Touch, NodeRows, Live
<1>4. n \in Live \cup {NoNode} /\ events[t].project \in DOMAIN projects
  BY EventAtHand
<1> HIDE DEF n, row, event, affected
<1>5. Wrote(events, 0, event, key, NoNode, affected)
  BY <1>1, <1>2, <1>3, <1>4, RowWrote
<1> QED
  BY <1>5 DEF Effect

\* Undo of a new edge takes it away, undo of a removed one brings it back.
LEMMA UndoEdgeEffect ==
  ASSUME StoreInv, NEW t \in DOMAIN events, NEW key,
         UndoDepAdded(events[t], key) \/ UndoDepRemoved(events[t], key),
         ~Hit(events[t].project, key), UNCHANGED now
  PROVE  Effect
<1> DEFINE pair == events[t].payload.pair
<1>1. events[t].kind \in {"DEP_ADDED", "DEP_REMOVED"} /\ events[t].payload # NoPayload
  BY DEF UndoDepAdded, UndoDepRemoved
<1>2. pair \in Pairs
  BY <1>1, EventAtHand, FieldsOfEvent
<1>3. pair = <<pair[1], pair[2]>>
  BY <1>2 DEF Pairs
<1>4. PICK kind \in {"DEP_ADDED", "DEP_REMOVED"} :
        /\ Log(Event(events[t].project, NoNode, kind, NoPayload), key, {pair[2]})
        /\ UNCHANGED <<projects, nodes, verifications, minted>>
  BY DEF UndoDepAdded, UndoDepRemoved
<1>5. /\ deps' \ {<<pair[1], pair[2]>>} = deps \ {<<pair[1], pair[2]>>}
      /\ <<pair[1], pair[2]>> \in deps' => pair[1] \in Live /\ pair[2] \in Live
  BY <1>3 DEF UndoDepAdded, UndoDepRemoved, EdgeAccepted, Live
<1> DEFINE event == Event(events[t].project, NoNode, kind, NoPayload)
<1>6. event.project = events[t].project /\ event.node = NoNode /\ event.kind = kind
  BY DEF Event
<1> HIDE DEF pair, event
<1> QED
  BY <1>4, <1>5, <1>6, EventAtHand, EdgeWrote DEF event

\* Whichever event undo is about: its scope is the event's project.
LEMMA UndoEffect ==
  ASSUME StoreInv, NEW p, NEW seq, NEW key, Undo(p, seq, key), UNCHANGED now
  PROVE  Effect
<1>1. CASE Refuse \/ Replay(p, key, {}, NoNode)
  BY <1>1, AnswerEffect
<1>2. ASSUME NEW t \in DOMAIN events, IsTarget(p, seq, t), ~Hit(p, key), Revert(events[t], key)
      PROVE  Effect
  <2>1. ~Hit(events[t].project, key)
    BY <1>2 DEF IsTarget
  <2> QED
    BY <1>2, <2>1, AnswerEffect, UndoStatusEffect, UndoEdgeEffect, UndoCreatedEffect,
       UndoDeletedEffect DEF Revert
<1> QED
  BY <1>1, <1>2 DEF Undo

\* create_project writes unless its key is in the ledger: the project an entry names is there.
LEMMA CreateProjectEffect ==
  ASSUME StoreInv, NEW key \in KeysOrNone, CreateProject(key), UNCHANGED now
  PROVE  Effect
<1>1. CASE Replay(NoProject, key, {}, idem[<<NoProject, key>>].entity)
  BY <1>1, AnswerEffect
<1>2. ASSUME ~(Hit(NoProject, key) /\ idem[<<NoProject, key>>].entity \in DOMAIN projects),
             NEW p \in ProjectIds \ DOMAIN projects,
             projects' = Upsert(projects, p, FALSE),
             idem' = Recorded(NoProject, key, 0, p),
             reply' = [Error EXCEPT !.ok = TRUE, !.key = key, !.entity = p],
             UNCHANGED <<nodes, deps, verifications, events, lastSeq, minted>>
      PROVE  Effect
  <2>1. ~Hit(NoProject, key)
    <3>1. ASSUME Hit(NoProject, key) PROVE FALSE
      <4> DEFINE k == <<NoProject, key>>
      <4>1. k \in DOMAIN idem /\ k[1] = NoProject
        BY <3>1 DEF Hit
      <4>2. idem[k].entity \in DOMAIN projects
        BY <4>1 DEF StoreInv, EntriesFit
      <4> QED
        BY <1>2, <3>1, <4>2
    <3> QED
      BY <3>1
  <2>2. DOMAIN projects' = DOMAIN projects \cup {p}
    BY <1>2 DEF Upsert
  <2>3. reply'.scope = NoProject /\ reply'.key = key
    BY <1>2 DEF Error
  <2>4. Filed
    BY <1>2, <2>1, <2>2, <2>3 DEF Filed
  <2> QED
    BY <2>4 DEF Effect
<1> QED
  BY <1>1, <1>2 DEF CreateProject

\* The other requests on projects use no key.
LEMMA ProjectEffect ==
  ASSUME NEW p, NEW mask, NEW archived, UpdateProject(p, mask) \/ ArchiveProject(p, archived),
         UNCHANGED now
  PROVE  Effect
<1>1. CASE UNCHANGED tables
  BY <1>1 DEF Effect
<1>2. CASE /\ projects' = [projects EXCEPT ![p] = archived]
           /\ reply' = [Error EXCEPT !.ok = TRUE, !.entity = p]
           /\ UNCHANGED <<nodes, deps, verifications, events, lastSeq, idem, minted>>
  <2>1. DOMAIN projects' = DOMAIN projects
    BY <1>2
  <2>2. reply'.key = NoKey
    BY <1>2 DEF Error
  <2> QED
    BY <1>2, <2>1, <2>2 DEF Filed, Effect
<1> QED
  BY <1>1, <1>2 DEF UpdateProject, ArchiveProject, Refuse

\* Every step of the store has the shape of Effect.
LEMMA NextEffect ==
  ASSUME StoreInv, [Next]_vars
  PROVE  Effect
<1>1. CASE UNCHANGED vars \/ Tick
  BY <1>1 DEF vars, tables, Tick, Effect
<1>2. ASSUME NEW key \in KeysOrNone, OnProjects(key), UNCHANGED now
      PROVE  Effect
  BY <1>2, CreateProjectEffect, ProjectEffect, CreateNodeEffect, UndoEffect DEF OnProjects
<1>3. ASSUME NEW key \in KeysOrNone, OnNodes(key), UNCHANGED now
      PROVE  Effect
  BY <1>3, UpdateNodeEffect, DeleteNodeEffect, SetStatusEffect, MoveNodeEffect,
     ReportConditionEffect, SetVerdictEffect, AddCommentEffect, AddDependencyEffect,
     RemoveDependencyEffect DEF OnNodes
<1> QED
  BY <1>1, <1>2, <1>3 DEF Next, Request, KeysOrNone

-----------------------------------------------------------------------------
(* The invariant is inductive.                                               *)

\* The log after a write: what was kept, the bare deletions, and the event.
LEMMA LogAfterWrite ==
  ASSUME StoreInv, NEW kept, NEW bare, NEW event, NEW key, NEW entity, NEW affected,
         Wrote(kept, bare, event, key, entity, affected)
  PROVE  /\ lastSeq \in Nat /\ lastSeq' = lastSeq + bare + 1
         /\ DOMAIN events' = DOMAIN kept \cup (lastSeq + 1) .. lastSeq'
         /\ DOMAIN events' \subseteq 1 .. lastSeq'
         /\ events'[lastSeq'] = event
         /\ \A s \in DOMAIN events' :
              \/ /\ s \in DOMAIN events /\ s <= lastSeq /\ events'[s] = events[s]
                 /\ events[s].node \in DOMAIN nodes' \cup {NoNode}
              \/ s > lastSeq /\ s < lastSeq' /\ events'[s] = BareDeletion(event.project)
              \/ s = lastSeq' /\ events'[s] = event
<1>1. lastSeq \in Nat /\ bare \in Nat /\ DOMAIN events \subseteq 1 .. lastSeq
  BY DEF StoreInv, TypeOK, LogIsNumbered, Wrote
<1>2. /\ lastSeq' = lastSeq + bare + 1
      /\ events' = [s \in DOMAIN kept \cup (lastSeq + 1) .. lastSeq' |->
                      IF s = lastSeq' THEN event
                      ELSE IF s > lastSeq THEN BareDeletion(event.project) ELSE kept[s]]
  BY DEF Wrote, Commit, SeqBase
<1>3. \A s \in DOMAIN kept :
        /\ s \in DOMAIN events /\ kept[s] = events[s]
        /\ events[s].node \in DOMAIN nodes' \cup {NoNode}
  BY DEF Wrote, Keeps
<1>4. DOMAIN events' = DOMAIN kept \cup (lastSeq + 1) .. lastSeq'
  BY <1>2
<1>5. lastSeq' \in (lastSeq + 1) .. lastSeq'
  BY <1>1, <1>2
<1>6. events'[lastSeq'] = event
  BY <1>2, <1>5
<1>7. ASSUME NEW s \in DOMAIN events'
      PROVE  \/ /\ s \in DOMAIN events /\ s <= lastSeq /\ events'[s] = events[s]
                /\ events[s].node \in DOMAIN nodes' \cup {NoNode}
             \/ s > lastSeq /\ s < lastSeq' /\ events'[s] = BareDeletion(event.project)
             \/ s = lastSeq' /\ events'[s] = event
  <2>1. CASE s \in DOMAIN kept
    BY <1>1, <1>2, <1>3, <2>1
  <2>2. CASE s \in (lastSeq + 1) .. lastSeq' /\ s # lastSeq'
    BY <1>1, <1>2, <2>2
  <2> QED
    BY <1>4, <1>6, <2>1, <2>2
<1>8. DOMAIN events' \subseteq 1 .. lastSeq'
  BY <1>1, <1>2, <1>3, <1>4
<1> QED
  BY <1>1, <1>2, <1>4, <1>6, <1>7, <1>8

\* The ledger after record_idempotency of a key that was not in it.
LEMMA LedgerAfterRecord ==
  ASSUME NEW scope, NEW key, NEW seq, NEW entity, ~Hit(scope, key),
         idem' = Recorded(scope, key, seq, entity)
  PROVE  /\ DOMAIN idem \subseteq DOMAIN idem'
         /\ \A k \in DOMAIN idem' :
              \/ k \in DOMAIN idem /\ idem'[k] = idem[k]
              \/ k = <<scope, key>> /\ idem'[k] = [seq |-> seq, entity |-> entity]
<1>1. CASE key = NoKey
  BY <1>1 DEF Recorded
<1>2. CASE key # NoKey
  <2>1. <<scope, key>> \notin DOMAIN idem
    BY <1>2 DEF Hit
  <2>2. idem' = Upsert(idem, <<scope, key>>, [seq |-> seq, entity |-> entity])
    BY <1>2, <2>1 DEF Recorded, InsertOrIgnore
  <2> QED
    BY <2>2 DEF Upsert
<1> QED
  BY <1>1, <1>2

\* No node can be restored from a bare deletion.
LEMMA BareHasNoImage ==
  ASSUME NEW p
  PROVE  /\ ~HasImage(BareDeletion(p)) /\ BareDeletion(p).project = p
         /\ BareDeletion(p).node = NoNode /\ BareDeletion(p).kind = "NODE_DELETED"
  BY DEF HasImage, BareDeletion, Event

\* A write keeps the invariant, whatever request it was.
LEMMA WroteKeeps ==
  ASSUME StoreInv, TypeOK', NEW kept, NEW bare, NEW event, NEW key, NEW entity, NEW affected,
         Wrote(kept, bare, event, key, entity, affected)
  PROVE  StoreInv'
<1> DEFINE p == event.project
<1>1. /\ lastSeq \in Nat /\ lastSeq' \in Nat /\ lastSeq' > lastSeq
      /\ DOMAIN events' \subseteq 1 .. lastSeq'
      /\ \A s \in DOMAIN events' :
           \/ /\ s \in DOMAIN events /\ s <= lastSeq /\ events'[s] = events[s]
              /\ events[s].node \in DOMAIN nodes' \cup {NoNode}
           \/ s > lastSeq /\ s < lastSeq' /\ events'[s] = BareDeletion(p)
           \/ s = lastSeq' /\ events'[s] = event
  <2>1. bare \in Nat
    BY DEF Wrote
  <2>2. /\ lastSeq \in Nat /\ lastSeq' = lastSeq + bare + 1
        /\ DOMAIN events' \subseteq 1 .. lastSeq'
        /\ \A s \in DOMAIN events' :
             \/ /\ s \in DOMAIN events /\ s <= lastSeq /\ events'[s] = events[s]
                /\ events[s].node \in DOMAIN nodes' \cup {NoNode}
             \/ s > lastSeq /\ s < lastSeq' /\ events'[s] = BareDeletion(p)
             \/ s = lastSeq' /\ events'[s] = event
    BY LogAfterWrite
  <2>3. lastSeq' \in Nat /\ lastSeq' > lastSeq
    BY <2>1, <2>2
  <2> QED
    BY <2>2, <2>3
<1>2. /\ p \in DOMAIN projects /\ event.node \in DOMAIN nodes' \cup {NoNode}
      /\ RowsFit' /\ Origins(event, entity) /\ UNCHANGED projects
      /\ ~Hit(p, key) /\ idem' = Recorded(p, key, lastSeq', entity)
  BY DEF Wrote, Commit
<1>3. p \in ProjectIds /\ p # NoProject
  BY <1>2, SchemaAssumption DEF StoreInv, TypeOK, IsTable
<1>4. DOMAIN nodes' \subseteq NodeIds /\ NoNode \notin NodeIds
  BY SchemaAssumption DEF TypeOK, IsTable
<1>5. LogFits'
  <2>1. ASSUME NEW s \in DOMAIN events'
        PROVE  /\ events'[s].node \in DOMAIN nodes' \cup {NoNode}
               /\ events'[s].project \in DOMAIN projects
    BY <1>1, <1>2, BareHasNoImage, EventAtHand
  <2> QED
    BY <1>2, <2>1 DEF LogFits, Live
<1>6. ASSUME NEW s \in DOMAIN events', HasImage(events'[s])
      PROVE  \/ s \in DOMAIN events /\ events'[s] = events[s]
             \/ events'[s] = event
  BY <1>1, <1>6, BareHasNoImage
<1>7. IdsAreMinted'
  <2>1. Live \subseteq minted /\ \A s \in DOMAIN events : HasImage(events[s]) =>
                                   events[s].payload.image.id \in minted
    BY DEF StoreInv, IdsAreMinted
  <2>2. minted \subseteq minted' /\ (entity # NoNode => entity \in minted')
    BY <1>2 DEF Origins
  <2>3. DOMAIN nodes' \subseteq minted'
    BY <1>2, <1>4, <2>1, <2>2 DEF Origins
  <2>4. HasImage(event) => event.payload.image.id \in Live
    BY <1>2 DEF Origins
  <2>5. \A s \in DOMAIN events' : HasImage(events'[s]) => events'[s].payload.image.id \in minted'
    BY <1>6, <2>1, <2>2, <2>4
  <2> QED
    BY <2>3, <2>5 DEF IdsAreMinted, Live, HasImage
<1>8. ASSUME NEW k \in DOMAIN idem'
      PROVE  \/ k \in DOMAIN idem /\ idem'[k] = idem[k]
             \/ k = <<p, key>> /\ idem'[k].seq = lastSeq' /\ idem'[k].entity = entity
  <2>1. \/ k \in DOMAIN idem /\ idem'[k] = idem[k]
        \/ k = <<p, key>> /\ idem'[k] = [seq |-> lastSeq', entity |-> entity]
    BY <1>2, <1>8, LedgerAfterRecord
  <2> QED
    BY <2>1
<1>9. ASSUME NEW k \in DOMAIN idem', idem'[k].entity \in DOMAIN nodes'
      PROVE  nodes'[idem'[k].entity].project = k[1]
  <2>1. CASE k \in DOMAIN idem /\ idem'[k] = idem[k]
    BY <1>2, <1>4, <1>9, <2>1 DEF StoreInv, LedgerPointsAtItsWrite, EntriesFit, Origins
  <2>2. CASE k = <<p, key>> /\ idem'[k].entity = entity
    BY <1>2, <1>4, <1>9, <2>2 DEF StoreInv, IdsAreMinted, Origins
  <2> QED
    BY <1>8, <2>1, <2>2
<1>10. LedgerPointsAtItsWrite'
  <2>1. ASSUME NEW k \in DOMAIN idem'
        PROVE  /\ idem'[k].seq <= lastSeq'
               /\ idem'[k].seq \in DOMAIN events' => events'[idem'[k].seq].project = k[1]
    <3>1. CASE k \in DOMAIN idem /\ idem'[k] = idem[k]
      <4>1. idem[k].seq \in Nat /\ idem[k].seq <= lastSeq
        BY <3>1 DEF StoreInv, TypeOK, IsTable, IdemRows, LedgerPointsAtItsWrite
      <4> QED
        BY <1>1, <3>1, <4>1 DEF StoreInv, LedgerPointsAtItsWrite
    <3>2. CASE k = <<p, key>> /\ idem'[k].seq = lastSeq'
      BY <1>1, <3>2
    <3> QED
      BY <1>8, <3>1, <3>2
  <2>2. ASSUME NEW j \in DOMAIN idem', NEW k \in DOMAIN idem', idem'[j].seq = idem'[k].seq,
               idem'[j].seq # 0
        PROVE  j = k
    <3>1. \A i \in DOMAIN idem : idem[i].seq \in Nat /\ idem[i].seq <= lastSeq
      BY DEF StoreInv, TypeOK, IsTable, IdemRows, LedgerPointsAtItsWrite
    <3>2. idem'[j].seq # lastSeq' => j \in DOMAIN idem /\ idem'[j] = idem[j]
                                       /\ k \in DOMAIN idem /\ idem'[k] = idem[k]
      BY <1>8, <2>2
    <3>3. ASSUME NEW i \in DOMAIN idem', idem'[i].seq = lastSeq'
          PROVE  i = <<p, key>>
      BY <1>1, <1>8, <3>1, <3>3
    <3>4. CASE idem'[j].seq = lastSeq'
      BY <2>2, <3>3, <3>4
    <3>5. CASE idem'[j].seq # lastSeq'
      BY <2>2, <3>2, <3>5 DEF StoreInv, LedgerPointsAtItsWrite
    <3> QED
      BY <3>4, <3>5
  <2> QED
    BY <1>9, <2>1, <2>2 DEF LedgerPointsAtItsWrite, Live
<1>11. EntriesFit'
  <2>1. ASSUME NEW k \in DOMAIN idem'
        PROVE  /\ k[1] = NoProject => idem'[k].entity \in DOMAIN projects
               /\ idem'[k].entity \in NodeIds => idem'[k].entity \in minted'
    <3>1. CASE k \in DOMAIN idem /\ idem'[k] = idem[k]
      BY <1>2, <3>1 DEF StoreInv, EntriesFit, Origins
    <3>2. CASE k = <<p, key>> /\ idem'[k].entity = entity
      BY <1>2, <1>3, <1>4, <3>2 DEF Origins
    <3> QED
      BY <1>8, <3>1, <3>2
  <2>2. ASSUME NEW k \in DOMAIN idem', NEW s \in DOMAIN events', HasImage(events'[s]),
               events'[s].payload.image.id = idem'[k].entity
        PROVE  events'[s].payload.image.row.project = k[1]
    <3>1. CASE k \in DOMAIN idem /\ idem'[k] = idem[k]
      BY <1>2, <1>6, <2>2, <3>1 DEF StoreInv, LedgerPointsAtItsWrite, EntriesFit, Origins
    <3>2. CASE k = <<p, key>> /\ idem'[k].entity = entity
      <4>1. events'[s].payload.image.id \in minted
        BY <1>2, <1>6, <2>2 DEF StoreInv, IdsAreMinted, Origins
      <4>2. events'[s].payload.image.id \in NodeIds
        BY <4>1 DEF StoreInv, TypeOK
      <4> QED
        BY <1>2, <1>4, <2>2, <3>2, <4>1, <4>2 DEF Origins
    <3> QED
      BY <1>8, <3>1, <3>2
  <2> QED
    BY <1>2, <2>1, <2>2 DEF EntriesFit, HasImage
<1>12. LogIsNumbered'
  BY <1>1 DEF LogIsNumbered
<1> QED
  BY <1>2, <1>5, <1>7, <1>10, <1>11, <1>12 DEF StoreInv

\* A request on projects keeps it: the entry it may make has cursor 0, and names a project.
LEMMA FiledKeeps ==
  ASSUME StoreInv, TypeOK', Filed
  PROVE  StoreInv'
<1>1. /\ UNCHANGED <<nodes, deps, verifications, events, lastSeq, minted>>
      /\ DOMAIN projects \subseteq DOMAIN projects'
  BY DEF Filed
<1>2. RowsFit' /\ LogFits' /\ IdsAreMinted' /\ LogIsNumbered'
  BY <1>1 DEF StoreInv, RowsFit, HierarchyOK, LogFits, IdsAreMinted, LogIsNumbered, Live
<1>3. CASE idem' = idem
  BY <1>1, <1>2, <1>3 DEF StoreInv, LedgerPointsAtItsWrite, EntriesFit, Live
<1>4. ASSUME NEW p \in ProjectIds, NEW key \in KeysOrNone, p \in DOMAIN projects', ~Hit(NoProject, key),
             idem' = Recorded(NoProject, key, 0, p)
      PROVE  StoreInv'
  <2>1. ASSUME NEW k \in DOMAIN idem'
        PROVE  \/ k \in DOMAIN idem /\ idem'[k] = idem[k]
               \/ k[1] = NoProject /\ idem'[k].seq = 0 /\ idem'[k].entity = p
    <3>1. \/ k \in DOMAIN idem /\ idem'[k] = idem[k]
          \/ k = <<NoProject, key>> /\ idem'[k] = [seq |-> 0, entity |-> p]
      BY <1>4, <2>1, LedgerAfterRecord
    <3> QED
      BY <3>1
  <2>2. p \notin NodeIds /\ Live \subseteq NodeIds
    BY SchemaAssumption DEF StoreInv, TypeOK, IsTable, Live
  <2>3. lastSeq \in Nat /\ 0 \notin DOMAIN events
    BY DEF StoreInv, TypeOK, LogIsNumbered
  <2>4. \A s \in DOMAIN events : HasImage(events[s]) => events[s].payload.image.id \in NodeIds
    BY DEF StoreInv, TypeOK, IdsAreMinted
  <2>5. LedgerPointsAtItsWrite'
    <3>1. \A k \in DOMAIN idem' :
            /\ idem'[k].seq <= lastSeq
            /\ idem'[k].seq \in DOMAIN events => events[idem'[k].seq].project = k[1]
            /\ idem'[k].entity \in Live => nodes[idem'[k].entity].project = k[1]
      BY <2>1, <2>2, <2>3 DEF StoreInv, LedgerPointsAtItsWrite
    <3>2. \A j, k \in DOMAIN idem' : idem'[j].seq = idem'[k].seq /\ idem'[j].seq # 0 => j = k
      BY <2>1 DEF StoreInv, LedgerPointsAtItsWrite
    <3> QED
      BY <1>1, <3>1, <3>2 DEF LedgerPointsAtItsWrite, Live
  <2>6. EntriesFit'
    <3>1. ASSUME NEW k \in DOMAIN idem'
          PROVE  /\ k[1] = NoProject => idem'[k].entity \in DOMAIN projects'
                 /\ idem'[k].entity \in NodeIds => idem'[k].entity \in minted
                 /\ \A s \in DOMAIN events :
                      HasImage(events[s]) /\ events[s].payload.image.id = idem'[k].entity =>
                        events[s].payload.image.row.project = k[1]
      BY <1>1, <1>4, <2>1, <2>2, <2>4 DEF StoreInv, EntriesFit
    <3> QED
      BY <1>1, <3>1 DEF EntriesFit, HasImage
  <2> QED
    BY <1>2, <2>5, <2>6 DEF StoreInv
<1> QED
  BY <1>3, <1>4 DEF Filed

\* The empty database satisfies it.
LEMMA InitHolds == Init => StoreInv
<1> SUFFICES ASSUME Init PROVE StoreInv
  OBVIOUS
<1>1. /\ DOMAIN nodes = {} /\ deps = {} /\ DOMAIN verifications = {} /\ DOMAIN events = {}
      /\ DOMAIN idem = {}
  BY DEF Init, Empty
<1> QED
  BY <1>1, InitTypes DEF StoreInv, RowsFit, HierarchyOK, LogFits, IdsAreMinted, LogIsNumbered,
                         LedgerPointsAtItsWrite, EntriesFit, Live

\* Every step keeps it.
LEMMA NextHolds == StoreInv /\ [Next]_vars => StoreInv'
<1> SUFFICES ASSUME StoreInv, [Next]_vars PROVE StoreInv'
  OBVIOUS
<1>1. TypeOK'
  BY NextTypes DEF StoreInv
<1>2. CASE UNCHANGED tables
  BY <1>1, <1>2 DEF tables, StoreInv, RowsFit, HierarchyOK, LogFits, IdsAreMinted, LogIsNumbered,
                    LedgerPointsAtItsWrite, EntriesFit, Live, HasImage
<1> QED
  BY <1>1, <1>2, NextEffect, WroteKeeps, FiledKeeps DEF Effect

\* The invariant that everything below rests on: hierarchy, references, numbers and ledger fit
\* together in every database that requests can lead to.
THEOREM StoreInvariant == Spec => []StoreInv
  BY InitHolds, NextHolds, PTL DEF Spec

-----------------------------------------------------------------------------
(* The theorems.                                                             *)

\* The hierarchy stays three deep and nothing dangles, through cascades, demotions, restored
\* nodes and rows created under parents of other projects: the triggers judge every row that
\* comes, and a cascade takes with a node all that hangs below it.
THEOREM TablesStaySound == Spec => []TablesAreSound
<1>1. StoreInv => TablesAreSound
  BY DEF StoreInv, RowsFit, LogFits, TablesAreSound, NoDanglingRows
<1> QED
  BY <1>1, StoreInvariant, PTL

\* A key that is in the ledger answers or is refused: no request with it writes.
LEMMA OneWriteStep ==
  ASSUME StoreInv, [Next]_vars,
         reply'.ok, reply'.key # NoKey, <<reply'.scope, reply'.key>> \in DOMAIN idem
  PROVE  UNCHANGED tables
<1>1. CASE Filed
  BY <1>1 DEF Filed, Hit
<1>2. ASSUME NEW kept, NEW bare, NEW event, NEW key, NEW entity, NEW affected,
             Wrote(kept, bare, event, key, entity, affected)
      PROVE  FALSE
  <2>1. reply'.scope = event.project /\ reply'.key = key /\ ~Hit(event.project, key)
    BY <1>2 DEF Wrote, Commit
  <2> QED
    BY <2>1 DEF Hit
<1> QED
  BY <1>1, <1>2, NextEffect DEF Effect

\* The ledger does what it is for, whatever is deleted, undone and restored: a key buys one
\* write in its scope, and its entry keeps the cursor of that write, which no other entry
\* has, and a node of that scope.
THEOREM LedgerIsKept == Spec => LedgerHolds
<1>1. StoreInv /\ [Next]_vars =>
        [reply'.ok /\ reply'.key # NoKey /\ <<reply'.scope, reply'.key>> \in DOMAIN idem =>
           UNCHANGED tables]_vars
  BY OneWriteStep
<1>2. StoreInv => LedgerPointsAtItsWrite
  BY DEF StoreInv
<1> QED
  BY <1>1, <1>2, StoreInvariant, PTL DEF Spec, LedgerHolds, OneWritePerKey

\* The deletions that a step logs are as many as the nodes that go, or one takes back a
\* creation.
LEMMA DeletesStep ==
  ASSUME StoreInv, [Next]_vars
  PROVE  LET deletions == {s \in DOMAIN events' \ DOMAIN events : events'[s].kind = "NODE_DELETED"} IN
         \/ \E s \in deletions : events'[s].payload = NoPayload
         \/ Cardinality(Live \ DOMAIN nodes') = Cardinality(deletions)
<1> DEFINE deletions == {s \in DOMAIN events' \ DOMAIN events : events'[s].kind = "NODE_DELETED"}
<1>1. CASE UNCHANGED <<nodes, events>>
  <2>1. deletions = {} /\ Live \ DOMAIN nodes' = {}
    BY <1>1 DEF Live
  <2> QED
    BY <2>1
<1>2. ASSUME NEW kept, NEW bare, NEW event, NEW key, NEW entity, NEW affected,
             Wrote(kept, bare, event, key, entity, affected)
      PROVE  \/ \E s \in deletions : events'[s].payload = NoPayload
             \/ Cardinality(Live \ DOMAIN nodes') = Cardinality(deletions)
  <2>1. bare \in Nat /\ Counted(bare, event)
    BY <1>2 DEF Wrote
  <2>2. /\ lastSeq \in Nat /\ lastSeq' = lastSeq + bare + 1
        /\ DOMAIN events' = DOMAIN kept \cup (lastSeq + 1) .. lastSeq'
        /\ DOMAIN events' \subseteq 1 .. lastSeq'
        /\ events'[lastSeq'] = event
        /\ \A s \in DOMAIN events' :
             \/ s \in DOMAIN events /\ s <= lastSeq
             \/ s > lastSeq /\ s < lastSeq' /\ events'[s] = BareDeletion(event.project)
             \/ s = lastSeq' /\ events'[s] = event
    BY <1>2, LogAfterWrite
  <2>3. \A s \in DOMAIN events : s \in Nat /\ s <= lastSeq
    BY <2>2 DEF StoreInv, LogIsNumbered
  <2>4. lastSeq' \in DOMAIN events' \ DOMAIN events
    BY <2>1, <2>2, <2>3
  <2>5. CASE event.kind = "NODE_DELETED" /\ event.payload = NoPayload
    BY <2>2, <2>4, <2>5
  <2>6. CASE /\ Cardinality(Live \ DOMAIN nodes') = bare + 1
             /\ event.kind = "NODE_DELETED"
    <3>1. deletions = (lastSeq + 1) .. lastSeq'
      <4>1. ASSUME NEW s \in (lastSeq + 1) .. lastSeq'
            PROVE  s \in deletions
        BY <2>2, <2>3, <2>6, BareHasNoImage
      <4>2. ASSUME NEW s \in deletions
            PROVE  s \in (lastSeq + 1) .. lastSeq'
        BY <2>1, <2>2, <2>4, <4>2
      <4> QED
        BY <4>1, <4>2
    <3>2. Cardinality((lastSeq + 1) .. lastSeq') = bare + 1
      BY <2>1, <2>2, FS_Interval
    <3> QED
      BY <2>6, <3>1, <3>2
  <2>7. CASE /\ Cardinality(Live \ DOMAIN nodes') = bare
             /\ event.kind # "NODE_DELETED"
    <3>1. deletions = (lastSeq + 1) .. (lastSeq' - 1)
      <4>1. ASSUME NEW s \in (lastSeq + 1) .. (lastSeq' - 1)
            PROVE  s \in deletions
        BY <2>1, <2>2, <2>3, BareHasNoImage
      <4>2. ASSUME NEW s \in deletions
            PROVE  s \in (lastSeq + 1) .. (lastSeq' - 1)
        BY <2>1, <2>2, <2>7, <4>2
      <4> QED
        BY <4>1, <4>2
    <3>2. Cardinality((lastSeq + 1) .. (lastSeq' - 1)) = bare
      BY <2>1, <2>2, FS_Interval
    <3> QED
      BY <2>7, <3>1, <3>2
  <2>8. CASE Cardinality(Live \ DOMAIN nodes') = bare + (IF event.kind = "NODE_DELETED" THEN 1 ELSE 0)
    BY <2>1, <2>6, <2>7, <2>8
  <2> QED
    BY <2>1, <2>5, <2>8 DEF Counted
<1> QED
  BY <1>1, <1>2, NextEffect DEF Effect, Filed, tables

\* The reply to a step that is not an undo holds every node whose effective status changed.
LEMMA ReplyStep ==
  ASSUME StoreInv, [Next]_vars, Logs, ~IsInverse(LastEvent)
  PROVE  StatusChanged \subseteq reply'.changed
<1>1. CASE UNCHANGED lastSeq
  BY <1>1 DEF Logs
<1>2. ASSUME NEW kept, NEW bare, NEW event, NEW key, NEW entity, NEW affected,
             Wrote(kept, bare, event, key, entity, affected)
      PROVE  StatusChanged \subseteq reply'.changed
  <2>1. LastEvent = event
    BY <1>2, LogAfterWrite DEF LastEvent
  <2>2. StatusChanged \subseteq affected /\ reply'.changed = affected \cap DOMAIN nodes'
    BY <1>2, <2>1 DEF Wrote, Commit
  <2> QED
    BY <2>2 DEF StatusChanged
<1> QED
  BY <1>1, <1>2, NextEffect DEF Effect, Filed, tables

\* No node is lost quietly and no one is unblocked or blocked quietly, whatever a request
\* does to nodes other than its own, and however deep it cascades.
THEOREM ChangesReachCallers == Spec => ChangesAreTold
<1>1. StoreInv /\ [Next]_vars =>
        [LET deletions == {s \in DOMAIN events' \ DOMAIN events : events'[s].kind = "NODE_DELETED"} IN
         \/ \E s \in deletions : events'[s].payload = NoPayload
         \/ Cardinality(Live \ DOMAIN nodes') = Cardinality(deletions)]_vars
  BY DeletesStep
<1>2. StoreInv /\ [Next]_vars =>
        [Logs /\ ~IsInverse(LastEvent) => StatusChanged \subseteq reply'.changed]_vars
  BY ReplyStep
<1> QED
  BY <1>1, <1>2, StoreInvariant, PTL DEF Spec, ChangesAreTold, DeletesAreLogged, ReplyIsComplete

\* A step leaves the half of a verification that it is not about.
LEMMA HalvesStep ==
  ASSUME StoreInv, [Next]_vars, NEW n \in DOMAIN verifications \cap DOMAIN nodes'
  PROVE  IF nodes'[n].kind # nodes[n].kind THEN n \notin DOMAIN verifications'
         ELSE /\ n \in DOMAIN verifications'
              /\ \/ /\ verifications'[n].result = verifications[n].result
                    /\ verifications'[n].rev = verifications[n].rev
                 \/ verifications'[n].verdict = verifications[n].verdict
<1>1. CASE UNCHANGED <<nodes, verifications>>
  BY <1>1
<1>2. CASE \E kept, bare, event, key, entity, affected :
             Wrote(kept, bare, event, key, entity, affected)
  BY <1>2 DEF Wrote, Reviewed
<1> QED
  BY <1>1, <1>2, NextEffect DEF Effect, Filed, tables

\* A step that says it wrote a row leaves no fresh report of an earlier second.
LEMMA StaleStep ==
  ASSUME StoreInv, [Next]_vars, Logs, LastEvent.kind \in {"NODE_UPDATED", "STATUS_SET"},
         NEW n, n = LastEvent.node, n \in DOMAIN verifications',
         verifications'[n].result # "NULL", now > verifications'[n].rev
  PROVE  Stale(nodes', verifications', n)
<1>1. CASE UNCHANGED lastSeq
  BY <1>1 DEF Logs
<1>2. ASSUME NEW kept, NEW bare, NEW event, NEW key, NEW entity, NEW affected,
             Wrote(kept, bare, event, key, entity, affected)
      PROVE  Stale(nodes', verifications', n)
  <2>1. LastEvent = event
    BY <1>2, LogAfterWrite DEF LastEvent
  <2>2. nodes'[n].updated = now
    BY <1>2, <2>1 DEF Wrote, Reviewed
  <2> QED
    BY <2>2 DEF Stale
<1> QED
  BY <1>1, <1>2, NextEffect DEF Effect, Filed, tables

\* Report and verdict survive each other, and a report on an older revision reads as stale
\* once a request has written the row in a later second.
THEOREM ReviewsHold == Spec => VerificationsHold
<1>1. StoreInv /\ [Next]_vars =>
        [\A n \in DOMAIN verifications \cap DOMAIN nodes' :
           IF nodes'[n].kind # nodes[n].kind THEN n \notin DOMAIN verifications'
           ELSE /\ n \in DOMAIN verifications'
                /\ \/ /\ verifications'[n].result = verifications[n].result
                      /\ verifications'[n].rev = verifications[n].rev
                   \/ verifications'[n].verdict = verifications[n].verdict]_vars
  BY HalvesStep
<1>2. StoreInv /\ [Next]_vars =>
        [Logs /\ LastEvent.kind \in {"NODE_UPDATED", "STATUS_SET"} =>
           LET n == LastEvent.node IN
           n \in DOMAIN verifications' /\ verifications'[n].result # "NULL"
             /\ now > verifications'[n].rev => Stale(nodes', verifications', n)]_vars
  BY StaleStep
<1> QED
  BY <1>1, <1>2, StoreInvariant, PTL
     DEF Spec, VerificationsHold, ReportAndVerdictIndependent, LaterChangeMakesStale

-----------------------------------------------------------------------------
(* What callers are told.                                                    *)

\* A message has one of the codes.
LEMMA ClassifyGivesCode ==
  ASSUME NEW text
  PROVE  Classify(text) \in {"NotFound", "InvalidArgument", "FailedPrecondition", "Internal"}
<1>1. DOMAIN Patterns = {"NotFound", "InvalidArgument", "FailedPrecondition"}
  BY DEF Patterns
<1>2. CASE \E code \in DOMAIN Patterns : text \in Patterns[code]
  <2>1. Classify(text) = CHOOSE code \in DOMAIN Patterns : text \in Patterns[code]
    BY <1>2 DEF Classify
  <2>2. (CHOOSE code \in DOMAIN Patterns : text \in Patterns[code]) \in DOMAIN Patterns
    BY <1>2
  <2> QED
    BY <1>1, <2>1, <2>2
<1>3. CASE ~\E code \in DOMAIN Patterns : text \in Patterns[code]
  BY <1>3 DEF Classify
<1> QED
  BY <1>2, <1>3

\* Each code is the same status natively and through its prefix.
LEMMA EdgesReadTheSame ==
  ASSUME NEW text
  PROVE  Status(text) = ToConnectError(AsStr[Classify(text)])
<1>1. \A code \in {"NotFound", "InvalidArgument", "FailedPrecondition", "Internal"} :
        IntoStatus[code] = ToConnectError(AsStr[code])
  BY DEF IntoStatus, ToConnectError, AsStr, CODES
<1> QED
  BY <1>1, ClassifyGivesCode DEF Status

\* Fields that the operation takes, and a request that has such fields.
Takes(op, n, m, arg) ==
  \/ op = "create_project"
  \/ op = "create" /\ n \in ProjectIds /\ m \in Parents /\ arg \in Kinds \cup {"UNSPECIFIED"}
  \/ op = "update_project" /\ n \in ProjectIds /\ arg \in {"text", "unknown", "none"}
  \/ op = "archive" /\ n \in ProjectIds /\ arg \in BOOLEAN
  \/ op = "undo" /\ n \in ProjectIds /\ arg \in 0 .. MaxSeq
  \/ op = "search" /\ n \in ProjectIds /\ arg \in Queries
  \/ op = "update" /\ n \in NodeIds /\ arg \in Masks
  \/ op = "delete" /\ n \in NodeIds /\ arg \in BOOLEAN
  \/ op = "status" /\ n \in NodeIds /\ arg \in Statuses \cup {"UNSPECIFIED"}
  \/ op = "move" /\ n \in NodeIds /\ m \in Parents /\ arg \in Kinds \cup {"UNSPECIFIED"}
  \/ op = "report" /\ n \in NodeIds /\ arg \in AgentResults \cup {"UNSPECIFIED"}
  \/ op = "verdict" /\ n \in NodeIds /\ arg \in Verdicts \cup {"UNSPECIFIED"}
  \/ op = "comment" /\ n \in NodeIds
  \/ op \in {"depend", "release"} /\ n \in NodeIds /\ m \in NodeIds

Fits(r) == r.key \in KeysOrNone /\ Takes(r.op, r.n, r.m, r.arg)

\* Whatever the key is.
LEMMA AnyKeyFits ==
  ASSUME NEW op, NEW n, NEW m, NEW arg, NEW key \in KeysOrNone, Takes(op, n, m, arg)
  PROVE  Fits([Asked(op, n, m, arg) EXCEPT !.key = key]) /\ Fits(Asked(op, n, m, arg))
<1> DEFINE r == Asked(op, n, m, arg)
           q == [r EXCEPT !.key = key]
<1>1. q.op = op /\ q.n = n /\ q.m = m /\ q.arg = arg /\ q.key = key
  BY DEF Asked
<1>2. r.op = op /\ r.n = n /\ r.m = m /\ r.arg = arg /\ r.key \in KeysOrNone
  BY DEF Asked, KeysOrNone
<1> HIDE DEF r, q
<1>3. Fits(q) /\ Fits(r)
  BY <1>1, <1>2 DEF Fits
<1> QED
  BY <1>3 DEF q, r

\* The sets of requests hold requests whose fields fit.
LEMMA UnkeyedFits ==
  ASSUME NEW r \in Unkeyed
  PROVE  \E op, n, m, arg : r = Asked(op, n, m, arg) /\ Takes(op, n, m, arg)
<1>1. CASE \E p \in ProjectIds, mask \in {"text", "unknown", "none"} :
             r = Asked("update_project", p, NoNode, mask)
  <2>1. \A p \in ProjectIds, mask \in {"text", "unknown", "none"} : Takes("update_project", p, NoNode, mask)
    BY Zenon DEF Takes
  <2> QED
    BY <1>1, <2>1, Zenon
<1>2. CASE \E p \in ProjectIds, archived \in BOOLEAN :
             r = Asked("archive", p, NoNode, archived)
  <2>1. \A p \in ProjectIds, archived \in BOOLEAN : Takes("archive", p, NoNode, archived)
    BY Zenon DEF Takes
  <2> QED
    BY <1>2, <2>1, Zenon
<1>3. CASE \E p \in ProjectIds, query \in Queries :
             r = Asked("search", p, NoNode, query)
  <2>1. \A p \in ProjectIds, query \in Queries : Takes("search", p, NoNode, query)
    BY Zenon DEF Takes
  <2> QED
    BY <1>3, <2>1, Zenon
<1> QED
  BY <1>1, <1>2, <1>3 DEF Unkeyed

\* And so do those that carry a key.
LEMMA KeyedFits ==
  ASSUME NEW r \in Keyed
  PROVE  \E op, n, m, arg : r = Asked(op, n, m, arg) /\ Takes(op, n, m, arg)
<1>1. CASE r = Asked("create_project", NoNode, NoNode, "none")
  <2>1. Takes("create_project", NoNode, NoNode, "none")
    BY Zenon DEF Takes
  <2> QED
    BY <1>1, <2>1, Zenon
<1>2. CASE \E p \in ProjectIds, parent \in Parents, kind \in Kinds \cup {"UNSPECIFIED"} :
             r = Asked("create", p, parent, kind)
  <2>1. \A p \in ProjectIds, parent \in Parents, kind \in Kinds \cup {"UNSPECIFIED"} :
          Takes("create", p, parent, kind)
    BY Zenon DEF Takes
  <2> QED
    BY <1>2, <2>1, Zenon
<1>3. CASE \E p \in ProjectIds, seq \in 0 .. MaxSeq :
             r = Asked("undo", p, NoNode, seq)
  <2>1. \A p \in ProjectIds, seq \in 0 .. MaxSeq : Takes("undo", p, NoNode, seq)
    BY Zenon DEF Takes
  <2> QED
    BY <1>3, <2>1, Zenon
<1>4. CASE \E n \in NodeIds, mask \in Masks :
             r = Asked("update", n, NoNode, mask)
  <2>1. \A n \in NodeIds, mask \in Masks : Takes("update", n, NoNode, mask)
    BY Zenon DEF Takes
  <2> QED
    BY <1>4, <2>1, Zenon
<1>5. CASE \E n \in NodeIds, flag \in BOOLEAN :
             r = Asked("delete", n, NoNode, flag)
  <2>1. \A n \in NodeIds, flag \in BOOLEAN : Takes("delete", n, NoNode, flag)
    BY Zenon DEF Takes
  <2> QED
    BY <1>5, <2>1, Zenon
<1>6. CASE \E n \in NodeIds, status \in Statuses \cup {"UNSPECIFIED"} :
             r = Asked("status", n, NoNode, status)
  <2>1. \A n \in NodeIds, status \in Statuses \cup {"UNSPECIFIED"} : Takes("status", n, NoNode, status)
    BY Zenon DEF Takes
  <2> QED
    BY <1>6, <2>1, Zenon
<1>7. CASE \E n \in NodeIds, parent \in Parents, kind \in Kinds \cup {"UNSPECIFIED"} :
             r = Asked("move", n, parent, kind)
  <2>1. \A n \in NodeIds, parent \in Parents, kind \in Kinds \cup {"UNSPECIFIED"} :
          Takes("move", n, parent, kind)
    BY Zenon DEF Takes
  <2> QED
    BY <1>7, <2>1, Zenon
<1>8. CASE \E n \in NodeIds, result \in AgentResults \cup {"UNSPECIFIED"} :
             r = Asked("report", n, NoNode, result)
  <2>1. \A n \in NodeIds, result \in AgentResults \cup {"UNSPECIFIED"} : Takes("report", n, NoNode, result)
    BY Zenon DEF Takes
  <2> QED
    BY <1>8, <2>1, Zenon
<1>9. CASE \E n \in NodeIds, verdict \in Verdicts \cup {"UNSPECIFIED"} :
             r = Asked("verdict", n, NoNode, verdict)
  <2>1. \A n \in NodeIds, verdict \in Verdicts \cup {"UNSPECIFIED"} : Takes("verdict", n, NoNode, verdict)
    BY Zenon DEF Takes
  <2> QED
    BY <1>9, <2>1, Zenon
<1>10. CASE \E n \in NodeIds :
             r = Asked("comment", n, NoNode, "none")
  <2>1. \A n \in NodeIds : Takes("comment", n, NoNode, "none")
    BY Zenon DEF Takes
  <2> QED
    BY <1>10, <2>1, Zenon
<1>11. CASE \E op \in {"depend", "release"}, n \in NodeIds, m \in NodeIds :
             r = Asked(op, n, m, "none")
  <2>1. \A op \in {"depend", "release"}, n \in NodeIds, m \in NodeIds : Takes(op, n, m, "none")
    BY Zenon DEF Takes
  <2> QED
    BY <1>11, <2>1, Zenon
<1> QED
  BY <1>1, <1>2, <1>3, <1>4, <1>5, <1>6, <1>7, <1>8, <1>9, <1>10, <1>11 DEF Keyed

\* Every request has fields that fit.
LEMMA RequestFits ==
  ASSUME NEW r \in Requests
  PROVE  Fits(r)
<1>1. CASE r \in Unkeyed
  <2>1. PICK op, n, m, arg : r = Asked(op, n, m, arg) /\ Takes(op, n, m, arg)
    BY <1>1, UnkeyedFits
  <2>2. NoKey \in KeysOrNone
    BY DEF KeysOrNone
  <2> QED
    BY <2>1, <2>2, AnyKeyFits
<1>2. CASE r \in WithKeys(Keyed)
  <2>1. PICK q \in Keyed, key \in KeysOrNone : r = [q EXCEPT !.key = key]
    BY <1>2 DEF WithKeys, KeysOrNone
  <2>2. PICK op, n, m, arg : q = Asked(op, n, m, arg) /\ Takes(op, n, m, arg)
    BY KeyedFits
  <2> QED
    BY <2>1, <2>2, AnyKeyFits
<1> QED
  BY <1>1, <1>2 DEF Requests

\* Every request but a search is one of the store's.
LEMMA DoneSteps ==
  ASSUME NEW r, Fits(r), Done(r), UNCHANGED now
  PROVE  Request \/ Search(r.arg)
<1>1. r.key \in Keys \cup {NoKey}
  BY DEF Fits, Takes, KeysOrNone
<1>2. OnProjects(r.key) \/ OnNodes(r.key) => Request
  BY <1>1 DEF Request
<1> USE DEF Fits, Takes
<1>3. CASE r.op = "create_project" /\ CreateProject(r.key)
  BY <1>2, <1>3 DEF OnProjects
<1>4. CASE r.op = "create" /\ CreateNode(r.n, r.m, r.arg, r.key)
  BY <1>2, <1>4 DEF OnProjects
<1>5. CASE r.op = "update_project" /\ UpdateProject(r.n, r.arg)
  BY <1>2, <1>5 DEF OnProjects
<1>6. CASE r.op = "archive" /\ ArchiveProject(r.n, r.arg)
  BY <1>2, <1>6 DEF OnProjects
<1>7. CASE r.op = "undo" /\ Undo(r.n, r.arg, r.key)
  BY <1>2, <1>7 DEF OnProjects
<1>8. CASE r.op = "search" /\ Search(r.arg)
  BY <1>8
<1>9. CASE r.op = "update" /\ UpdateNode(r.n, r.arg, r.key)
  BY <1>2, <1>9 DEF OnNodes
<1>10. CASE r.op = "delete" /\ DeleteNode(r.n, r.arg, r.key)
  BY <1>2, <1>10 DEF OnNodes
<1>11. CASE r.op = "status" /\ SetStatus(r.n, r.arg, r.key)
  BY <1>2, <1>11 DEF OnNodes
<1>12. CASE r.op = "move" /\ MoveNode(r.n, r.m, r.arg, r.key)
  BY <1>2, <1>12 DEF OnNodes
<1>13. CASE r.op = "report" /\ ReportCondition(r.n, r.arg, r.key)
  BY <1>2, <1>13 DEF OnNodes
<1>14. CASE r.op = "verdict" /\ SetVerdict(r.n, r.arg, r.key)
  BY <1>2, <1>14 DEF OnNodes
<1>15. CASE r.op = "comment" /\ AddComment(r.n, r.key)
  BY <1>2, <1>15 DEF OnNodes
<1>16. CASE r.op = "depend" /\ AddDependency(r.n, r.m, r.key)
  BY <1>2, <1>16 DEF OnNodes
<1>17. CASE r.op = "release" /\ RemoveDependency(r.n, r.m, r.key)
  BY <1>2, <1>17 DEF OnNodes
<1> QED
  BY <1>3, <1>4, <1>5, <1>6, <1>7, <1>8, <1>9, <1>10, <1>11, <1>12, <1>13, <1>14, <1>15, <1>16,
     <1>17 DEF Done

\* So the store's invariant holds here too.
LEMMA ErrorsHold ==
  /\ ErrorInit => StoreInv
  /\ StoreInv /\ [ErrorNext]_errorVars => StoreInv'
<1>1. ErrorInit => StoreInv
  BY InitHolds DEF ErrorInit
<1>2. ASSUME StoreInv, [ErrorNext]_errorVars PROVE StoreInv'
  <2>1. CASE UNCHANGED errorVars
    BY <1>2, <2>1, NextHolds DEF errorVars
  <2>2. CASE ErrorNext
    <3>1. PICK r \in Requests : Done(r) /\ UNCHANGED now
      BY <2>2 DEF ErrorNext
    <3>2. CASE Request
      BY <1>2, <3>2, NextHolds DEF Next
    <3>3. CASE Search(r.arg)
      <4>1. UNCHANGED tables /\ reply' \in Replies
        <5>1. Error \in Replies /\ [Error EXCEPT !.ok = TRUE] \in Replies
          BY DEF Error, Replies, Scopes, Entities
        <5> QED
          BY <3>3, <5>1 DEF Search
      <4>2. TypeOK'
        BY <1>2, <3>1, <4>1 DEF StoreInv, TypeOK, tables
      <4> QED
        BY <1>2, <4>1, <4>2
           DEF tables, StoreInv, RowsFit, HierarchyOK, LogFits, IdsAreMinted, LogIsNumbered,
               LedgerPointsAtItsWrite, EntriesFit, Live, HasImage
    <3> QED
      BY <3>1, <3>2, <3>3, DoneSteps, RequestFits
  <2> QED
    BY <1>2, <2>1, <2>2
<1> QED
  BY <1>1, <1>2

-----------------------------------------------------------------------------
(* The messages of the schema.                                               *)

\* The triggers, the CHECK and the foreign key say no to a new row exactly when it does not fit.
LEMMA InsertTold ==
  ASSUME TypeOK, NEW row, NEW full, full.kind \in Kinds,
         row.project = full.project, row.parent = full.parent, row.kind = full.kind
  PROVE  InsertMessage(row) = "none" <=> InsertAccepted(projects, nodes, full)
<1>1. NoNode \notin DOMAIN nodes
  BY SchemaAssumption DEF TypeOK, IsTable
<1> DEFINE parent == full.parent
           kind == full.kind
<1>2. ~KindTrigger(nodes, parent, kind) /\ ~KindCheck(parent, kind) <=> ParentFits(nodes, kind, parent)
  <2>1. CASE kind = "WORK_PACKAGE"
    BY <1>1, <2>1 DEF KindTrigger, KindCheck, ParentFits, ParentKind
  <2>2. CASE kind \in {"TASK", "STEP"}
    BY <1>1, <2>2 DEF KindTrigger, KindCheck, ParentFits, ParentKind
  <2> QED
    BY <2>1, <2>2 DEF Kinds
<1> QED
  BY <1>2 DEF InsertMessage, InsertAccepted

\* So do the cycle trigger and the foreign keys to a new edge.
LEMMA EdgeTold ==
  ASSUME NEW blocker, NEW blocked
  PROVE  EdgeMessage(blocker, blocked) = "none" <=> EdgeAccepted(nodes, deps, blocker, blocked)
  BY DEF EdgeMessage, EdgeAccepted

\* The trigger on moves reads the node where it was, the others as the demotion left them; a
\* node below another is no work package.
LEMMA MoveTold ==
  ASSUME StoreInv, NEW n \in Live, NEW parent \in Parents, NEW kind \in Kinds \cup {"UNSPECIFIED"},
         NEW gone, gone = UNION {Subtree(nodes, c) : c \in IF nodes[n].kind = "TASK" /\ kind = "STEP"
                                                              THEN Children(nodes, n) ELSE {}}
  PROVE  MoveMessage(n, parent, kind) = "none" <=>
           ~(\/ kind \in {"UNSPECIFIED", "WORK_PACKAGE"}
             \/ nodes[n].kind = "WORK_PACKAGE"
             \/ ~UpdateAccepted(NodesWithout(nodes, gone), n, parent, kind))
<1> DEFINE rest == NodesWithout(nodes, gone)
<1>1. n \notin gone
  <2>1. CASE nodes[n].kind = "TASK" /\ kind = "STEP"
    <3>1. gone = Children(nodes, n) /\ \A c \in Children(nodes, n) : nodes[c].kind = "STEP"
      BY <2>1, StepsOfTask
    <3> QED
      BY <2>1, <3>1
  <2>2. CASE ~(nodes[n].kind = "TASK" /\ kind = "STEP")
    BY <2>2
  <2> QED
    BY <2>1, <2>2
<1>2. /\ DOMAIN rest = Live \ gone /\ \A m \in Live \ gone : rest[m] = nodes[m]
      /\ n \in DOMAIN rest /\ rest[n] = nodes[n]
  BY <1>1 DEF NodesWithout, Restrict, Live
<1>3. n # NoNode /\ NoNode \notin DOMAIN rest
  BY <1>2, NodeAtHand, SchemaAssumption DEF Live
<1>4. \A c \in Children(rest, n) : rest[c].kind \in {"TASK", "STEP"}
  <2> SUFFICES ASSUME NEW c \in Children(rest, n) PROVE rest[c].kind \in {"TASK", "STEP"}
    OBVIOUS
  <2>1. c \in Live /\ rest[c] = nodes[c] /\ nodes[c].parent = n
    BY <1>2 DEF Children
  <2>2. ParentFits(nodes, nodes[c].kind, n)
    BY <2>1 DEF StoreInv, RowsFit, HierarchyOK
  <2> QED
    BY <1>3, <2>1, <2>2 DEF ParentFits, ParentKind
<1>5. MoveMessage(n, parent, kind) =
        IF kind = "UNSPECIFIED" THEN "move requires a target kind"
        ELSE IF "WORK_PACKAGE" \in {kind, nodes[n].kind} THEN "move cannot promote or demote a work package"
        ELSE IF parent = n THEN "a node cannot be its own parent"
        ELSE IF KindTrigger(rest, parent, kind) THEN "invalid parent kind for node"
        ELSE IF parent \in DOMAIN rest /\ rest[parent].project # nodes[n].project THEN "cross-project move"
        ELSE IF \E c \in Children(rest, n) : ParentKind[rest[c].kind] # kind THEN "children invalid for new kind"
        ELSE IF KindCheck(parent, kind) THEN "CHECK constraint failed"
        ELSE "none"
  BY DEF MoveMessage
<1> HIDE DEF rest
<1>6. ASSUME kind \in {"TASK", "STEP"}
      PROVE  ~KindTrigger(rest, parent, kind) /\ ~KindCheck(parent, kind) <=>
               ParentFits(rest, kind, parent)
  BY <1>3, <1>6 DEF KindTrigger, KindCheck, ParentFits, ParentKind
<1>7. ASSUME ParentFits(rest, kind, parent), kind \in {"TASK", "STEP"}
      PROVE  parent \in DOMAIN rest /\ parent # NoNode
  BY <1>3, <1>7 DEF ParentFits
<1>8. (\A c \in Children(rest, n) : rest[c].kind # "WORK_PACKAGE" /\ ParentKind[rest[c].kind] = kind)
        <=> ~\E c \in Children(rest, n) : ParentKind[rest[c].kind] # kind
  BY <1>4
<1>9. ASSUME kind \in {"TASK", "STEP"}
      PROVE  UpdateAccepted(rest, n, parent, kind) <=>
               /\ parent # n
               /\ ~KindTrigger(rest, parent, kind)
               /\ ~(parent \in DOMAIN rest /\ rest[parent].project # nodes[n].project)
               /\ ~\E c \in Children(rest, n) : ParentKind[rest[c].kind] # kind
               /\ ~KindCheck(parent, kind)
  BY <1>2, <1>6, <1>7, <1>8, <1>9 DEF UpdateAccepted
<1>10. CASE kind \in {"TASK", "STEP"}
  BY <1>5, <1>9, <1>10 DEF rest
<1>11. CASE kind \in {"UNSPECIFIED", "WORK_PACKAGE"}
  BY <1>5, <1>11
<1> QED
  BY <1>10, <1>11 DEF Kinds

-----------------------------------------------------------------------------
(* Each operation has a message when it refuses, and none when it answers.   *)

\* What is written is answered, and what is refused is not.
LEMMA CommitsAnswer ==
  /\ Refuse => ~reply'.ok
  /\ \A scope, key, affected, entity : Replay(scope, key, affected, entity) => reply'.ok /\ Hit(scope, key)
  /\ \A kept, bare, event, key, entity, affected :
       Commit(kept, bare, event, key, entity, affected) => reply'.ok
  /\ \A event, key, affected : Log(event, key, affected) => reply'.ok
  BY DEF Refuse, Error, Replay, Commit, Log

\* An operation on one node is refused where there is no node, or where its own rule says so.
LEMMA NodeTold ==
  ASSUME NEW n, NEW key, NEW refused \in BOOLEAN,
         NotWritten(n, key, refused) \/ (Accepted(n, key, refused) /\ reply'.ok)
  PROVE  reply'.ok <=> n \in DOMAIN nodes /\ (Hit(ProjectOf(n), key) \/ ~refused)
  BY CommitsAnswer DEF NotWritten, Accepted, ProjectOf

\* An empty or unknown mask, and a state on what is no work package, have a message each.
LEMMA UpdateTold ==
  ASSUME NEW r, r.op = "update", Fits(r), UpdateNode(r.n, r.arg, r.key)
  PROVE  reply'.ok <=> Message(r) = "none"
<1> DEFINE refused == ~MaskAccepted(nodes[r.n].kind, r.arg)
<1>1. refused \in BOOLEAN
  BY DEF MaskAccepted
<1>2. reply'.ok <=> r.n \in DOMAIN nodes /\ (Hit(ProjectOf(r.n), r.key) \/ ~refused)
  <2>1. NotWritten(r.n, r.key, refused) \/ (Accepted(r.n, r.key, refused) /\ reply'.ok)
    BY CommitsAnswer DEF UpdateNode
  <2> HIDE DEF refused
  <2> QED
    BY <1>1, <2>1, NodeTold
<1>3. refused <=> (MaskMessage(r.arg) # "none" \/ ~MaskAccepted(nodes[r.n].kind, r.arg))
  BY DEF MaskMessage, MaskAccepted
<1>4. Message(r) = NodeMessage(r) /\ ScopeOf(r) = ProjectOf(r.n)
  BY DEF Message, ScopeOf
<1> QED
  BY <1>2, <1>3, <1>4 DEF NodeMessage

\* A delete is refused on request only, where there are edges.
LEMMA DeleteTold ==
  ASSUME NEW r, r.op = "delete", Fits(r), DeleteNode(r.n, r.arg, r.key)
  PROVE  reply'.ok <=> Message(r) = "none"
<1> DEFINE refused == r.arg /\ \E e \in deps : r.n \in {e[1], e[2]}
<1>1. refused \in BOOLEAN
  BY DEF Fits, Takes
<1>2. reply'.ok <=> r.n \in DOMAIN nodes /\ (Hit(ProjectOf(r.n), r.key) \/ ~refused)
  <2>1. NotWritten(r.n, r.key, refused) \/ (Accepted(r.n, r.key, refused) /\ reply'.ok)
    BY CommitsAnswer DEF DeleteNode
  <2> HIDE DEF refused
  <2> QED
    BY <1>1, <2>1, NodeTold
<1>3. Message(r) = NodeMessage(r) /\ ScopeOf(r) = ProjectOf(r.n)
  BY DEF Message, ScopeOf
<1> QED
  BY <1>2, <1>3 DEF NodeMessage

\* A status, a verdict and a comment have no rule of their own.
LEMMA PlainTold ==
  ASSUME NEW r,
         \/ r.op = "status" /\ SetStatus(r.n, r.arg, r.key)
         \/ r.op = "verdict" /\ SetVerdict(r.n, r.arg, r.key)
         \/ r.op = "comment" /\ AddComment(r.n, r.key)
  PROVE  reply'.ok <=> Message(r) = "none"
<1>1. reply'.ok <=> r.n \in DOMAIN nodes
  <2>1. NotWritten(r.n, r.key, FALSE) \/ (Accepted(r.n, r.key, FALSE) /\ reply'.ok)
    BY CommitsAnswer DEF SetStatus, SetVerdict, AddComment
  <2> QED
    BY <2>1, NodeTold
<1>2. Message(r) = NodeMessage(r)
  BY DEF Message
<1> QED
  BY <1>1, <1>2 DEF NodeMessage

\* A report without a result is refused.
LEMMA ReportTold ==
  ASSUME NEW r, r.op = "report", ReportCondition(r.n, r.arg, r.key)
  PROVE  reply'.ok <=> Message(r) = "none"
<1> DEFINE refused == r.arg = "UNSPECIFIED"
<1>1. refused \in BOOLEAN
  OBVIOUS
<1>2. reply'.ok <=> r.n \in DOMAIN nodes /\ (Hit(ProjectOf(r.n), r.key) \/ ~refused)
  <2>1. NotWritten(r.n, r.key, refused) \/ (Accepted(r.n, r.key, refused) /\ reply'.ok)
    BY CommitsAnswer DEF ReportCondition
  <2> HIDE DEF refused
  <2> QED
    BY <1>1, <2>1, NodeTold
<1>3. Message(r) = NodeMessage(r) /\ ScopeOf(r) = ProjectOf(r.n)
  BY DEF Message, ScopeOf
<1> QED
  BY <1>2, <1>3 DEF NodeMessage

\* Each rule on moves has a message of its own.
LEMMA MoveNodeTold ==
  ASSUME StoreInv, NEW r, r.op = "move", Fits(r), MoveNode(r.n, r.m, r.arg, r.key)
  PROVE  reply'.ok <=> Message(r) = "none"
<1> DEFINE demoted == IF nodes[r.n].kind = "TASK" /\ r.arg = "STEP" THEN Children(nodes, r.n) ELSE {}
           gone == UNION {Subtree(nodes, c) : c \in demoted}
           refused == \/ r.arg \in {"UNSPECIFIED", "WORK_PACKAGE"}
                      \/ nodes[r.n].kind = "WORK_PACKAGE"
                      \/ ~UpdateAccepted(NodesWithout(nodes, gone), r.n, r.m, r.arg)
<1>1. refused \in BOOLEAN
  OBVIOUS
<1>2. reply'.ok <=> r.n \in DOMAIN nodes /\ (Hit(ProjectOf(r.n), r.key) \/ ~refused)
  <2>1. NotWritten(r.n, r.key, refused) \/ (Accepted(r.n, r.key, refused) /\ reply'.ok)
    BY CommitsAnswer DEF MoveNode
  <2> HIDE DEF refused
  <2> QED
    BY <1>1, <2>1, NodeTold
<1>3. Message(r) = NodeMessage(r) /\ ScopeOf(r) = ProjectOf(r.n)
  BY DEF Message, ScopeOf
<1>4. r.n \in DOMAIN nodes => (MoveMessage(r.n, r.m, r.arg) = "none" <=> ~refused)
  <2> SUFFICES ASSUME r.n \in DOMAIN nodes PROVE MoveMessage(r.n, r.m, r.arg) = "none" <=> ~refused
    OBVIOUS
  <2>1. r.n \in Live /\ r.m \in Parents /\ r.arg \in Kinds \cup {"UNSPECIFIED"}
    BY DEF Fits, Takes, Live
  <2> QED
    BY <2>1, MoveTold
<1> HIDE DEF refused
<1> QED
  BY <1>2, <1>3, <1>4 DEF NodeMessage

\* A new node is judged by the schema alone, unless its key is known.
LEMMA CreateTold ==
  ASSUME StoreInv, NEW r, r.op = "create", Fits(r), CreateNode(r.n, r.m, r.arg, r.key)
  PROVE  reply'.ok <=> Message(r) = "none"
<1> DEFINE row == [project |-> r.n, parent |-> r.m, kind |-> KindStr(r.arg), status |-> "OPEN",
                   updated |-> now]
           asked == [project |-> r.n, parent |-> r.m, kind |-> KindStr(r.arg)]
<1>1. Message(r) = IF Hit(r.n, r.key) THEN "none" ELSE InsertMessage(asked)
  BY DEF Message, ScopeOf
<1>2. InsertMessage(asked) = "none" <=> InsertAccepted(projects, nodes, row)
  <2>1. row.kind \in Kinds
    BY DEF Fits, Takes, KindStr, Kinds
  <2>2. asked.project = row.project /\ asked.parent = row.parent /\ asked.kind = row.kind
    OBVIOUS
  <2> HIDE DEF row, asked
  <2> QED
    BY <2>1, <2>2, InsertTold DEF StoreInv
<1>3. reply'.ok <=> Hit(r.n, r.key) \/ InsertAccepted(projects, nodes, row)
  BY CommitsAnswer DEF CreateNode
<1> QED
  BY <1>1, <1>2, <1>3

\* An edge is judged by the schema; to take one away the blocker must be there.
LEMMA EdgesTold ==
  ASSUME StoreInv, NEW r,
         \/ r.op = "depend" /\ AddDependency(r.n, r.m, r.key)
         \/ r.op = "release" /\ RemoveDependency(r.n, r.m, r.key)
  PROVE  reply'.ok <=> Message(r) = "none"
<1>1. ScopeOf(r) = ProjectOf(r.n)
  BY DEF ScopeOf
<1>2. CASE r.op = "depend" /\ AddDependency(r.n, r.m, r.key)
  <2>1. Message(r) = IF Hit(ProjectOf(r.n), r.key) THEN "none" ELSE EdgeMessage(r.n, r.m)
    BY <1>1, <1>2 DEF Message
  <2>2. reply'.ok <=> Hit(ProjectOf(r.n), r.key) \/ EdgeAccepted(nodes, deps, r.n, r.m)
    BY <1>2, CommitsAnswer DEF AddDependency
  <2> QED
    BY <2>1, <2>2, EdgeTold
<1>3. CASE r.op = "release" /\ RemoveDependency(r.n, r.m, r.key)
  <2>1. Message(r) = IF Hit(ProjectOf(r.n), r.key) THEN "none"
                     ELSE IF r.n \in DOMAIN nodes THEN "none" ELSE "FOREIGN KEY constraint failed"
    BY <1>1, <1>3 DEF Message
  <2>2. reply'.ok <=> Hit(ProjectOf(r.n), r.key) \/ ProjectOf(r.n) # NoProject
    BY <1>3, CommitsAnswer DEF RemoveDependency
  <2>3. ProjectOf(r.n) # NoProject <=> r.n \in DOMAIN nodes
    BY NodeAtHand, FieldsOfRow, SchemaAssumption DEF ProjectOf
  <2> QED
    BY <2>1, <2>2, <2>3
<1> QED
  BY <1>2, <1>3

\* What is asked of projects, and a search, which writes nothing.
LEMMA ProjectsTold ==
  ASSUME NEW r, Fits(r),
         \/ r.op = "create_project" /\ CreateProject(r.key)
         \/ r.op = "update_project" /\ UpdateProject(r.n, r.arg)
         \/ r.op = "archive" /\ ArchiveProject(r.n, r.arg)
         \/ r.op = "search" /\ Search(r.arg)
  PROVE  reply'.ok <=> Message(r) = "none"
<1>1. ~Error.ok /\ \A key, entity : [Error EXCEPT !.ok = TRUE, !.key = key, !.entity = entity].ok
      /\ \A id : [Error EXCEPT !.ok = TRUE, !.entity = id].ok
      /\ [Error EXCEPT !.ok = TRUE].ok
  BY DEF Error
<1>2. CASE r.op = "create_project" /\ CreateProject(r.key)
  <2>1. Message(r) = "none"
    BY <1>2 DEF Message
  <2>2. reply'.ok
    BY <1>1, <1>2, CommitsAnswer DEF CreateProject
  <2> QED
    BY <2>1, <2>2
<1>3. CASE r.op = "update_project" /\ UpdateProject(r.n, r.arg)
  <2>1. Message(r) = IF r.n \notin DOMAIN projects THEN "project not found" ELSE MaskMessage(r.arg)
    BY <1>3 DEF Message
  <2>2. MaskMessage(r.arg) = "none" <=> r.arg = "text"
    BY <1>3 DEF MaskMessage, Fits, Takes
  <2>3. reply'.ok <=> r.n \in DOMAIN projects /\ r.arg = "text"
    BY <1>1, <1>3, CommitsAnswer DEF UpdateProject
  <2> QED
    BY <2>1, <2>2, <2>3
<1>4. CASE r.op = "archive" /\ ArchiveProject(r.n, r.arg)
  <2>1. Message(r) = IF r.n \notin DOMAIN projects THEN "project not found" ELSE "none"
    BY <1>4 DEF Message
  <2>2. reply'.ok <=> r.n \in DOMAIN projects
    BY <1>1, <1>4, CommitsAnswer DEF ArchiveProject
  <2> QED
    BY <2>1, <2>2
<1>5. CASE r.op = "search" /\ Search(r.arg)
  <2>1. Message(r) = SearchMessage(r.arg)
    BY <1>5 DEF Message
  <2>2. SearchMessage(r.arg) = "none" <=> r.arg = "words"
    BY <1>5 DEF SearchMessage, Fits, Takes, Queries
  <2>3. reply'.ok <=> r.arg = "words"
    BY <1>1, <1>5 DEF Search
  <2> QED
    BY <2>1, <2>2, <2>3
<1> QED
  BY <1>2, <1>3, <1>4, <1>5

\* A request means one event.
LEMMA OneTarget ==
  ASSUME StoreInv, NEW p, NEW seq, NEW s \in DOMAIN events, NEW t \in DOMAIN events,
         IsTarget(p, seq, s), IsTarget(p, seq, t)
  PROVE  s = t
<1>1. s \in Nat /\ t \in Nat
  BY DEF StoreInv, TypeOK, IsTable
<1>2. CASE seq = 0
  <2>1. s <= t /\ t <= s
    BY <1>2 DEF IsTarget
  <2> QED
    BY <1>1, <2>1
<1>3. CASE seq # 0
  BY <1>3 DEF IsTarget
<1> QED
  BY <1>2, <1>3

\* What undo says of an event, and whether it can take it back.
LEMMA RevertTold ==
  ASSUME StoreInv, NEW t \in DOMAIN events, NEW p, NEW seq, NEW key, ~Hit(p, key),
         IsTarget(p, seq, t)
  PROVE  /\ UndoMessage(p, seq, key) = "none" <=> ~NotUndoable(events[t])
         /\ Revert(events[t], key) => (reply'.ok <=> ~NotUndoable(events[t]))
<1> DEFINE event == events[t]
<1>1. (CHOOSE s \in DOMAIN events : IsTarget(p, seq, s)) = t
  BY OneTarget
<1>2. UndoMessage(p, seq, key) =
        CASE event.kind \in {"DEP_ADDED", "DEP_REMOVED"} /\ event.payload = NoPayload ->
               "dep payload missing blocker"
          [] event.kind = "DEP_REMOVED" /\ event.payload # NoPayload ->
               EdgeMessage(event.payload.pair[1], event.payload.pair[2])
          [] event.kind = "NODE_DELETED" /\ event.payload = NoPayload ->
               "cannot undo delete: payload missing"
          [] event.kind = "NODE_DELETED" /\ event.payload \notin {NoPayload, [image |-> NoImage]} ->
               InsertMessage(event.payload.image.row)
          [] event.kind \in {"NODE_UPDATED", "AGENT_REPORTED", "VERDICT_SET", "COMMENT"} ->
               "cannot undo event kind"
          [] OTHER -> "none"
  BY <1>1 DEF UndoMessage
<1>3. event \in EventRows
  BY EventAtHand
<1>4. event.kind \in {"STATUS_SET", "DEP_ADDED", "DEP_REMOVED", "NODE_DELETED", "NODE_CREATED",
                      "NODE_UPDATED", "AGENT_REPORTED", "VERDICT_SET", "COMMENT"}
  BY <1>3 DEF EventRows, EventsOf
<1>5. ASSUME event.kind = "NODE_DELETED", event.payload # NoPayload
      PROVE  event.payload = [image |-> event.payload.image] /\ event.payload.image \in Images
  BY <1>3, <1>5 DEF EventRows, EventsOf
<1> HIDE DEF event
<1>6. ASSUME event.kind = "NODE_DELETED", event.payload # NoPayload
      PROVE  /\ event.payload = [image |-> NoImage] <=> event.payload.image = NoImage
             /\ event.payload.image # NoImage =>
                  (InsertMessage(event.payload.image.row) = "none" <=>
                     InsertAccepted(projects, nodes, event.payload.image.row))
  <2>1. event.payload = [image |-> NoImage] <=> event.payload.image = NoImage
    BY <1>5, <1>6
  <2>2. ASSUME event.payload.image # NoImage PROVE event.payload.image.row.kind \in Kinds
    BY <1>5, <1>6, <2>2, FieldsOfRow DEF Images
  <2> QED
    BY <2>1, <2>2, InsertTold DEF StoreInv
<1>7. UndoMessage(p, seq, key) = "none" <=> ~NotUndoable(event)
  <2>1. CASE event.kind \in {"STATUS_SET", "NODE_CREATED"}
    BY <1>2, <2>1 DEF NotUndoable
  <2>2. CASE event.kind = "DEP_ADDED"
    BY <1>2, <2>2 DEF NotUndoable
  <2>3. CASE event.kind = "DEP_REMOVED"
    BY <1>2, <2>3, EdgeTold DEF NotUndoable
  <2>4. CASE event.kind = "NODE_DELETED"
    <3>1. CASE event.payload = NoPayload
      BY <1>2, <2>4, <3>1 DEF NotUndoable
    <3>2. CASE event.payload # NoPayload /\ event.payload.image = NoImage
      <4>1. UndoMessage(p, seq, key) = "none"
        BY <1>2, <1>6, <2>4, <3>2
      <4> QED
        BY <2>4, <3>2, <4>1 DEF NotUndoable, RestoreAccepted
    <3>3. CASE event.payload # NoPayload /\ event.payload.image # NoImage
      <4>1. UndoMessage(p, seq, key) = InsertMessage(event.payload.image.row)
        BY <1>2, <1>6, <2>4, <3>3
      <4> QED
        BY <1>6, <2>4, <3>3, <4>1 DEF NotUndoable, RestoreAccepted
    <3> QED
      BY <3>1, <3>2, <3>3
  <2>5. CASE event.kind \in {"NODE_UPDATED", "AGENT_REPORTED", "VERDICT_SET", "COMMENT"}
    BY <1>2, <2>5 DEF NotUndoable
  <2> QED
    BY <1>4, <2>1, <2>2, <2>3, <2>4, <2>5
<1>8. ASSUME Revert(event, key) PROVE reply'.ok <=> ~NotUndoable(event)
  <2>1. CASE UndoStatus(event, key) \/ UndoCreated(event, key)
    <3>1. reply'.ok
      BY <2>1, CommitsAnswer DEF UndoStatus, UndoCreated
    <3>2. event.kind \in {"STATUS_SET", "NODE_CREATED"}
      BY <2>1 DEF UndoStatus, UndoCreated
    <3> QED
      BY <3>1, <3>2 DEF NotUndoable
  <2>2. CASE UndoDepAdded(event, key) \/ UndoDepRemoved(event, key)
    <3>1. reply'.ok
      BY <2>2, CommitsAnswer DEF UndoDepAdded, UndoDepRemoved
    <3> QED
      BY <2>2, <3>1 DEF NotUndoable, UndoDepAdded, UndoDepRemoved
  <2>3. CASE UndoDeleted(event, key)
    <3>1. reply'.ok
      BY <2>3, CommitsAnswer DEF UndoDeleted
    <3> QED
      BY <2>3, <3>1 DEF NotUndoable, UndoDeleted
  <2>4. CASE NotUndoable(event) /\ Refuse
    BY <2>4, CommitsAnswer
  <2> QED
    BY <1>8, <2>1, <2>2, <2>3, <2>4 DEF Revert
<1> QED
  BY <1>7, <1>8 DEF event

\* An undo is refused where there is no event or no inverse.
LEMMA UndoTold ==
  ASSUME StoreInv, NEW r, r.op = "undo", Undo(r.n, r.arg, r.key)
  PROVE  reply'.ok <=> Message(r) = "none"
<1>1. Message(r) = UndoMessage(r.n, r.arg, r.key)
  BY DEF Message
<1>2. CASE \A t \in DOMAIN events : ~IsTarget(r.n, r.arg, t)
  <2>1. UndoMessage(r.n, r.arg, r.key) = "no event to undo"
    BY <1>2 DEF UndoMessage
  <2> QED
    BY <1>1, <1>2, <2>1, CommitsAnswer DEF Undo
<1>3. ASSUME NEW t \in DOMAIN events, IsTarget(r.n, r.arg, t) PROVE reply'.ok <=> Message(r) = "none"
  <2>1. PICK s \in DOMAIN events :
          /\ IsTarget(r.n, r.arg, s)
          /\ Replay(r.n, r.key, {}, NoNode) \/ (~Hit(r.n, r.key) /\ Revert(events[s], r.key))
    BY <1>3 DEF Undo
  <2>2. CASE Hit(r.n, r.key)
    <3>1. reply'.ok
      BY <2>1, <2>2, CommitsAnswer
    <3> QED
      BY <1>1, <1>3, <2>2, <3>1 DEF UndoMessage
  <2>3. CASE ~Hit(r.n, r.key)
    <3>1. Revert(events[s], r.key)
      BY <2>1, <2>3, CommitsAnswer
    <3> QED
      BY <1>1, <2>1, <2>3, <3>1, RevertTold
  <2> QED
    BY <2>2, <2>3
<1> QED
  BY <1>2, <1>3

\* A request is refused when, and only when, there is a message for it.
LEMMA DoneTold ==
  ASSUME StoreInv, NEW r, Fits(r), Done(r)
  PROVE  reply'.ok <=> Message(r) = "none"
<1>1. CASE \/ r.op = "create_project" /\ CreateProject(r.key)
           \/ r.op = "update_project" /\ UpdateProject(r.n, r.arg)
           \/ r.op = "archive" /\ ArchiveProject(r.n, r.arg)
           \/ r.op = "search" /\ Search(r.arg)
  BY <1>1, ProjectsTold
<1>2. CASE \/ r.op = "status" /\ SetStatus(r.n, r.arg, r.key)
           \/ r.op = "verdict" /\ SetVerdict(r.n, r.arg, r.key)
           \/ r.op = "comment" /\ AddComment(r.n, r.key)
  BY <1>2, PlainTold
<1>3. CASE \/ r.op = "depend" /\ AddDependency(r.n, r.m, r.key)
           \/ r.op = "release" /\ RemoveDependency(r.n, r.m, r.key)
  BY <1>3, EdgesTold
<1> QED
  BY <1>1, <1>2, <1>3, CreateTold, UndoTold, UpdateTold, DeleteTold, MoveNodeTold, ReportTold DEF Done

\* A caller learns why it was refused, and the same from both daemons: whatever the store or the
\* schema refuses has a message in error.rs, what is written has none, and the status that flowd
\* makes of the message is the one that flowd.js makes of its prefix.
THEOREM CallersAreTold == ErrorSpec => RefusalsAreTold
<1>1. ASSUME StoreInv, [ErrorNext]_errorVars PROVE [reply'.ok <=> message' = "none"]_errorVars
  <2> SUFFICES ASSUME ErrorNext PROVE reply'.ok <=> message' = "none"
    BY <1>1
  <2>1. PICK r \in Requests : Done(r) /\ message' = Message(r)
    BY DEF ErrorNext
  <2> QED
    BY <1>1, <2>1, RequestFits, DoneTold
<1>2. ErrorSpec => RefusedWithReason
  <2>1. StoreInv /\ [ErrorNext]_errorVars => [reply'.ok <=> message' = "none"]_errorVars
    BY <1>1
  <2> QED
    BY <2>1, ErrorsHold, PTL DEF ErrorSpec, RefusedWithReason
<1>3. ErrorSpec => HostsAgree
  <2>1. [ErrorNext]_errorVars => [Status(message') = ToConnectError(AsStr[Classify(message')])]_errorVars
    BY EdgesReadTheSame
  <2> QED
    BY <2>1, PTL DEF ErrorSpec, HostsAgree
<1> QED
  BY <1>2, <1>3 DEF RefusalsAreTold
=============================================================================
