------------------------------ MODULE FlowSchema ------------------------------
(***************************************************************************)
(* The database schema of flowcore (migrations/0001_initial_schema.sql):   *)
(* the rows of its tables, and as operators over table values what SQLite  *)
(* does by itself, that is the triggers, the CHECKs, the foreign keys' ON  *)
(* DELETE CASCADE and the node_state view.                                 *)
(*                                                                         *)
(* A table is a function from primary keys to rows, so that its domain is  *)
(* the set of rows that exist.  Titles, descriptions, notes, positions,    *)
(* authors and summaries are left out: no rule of the schema reads them.   *)
(***************************************************************************)
EXTENDS Naturals, FiniteSets, Functions

CONSTANTS
  NodeIds,      \* ids that new_id can mint for nodes
  ProjectIds,   \* ids that new_id can mint for projects
  NoNode,       \* '' or NULL where a node id is expected
  NoProject,    \* '' where a project id is expected
  NoPayload,    \* the payload {} of an event
  NoImage       \* a "before" image that holds an id and nothing else

ASSUME SchemaAssumption ==
  /\ NoNode \notin NodeIds
  /\ NoProject \notin ProjectIds
  /\ NodeIds \cap ProjectIds = {}   \* new_id puts a prefix for the kind of thing before each id
  /\ IsFiniteSet(NodeIds)

Kinds == {"WORK_PACKAGE", "TASK", "STEP"}
Statuses == {"OPEN", "DEFERRED", "DONE"}

\* nodes: declared status only, READY and BLOCKED are derived. `updated` is updated_at.
NodeRows == [project : ProjectIds, parent : NodeIds \cup {NoNode}, kind : Kinds,
             status : Statuses, updated : Nat]

\* dependencies: pairs <<blocker, blocked>>.
Pairs == NodeIds \X NodeIds

\* verifications: what the agent reported, on which revision of the node, and the
\* operator's verdict. agent_result and agent_node_rev are only ever written together:
\* rev is read where result is not NULL.
AgentResults == {"PASS", "FAIL"}
Verdicts == {"ACCEPTED", "REJECTED"}
VerificationRows == [result : AgentResults \cup {"NULL"}, rev : Nat,
                     verdict : Verdicts \cup {"NULL"}]

\* events: node = NoNode is SQL's NULL. A payload is what undo reads of it: the status
\* before, the pair of a dependency, or the id and row of a deleted node.
Images == [id : NodeIds, row : NodeRows] \cup {NoImage}

\* An image that holds an id and nothing else is none that holds the row as well.
ASSUME ImageAssumption == NoImage \notin [id : NodeIds, row : NodeRows]

EventsOf(kinds, payloads) ==
  [project : ProjectIds, node : NodeIds \cup {NoNode}, kind : kinds,
   payload : payloads \cup {NoPayload}]

EventRows ==
  EventsOf({"STATUS_SET"}, [before : Statuses])
    \cup EventsOf({"DEP_ADDED", "DEP_REMOVED"}, [pair : Pairs])
    \cup EventsOf({"NODE_DELETED"}, [image : Images])
    \cup EventsOf({"NODE_CREATED", "NODE_UPDATED", "AGENT_REPORTED", "VERDICT_SET", "COMMENT"}, {})

\* A table: a function from some of the ids to rows.
IsTable(table, ids, rows) == DOMAIN table \subseteq ids /\ table \in [DOMAIN table -> rows]

-----------------------------------------------------------------------------
(* Walks over the two graphs (WITH RECURSIVE ... UNION, and cascades).       *)

\* A set of ids that no edge leaves.
ClosedUnder(edges, S) == \A e \in edges : e[1] \in S => e[2] \in S

\* What a recursive walk from `start` along `edges` collects, start included: the least
\* set closed under the edges that holds it.
Reach(edges, start) ==
  {n \in NodeIds : \A S \in SUBSET NodeIds : start \in S /\ ClosedUnder(edges, S) => n \in S}

Children(nodes, n) == {c \in DOMAIN nodes : nodes[c].parent = n}

ParentEdges(nodes) == {<<nodes[c].parent, c>> : c \in DOMAIN nodes}

\* A node and everything below it; nothing for a row that is not there.
Subtree(nodes, n) == IF n \in DOMAIN nodes THEN Reach(ParentEdges(nodes), n) ELSE {}

\* The nodes that wait directly on one of S.
Dependents(deps, S) == {m \in NodeIds : \E n \in S : <<n, m>> \in deps}

-----------------------------------------------------------------------------
(* CHECKs and triggers.                                                      *)

ParentKind == [TASK |-> "WORK_PACKAGE", STEP |-> "TASK"]

\* The three-way CHECK on nodes together with the parent's kind, which the triggers read:
\* a work package has no parent, the others sit under the kind above.
ParentFits(nodes, kind, parent) ==
  \/ kind = "WORK_PACKAGE" /\ parent = NoNode
  \/ /\ kind \in DOMAIN ParentKind
     /\ parent \in DOMAIN nodes /\ nodes[parent].kind = ParentKind[kind]

\* nodes_parent_kind_insert, with the foreign key to projects.
InsertAccepted(projects, nodes, row) ==
  row.project \in DOMAIN projects /\ ParentFits(nodes, row.kind, row.parent)

\* Mutant: the update trigger without hole (0), a node under itself, which the rule on kinds does
\* not see as it reads the old row.
UpdateAcceptedUnderItself(nodes, n, parent, kind) ==
  /\ ParentFits(nodes, kind, parent)
  /\ parent # NoNode => nodes[parent].project = nodes[n].project

\* nodes_parent_kind_update.
UpdateAccepted(nodes, n, parent, kind) ==
  /\ parent # n
  /\ ParentFits(nodes, kind, parent)
  /\ parent # NoNode => nodes[parent].project = nodes[n].project
  /\ \A c \in Children(nodes, n) :
       nodes[c].kind # "WORK_PACKAGE" /\ ParentKind[nodes[c].kind] = kind

\* Mutants: the walk looks one edge far, or goes the other way.
NoCycleDirect(deps, blocker, blocked) == blocker # blocked /\ <<blocked, blocker>> \notin deps
NoCycleUpstream(deps, blocker, blocked) == blocked \notin Reach(deps, blocker)

\* dependencies_no_cycle: the blocker must not lie downstream of the blocked node. The
\* walk starts at the blocked node, so an edge from a node to itself is refused as well.
NoCycle(deps, blocker, blocked) == blocker \notin Reach(deps, blocked)

\* An INSERT into dependencies: the trigger and the two foreign keys.
EdgeAccepted(nodes, deps, blocker, blocked) ==
  {blocker, blocked} \subseteq DOMAIN nodes /\ NoCycle(deps, blocker, blocked)

-----------------------------------------------------------------------------
(* ON DELETE CASCADE: what is left of each table when the nodes S go.        *)

NodesWithout(nodes, S) == Restrict(nodes, DOMAIN nodes \ S)

DepsWithout(deps, S) == {e \in deps : e[1] \notin S /\ e[2] \notin S}
VerificationsWithout(verifications, S) == Restrict(verifications, DOMAIN verifications \ S)
EventsWithout(events, S) ==
  Restrict(events, {s \in DOMAIN events : events[s].node \notin S})

-----------------------------------------------------------------------------
(* The node_state view.                                                      *)

\* Only direct blockers count, and only their declared status.
Blocked(nodes, deps, n) == \E b \in DOMAIN nodes : <<b, n>> \in deps /\ nodes[b].status # "DONE"

EffectiveStatus(nodes, deps, n) ==
  IF nodes[n].status # "OPEN" THEN nodes[n].status
  ELSE IF Blocked(nodes, deps, n) THEN "BLOCKED" ELSE "READY"

\* verification_for: the report is stale when the node has a later updated_at than the
\* revision the report was made on.
Stale(nodes, verifications, n) ==
  /\ n \in DOMAIN verifications
  /\ verifications[n].result # "NULL"
  /\ nodes[n].updated > verifications[n].rev
=============================================================================
