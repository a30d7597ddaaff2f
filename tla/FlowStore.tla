------------------------------- MODULE FlowStore -------------------------------
(***************************************************************************)
(* The store of flowcore (src/store.rs): one action per write of the RPC   *)
(* surface.  An operation takes the session lock for its whole duration    *)
(* and writes inside one transaction, so it is one step: it commits, or it *)
(* is refused and changes no table.                                        *)
(*                                                                         *)
(* A request carries an idempotency key or none.  Where the code looks the *)
(* key up before or after it looks at the node, so does the action.        *)
(***************************************************************************)
EXTENDS FlowSchema

CONSTANTS
  Keys,       \* idempotency keys that callers use
  NoKey,      \* the empty key: no deduplication
  MaxSeq,     \* bound on the events that are ever logged
  MaxClock    \* bound on unixepoch(), the clock in seconds

ASSUME StoreAssumption ==
  /\ NoKey \notin Keys
  /\ MaxSeq \in Nat
  /\ MaxClock \in Nat

VARIABLES
  projects,       \* table projects: id -> whether it is archived
  nodes,          \* table nodes
  deps,           \* table dependencies
  verifications,  \* table verifications
  events,         \* table events: seq -> row
  lastSeq,        \* the AUTOINCREMENT counter of events.seq
  idem,           \* table idempotency: <<scope, key>> -> [seq, entity]
  minted,         \* ids that new_id has returned
  now,            \* unixepoch()
  reply           \* the answer to the latest request

tables == <<projects, nodes, deps, verifications, events, lastSeq, idem, minted>>
vars == <<projects, nodes, deps, verifications, events, lastSeq, idem, minted, now, reply>>

Scopes == ProjectIds \cup {NoProject}
Entities == NodeIds \cup ProjectIds \cup {NoNode}
IdemRows == [seq : Nat, entity : Entities]

\* seq and changed are those of the Mutation; entity is the id a create returns.
Replies == [ok : BOOLEAN, scope : Scopes, key : Keys \cup {NoKey}, seq : Nat,
            changed : SUBSET NodeIds, entity : Entities]

Error == [ok |-> FALSE, scope |-> NoProject, key |-> NoKey, seq |-> 0,
          changed |-> {}, entity |-> NoNode]

Empty == [x \in {} |-> x]

Init ==
  /\ projects = Empty /\ nodes = Empty /\ deps = {} /\ verifications = Empty
  /\ events = Empty /\ lastSeq = 0 /\ idem = Empty /\ minted = {}
  /\ now = 0 /\ reply = Error

-----------------------------------------------------------------------------
(* What every operation is made of.                                          *)

\* INSERT ... ON CONFLICT DO UPDATE, and INSERT OR IGNORE.
Upsert(table, id, row) == [x \in DOMAIN table \cup {id} |-> IF x = id THEN row ELSE table[x]]
InsertOrIgnore(table, id, row) == IF id \in DOMAIN table THEN table ELSE Upsert(table, id, row)

\* project_of: the empty id for an unknown node.
ProjectOf(n) == IF n \in DOMAIN nodes THEN nodes[n].project ELSE NoProject

\* Mutant: an entry counts only while the node it names is there.
HitWhileLive(scope, key) ==
  key # NoKey /\ <<scope, key>> \in DOMAIN idem /\ idem[<<scope, key>>].entity \in DOMAIN nodes

Hit(scope, key) == key # NoKey /\ <<scope, key>> \in DOMAIN idem

\* check_idempotency found the key: the recorded cursor and nothing else.
Replay(scope, key, changed, entity) ==
  /\ Hit(scope, key)
  /\ reply' = [ok |-> TRUE, scope |-> scope, key |-> key, seq |-> idem[<<scope, key>>].seq,
               changed |-> changed, entity |-> entity]
  /\ UNCHANGED tables

\* An early return with an error, or a transaction that rolled back.
Refuse == reply' = Error /\ UNCHANGED tables

\* record_idempotency and record_idempotency_created.
Recorded(scope, key, seq, entity) ==
  IF key = NoKey THEN idem ELSE InsertOrIgnore(idem, <<scope, key>>, [seq |-> seq, entity |-> entity])

Event(project, node, kind, payload) ==
  [project |-> project, node |-> node, kind |-> kind, payload |-> payload]

\* The delete event of a node that goes with the node a request names: its image is an id.
BareDeletion(project) == Event(project, NoNode, "NODE_DELETED", [image |-> NoImage])

\* Mutant: a seq without AUTOINCREMENT is one more than the largest that is left.
SeqBaseLargest(kept) ==
  IF kept = Empty THEN 0 ELSE CHOOSE s \in DOMAIN kept : \A t \in DOMAIN kept : t <= s

\* New events are numbered from the AUTOINCREMENT counter, whatever events are left.
SeqBase(kept) == lastSeq

\* append_event (bare deletions first), record_idempotency and finish_mutation: `kept` are
\* the events that survive the cascades, `affected` the ids whose nodes the reply holds
\* where they still exist.
Commit(kept, bare, event, key, entity, affected) ==
  LET base == SeqBase(kept)
      seq == base + bare + 1 IN
  /\ seq <= MaxSeq
  /\ lastSeq' = seq
  /\ events' = [s \in DOMAIN kept \cup (base + 1) .. seq |->
                  IF s = seq THEN event
                  ELSE IF s > base THEN BareDeletion(event.project) ELSE kept[s]]
  /\ idem' = Recorded(event.project, key, seq, entity)
  /\ reply' = [ok |-> TRUE, scope |-> event.project, key |-> key, seq |-> seq,
               changed |-> affected \cap DOMAIN nodes', entity |-> entity]

\* A commit whose only event is `event` and which deletes no node.
Log(event, key, affected) == Commit(events, 0, event, key, NoNode, affected)

-----------------------------------------------------------------------------
(* Projects.  These log no event; their idempotency scope is ''.             *)

CreateProject(key) ==
  \/ /\ Hit(NoProject, key) /\ idem[<<NoProject, key>>].entity \in DOMAIN projects
     /\ Replay(NoProject, key, {}, idem[<<NoProject, key>>].entity)
  \/ /\ ~(Hit(NoProject, key) /\ idem[<<NoProject, key>>].entity \in DOMAIN projects)
     /\ \E p \in ProjectIds \ DOMAIN projects :
          /\ projects' = Upsert(projects, p, FALSE)
          /\ idem' = Recorded(NoProject, key, 0, p)
          /\ reply' = [Error EXCEPT !.ok = TRUE, !.key = key, !.entity = p]
     /\ UNCHANGED <<nodes, deps, verifications, events, lastSeq, minted>>

\* Names are not modelled; the mask is empty, known or names a field that does not exist.
UpdateProject(p, mask) ==
  \/ /\ p \in DOMAIN projects /\ mask = "text"
     /\ reply' = [Error EXCEPT !.ok = TRUE, !.entity = p]
     /\ UNCHANGED tables
  \/ (p \notin DOMAIN projects \/ mask # "text") /\ Refuse

ArchiveProject(p, archived) ==
  \/ /\ p \in DOMAIN projects
     /\ projects' = [projects EXCEPT ![p] = archived]
     /\ reply' = [Error EXCEPT !.ok = TRUE, !.entity = p]
     /\ UNCHANGED <<nodes, deps, verifications, events, lastSeq, idem, minted>>
  \/ p \notin DOMAIN projects /\ Refuse

-----------------------------------------------------------------------------
(* Nodes.                                                                    *)

\* Mutant: declared_str passes on what it does not know.
DeclaredStrOpen(status) == status

\* kind_str and declared_str: what is not another member is the last one.
KindStr(kind) == IF kind = "UNSPECIFIED" THEN "STEP" ELSE kind
DeclaredStr(status) == IF status = "UNSPECIFIED" THEN "DONE" ELSE status

\* The key is looked up before anything else: a retry returns the node it created.
CreateNode(p, parent, kind, key) ==
  LET row == [project |-> p, parent |-> parent, kind |-> KindStr(kind), status |-> "OPEN",
              updated |-> now]
      created == idem[<<p, key>>].entity IN
  \/ /\ Hit(p, key)
     /\ IF created \in DOMAIN nodes THEN Replay(p, key, {created}, created)
                                    ELSE Replay(p, key, {}, NoNode)
  \/ /\ ~Hit(p, key) /\ InsertAccepted(projects, nodes, row)
     /\ \E n \in NodeIds \ minted :
          /\ minted' = minted \cup {n}
          /\ nodes' = Upsert(nodes, n, row)
          /\ Commit(events, 0, Event(p, n, "NODE_CREATED", NoPayload), key, n, {n})
     /\ UNCHANGED <<projects, deps, verifications>>
  \/ ~Hit(p, key) /\ ~InsertAccepted(projects, nodes, row) /\ Refuse

\* The trigger nodes_touch, after every UPDATE of a node.
Touch(row) == [row EXCEPT !.updated = now]

\* Every operation on one node finds it first, then looks the key up in its project, then
\* checks its arguments. NotWritten: one of these ends it.
NotWritten(n, key, refused) ==
  \/ n \notin DOMAIN nodes /\ Refuse
  \/ n \in DOMAIN nodes /\ Replay(nodes[n].project, key, {}, NoNode)
  \/ n \in DOMAIN nodes /\ ~Hit(nodes[n].project, key) /\ refused /\ Refuse

Accepted(n, key, refused) ==
  n \in DOMAIN nodes /\ ~Hit(nodes[n].project, key) /\ ~refused

\* The fields of the mask: text for those without a rule, wp_state set or cleared, which
\* the CHECK on the kind judges, an unknown field, or none at all.
Masks == {"text", "state", "nostate", "unknown", "none"}
MaskAccepted(kind, mask) ==
  \/ mask = "text"
  \/ mask = "state" /\ kind = "WORK_PACKAGE"
  \/ mask = "nostate" /\ kind # "WORK_PACKAGE"

UpdateNode(n, mask, key) ==
  LET refused == ~MaskAccepted(nodes[n].kind, mask) IN
  \/ NotWritten(n, key, refused)
  \/ /\ Accepted(n, key, refused)
     /\ nodes' = [nodes EXCEPT ![n] = Touch(nodes[n])]
     /\ Log(Event(nodes[n].project, n, "NODE_UPDATED", NoPayload), key, {n})
     /\ UNCHANGED <<projects, deps, verifications, minted>>

\* Mutant: the query for the descendants is not recursive.
DescendantsDirect(n) == Children(nodes, n)

\* What the cascade deletes with n.
Descendants(n) == Subtree(nodes, n) \ {n}

\* The subtree goes by cascade, with its edges, verifications and events. Each descendant
\* leaves a bare delete event; the node's own carries its row, for undo.
DeleteNode(n, failIfReferenced, key) ==
  LET gone == Subtree(nodes, n)
      refused == failIfReferenced /\ \E e \in deps : n \in {e[1], e[2]} IN
  \/ NotWritten(n, key, refused)
  \/ /\ Accepted(n, key, refused)
     /\ nodes' = NodesWithout(nodes, gone)
     /\ deps' = DepsWithout(deps, gone)
     /\ verifications' = VerificationsWithout(verifications, gone)
     /\ Commit(EventsWithout(events, gone), Cardinality(Descendants(n)),
               Event(nodes[n].project, NoNode, "NODE_DELETED",
                     [image |-> [id |-> n, row |-> nodes[n]]]),
               key, NoNode, Dependents(deps, gone) \ gone)
     /\ UNCHANGED <<projects, minted>>

SetStatus(n, status, key) ==
  \/ NotWritten(n, key, FALSE)
  \/ /\ Accepted(n, key, FALSE)
     /\ nodes' = [nodes EXCEPT ![n] = Touch([nodes[n] EXCEPT !.status = DeclaredStr(status)])]
     /\ Log(Event(nodes[n].project, n, "STATUS_SET", [before |-> nodes[n].status]), key,
            {n} \cup Dependents(deps, {n}))
     /\ UNCHANGED <<projects, deps, verifications, minted>>

\* A TASK that becomes a STEP loses its steps; any change of kind drops the verification.
MoveNode(n, parent, kind, key) ==
  LET demoted == IF nodes[n].kind = "TASK" /\ kind = "STEP" THEN Children(nodes, n) ELSE {}
      gone == UNION {Subtree(nodes, c) : c \in demoted}
      rest == NodesWithout(nodes, gone)
      refused == \/ kind \in {"UNSPECIFIED", "WORK_PACKAGE"}
                 \/ nodes[n].kind = "WORK_PACKAGE"
                 \/ ~UpdateAccepted(rest, n, parent, kind) IN
  \/ NotWritten(n, key, refused)
  \/ /\ Accepted(n, key, refused)
     /\ nodes' = [rest EXCEPT ![n] = Touch([nodes[n] EXCEPT !.parent = parent, !.kind = kind])]
     /\ deps' = DepsWithout(deps, gone)
     /\ verifications' = VerificationsWithout(verifications,
                           IF nodes[n].kind = kind THEN gone ELSE gone \cup {n})
     /\ Commit(EventsWithout(events, gone), Cardinality(demoted),
               Event(nodes[n].project, n, "NODE_UPDATED", NoPayload), key, NoNode,
               {n} \cup Dependents(deps, demoted))
     /\ UNCHANGED <<projects, minted>>

-----------------------------------------------------------------------------
(* Verification and comments.                                                *)

NoVerification == [result |-> "NULL", rev |-> 0, verdict |-> "NULL"]

\* Mutant: INSERT OR REPLACE instead of ON CONFLICT DO UPDATE.
VerificationReplaced(n) == NoVerification

VerificationOf(n) == IF n \in DOMAIN verifications THEN verifications[n] ELSE NoVerification

\* The report remembers the node's updated_at; the verdict is kept.
ReportCondition(n, result, key) ==
  LET refused == result = "UNSPECIFIED" IN
  \/ NotWritten(n, key, refused)
  \/ /\ Accepted(n, key, refused)
     /\ verifications' = Upsert(verifications, n,
          [VerificationOf(n) EXCEPT !.result = result, !.rev = nodes[n].updated])
     /\ UNCHANGED <<projects, nodes, deps, minted>>
     /\ Log(Event(nodes[n].project, n, "AGENT_REPORTED", NoPayload), key, {n})

\* An unspecified verdict clears the one that is there.
SetVerdict(n, verdict, key) ==
  \/ NotWritten(n, key, FALSE)
  \/ /\ Accepted(n, key, FALSE)
     /\ verifications' =
          IF verdict # "UNSPECIFIED"
            THEN Upsert(verifications, n, [VerificationOf(n) EXCEPT !.verdict = verdict])
          ELSE IF n \in DOMAIN verifications
            THEN [verifications EXCEPT ![n].verdict = "NULL"]
          ELSE verifications
     /\ UNCHANGED <<projects, nodes, deps, minted>>
     /\ Log(Event(nodes[n].project, n, "VERDICT_SET", NoPayload), key, {n})

AddComment(n, key) ==
  \/ NotWritten(n, key, FALSE)
  \/ /\ Accepted(n, key, FALSE)
     /\ UNCHANGED <<projects, nodes, deps, verifications, minted>>
     /\ Log(Event(nodes[n].project, n, "COMMENT", NoPayload), key, {n})

-----------------------------------------------------------------------------
(* Dependencies.  The scope is the blocker's project, '' for an unknown one. *)

\* An edge that is there already is logged again.
AddDependency(blocker, blocked, key) ==
  LET p == ProjectOf(blocker)
      accepted == EdgeAccepted(nodes, deps, blocker, blocked) IN
  \/ Replay(p, key, {}, NoNode)
  \/ /\ ~Hit(p, key) /\ accepted
     /\ deps' = deps \cup {<<blocker, blocked>>}
     /\ UNCHANGED <<projects, nodes, verifications, minted>>
     /\ Log(Event(p, NoNode, "DEP_ADDED", [pair |-> <<blocker, blocked>>]), key, {blocked})
  \/ ~Hit(p, key) /\ ~accepted /\ Refuse

\* So is the removal of an edge that is not there; only the blocker must exist, as the
\* event names its project.
RemoveDependency(blocker, blocked, key) ==
  LET p == ProjectOf(blocker) IN
  \/ Replay(p, key, {}, NoNode)
  \/ /\ ~Hit(p, key) /\ p # NoProject
     /\ deps' = deps \ {<<blocker, blocked>>}
     /\ UNCHANGED <<projects, nodes, verifications, minted>>
     /\ Log(Event(p, NoNode, "DEP_REMOVED", [pair |-> <<blocker, blocked>>]), key, {blocked})
  \/ ~Hit(p, key) /\ p = NoProject /\ Refuse

-----------------------------------------------------------------------------
(* Undo.  The inverse event says what was done and has an empty payload.     *)

\* The event that a request means: seq 0 is the latest of the project.
IsTarget(p, seq, t) ==
  /\ t \in DOMAIN events /\ events[t].project = p
  /\ IF seq = 0 THEN \A s \in DOMAIN events : events[s].project = p => s <= t ELSE t = seq

\* Mutant: what was open before, nobody looked at.
StatusBeforeOpen(event) == "OPEN"

\* Inverses log no "before": undoing an undo takes OPEN.
StatusBefore(event) == IF event.payload = NoPayload THEN "OPEN" ELSE event.payload.before

UndoStatus(event, key) ==
  LET n == event.node IN
  /\ event.kind = "STATUS_SET"
  /\ nodes' = [nodes EXCEPT ![n] = Touch([@ EXCEPT !.status = StatusBefore(event)])]
  /\ Log(Event(event.project, n, "STATUS_SET", NoPayload), key, Dependents(deps, {n}))
  /\ UNCHANGED <<projects, deps, verifications, minted>>

UndoDepAdded(event, key) ==
  /\ event.kind = "DEP_ADDED" /\ event.payload # NoPayload
  /\ deps' = deps \ {event.payload.pair}
  /\ UNCHANGED <<projects, nodes, verifications, minted>>
  /\ Log(Event(event.project, NoNode, "DEP_REMOVED", NoPayload), key, {event.payload.pair[2]})

UndoDepRemoved(event, key) ==
  /\ event.kind = "DEP_REMOVED" /\ event.payload # NoPayload
  /\ EdgeAccepted(nodes, deps, event.payload.pair[1], event.payload.pair[2])
  /\ deps' = deps \cup {<<event.payload.pair[1], event.payload.pair[2]>>}
  /\ UNCHANGED <<projects, nodes, verifications, minted>>
  /\ Log(Event(event.project, NoNode, "DEP_ADDED", NoPayload), key, {event.payload.pair[2]})

\* Mutant: an undone creation leaves no event of its own.
UndoCreatedQuiet(event, key) ==
  LET gone == Subtree(nodes, event.node) IN
  /\ event.kind = "NODE_CREATED"
  /\ nodes' = NodesWithout(nodes, gone)
  /\ deps' = DepsWithout(deps, gone)
  /\ verifications' = VerificationsWithout(verifications, gone)
  /\ events' = EventsWithout(events, gone)
  /\ reply' = [Error EXCEPT !.ok = TRUE]
  /\ UNCHANGED <<projects, minted, lastSeq, idem>>

\* The subtree goes with the node and leaves no events; an event without a node deletes none.
UndoCreated(event, key) ==
  LET gone == Subtree(nodes, event.node) IN
  /\ event.kind = "NODE_CREATED"
  /\ nodes' = NodesWithout(nodes, gone)
  /\ deps' = DepsWithout(deps, gone)
  /\ verifications' = VerificationsWithout(verifications, gone)
  /\ Commit(EventsWithout(events, gone), 0, Event(event.project, NoNode, "NODE_DELETED", NoPayload),
            key, NoNode, {})
  /\ UNCHANGED <<projects, minted>>

\* The trigger judges the row before INSERT OR IGNORE finds a row with the id. A bare image
\* fails the CHECK on its kind, which OR IGNORE passes over: nothing is inserted.
RestoreAccepted(image) == image # NoImage => InsertAccepted(projects, nodes, image.row)

Restored(image) ==
  IF image = NoImage THEN nodes
  ELSE InsertOrIgnore(nodes, image.id, [image.row EXCEPT !.updated = now])

UndoDeleted(event, key) ==
  /\ event.kind = "NODE_DELETED" /\ event.payload # NoPayload
  /\ RestoreAccepted(event.payload.image)
  /\ nodes' = Restored(event.payload.image)
  /\ Log(Event(event.project, NoNode, "NODE_CREATED", NoPayload), key, {})
  /\ UNCHANGED <<projects, deps, verifications, minted>>

\* The kinds without an inverse, payloads without what it needs, and inverses that the
\* schema rejects.
NotUndoable(event) ==
  \/ event.kind \in {"NODE_UPDATED", "AGENT_REPORTED", "VERDICT_SET", "COMMENT"}
  \/ event.kind \in {"DEP_ADDED", "DEP_REMOVED", "NODE_DELETED"} /\ event.payload = NoPayload
  \/ /\ event.kind = "DEP_REMOVED" /\ event.payload # NoPayload
     /\ ~EdgeAccepted(nodes, deps, event.payload.pair[1], event.payload.pair[2])
  \/ /\ event.kind = "NODE_DELETED" /\ event.payload # NoPayload
     /\ ~RestoreAccepted(event.payload.image)

Revert(event, key) ==
  \/ UndoStatus(event, key)
  \/ UndoDepAdded(event, key)
  \/ UndoDepRemoved(event, key)
  \/ UndoCreated(event, key)
  \/ UndoDeleted(event, key)
  \/ NotUndoable(event) /\ Refuse

\* The event is looked up first, then the key.
Undo(p, seq, key) ==
  \/ (\A t \in DOMAIN events : ~IsTarget(p, seq, t)) /\ Refuse
  \/ \E t \in DOMAIN events :
       /\ IsTarget(p, seq, t)
       /\ \/ Replay(p, key, {}, NoNode)
          \/ ~Hit(p, key) /\ Revert(events[t], key)

-----------------------------------------------------------------------------

Parents == NodeIds \cup {NoNode}

OnProjects(key) ==
  \/ CreateProject(key)
  \/ \E p \in ProjectIds :
       \/ \E mask \in {"text", "unknown", "none"} : UpdateProject(p, mask)
       \/ \E archived \in BOOLEAN : ArchiveProject(p, archived)
       \/ \E parent \in Parents, kind \in Kinds \cup {"UNSPECIFIED"} :
            CreateNode(p, parent, kind, key)
       \/ \E seq \in 0 .. MaxSeq : Undo(p, seq, key)

OnNodes(key) ==
  \E n \in NodeIds :
    \/ \E mask \in Masks : UpdateNode(n, mask, key)
    \/ \E flag \in BOOLEAN : DeleteNode(n, flag, key)
    \/ \E status \in Statuses \cup {"UNSPECIFIED"} : SetStatus(n, status, key)
    \/ \E parent \in Parents, kind \in Kinds \cup {"UNSPECIFIED"} : MoveNode(n, parent, kind, key)
    \/ \E result \in AgentResults \cup {"UNSPECIFIED"} : ReportCondition(n, result, key)
    \/ \E verdict \in Verdicts \cup {"UNSPECIFIED"} : SetVerdict(n, verdict, key)
    \/ AddComment(n, key)
    \/ \E m \in NodeIds : AddDependency(n, m, key) \/ RemoveDependency(n, m, key)

Request == (\E key \in Keys \cup {NoKey} : OnProjects(key) \/ OnNodes(key)) /\ UNCHANGED now

Tick == now < MaxClock /\ now' = now + 1 /\ UNCHANGED <<tables, reply>>

Next == Request \/ Tick

Spec == Init /\ [][Next]_vars
=============================================================================
