------------------------------ MODULE FlowErrors ------------------------------
(***************************************************************************)
(* What a caller is told when a request is refused: the message of the     *)
(* store or of SQLite, its classification (error.rs), and the status that  *)
(* the two daemons make of it (grpc/mod.rs; flowwasm and service.ts).      *)
(* FlowStore says whether a request is refused, this module for which      *)
(* reason the code finds first.                                            *)
(***************************************************************************)
EXTENDS FlowStore

VARIABLES
  request,  \* the latest request
  message   \* what it is refused with, or "none"

errorVars == <<vars, request, message>>

\* A search is words, or one of the queries that FTS5 does not take.
Queries == {"words", "operator", "quote", "hyphen"}

\* Keys play no part in requests that have none.
Asked(op, n, m, arg) == [op |-> op, n |-> n, m |-> m, arg |-> arg, key |-> NoKey]
WithKeys(requests) == {[r EXCEPT !.key = key] : r \in requests, key \in Keys \cup {NoKey}}

Unkeyed ==
  {Asked("update_project", p, NoNode, mask) : p \in ProjectIds, mask \in {"text", "unknown", "none"}}
    \cup {Asked("archive", p, NoNode, archived) : p \in ProjectIds, archived \in BOOLEAN}
    \cup {Asked("search", p, NoNode, query) : p \in ProjectIds, query \in Queries}

Keyed ==
  {Asked("create_project", NoNode, NoNode, "none")}
    \cup {Asked("create", p, parent, kind) :
            p \in ProjectIds, parent \in Parents, kind \in Kinds \cup {"UNSPECIFIED"}}
    \cup {Asked("undo", p, NoNode, seq) : p \in ProjectIds, seq \in 0 .. MaxSeq}
    \cup {Asked("update", n, NoNode, mask) : n \in NodeIds, mask \in Masks}
    \cup {Asked("delete", n, NoNode, flag) : n \in NodeIds, flag \in BOOLEAN}
    \cup {Asked("status", n, NoNode, status) : n \in NodeIds, status \in Statuses \cup {"UNSPECIFIED"}}
    \cup {Asked("move", n, parent, kind) :
            n \in NodeIds, parent \in Parents, kind \in Kinds \cup {"UNSPECIFIED"}}
    \cup {Asked("report", n, NoNode, result) : n \in NodeIds, result \in AgentResults \cup {"UNSPECIFIED"}}
    \cup {Asked("verdict", n, NoNode, verdict) : n \in NodeIds, verdict \in Verdicts \cup {"UNSPECIFIED"}}
    \cup {Asked("comment", n, NoNode, "none") : n \in NodeIds}
    \cup {Asked(op, n, m, "none") : op \in {"depend", "release"}, n \in NodeIds, m \in NodeIds}

Requests == Unkeyed \cup WithKeys(Keyed)

Search(query) ==
  /\ IF query = "words" THEN reply' = [Error EXCEPT !.ok = TRUE] ELSE reply' = Error
  /\ UNCHANGED tables

Done(r) ==
  \/ r.op = "create_project" /\ CreateProject(r.key)
  \/ r.op = "create" /\ CreateNode(r.n, r.m, r.arg, r.key)
  \/ r.op = "update_project" /\ UpdateProject(r.n, r.arg)
  \/ r.op = "archive" /\ ArchiveProject(r.n, r.arg)
  \/ r.op = "undo" /\ Undo(r.n, r.arg, r.key)
  \/ r.op = "search" /\ Search(r.arg)
  \/ r.op = "update" /\ UpdateNode(r.n, r.arg, r.key)
  \/ r.op = "delete" /\ DeleteNode(r.n, r.arg, r.key)
  \/ r.op = "status" /\ SetStatus(r.n, r.arg, r.key)
  \/ r.op = "move" /\ MoveNode(r.n, r.m, r.arg, r.key)
  \/ r.op = "report" /\ ReportCondition(r.n, r.arg, r.key)
  \/ r.op = "verdict" /\ SetVerdict(r.n, r.arg, r.key)
  \/ r.op = "comment" /\ AddComment(r.n, r.key)
  \/ r.op = "depend" /\ AddDependency(r.n, r.m, r.key)
  \/ r.op = "release" /\ RemoveDependency(r.n, r.m, r.key)

-----------------------------------------------------------------------------
(* Messages, in the order in which the code and the schema come to them.     *)

\* The kind rule of the two triggers on nodes. The kind of a parent that is not there is NULL,
\* and NULL is what a work package's parent ought to be.
KindTrigger(nodeTable, parent, kind) ==
  /\ parent # NoNode
  /\ IF kind = "WORK_PACKAGE" THEN parent \in DOMAIN nodeTable
     ELSE parent \in DOMAIN nodeTable => nodeTable[parent].kind # ParentKind[kind]

\* The CHECK on kind and parent.
KindCheck(parent, kind) == (kind = "WORK_PACKAGE") # (parent = NoNode)

InsertMessage(row) ==
  IF KindTrigger(nodes, row.parent, row.kind) THEN "invalid parent kind for node"
  ELSE IF KindCheck(row.parent, row.kind) THEN "CHECK constraint failed"
  ELSE IF row.project \notin DOMAIN projects THEN "FOREIGN KEY constraint failed"
  ELSE "none"

EdgeMessage(blocker, blocked) ==
  IF ~NoCycle(deps, blocker, blocked) THEN "dependency would create a cycle"
  ELSE IF ~({blocker, blocked} \subseteq DOMAIN nodes) THEN "FOREIGN KEY constraint failed"
  ELSE "none"

MaskMessage(mask) ==
  CASE mask = "none" -> "update_mask cannot be empty"
    [] mask = "unknown" -> "unknown update_mask field"
    [] OTHER -> "none"

\* What the trigger reads is the table after the children of a demoted task are gone.
MoveMessage(n, parent, kind) ==
  LET demoted == IF nodes[n].kind = "TASK" /\ kind = "STEP" THEN Children(nodes, n) ELSE {}
      rest == NodesWithout(nodes, UNION {Subtree(nodes, c) : c \in demoted}) IN
  IF kind = "UNSPECIFIED" THEN "move requires a target kind"
  ELSE IF "WORK_PACKAGE" \in {kind, nodes[n].kind} THEN "move cannot promote or demote a work package"
  ELSE IF parent = n THEN "a node cannot be its own parent"
  ELSE IF KindTrigger(rest, parent, kind) THEN "invalid parent kind for node"
  ELSE IF parent \in DOMAIN rest /\ rest[parent].project # nodes[n].project THEN "cross-project move"
  ELSE IF \E c \in Children(rest, n) : ParentKind[rest[c].kind] # kind THEN "children invalid for new kind"
  ELSE IF KindCheck(parent, kind) THEN "CHECK constraint failed"
  ELSE "none"

\* Mutant: the message of an event that has nothing to restore is forgotten.
UndoMessageLax(p, seq, key) ==
  IF \A t \in DOMAIN events : ~IsTarget(p, seq, t) THEN "no event to undo" ELSE "none"

UndoMessage(p, seq, key) ==
  IF \A t \in DOMAIN events : ~IsTarget(p, seq, t) THEN "no event to undo"
  ELSE IF Hit(p, key) THEN "none"
  ELSE LET event == events[CHOOSE t \in DOMAIN events : IsTarget(p, seq, t)] IN
    CASE event.kind \in {"DEP_ADDED", "DEP_REMOVED"} /\ event.payload = NoPayload ->
           "dep payload missing blocker"
      [] event.kind = "DEP_REMOVED" /\ event.payload # NoPayload ->
           EdgeMessage(event.payload.pair[1], event.payload.pair[2])
      [] event.kind = "NODE_DELETED" /\ event.payload = NoPayload ->
           "cannot undo delete: payload missing"
      [] event.kind = "NODE_DELETED" /\ event.payload \notin {NoPayload, [image |-> NoImage]} ->
           InsertMessage(event.payload.image.row)
      [] event.kind \in {"NODE_UPDATED", "AGENT_REPORTED", "VERDICT_SET", "COMMENT"} ->
           "cannot undo event kind"
      [] OTHER -> "none"

\* FTS5's own words for what it cannot parse: a stray operator, a quote left open, and a
\* hyphenated word, which is a column filter to it.
SearchMessage(query) ==
  CASE query = "operator" -> "fts5: syntax error"
    [] query = "quote" -> "unterminated string"
    [] query = "hyphen" -> "no such column"
    [] OTHER -> "none"

\* The project in whose ledger the key of a request is looked up.
ScopeOf(r) ==
  CASE r.op \in {"create", "undo"} -> r.n
    [] r.op = "create_project" -> NoProject
    [] OTHER -> ProjectOf(r.n)

\* The operations on one node look for it before anything else, then for the key.
NodeMessage(r) ==
  IF r.n \notin DOMAIN nodes THEN "node not found"
  ELSE IF Hit(ScopeOf(r), r.key) THEN "none"
  ELSE CASE r.op = "update" ->
              IF MaskMessage(r.arg) # "none" THEN MaskMessage(r.arg)
              ELSE IF MaskAccepted(nodes[r.n].kind, r.arg) THEN "none" ELSE "CHECK constraint failed"
         [] r.op = "delete" ->
              IF r.arg /\ \E e \in deps : r.n \in {e[1], e[2]} THEN "node has dependents" ELSE "none"
         [] r.op = "report" -> IF r.arg = "UNSPECIFIED" THEN "invalid agent result" ELSE "none"
         [] r.op = "move" -> MoveMessage(r.n, r.m, r.arg)
         [] OTHER -> "none"

Message(r) ==
  CASE r.op \in {"update", "delete", "status", "move", "report", "verdict", "comment"} -> NodeMessage(r)
    [] r.op = "update_project" ->
         IF r.n \notin DOMAIN projects THEN "project not found" ELSE MaskMessage(r.arg)
    [] r.op = "archive" -> IF r.n \notin DOMAIN projects THEN "project not found" ELSE "none"
    [] r.op = "search" -> SearchMessage(r.arg)
    \* The event is looked for before the key.
    [] r.op = "undo" -> UndoMessage(r.n, r.arg, r.key)
    [] OTHER ->
         IF Hit(ScopeOf(r), r.key) THEN "none"
         ELSE CASE r.op = "create" ->
                     InsertMessage([project |-> r.n, parent |-> r.m, kind |-> KindStr(r.arg)])
                [] r.op = "depend" -> EdgeMessage(r.n, r.m)
                \* The event cannot name the project of a blocker that is not there.
                [] r.op = "release" ->
                     IF r.n \in DOMAIN nodes THEN "none" ELSE "FOREIGN KEY constraint failed"
                [] OTHER -> "none"

-----------------------------------------------------------------------------
(* Codes and statuses.                                                       *)

\* classify: which messages contain one of the texts it looks for.
Patterns ==
  [NotFound |-> {"node not found", "project not found"},
   InvalidArgument |->
     {"update_mask cannot be empty", "unknown update_mask field", "move requires a target kind",
      "invalid agent result", "fts5: syntax error"},
   FailedPrecondition |->
     {"invalid parent kind for node", "cross-project move", "children invalid for new kind",
      "a node cannot be its own parent", "dependency would create a cycle", "node has dependents",
      "move cannot promote or demote a work package", "cannot undo delete: payload missing",
      "cannot undo event kind"}]

\* Anything else is internal.
Classify(text) ==
  IF \E code \in DOMAIN Patterns : text \in Patterns[code]
    THEN CHOOSE code \in DOMAIN Patterns : text \in Patterns[code]
  ELSE "Internal"

Codes == DOMAIN Patterns \cup {"Internal"}

\* into_status, on the native edge.
IntoStatus ==
  [NotFound |-> "NOT_FOUND", InvalidArgument |-> "INVALID_ARGUMENT",
   FailedPrecondition |-> "FAILED_PRECONDITION", Internal |-> "INTERNAL"]

\* Code::as_str: the prefix that to_js puts before the message.
AsStr ==
  [NotFound |-> "not_found", InvalidArgument |-> "invalid_argument",
   FailedPrecondition |-> "failed_precondition", Internal |-> "internal"]

\* The table of service.ts.
CODES ==
  [not_found |-> "NOT_FOUND", invalid_argument |-> "INVALID_ARGUMENT",
   failed_precondition |-> "FAILED_PRECONDITION", internal |-> "INTERNAL"]

\* toConnectError: a prefix that is not in the table is an internal error.
ToConnectError(prefix) == IF prefix \in DOMAIN CODES THEN CODES[prefix] ELSE "INTERNAL"

Status(text) == IntoStatus[Classify(text)]

-----------------------------------------------------------------------------

ErrorInit == Init /\ request = Asked("none", NoNode, NoNode, "none") /\ message = "none"

ErrorNext ==
  \E r \in Requests :
    Done(r) /\ UNCHANGED now /\ request' = r /\ message' = Message(r)

ErrorSpec == ErrorInit /\ [][ErrorNext]_errorVars

\* A request is refused when, and only when, the code or the schema has a message for it: every
\* rule that FlowStore obeys is one that a caller is told of.
RefusedWithReason == [][reply'.ok <=> message' = "none"]_errorVars

\* "every edge reads the same Code": the status does not depend on which daemon answers.
HostsAgree == [][Status(message') = ToConnectError(AsStr[Classify(message')])]_errorVars

\* A caller learns why, and the same from both daemons.
RefusalsAreTold == RefusedWithReason /\ HostsAgree
=============================================================================
