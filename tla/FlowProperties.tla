---------------------------- MODULE FlowProperties ----------------------------
(***************************************************************************)
(* What the store promises: its type invariant, what holds of the tables   *)
(* after any sequence of requests, and what no request may do.             *)
(***************************************************************************)
EXTENDS FlowStore

Live == DOMAIN nodes

\* Every column holds a value of its type, and every table row a row of the schema.
TypeOK ==
  /\ IsTable(projects, ProjectIds, BOOLEAN)
  /\ IsTable(nodes, NodeIds, NodeRows)
  /\ deps \subseteq Pairs
  /\ IsTable(verifications, NodeIds, VerificationRows)
  /\ IsTable(events, Nat, EventRows)
  /\ lastSeq \in Nat
  /\ IsTable(idem, Scopes \X Keys, IdemRows)
  /\ minted \subseteq NodeIds
  /\ now \in Nat
  /\ reply \in Replies

-----------------------------------------------------------------------------
(* The work graph.                                                           *)

\* No set of nodes waits on itself: each has a member that none of the others blocks.
\* This is the cycle trigger over all its writers: new edges, edges an undo brings back,
\* and the cascades and moves that change what the edges connect.
NoCircularWait ==
  \A S \in SUBSET Live : S # {} => \E n \in S : \A m \in S : <<m, n>> \notin deps

\* The hierarchy stays three deep: whatever was created, moved, demoted, deleted or
\* restored, a task sits under a work package and a step under a task, and both exist.
HierarchyOK ==
  \A n \in Live : ParentFits(nodes, nodes[n].kind, nodes[n].parent)

\* No edge, verification or event outlives the node it names, and every row that names a
\* project names one that exists.
NoDanglingRows ==
  /\ \A e \in deps : e[1] \in Live /\ e[2] \in Live
  /\ DOMAIN verifications \subseteq Live
  /\ \A s \in DOMAIN events : events[s].node \in Live \cup {NoNode}
  /\ \A n \in Live : nodes[n].project \in DOMAIN projects
  /\ \A s \in DOMAIN events : events[s].project \in DOMAIN projects

\* Hierarchy and references hold together, through cascades, demotions and restored nodes.
TablesAreSound == HierarchyOK /\ NoDanglingRows

\* A node is never lost quietly: when nodes go, each leaves a delete event of its own,
\* unless an undo took back the creation of the node they belonged to.
DeletesAreLogged ==
  [][LET deletions == {s \in DOMAIN events' \ DOMAIN events : events'[s].kind = "NODE_DELETED"} IN
     \/ \E s \in deletions : events'[s].payload = NoPayload
     \/ Cardinality(Live \ DOMAIN nodes') = Cardinality(deletions)]_vars

-----------------------------------------------------------------------------
(* The event log and the replies.                                            *)

Effective(n) == EffectiveStatus(nodes, deps, n)

\* The nodes whose effective status a step changed, as far as they survive it, and those
\* it created.
StatusChanged ==
  {n \in DOMAIN nodes' : n \in Live => Effective(n)' # Effective(n)}

\* A step that logs, and the event that it logs last.
Logs == lastSeq' # lastSeq
LastEvent == events'[lastSeq']

\* The inverse event of an undo is told by what it lacks.
IsInverse(event) ==
  \/ /\ event.kind \in {"STATUS_SET", "DEP_ADDED", "DEP_REMOVED", "NODE_DELETED"}
     /\ event.payload = NoPayload
  \/ event.kind = "NODE_CREATED" /\ event.node = NoNode

\* A reply names every node whose effective status the request changed: the node itself,
\* those it unblocked or blocked, and those that were waiting on something deleted. Undo is
\* left out: its reply names what is downstream, and not the node it changed (README).
ReplyIsComplete ==
  [][Logs /\ ~IsInverse(LastEvent) => StatusChanged \subseteq reply'.changed]_vars

\* What a request does to other nodes than its own is told: those that go in the log, those
\* that become ready or blocked in the reply.
ChangesAreTold == DeletesAreLogged /\ ReplyIsComplete

-----------------------------------------------------------------------------
(* Idempotency.                                                              *)

\* A key buys one write: once a key is in the ledger of a scope, no request with it that is
\* answered from this scope writes anything, whatever the request is.
OneWritePerKey ==
  [][reply'.ok /\ reply'.key # NoKey /\ <<reply'.scope, reply'.key>> \in DOMAIN idem =>
       UNCHANGED tables]_vars

\* An entry stands for the write that made it: its cursor is that of an event logged in its
\* scope, no two entries share one, and the node it names was created in its scope.
LedgerPointsAtItsWrite ==
  /\ \A k \in DOMAIN idem :
       /\ idem[k].seq <= lastSeq
       /\ idem[k].seq \in DOMAIN events => events[idem[k].seq].project = k[1]
       /\ idem[k].entity \in Live => nodes[idem[k].entity].project = k[1]
  /\ \A j, k \in DOMAIN idem : idem[j].seq = idem[k].seq /\ idem[j].seq # 0 => j = k

\* The ledger does what it is for: a key buys one write, and the entry that answers its
\* retries stands for that write, whatever is deleted and undone since.
LedgerHolds == OneWritePerKey /\ []LedgerPointsAtItsWrite

-----------------------------------------------------------------------------
(* Verification.                                                             *)

\* A report and a verdict are independent: neither overwrites the other, and only a change
\* of the node's kind, or its deletion, takes both away.
ReportAndVerdictIndependent ==
  [][\A n \in DOMAIN verifications \cap DOMAIN nodes' :
       IF nodes'[n].kind # nodes[n].kind THEN n \notin DOMAIN verifications'
       ELSE /\ n \in DOMAIN verifications'
            /\ \/ /\ verifications'[n].result = verifications[n].result
                  /\ verifications'[n].rev = verifications[n].rev
               \/ verifications'[n].verdict = verifications[n].verdict]_vars

\* A report is not trusted past a change: when a request writes the node's row in a later
\* second than that of the revision the agent reported on, the report reads as stale.
\* Revisions are seconds: within one, the report stays trusted.
LaterChangeMakesStale ==
  [][Logs /\ LastEvent.kind \in {"NODE_UPDATED", "STATUS_SET"} =>
       LET n == LastEvent.node IN
       n \in DOMAIN verifications' /\ verifications'[n].result # "NULL"
         /\ now > verifications'[n].rev => Stale(nodes', verifications', n)]_vars

\* What agent and human said of a node is neither lost to the other nor trusted past a change.
VerificationsHold == ReportAndVerdictIndependent /\ LaterChangeMakesStale
=============================================================================
