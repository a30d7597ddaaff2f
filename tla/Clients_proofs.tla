---------------------------- MODULE Clients_proofs ----------------------------
(***************************************************************************)
(* What clients may rely on that act on the store one request at a time    *)
(* while others write, for any number of nodes, events and attempts: the   *)
(* agent that retries, the user who undoes, and those that read.           *)
(***************************************************************************)
EXTENDS ClientsMC, FlowStore_proofs, WellFoundedInduction

-----------------------------------------------------------------------------
(* The fixture.                                                              *)

\* The ids of the fixture are ids, and apart.
LEMMA SeedIds ==
  /\ Wp \in NodeIds /\ Task1 \in NodeIds /\ Task2 \in NodeIds
  /\ Wp # Task1 /\ Wp # Task2 /\ Task1 # Task2
  /\ Travel \in ProjectIds /\ Docs \in ProjectIds /\ Travel # Docs
  /\ Travel # NoProject /\ NoNode \notin NodeIds
  BY SeedAssumption, SchemaAssumption

\* The fixture is a database that requests could have made, as far as the invariant goes.
LEMMA SeedHolds == SeedInit => StoreInv
<1> SUFFICES ASSUME SeedInit PROVE StoreInv
  OBVIOUS
<1> USE SeedIds
<1>1. /\ DOMAIN projects = {Travel, Docs} /\ DOMAIN nodes = {Wp, Task1, Task2}
      /\ \A n \in {Wp, Task1, Task2} : nodes[n] = SeedRow(n)
      /\ deps = {<<Task1, Task2>>} /\ DOMAIN verifications = {} /\ DOMAIN idem = {}
      /\ DOMAIN events = {1} /\ events[1] = Event(Travel, Task1, "NODE_CREATED", NoPayload)
      /\ lastSeq = 1 /\ minted = {Wp, Task1, Task2}
  BY DEF SeedInit, Empty
<1>2. TypeOK
  <2>1. IsTable(projects, ProjectIds, BOOLEAN)
    BY DEF SeedInit, IsTable
  <2>2. IsTable(nodes, NodeIds, NodeRows)
    <3>1. \A n \in {Wp, Task1, Task2} : SeedRow(n) \in NodeRows
      BY DEF SeedRow, NodeRows, Kinds, Statuses
    <3> QED
      BY <3>1 DEF SeedInit, IsTable
  <2>3. deps \subseteq Pairs
    BY DEF SeedInit, Pairs
  <2>4. IsTable(verifications, NodeIds, VerificationRows) /\ IsTable(idem, Scopes \X Keys, IdemRows)
    BY EmptyTable DEF SeedInit
  <2>5. IsTable(events, Nat, EventRows)
    <3>1. Event(Travel, Task1, "NODE_CREATED", NoPayload) \in EventRows
      BY DEF Event, EventRows, EventsOf
    <3> QED
      BY <3>1 DEF SeedInit, IsTable
  <2>6. reply \in Replies
    BY DEF SeedInit, Error, Replies, Scopes, Entities
  <2> QED
    BY <2>1, <2>2, <2>3, <2>4, <2>5, <2>6 DEF SeedInit, TypeOK
<1>3. RowsFit
  <2>1. HierarchyOK
    BY <1>1 DEF HierarchyOK, Live, ParentFits, ParentKind, SeedRow
  <2> QED
    BY <1>1, <2>1 DEF RowsFit, Live, SeedRow
<1>4. ~HasImage(events[1])
  BY <1>1 DEF HasImage, Event
<1>5. LogFits
  BY <1>1 DEF LogFits, Live, Event
<1>6. IdsAreMinted /\ EntriesFit
  BY <1>1, <1>4 DEF IdsAreMinted, EntriesFit, Live, HasImage
<1>7. LogIsNumbered
  BY <1>1 DEF LogIsNumbered
<1>8. LedgerPointsAtItsWrite
  BY <1>1 DEF LedgerPointsAtItsWrite
<1> QED
  BY <1>2, <1>3, <1>5, <1>6, <1>7, <1>8 DEF StoreInv

-----------------------------------------------------------------------------
(* What clients do is what the store does.                                   *)

\* A request is one of those of the store, with a key or without.
LEMMA ProjectRequest ==
  ASSUME NEW key \in KeysOrNone, OnProjects(key), UNCHANGED now
  PROVE  [Next]_vars
  BY DEF Next, Request, KeysOrNone

\* The same of a request on nodes.
LEMMA NodeRequest ==
  ASSUME NEW key \in KeysOrNone, OnNodes(key), UNCHANGED now
  PROVE  [Next]_vars
  BY DEF Next, Request, KeysOrNone

\* The requests that the clients make.
LEMMA CreateRequest ==
  ASSUME NEW key \in KeysOrNone, NEW p \in ProjectIds, NEW parent \in Parents, NEW kind \in Kinds,
         CreateNode(p, parent, kind, key), UNCHANGED now
  PROVE  [Next]_vars
<1>1. OnProjects(key)
  BY DEF OnProjects
<1> QED
  BY <1>1, ProjectRequest

\* An undo.
LEMMA UndoOneRequest ==
  ASSUME NEW key \in KeysOrNone, NEW p \in ProjectIds, NEW seq \in 0 .. MaxSeq, Undo(p, seq, key),
         UNCHANGED now
  PROVE  [Next]_vars
<1>1. OnProjects(key)
  BY DEF OnProjects
<1> QED
  BY <1>1, ProjectRequest

\* A write to one node.
LEMMA OneNodeRequest ==
  ASSUME NEW key \in KeysOrNone, NEW n \in NodeIds, UNCHANGED now,
         \/ DeleteNode(n, TRUE, key) \/ DeleteNode(n, FALSE, key) \/ AddComment(n, key)
         \/ \E status \in Statuses : SetStatus(n, status, key)
         \/ \E parent \in NodeIds, kind \in {"TASK", "STEP"} : MoveNode(n, parent, kind, key)
  PROVE  [Next]_vars
<1>1. OnNodes(key)
  BY DEF OnNodes, Parents, Kinds
<1> QED
  BY <1>1, NodeRequest

\* An edge more or less.
LEMMA EdgeRequest ==
  ASSUME NEW key \in KeysOrNone, NEW n \in NodeIds, NEW m \in NodeIds, UNCHANGED now,
         AddDependency(n, m, key) \/ RemoveDependency(n, m, key)
  PROVE  [Next]_vars
<1>1. OnNodes(key)
  BY DEF OnNodes
<1> QED
  BY <1>1, NodeRequest

\* The rows that clients name are there.
LEMMA IdsAtHand ==
  ASSUME StoreInv
  PROVE  /\ Live \subseteq NodeIds /\ DOMAIN projects \subseteq ProjectIds /\ 0 \in 0 .. MaxSeq
         /\ NoKey \in KeysOrNone
         /\ \A n \in Live : nodes[n].project \in ProjectIds
<1>1. 0 \in 0 .. MaxSeq
  BY StoreAssumption
<1>2. \A n \in Live : nodes[n] \in NodeRows
  BY DEF StoreInv, TypeOK, IsTable, Live
<1> QED
  BY <1>1, <1>2 DEF StoreInv, TypeOK, IsTable, Live, KeysOrNone, NodeRows

\* The agent that retries needs a key to retry with.
LEMMA AgentRequests ==
  ASSUME Keys # {}, StoreInv, AgentNext
  PROVE  [Next]_vars
<1> USE SeedIds, IdsAtHand
<1>1. TheKey \in KeysOrNone
  BY DEF TheKey, KeysOrNone
<1>2. CASE Send \/ LoseRequest \/ Answer
  BY <1>2 DEF Send, LoseRequest, Answer
<1>3. CASE Deliver
  <2>1. UNCHANGED now
    BY <1>3 DEF Deliver
  <2>2. CASE CreateNode(Travel, Wp, "TASK", TheKey)
    BY <1>1, <2>1, <2>2, CreateRequest DEF Parents, Kinds
  <2>3. CASE SetStatus(Task1, "DONE", TheKey) \/ DeleteNode(Task1, TRUE, TheKey)
    BY <1>1, <2>1, <2>3, OneNodeRequest DEF Statuses
  <2>4. CASE AddDependency(Task2, Wp, TheKey)
    BY <1>1, <2>1, <2>4, EdgeRequest
  <2>5. CASE Undo(Travel, 0, TheKey)
    BY <1>1, <2>1, <2>5, UndoOneRequest
  <2> QED
    BY <1>3, <2>2, <2>3, <2>4, <2>5 DEF Deliver
<1>4. CASE Meanwhile
  <2>1. UNCHANGED now
    BY <1>4 DEF Meanwhile
  <2>2. ASSUME NEW n \in Live, DeleteNode(n, FALSE, NoKey) \/ SetStatus(n, "OPEN", NoKey)
        PROVE  [Next]_vars
    BY <2>1, <2>2, OneNodeRequest DEF Statuses
  <2>3. CASE Undo(Travel, 0, NoKey)
    BY <2>1, <2>3, UndoOneRequest
  <2>4. CASE RemoveDependency(Task2, Wp, NoKey)
    BY <2>1, <2>4, EdgeRequest
  <2> QED
    BY <1>4, <2>2, <2>3, <2>4 DEF Meanwhile
<1> QED
  BY <1>2, <1>3, <1>4 DEF AgentNext

\* The user who undoes.
LEMMA UndoRequests ==
  ASSUME StoreInv, UndoRequest
  PROVE  [Next]_vars
<1> USE IdsAtHand
<1>1. UNCHANGED now
  BY DEF UndoRequest
<1>2. ASSUME NEW p \in DOMAIN projects, Undo(p, 0, NoKey) \/ CreateNode(p, NoNode, "WORK_PACKAGE", NoKey)
      PROVE  [Next]_vars
  BY <1>1, <1>2, UndoOneRequest, CreateRequest DEF Parents, Kinds
<1>3. ASSUME NEW n \in Live, CreateNode(nodes[n].project, n, "TASK", NoKey)
      PROVE  [Next]_vars
  <2>1. nodes[n].project \in ProjectIds /\ n \in Parents /\ "TASK" \in Kinds
    BY DEF Parents, Kinds
  <2> QED
    BY <1>1, <1>3, <2>1, CreateRequest
<1>4. ASSUME NEW n \in Live,
             \/ DeleteNode(n, FALSE, NoKey) \/ AddComment(n, NoKey)
             \/ \E status \in Statuses : SetStatus(n, status, NoKey)
             \/ \E parent \in Live, kind \in {"TASK", "STEP"} : MoveNode(n, parent, kind, NoKey)
      PROVE  [Next]_vars
  BY <1>1, <1>4, OneNodeRequest
<1>5. ASSUME NEW n \in Live, NEW m \in Live, AddDependency(n, m, NoKey) \/ RemoveDependency(n, m, NoKey)
      PROVE  [Next]_vars
  BY <1>1, <1>5, EdgeRequest
<1> QED
  BY <1>2, <1>3, <1>4, <1>5 DEF UndoRequest

\* The others that write while one reads.
LEMMA WriteRequests ==
  ASSUME StoreInv, lastSeq <= MaxSeq, NEW p \in DOMAIN projects, WriteIn(p), UNCHANGED now
  PROVE  [Next]_vars
<1> USE IdsAtHand
<1>1. In(p) \subseteq Live
  BY DEF In
<1>2. ASSUME NEW parent \in In(p) \cup {NoNode}, NEW kind \in Kinds, CreateNode(p, parent, kind, NoKey)
      PROVE  [Next]_vars
  BY <1>1, <1>2, CreateRequest DEF Parents
<1>3. ASSUME NEW seq \in EventsIn(p), Undo(p, seq, NoKey)
      PROVE  [Next]_vars
  <2>1. seq \in 1 .. lastSeq /\ lastSeq \in Nat /\ MaxSeq \in Nat
    BY StoreAssumption DEF EventsIn, StoreInv, LogIsNumbered, TypeOK
  <2>2. seq \in 0 .. MaxSeq
    BY <2>1
  <2> QED
    BY <1>1, <1>3, <2>2, UndoOneRequest
<1>4. ASSUME NEW n \in In(p),
             \/ DeleteNode(n, FALSE, NoKey)
             \/ \E status \in {"OPEN", "DONE"} : SetStatus(n, status, NoKey)
             \/ \E parent \in In(p) : MoveNode(n, parent, "STEP", NoKey)
      PROVE  [Next]_vars
  BY <1>1, <1>4, OneNodeRequest DEF Statuses
<1>5. ASSUME NEW n \in In(p), NEW m \in In(p), AddDependency(n, m, NoKey)
      PROVE  [Next]_vars
  BY <1>1, <1>5, EdgeRequest
<1> QED
  BY <1>2, <1>3, <1>4, <1>5 DEF WriteIn

-----------------------------------------------------------------------------
(* The invariant that all clients share.                                     *)

\* The newest commit is in the log, as it is the one commit that no cascade of a later one has
\* thinned out; and the numbers keep to their bound.
LogHasLatest == lastSeq \in DOMAIN events /\ lastSeq <= MaxSeq

ClientsInv == StoreInv /\ LogHasLatest

\* The newest event is in the log: a cascade takes events of nodes that are gone, and never
\* the one that is being logged.
LEMMA LatestLogged ==
  ASSUME ClientsInv, [Next]_vars
  PROVE  ClientsInv'
<1>1. StoreInv' /\ Effect
  BY NextHolds, NextEffect DEF ClientsInv
<1>2. CASE UNCHANGED tables \/ Filed
  BY <1>1, <1>2 DEF ClientsInv, LogHasLatest, Filed, tables
<1>3. ASSUME NEW kept, NEW bare, NEW event, NEW key, NEW entity, NEW affected,
             Wrote(kept, bare, event, key, entity, affected)
      PROVE  LogHasLatest'
  <2>1. /\ lastSeq \in Nat /\ lastSeq' = lastSeq + bare + 1 /\ bare \in Nat
        /\ DOMAIN events' = DOMAIN kept \cup (lastSeq + 1) .. lastSeq'
    BY <1>3, LogAfterWrite DEF ClientsInv, Wrote
  <2>2. lastSeq' <= MaxSeq
    BY <1>3 DEF Wrote, Commit, SeqBase
  <2>3. lastSeq' \in (lastSeq + 1) .. lastSeq'
    BY <2>1
  <2> QED
    BY <2>1, <2>2, <2>3 DEF LogHasLatest
<1> QED
  BY <1>1, <1>2, <1>3 DEF Effect, ClientsInv

\* A reader changes nothing.
LEMMA ReaderSteps ==
  ASSUME ClientsInv, PollNext \/ PageNext
  PROVE  [Next]_vars
<1>1. CASE Others
  <2>1. PICK p \in DOMAIN projects : WriteIn(p)
    BY <1>1 DEF Others
  <2> QED
    BY <1>1, <2>1, WriteRequests DEF Others, ClientsInv, LogHasLatest
<1>2. CASE GetProject \/ (\E limit \in {0, 1} : Poll(limit)) \/ \E limit \in {0, 1, 2} : NextPage(limit)
  BY <1>2 DEF GetProject, Poll, NextPage
<1> QED
  BY <1>1, <1>2 DEF PollNext, PageNext

\* Nothing that a client or those around it do is more than a request of the store.
LEMMA ClientSteps ==
  ASSUME Keys # {}, ClientsInv, [ClientsNext]_clientsVars
  PROVE  [Next]_vars
<1>1. CASE UNCHANGED clientsVars
  BY <1>1 DEF clientsVars
<1>2. CASE AgentNext \/ UndoRequest \/ PollNext \/ PageNext
  BY <1>2, AgentRequests, UndoRequests, ReaderSteps DEF ClientsInv
<1> QED
  BY <1>1, <1>2 DEF ClientsNext

\* So the store's invariant holds among clients, from the fixture on.
LEMMA ClientsHold ==
  /\ ClientsInit => ClientsInv
  /\ Keys # {} /\ ClientsInv /\ [ClientsNext]_clientsVars => ClientsInv'
<1>1. ASSUME ClientsInit PROVE ClientsInv
  <2>1. SeedInit
    BY <1>1 DEF ClientsInit, AgentInit
  <2>2. LogHasLatest
    BY <2>1, SeedAssumption DEF SeedInit, LogHasLatest
  <2> QED
    BY <2>1, <2>2, SeedHolds DEF ClientsInv
<1>2. ASSUME Keys # {}, ClientsInv, [ClientsNext]_clientsVars PROVE ClientsInv'
  BY <1>2, ClientSteps, LatestLogged
<1> QED
  BY <1>1, <1>2

-----------------------------------------------------------------------------
(* The answer to a request.                                                  *)

\* A request that logs an event of project p, or an earlier one, as the commit of a write.
Committed(p, key) ==
  /\ ~Hit(p, key)
  /\ \E kept, bare, event, entity, affected :
       bare \in Nat /\ event.project = p /\ Commit(kept, bare, event, key, entity, affected)

\* What a request with this key does that is answered from the scope of this project.
Answered(p, key) ==
  \/ Refuse
  \/ \E touched, entity : Replay(p, key, touched, entity)
  \/ Committed(p, key)

\* A commit that deletes no node along with the one that is named.
LEMMA LogCommits ==
  ASSUME NEW key, NEW kept, NEW event, NEW entity, NEW affected, ~Hit(event.project, key),
         Commit(kept, 0, event, key, entity, affected)
  PROVE  Committed(event.project, key)
<1>1. 0 \in Nat
  OBVIOUS
<1> QED
  BY <1>1 DEF Committed

\* Every request is answered from one scope, that of the project it is about.
LEMMA CreateAnswers ==
  ASSUME NEW p, NEW parent, NEW kind, NEW key, CreateNode(p, parent, kind, key)
  PROVE  Answered(p, key)
<1>1. CASE Hit(p, key)
  BY <1>1 DEF CreateNode, Answered
<1>2. CASE ~Hit(p, key)
  <2>1. ASSUME NEW n, Commit(events, 0, Event(p, n, "NODE_CREATED", NoPayload), key, n, {n})
        PROVE  Committed(p, key)
    <3>1. Event(p, n, "NODE_CREATED", NoPayload).project = p
      BY DEF Event
    <3> QED
      BY <1>2, <2>1, <3>1, LogCommits
  <2> QED
    BY <1>2, <2>1 DEF CreateNode, Answered
<1> QED
  BY <1>1, <1>2

\* What writes nothing is refused, or answered from the ledger.
LEMMA NotWrittenAnswers ==
  ASSUME NEW n, NEW key, NEW refused, NotWritten(n, key, refused)
  PROVE  Refuse \/ (n \in Live /\ Answered(nodes[n].project, key))
  BY DEF NotWritten, Answered, Live

\* A status is set in the project of its node.
LEMMA SetStatusAnswers ==
  ASSUME NEW n, NEW status, NEW key, SetStatus(n, status, key)
  PROVE  Refuse \/ (n \in Live /\ Answered(nodes[n].project, key))
<1> DEFINE event == Event(nodes[n].project, n, "STATUS_SET", [before |-> nodes[n].status])
<1>1. CASE Accepted(n, key, FALSE) /\ Log(event, key, {n} \cup Dependents(deps, {n}))
  <2>1. event.project = nodes[n].project
    BY DEF Event
  <2>2. Committed(nodes[n].project, key)
    BY <1>1, <2>1, LogCommits DEF Accepted, Log
  <2> QED
    BY <1>1, <2>2 DEF Answered, Accepted, Live
<1> QED
  BY <1>1, NotWrittenAnswers DEF SetStatus

\* A delete is logged in the project of the node that is named, whatever it takes along.
LEMMA DeleteAnswers ==
  ASSUME NEW n, NEW flag, NEW key, DeleteNode(n, flag, key)
  PROVE  Refuse \/ (n \in Live /\ Answered(nodes[n].project, key))
<1> DEFINE gone == Subtree(nodes, n)
           event == Event(nodes[n].project, NoNode, "NODE_DELETED", [image |-> [id |-> n, row |-> nodes[n]]])
<1>1. CASE Accepted(n, key, flag /\ \E e \in deps : n \in {e[1], e[2]})
           /\ Commit(EventsWithout(events, gone), Cardinality(Descendants(n)), event, key, NoNode,
                     Dependents(deps, gone) \ gone)
  <2>1. event.project = nodes[n].project
    BY DEF Event
  <2>2. Cardinality(Descendants(n)) \in Nat
    <3>1. Descendants(n) \subseteq NodeIds
      BY SubtreeIds DEF Descendants
    <3> QED
      BY <3>1, FiniteIds
  <2>3. Committed(nodes[n].project, key)
    BY <1>1, <2>1, <2>2 DEF Accepted, Committed
  <2> QED
    BY <1>1, <2>3 DEF Answered, Accepted, Live
<1> QED
  BY <1>1, NotWrittenAnswers DEF DeleteNode

\* An edge is logged in the project of the node that blocks.
LEMMA EdgeAnswers ==
  ASSUME NEW n, NEW m, NEW key, AddDependency(n, m, key) \/ RemoveDependency(n, m, key)
  PROVE  \/ Refuse
         \/ \E touched, entity : Replay(ProjectOf(n), key, touched, entity)
         \/ n \in Live /\ Committed(ProjectOf(n), key)
<1>1. ASSUME NEW kind, ~Hit(ProjectOf(n), key),
             Log(Event(ProjectOf(n), NoNode, kind, [pair |-> <<n, m>>]), key, {m})
      PROVE  Committed(ProjectOf(n), key)
  <2>1. Event(ProjectOf(n), NoNode, kind, [pair |-> <<n, m>>]).project = ProjectOf(n)
    BY DEF Event
  <2> QED
    BY <1>1, <2>1, LogCommits DEF Log
<1>2. CASE AddDependency(n, m, key)
  BY <1>1, <1>2 DEF AddDependency, EdgeAccepted, Live
<1>3. CASE RemoveDependency(n, m, key)
  BY <1>1, <1>3 DEF RemoveDependency, ProjectOf, Live
<1> QED
  BY <1>2, <1>3

\* An undo is logged in the project that it is asked of, which is that of the event.
LEMMA UndoAnswers ==
  ASSUME NEW p, NEW seq, NEW key, Undo(p, seq, key)
  PROVE  Answered(p, key)
<1>1. ASSUME NEW t \in DOMAIN events, IsTarget(p, seq, t), ~Hit(p, key), Revert(events[t], key)
      PROVE  Answered(p, key)
  <2>1. events[t].project = p
    BY <1>1 DEF IsTarget
  <2>2. ASSUME NEW node, NEW kind, NEW payload, NEW kept, NEW affected,
               Commit(kept, 0, Event(events[t].project, node, kind, payload), key, NoNode, affected)
        PROVE  Answered(p, key)
    <3>1. Event(events[t].project, node, kind, payload).project = p
      BY <2>1 DEF Event
    <3> QED
      BY <1>1, <2>2, <3>1, LogCommits DEF Answered
  <2>3. CASE UndoStatus(events[t], key)
    BY <2>2, <2>3 DEF UndoStatus, Log
  <2>4. CASE UndoDepAdded(events[t], key)
    BY <2>2, <2>4 DEF UndoDepAdded, Log
  <2>5. CASE UndoDepRemoved(events[t], key)
    BY <2>2, <2>5 DEF UndoDepRemoved, Log
  <2>6. CASE UndoCreated(events[t], key)
    BY <2>2, <2>6 DEF UndoCreated
  <2>7. CASE UndoDeleted(events[t], key)
    BY <2>2, <2>7 DEF UndoDeleted, Log
  <2> QED
    BY <1>1, <2>3, <2>4, <2>5, <2>6, <2>7 DEF Revert, Answered
<1> QED
  BY <1>1 DEF Undo, Answered

\* What Effect says of a request that is known to have logged an event of this project.
LEMMA CommitEffect ==
  ASSUME StoreInv, Effect, NEW p, NEW key, Committed(p, key)
  PROVE  /\ lastSeq' \in Nat /\ lastSeq' > lastSeq
         /\ \E kept, bare, event, entity, affected :
              event.project = p /\ Wrote(kept, bare, event, key, entity, affected)
<1>1. lastSeq' \in Nat /\ lastSeq' > lastSeq /\ reply'.scope = p /\ reply'.key = key
  <2>1. PICK kept, bare, event, entity, affected :
          bare \in Nat /\ event.project = p /\ Commit(kept, bare, event, key, entity, affected)
    BY DEF Committed
  <2>2. lastSeq \in Nat
    BY DEF StoreInv, TypeOK
  <2> QED
    BY <2>1, <2>2 DEF Commit, SeqBase
<1>2. lastSeq' # lastSeq
  BY <1>1 DEF StoreInv, TypeOK
<1>3. PICK kept, bare, event, k, entity, affected : Wrote(kept, bare, event, k, entity, affected)
  BY <1>2 DEF Effect, Filed, tables
<1>4. event.project = reply'.scope /\ k = reply'.key
  BY <1>3 DEF Wrote, Commit
<1> QED
  BY <1>1, <1>3, <1>4

-----------------------------------------------------------------------------
(* The agent that retries.                                                   *)

\* All nodes that there are, or that can come back, are in one project.
AllIn(p) ==
  /\ \A n \in Live : nodes[n].project = p
  /\ \A s \in DOMAIN events : HasImage(events[s]) => events[s].payload.image.row.project = p

\* That is so as long as every request is answered from it.
LEMMA AllStayIn ==
  ASSUME StoreInv, Effect, NEW p, NEW key, AllIn(p), Answered(p, key)
  PROVE  AllIn(p)'
<1>1. CASE UNCHANGED tables
  BY <1>1 DEF AllIn, Live, HasImage, tables
<1>2. CASE Committed(p, key)
  <2>1. PICK kept, bare, event, entity, affected :
          event.project = p /\ Wrote(kept, bare, event, key, entity, affected)
    BY <1>2, CommitEffect
  <2>2. Origins(event, entity)
    BY <2>1 DEF Wrote
  <2>3. \A n \in DOMAIN nodes' : nodes'[n].project = p
    BY <2>1, <2>2 DEF Origins, AllIn, Live
  <2>4. \A s \in DOMAIN events' :
          \/ s \in DOMAIN events /\ events'[s] = events[s]
          \/ events'[s] = BareDeletion(event.project)
          \/ events'[s] = event
    BY <2>1, LogAfterWrite
  <2>5. HasImage(event) => event.payload.image.row.project = p
    BY <2>2 DEF Origins, AllIn
  <2>6. \A s \in DOMAIN events' : HasImage(events'[s]) => events'[s].payload.image.row.project = p
    BY <2>4, <2>5, BareHasNoImage DEF AllIn
  <2> QED
    BY <2>3, <2>6 DEF AllIn, Live, HasImage
<1> QED
  BY <1>1, <1>2 DEF Answered, Refuse, Replay

\* The ledger holds the request of the agent once it has taken effect, under the cursor of
\* that, and nothing else: nobody else has a key, and no entry is made for a node that is not
\* there.
RetryInv ==
  /\ AllIn(Travel)
  /\ \/ effects = {} /\ DOMAIN idem = {}
     \/ DOMAIN idem = {<<Travel, TheKey>>} /\ effects = {idem[<<Travel, TheKey>>].seq}
  /\ RepliesAgree

\* The nodes of the requests are in Travel as long as they are there.
LEMMA DeliverAnswers ==
  ASSUME RetryInv, Deliver
  PROVE  Answered(Travel, TheKey)
<1> USE SeedIds
<1>1. \A n \in Live : nodes[n].project = Travel
  BY DEF RetryInv, AllIn
<1>2. <<NoProject, TheKey>> \notin DOMAIN idem
  BY DEF RetryInv
<1>3. CASE CreateNode(Travel, Wp, "TASK", TheKey)
  BY <1>3, CreateAnswers
<1>4. CASE SetStatus(Task1, "DONE", TheKey)
  BY <1>1, <1>4, SetStatusAnswers DEF Answered
<1>5. CASE DeleteNode(Task1, TRUE, TheKey)
  BY <1>1, <1>5, DeleteAnswers DEF Answered
<1>6. CASE AddDependency(Task2, Wp, TheKey)
  <2>1. CASE Task2 \in Live
    <3>1. ProjectOf(Task2) = Travel
      BY <1>1, <2>1 DEF ProjectOf, Live
    <3> QED
      BY <1>6, <3>1, EdgeAnswers DEF Answered
  <2>2. CASE Task2 \notin Live
    <3>1. ProjectOf(Task2) = NoProject
      BY <2>2 DEF ProjectOf, Live
    <3> QED
      BY <1>2, <1>6, <2>2, <3>1, EdgeAnswers DEF Answered, Replay, Hit
  <2> QED
    BY <2>1, <2>2
<1>7. CASE Undo(Travel, 0, TheKey)
  BY <1>7, UndoAnswers
<1> QED
  BY <1>3, <1>4, <1>5, <1>6, <1>7 DEF Deliver

\* Those who act between the attempts use no key, and act in the project that there is.
LEMMA MeanwhileAnswers ==
  ASSUME RetryInv, Meanwhile
  PROVE  Answered(Travel, NoKey)
<1> USE SeedIds
<1>1. \A n \in Live : nodes[n].project = Travel
  BY DEF RetryInv, AllIn
<1>2. ASSUME NEW n \in Live, DeleteNode(n, FALSE, NoKey) \/ SetStatus(n, "OPEN", NoKey)
      PROVE  Answered(Travel, NoKey)
  BY <1>1, <1>2, DeleteAnswers, SetStatusAnswers DEF Answered
<1>3. CASE Undo(Travel, 0, NoKey)
  BY <1>3, UndoAnswers
<1>4. CASE RemoveDependency(Task2, Wp, NoKey)
  <2>1. CASE Task2 \in Live
    <3>1. ProjectOf(Task2) = Travel
      BY <1>1, <2>1 DEF ProjectOf, Live
    <3> QED
      BY <1>4, <3>1, EdgeAnswers DEF Answered
  <2>2. CASE Task2 \notin Live
    BY <1>4, <2>2, EdgeAnswers DEF Answered, Replay, Hit
  <2> QED
    BY <2>1, <2>2
<1> QED
  BY <1>2, <1>3, <1>4 DEF Meanwhile

\* One copy of the request comes in: it is refused, answered from the ledger, or carried out,
\* and then it is the first one that is.
LEMMA DeliverRetries ==
  ASSUME Keys # {}, StoreInv, Effect, RetryInv, Deliver
  PROVE  RetryInv'
<1>1. Answered(Travel, TheKey) /\ AllIn(Travel)'
  BY DeliverAnswers, AllStayIn DEF RetryInv
<1>2. TheKey \in Keys /\ TheKey # NoKey
  BY StoreAssumption DEF TheKey
<1>3. /\ replies' = replies \cup {reply'}
      /\ effects' = IF tables' = tables THEN effects ELSE effects \cup {lastSeq'}
  BY DEF Deliver
<1>4. CASE Refuse
  <2>1. UNCHANGED tables /\ reply'.ok = FALSE
    BY <1>4 DEF Refuse, Error
  <2> QED
    BY <1>1, <1>3, <2>1 DEF RetryInv, RepliesAgree, tables
<1>5. ASSUME NEW touched, NEW entity, Replay(Travel, TheKey, touched, entity) PROVE RetryInv'
  <2>1. UNCHANGED tables /\ reply'.seq = idem[<<Travel, TheKey>>].seq /\ <<Travel, TheKey>> \in DOMAIN idem
    BY <1>5 DEF Replay, Hit
  <2>2. effects = {reply'.seq}
    BY <2>1 DEF RetryInv
  <2> QED
    BY <1>1, <1>3, <2>1, <2>2 DEF RetryInv, RepliesAgree, tables
<1>6. CASE Committed(Travel, TheKey)
  <2>1. PICK kept, bare, event, entity, affected :
          event.project = Travel /\ Wrote(kept, bare, event, TheKey, entity, affected)
    BY <1>6, CommitEffect
  <2>2. ~Hit(Travel, TheKey) /\ idem' = Recorded(Travel, TheKey, lastSeq', entity) /\ reply'.seq = lastSeq'
    BY <2>1 DEF Wrote, Commit
  <2>3. effects = {} /\ DOMAIN idem = {}
    BY <1>2, <2>2 DEF RetryInv, Hit
  <2>4. DOMAIN idem' = {<<Travel, TheKey>>} /\ idem'[<<Travel, TheKey>>] = [seq |-> lastSeq', entity |-> entity]
    BY <1>2, <2>2, <2>3 DEF Recorded, InsertOrIgnore, Upsert
  <2>5. effects' = {lastSeq'}
    <3>1. lastSeq' # lastSeq
      BY <1>6, CommitEffect DEF StoreInv, TypeOK
    <3>2. tables' # tables
      BY <3>1 DEF tables
    <3> QED
      BY <1>3, <2>3, <3>2
  <2>6. RepliesAgree'
    BY <1>3, <2>2, <2>3, <2>5 DEF RetryInv, RepliesAgree
  <2> QED
    BY <1>1, <2>4, <2>5, <2>6 DEF RetryInv
<1> QED
  BY <1>1, <1>4, <1>5, <1>6 DEF Answered

\* Requests without a key leave the ledger alone.
LEMMA MeanwhileRetries ==
  ASSUME StoreInv, Effect, RetryInv, Meanwhile
  PROVE  RetryInv'
<1>1. Answered(Travel, NoKey) /\ AllIn(Travel)'
  BY MeanwhileAnswers, AllStayIn DEF RetryInv
<1>2. idem' = idem
  <2>1. CASE Refuse \/ \E touched, entity : Replay(Travel, NoKey, touched, entity)
    BY <2>1 DEF Refuse, Replay, tables
  <2>2. CASE Committed(Travel, NoKey)
    BY <2>2 DEF Committed, Commit, Recorded
  <2> QED
    BY <1>1, <2>1, <2>2 DEF Answered
<1> QED
  BY <1>1, <1>2 DEF RetryInv, RepliesAgree, Meanwhile

\* Where the agent is not the client, it has sent nothing.
AgentIsSafe == IF client = "retries" THEN RetryInv ELSE effects = {} /\ replies = {}

\* Whatever is sent, lost or delivered late, and whatever is done by others, what the agent
\* was told stays true.
LEMMA RetriesStep ==
  ASSUME Keys # {}, ClientsInv, AgentIsSafe, [ClientsNext]_clientsVars
  PROVE  AgentIsSafe'
<1>1. StoreInv /\ Effect
  BY ClientSteps, NextEffect DEF ClientsInv
<1>2. client' = client
  BY DEF ClientsNext, clientsVars
<1>3. CASE client # "retries"
  BY <1>2, <1>3 DEF AgentIsSafe, ClientsNext, clientsVars, ownVars, agentVars
<1>4. CASE client = "retries" /\ UNCHANGED tables /\ UNCHANGED <<replies, effects>>
  BY <1>2, <1>4 DEF AgentIsSafe, RetryInv, AllIn, Live, HasImage, RepliesAgree, tables
<1>5. CASE client = "retries" /\ (Deliver \/ Meanwhile)
  BY <1>1, <1>2, <1>5, DeliverRetries, MeanwhileRetries DEF AgentIsSafe
<1>6. CASE client = "retries" /\ (Send \/ LoseRequest \/ Answer)
  BY <1>4, <1>6 DEF Send, LoseRequest, Answer, vars, tables
<1>7. CASE UNCHANGED clientsVars
  BY <1>3, <1>4, <1>7 DEF clientsVars, ownVars, agentVars, vars, tables
<1> QED
  BY <1>3, <1>5, <1>6, <1>7 DEF ClientsNext, AgentNext

\* At the start the agent has sent nothing, and the fixture is all in one project.
LEMMA RetriesInit == ClientsInit => AgentIsSafe
<1> SUFFICES ASSUME ClientsInit PROVE AgentIsSafe
  OBVIOUS
<1>1. SeedInit /\ effects = {} /\ replies = {}
  BY DEF ClientsInit, AgentInit
<1>2. ~HasImage(Event(Travel, Task1, "NODE_CREATED", NoPayload))
  BY DEF HasImage, Event
<1>3. AllIn(Travel)
  BY <1>1, <1>2 DEF AllIn, SeedInit, SeedRow, Live, HasImage
<1>4. RetryInv
  BY <1>1, <1>3 DEF RetryInv, RepliesAgree, SeedInit, Empty
<1> QED
  BY <1>1, <1>4 DEF AgentIsSafe

\* A request that is sent again and again with one key, over a transport that loses, repeats
\* and reorders, takes effect once at most, and every reply that says so names that one effect,
\* whatever others undo and delete meanwhile.
THEOREM RetriesTakeEffectOnce ==
  ASSUME Keys # {}
  PROVE  ClientsSpec => []RetriesAreSafe
<1> DEFINE Inv == ClientsInv /\ AgentIsSafe
<1>1. ClientsInit => Inv
  BY ClientsHold, RetriesInit
<1>2. Inv /\ [ClientsNext]_clientsVars => Inv'
  BY ClientsHold, RetriesStep
<1>3. Inv => RetriesAreSafe
  <2> SUFFICES ASSUME AgentIsSafe PROVE Cardinality(effects) <= 1 /\ RepliesAgree
    BY DEF RetriesAreSafe, AtMostOnce
  <2>1. effects = {} \/ \E s : effects = {s}
    BY DEF AgentIsSafe, RetryInv
  <2>2. Cardinality(effects) <= 1
    <3>1. Cardinality(effects) = 0 \/ Cardinality(effects) = 1
      BY <2>1, FS_EmptySet, FS_Singleton
    <3> QED
      BY <3>1
  <2>3. RepliesAgree
    BY DEF AgentIsSafe, RetryInv, RepliesAgree
  <2> QED
    BY <2>2, <2>3
<1> QED
  BY <1>1, <1>2, <1>3, PTL DEF ClientsSpec

-----------------------------------------------------------------------------
(* Pages of numbers.                                                         *)

\* A set of naturals has a smallest member, and one that is bounded a largest.
LEMMA HasLeast ==
  ASSUME NEW T \in SUBSET Nat, T # {}
  PROVE  \E x \in T : \A y \in T : x <= y
<1>1. \E x \in T : \A y \in T : ~ (<<y, x>> \in OpToRel(<, Nat))
  BY NatLessThanWellFounded, WFMin
<1>2. ASSUME NEW x \in T, NEW y \in T, ~ (<<y, x>> \in OpToRel(<, Nat)) PROVE x <= y
  BY <1>2 DEF OpToRel
<1> QED
  BY <1>1, <1>2

\* A set of naturals with a bound has a largest member.
LEMMA HasLargest ==
  ASSUME NEW T, T # {}, NEW b \in Nat, T \subseteq 0 .. b
  PROVE  \E x \in T : \A y \in T : y <= x
<1> DEFINE U == {c \in Nat : \E t \in T : c = b - t}
<1>1. U \in SUBSET Nat
  OBVIOUS
<1>2. U # {}
  <2>1. PICK t \in T : TRUE
    OBVIOUS
  <2>2. b - t \in U
    BY <2>1
  <2> QED
    BY <2>2
<1>3. PICK u \in U : \A v \in U : u <= v
  <2> HIDE DEF U
  <2> QED
    BY <1>1, <1>2, HasLeast
<1>4. PICK x \in T : u = b - x
  OBVIOUS
<1>5. ASSUME NEW y \in T PROVE x >= y
  <2>1. b - y \in U
    OBVIOUS
  <2>2. b - x <= b - y
    BY <1>3, <1>4, <2>1
  <2> QED
    BY <2>2
<1> QED
  BY <1>5

\* Max and Min are what they are called.
LEMMA MaxIs ==
  ASSUME NEW T, NEW b \in Nat, T \subseteq 0 .. b, T # {}
  PROVE  Max(T) \in T /\ \A y \in T : y <= Max(T)
<1>1. \E x \in T : \A y \in T : x >= y
  BY HasLargest
<1>2. Max(T) \in T /\ \A y \in T : Max(T) >= y
  BY <1>1 DEF Max
<1> QED
  BY <1>2

\* What Min chooses.
LEMMA MinIs ==
  ASSUME NEW T \in SUBSET Nat, T # {}
  PROVE  Min(T) \in T /\ \A y \in T : Min(T) <= y
  BY HasLeast DEF Min

\* Numbers up to a bound, counted.
LEMMA Counted1 ==
  ASSUME NEW b \in Nat, NEW S, S \subseteq 0 .. b, NEW T \in SUBSET S
  PROVE  /\ IsFiniteSet(S) /\ Cardinality(S) \in Nat /\ Cardinality(T) \in Nat
         /\ Cardinality(T) <= Cardinality(S)
<1>1. IsFiniteSet(0 .. b)
  BY FS_Interval
<1>2. IsFiniteSet(S)
  BY <1>1, FS_Subset
<1> QED
  BY <1>2, FS_Subset, FS_CardinalityType

\* A page from the old end has, with an event, all older ones; one from the new end all newer.
LEMMA OldestCloses ==
  ASSUME NEW b \in Nat, NEW S, S \subseteq 0 .. b, NEW k \in Nat,
         NEW t \in Oldest(S, k), NEW s \in S, s <= t
  PROVE  s \in Oldest(S, k)
<1> DEFINE B(x) == {u \in S : u < x}
<1>1. B(s) \in SUBSET B(t) /\ B(t) \subseteq 0 .. b
  <2>1. t \in S
    BY DEF Oldest
  <2>2. ASSUME NEW u \in S, u < s PROVE u < t
    <3>1. u \in 0 .. b /\ s \in 0 .. b /\ t \in 0 .. b
      BY <2>1
    <3> QED
      BY <2>2, <3>1
  <2> QED
    BY <2>2
<1>2. Cardinality(B(s)) <= Cardinality(B(t)) /\ Cardinality(B(s)) \in Nat /\ Cardinality(B(t)) \in Nat
  <2> HIDE DEF B
  <2> QED
    BY <1>1, Counted1
<1>3. Cardinality(B(t)) < k
  BY DEF Oldest
<1>4. Cardinality(B(s)) < k
  <2> HIDE DEF B
  <2> QED
    BY <1>2, <1>3
<1> QED
  BY <1>4 DEF Oldest

\* What is newer than one of the newest is one of them.
LEMMA NewestCloses ==
  ASSUME NEW b \in Nat, NEW S, S \subseteq 0 .. b, NEW k \in Nat,
         NEW t \in Newest(S, k), NEW s \in S, t <= s
  PROVE  s \in Newest(S, k)
<1> DEFINE B(x) == {u \in S : u > x}
<1>1. B(s) \in SUBSET B(t) /\ B(t) \subseteq 0 .. b
  <2>1. t \in S
    BY DEF Newest
  <2>2. ASSUME NEW u \in S, u > s PROVE u > t
    <3>1. u \in 0 .. b /\ s \in 0 .. b /\ t \in 0 .. b
      BY <2>1
    <3> QED
      BY <2>2, <3>1
  <2> QED
    BY <2>2
<1>2. Cardinality(B(s)) <= Cardinality(B(t)) /\ Cardinality(B(s)) \in Nat /\ Cardinality(B(t)) \in Nat
  <2> HIDE DEF B
  <2> QED
    BY <1>1, Counted1
<1>3. Cardinality(B(t)) < k
  BY DEF Newest
<1>4. Cardinality(B(s)) < k
  <2> HIDE DEF B
  <2> QED
    BY <1>2, <1>3
<1> QED
  BY <1>4 DEF Newest

\* A page that leaves something out is full.
LEMMA NewestIsFull ==
  ASSUME NEW b \in Nat, NEW S, S \subseteq 0 .. b, NEW k \in Nat, S # Newest(S, k)
  PROVE  Cardinality(Newest(S, k)) >= k
<1> DEFINE P == Newest(S, k)
<1>1. P \subseteq S
  BY DEF Newest
<1>2. PICK m \in S \ P : \A y \in S \ P : y <= m
  <2>1. S \ P # {} /\ S \ P \subseteq 0 .. b
    BY <1>1
  <2> QED
    BY <2>1, HasLargest
<1> DEFINE A == {u \in S : u > m}
<1>3. A \in SUBSET P
  <2>1. ASSUME NEW u \in S, u > m PROVE u \in P
    <3>1. u \in 0 .. b /\ m \in 0 .. b
      OBVIOUS
    <3>2. ~(u <= m)
      BY <2>1, <3>1
    <3> QED
      BY <1>2, <3>2
  <2> QED
    BY <2>1
<1>4. ~(Cardinality(A) < k)
  BY <1>2 DEF Newest
<1>5. Cardinality(A) \in Nat /\ Cardinality(P) \in Nat /\ Cardinality(A) <= Cardinality(P)
  <2> HIDE DEF A, P
  <2> QED
    BY <1>1, <1>3, Counted1
<1> HIDE DEF A, P
<1>6. Cardinality(P) >= k
  BY <1>4, <1>5
<1> QED
  BY <1>6 DEF P

\* What list_events leaves out is older than the page, and it says that there is more.
LEMMA PageIsCut ==
  ASSUME NEW b \in Nat, NEW S, S \subseteq 0 .. b, NEW k \in Nat, k >= 1,
         NEW s \in S, s \notin Newest(Newest(S, k + 1), k)
  PROVE  /\ Cardinality(Newest(S, k + 1)) > k
         /\ \A t \in Newest(Newest(S, k + 1), k) : s < t
<1> DEFINE R == Newest(S, k + 1)
           P == Newest(R, k)
<1>1. R \subseteq S /\ P \subseteq R /\ R \subseteq 0 .. b /\ k + 1 \in Nat
  <2>1. R \subseteq S
    BY DEF Newest
  <2>2. P \subseteq R
    <3> HIDE DEF R
    <3> QED
      BY DEF Newest
  <2>3. k + 1 \in Nat
    OBVIOUS
  <2> HIDE DEF R, P
  <2> QED
    BY <2>1, <2>2, <2>3
<1>2. ASSUME NEW t \in P, t <= s PROVE FALSE
  <2>1. t \in R
    BY <1>1
  <2>2. s \in R
    BY <1>1, <1>2, <2>1, NewestCloses
  <2>3. s \in P
    <3> HIDE DEF R
    <3> QED
      BY <1>1, <1>2, <2>2, NewestCloses
  <2> QED
    BY <2>3
<1>3. \A t \in P : s < t
  <2> SUFFICES ASSUME NEW t \in P PROVE s < t
    OBVIOUS
  <2>1. ~(t <= s) /\ t \in Nat /\ s \in Nat
    BY <1>1, <1>2
  <2> QED
    BY <2>1
<1>4. Cardinality(R) > k
  <2>1. CASE s \in R
    <3> DEFINE A == {u \in R : u > s}
    <3>1. ~(Cardinality(A) < k)
      BY <2>1 DEF Newest
    <3>2. A \in SUBSET (R \ {s})
      BY <1>1
    <3>3. IsFiniteSet(R) /\ Cardinality(R) \in Nat
      <4> HIDE DEF R
      <4> QED
        BY <1>1, Counted1
    <3>4. Cardinality(R \ {s}) = Cardinality(R) - 1
      <4> HIDE DEF R
      <4> QED
        BY <2>1, <3>3, FS_RemoveElement
    <3>5. Cardinality(A) \in Nat /\ Cardinality(A) <= Cardinality(R \ {s})
      <4> HIDE DEF R, A
      <4>1. R \ {s} \subseteq 0 .. b
        BY <1>1
      <4> QED
        BY <3>2, <4>1, Counted1
    <3> HIDE DEF A, R
    <3> QED
      BY <3>1, <3>3, <3>4, <3>5
  <2>2. CASE s \notin R
    <3>1. Cardinality(R) >= k + 1
      BY <1>1, <2>2, NewestIsFull
    <3>2. Cardinality(R) \in Nat
      <4> HIDE DEF R
      <4> QED
        BY <1>1, Counted1
    <3> HIDE DEF R
    <3> QED
      BY <3>1, <3>2
  <2> QED
    BY <2>1, <2>2
<1> QED
  BY <1>3, <1>4

-----------------------------------------------------------------------------
(* Those that read.                                                          *)

\* The log of earlier commits only ever loses events.
LEMMA LogGrows ==
  ASSUME ClientsInv, [Next]_vars
  PROVE  /\ lastSeq \in Nat /\ lastSeq' \in Nat /\ lastSeq' >= lastSeq
         /\ DOMAIN events \subseteq 1 .. lastSeq
         /\ \A s \in DOMAIN events' :
              \/ s \in DOMAIN events /\ s <= lastSeq /\ events'[s] = events[s]
              \/ s > lastSeq
<1>1. StoreInv /\ Effect
  BY NextEffect DEF ClientsInv
<1>2. lastSeq \in Nat /\ DOMAIN events \subseteq 1 .. lastSeq
  BY <1>1 DEF StoreInv, TypeOK, LogIsNumbered
<1>3. CASE UNCHANGED <<events, lastSeq>>
  <2>1. \A s \in DOMAIN events : s <= lastSeq
    BY <1>2
  <2> QED
    BY <1>2, <1>3, <2>1
<1>4. ASSUME NEW kept, NEW bare, NEW event, NEW key, NEW entity, NEW affected,
             Wrote(kept, bare, event, key, entity, affected)
      PROVE  /\ lastSeq' \in Nat /\ lastSeq' >= lastSeq
             /\ \A s \in DOMAIN events' :
                  \/ s \in DOMAIN events /\ s <= lastSeq /\ events'[s] = events[s]
                  \/ s > lastSeq
  <2>1. bare \in Nat
    BY <1>4 DEF Wrote
  <2>2. lastSeq' = lastSeq + bare + 1
    BY <1>1, <1>4, LogAfterWrite
  <2>3. \A s \in DOMAIN events' :
          \/ s \in DOMAIN events /\ s <= lastSeq /\ events'[s] = events[s]
          \/ s > lastSeq \/ s = lastSeq'
    BY <1>1, <1>4, LogAfterWrite
  <2>4. lastSeq' \in Nat /\ lastSeq' >= lastSeq /\ lastSeq' > lastSeq
    BY <1>2, <2>1, <2>2
  <2> QED
    BY <2>3, <2>4
<1> QED
  BY <1>1, <1>2, <1>3, <1>4 DEF Effect, Filed, tables

\* The cursor of a snapshot is the number of the newest commit.
LEMMA CursorIsNow ==
  ASSUME ClientsInv, NEW p
  PROVE  CursorOf(p) = lastSeq
<1> DEFINE T == DOMAIN events \cup {0}
<1>1. lastSeq \in Nat /\ DOMAIN events \subseteq 1 .. lastSeq /\ lastSeq \in T
  BY DEF ClientsInv, LogHasLatest, StoreInv, TypeOK, LogIsNumbered
<1>2. T \subseteq 0 .. lastSeq
  BY <1>1
<1>3. Max(T) \in 0 .. lastSeq /\ lastSeq <= Max(T)
  <2> HIDE DEF T
  <2> QED
    BY <1>1, <1>2, MaxIs
<1>4. Max(T) = lastSeq
  <2> HIDE DEF T
  <2> QED
    BY <1>1, <1>3
<1> QED
  BY <1>4 DEF CursorOf

\* The agent that polls has been given nothing from after its cursor, and all from before it.
PollInv ==
  /\ cursor \in 0 .. lastSeq /\ heard \subseteq 0 .. cursor
  /\ HearsEverything

\* The pager has been given nothing from before its place, and has still to be given what is
\* missing of what there was.
PagerInv ==
  /\ before \in 0 .. lastSeq /\ there \subseteq 0 .. lastSeq /\ listed \subseteq 0 .. lastSeq
  /\ before = 0 => listed = {}
  /\ \A t \in listed : before <= t
  /\ \A s \in EventsIn(Travel) \cap there :
       s \in listed \/ (pages = "more" /\ (before = 0 \/ s < before))

\* Whatever others write, what lies behind a reader stays behind it.
LEMMA WritesBehind ==
  ASSUME ClientsInv, [Next]_vars, PollInv, PagerInv, UNCHANGED <<pollVars, pageVars>>
  PROVE  PollInv' /\ PagerInv'
<1>1. /\ lastSeq \in Nat /\ lastSeq' \in Nat /\ lastSeq' >= lastSeq
      /\ \A s \in DOMAIN events' :
           \/ s \in DOMAIN events /\ s <= lastSeq /\ events'[s] = events[s]
           \/ s > lastSeq
  BY LogGrows
<1>2. \A T : T \subseteq 0 .. lastSeq => T \subseteq 0 .. lastSeq'
  BY <1>1
<1>3. \A s \in EventsIn(Travel)' : s <= lastSeq => s \in EventsIn(Travel)
  <2>1. ASSUME NEW s \in DOMAIN events', s <= lastSeq PROVE s \in DOMAIN events /\ events'[s] = events[s]
    <3>1. s \in Nat
      BY NextHolds DEF ClientsInv, StoreInv, TypeOK, IsTable
    <3>2. ~(s > lastSeq)
      BY <1>1, <2>1, <3>1
    <3> QED
      BY <1>1, <3>2
  <2> QED
    BY <2>1 DEF EventsIn
<1>4. PollInv'
  <2>1. cursor \in 0 .. lastSeq' /\ cursor <= lastSeq
    BY <1>1 DEF PollInv
  <2>2. ASSUME NEW s \in EventsIn(Travel)', s <= cursor PROVE s \in heard
    <3>1. s \in Nat
      BY <2>2, NextHolds DEF EventsIn, ClientsInv, StoreInv, TypeOK, IsTable
    <3>2. s <= lastSeq
      BY <1>1, <2>1, <2>2, <3>1
    <3> QED
      BY <1>3, <2>2, <3>2 DEF PollInv, HearsEverything
  <2> QED
    BY <2>1, <2>2 DEF PollInv, HearsEverything, pollVars
<1>5. PagerInv'
  <2>1. before \in 0 .. lastSeq' /\ there \subseteq 0 .. lastSeq' /\ listed \subseteq 0 .. lastSeq'
    BY <1>1, <1>2 DEF PagerInv
  <2>2. \A s \in there : s <= lastSeq
    BY <1>1 DEF PagerInv
  <2>3. EventsIn(Travel)' \cap there \subseteq EventsIn(Travel) \cap there
    BY <1>3, <2>2
  <2> QED
    BY <2>1, <2>3 DEF PagerInv, pageVars
<1> QED
  BY <1>4, <1>5

\* get_project covers all that there is.
LEMMA SnapshotCovers ==
  ASSUME ClientsInv, PollInv, GetProject
  PROVE  PollInv'
<1>1. lastSeq \in Nat /\ DOMAIN events \subseteq 1 .. lastSeq
  BY DEF ClientsInv, StoreInv, TypeOK, LogIsNumbered
<1>2. cursor' = lastSeq
  BY CursorIsNow DEF GetProject, Snapshot
<1>3. EventsIn(Travel) \subseteq 0 .. lastSeq
  BY <1>1 DEF EventsIn
<1>4. heard \subseteq 0 .. lastSeq
  BY <1>1 DEF PollInv
<1>5. heard' = heard \cup EventsIn(Travel) /\ events' = events /\ lastSeq' = lastSeq
  BY DEF GetProject, vars
<1>6. HearsEverything'
  BY <1>5 DEF HearsEverything, EventsIn
<1>7. cursor' \in 0 .. lastSeq'
  BY <1>1, <1>2, <1>5
<1>8. heard' \subseteq 0 .. lastSeq
  <2> HIDE DEF ClientsInv
  <2> QED
    BY <1>3, <1>4, <1>5
<1>9. heard' \subseteq 0 .. cursor'
  BY <1>2, <1>8
<1> QED
  BY <1>6, <1>7, <1>9 DEF PollInv

\* What a poll answers: the first ones after the cursor, and the last of them as the next one.
LEMMA PollAnswer ==
  ASSUME ClientsInv, PollInv, NEW limit \in {0, 1}
  PROVE  LET answer == PollChanges(Travel, cursor, limit) IN
         /\ answer.events \subseteq EventsAfter(Travel, cursor) /\ answer.events \subseteq 0 .. lastSeq
         /\ answer.events \subseteq 0 .. answer.seq
         /\ answer.seq \in 0 .. lastSeq /\ cursor <= answer.seq
         /\ \A s \in EventsIn(Travel) : cursor < s /\ s <= answer.seq => s \in answer.events
<1> DEFINE S == EventsAfter(Travel, cursor)
           k == IF limit = 0 THEN PollDefault ELSE limit
           page == Oldest(S, k)
           seq == IF page = {} THEN cursor ELSE Max(page)
<1>1. lastSeq \in Nat /\ DOMAIN events \subseteq 1 .. lastSeq /\ k \in Nat /\ cursor \in 0 .. lastSeq
  BY ReadsAssumption DEF ClientsInv, StoreInv, TypeOK, LogIsNumbered, PollInv
<1>2. S \subseteq 0 .. lastSeq /\ \A s \in S : cursor < s
  BY <1>1 DEF EventsAfter, EventsIn
<1>3. \A s \in EventsIn(Travel) : cursor < s => s \in S
  <2> SUFFICES ASSUME NEW s \in EventsIn(Travel), cursor < s PROVE s > cursor
    BY DEF EventsAfter
  <2>1. s \in Nat /\ cursor \in Nat
    BY <1>1 DEF EventsIn
  <2> QED
    BY <2>1
<1> HIDE DEF S, k
<1>4. page \subseteq S
  BY DEF Oldest
<1>5. /\ seq \in 0 .. lastSeq /\ cursor <= seq /\ page \subseteq 0 .. seq
      /\ \A s \in S : s <= seq => s \in page
  <2>1. CASE page = {}
    <3>1. ASSUME NEW s \in S, s <= cursor PROVE FALSE
      <4>1. cursor < s /\ s \in Nat /\ cursor \in Nat
        BY <1>1, <1>2
      <4> QED
        BY <3>1, <4>1
    <3> HIDE DEF page
    <3> QED
      BY <1>1, <2>1, <3>1
  <2>2. CASE page # {}
    <3>1. page \subseteq 0 .. lastSeq
      BY <1>2, <1>4
    <3>2. Max(page) \in page /\ \A s \in page : s <= Max(page)
      BY <1>1, <2>2, <3>1, MaxIs
    <3>3. \A s \in S : s <= Max(page) => s \in page
      BY <1>1, <1>2, <3>2, OldestCloses
    <3>4. Max(page) \in S
      BY <1>4, <3>2
    <3> DEFINE m == Max(page)
    <3>5. m \in 0 .. lastSeq /\ cursor < m
      BY <1>2, <3>4
    <3>6. page \subseteq 0 .. m
      <4> HIDE DEF page
      <4> QED
        BY <3>1, <3>2, <3>5, <1>1
    <3> HIDE DEF page
    <3>7. cursor <= m
      BY <1>1, <3>5
    <3> QED
      BY <2>2, <3>3, <3>5, <3>6, <3>7
  <2> QED
    BY <2>1, <2>2
<1>6. PollChanges(Travel, cursor, limit) = [events |-> page, seq |-> seq]
  BY DEF PollChanges, S, k
<1> HIDE DEF page, seq
<1>7. \A s \in EventsIn(Travel) : cursor < s /\ s <= seq => s \in page
  BY <1>3, <1>5
<1>8. page \subseteq EventsAfter(Travel, cursor) /\ page \subseteq 0 .. lastSeq
  BY <1>2, <1>4 DEF S
<1> QED
  BY <1>5, <1>6, <1>7, <1>8

\* A poll goes on from where the last one ended, and passes nothing over.
LEMMA PollCovers ==
  ASSUME ClientsInv, PollInv, NEW limit \in {0, 1}, Poll(limit)
  PROVE  PollInv'
<1> DEFINE answer == PollChanges(Travel, cursor, limit)
<1>1. /\ answer.events \subseteq 0 .. answer.seq /\ answer.seq \in 0 .. lastSeq /\ cursor <= answer.seq
      /\ \A s \in EventsIn(Travel) : cursor < s /\ s <= answer.seq => s \in answer.events
  BY PollAnswer
<1>2. /\ cursor' = answer.seq /\ heard' = heard \cup answer.events
      /\ events' = events /\ lastSeq' = lastSeq
  BY DEF Poll, vars
<1> HIDE DEF answer
<1>3. lastSeq \in Nat /\ DOMAIN events \subseteq 1 .. lastSeq /\ cursor \in 0 .. lastSeq
  BY DEF ClientsInv, StoreInv, TypeOK, LogIsNumbered, PollInv
<1>4. heard \subseteq 0 .. cursor'
  <2>1. heard \subseteq 0 .. cursor
    BY DEF PollInv
  <2>2. cursor \in Nat /\ cursor' \in Nat /\ cursor <= cursor'
    BY <1>1, <1>2, <1>3
  <2> QED
    BY <2>1, <2>2
<1>5. ASSUME NEW s \in EventsIn(Travel), s <= answer.seq PROVE s \in heard \cup answer.events
  <2>1. s \in Nat
    BY <1>3 DEF EventsIn
  <2>2. CASE s <= cursor
    BY <2>2 DEF PollInv, HearsEverything
  <2>3. CASE ~(s <= cursor)
    <3>1. cursor < s
      BY <1>3, <2>1, <2>3
    <3> QED
      BY <1>1, <1>5, <3>1
  <2> QED
    BY <2>2, <2>3
<1>6. HearsEverything'
  BY <1>2, <1>5 DEF HearsEverything, EventsIn
<1> QED
  BY <1>1, <1>2, <1>4, <1>6 DEF PollInv

\* What a page holds: the next ones before the last one, and whether that is all of them.
LEMMA PageAnswer ==
  ASSUME ClientsInv, PagerInv, NEW limit \in {0, 1, 2}
  PROVE  LET answer == ListEvents(Travel, NoNode, before, limit) IN
         /\ answer.events \subseteq EventsIn(Travel) /\ answer.events \subseteq 1 .. lastSeq
         /\ \A s \in answer.events : before = 0 \/ s < before
         /\ \A s \in EventsIn(Travel) \ answer.events :
              before = 0 \/ s < before => answer.more /\ \A t \in answer.events : s < t
<1> DEFINE S == Listed(Travel, NoNode, before)
           k == Max({limit, 1})
           rows == Newest(S, k + 1)
           page == Newest(rows, k)
<1>1. k \in Nat /\ k >= 1
  <2>1. {limit, 1} \subseteq 0 .. 2 /\ {limit, 1} # {} /\ 2 \in Nat
    OBVIOUS
  <2>2. k \in {limit, 1} /\ \A y \in {limit, 1} : y <= k
    BY <2>1, MaxIs
  <2> QED
    BY <2>2
<1>2. /\ S \subseteq EventsIn(Travel) /\ \A s \in S : before = 0 \/ s < before
      /\ \A s \in EventsIn(Travel) : before = 0 \/ s < before => s \in S
  BY DEF Listed
<1>3. lastSeq \in Nat /\ EventsIn(Travel) \subseteq 1 .. lastSeq
  BY DEF ClientsInv, StoreInv, TypeOK, LogIsNumbered, EventsIn
<1>4. ListEvents(Travel, NoNode, before, limit) = [events |-> page, more |-> Cardinality(rows) > k]
  BY DEF ListEvents
<1> HIDE DEF S, k
<1>5. page \subseteq S
  BY DEF Newest
<1>6. S \subseteq 0 .. lastSeq
  BY <1>2, <1>3
<1>7. \A s \in S : s \notin page => Cardinality(rows) > k /\ \A t \in page : s < t
  BY <1>1, <1>3, <1>6, PageIsCut
<1> HIDE DEF rows, page
<1>8. page \subseteq EventsIn(Travel) /\ page \subseteq 1 .. lastSeq
  BY <1>2, <1>3, <1>5
<1>9. \A s \in page : before = 0 \/ s < before
  BY <1>2, <1>5
<1> DEFINE more == Cardinality(rows) > k
<1>10. \A s \in EventsIn(Travel) \ page : before = 0 \/ s < before => more /\ \A t \in page : s < t
  BY <1>2, <1>7
<1> HIDE DEF more
<1>11. /\ ListEvents(Travel, NoNode, before, limit).events = page
       /\ ListEvents(Travel, NoNode, before, limit).more = more
  BY <1>4 DEF more
<1> QED
  BY <1>8, <1>9, <1>10, <1>11

\* A page goes down from where the last one ended, and passes nothing over.
LEMMA PageCovers ==
  ASSUME ClientsInv, PagerInv, NEW limit \in {0, 1, 2}, NextPage(limit)
  PROVE  PagerInv'
<1> DEFINE answer == ListEvents(Travel, NoNode, before, limit)
           page == answer.events
<1>1. /\ page \subseteq EventsIn(Travel) /\ page \subseteq 1 .. lastSeq
      /\ \A s \in page : before = 0 \/ s < before
      /\ \A s \in EventsIn(Travel) \ page :
           before = 0 \/ s < before => answer.more /\ \A t \in page : s < t
  BY PageAnswer
<1>2. /\ listed' = listed \cup page /\ before' = IF page = {} THEN before ELSE Min(page)
      /\ there' = IF before = 0 THEN EventsIn(Travel) ELSE there
      /\ pages' = (IF answer.more THEN "more" ELSE "done") /\ pages = "more"
      /\ events' = events /\ lastSeq' = lastSeq
  BY DEF NextPage, vars
<1> HIDE DEF page
<1>3. lastSeq \in Nat /\ EventsIn(Travel) \subseteq 1 .. lastSeq
  BY DEF ClientsInv, StoreInv, TypeOK, LogIsNumbered, EventsIn
<1>4. EventsIn(Travel)' = EventsIn(Travel)
  BY <1>2 DEF EventsIn
<1>5. there' \subseteq 0 .. lastSeq /\ listed' \subseteq 0 .. lastSeq
  <2>1. EventsIn(Travel) \subseteq 0 .. lastSeq /\ page \subseteq 0 .. lastSeq
    BY <1>1, <1>3
  <2> QED
    BY <1>2, <2>1 DEF PagerInv
<1>6. \A s \in EventsIn(Travel) \cap there' : s \in listed \/ before = 0 \/ s < before
  BY <1>2 DEF PagerInv
<1>7. CASE page = {}
  <2>1. before' = before /\ listed' = listed
    BY <1>2, <1>7
  <2>2. ASSUME NEW s \in EventsIn(Travel) \cap there', s \notin listed
        PROVE  pages' = "more" /\ (before = 0 \/ s < before)
    <3>1. before = 0 \/ s < before
      BY <1>6, <2>2
    <3> QED
      BY <1>1, <1>2, <1>7, <3>1
  <2> QED
    BY <1>2, <1>4, <1>5, <2>1, <2>2 DEF PagerInv
<1>8. CASE page # {}
  <2> DEFINE m == Min(page)
  <2>1. page \in SUBSET Nat
    BY <1>1, <1>3
  <2>2. m \in page /\ \A y \in page : m <= y
    BY <1>8, <2>1, MinIs
  <2>3. before' = m /\ m \in 1 .. lastSeq
    BY <1>1, <1>2, <1>8, <2>2
  <2>4. \A t \in listed : m <= t
    <3> SUFFICES ASSUME NEW t \in listed PROVE m <= t
      OBVIOUS
    <3>1. before # 0 /\ before <= t /\ t \in Nat /\ before \in Nat
      BY <1>3 DEF PagerInv
    <3>2. m < before
      BY <1>1, <2>2, <3>1
    <3> HIDE DEF m
    <3> QED
      BY <2>3, <3>1, <3>2
  <2>5. \A t \in listed' : m <= t
    BY <1>2, <2>2, <2>4
  <2>6. ASSUME NEW s \in EventsIn(Travel) \cap there', s \notin listed'
        PROVE  pages' = "more" /\ s < m
    <3>1. s \notin page /\ (before = 0 \/ s < before)
      BY <1>2, <1>6, <2>6
    <3> QED
      BY <1>1, <1>2, <2>2, <3>1
  <2> HIDE DEF m
  <2>7. before' \in 0 .. lastSeq /\ before' # 0
    BY <2>3
  <2>8. \A t \in listed' : before' <= t
    BY <2>3, <2>5
  <2>9. \A s \in EventsIn(Travel)' \cap there' :
          s \in listed' \/ (pages' = "more" /\ (before' = 0 \/ s < before'))
    BY <1>4, <2>3, <2>6
  <2>10. lastSeq' = lastSeq
    BY <1>2
  <2> QED
    BY <1>5, <2>7, <2>8, <2>9, <2>10 DEF PagerInv
<1> QED
  BY <1>7, <1>8

ReadersInv == ClientsInv /\ PollInv /\ PagerInv

\* Readers begin with nothing, and owe nothing yet.
LEMMA ReadersInit == ClientsInit => ReadersInv
<1> SUFFICES ASSUME ClientsInit PROVE PollInv /\ PagerInv
  BY ClientsHold DEF ReadersInv
<1>1. ClientsInv
  BY ClientsHold
<1>2. lastSeq \in Nat /\ EventsIn(Travel) \subseteq 1 .. lastSeq
  BY <1>1 DEF ClientsInv, StoreInv, TypeOK, LogIsNumbered, EventsIn
<1>3. /\ cursor = 0 /\ heard = {} /\ before = 0 /\ listed = {} /\ there = EventsIn(Travel)
      /\ pages = "more"
  BY DEF ClientsInit, ReaderInit
<1>4. HearsEverything
  <2> SUFFICES ASSUME NEW s \in EventsIn(Travel), s <= 0 PROVE FALSE
    BY <1>3 DEF HearsEverything
  <2> QED
    BY <1>2
<1>5. 0 \in 0 .. lastSeq /\ EventsIn(Travel) \subseteq 0 .. lastSeq
  BY <1>2
<1> QED
  BY <1>3, <1>4, <1>5 DEF PollInv, PagerInv

\* What others write lies above every cursor and every page; what they delete is no longer
\* owed.
LEMMA ReadersStep ==
  ASSUME Keys # {}, ReadersInv, [ClientsNext]_clientsVars
  PROVE  ReadersInv'
<1>1. [Next]_vars /\ ClientsInv /\ ClientsInv' /\ PollInv /\ PagerInv
  BY ClientSteps, ClientsHold DEF ReadersInv
<1>2. CASE UNCHANGED <<pollVars, pageVars>>
  BY <1>1, <1>2, WritesBehind DEF ReadersInv
<1>3. CASE UNCHANGED readerVars \/ UNCHANGED clientsVars \/ Others
  BY <1>2, <1>3 DEF readerVars, clientsVars, ownVars, Others
<1>4. ASSUME UNCHANGED vars
      PROVE  /\ UNCHANGED pageVars => PagerInv'
             /\ UNCHANGED pollVars => PollInv'
  BY <1>1, <1>4 DEF vars, pageVars, pollVars, PollInv, PagerInv, HearsEverything, EventsIn
<1>5. CASE GetProject
  BY <1>1, <1>4, <1>5, SnapshotCovers DEF ReadersInv, GetProject
<1>6. ASSUME NEW limit \in {0, 1}, Poll(limit) PROVE ReadersInv'
  BY <1>1, <1>4, <1>6, PollCovers DEF ReadersInv, Poll
<1>7. ASSUME NEW limit \in {0, 1, 2}, NextPage(limit) PROVE ReadersInv'
  BY <1>1, <1>4, <1>7, PageCovers DEF ReadersInv, NextPage
<1> QED
  BY <1>3, <1>5, <1>6, <1>7 DEF ClientsNext, PollNext, PageNext

\* Whoever follows a project from a cursor has been given everything up to it, and whoever
\* pages back to the end everything there was when it began, as far as it still exists:
\* whatever others write, undo and delete in this project and in others, and however short
\* the pages are.
THEOREM ReadersMissNothing ==
  ASSUME Keys # {}
  PROVE  ClientsSpec => []NothingIsMissed
<1>1. ReadersInv => NothingIsMissed
  BY DEF ReadersInv, PollInv, PagerInv, NothingIsMissed, PagesMissNothing
<1>2. ReadersInv /\ [ClientsNext]_clientsVars => ReadersInv'
  BY ReadersStep
<1> QED
  BY <1>1, <1>2, ReadersInit, PTL DEF ClientsSpec

\* No poll gives an event twice, and no page one that an earlier page gave or that is newer
\* than those: each page is all below the ones before it.
THEOREM ReadersHearOnce ==
  ASSUME Keys # {}
  PROVE  ClientsSpec => NothingComesTwice
<1> DEFINE PollsOnce == \A limit \in {0, 1} :
             Poll(limit) => PollChanges(Travel, cursor, limit).events \cap heard = {}
           PagesOnce == \A limit \in {0, 1, 2} : NextPage(limit) =>
             \A s \in ListEvents(Travel, NoNode, before, limit).events, t \in listed : s < t
<1>1. ReadersInv => PollsOnce
  <2> SUFFICES ASSUME ReadersInv, NEW limit \in {0, 1},
                      NEW s \in PollChanges(Travel, cursor, limit).events, s \in heard
               PROVE  FALSE
    OBVIOUS
  <2>1. s \in EventsAfter(Travel, cursor)
    BY PollAnswer DEF ReadersInv
  <2>2. s \in 0 .. cursor /\ s > cursor /\ cursor \in 0 .. lastSeq
    BY <2>1 DEF EventsAfter, ReadersInv, PollInv
  <2> QED
    BY <2>2
<1>2. ReadersInv => PagesOnce
  <2> SUFFICES ASSUME ReadersInv, NEW limit \in {0, 1, 2},
                      NEW s \in ListEvents(Travel, NoNode, before, limit).events, NEW t \in listed
               PROVE  s < t
    OBVIOUS
  <2>1. s \in 1 .. lastSeq /\ (before = 0 \/ s < before)
    BY PageAnswer DEF ReadersInv
  <2>2. before # 0 /\ before <= t /\ t \in 0 .. lastSeq /\ before \in 0 .. lastSeq
    BY DEF ReadersInv, PagerInv
  <2> QED
    BY <2>1, <2>2
<1>3. ReadersInv /\ [ClientsNext]_clientsVars => ReadersInv'
  BY ReadersStep
<1>4. [][PollsOnce]_<<vars, readerVars>> /\ [][PagesOnce]_<<vars, readerVars>> => NothingComesTwice
  BY DEF NothingComesTwice, PollsRepeatNothing, PagesRepeatNothing
<1> HIDE DEF PollsOnce, PagesOnce
<1> QED
  BY <1>1, <1>2, <1>3, <1>4, ReadersInit, PTL DEF ClientsSpec

-----------------------------------------------------------------------------
(* Nodes have a project for good, and a parent in it.                        *)

\* An assignment of projects to ids that the nodes follow, those that are there and those
\* that can come back, and their parents with them.
Homes == [NodeIds -> ProjectIds]

Homed(home) ==
  /\ \A n \in Live : /\ nodes[n].project = home[n]
                     /\ nodes[n].parent # NoNode => home[nodes[n].parent] = home[n]
  /\ \A s \in DOMAIN events : HasImage(events[s]) =>
       LET image == events[s].payload.image IN
       /\ image.row.project = home[image.id]
       /\ image.row.parent # NoNode =>
            image.row.parent \in minted /\ home[image.row.parent] = home[image.id]

\* The log names edges with both ends, and ends that have been created.
HasPair(event) == event.kind \in {"DEP_ADDED", "DEP_REMOVED"} /\ event.payload # NoPayload

\* So do edges and events.
Linked(home) ==
  /\ \A e \in deps : home[e[1]] = home[e[2]]
  /\ \A s \in DOMAIN events :
       /\ events[s].node # NoNode => home[events[s].node] = events[s].project
       /\ HasImage(events[s]) => home[events[s].payload.image.id] = events[s].project
       /\ HasPair(events[s]) => \A i \in {1, 2} :
            /\ events[s].payload.pair[i] \in minted
            /\ home[events[s].payload.pair[i]] = events[s].project

\* What the invariant says of a node and its parent, and of an image.
LEMMA ParentAtHand ==
  ASSUME StoreInv, NEW n \in Live
  PROVE  /\ n \in NodeIds /\ n # NoNode /\ n \in minted
         /\ nodes[n].parent = NoNode \/ (nodes[n].parent \in Live /\ nodes[n].parent \in minted)
<1>1. n \in NodeIds /\ n \in minted
  BY NodeAtHand DEF StoreInv, IdsAreMinted, Live
<1>2. nodes[n].parent = NoNode \/ nodes[n].parent \in Live
  BY DEF StoreInv, RowsFit, HierarchyOK, ParentFits, Live
<1> QED
  BY <1>1, <1>2, SchemaAssumption DEF StoreInv, IdsAreMinted

\* An image is of a node that was created, and a row of the schema.
LEMMA ImageAtHand ==
  ASSUME StoreInv, NEW s \in DOMAIN events, HasImage(events[s])
  PROVE  /\ events[s].payload.image.id \in NodeIds /\ events[s].payload.image.id \in minted
         /\ events[s].payload.image.row \in NodeRows
<1>1. events[s].payload.image \in Images
  BY EventAtHand, FieldsOfEvent DEF HasImage
<1> QED
  BY <1>1 DEF HasImage, Images, StoreInv, IdsAreMinted

\* An id that was never given out is not named anywhere: it can be given to any project.
LEMMA Rehome ==
  ASSUME StoreInv, NEW home \in Homes, Homed(home), NEW n \in NodeIds \ minted, NEW p \in ProjectIds
  PROVE  LET to == [home EXCEPT ![n] = p] IN
         /\ to \in Homes /\ to[n] = p /\ Homed(to)
         /\ Linked(home) => Linked(to)
<1> DEFINE to == [home EXCEPT ![n] = p]
<1>1. to \in Homes /\ to[n] = p /\ \A m : m # n => to[m] = home[m]
  BY DEF Homes
<1>2. \A m \in minted : to[m] = home[m]
  BY <1>1
<1> HIDE DEF to
<1>3. Homed(to)
  <2>1. ASSUME NEW m \in Live
        PROVE  /\ nodes[m].project = to[m]
               /\ nodes[m].parent # NoNode => to[nodes[m].parent] = to[m]
    BY <1>2, ParentAtHand DEF Homed
  <2>2. ASSUME NEW s \in DOMAIN events, HasImage(events[s])
        PROVE  LET image == events[s].payload.image IN
               /\ image.row.project = to[image.id]
               /\ image.row.parent # NoNode =>
                    image.row.parent \in minted /\ to[image.row.parent] = to[image.id]
    BY <1>2, <2>2, ImageAtHand DEF Homed
  <2> QED
    BY <2>1, <2>2 DEF Homed
<1>4. ASSUME Linked(home) PROVE Linked(to)
  <2>1. \A e \in deps : to[e[1]] = to[e[2]]
    BY <1>2, <1>4, ReferencesHold, ParentAtHand DEF Linked
  <2>2. ASSUME NEW s \in DOMAIN events
        PROVE  /\ events[s].node # NoNode => to[events[s].node] = events[s].project
               /\ HasImage(events[s]) => to[events[s].payload.image.id] = events[s].project
               /\ HasPair(events[s]) => \A i \in {1, 2} :
                    /\ events[s].payload.pair[i] \in minted
                    /\ to[events[s].payload.pair[i]] = events[s].project
    <3>1. events[s].node # NoNode => events[s].node \in minted
      BY EventAtHand, ParentAtHand
    <3>2. HasImage(events[s]) => events[s].payload.image.id \in minted
      BY ImageAtHand
    <3> QED
      BY <1>2, <1>4, <3>1, <3>2 DEF Linked
  <2> QED
    BY <2>1, <2>2 DEF Linked
<1> QED
  BY <1>1, <1>3, <1>4 DEF to

\* A commit keeps the assignment if the node that it creates, if any, follows it.
LEMMA HomedStep ==
  ASSUME StoreInv, NEW home \in Homes, Homed(home),
         NEW kept, NEW bare, NEW event, NEW key, NEW entity, NEW affected,
         Wrote(kept, bare, event, key, entity, affected),
         \A n \in DOMAIN nodes' : n = entity =>
           /\ event.project = home[n]
           /\ nodes'[n].parent # NoNode => home[nodes'[n].parent] = home[n]
  PROVE  Homed(home)'
<1>1. Origins(event, entity) /\ minted \subseteq minted'
  BY DEF Wrote, Origins
<1>2. ASSUME NEW n \in DOMAIN nodes'
      PROVE  /\ nodes'[n].project = home[n]
             /\ nodes'[n].parent # NoNode => home[nodes'[n].parent] = home[n]
  <2>1. CASE n \in Live /\ nodes'[n].project = nodes[n].project /\ StaysIn(n)
    BY <2>1 DEF StaysIn, Homed
  <2>2. CASE n = entity /\ nodes'[n].project = event.project
    BY <2>2
  <2>3. ASSUME NEW s \in DOMAIN events, HasImage(events[s]), events[s].payload.image.id = n,
               nodes'[n].project = events[s].payload.image.row.project,
               nodes'[n].parent = events[s].payload.image.row.parent
        PROVE  /\ nodes'[n].project = home[n]
               /\ nodes'[n].parent # NoNode => home[nodes'[n].parent] = home[n]
    BY <2>3 DEF Homed
  <2> QED
    BY <1>1, <2>1, <2>2, <2>3 DEF Origins
<1>3. ASSUME NEW s \in DOMAIN events', HasImage(events'[s])
      PROVE  LET image == events'[s].payload.image IN
             /\ image.row.project = home[image.id]
             /\ image.row.parent # NoNode =>
                  image.row.parent \in minted' /\ home[image.row.parent] = home[image.id]
  <2>1. \/ s \in DOMAIN events /\ events'[s] = events[s]
        \/ events'[s] = BareDeletion(event.project)
        \/ events'[s] = event
    BY LogAfterWrite
  <2>2. CASE s \in DOMAIN events /\ events'[s] = events[s]
    BY <1>1, <1>3, <2>2 DEF Homed
  <2>3. CASE events'[s] = event
    <3>1. event.payload.image.id \in Live /\ event.payload.image.row = nodes[event.payload.image.id]
      BY <1>1, <1>3, <2>3 DEF Origins
    <3> QED
      BY <1>1, <2>3, <3>1, ParentAtHand DEF Homed
  <2> QED
    BY <1>3, <2>1, <2>2, <2>3, BareHasNoImage
<1> QED
  BY <1>2, <1>3 DEF Homed, Live

\* What a create puts its node under is of the same project.
NewPlaced ==
  \A n \in DOMAIN nodes' \ Live :
    \/ n # reply'.entity
    \/ nodes'[n].parent = NoNode
    \/ nodes'[n].parent \in Live /\ nodes[nodes'[n].parent].project = nodes'[n].project

\* A new node is put under a parent that is there.
LEMMA CreatePlaces ==
  ASSUME NEW p, NEW parent, NEW kind, NEW key, CreateNode(p, parent, kind, key),
         parent \in Live => nodes[parent].project = p
  PROVE  NewPlaced
<1> DEFINE row == [project |-> p, parent |-> parent, kind |-> KindStr(kind), status |-> "OPEN",
                   updated |-> now]
<1>1. CASE UNCHANGED tables
  BY <1>1 DEF NewPlaced, Live, tables
<1>2. ASSUME InsertAccepted(projects, nodes, row), NEW n, nodes' = Upsert(nodes, n, row)
      PROVE  NewPlaced
  <2>1. parent = NoNode \/ parent \in Live
    BY <1>2 DEF InsertAccepted, ParentFits, Live
  <2>2. \A m \in DOMAIN nodes' \ Live : nodes'[m] = row
    BY <1>2 DEF Upsert, Live
  <2> QED
    BY <2>1, <2>2 DEF NewPlaced
<1> QED
  BY <1>1, <1>2 DEF CreateNode, Refuse, Replay

\* No other request names a new node in its reply.
LEMMA NothingPlaced ==
  ASSUME TypeOK', reply'.entity = NoNode \/ UNCHANGED tables
  PROVE  NewPlaced
  BY SchemaAssumption DEF NewPlaced, TypeOK, IsTable, Live, tables

\* What writes nothing places nothing.
LEMMA NotWrittenPlaces ==
  ASSUME NEW n, NEW key, NEW refused, NotWritten(n, key, refused)
  PROVE  UNCHANGED tables
  BY DEF NotWritten, Refuse, Replay

\* A request on nodes creates none.
LEMMA NodeRequestPlaces ==
  ASSUME NEW n, NEW key,
         \/ \E flag : DeleteNode(n, flag, key)
         \/ \E status : SetStatus(n, status, key)
         \/ \E parent, kind : MoveNode(n, parent, kind, key)
         \/ AddComment(n, key)
         \/ \E m : AddDependency(n, m, key) \/ RemoveDependency(n, m, key)
  PROVE  reply'.entity = NoNode \/ UNCHANGED tables
<1>1. ASSUME NEW kept, NEW bare, NEW event, NEW affected,
             Commit(kept, bare, event, key, NoNode, affected)
      PROVE  reply'.entity = NoNode
  BY <1>1 DEF Commit
<1>2. ASSUME NEW event, NEW affected, Log(event, key, affected) PROVE reply'.entity = NoNode
  BY <1>1, <1>2 DEF Log
<1>3. ASSUME NEW flag, DeleteNode(n, flag, key) PROVE reply'.entity = NoNode \/ UNCHANGED tables
  BY <1>1, <1>3, NotWrittenPlaces DEF DeleteNode
<1>4. ASSUME NEW status, SetStatus(n, status, key) PROVE reply'.entity = NoNode \/ UNCHANGED tables
  BY <1>2, <1>4, NotWrittenPlaces DEF SetStatus
<1>5. ASSUME NEW parent, NEW kind, MoveNode(n, parent, kind, key)
      PROVE  reply'.entity = NoNode \/ UNCHANGED tables
  BY <1>1, <1>5, NotWrittenPlaces DEF MoveNode
<1>6. CASE AddComment(n, key)
  BY <1>2, <1>6, NotWrittenPlaces DEF AddComment
<1>7. ASSUME NEW m, AddDependency(n, m, key) \/ RemoveDependency(n, m, key)
      PROVE  reply'.entity = NoNode \/ UNCHANGED tables
  BY <1>2, <1>7 DEF AddDependency, RemoveDependency, Refuse, Replay
<1> QED
  BY <1>3, <1>4, <1>5, <1>6, <1>7

\* Nor does an undo: what it restores has its old id.
LEMMA UndoPlaces ==
  ASSUME NEW p, NEW seq, NEW key, Undo(p, seq, key)
  PROVE  reply'.entity = NoNode \/ UNCHANGED tables
<1>1. ASSUME NEW kept, NEW event, NEW affected, Commit(kept, 0, event, key, NoNode, affected)
      PROVE  reply'.entity = NoNode
  BY <1>1 DEF Commit
<1>2. ASSUME NEW event, NEW affected, Log(event, key, affected) PROVE reply'.entity = NoNode
  BY <1>1, <1>2 DEF Log
<1>3. ASSUME NEW t, Revert(t, key) PROVE reply'.entity = NoNode \/ UNCHANGED tables
  BY <1>1, <1>2, <1>3
     DEF Revert, UndoStatus, UndoDepAdded, UndoDepRemoved, UndoCreated, UndoDeleted, Refuse
<1> QED
  BY <1>3 DEF Undo, Refuse, Replay

\* All that the clients do.
LEMMA ClientsPlace ==
  ASSUME Keys # {}, ClientsInv, ClientsInv', AgentIsSafe, [ClientsNext]_clientsVars
  PROVE  NewPlaced
<1>1. TypeOK'
  BY DEF ClientsInv, StoreInv
<1>2. CASE UNCHANGED tables
  BY <1>1, <1>2, NothingPlaced
<1>3. ASSUME NEW n, NEW key,
             \/ \E flag : DeleteNode(n, flag, key)
             \/ \E status : SetStatus(n, status, key)
             \/ \E parent, kind : MoveNode(n, parent, kind, key)
             \/ AddComment(n, key)
             \/ \E m : AddDependency(n, m, key) \/ RemoveDependency(n, m, key)
      PROVE  NewPlaced
  BY <1>1, <1>3, NodeRequestPlaces, NothingPlaced
<1>4. ASSUME NEW p, NEW seq, NEW key, Undo(p, seq, key) PROVE NewPlaced
  BY <1>1, <1>4, UndoPlaces, NothingPlaced
<1>5. CASE client = "retries" /\ Deliver
  <2>1. \A n \in Live : nodes[n].project = Travel
    BY <1>5 DEF AgentIsSafe, RetryInv, AllIn
  <2>2. CASE CreateNode(Travel, Wp, "TASK", TheKey)
    BY <2>1, <2>2, CreatePlaces
  <2> QED
    BY <1>3, <1>4, <1>5, <2>2 DEF Deliver
<1>6. CASE Meanwhile
  BY <1>3, <1>4, <1>6 DEF Meanwhile
<1>7. CASE UndoRequest
  <2>1. NoNode \notin Live
    BY SchemaAssumption DEF ClientsInv, StoreInv, TypeOK, IsTable, Live
  <2>2. ASSUME NEW p, CreateNode(p, NoNode, "WORK_PACKAGE", NoKey) PROVE NewPlaced
    BY <2>1, <2>2, CreatePlaces
  <2>3. ASSUME NEW n \in Live, CreateNode(nodes[n].project, n, "TASK", NoKey) PROVE NewPlaced
    BY <2>3, CreatePlaces
  <2> QED
    BY <1>3, <1>4, <1>7, <2>2, <2>3 DEF UndoRequest
<1>8. CASE Others
  <2>1. PICK p \in DOMAIN projects : WriteIn(p)
    BY <1>8 DEF Others
  <2>2. NoNode \notin Live
    BY SchemaAssumption DEF ClientsInv, StoreInv, TypeOK, IsTable, Live
  <2>3. ASSUME NEW parent \in In(p) \cup {NoNode}, NEW kind, CreateNode(p, parent, kind, NoKey)
        PROVE  NewPlaced
    BY <2>2, <2>3, CreatePlaces DEF In
  <2> QED
    BY <1>3, <1>4, <2>1, <2>3 DEF WriteIn
<1>9. CASE GetProject \/ (\E limit \in {0, 1} : Poll(limit)) \/ \E limit \in {0, 1, 2} : NextPage(limit)
  BY <1>2, <1>9 DEF GetProject, Poll, NextPage, vars, tables
<1>10. CASE UNCHANGED clientsVars \/ Send \/ LoseRequest \/ Answer
  BY <1>2, <1>10 DEF clientsVars, Send, LoseRequest, Answer, vars, tables
<1> QED
  BY <1>5, <1>6, <1>7, <1>8, <1>9, <1>10 DEF ClientsNext, AgentNext, PollNext, PageNext

-----------------------------------------------------------------------------
(* A write stays within its project.                                         *)

\* What a step reads from and writes to is about the nodes S.
Confined(S) ==
  /\ \A n \in NodeIds \ S :
       /\ n \in Live <=> n \in DOMAIN nodes'
       /\ n \in Live => nodes'[n] = nodes[n]
       /\ n \in DOMAIN verifications <=> n \in DOMAIN verifications'
       /\ n \in DOMAIN verifications => verifications'[n] = verifications[n]
  /\ \A e \in deps' \ deps : e[1] \in S /\ e[2] \in S
  /\ \A e \in deps \ deps' : e[1] \in S \/ e[2] \in S
  /\ \A s \in DOMAIN events : events[s].node \notin S => s \in DOMAIN events'
  /\ LastEvent.node \in S \cup {NoNode}
  /\ HasImage(LastEvent) => LastEvent.payload.image.id \in S
  /\ HasPair(LastEvent) => \A i \in {1, 2} :
       LastEvent.payload.pair[i] \in S /\ LastEvent.payload.pair[i] \in minted

StaysAt(home, p) == \E S \in SUBSET NodeIds : (\A n \in S : home[n] = p) /\ Confined(S)

\* A commit ends the log with its event, and keeps what it is given.
LEMMA CommitLogs ==
  ASSUME StoreInv, NEW kept, NEW bare \in Nat, NEW event, NEW key, NEW entity, NEW affected,
         Commit(kept, bare, event, key, entity, affected)
  PROVE  LastEvent = event /\ DOMAIN kept \subseteq DOMAIN events'
<1>1. lastSeq \in Nat
  BY DEF StoreInv, TypeOK
<1>2. /\ lastSeq' = lastSeq + bare + 1
      /\ events' = [s \in DOMAIN kept \cup (lastSeq + 1) .. lastSeq' |->
                      IF s = lastSeq' THEN event
                      ELSE IF s > lastSeq THEN BareDeletion(event.project) ELSE kept[s]]
  BY DEF Commit, SeqBase
<1>3. lastSeq' \in (lastSeq + 1) .. lastSeq'
  BY <1>1, <1>2
<1> QED
  BY <1>2, <1>3 DEF LastEvent

\* The event that is logged is the newest one.
LEMMA LogLogs ==
  ASSUME StoreInv, NEW event, NEW key, NEW affected, Log(event, key, affected)
  PROVE  LastEvent = event /\ DOMAIN events \subseteq DOMAIN events'
<1>1. 0 \in Nat
  OBVIOUS
<1> QED
  BY <1>1, CommitLogs DEF Log

\* A subtree lies in the project of its root.
LEMMA SubtreeHome ==
  ASSUME StoreInv, NEW home \in Homes, Homed(home), NEW n
  PROVE  \A m \in Subtree(nodes, n) : n \in Live /\ home[m] = home[n]
<1>1. CASE n \notin Live
  BY <1>1 DEF Subtree, Live
<1>2. CASE n \in Live
  <2> DEFINE S == {m \in Live : home[m] = home[n]}
  <2>1. S \in SUBSET NodeIds /\ n \in S
    BY <1>2, ParentAtHand
  <2>2. ClosedUnder(ParentEdges(nodes), S)
    <3> SUFFICES ASSUME NEW c \in Live, nodes[c].parent \in S PROVE c \in S
      BY DEF ClosedUnder, ParentEdges, Live
    <3>1. nodes[c].parent # NoNode
      BY ParentAtHand
    <3> QED
      BY <3>1 DEF Homed
  <2>3. Subtree(nodes, n) \subseteq S
    <3> HIDE DEF S
    <3> QED
      BY <2>1, <2>2 DEF Subtree, Reach
  <2> QED
    BY <1>2, <2>3
<1> QED
  BY <1>1, <1>2

\* A cascade is confined to what goes, together with the node whose row is written.
LEMMA CutConfined ==
  ASSUME StoreInv, NEW S \in SUBSET NodeIds, NEW gone \in SUBSET S,
         DOMAIN nodes' = Live \ gone, \A m \in NodeIds \ S : m \in Live => nodes'[m] = nodes[m],
         deps' = DepsWithout(deps, gone),
         NEW unseen \in SUBSET S, verifications' = VerificationsWithout(verifications, unseen),
         NEW bare \in Nat, NEW event, NEW key, NEW affected,
         Commit(EventsWithout(events, gone), bare, event, key, NoNode, affected),
         event.node \in S \cup {NoNode}, HasImage(event) => event.payload.image.id \in S, ~HasPair(event)
  PROVE  Confined(S)
<1>1. LastEvent = event /\ DOMAIN EventsWithout(events, gone) \subseteq DOMAIN events'
  BY CommitLogs
<1>2. \A s \in DOMAIN events : events[s].node \notin S => s \in DOMAIN events'
  BY <1>1 DEF EventsWithout, Restrict
<1>3. \A n \in NodeIds \ S :
        /\ n \in DOMAIN verifications <=> n \in DOMAIN verifications'
        /\ n \in DOMAIN verifications => verifications'[n] = verifications[n]
  BY DEF VerificationsWithout, Restrict
<1>4. deps' \subseteq deps /\ \A e \in deps \ deps' : e[1] \in S \/ e[2] \in S
  BY DEF DepsWithout
<1> QED
  BY <1>1, <1>2, <1>3, <1>4 DEF Confined

\* Requests that take no node away.
LEMMA InPlaceConfined ==
  ASSUME StoreInv, NEW S \in SUBSET NodeIds,
         DOMAIN nodes' \cup S = Live \cup S, \A m \in NodeIds \ S : m \in Live => nodes'[m] = nodes[m],
         \A e \in deps' \ deps : e[1] \in S /\ e[2] \in S,
         \A e \in deps \ deps' : e[1] \in S \/ e[2] \in S,
         UNCHANGED verifications, DOMAIN events \subseteq DOMAIN events',
         LastEvent.node \in S \cup {NoNode}, ~HasImage(LastEvent),
         HasPair(LastEvent) => \A i \in {1, 2} :
           LastEvent.payload.pair[i] \in S /\ LastEvent.payload.pair[i] \in minted
  PROVE  Confined(S)
<1>1. \A n \in NodeIds \ S : n \in Live <=> n \in DOMAIN nodes'
  OBVIOUS
<1> QED
  BY <1>1 DEF Confined

\* The requests of the others, one by one: each is confined to nodes of its project.
LEMMA CreateConfined ==
  ASSUME StoreInv, NEW p, NEW parent, NEW kind, NEW key, CreateNode(p, parent, kind, key),
         NEW home, reply'.entity \in NodeIds => home[reply'.entity] = p
  PROVE  UNCHANGED tables \/ StaysAt(home, p)
<1>1. ASSUME NEW n \in NodeIds \ minted, NEW row, nodes' = Upsert(nodes, n, row),
             Commit(events, 0, Event(p, n, "NODE_CREATED", NoPayload), key, n, {n}),
             UNCHANGED <<projects, deps, verifications>>
      PROVE  StaysAt(home, p)
  <2> DEFINE event == Event(p, n, "NODE_CREATED", NoPayload)
             S == {n}
  <2>1. LastEvent = event /\ DOMAIN events \subseteq DOMAIN events' /\ reply'.entity = n
    <3>1. 0 \in Nat
      OBVIOUS
    <3> HIDE DEF event
    <3> QED
      BY <1>1, <3>1, CommitLogs DEF Commit, event
  <2>2. event.node = n /\ ~HasImage(event) /\ ~HasPair(event)
    BY DEF Event, HasImage, HasPair
  <2>3. DOMAIN nodes' \cup S = Live \cup S /\ \A m \in NodeIds \ S : m \in Live => nodes'[m] = nodes[m]
    BY <1>1 DEF Upsert, Live
  <2> HIDE DEF event
  <2>4. S \in SUBSET NodeIds /\ \A m \in S : home[m] = p
    BY <2>1
  <2>5. Confined(S)
    <3>1. event.node \in S
      BY <2>2
    <3> HIDE DEF S
    <3> QED
      BY <1>1, <2>1, <2>2, <2>3, <2>4, <3>1, InPlaceConfined
  <2> QED
    BY <2>4, <2>5 DEF StaysAt
<1> QED
  BY <1>1 DEF CreateNode, Refuse, Replay

\* A status that is set changes the picture of its project only.
LEMMA StatusConfined ==
  ASSUME StoreInv, NEW n \in Live, NEW status, NEW key, SetStatus(n, status, key),
         NEW home, NEW p, home[n] = p
  PROVE  UNCHANGED tables \/ StaysAt(home, p)
<1> DEFINE event == Event(nodes[n].project, n, "STATUS_SET", [before |-> nodes[n].status])
           S == {n}
<1>1. ASSUME NEW row, nodes' = [nodes EXCEPT ![n] = row],
             Log(event, key, {n} \cup Dependents(deps, {n})),
             UNCHANGED <<projects, deps, verifications, minted>>
      PROVE  StaysAt(home, p)
  <2>1. event.node = n /\ ~HasImage(event) /\ ~HasPair(event)
    BY DEF Event, HasImage, HasPair
  <2> HIDE DEF event
  <2>2. LastEvent = event /\ DOMAIN events \subseteq DOMAIN events'
    BY <1>1, LogLogs
  <2>3. DOMAIN nodes' \cup S = Live \cup S /\ \A m \in NodeIds \ S : m \in Live => nodes'[m] = nodes[m]
    BY <1>1 DEF Live
  <2>4. S \in SUBSET NodeIds /\ \A m \in S : home[m] = p
    BY ParentAtHand
  <2>5. event.node \in S
    BY <2>1
  <2> HIDE DEF S
  <2>6. Confined(S)
    BY <1>1, <2>1, <2>2, <2>3, <2>4, <2>5, InPlaceConfined
  <2> QED
    BY <2>4, <2>6 DEF StaysAt
<1> QED
  BY <1>1, NotWrittenPlaces DEF SetStatus

\* A delete takes nodes of one project only, and edges at them.
LEMMA DeleteConfined ==
  ASSUME StoreInv, NEW n \in Live, NEW flag, NEW key, DeleteNode(n, flag, key),
         NEW home \in Homes, Homed(home), NEW p, home[n] = p
  PROVE  UNCHANGED tables \/ StaysAt(home, p)
<1> DEFINE gone == Subtree(nodes, n)
           bare == Cardinality(Descendants(n))
           event == Event(nodes[n].project, NoNode, "NODE_DELETED", [image |-> [id |-> n, row |-> nodes[n]]])
<1>1. ASSUME nodes' = NodesWithout(nodes, gone), deps' = DepsWithout(deps, gone),
             verifications' = VerificationsWithout(verifications, gone),
             Commit(EventsWithout(events, gone), bare, event, key, NoNode, Dependents(deps, gone) \ gone)
      PROVE  StaysAt(home, p)
  <2>1. /\ event.node = NoNode /\ ~HasPair(event) /\ event.payload.image.id = n
        /\ HasImage(event) => event.payload.image.id = n
    BY DEF Event, HasPair
  <2>2. gone \in SUBSET NodeIds /\ (\A m \in gone : home[m] = p) /\ n \in gone
    BY SubtreeHome, SubtreeIds, SubtreeCloses DEF StoreInv
  <2>3. bare \in Nat
    BY DescendantsCount DEF StoreInv
  <2>4. DOMAIN nodes' = Live \ gone /\ \A m \in NodeIds \ gone : m \in Live => nodes'[m] = nodes[m]
    BY <1>1 DEF NodesWithout, Restrict, Live
  <2>5. gone \in SUBSET gone
    OBVIOUS
  <2> HIDE DEF gone, bare, event
  <2>6. Confined(gone)
    BY <1>1, <2>1, <2>2, <2>3, <2>4, <2>5, CutConfined
  <2> QED
    BY <2>2, <2>6 DEF StaysAt
<1> QED
  BY <1>1, NotWrittenPlaces DEF DeleteNode

\* A move, and the steps that a demotion takes away, stay in the project.
LEMMA MoveConfined ==
  ASSUME StoreInv, NEW n \in Live, NEW parent, NEW kind, NEW key, MoveNode(n, parent, kind, key),
         NEW home \in Homes, Homed(home), NEW p, home[n] = p
  PROVE  UNCHANGED tables \/ StaysAt(home, p)
<1> DEFINE demoted == IF nodes[n].kind = "TASK" /\ kind = "STEP" THEN Children(nodes, n) ELSE {}
           gone == UNION {Subtree(nodes, c) : c \in demoted}
           rest == NodesWithout(nodes, gone)
           unseen == IF nodes[n].kind = kind THEN gone ELSE gone \cup {n}
           event == Event(nodes[n].project, n, "NODE_UPDATED", NoPayload)
           S == gone \cup {n}
<1>1. ASSUME NEW row, nodes' = [rest EXCEPT ![n] = row], deps' = DepsWithout(deps, gone),
             verifications' = VerificationsWithout(verifications, unseen),
             Commit(EventsWithout(events, gone), Cardinality(demoted), event, key, NoNode,
                    {n} \cup Dependents(deps, demoted))
      PROVE  StaysAt(home, p)
  <2>1. event.node = n /\ ~HasPair(event) /\ ~HasImage(event)
    BY DEF Event, HasPair, HasImage
  <2>2. gone = demoted /\ \A c \in demoted : c \in Live /\ c # n /\ nodes[c].parent = n
    BY StepsOfTask DEF Children, Live
  <2>3. \A c \in gone : home[c] = p
    BY <2>2, ParentAtHand DEF Homed
  <2>4. Cardinality(demoted) \in Nat
    <3>1. demoted \in SUBSET NodeIds
      BY <2>2, ParentAtHand
    <3> QED
      BY <3>1, FiniteIds
  <2>5. DOMAIN rest = Live \ gone /\ \A m \in Live \ gone : rest[m] = nodes[m]
    BY DEF NodesWithout, Restrict, Live
  <2> HIDE DEF demoted, rest, event
  <2>6. gone \in SUBSET NodeIds
    BY <2>2, ParentAtHand
  <2> HIDE DEF gone
  <2>7. S \in SUBSET NodeIds /\ gone \in SUBSET S /\ unseen \in SUBSET S /\ n \in S
    BY <2>6, ParentAtHand
  <2>8. DOMAIN nodes' = Live \ gone /\ \A m \in NodeIds \ S : m \in Live => nodes'[m] = nodes[m]
    BY <1>1, <2>5
  <2>9. \A m \in S : home[m] = p
    BY <2>3
  <2> HIDE DEF S, unseen
  <2>10. Confined(S)
    BY <1>1, <2>1, <2>4, <2>7, <2>8, CutConfined
  <2> QED
    BY <2>7, <2>9, <2>10 DEF StaysAt
<1> QED
  BY <1>1, NotWrittenPlaces DEF MoveNode

\* An edge within a project is one that others do not see.
LEMMA EdgeConfined ==
  ASSUME StoreInv, NEW n \in Live, NEW m \in Live, NEW key, AddDependency(n, m, key),
         NEW home, NEW p, home[n] = p, home[m] = p
  PROVE  UNCHANGED tables \/ StaysAt(home, p)
<1> DEFINE event == Event(ProjectOf(n), NoNode, "DEP_ADDED", [pair |-> <<n, m>>])
           S == {n, m}
<1>1. ASSUME deps' = deps \cup {<<n, m>>}, UNCHANGED <<projects, nodes, verifications, minted>>,
             Log(event, key, {m})
      PROVE  StaysAt(home, p)
  <2>1. /\ event.node = NoNode /\ ~HasImage(event)
        /\ \A i \in {1, 2} : event.payload.pair[i] \in S /\ event.payload.pair[i] \in minted
    BY ParentAtHand DEF Event, HasImage
  <2> HIDE DEF event
  <2>2. LastEvent = event /\ DOMAIN events \subseteq DOMAIN events'
    BY <1>1, LogLogs
  <2>3. S \in SUBSET NodeIds /\ \A k \in S : home[k] = p
    BY ParentAtHand
  <2>4. \A e \in deps' \ deps : e[1] \in S /\ e[2] \in S
    BY <1>1
  <2>5. deps \ deps' = {} /\ DOMAIN nodes' = Live
    BY <1>1 DEF Live
  <2> HIDE DEF S
  <2>6. Confined(S)
    BY <1>1, <2>1, <2>2, <2>3, <2>4, <2>5, InPlaceConfined
  <2> QED
    BY <2>3, <2>6 DEF StaysAt
<1> QED
  BY <1>1 DEF AddDependency, Refuse, Replay

\* Undo knows the nodes from the event that it reverts.
LEMMA UndoPairConfined ==
  ASSUME StoreInv, NEW home \in Homes, Linked(home), NEW t \in DOMAIN events, NEW key,
         UndoDepAdded(events[t], key) \/ UndoDepRemoved(events[t], key)
  PROVE  StaysAt(home, events[t].project)
<1> DEFINE pair == events[t].payload.pair
           S == {pair[1], pair[2]}
<1>1. HasPair(events[t])
  BY DEF UndoDepAdded, UndoDepRemoved, HasPair
<1>2. pair \in Pairs
  BY <1>1, EventAtHand, FieldsOfEvent DEF HasPair
<1>3. S \in SUBSET NodeIds /\ \A n \in S : home[n] = events[t].project
  BY <1>1, <1>2 DEF Linked, Pairs
<1>4. pair = <<pair[1], pair[2]>>
  BY <1>2 DEF Pairs
<1>5. ASSUME NEW kind, NEW affected, Log(Event(events[t].project, NoNode, kind, NoPayload), key, affected),
             UNCHANGED <<nodes, verifications>>,
             deps' = deps \ {pair} \/ deps' = deps \cup {<<pair[1], pair[2]>>}
      PROVE  Confined(S)
  <2> DEFINE event == Event(events[t].project, NoNode, kind, NoPayload)
  <2>1. event.node = NoNode /\ ~HasImage(event) /\ ~HasPair(event)
    BY DEF Event, HasImage, HasPair
  <2>2. LastEvent = event /\ DOMAIN events \subseteq DOMAIN events'
    <3> HIDE DEF event
    <3> QED
      BY <1>5, LogLogs DEF event
  <2> HIDE DEF event
  <2>3. \A e \in deps' \ deps : e[1] \in S /\ e[2] \in S
    BY <1>4, <1>5
  <2>4. \A e \in deps \ deps' : e[1] \in S \/ e[2] \in S
    BY <1>4, <1>5
  <2>5. DOMAIN nodes' = Live
    BY <1>5 DEF Live
  <2> HIDE DEF S
  <2> QED
    BY <1>3, <1>5, <2>1, <2>2, <2>3, <2>4, <2>5, InPlaceConfined
<1>6. Confined(S)
  BY <1>5 DEF UndoDepAdded, UndoDepRemoved
<1> QED
  BY <1>3, <1>6 DEF StaysAt

\* The status that an undo sets is one of a node of the event's project.
LEMMA UndoStatusConfined ==
  ASSUME StoreInv, NEW home \in Homes, Linked(home), NEW t \in DOMAIN events, NEW key,
         UndoStatus(events[t], key)
  PROVE  StaysAt(home, events[t].project)
<1> DEFINE n == events[t].node
           event == Event(events[t].project, n, "STATUS_SET", NoPayload)
           S == {n} \ {NoNode}
<1>1. Log(event, key, Dependents(deps, {n})) /\ UNCHANGED <<projects, deps, verifications, minted>>
  BY DEF UndoStatus
<1>2. DOMAIN nodes' = Live /\ \A m \in NodeIds \ S : m \in Live => nodes'[m] = nodes[m]
  <2>1. NoNode \notin NodeIds
    BY SchemaAssumption
  <2>2. PICK row : nodes' = [nodes EXCEPT ![n] = row]
    BY DEF UndoStatus
  <2> QED
    BY <2>1, <2>2 DEF Live
<1>3. event.node = n /\ ~HasImage(event) /\ ~HasPair(event)
  BY DEF Event, HasImage, HasPair
<1>4. S \in SUBSET NodeIds /\ n \in S \cup {NoNode} /\ \A m \in S : home[m] = events[t].project
  <2>1. n \in NodeIds \cup {NoNode}
    BY EventAtHand, FieldsOfEvent
  <2> QED
    BY <2>1 DEF Linked
<1> HIDE DEF event
<1>5. LastEvent = event /\ DOMAIN events \subseteq DOMAIN events'
  BY <1>1, LogLogs
<1> HIDE DEF S, n
<1>6. Confined(S)
  BY <1>1, <1>2, <1>3, <1>4, <1>5, InPlaceConfined
<1> QED
  BY <1>4, <1>6 DEF StaysAt

\* A creation that is undone takes away nodes of the event's project.
LEMMA UndoCreatedConfined ==
  ASSUME StoreInv, NEW home \in Homes, Homed(home), Linked(home), NEW t \in DOMAIN events, NEW key,
         UndoCreated(events[t], key)
  PROVE  StaysAt(home, events[t].project)
<1> DEFINE n == events[t].node
           gone == Subtree(nodes, n)
           event == Event(events[t].project, NoNode, "NODE_DELETED", NoPayload)
<1>1. /\ nodes' = NodesWithout(nodes, gone) /\ deps' = DepsWithout(deps, gone)
      /\ verifications' = VerificationsWithout(verifications, gone)
      /\ Commit(EventsWithout(events, gone), 0, event, key, NoNode, {})
  BY DEF UndoCreated
<1>2. event.node = NoNode /\ ~HasImage(event) /\ ~HasPair(event)
  BY DEF Event, HasImage, HasPair
<1>3. gone \in SUBSET NodeIds /\ \A m \in gone : home[m] = events[t].project
  <2>1. \A m \in gone : n \in Live /\ home[m] = home[n]
    BY SubtreeHome
  <2>2. n \in Live => home[n] = events[t].project
    BY ParentAtHand DEF Linked
  <2> QED
    BY <2>1, <2>2, SubtreeIds
<1>4. DOMAIN nodes' = Live \ gone /\ \A m \in NodeIds \ gone : m \in Live => nodes'[m] = nodes[m]
  BY <1>1 DEF NodesWithout, Restrict, Live
<1>5. gone \in SUBSET gone /\ 0 \in Nat
  OBVIOUS
<1> HIDE DEF gone, event
<1>6. Confined(gone)
  BY <1>1, <1>2, <1>3, <1>4, <1>5, CutConfined
<1> QED
  BY <1>3, <1>6 DEF StaysAt

\* What an undo restores comes back where it was.
LEMMA UndoDeletedConfined ==
  ASSUME StoreInv, NEW home \in Homes, Linked(home), NEW t \in DOMAIN events, NEW key,
         UndoDeleted(events[t], key)
  PROVE  StaysAt(home, events[t].project)
<1> DEFINE image == events[t].payload.image
           event == Event(events[t].project, NoNode, "NODE_CREATED", NoPayload)
           S == IF image = NoImage THEN {} ELSE {image.id}
<1>1. /\ events[t].kind = "NODE_DELETED" /\ events[t].payload # NoPayload
      /\ nodes' = Restored(image) /\ Log(event, key, {})
      /\ UNCHANGED <<projects, deps, verifications, minted>>
  BY DEF UndoDeleted
<1>2. event.node = NoNode /\ ~HasImage(event) /\ ~HasPair(event)
  BY DEF Event, HasImage, HasPair
<1>3. S \in SUBSET NodeIds /\ \A m \in S : home[m] = events[t].project
  <2>1. image # NoImage => HasImage(events[t])
    BY <1>1 DEF HasImage
  <2> QED
    BY <2>1, ImageAtHand DEF Linked
<1>4. DOMAIN nodes' \cup S = Live \cup S /\ \A m \in NodeIds \ S : m \in Live => nodes'[m] = nodes[m]
  BY <1>1 DEF Restored, InsertOrIgnore, Upsert, Live
<1> HIDE DEF S, event
<1>5. LastEvent = event /\ DOMAIN events \subseteq DOMAIN events'
  BY <1>1, LogLogs
<1>6. Confined(S)
  BY <1>1, <1>2, <1>3, <1>4, <1>5, InPlaceConfined
<1> QED
  BY <1>3, <1>6 DEF StaysAt

\* Whatever an undo takes back, it does so in the project of the event.
LEMMA UndoConfined ==
  ASSUME StoreInv, NEW home \in Homes, Homed(home), Linked(home), NEW p, NEW seq, NEW key, Undo(p, seq, key)
  PROVE  UNCHANGED tables \/ StaysAt(home, p)
<1>1. ASSUME NEW t \in DOMAIN events, IsTarget(p, seq, t), Revert(events[t], key)
      PROVE  UNCHANGED tables \/ StaysAt(home, p)
  <2>1. events[t].project = p
    BY <1>1 DEF IsTarget
  <2> QED
    BY <1>1, <2>1, UndoPairConfined, UndoStatusConfined, UndoCreatedConfined, UndoDeletedConfined
       DEF Revert, Refuse
<1> QED
  BY <1>1 DEF Undo, Refuse, Replay

\* Each write of the others is confined to its project.
LEMMA WriteConfined ==
  ASSUME StoreInv, NEW home \in Homes, Homed(home), Linked(home), NEW p \in DOMAIN projects, WriteIn(p),
         reply'.entity \in NodeIds => home[reply'.entity] = p
  PROVE  UNCHANGED tables \/ StaysAt(home, p)
<1>1. \A n \in In(p) : n \in Live /\ home[n] = p
  BY DEF In, Homed
<1> QED
  BY <1>1, CreateConfined, StatusConfined, DeleteConfined, MoveConfined, EdgeConfined, UndoConfined
     DEF WriteIn

\* What is confined to a project links nothing to others.
LEMMA LinkedStep ==
  ASSUME StoreInv, NEW home \in Homes, Linked(home),
         NEW kept, NEW bare, NEW event, NEW key, NEW entity, NEW affected,
         Wrote(kept, bare, event, key, entity, affected), StaysAt(home, event.project)
  PROVE  Linked(home)'
<1>1. PICK S \in SUBSET NodeIds : (\A n \in S : home[n] = event.project) /\ Confined(S)
  BY DEF StaysAt
<1>2. \A e \in deps' : home[e[1]] = home[e[2]]
  BY <1>1 DEF Linked, Confined
<1>3. minted \subseteq minted' /\ LastEvent = event
  <2>1. events'[lastSeq'] = event
    BY LogAfterWrite
  <2> QED
    BY <2>1 DEF Wrote, Origins, LastEvent
<1>4. ASSUME NEW s \in DOMAIN events'
      PROVE  /\ events'[s].node # NoNode => home[events'[s].node] = events'[s].project
             /\ HasImage(events'[s]) => home[events'[s].payload.image.id] = events'[s].project
             /\ HasPair(events'[s]) => \A i \in {1, 2} :
                  /\ events'[s].payload.pair[i] \in minted'
                  /\ home[events'[s].payload.pair[i]] = events'[s].project
  <2>1. \/ s \in DOMAIN events /\ events'[s] = events[s]
        \/ events'[s] = BareDeletion(event.project)
        \/ events'[s] = event
    BY LogAfterWrite
  <2>2. CASE s \in DOMAIN events /\ events'[s] = events[s]
    BY <1>3, <2>2 DEF Linked
  <2>3. CASE events'[s] = BareDeletion(event.project)
    <3>1. events'[s].node = NoNode /\ ~HasPair(events'[s]) /\ ~HasImage(events'[s])
      BY <2>3, BareHasNoImage DEF BareDeletion, Event, HasPair
    <3> QED
      BY <3>1
  <2>4. CASE events'[s] = event
    BY <1>1, <1>3, <2>4 DEF Confined
  <2> QED
    BY <2>1, <2>2, <2>3, <2>4
<1> QED
  BY <1>2, <1>4 DEF Linked

\* The picture of a project, put together of what is in it.
TasksIn(p) == {t \in In(p) : nodes[t].kind = "TASK"}
UnitsUnder(p, wp) == UNION {Units(t) : t \in {u \in TasksIn(p) : nodes[u].parent = wp}}

\* Progress, said of the nodes of the project.
LEMMA ProgressIs ==
  ASSUME NEW p
  PROVE  Progress(p) = [wp \in {nodes[t].parent : t \in TasksIn(p)} |->
                          Counts([u \in UnitsUnder(p, wp) |-> Effective(u)])]
<1> DEFINE tasks == {t \in Live : nodes[t].kind = "TASK" /\ nodes[t].project = p}
<1>1. tasks = TasksIn(p)
  BY DEF TasksIn, In
<1>2. Progress(p) = [wp \in {nodes[t].parent : t \in tasks} |->
                       Counts([u \in UNION {Units(t) : t \in {u \in tasks : nodes[u].parent = wp}} |->
                                 Effective(u)])]
  BY DEF Progress
<1> HIDE DEF tasks
<1> QED
  BY <1>1, <1>2 DEF UnitsUnder

\* Children are in the project of their parent, and their units with them.
LEMMA UnitsStayIn ==
  ASSUME StoreInv, NEW home \in Homes, Homed(home), NEW p
  PROVE  /\ In(p) = {n \in Live : home[n] = p}
         /\ \A t \in In(p), c \in Live : nodes[c].parent = t => c \in In(p)
         /\ \A t \in In(p) : Units(t) \subseteq In(p)
         /\ \A wp : UnitsUnder(p, wp) \subseteq In(p)
<1>1. In(p) = {n \in Live : home[n] = p}
  BY DEF In, Homed
<1>2. \A t \in In(p), c \in Live : nodes[c].parent = t => c \in In(p)
  BY <1>1, ParentAtHand DEF Homed
<1>3. \A t \in In(p) : Units(t) \subseteq In(p)
  BY <1>2 DEF Units, Children, Live
<1>4. \A wp : UnitsUnder(p, wp) \subseteq In(p)
  BY <1>3 DEF UnitsUnder, TasksIn
<1> QED
  BY <1>1, <1>2, <1>3, <1>4

\* A write in one project changes nothing in the picture of another.
LEMMA PictureElsewhere ==
  ASSUME StoreInv, StoreInv', NEW home \in Homes, Homed(home), Linked(home), Homed(home)', Linked(home)',
         NEW p, NEW q, p # q, StaysAt(home, q)
  PROVE  Picture(p)' = Picture(p)
<1>1. PICK S \in SUBSET NodeIds : (\A n \in S : home[n] = q) /\ Confined(S)
  BY DEF StaysAt
<1>2. \A n \in NodeIds : home[n] = p =>
        /\ n \in Live <=> n \in DOMAIN nodes'
        /\ n \in Live => nodes'[n] = nodes[n]
        /\ n \in DOMAIN verifications <=> n \in DOMAIN verifications'
        /\ n \in DOMAIN verifications => verifications'[n] = verifications[n]
  BY <1>1 DEF Confined
<1>3. Live \subseteq NodeIds /\ DOMAIN nodes' \subseteq NodeIds
  BY DEF StoreInv, TypeOK, IsTable, Live
<1>4. In(p) = {n \in Live : home[n] = p} /\ In(p)' = {n \in DOMAIN nodes' : home[n] = p}
  BY UnitsStayIn DEF In, Homed, Live
<1>5. In(p)' = In(p) /\ \A n \in In(p) : n \in Live /\ n \in DOMAIN nodes' /\ nodes'[n] = nodes[n]
  BY <1>2, <1>3, <1>4
<1>6. \A e \in deps \cup deps' : home[e[2]] = p =>
        home[e[1]] = p /\ (e \in deps <=> e \in deps')
  <2>1. \A e \in deps \cup deps' : home[e[1]] = home[e[2]]
    BY DEF Linked
  <2>2. \A e \in deps \cup deps' : home[e[2]] = p => e[1] \notin S /\ e[2] \notin S
    BY <1>1, <2>1
  <2> QED
    BY <1>1, <2>1, <2>2 DEF Confined
<1>7. \A n \in In(p) : Effective(n)' = Effective(n)
  <2> SUFFICES ASSUME NEW n \in In(p) PROVE Effective(n)' = Effective(n)
    OBVIOUS
  <2>1. home[n] = p
    BY <1>4
  <2>2. \A b : <<b, n>> \in deps \cup deps' => home[b] = p /\ (<<b, n>> \in deps <=> <<b, n>> \in deps')
    BY <1>6, <2>1
  <2>3. \A b : <<b, n>> \in deps \cup deps' =>
          /\ b \in DOMAIN nodes <=> b \in DOMAIN nodes'
          /\ b \in DOMAIN nodes => nodes'[b] = nodes[b]
    BY <1>2, <1>3, <2>2 DEF Live
  <2>4. Blocked(nodes, deps, n)' <=> Blocked(nodes, deps, n)
    BY <2>2, <2>3 DEF Blocked
  <2> QED
    BY <1>5, <2>4 DEF Effective, EffectiveStatus
<1>8. \A n \in In(p) : NodeView(n)' = NodeView(n)
  <2> SUFFICES ASSUME NEW n \in In(p) PROVE NodeView(n)' = NodeView(n)
    OBVIOUS
  <2>1. /\ n \in DOMAIN verifications <=> n \in DOMAIN verifications'
        /\ n \in DOMAIN verifications => verifications'[n] = verifications[n]
    BY <1>2, <1>3, <1>4
  <2>2. VerificationOf(n)' = VerificationOf(n)
    BY <2>1 DEF VerificationOf, NoVerification
  <2>3. Stale(nodes, verifications, n)' = Stale(nodes, verifications, n)
    BY <1>5, <2>1 DEF Stale
  <2> QED
    BY <1>5, <1>7, <2>2, <2>3 DEF NodeView
<1>9. deps' \cap (In(p)' \X In(p)') = deps \cap (In(p) \X In(p))
  BY <1>4, <1>5, <1>6
<1>10. \A t \in In(p) : Units(t)' = Units(t)
  <2> SUFFICES ASSUME NEW t \in In(p) PROVE Units(t)' = Units(t)
    OBVIOUS
  <2>1. \A c \in Live : nodes[c].parent = t => c \in In(p)
    BY UnitsStayIn
  <2>2. \A c \in DOMAIN nodes' : nodes'[c].parent = t => c \in In(p)
    BY <1>3, <1>4, <1>5, SchemaAssumption DEF Homed, Live
  <2>3. {c \in DOMAIN nodes' : nodes'[c].parent = t /\ nodes'[c].kind = "STEP"}
          = {c \in DOMAIN nodes : nodes[c].parent = t /\ nodes[c].kind = "STEP"}
    BY <1>5, <2>1, <2>2 DEF Live
  <2> QED
    BY <2>3 DEF Units, Children
<1>11. TasksIn(p)' = TasksIn(p) /\ \A t \in TasksIn(p) : t \in In(p)
  BY <1>5 DEF TasksIn
<1>12. \A wp : UnitsUnder(p, wp)' = UnitsUnder(p, wp)
  BY <1>5, <1>10, <1>11 DEF UnitsUnder
<1>13. Progress(p)' = Progress(p)
  <2> DEFINE tasks == {t \in Live : nodes[t].kind = "TASK" /\ nodes[t].project = p}
             Under(wp) == UNION {Units(t) : t \in {u \in tasks : nodes[u].parent = wp}}
  <2>1. tasks' = TasksIn(p)'
    BY DEF TasksIn, In
  <2>2. Progress(p)' = [wp \in {nodes'[t].parent : t \in tasks'} |->
                          Counts([u \in Under(wp)' |-> Effective(u)'])]
    BY DEF Progress
  <2>3. \A wp : Under(wp)' = UnitsUnder(p, wp)'
    BY <2>1 DEF UnitsUnder
  <2> HIDE DEF tasks, Under
  <2>4. {nodes'[t].parent : t \in tasks'} = {nodes[t].parent : t \in TasksIn(p)}
    BY <1>5, <1>11, <2>1
  <2>5. \A wp : Under(wp)' = UnitsUnder(p, wp) /\ UnitsUnder(p, wp) \subseteq In(p)
    BY <1>12, <2>3, UnitsStayIn
  <2>6. \A wp : [u \in Under(wp)' |-> Effective(u)'] = [u \in UnitsUnder(p, wp) |-> Effective(u)]
    BY <1>7, <2>5
  <2> QED
    BY <2>2, <2>4, <2>6, ProgressIs
<1>14. [n \in In(p)' |-> NodeView(n)'] = [n \in In(p) |-> NodeView(n)]
  BY <1>5, <1>8
<1> QED
  BY <1>9, <1>13, <1>14 DEF Picture, Snapshot, In

\* What the others write is answered from the project they write in.
LEMMA MoveAnswers ==
  ASSUME StoreInv, NEW n, NEW parent, NEW kind, NEW key, MoveNode(n, parent, kind, key)
  PROVE  Refuse \/ (n \in Live /\ Answered(nodes[n].project, key))
<1> DEFINE demoted == IF nodes[n].kind = "TASK" /\ kind = "STEP" THEN Children(nodes, n) ELSE {}
           gone == UNION {Subtree(nodes, c) : c \in demoted}
           event == Event(nodes[n].project, n, "NODE_UPDATED", NoPayload)
<1>1. ASSUME NEW refused, Accepted(n, key, refused),
             Commit(EventsWithout(events, gone), Cardinality(demoted), event, key, NoNode,
                    {n} \cup Dependents(deps, demoted))
      PROVE  n \in Live /\ Answered(nodes[n].project, key)
  <2>1. event.project = nodes[n].project
    BY DEF Event
  <2>2. Cardinality(demoted) \in Nat
    <3>1. demoted \in SUBSET NodeIds
      BY DEF Children, StoreInv, TypeOK, IsTable
    <3> QED
      BY <3>1, FiniteIds
  <2> HIDE DEF demoted, gone, event
  <2>3. Committed(nodes[n].project, key)
    BY <1>1, <2>1, <2>2 DEF Accepted, Committed
  <2> QED
    BY <1>1, <2>3 DEF Answered, Accepted, Live
<1> QED
  BY <1>1, NotWrittenAnswers DEF MoveNode

\* Each write of the others is logged in its project, or refused.
LEMMA WriteAnswers ==
  ASSUME StoreInv, NEW p \in DOMAIN projects, WriteIn(p)
  PROVE  Answered(p, NoKey)
<1>1. \A n \in In(p) : n \in Live /\ nodes[n].project = p /\ ProjectOf(n) = p
  BY DEF In, ProjectOf, Live
<1>2. ASSUME NEW n \in In(p),
             \/ DeleteNode(n, FALSE, NoKey)
             \/ \E status \in {"OPEN", "DONE"} : SetStatus(n, status, NoKey)
             \/ \E parent \in In(p) : MoveNode(n, parent, "STEP", NoKey)
             \/ \E m \in In(p) : AddDependency(n, m, NoKey)
      PROVE  Answered(p, NoKey)
  BY <1>1, <1>2, DeleteAnswers, SetStatusAnswers, MoveAnswers, EdgeAnswers DEF Answered
<1> QED
  BY <1>2, CreateAnswers, UndoAnswers DEF WriteIn

\* The assignment before and after a commit: a new node adds to it.
LEMMA HomeAfter ==
  ASSUME StoreInv, StoreInv', NewPlaced, NEW home \in Homes, Homed(home),
         NEW kept, NEW bare, NEW event, NEW key, NEW entity, NEW affected,
         Wrote(kept, bare, event, key, entity, affected)
  PROVE  \E to \in Homes :
           /\ Homed(to) /\ Homed(to)' /\ (Linked(home) => Linked(to))
           /\ reply'.entity \in NodeIds => to[reply'.entity] = event.project
<1>1. /\ Origins(event, entity) /\ event.project \in ProjectIds /\ reply'.entity = entity
      /\ DOMAIN nodes' \subseteq NodeIds
  BY DEF Wrote, Commit, StoreInv, TypeOK, IsTable
<1>2. NoNode \notin NodeIds
  BY SchemaAssumption
<1>3. CASE entity = NoNode
  <2>1. Homed(home)'
    BY <1>1, <1>2, <1>3, HomedStep
  <2> QED
    BY <1>1, <1>2, <1>3, <2>1
<1>4. CASE entity \in NodeIds \ minted
  <2> DEFINE to == [home EXCEPT ![entity] = event.project]
  <2>1. to \in Homes /\ to[entity] = event.project /\ Homed(to) /\ (Linked(home) => Linked(to))
    BY <1>1, <1>4, Rehome
  <2> HIDE DEF to
  <2>2. ASSUME NEW n \in DOMAIN nodes', n = entity
        PROVE  /\ event.project = to[n]
               /\ nodes'[n].parent # NoNode => to[nodes'[n].parent] = to[n]
    <3>1. n \notin Live /\ n \notin minted
      BY <1>4, <2>2, ParentAtHand
    <3>2. nodes'[n].project = event.project
      BY <1>1, <3>1, ImageAtHand DEF Origins
    <3>3. \/ nodes'[n].parent = NoNode
          \/ nodes'[n].parent \in Live /\ nodes[nodes'[n].parent].project = nodes'[n].project
      BY <1>1, <2>2, <3>1 DEF NewPlaced
    <3> QED
      BY <2>1, <2>2, <3>2, <3>3 DEF Homed
  <2>3. Homed(to)'
    BY <2>1, <2>2, HomedStep
  <2> QED
    BY <1>1, <2>1, <2>3
<1> QED
  BY <1>1, <1>3, <1>4 DEF Origins

\* Where others write in one project at a time, edges and events keep to it as well.
Follows == client \in {"polls", "pages"}

HomesInv == \E home \in Homes : Homed(home) /\ (Follows => Linked(home))

\* When the picture of Travel changed last, it logged an event in Travel, and that or a later
\* one is still there.
NewsInv ==
  /\ changed \in 0 .. lastSeq /\ (~Follows => changed = 0)
  /\ changed = 0 \/ \E s \in EventsIn(Travel) : s >= changed

\* A write that changes the picture of Travel is logged there, and what a later one deletes it
\* replaces by an event of its own.
LEMMA NewsStep ==
  ASSUME ClientsInv, ClientsInv', [Next]_vars, NewsInv, Remember,
         NEW to \in Homes, Homed(to), Linked(to), Homed(to)', Linked(to)',
         NEW kept, NEW bare, NEW event, NEW key, NEW entity, NEW affected,
         Wrote(kept, bare, event, key, entity, affected), StaysAt(to, event.project)
  PROVE  /\ changed' \in 0 .. lastSeq'
         /\ changed' = 0 \/ \E s \in EventsIn(Travel)' : s >= changed'
<1>1. StoreInv /\ StoreInv' /\ lastSeq \in Nat /\ lastSeq' \in Nat /\ lastSeq' >= lastSeq
  BY LogGrows DEF ClientsInv
<1>2. changed' = changed \/ changed' = lastSeq'
  BY DEF Remember
<1>3. changed' \in 0 .. lastSeq'
  <2>1. changed \in 0 .. lastSeq
    BY DEF NewsInv
  <2> QED
    BY <1>1, <1>2, <2>1
<1>4. CASE event.project = Travel
  <2>1. lastSeq' \in EventsIn(Travel)'
    <3>1. lastSeq' \in DOMAIN events'
      BY DEF ClientsInv, LogHasLatest
    <3>2. events'[lastSeq'] = event
      BY <1>1, LogAfterWrite
    <3> QED
      BY <1>4, <3>1, <3>2 DEF EventsIn
  <2>2. lastSeq' >= changed'
    BY <1>1, <1>3
  <2> QED
    BY <1>3, <2>1, <2>2
<1>5. CASE event.project # Travel
  <2>1. Picture(Travel)' = Picture(Travel)
    BY <1>1, <1>5, PictureElsewhere
  <2>2. changed' = changed
    BY <2>1 DEF Remember
  <2>3. ASSUME NEW s \in EventsIn(Travel) PROVE s \in EventsIn(Travel)'
    <3>1. PICK S \in SUBSET NodeIds : (\A n \in S : to[n] = event.project) /\ Confined(S)
      BY DEF StaysAt
    <3>2. s \in DOMAIN events /\ events[s].project = Travel
      BY DEF EventsIn
    <3>3. events[s].node \notin S
      BY <1>5, <3>1, <3>2, SchemaAssumption DEF Linked
    <3>4. s \in DOMAIN events'
      BY <3>1, <3>2, <3>3 DEF Confined
    <3>5. events'[s] = events[s]
      <4>1. s \in 1 .. lastSeq
        BY <1>1, <3>2 DEF StoreInv, LogIsNumbered
      <4>2. ~(s > lastSeq)
        BY <1>1, <4>1
      <4> QED
        BY <3>4, <4>2, LogGrows
    <3> QED
      BY <3>2, <3>4, <3>5 DEF EventsIn
  <2> QED
    BY <1>3, <2>2, <2>3 DEF NewsInv
<1> QED
  BY <1>3, <1>4, <1>5

\* Ids keep to one project each: a new id is given to the project that it is created in.
LEMMA HomesStep ==
  ASSUME Keys # {}, ClientsInv, AgentIsSafe, HomesInv, NewsInv, [ClientsNext]_clientsVars
  PROVE  HomesInv' /\ NewsInv'
<1>1. /\ StoreInv /\ StoreInv' /\ ClientsInv' /\ Effect /\ [Next]_vars
      /\ NewPlaced
      /\ client' = client
  BY ClientSteps, ClientsHold, NextEffect, ClientsPlace DEF ClientsInv, ClientsNext, clientsVars
<1>2. PICK home \in Homes : Homed(home) /\ (Follows => Linked(home))
  BY DEF HomesInv
<1>3. CASE Others /\ Follows
  <2>1. PICK p \in DOMAIN projects : WriteIn(p)
    BY <1>3 DEF Others
  <2>2. CASE UNCHANGED tables
    <3>1. HomesInv'
      BY <1>1, <1>2, <2>2 DEF HomesInv, Follows, Homed, Linked, Live, tables
    <3>2. Picture(Travel)' = Picture(Travel)
      <4>1. In(Travel)' = In(Travel)
        BY <2>2 DEF In, Live, tables
      <4>2. Progress(Travel)' = Progress(Travel)
        BY <2>2 DEF Progress, Live, Units, Children, Effective, EffectiveStatus, Blocked, tables
      <4> QED
        BY <2>2, <4>1, <4>2 DEF Picture, Snapshot, In, Live, NodeView, VerificationOf, Stale, Effective,
           EffectiveStatus, Blocked, tables
    <3>3. changed' = changed
      BY <1>3, <3>2 DEF Others, Remember
    <3> QED
      BY <1>1, <2>2, <3>1, <3>3 DEF NewsInv, Follows, EventsIn, tables
  <2>3. CASE Committed(p, NoKey)
    <3>1. PICK kept, bare, event, entity, affected :
            event.project = p /\ Wrote(kept, bare, event, NoKey, entity, affected)
      BY <1>1, <2>3, CommitEffect
    <3>2. PICK to \in Homes :
            /\ Homed(to) /\ Homed(to)' /\ Linked(to)
            /\ reply'.entity \in NodeIds => to[reply'.entity] = p
      BY <1>1, <1>2, <1>3, <3>1, HomeAfter
    <3>3. StaysAt(to, p)
      <4>1. ~UNCHANGED tables
        BY <1>1, <2>3, CommitEffect DEF tables, StoreInv, TypeOK
      <4> QED
        BY <1>1, <2>1, <3>2, <4>1, WriteConfined
    <3>4. Linked(to)'
      BY <1>1, <3>1, <3>2, <3>3, LinkedStep
    <3>5. Remember
      BY <1>3 DEF Others
    <3>6. /\ changed' \in 0 .. lastSeq'
          /\ changed' = 0 \/ \E s \in EventsIn(Travel)' : s >= changed'
      BY <1>1, <3>1, <3>2, <3>3, <3>4, <3>5, NewsStep
    <3> QED
      BY <1>1, <1>3, <3>2, <3>4, <3>6 DEF HomesInv, NewsInv, Follows
  <2> QED
    BY <1>1, <2>1, <2>2, <2>3, WriteAnswers DEF Answered, Refuse, Replay
<1>4. CASE Follows /\ UNCHANGED <<vars, changed>>
  BY <1>1, <1>2, <1>4 DEF HomesInv, NewsInv, Follows, Homed, Linked, Live, EventsIn, vars
<1>5. CASE ~Follows /\ changed' = changed
  <2>1. NewsInv'
    <3>1. lastSeq' \in Nat
      BY <1>1 DEF StoreInv, TypeOK
    <3> QED
      BY <1>1, <1>5, <3>1 DEF NewsInv, Follows
  <2>2. CASE UNCHANGED tables \/ Filed
    <3>1. UNCHANGED <<nodes, events, minted>>
      BY <2>2 DEF Filed, tables
    <3>2. Homed(home)'
      BY <1>2, <3>1 DEF Homed, Live
    <3>3. ~Follows'
      BY <1>1, <1>5 DEF Follows
    <3> QED
      BY <1>2, <2>1, <3>2, <3>3 DEF HomesInv
  <2>3. ASSUME NEW kept, NEW bare, NEW event, NEW key, NEW entity, NEW affected,
               Wrote(kept, bare, event, key, entity, affected)
        PROVE  HomesInv'
    BY <1>1, <1>2, <1>5, <2>3, HomeAfter DEF HomesInv, Follows
  <2> QED
    BY <1>1, <2>1, <2>2, <2>3 DEF Effect
<1>6. CASE UNCHANGED clientsVars
  BY <1>4, <1>5, <1>6 DEF clientsVars, ownVars, readerVars
<1>7. CASE ClientsNext /\ ~Follows
  BY <1>5, <1>7 DEF ClientsNext, Follows, readerVars
<1>8. CASE ClientsNext /\ Follows
  <2>1. PollNext \/ PageNext
    BY <1>8 DEF ClientsNext, Follows
  <2>2. CASE GetProject \/ (\E limit \in {0, 1} : Poll(limit)) \/ \E limit \in {0, 1, 2} : NextPage(limit)
    BY <1>4, <1>8, <2>2 DEF GetProject, Poll, NextPage
  <2> QED
    BY <1>3, <1>8, <2>1, <2>2 DEF PollNext, PageNext
<1> QED
  BY <1>6, <1>7, <1>8

\* The fixture is all in Travel.
LEMMA HomesInit == ClientsInit => HomesInv /\ NewsInv
<1> SUFFICES ASSUME ClientsInit PROVE HomesInv /\ NewsInv
  OBVIOUS
<1> USE SeedIds
<1>1. SeedInit /\ changed = 0 /\ lastSeq = 1
  BY DEF ClientsInit, AgentInit, ReaderInit, SeedInit
<1> DEFINE home == [n \in NodeIds |-> Travel]
           event == Event(Travel, Task1, "NODE_CREATED", NoPayload)
<1>2. home \in Homes /\ \A n \in NodeIds : home[n] = Travel
  BY DEF Homes
<1>3. /\ DOMAIN nodes = {Wp, Task1, Task2} /\ \A n \in {Wp, Task1, Task2} : nodes[n] = SeedRow(n)
      /\ deps = {<<Task1, Task2>>} /\ DOMAIN events = {1} /\ events[1] = event
  BY <1>1 DEF SeedInit
<1>4. event.node = Task1 /\ event.project = Travel /\ ~HasImage(event) /\ ~HasPair(event)
  BY DEF Event, HasImage, HasPair
<1> HIDE DEF home, event
<1>5. Homed(home)
  BY <1>2, <1>3, <1>4 DEF Homed, Live, SeedRow
<1>6. Linked(home)
  <2>1. \A e \in deps : home[e[1]] = home[e[2]]
    <3>1. \A e \in deps : e[1] = Task1 /\ e[2] = Task2
      BY <1>3
    <3> QED
      BY <1>2, <3>1
  <2>2. \A s \in DOMAIN events : events[s] = event
    BY <1>3
  <2>3. home[Task1] = Travel
    BY <1>2
  <2> QED
    BY <1>4, <2>1, <2>2, <2>3 DEF Linked
<1> QED
  BY <1>1, <1>2, <1>5, <1>6 DEF HomesInv, NewsInv

\* What a client counts in the nodes of a snapshot is the progress that comes with it.
LEMMA ProgressCounts ==
  ASSUME StoreInv, NEW home \in Homes, Homed(home), NEW p
  PROVE  LET snapshot == Snapshot(p)
             Parent(n) == snapshot.nodes[n].row.parent
             Kind(n) == snapshot.nodes[n].row.kind
             leaves == {n \in DOMAIN snapshot.nodes :
                          \/ Kind(n) = "STEP"
                          \/ Kind(n) = "TASK" /\ \A m \in DOMAIN snapshot.nodes : Parent(m) # n}
             PackageOf(n) == IF Kind(n) = "STEP" THEN Parent(Parent(n)) ELSE Parent(n)
         IN snapshot.progress =
              [wp \in {PackageOf(n) : n \in leaves} |->
                 Counts([n \in {l \in leaves : PackageOf(l) = wp} |-> snapshot.nodes[n].status])]
<1> DEFINE snapshot == Snapshot(p)
           Parent(n) == snapshot.nodes[n].row.parent
           Kind(n) == snapshot.nodes[n].row.kind
           leaves == {n \in DOMAIN snapshot.nodes :
                        \/ Kind(n) = "STEP"
                        \/ Kind(n) = "TASK" /\ \A m \in DOMAIN snapshot.nodes : Parent(m) # n}
           PackageOf(n) == IF Kind(n) = "STEP" THEN Parent(Parent(n)) ELSE Parent(n)
<1>1. /\ DOMAIN snapshot.nodes = In(p) /\ snapshot.progress = Progress(p)
      /\ \A n \in In(p) : /\ Parent(n) = nodes[n].parent /\ Kind(n) = nodes[n].kind
                           /\ snapshot.nodes[n].status = Effective(n)
  BY DEF Snapshot, In, NodeView
<1> HIDE DEF snapshot
<1>2. /\ In(p) = {n \in Live : home[n] = p}
      /\ \A t \in In(p), c \in Live : nodes[c].parent = t => c \in In(p)
  BY UnitsStayIn
<1>3. \A n \in In(p) : n \in Live /\ n \in NodeIds /\ n # NoNode
        /\ (nodes[n].parent # NoNode => nodes[n].parent \in In(p))
  BY <1>2, ParentAtHand DEF Homed
<1>4. \A n \in In(p) :
        /\ nodes[n].kind \in {"WORK_PACKAGE", "TASK", "STEP"}
        /\ nodes[n].kind = "STEP" => nodes[n].parent \in In(p) /\ nodes[nodes[n].parent].kind = "TASK"
        /\ nodes[n].parent \in In(p) /\ nodes[nodes[n].parent].kind = "TASK" => nodes[n].kind = "STEP"
  <2> SUFFICES ASSUME NEW n \in In(p)
               PROVE  /\ nodes[n].kind \in {"WORK_PACKAGE", "TASK", "STEP"}
                      /\ nodes[n].kind = "STEP" =>
                           nodes[n].parent \in In(p) /\ nodes[nodes[n].parent].kind = "TASK"
                      /\ nodes[n].parent \in In(p) /\ nodes[nodes[n].parent].kind = "TASK" =>
                           nodes[n].kind = "STEP"
    OBVIOUS
  <2>1. n \in Live /\ nodes[n].kind \in {"WORK_PACKAGE", "TASK", "STEP"}
    BY <1>3, NodeAtHand, FieldsOfRow DEF Kinds, Live
  <2>2. ParentFits(nodes, nodes[n].kind, nodes[n].parent)
    BY <2>1 DEF StoreInv, RowsFit, HierarchyOK
  <2>3. nodes[n].kind = "STEP" => nodes[n].parent # NoNode /\ nodes[nodes[n].parent].kind = "TASK"
    BY <2>2, ParentAtHand DEF ParentFits, ParentKind, Live
  <2>4. nodes[n].kind = "TASK" => nodes[nodes[n].parent].kind = "WORK_PACKAGE"
    BY <2>2 DEF ParentFits, ParentKind
  <2>5. nodes[n].kind = "WORK_PACKAGE" => nodes[n].parent = NoNode
    BY <2>2 DEF ParentFits, ParentKind
  <2> QED
    BY <1>3, <2>1, <2>3, <2>4, <2>5
<1>5. leaves = {n \in In(p) : \/ nodes[n].kind = "STEP"
                              \/ nodes[n].kind = "TASK" /\ \A m \in In(p) : nodes[m].parent # n}
  BY <1>1
<1>6. \A n \in leaves : n \in In(p)
        /\ PackageOf(n) = IF nodes[n].kind = "STEP" THEN nodes[nodes[n].parent].parent ELSE nodes[n].parent
  BY <1>1, <1>4, <1>5
<1> HIDE DEF leaves, PackageOf, Parent, Kind
<1>7. \A t \in TasksIn(p) : t \in In(p) /\ nodes[t].kind = "TASK"
        /\ Units(t) = IF {s \in In(p) : nodes[s].parent = t} = {} THEN {t}
                      ELSE {s \in In(p) : nodes[s].parent = t}
  <2> SUFFICES ASSUME NEW t \in In(p), nodes[t].kind = "TASK"
               PROVE  {s \in Children(nodes, t) : nodes[s].kind = "STEP"} = {s \in In(p) : nodes[s].parent = t}
    BY DEF TasksIn, Units
  <2> QED
    BY <1>2, <1>3, <1>4 DEF Children, Live
<1>8. \A wp : {l \in leaves : PackageOf(l) = wp} = UnitsUnder(p, wp)
  <2> SUFFICES ASSUME NEW wp PROVE {l \in leaves : PackageOf(l) = wp} = UnitsUnder(p, wp)
    OBVIOUS
  <2>1. ASSUME NEW l \in leaves, PackageOf(l) = wp PROVE l \in UnitsUnder(p, wp)
    <3>1. CASE nodes[l].kind = "STEP"
      <4> DEFINE t == nodes[l].parent
      <4>1. t \in TasksIn(p) /\ nodes[t].parent = wp /\ l \in In(p)
        BY <1>4, <1>6, <2>1, <3>1 DEF TasksIn
      <4>2. l \in Units(t)
        BY <1>7, <4>1
      <4> QED
        BY <4>1, <4>2 DEF UnitsUnder
    <3>2. CASE nodes[l].kind # "STEP"
      <4>1. l \in TasksIn(p) /\ nodes[l].parent = wp /\ {s \in In(p) : nodes[s].parent = l} = {}
        BY <1>5, <1>6, <2>1, <3>2 DEF TasksIn
      <4>2. l \in Units(l)
        BY <1>7, <4>1
      <4> QED
        BY <4>1, <4>2 DEF UnitsUnder
    <3> QED
      BY <3>1, <3>2
  <2>2. ASSUME NEW l \in UnitsUnder(p, wp) PROVE l \in leaves /\ PackageOf(l) = wp
    <3>1. PICK t \in TasksIn(p) : nodes[t].parent = wp /\ l \in Units(t)
      BY DEF UnitsUnder
    <3>2. CASE {s \in In(p) : nodes[s].parent = t} = {}
      <4>1. l = t /\ l \in leaves
        BY <1>5, <1>7, <3>1, <3>2
      <4> QED
        BY <1>6, <1>7, <3>1, <4>1
    <3>3. CASE {s \in In(p) : nodes[s].parent = t} # {}
      <4>1. l \in In(p) /\ nodes[l].parent = t /\ nodes[l].kind = "STEP"
        BY <1>4, <1>7, <3>1, <3>3
      <4>2. l \in leaves
        BY <1>5, <4>1
      <4> QED
        BY <1>6, <3>1, <4>1, <4>2
    <3> QED
      BY <3>2, <3>3
  <2> QED
    BY <2>1, <2>2
<1>9. {PackageOf(n) : n \in leaves} = {nodes[t].parent : t \in TasksIn(p)}
  <2>1. ASSUME NEW n \in leaves PROVE \E t \in TasksIn(p) : PackageOf(n) = nodes[t].parent
    BY <1>8 DEF UnitsUnder
  <2>2. ASSUME NEW t \in TasksIn(p) PROVE \E n \in leaves : PackageOf(n) = nodes[t].parent
    <3>1. PICK u : u \in Units(t)
      BY <1>7
    <3>2. u \in UnitsUnder(p, nodes[t].parent)
      BY <3>1 DEF UnitsUnder
    <3> QED
      BY <1>8, <3>2
  <2> QED
    BY <2>1, <2>2
<1>10. \A wp : [n \in {l \in leaves : PackageOf(l) = wp} |-> snapshot.nodes[n].status]
               = [u \in UnitsUnder(p, wp) |-> Effective(u)]
  <2>1. \A n \in leaves : snapshot.nodes[n].status = Effective(n)
    BY <1>1, <1>6
  <2> QED
    BY <1>8, <2>1
<1>11. Progress(p) = [wp \in {PackageOf(n) : n \in leaves} |->
                        Counts([n \in {l \in leaves : PackageOf(l) = wp} |-> snapshot.nodes[n].status])]
  BY <1>9, <1>10, ProgressIs
<1>12. snapshot.progress = [wp \in {PackageOf(n) : n \in leaves} |->
                        Counts([n \in {l \in leaves : PackageOf(l) = wp} |-> snapshot.nodes[n].status])]
  BY <1>1, <1>11
<1> QED
  BY <1>12 DEF leaves, PackageOf, Parent, Kind, snapshot

\* What holds of the clients together: their own invariants, the assignment of projects to
\* ids, and the news.
AllInv == ClientsInv /\ AgentIsSafe /\ ReadersInv /\ HomesInv /\ NewsInv

\* All of the parts hold in all that clients do.
LEMMA AllHold ==
  ASSUME Keys # {}
  PROVE  ClientsSpec => []AllInv
<1>1. ClientsInit => AllInv
  BY ClientsHold, RetriesInit, ReadersInit, HomesInit DEF AllInv
<1>2. AllInv /\ [ClientsNext]_clientsVars => AllInv'
  BY ClientsHold, RetriesStep, ReadersStep, HomesStep DEF AllInv
<1> QED
  BY <1>1, <1>2, PTL DEF ClientsSpec

\* The cursor of a snapshot is that of the newest commit, and its progress is what a client
\* counts in its nodes: each part of the answer has a query of its own (get_snapshot).
THEOREM SnapshotsAreOfOneMoment ==
  ASSUME Keys # {}
  PROVE  ClientsSpec => []SnapshotIsOfOneMoment
<1>1. AllInv => SnapshotIsOfOneMoment
  <2> SUFFICES ASSUME AllInv PROVE SnapshotIsAsOfNow /\ ProgressAgreesWithNodes
    BY DEF SnapshotIsOfOneMoment
  <2>0. ClientsInv /\ HomesInv
    BY DEF AllInv
  <2>1. SnapshotIsAsOfNow
    BY <2>0, CursorIsNow DEF SnapshotIsAsOfNow, Snapshot
  <2>2. PICK home \in Homes : Homed(home)
    BY <2>0 DEF HomesInv
  <2>3. StoreInv
    BY <2>0 DEF ClientsInv
  <2>4. ProgressAgreesWithNodes
    BY <2>2, <2>3, ProgressCounts DEF ProgressAgreesWithNodes
  <2> QED
    BY <2>1, <2>4
<1> QED
  BY <1>1, AllHold, PTL

\* A poll of list_events that finds nothing means that the picture of the project has not
\* changed since the cursor, as long as the others keep each write within one project.
THEOREM NoNewsIsTrue ==
  ASSUME Keys # {}
  PROVE  ClientsSpec => []NoNewsIsNoChange
<1>1. AllInv => NoNewsIsNoChange
  <2> SUFFICES ASSUME AllInv, EventsAfter(Travel, cursor) = {}, changed # 0 PROVE changed <= cursor
    <3>1. ASSUME AllInv, changed = 0 PROVE changed <= cursor
      BY <3>1 DEF AllInv, ReadersInv, PollInv
    <3> QED
      BY <3>1 DEF NoNewsIsNoChange
  <2>1. PICK s \in EventsIn(Travel) : s >= changed
    BY DEF AllInv, NewsInv
  <2>2. s \in Nat /\ cursor \in Nat /\ changed \in Nat
    <3>1. DOMAIN events \subseteq 1 .. lastSeq /\ lastSeq \in Nat
      BY DEF AllInv, ClientsInv, StoreInv, TypeOK, LogIsNumbered
    <3>2. s \in DOMAIN events
      BY DEF EventsIn
    <3>3. cursor \in 0 .. lastSeq /\ changed \in 0 .. lastSeq
      BY DEF AllInv, ReadersInv, PollInv, NewsInv
    <3> QED
      BY <3>1, <3>2, <3>3
  <2>3. ~(s > cursor)
    BY DEF EventsAfter, EventsIn
  <2> QED
    BY <2>1, <2>2, <2>3
<1> QED
  BY <1>1, AllHold, PTL

-----------------------------------------------------------------------------
(* What an undo gives back.                                                  *)

\* The columns of a node's row that a graph holds, of any table of nodes.
ShapeOf(rows) ==
  [n \in DOMAIN rows |-> [project |-> rows[n].project, parent |-> rows[n].parent,
                          kind |-> rows[n].kind, status |-> rows[n].status]]

WasGraph(g, rows, edges) == g = [rows |-> ShapeOf(rows), deps |-> edges]

\* The newest event describes how to get to the graph g from here: with the status, the edge
\* or the row that it holds, or without the node that it names, of which nothing hangs.
Describes(g) ==
  LET event == events[lastSeq]
      n == event.node
      pair == event.payload.pair
      image == event.payload.image IN
  /\ event.kind = "STATUS_SET" /\ event.payload # NoPayload =>
       /\ n \in Live
       /\ WasGraph(g, [nodes EXCEPT ![n] = [@ EXCEPT !.status = event.payload.before]], deps)
  /\ event.kind = "DEP_ADDED" /\ event.payload # NoPayload =>
       g = Graph \/ WasGraph(g, nodes, deps \ {pair})
  /\ event.kind = "DEP_REMOVED" /\ event.payload # NoPayload =>
       g = Graph \/ WasGraph(g, nodes, deps \cup {pair})
  /\ event.kind = "NODE_CREATED" /\ n # NoNode =>
       /\ Subtree(nodes, n) = {n}
       /\ WasGraph(g, NodesWithout(nodes, {n}), DepsWithout(deps, {n}))
  /\ event.kind = "NODE_DELETED" /\ event.payload # NoPayload =>
       /\ image # NoImage
       /\ g.deps = deps /\ Cardinality(DOMAIN g.rows \ Live) = 1 =>
            image.id \notin Live /\ WasGraph(g, Upsert(nodes, image.id, image.row), deps)

\* What is remembered is the graph that the newest event describes.
PriorInv ==
  \/ prior = {}
  \/ client = "undoes" /\ \E g : prior = {g} /\ Describes(g)

\* Tables of nodes that differ in no column of a graph.
LEMMA SameShape ==
  ASSUME NEW s, NEW t, DOMAIN s = DOMAIN t,
         \A n \in DOMAIN s : /\ s[n].project = t[n].project /\ s[n].parent = t[n].parent
                             /\ s[n].kind = t[n].kind /\ s[n].status = t[n].status
  PROVE  ShapeOf(s) = ShapeOf(t)
  BY DEF ShapeOf

\* Graph is of the tables as they are.
LEMMA GraphIs == WasGraph(Graph, nodes, deps)
  BY DEF Graph, WasGraph, ShapeOf, Live

\* Nothing was written, and nothing is described anew.
LEMMA StillDescribed ==
  ASSUME UNCHANGED tables, NEW g, Describes(g)
  PROVE  Describes(g)' /\ ~Logs
<1>1. /\ nodes' = nodes /\ deps' = deps /\ events' = events /\ lastSeq' = lastSeq
  BY DEF tables
<1>2. Graph' = Graph
  BY <1>1 DEF Graph, Live
<1>3. Live' = Live
  BY <1>1 DEF Live
<1> QED
  BY <1>1, <1>2, <1>3 DEF Describes, Logs

\* A commit logs.
LEMMA CommitsLog ==
  ASSUME StoreInv, NEW kept, NEW bare \in Nat, NEW event, NEW key, NEW entity, NEW affected,
         Commit(kept, bare, event, key, entity, affected)
  PROVE  Logs /\ events'[lastSeq'] = event
<1>1. lastSeq \in Nat /\ lastSeq' = lastSeq + bare + 1
  BY DEF StoreInv, TypeOK, Commit, SeqBase
<1>2. lastSeq' # lastSeq
  BY <1>1
<1>3. events'[lastSeq'] = event
  BY CommitLogs DEF LastEvent
<1> QED
  BY <1>2, <1>3 DEF Logs

\* So does a request whose only event is its own.
LEMMA LogsLog ==
  ASSUME StoreInv, NEW event, NEW key, NEW affected, Log(event, key, affected)
  PROVE  Logs /\ events'[lastSeq'] = event
<1>1. 0 \in Nat
  OBVIOUS
<1> QED
  BY <1>1, CommitsLog DEF Log

\* The status before is in the event, and the rest of the row is as it was.
LEMMA StatusDescribed ==
  ASSUME StoreInv, NEW n \in Live, NEW status, SetStatus(n, status, NoKey), NEW g, g = Graph
  PROVE  UNCHANGED tables \/ (Logs /\ Describes(g)')
<1> DEFINE event == Event(nodes[n].project, n, "STATUS_SET", [before |-> nodes[n].status])
           row == Touch([nodes[n] EXCEPT !.status = DeclaredStr(status)])
<1>1. ASSUME nodes' = [nodes EXCEPT ![n] = row], Log(event, NoKey, {n} \cup Dependents(deps, {n})),
             deps' = deps
      PROVE  Logs /\ Describes(g)'
  <2>1. event.kind = "STATUS_SET" /\ event.node = n /\ event.payload.before = nodes[n].status
    BY DEF Event
  <2>2. nodes[n] \in NodeRows
    BY NodeAtHand DEF Live
  <2>3. /\ row.project = nodes[n].project /\ row.parent = nodes[n].parent
        /\ row.kind = nodes[n].kind
        /\ [row EXCEPT !.status = nodes[n].status].project = row.project
        /\ [row EXCEPT !.status = nodes[n].status].parent = row.parent
        /\ [row EXCEPT !.status = nodes[n].status].kind = row.kind
        /\ [row EXCEPT !.status = nodes[n].status].status = nodes[n].status
    BY <2>2 DEF Touch, NodeRows
  <2> HIDE DEF event, row
  <2>4. Logs /\ events'[lastSeq'] = event
    BY <1>1, LogsLog
  <2> DEFINE back == [nodes' EXCEPT ![n] = [@ EXCEPT !.status = nodes[n].status]]
  <2>5. DOMAIN back = DOMAIN nodes /\ n \in DOMAIN nodes'
    BY <1>1 DEF Live
  <2>6. nodes'[n] = row /\ \A m \in DOMAIN nodes : m # n => back[m] = nodes[m]
    BY <1>1 DEF Live
  <2>7. back[n] = [row EXCEPT !.status = nodes[n].status]
    BY <1>1, <2>5, <2>6
  <2>8. /\ back[n].project = nodes[n].project /\ back[n].parent = nodes[n].parent
        /\ back[n].kind = nodes[n].kind /\ back[n].status = nodes[n].status
    BY <2>3, <2>7
  <2> HIDE DEF back
  <2>9. ShapeOf(back) = ShapeOf(nodes)
    <3>1. \A m \in DOMAIN back :
            /\ back[m].project = nodes[m].project /\ back[m].parent = nodes[m].parent
            /\ back[m].kind = nodes[m].kind /\ back[m].status = nodes[m].status
      BY <2>5, <2>6, <2>8
    <3> QED
      BY <2>5, <3>1, SameShape
  <2>10. WasGraph(g, back, deps')
    BY <1>1, <2>9, GraphIs DEF WasGraph
  <2>11. events'[lastSeq'].kind = "STATUS_SET" /\ events'[lastSeq'].node = n
         /\ events'[lastSeq'].payload.before = nodes[n].status
    BY <2>1, <2>4
  <2> QED
    BY <2>4, <2>5, <2>10, <2>11 DEF Describes, back, Live
<1> QED
  BY <1>1, NotWrittenPlaces DEF SetStatus

\* The edge is gone, or was there.
LEMMA EdgeDescribed ==
  ASSUME StoreInv, NEW n, NEW m, NEW g, g = Graph,
         AddDependency(n, m, NoKey) \/ RemoveDependency(n, m, NoKey)
  PROVE  UNCHANGED tables \/ (Logs /\ Describes(g)')
<1> DEFINE pair == <<n, m>>
           added == Event(ProjectOf(n), NoNode, "DEP_ADDED", [pair |-> pair])
           removed == Event(ProjectOf(n), NoNode, "DEP_REMOVED", [pair |-> pair])
<1>1. ASSUME nodes' = nodes, deps' = deps \cup {pair}, Log(added, NoKey, {m})
      PROVE  Logs /\ Describes(g)'
  <2>1. added.kind = "DEP_ADDED" /\ added.payload.pair = pair
    BY DEF Event
  <2> HIDE DEF added
  <2>2. Logs /\ events'[lastSeq'] = added
    BY <1>1, LogsLog
  <2>3. g = Graph' \/ WasGraph(g, nodes', deps' \ {pair})
    <3>1. CASE pair \in deps
      BY <1>1, <3>1 DEF Graph, Live
    <3>2. CASE pair \notin deps
      <4>1. deps' \ {pair} = deps
        BY <1>1, <3>2
      <4> QED
        BY <1>1, <4>1, GraphIs
    <3> QED
      BY <3>1, <3>2
  <2>4. events'[lastSeq'].kind = "DEP_ADDED" /\ events'[lastSeq'].payload.pair = pair
    BY <2>1, <2>2
  <2> HIDE DEF pair
  <2> QED
    BY <2>2, <2>3, <2>4 DEF Describes
<1>2. ASSUME nodes' = nodes, deps' = deps \ {pair}, Log(removed, NoKey, {m})
      PROVE  Logs /\ Describes(g)'
  <2>1. removed.kind = "DEP_REMOVED" /\ removed.payload.pair = pair
    BY DEF Event
  <2> HIDE DEF removed
  <2>2. Logs /\ events'[lastSeq'] = removed
    BY <1>2, LogsLog
  <2>3. g = Graph' \/ WasGraph(g, nodes', deps' \cup {pair})
    <3>1. CASE pair \notin deps
      <4>1. deps' = deps
        BY <1>2, <3>1
      <4> QED
        BY <1>2, <4>1 DEF Graph, Live
    <3>2. CASE pair \in deps
      <4>1. deps' \cup {pair} = deps
        BY <1>2, <3>2
      <4> QED
        BY <1>2, <4>1, GraphIs
    <3> QED
      BY <3>1, <3>2
  <2>4. events'[lastSeq'].kind = "DEP_REMOVED" /\ events'[lastSeq'].payload.pair = pair
    BY <2>1, <2>2
  <2> HIDE DEF pair
  <2> QED
    BY <2>2, <2>3, <2>4 DEF Describes
<1>3. AddDependency(n, m, NoKey) => UNCHANGED tables \/ (Logs /\ Describes(g)')
  BY <1>1 DEF AddDependency, Refuse, Replay
<1>4. RemoveDependency(n, m, NoKey) => UNCHANGED tables \/ (Logs /\ Describes(g)')
  BY <1>2 DEF RemoveDependency, Refuse, Replay
<1> QED
  BY <1>3, <1>4

\* The new node has nothing below it and no edges, as its id was never given out before.
LEMMA CreationDescribed ==
  ASSUME StoreInv, NEW p, NEW parent, NEW kind, CreateNode(p, parent, kind, NoKey),
         NEW g, g = Graph
  PROVE  UNCHANGED tables \/ (Logs /\ Describes(g)')
<1> DEFINE row == [project |-> p, parent |-> parent, kind |-> KindStr(kind), status |-> "OPEN",
                   updated |-> now]
<1>1. ASSUME NEW n \in NodeIds \ minted, nodes' = Upsert(nodes, n, row), deps' = deps,
             InsertAccepted(projects, nodes, row),
             Commit(events, 0, Event(p, n, "NODE_CREATED", NoPayload), NoKey, n, {n})
      PROVE  Logs /\ Describes(g)'
  <2> DEFINE event == Event(p, n, "NODE_CREATED", NoPayload)
  <2>1. event.kind = "NODE_CREATED" /\ event.node = n
    BY DEF Event
  <2>2. 0 \in Nat
    OBVIOUS
  <2>3. row.parent = NoNode \/ row.parent \in Live
    BY <1>1 DEF InsertAccepted, ParentFits, Live
  <2> HIDE DEF event, row
  <2>4. Logs /\ events'[lastSeq'] = event
    BY <1>1, <2>2, CommitsLog DEF event
  <2>5. n \notin Live /\ n # NoNode
    BY SchemaAssumption DEF StoreInv, IdsAreMinted
  <2>6. DOMAIN nodes' = Live \cup {n} /\ nodes'[n] = row /\ \A c \in Live : nodes'[c] = nodes[c]
    BY <1>1, <2>5 DEF Upsert, Live
  <2>7. \A c \in DOMAIN nodes' : nodes'[c].parent # n
    <3>1. \A c \in Live : nodes[c].parent # n
      BY <2>5, ParentAtHand
    <3> QED
      BY <2>3, <2>5, <2>6, <3>1
  <2>8. Subtree(nodes', n) = {n}
    <3>1. ClosedUnder(ParentEdges(nodes'), {n})
      BY <2>7 DEF ClosedUnder, ParentEdges
    <3>2. n \in DOMAIN nodes' /\ {n} \in SUBSET NodeIds
      BY <2>6
    <3> QED
      BY <3>1, <3>2 DEF Subtree, Reach
  <2>9. ShapeOf(NodesWithout(nodes', {n})) = ShapeOf(nodes)
    <3>1. /\ DOMAIN NodesWithout(nodes', {n}) = DOMAIN nodes
          /\ \A c \in DOMAIN nodes : NodesWithout(nodes', {n})[c] = nodes[c]
      BY <2>5, <2>6 DEF NodesWithout, Restrict, Live
    <3> QED
      BY <3>1, SameShape
  <2>10. DepsWithout(deps', {n}) = deps
    BY <1>1, <2>5 DEF DepsWithout, StoreInv, RowsFit
  <2>11. WasGraph(g, NodesWithout(nodes', {n}), DepsWithout(deps', {n}))
    BY <2>9, <2>10, GraphIs DEF WasGraph
  <2>12. events'[lastSeq'].kind = "NODE_CREATED" /\ events'[lastSeq'].node = n
    BY <2>1, <2>4
  <2> QED
    BY <2>4, <2>8, <2>11, <2>12 DEF Describes
<1> QED
  BY <1>1 DEF CreateNode, Refuse, Replay

\* The image is the row of the one node that went.
LEMMA DeletionDescribed ==
  ASSUME StoreInv, NEW n \in Live, NEW flag, DeleteNode(n, flag, NoKey), NEW g, g = Graph
  PROVE  UNCHANGED tables \/ (Logs /\ Describes(g)')
<1> DEFINE gone == Subtree(nodes, n)
           bare == Cardinality(Descendants(n))
           image == [id |-> n, row |-> nodes[n]]
           event == Event(nodes[n].project, NoNode, "NODE_DELETED", [image |-> image])
<1>1. ASSUME nodes' = NodesWithout(nodes, gone), deps' = DepsWithout(deps, gone),
             Commit(EventsWithout(events, gone), bare, event, NoKey, NoNode, Dependents(deps, gone) \ gone)
      PROVE  Logs /\ Describes(g)'
  <2>1. event.kind = "NODE_DELETED" /\ event.payload.image = image
    BY DEF Event
  <2>2. image # NoImage
    BY NodeAtHand, ImageAssumption DEF Live
  <2>3. image.id = n /\ image.row = nodes[n]
    OBVIOUS
  <2>4. bare \in Nat
    BY DescendantsCount DEF StoreInv
  <2>5. n \in gone /\ gone \subseteq Live
    BY SubtreeCloses, SubtreeLive DEF StoreInv, Live
  <2>6. DOMAIN nodes' = Live \ gone /\ \A m \in Live \ gone : nodes'[m] = nodes[m]
    BY <1>1 DEF NodesWithout, Restrict, Live
  <2> HIDE DEF gone, bare, event, image
  <2>7. Logs /\ events'[lastSeq'] = event
    BY <1>1, <2>4, CommitsLog
  <2>8. ASSUME g.deps = deps', Cardinality(DOMAIN g.rows \ DOMAIN nodes') = 1
        PROVE  n \notin DOMAIN nodes' /\ WasGraph(g, Upsert(nodes', n, nodes[n]), deps')
    <3>1. DOMAIN g.rows = Live /\ g.deps = deps
      BY DEF Graph
    <3>2. DOMAIN g.rows \ DOMAIN nodes' = gone
      BY <2>5, <2>6, <3>1
    <3>3. gone = {n}
      <4>1. IsFiniteSet(gone)
        <5>1. gone \subseteq NodeIds
          BY SubtreeIds DEF gone
        <5> QED
          BY <5>1, SchemaAssumption, FS_Subset
      <4>2. PICK x : gone = {x}
        BY <2>8, <3>2, <4>1, FS_Singleton
      <4> QED
        BY <2>5, <4>2
    <3>4. /\ DOMAIN Upsert(nodes', n, nodes[n]) = DOMAIN nodes
          /\ \A c \in DOMAIN nodes : Upsert(nodes', n, nodes[n])[c] = nodes[c]
      BY <2>6, <3>3 DEF Upsert, Live
    <3>5. ShapeOf(Upsert(nodes', n, nodes[n])) = ShapeOf(nodes)
      BY <3>4, SameShape
    <3> QED
      BY <2>6, <2>8, <3>1, <3>3, <3>5, GraphIs DEF WasGraph
  <2>9. events'[lastSeq'].kind = "NODE_DELETED" /\ events'[lastSeq'].payload.image = image
    BY <2>1, <2>7
  <2> QED
    BY <2>2, <2>3, <2>7, <2>8, <2>9 DEF Describes, Live
<1> QED
  BY <1>1, NotWrittenPlaces DEF DeleteNode

\* What undo does not take back describes nothing.
LEMMA RestDescribed ==
  ASSUME StoreInv, NEW n \in Live, NEW g,
         AddComment(n, NoKey) \/ \E parent, kind : MoveNode(n, parent, kind, NoKey)
  PROVE  UNCHANGED tables \/ (Logs /\ Describes(g)')
<1>1. ASSUME AddComment(n, NoKey), ~UNCHANGED tables PROVE Logs /\ Describes(g)'
  <2> DEFINE event == Event(nodes[n].project, n, "COMMENT", NoPayload)
  <2>1. Log(event, NoKey, {n})
    BY <1>1, NotWrittenPlaces DEF AddComment
  <2>2. event.kind = "COMMENT"
    BY DEF Event
  <2> HIDE DEF event
  <2>3. Logs /\ events'[lastSeq'].kind = "COMMENT"
    BY <2>1, <2>2, LogsLog
  <2> QED
    BY <2>3 DEF Describes
<1>2. ASSUME NEW parent, NEW kind, MoveNode(n, parent, kind, NoKey), ~UNCHANGED tables
      PROVE  Logs /\ Describes(g)'
  <2> DEFINE demoted == IF nodes[n].kind = "TASK" /\ kind = "STEP" THEN Children(nodes, n) ELSE {}
             gone == UNION {Subtree(nodes, c) : c \in demoted}
             event == Event(nodes[n].project, n, "NODE_UPDATED", NoPayload)
  <2>1. Commit(EventsWithout(events, gone), Cardinality(demoted), event, NoKey, NoNode,
               {n} \cup Dependents(deps, demoted))
    BY <1>2, NotWrittenPlaces DEF MoveNode
  <2>2. event.kind = "NODE_UPDATED"
    BY DEF Event
  <2>3. Cardinality(demoted) \in Nat
    <3>1. demoted \in SUBSET NodeIds
      BY ParentAtHand DEF Children, Live
    <3> QED
      BY <3>1, FiniteIds
  <2> HIDE DEF event, gone, demoted
  <2>4. Logs /\ events'[lastSeq'].kind = "NODE_UPDATED"
    BY <2>1, <2>2, <2>3, CommitsLog
  <2> QED
    BY <2>4 DEF Describes
<1> QED
  BY <1>1, <1>2

\* An undo leaves an event that describes nothing.
LEMMA UndoDescribed ==
  ASSUME StoreInv, NEW p, Undo(p, 0, NoKey), NEW g
  PROVE  UNCHANGED tables \/ (Logs /\ Describes(g)')
<1>1. CASE UNCHANGED tables
  BY <1>1
<1>2. ASSUME ~UNCHANGED tables
      PROVE  Logs /\ IsInverse(LastEvent)
  <2>1. PICK t \in DOMAIN events : Revert(events[t], NoKey)
    BY <1>2 DEF Undo, Refuse, Replay
  <2> DEFINE event == events[t]
  <2>2. CASE UndoStatus(event, NoKey)
    <3> DEFINE inverse == Event(event.project, event.node, "STATUS_SET", NoPayload)
    <3>1. Log(inverse, NoKey, Dependents(deps, {event.node}))
      BY <2>2 DEF UndoStatus
    <3>2. IsInverse(inverse)
      BY DEF Event, IsInverse
    <3> HIDE DEF inverse
    <3> QED
      BY <3>1, <3>2, LogsLog DEF LastEvent
  <2>3. CASE UndoDepAdded(event, NoKey) \/ UndoDepRemoved(event, NoKey) \/ UndoDeleted(event, NoKey)
    <3>1. PICK kind \in {"DEP_ADDED", "DEP_REMOVED", "NODE_CREATED"} :
            \E nodesHit : Log(Event(event.project, NoNode, kind, NoPayload), NoKey, nodesHit)
      BY <2>3 DEF UndoDepAdded, UndoDepRemoved, UndoDeleted
    <3> DEFINE inverse == Event(event.project, NoNode, kind, NoPayload)
    <3>2. IsInverse(inverse)
      BY DEF Event, IsInverse
    <3>3. PICK affected : Log(inverse, NoKey, affected)
      BY <3>1
    <3> HIDE DEF inverse
    <3> QED
      BY <3>2, <3>3, LogsLog DEF LastEvent
  <2>4. CASE UndoCreated(event, NoKey)
    <3> DEFINE inverse == Event(event.project, NoNode, "NODE_DELETED", NoPayload)
               kept == EventsWithout(events, Subtree(nodes, event.node))
    <3>1. Commit(kept, 0, inverse, NoKey, NoNode, {})
      BY <2>4 DEF UndoCreated
    <3>2. IsInverse(inverse)
      BY DEF Event, IsInverse
    <3>3. 0 \in Nat
      OBVIOUS
    <3> HIDE DEF inverse, kept
    <3> QED
      BY <3>1, <3>2, <3>3, CommitsLog DEF LastEvent
  <2> QED
    BY <1>2, <2>1, <2>2, <2>3, <2>4 DEF Revert, Refuse
<1>3. IsInverse(LastEvent) => Describes(g)'
  BY DEF IsInverse, LastEvent, Describes
<1> QED
  BY <1>1, <1>2, <1>3

\* Whatever the user does, what is remembered stays what the newest event describes.
LEMMA PriorStep ==
  ASSUME Keys # {}, ClientsInv, PriorInv, [ClientsNext]_clientsVars
  PROVE  PriorInv'
<1>1. CASE UNCHANGED clientsVars
  <2>1. UNCHANGED tables /\ prior' = prior /\ client' = client
    BY <1>1 DEF clientsVars, ownVars, vars, tables
  <2> QED
    BY <2>1, StillDescribed DEF PriorInv
<1>2. CASE client # "undoes" /\ UNCHANGED <<prior, client>>
  BY <1>2 DEF PriorInv
<1>3. CASE client = "undoes" /\ UndoRequest /\ UNCHANGED client
  <2> DEFINE Described(g) == UNCHANGED tables \/ (Logs /\ Describes(g)')
  <2>1. PICK g : g = Graph
    OBVIOUS
  <2>2. Described(g)
    <3>1. ASSUME NEW p, Undo(p, 0, NoKey) \/ CreateNode(p, NoNode, "WORK_PACKAGE", NoKey)
          PROVE  Described(g)
      BY <2>1, <3>1, UndoDescribed, CreationDescribed DEF ClientsInv
    <3>2. ASSUME NEW n \in Live,
                 \/ CreateNode(nodes[n].project, n, "TASK", NoKey)
                 \/ DeleteNode(n, FALSE, NoKey)
                 \/ \E status \in Statuses : SetStatus(n, status, NoKey)
                 \/ \E parent \in Live, kind \in {"TASK", "STEP"} : MoveNode(n, parent, kind, NoKey)
                 \/ AddComment(n, NoKey)
                 \/ \E m \in Live : AddDependency(n, m, NoKey) \/ RemoveDependency(n, m, NoKey)
          PROVE  Described(g)
      BY <2>1, <3>2, CreationDescribed, DeletionDescribed, StatusDescribed, RestDescribed, EdgeDescribed
         DEF ClientsInv
    <3> QED
      BY <1>3, <3>1, <3>2 DEF UndoRequest
  <2>3. CASE UNCHANGED tables
    <3>1. prior' = prior
      BY <1>3, <2>3 DEF UndoRequest, Logs, tables
    <3> QED
      BY <1>3, <2>3, <3>1, StillDescribed DEF PriorInv
  <2>4. CASE Logs /\ Describes(g)'
    <3>1. prior' = {g}
      BY <1>3, <2>1, <2>4 DEF UndoRequest
    <3> QED
      BY <1>3, <2>4, <3>1 DEF PriorInv
  <2> QED
    BY <2>2, <2>3, <2>4
<1> QED
  BY <1>1, <1>2, <1>3 DEF ClientsNext

\* The newest event of the database is the latest of its project.
LEMMA LatestIsTarget ==
  ASSUME ClientsInv, UndoesLatest
  PROVE  Revert(events[lastSeq], NoKey) /\ ~Refuse
<1>1. ~Refuse
  BY DEF UndoesLatest, Refuse, Error
<1>2. ASSUME NEW t \in DOMAIN events, IsTarget(events[lastSeq].project, 0, t) PROVE t = lastSeq
  <2>1. t \in 1 .. lastSeq /\ lastSeq \in Nat
    BY DEF ClientsInv, StoreInv, LogIsNumbered, TypeOK
  <2>2. lastSeq <= t
    BY <1>2 DEF IsTarget, ClientsInv, LogHasLatest
  <2> QED
    BY <2>1, <2>2
<1>3. ~Hit(events[lastSeq].project, NoKey)
  BY DEF Hit
<1> QED
  BY <1>1, <1>2, <1>3 DEF UndoesLatest, Undo, Replay

\* The inverse leads to what the event describes.
LEMMA InverseGivesBack ==
  ASSUME ClientsInv, UndoesLatest, Exact, NEW g, prior = {g}, Describes(g)
  PROVE  Graph' = g
<1> DEFINE event == events[lastSeq]
           n == event.node
           image == event.payload.image
<1>1. Revert(event, NoKey) /\ ~Refuse
  BY LatestIsTarget
<1>2. g # Graph /\ ~IsInverse(event)
  BY DEF Exact
<1>3. ASSUME NEW rows, WasGraph(g, rows, deps'), ShapeOf(nodes') = ShapeOf(rows) PROVE Graph' = g
  <2>1. Graph' = [rows |-> ShapeOf(nodes'), deps |-> deps']
    BY DEF Graph, ShapeOf, Live
  <2> QED
    BY <1>3, <2>1 DEF WasGraph
<1>4. CASE UndoStatus(event, NoKey)
  <2>1. event.kind = "STATUS_SET" /\ event.payload # NoPayload
    BY <1>2, <1>4 DEF UndoStatus, IsInverse
  <2> DEFINE rows == [nodes EXCEPT ![n] = [@ EXCEPT !.status = event.payload.before]]
  <2>2. n \in Live /\ WasGraph(g, rows, deps)
    BY <2>1 DEF Describes
  <2>3. /\ nodes' = [nodes EXCEPT ![n] = Touch([@ EXCEPT !.status = event.payload.before])]
        /\ deps' = deps
    BY <1>4, <2>1 DEF UndoStatus, StatusBefore
  <2>4. nodes[n] \in NodeRows
    BY <2>2, NodeAtHand DEF ClientsInv, Live
  <2>5. /\ DOMAIN rows = DOMAIN nodes' /\ DOMAIN nodes' = Live
        /\ \A m \in Live : m # n => rows[m] = nodes'[m]
        /\ rows[n] = [nodes[n] EXCEPT !.status = event.payload.before]
        /\ nodes'[n] = Touch([nodes[n] EXCEPT !.status = event.payload.before])
    BY <2>2, <2>3 DEF Live
  <2>6. /\ rows[n].project = nodes'[n].project /\ rows[n].parent = nodes'[n].parent
        /\ rows[n].kind = nodes'[n].kind /\ rows[n].status = nodes'[n].status
    BY <2>4, <2>5 DEF Touch, NodeRows
  <2> HIDE DEF rows, n
  <2>7. ShapeOf(nodes') = ShapeOf(rows)
    <3>1. \A m \in DOMAIN rows :
            /\ rows[m].project = nodes'[m].project /\ rows[m].parent = nodes'[m].parent
            /\ rows[m].kind = nodes'[m].kind /\ rows[m].status = nodes'[m].status
      BY <2>5, <2>6
    <3> QED
      BY <2>5, <3>1, SameShape
  <2> QED
    BY <1>3, <2>2, <2>3, <2>7
<1>5. CASE UndoDepAdded(event, NoKey)
  <2>1. WasGraph(g, nodes, deps \ {event.payload.pair})
    BY <1>2, <1>5 DEF UndoDepAdded, Describes
  <2> QED
    BY <1>3, <1>5, <2>1 DEF UndoDepAdded
<1>6. CASE UndoDepRemoved(event, NoKey)
  <2>1. WasGraph(g, nodes, deps \cup {event.payload.pair})
    BY <1>2, <1>6 DEF UndoDepRemoved, Describes
  <2>2. event.payload.pair \in Pairs
    BY <1>6, EventAtHand, FieldsOfEvent DEF UndoDepRemoved, ClientsInv, LogHasLatest
  <2>3. <<event.payload.pair[1], event.payload.pair[2]>> = event.payload.pair
    BY <2>2 DEF Pairs
  <2> QED
    BY <1>3, <1>6, <2>1, <2>3 DEF UndoDepRemoved
<1>7. CASE UndoCreated(event, NoKey)
  <2>1. event.kind = "NODE_CREATED" /\ n # NoNode
    BY <1>2, <1>7 DEF UndoCreated, IsInverse
  <2>2. Subtree(nodes, n) = {n} /\ WasGraph(g, NodesWithout(nodes, {n}), DepsWithout(deps, {n}))
    BY <2>1 DEF Describes
  <2>3. nodes' = NodesWithout(nodes, {n}) /\ deps' = DepsWithout(deps, {n})
    BY <1>7, <2>2 DEF UndoCreated
  <2> QED
    BY <1>3, <2>2, <2>3
<1>8. CASE UndoDeleted(event, NoKey)
  <2>1. event.kind = "NODE_DELETED" /\ event.payload # NoPayload
    BY <1>8 DEF UndoDeleted
  <2>2. g.deps = deps /\ Cardinality(DOMAIN g.rows \ Live) = 1
    BY <2>1 DEF Exact
  <2> DEFINE rows == Upsert(nodes, image.id, image.row)
  <2>3. image # NoImage /\ image.id \notin DOMAIN nodes /\ WasGraph(g, rows, deps)
    BY <2>1, <2>2 DEF Describes, Live
  <2>4. nodes' = Upsert(nodes, image.id, [image.row EXCEPT !.updated = now]) /\ deps' = deps
    BY <1>8, <2>3 DEF UndoDeleted, Restored, InsertOrIgnore
  <2>5. image.row \in NodeRows
    BY <2>1, <2>3, ImageAtHand DEF HasImage, ClientsInv, LogHasLatest
  <2> DEFINE row == [image.row EXCEPT !.updated = now]
  <2>6. /\ image.row.project = row.project /\ image.row.parent = row.parent
        /\ image.row.kind = row.kind /\ image.row.status = row.status
    BY <2>5 DEF NodeRows
  <2>7. nodes' = Upsert(nodes, image.id, row)
    BY <2>4
  <2> HIDE DEF row, image
  <2>8. ShapeOf(nodes') = ShapeOf(rows)
    <3>1. /\ DOMAIN rows = DOMAIN nodes' 
          /\ \A m \in DOMAIN rows : m # image.id => rows[m] = nodes'[m]
          /\ rows[image.id] = image.row /\ nodes'[image.id] = row
      BY <2>7 DEF Upsert
    <3> HIDE DEF rows
    <3>2. \A m \in DOMAIN rows :
            /\ rows[m].project = nodes'[m].project /\ rows[m].parent = nodes'[m].parent
            /\ rows[m].kind = nodes'[m].kind /\ rows[m].status = nodes'[m].status
      BY <2>6, <3>1
    <3> QED
      BY <3>1, <3>2, SameShape
  <2> QED
    BY <1>3, <2>3, <2>4, <2>8
<1> QED
  BY <1>1, <1>4, <1>5, <1>6, <1>7, <1>8 DEF Revert

\* An undo of the latest write gives back the graph from before it, status, hierarchy and
\* edges, as far as the write was one that the log describes (revert_event).
THEOREM UndoGivesGraphBack ==
  ASSUME Keys # {}
  PROVE  ClientsSpec => UndoRestoresGraph
<1>1. ClientsInit => ClientsInv /\ PriorInv
  BY ClientsHold DEF ClientsInit, UndoInit, PriorInv
<1>2. ClientsInv /\ PriorInv /\ [ClientsNext]_clientsVars => (ClientsInv /\ PriorInv)'
  BY ClientsHold, PriorStep
<1>3. ClientsInv /\ PriorInv => [UndoesLatest /\ Exact => Graph' \in prior]_<<vars, prior>>
  <2> SUFFICES ASSUME ClientsInv, PriorInv, UndoesLatest, Exact PROVE Graph' \in prior
    OBVIOUS
  <2>1. PICK g : prior = {g} /\ Describes(g)
    BY DEF PriorInv, UndoesLatest
  <2>2. Graph' = g
    BY <2>1, InverseGivesBack
  <2> QED
    BY <2>1, <2>2
<1> QED
  BY <1>1, <1>2, <1>3, PTL DEF ClientsSpec, UndoRestoresGraph
=============================================================================
