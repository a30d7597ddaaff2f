------------------------------ MODULE AgentRetry ------------------------------
(***************************************************************************)
(* An agent that retries a write with the key of the first attempt, as the *)
(* comment on the idempotency table describes it (a network timeout, a     *)
(* process restart), over a transport that loses and delays requests and   *)
(* replies, while other callers write without keys.                        *)
(*                                                                         *)
(* The agent and the transport are not in the repository; the store they   *)
(* talk to is FlowStore.                                                   *)
(***************************************************************************)
EXTENDS SeedMC

CONSTANT MaxSends   \* bound on the attempts

VARIABLES
  write,     \* the write the agent wants, chosen once
  sends,     \* attempts made
  inflight,  \* copies of the request on the way
  replies,   \* replies on the way, or lost
  done,      \* the reply the agent took, if any, as a set
  effects    \* cursors of the deliveries that changed the database

agentVars == <<write, sends, inflight, replies, done, effects>>

TheKey == CHOOSE k \in Keys : TRUE

Writes == {"create", "status", "delete", "connect", "undo"}

AgentInit ==
  /\ SeedInit
  /\ write \in Writes
  /\ sends = 0 /\ inflight = 0 /\ replies = {} /\ done = {} /\ effects = {}

\* No answer yet: the agent sends the request, again.
Send ==
  /\ done = {} /\ sends < MaxSends
  /\ sends' = sends + 1 /\ inflight' = inflight + 1
  /\ UNCHANGED <<vars, write, replies, done, effects>>

\* The store serves one copy; the transport may have others.
Deliver ==
  /\ inflight > 0
  /\ \/ write = "create" /\ CreateNode(Travel, Wp, "TASK", TheKey)
     \/ write = "status" /\ SetStatus(Task1, "DONE", TheKey)
     \/ write = "delete" /\ DeleteNode(Task1, TRUE, TheKey)
     \/ write = "connect" /\ AddDependency(Task2, Wp, TheKey)
     \/ write = "undo" /\ Undo(Travel, 0, TheKey)
  /\ inflight' = inflight - 1
  /\ replies' = replies \cup {reply'}
  /\ effects' = IF tables' = tables THEN effects ELSE effects \cup {lastSeq'}
  /\ UNCHANGED <<now, write, sends, done>>

LoseRequest ==
  inflight > 0 /\ inflight' = inflight - 1 /\ UNCHANGED <<vars, write, sends, replies, done, effects>>

\* A reply that is not taken is lost.
Answer ==
  /\ done = {} /\ \E r \in replies : done' = {r}
  /\ UNCHANGED <<vars, write, sends, inflight, replies, effects>>

\* What the others do to the nodes the request is about.
Meanwhile ==
  /\ \/ \E n \in Live : DeleteNode(n, FALSE, NoKey) \/ SetStatus(n, "OPEN", NoKey)
     \/ Undo(Travel, 0, NoKey)
     \/ RemoveDependency(Task2, Wp, NoKey)
  /\ UNCHANGED <<now, write, sends, inflight, replies, done, effects>>

AgentNext == Send \/ Deliver \/ LoseRequest \/ Answer \/ Meanwhile

-----------------------------------------------------------------------------
\* Whatever is lost, repeated or overtaken, the request takes effect once, also when what it
\* did has been undone or deleted by the time a retry comes in.
AtMostOnce == Cardinality(effects) <= 1

\* Every reply that reports success reports the one write: a retry is told the cursor of the
\* attempt that got through.
RepliesAgree == \A r \in replies : r.ok => effects = {r.seq}

\* One effect, and one answer.
RetriesAreSafe == AtMostOnce /\ RepliesAgree
=============================================================================
