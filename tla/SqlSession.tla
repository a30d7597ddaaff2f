------------------------------ MODULE SqlSession ------------------------------
(***************************************************************************)
(* The way of a unary request through the native daemon: the handler       *)
(* (grpc/mod.rs) offloads it to the blocking pool (store/mod.rs), the      *)
(* operation takes the session's mutex, looks at the database, runs its    *)
(* statements in one transaction (sql.rs) and reads back what it did; the  *)
(* handler publishes and answers.  FlowStore takes all of this for one     *)
(* step.  Here are the steps, with what fails between them, and with       *)
(* several daemons that have opened one file.                              *)
(*                                                                         *)
(* What a write does is left out: it is in the database or it is not.      *)
(***************************************************************************)
EXTENDS Naturals, FiniteSets

CONSTANTS
  Reads, Writes,  \* the requests; each is made once
  Retries,        \* the writes that carry one and the same idempotency key
  Daemons,        \* processes with the database open
  DaemonOf,       \* request -> the daemon it is sent to
  NoOne,          \* nobody holds a mutex
  Faults          \* what may go wrong

ASSUME SessionAssumption ==
  /\ Reads \cap Writes = {} /\ Retries \subseteq Writes
  /\ DaemonOf \in [Reads \cup Writes -> Daemons]
  /\ NoOne \notin Reads \cup Writes
  /\ Faults \subseteq {"statement", "commit", "commit stays open", "read back", "panic", "drop", "crash"}

Requests == Reads \cup Writes

VARIABLES
  phase,      \* where each request is
  outcome,    \* what its operation returned: "none", "ok", "replay" or "error"
  saw,        \* what each read has seen
  dropped,    \* requests whose handler is gone
  holder,     \* daemon -> who holds the mutex of its connection
  poisoned,   \* daemon -> whether a thread panicked holding it
  inTx,       \* daemon -> whether its connection is in a transaction
  pending,    \* daemon -> writes in that transaction
  committed,  \* writes in the database file
  published   \* writes that went to the Watch streams

requestVars == <<phase, outcome, saw, dropped>>
connectionVars == <<holder, poisoned, inTx, pending>>
sessionVars == <<requestVars, connectionVars, committed, published>>

\* "looking": in the session, before the transaction; "missed": the key is not in the ledger;
\* "returned": the operation is over and the handler has yet to be resumed.
InSession == {"looking", "missed", "writing", "written", "reading back"}
Phases == {"new", "queued", "returned", "answered", "gone"} \cup InSession

SessionInit ==
  /\ phase = [r \in Requests |-> "new"] /\ outcome = [r \in Requests |-> "none"]
  /\ saw = [r \in Requests |-> {}] /\ dropped = {}
  /\ holder = [d \in Daemons |-> NoOne] /\ poisoned = [d \in Daemons |-> FALSE]
  /\ inTx = [d \in Daemons |-> FALSE] /\ pending = [d \in Daemons |-> {}]
  /\ committed = {} /\ published = {}

-----------------------------------------------------------------------------
(* The session.                                                              *)

To(r, p) == phase' = [phase EXCEPT ![r] = p]

\* The operation returns: the session is dropped and with it the mutex guard.
Return(r, result) ==
  /\ To(r, "returned") /\ outcome' = [outcome EXCEPT ![r] = result]
  /\ holder' = [holder EXCEPT ![DaemonOf[r]] = NoOne]

\* What a connection sees: the file, and what its own transaction has written.
Visible(d) == committed \cup pending[d]

\* The writer's lock of the file belongs to a connection that has written.
LockedByOther(d) == \E e \in Daemons \ {d} : pending[e] # {}

\* ROLLBACK, whose own result is ignored; a transaction that SQLite has ended itself is over.
RollBack(d) == inTx' = [inTx EXCEPT ![d] = FALSE] /\ pending' = [pending EXCEPT ![d] = {}]

\* A handler: spawn_blocking queues the operation.
Receive(r) ==
  /\ phase[r] = "new" /\ To(r, "queued")
  /\ UNCHANGED <<outcome, saw, dropped, connectionVars, committed, published>>

\* Mutant: every operation has the connection at once.
EnterUnlocked(r) ==
  LET d == DaemonOf[r] IN
  /\ phase[r] = "queued" /\ ~poisoned[d]
  /\ To(r, "looking") /\ holder' = [holder EXCEPT ![d] = r]
  /\ UNCHANGED <<outcome, saw, dropped, poisoned, inTx, pending, committed, published>>

\* session(): the mutex of the connection, for the whole operation.
Enter(r) ==
  LET d == DaemonOf[r] IN
  /\ phase[r] = "queued" /\ holder[d] = NoOne /\ ~poisoned[d]
  /\ To(r, "looking") /\ holder' = [holder EXCEPT ![d] = r]
  /\ UNCHANGED <<outcome, saw, dropped, poisoned, inTx, pending, committed, published>>

\* Mutant: whoever meets a poisoned mutex stays.
EnterPoisonedWaits(r) == FALSE /\ UNCHANGED sessionVars

\* "store mutex poisoned".
EnterPoisoned(r) ==
  /\ phase[r] = "queued" /\ poisoned[DaemonOf[r]]
  /\ To(r, "returned") /\ outcome' = [outcome EXCEPT ![r] = "error"]
  /\ UNCHANGED <<saw, dropped, connectionVars, committed, published>>

Read(r) ==
  /\ r \in Reads /\ phase[r] = "looking"
  /\ saw' = [saw EXCEPT ![r] = Visible(DaemonOf[r])]
  /\ Return(r, "ok")
  /\ UNCHANGED <<dropped, poisoned, inTx, pending, committed, published>>

\* Mutant: the ledger is asked for the request, and not for its key.
HitOwn(r) == r \in Retries /\ r \in Visible(DaemonOf[r])

\* The ledger has the key.
Hit(r) == r \in Retries /\ Retries \cap Visible(DaemonOf[r]) # {}

\* check_idempotency, before the transaction: the recorded cursor is the answer.
Replay(r) ==
  /\ r \in Writes /\ phase[r] = "looking" /\ Hit(r)
  /\ Return(r, "replay")
  /\ UNCHANGED <<saw, dropped, poisoned, inTx, pending, committed, published>>

Miss(r) ==
  /\ r \in Writes /\ phase[r] = "looking" /\ ~Hit(r)
  /\ To(r, "missed")
  /\ UNCHANGED <<outcome, saw, dropped, connectionVars, committed, published>>

\* An early return, for a node that is not there or an argument that is no good; or one of
\* the queries fails.
Refuse(r) ==
  /\ phase[r] \in {"looking", "missed"} /\ Return(r, "error")
  /\ UNCHANGED <<saw, dropped, poisoned, inTx, pending, committed, published>>

-----------------------------------------------------------------------------
(* transaction().                                                            *)

\* Mutant: a BEGIN inside a transaction joins it.
BeginNested(r) ==
  /\ phase[r] = "missed" /\ To(r, "writing")
  /\ inTx' = [inTx EXCEPT ![DaemonOf[r]] = TRUE]
  /\ UNCHANGED <<outcome, saw, dropped, holder, poisoned, pending, committed, published>>

Begin(r) ==
  /\ phase[r] = "missed" /\ ~inTx[DaemonOf[r]] /\ To(r, "writing")
  /\ inTx' = [inTx EXCEPT ![DaemonOf[r]] = TRUE]
  /\ UNCHANGED <<outcome, saw, dropped, holder, poisoned, pending, committed, published>>

\* SQLite has no transactions in transactions, and the ? passes its error on.
BeginFails(r) ==
  /\ phase[r] = "missed" /\ inTx[DaemonOf[r]] /\ Return(r, "error")
  /\ UNCHANGED <<saw, dropped, poisoned, inTx, pending, committed, published>>

\* The closure: the statements of the operation, the event and the row of the ledger.
Execute(r) ==
  LET d == DaemonOf[r] IN
  /\ phase[r] = "writing" /\ ~LockedByOther(d) /\ To(r, "written")
  /\ pending' = [pending EXCEPT ![d] = @ \cup {r}]
  /\ UNCHANGED <<outcome, saw, dropped, holder, poisoned, inTx, committed, published>>

\* Mutant: an error leaves the closure and the transaction stays.
AbortOpen(r) ==
  Return(r, "error") /\ UNCHANGED <<saw, dropped, poisoned, inTx, pending, committed, published>>

\* The Err arm.
Abort(r) ==
  /\ Return(r, "error") /\ RollBack(DaemonOf[r])
  /\ UNCHANGED <<saw, dropped, poisoned, committed, published>>

\* Another process has the file: PRAGMA busy_timeout is over.
Busy(r) == phase[r] = "writing" /\ LockedByOther(DaemonOf[r]) /\ Abort(r)

StatementFails(r) == "statement" \in Faults /\ phase[r] \in {"writing", "written"} /\ Abort(r)

Commit(r) ==
  LET d == DaemonOf[r] IN
  /\ phase[r] = "written" /\ To(r, "reading back")
  /\ committed' = committed \cup pending[d] /\ RollBack(d)
  /\ UNCHANGED <<outcome, saw, dropped, holder, poisoned, published>>

\* Mutant: the result of COMMIT is ignored, as that of ROLLBACK is.
CommitIgnored(r) ==
  /\ phase[r] = "written" /\ "commit" \in Faults /\ RollBack(DaemonOf[r]) /\ To(r, "reading back")
  /\ UNCHANGED <<outcome, saw, dropped, holder, poisoned, committed, published>>

\* The ? on COMMIT returns without a ROLLBACK.  SQLite may have rolled back (a full disk) or
\* not (the file is busy).
CommitFails(r) ==
  /\ phase[r] = "written" /\ Return(r, "error")
  /\ \/ "commit" \in Faults /\ RollBack(DaemonOf[r])
     \/ "commit stays open" \in Faults /\ UNCHANGED <<inTx, pending>>
  /\ UNCHANGED <<saw, dropped, poisoned, committed, published>>

\* finish_mutation: the changed nodes and the progress, after the transaction.
ReadBack(r) ==
  /\ phase[r] = "reading back"
  /\ \/ Return(r, "ok")
     \/ "read back" \in Faults /\ Return(r, "error")
  /\ UNCHANGED <<saw, dropped, poisoned, inTx, pending, committed, published>>

\* list_events adds one to the limit it is given, and a build with overflow checks panics on
\* the largest: the guard is dropped in the unwinding.
Panic(r) ==
  /\ "panic" \in Faults /\ r \in Reads /\ phase[r] = "looking"
  /\ Return(r, "error") /\ poisoned' = [poisoned EXCEPT ![DaemonOf[r]] = TRUE]
  /\ UNCHANGED <<saw, dropped, inTx, pending, committed, published>>

-----------------------------------------------------------------------------
(* Back in the handler.                                                      *)

\* The write was made here and now: neither a failure nor a replay has events to publish.
Resume(r) ==
  /\ phase[r] = "returned" /\ r \notin dropped /\ To(r, "answered")
  /\ published' = IF r \in Writes /\ outcome[r] = "ok" THEN published \cup {r} ELSE published
  /\ UNCHANGED <<outcome, saw, dropped, connectionVars, committed>>

\* The client hangs up and the handler's future is dropped; the blocking task runs on.
Drop(r) ==
  /\ "drop" \in Faults /\ phase[r] \in InSession \cup {"queued", "returned"}
  /\ dropped' = dropped \cup {r}
  /\ UNCHANGED <<phase, outcome, saw, connectionVars, committed, published>>

Forget(r) ==
  /\ phase[r] = "returned" /\ r \in dropped /\ To(r, "gone")
  /\ UNCHANGED <<outcome, saw, dropped, connectionVars, committed, published>>

\* The process dies and is started again: the file has what was committed.
Crash(d) ==
  /\ "crash" \in Faults
  /\ phase' = [r \in Requests |->
       IF DaemonOf[r] = d /\ phase[r] \notin {"new", "answered"} THEN "gone" ELSE phase[r]]
  /\ holder' = [holder EXCEPT ![d] = NoOne] /\ poisoned' = [poisoned EXCEPT ![d] = FALSE]
  /\ RollBack(d) /\ UNCHANGED <<outcome, saw, dropped, committed, published>>

Serve(r) ==
  \/ Enter(r) \/ EnterPoisoned(r) \/ Read(r) \/ Replay(r) \/ Miss(r) \/ Refuse(r)
  \/ Begin(r) \/ BeginFails(r) \/ Execute(r) \/ Busy(r) \/ Commit(r) \/ ReadBack(r)
  \/ Resume(r) \/ Forget(r)

Fault(r) == StatementFails(r) \/ CommitFails(r) \/ Panic(r) \/ Drop(r)

SessionNext ==
  \/ \E r \in Requests : Receive(r) \/ Serve(r) \/ Fault(r)
  \/ \E d \in Daemons : Crash(d)

SessionSpec == SessionInit /\ [][SessionNext]_sessionVars

\* The threads of the blocking pool and the tasks of the runtime go on.  Each request is made
\* once, so that nobody is passed over at the mutex for ever.
FairSessionSpec == SessionSpec /\ \A r \in Requests : WF_sessionVars(Serve(r))

-----------------------------------------------------------------------------
SessionTyped ==
  /\ phase \in [Requests -> Phases] /\ outcome \in [Requests -> {"none", "ok", "replay", "error"}]
  /\ saw \in [Requests -> SUBSET Writes] /\ dropped \subseteq Requests
  /\ holder \in [Daemons -> Requests \cup {NoOne}]
  /\ poisoned \in [Daemons -> BOOLEAN] /\ inTx \in [Daemons -> BOOLEAN]
  /\ pending \in [Daemons -> SUBSET Writes]
  /\ committed \subseteq Writes /\ published \subseteq Writes

\* Types; the mutex is held by the request that is in the session, so that no other is in it;
\* a transaction has work in it only while it is open.
SessionTypeOK ==
  /\ SessionTyped
  /\ \A r \in Requests : phase[r] \in InSession => holder[DaemonOf[r]] = r
  /\ \A d \in Daemons : pending[d] # {} => inTx[d]

\* What is acknowledged, or told to the other clients, is in the file and survives a crash; a
\* replay was preceded by the write it speaks for.
AcknowledgedIsCommitted ==
  /\ published \subseteq committed
  /\ \A r \in Writes : outcome[r] = "ok" => r \in committed
  /\ \A r \in Writes : outcome[r] = "replay" => committed \cap Retries # {}

\* No read is shown a write that did not last: none of a transaction that is rolled back.
OnlyCommittedIsSeen == \A r \in Reads : saw[r] \subseteq committed

\* A connection nobody uses is in no transaction, whatever went wrong in the last one.
NothingLeftOpen == \A d \in Daemons : holder[d] = NoOne => ~inTx[d]

\* What failed and is not in the file will not turn up in it later.
FailureIsFinal ==
  [][\A r \in Writes : outcome[r] = "error" /\ r \notin committed => r \notin committed']_sessionVars

\* Whatever fails, whoever panics: a request that got to a daemon is answered or its daemon dies.
EveryRequestIsAnswered ==
  \A r \in Requests : phase[r] = "queued" ~> phase[r] \in {"answered", "gone"}

\* The abstract store: a request takes effect at its COMMIT.
StatusOf(r) ==
  CASE phase[r] = "new" -> "new"
    [] phase[r] = "gone" -> "lost"
    [] phase[r] = "answered" -> IF outcome[r] = "replay" THEN "ok" ELSE outcome[r]
    [] OTHER -> "pending"

Atomic == INSTANCE AtomicStore WITH status <- [r \in Requests |-> StatusOf(r)], done <- committed

\* With one daemon, and a COMMIT that fails leaving nothing open, all of this is atomic.
ImplementsAtomic == Atomic!Spec
=============================================================================
