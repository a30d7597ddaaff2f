--------------------------- MODULE SqlSession_proofs ---------------------------
(***************************************************************************)
(* A request goes through its daemon as if it took effect at one moment,   *)
(* for any number of requests and daemons, and of the faults those that    *)
(* each theorem names.                                                     *)
(***************************************************************************)
EXTENDS SqlSession, TLAPS

USE SessionAssumption

-----------------------------------------------------------------------------
(* The way through the session, whatever fails.                              *)

\* Where a request is, and what that says of the mutex, of the transaction and of its outcome.
At(r) ==
  LET d == DaemonOf[r] IN
  /\ phase[r] \in InSession => holder[d] = r
  /\ phase[r] = "writing" => inTx[d] /\ pending[d] = {}
  /\ phase[r] = "written" => inTx[d] /\ pending[d] = {r}
  /\ phase[r] \in {"missed", "writing", "written", "reading back"} => r \in Writes
  /\ phase[r] \in {"new", "queued"} \cup InSession => outcome[r] = "none"

Open(d) == pending[d] # {} => inTx[d]

SessionInv ==
  /\ SessionTyped
  /\ \A r \in Requests : At(r)
  /\ \A d \in Daemons : Open(d)

\* At the start nobody is in a session.
LEMMA InitInv == SessionInit => SessionInv
  BY DEF SessionInit, SessionInv, SessionTyped, At, Open, Phases, InSession, Requests

\* Nothing moves.
LEMMA InvStutter == SessionInv /\ UNCHANGED sessionVars => SessionInv'
<1> SUFFICES ASSUME SessionInv, UNCHANGED sessionVars PROVE SessionInv'
  OBVIOUS
<1> USE DEF sessionVars, requestVars, connectionVars, SessionInv
<1>1. SessionTyped'
  BY DEF SessionTyped
<1>2. ASSUME NEW r \in Requests PROVE At(r)'
  BY DEF At
<1>3. ASSUME NEW d \in Daemons PROVE Open(d)'
  BY DEF Open
<1> QED
  BY <1>1, <1>2, <1>3

\* Types through the steps of a request.
LEMMA TypedServe ==
  ASSUME SessionInv, NEW r \in Requests, Serve(r)
  PROVE  SessionTyped'
<1> USE DEF SessionTyped, Phases, InSession, Requests, requestVars, connectionVars, To, Return, SessionInv
<1>1. CASE Enter(r)
  BY <1>1 DEF Enter
<1>2. CASE EnterPoisoned(r)
  BY <1>2 DEF EnterPoisoned
<1>3. CASE Read(r)
  BY <1>3 DEF Read, Visible
<1>4. CASE Replay(r)
  BY <1>4 DEF Replay
<1>5. CASE Miss(r)
  BY <1>5 DEF Miss
<1>6. CASE Refuse(r)
  BY <1>6 DEF Refuse
<1>7. CASE Begin(r)
  BY <1>7 DEF Begin
<1>8. CASE BeginFails(r)
  BY <1>8 DEF BeginFails
<1>9. CASE Execute(r)
  <2>1. r \in Writes
    BY <1>9 DEF Execute, At
  <2>2. pending' \in [Daemons -> SUBSET Writes]
    BY <1>9, <2>1 DEF Execute
  <2> QED
    BY <1>9, <2>2 DEF Execute
<1>10. CASE Busy(r)
  BY <1>10 DEF Busy, Abort, RollBack
<1>11. CASE Commit(r)
  BY <1>11 DEF Commit, RollBack
<1>12. CASE ReadBack(r)
  <2>1. PICK result \in {"ok", "error"} : Return(r, result)
    BY <1>12 DEF ReadBack
  <2> QED
    BY <1>12, <2>1 DEF ReadBack
<1>13. CASE Resume(r)
  BY <1>13 DEF Resume
<1>14. CASE Forget(r)
  BY <1>14 DEF Forget
<1> QED
  BY <1>1, <1>2, <1>3, <1>4, <1>5, <1>6, <1>7, <1>8, <1>9, <1>10, <1>11, <1>12, <1>13, <1>14 DEF Serve

\* The request that moves, and the others, which are elsewhere or on another connection.
LEMMA AtServe ==
  ASSUME SessionTyped, NEW r \in Requests, At(r), Open(DaemonOf[r]), Serve(r),
         NEW q \in Requests, At(q)
  PROVE  At(q)'
<1> USE DEF SessionTyped, Phases, InSession, Requests, requestVars, connectionVars, To, Return, At, Open
<1>1. CASE Enter(r)
  BY <1>1 DEF Enter
<1>2. CASE EnterPoisoned(r)
  BY <1>2 DEF EnterPoisoned
<1>3. CASE Read(r)
  BY <1>3 DEF Read, Visible
<1>4. CASE Replay(r)
  BY <1>4 DEF Replay
<1>5. CASE Miss(r)
  BY <1>5 DEF Miss
<1>6. CASE Refuse(r)
  BY <1>6 DEF Refuse
<1>7. CASE Begin(r)
  BY <1>7 DEF Begin
<1>8. CASE BeginFails(r)
  BY <1>8 DEF BeginFails
<1>9. CASE Execute(r)
  BY <1>9 DEF Execute
<1>10. CASE Busy(r)
  BY <1>10 DEF Busy, Abort, RollBack
<1>11. CASE Commit(r)
  BY <1>11 DEF Commit, RollBack
<1>12. CASE ReadBack(r)
  <2>1. PICK result \in {"ok", "error"} : Return(r, result)
    BY <1>12 DEF ReadBack
  <2> QED
    BY <1>12, <2>1 DEF ReadBack
<1>13. CASE Resume(r)
  BY <1>13 DEF Resume
<1>14. CASE Forget(r)
  BY <1>14 DEF Forget
<1> QED
  BY <1>1, <1>2, <1>3, <1>4, <1>5, <1>6, <1>7, <1>8, <1>9, <1>10, <1>11, <1>12, <1>13, <1>14 DEF Serve

\* The transactions.
LEMMA OpenServe ==
  ASSUME SessionTyped, NEW r \in Requests, At(r), Serve(r), NEW d \in Daemons, Open(d)
  PROVE  Open(d)'
<1> USE DEF SessionTyped, Phases, InSession, Requests, requestVars, connectionVars, To, Return, At, Open
<1>1. CASE Enter(r)
  BY <1>1 DEF Enter
<1>2. CASE EnterPoisoned(r)
  BY <1>2 DEF EnterPoisoned
<1>3. CASE Read(r)
  BY <1>3 DEF Read, Visible
<1>4. CASE Replay(r)
  BY <1>4 DEF Replay
<1>5. CASE Miss(r)
  BY <1>5 DEF Miss
<1>6. CASE Refuse(r)
  BY <1>6 DEF Refuse
<1>7. CASE Begin(r)
  BY <1>7 DEF Begin
<1>8. CASE BeginFails(r)
  BY <1>8 DEF BeginFails
<1>9. CASE Execute(r)
  BY <1>9 DEF Execute
<1>10. CASE Busy(r)
  BY <1>10 DEF Busy, Abort, RollBack
<1>11. CASE Commit(r)
  BY <1>11 DEF Commit, RollBack
<1>12. CASE ReadBack(r)
  BY <1>12 DEF ReadBack
<1>13. CASE Resume(r)
  BY <1>13 DEF Resume
<1>14. CASE Forget(r)
  BY <1>14 DEF Forget
<1> QED
  BY <1>1, <1>2, <1>3, <1>4, <1>5, <1>6, <1>7, <1>8, <1>9, <1>10, <1>11, <1>12, <1>13, <1>14 DEF Serve

\* Types through what may fail.
LEMMA TypedFault ==
  ASSUME SessionInv, NEW r \in Requests, Fault(r)
  PROVE  SessionTyped'
<1> USE DEF SessionTyped, Phases, InSession, Requests, requestVars, connectionVars, To, Return, SessionInv
<1>1. CASE StatementFails(r)
  BY <1>1 DEF StatementFails, Abort, RollBack
<1>2. CASE CommitFails(r)
  BY <1>2 DEF CommitFails, RollBack
<1>3. CASE Panic(r)
  BY <1>3 DEF Panic
<1>4. CASE Drop(r)
  BY <1>4 DEF Drop
<1> QED
  BY <1>1, <1>2, <1>3, <1>4 DEF Fault

\* The request that moves, and the others, which are elsewhere or on another connection.
LEMMA AtFault ==
  ASSUME SessionTyped, NEW r \in Requests, At(r), Open(DaemonOf[r]), Fault(r),
         NEW q \in Requests, At(q)
  PROVE  At(q)'
<1> USE DEF SessionTyped, Phases, InSession, Requests, requestVars, connectionVars, To, Return, At, Open
<1>1. CASE StatementFails(r)
  BY <1>1 DEF StatementFails, Abort, RollBack
<1>2. CASE CommitFails(r)
  <2>1. /\ phase[r] = "written" /\ phase' = [phase EXCEPT ![r] = "returned"]
        /\ outcome' = [outcome EXCEPT ![r] = "error"]
        /\ holder' = [holder EXCEPT ![DaemonOf[r]] = NoOne]
    BY <1>2 DEF CommitFails
  <2>2. CASE q = r
    BY <2>1, <2>2
  <2>3. CASE q # r /\ DaemonOf[q] = DaemonOf[r]
    <3>1. phase'[q] = phase[q] /\ outcome'[q] = outcome[q] /\ phase[q] \notin InSession
      BY <2>1, <2>3
    <3> QED
      BY <3>1
  <2>4. CASE DaemonOf[q] # DaemonOf[r]
    <3>1. /\ phase'[q] = phase[q] /\ outcome'[q] = outcome[q]
          /\ holder'[DaemonOf[q]] = holder[DaemonOf[q]]
      BY <2>1, <2>4, SessionAssumption
    <3>2. inTx'[DaemonOf[q]] = inTx[DaemonOf[q]] /\ pending'[DaemonOf[q]] = pending[DaemonOf[q]]
      <4>1. CASE RollBack(DaemonOf[r])
        BY <2>4, <4>1, SessionAssumption DEF RollBack
      <4>2. CASE UNCHANGED <<inTx, pending>>
        BY <4>2
      <4> QED
        BY <1>2, <4>1, <4>2 DEF CommitFails
    <3> QED
      BY <3>1, <3>2
  <2> QED
    BY <2>2, <2>3, <2>4
<1>3. CASE Panic(r)
  BY <1>3 DEF Panic
<1>4. CASE Drop(r)
  BY <1>4 DEF Drop
<1> QED
  BY <1>1, <1>2, <1>3, <1>4 DEF Fault

\* The transactions.
LEMMA OpenFault ==
  ASSUME SessionTyped, NEW r \in Requests, At(r), Fault(r), NEW d \in Daemons, Open(d)
  PROVE  Open(d)'
<1> USE DEF SessionTyped, Phases, InSession, Requests, requestVars, connectionVars, To, Return, At, Open
<1>1. CASE StatementFails(r)
  BY <1>1 DEF StatementFails, Abort, RollBack
<1>2. CASE CommitFails(r)
  BY <1>2 DEF CommitFails, RollBack
<1>3. CASE Panic(r)
  BY <1>3 DEF Panic
<1>4. CASE Drop(r)
  BY <1>4 DEF Drop
<1> QED
  BY <1>1, <1>2, <1>3, <1>4 DEF Fault

\* The way of a request that goes well.
LEMMA InvServe ==
  ASSUME SessionInv, NEW r \in Requests, Serve(r)
  PROVE  SessionInv'
<1>1. At(r) /\ Open(DaemonOf[r]) /\ SessionTyped
  BY DEF SessionInv, Requests
<1>2. SessionTyped'
  BY TypedServe
<1>3. ASSUME NEW q \in Requests PROVE At(q)'
  BY <1>1, AtServe DEF SessionInv
<1>4. ASSUME NEW d \in Daemons PROVE Open(d)'
  BY <1>1, OpenServe DEF SessionInv
<1> QED
  BY <1>2, <1>3, <1>4 DEF SessionInv

\* The ways in which it does not.
LEMMA InvFault ==
  ASSUME SessionInv, NEW r \in Requests, Fault(r)
  PROVE  SessionInv'
<1>1. At(r) /\ Open(DaemonOf[r]) /\ SessionTyped
  BY DEF SessionInv, Requests
<1>2. SessionTyped'
  BY TypedFault
<1>3. ASSUME NEW q \in Requests PROVE At(q)'
  BY <1>1, AtFault DEF SessionInv
<1>4. ASSUME NEW d \in Daemons PROVE Open(d)'
  BY <1>1, OpenFault DEF SessionInv
<1> QED
  BY <1>2, <1>3, <1>4 DEF SessionInv

\* A daemon that is killed takes its sessions with it.
LEMMA InvCrash ==
  ASSUME SessionInv, NEW d \in Daemons, Crash(d)
  PROVE  SessionInv'
<1> USE DEF Crash, RollBack, SessionInv, SessionTyped, Phases, InSession, Requests
<1>1. SessionTyped'
  OBVIOUS
<1>2. ASSUME NEW r \in Requests PROVE At(r)'
  BY DEF At
<1>3. ASSUME NEW e \in Daemons PROVE Open(e)'
  BY DEF Open
<1> QED
  BY <1>1, <1>2, <1>3

\* A request that arrives waits for the session.
LEMMA InvReceive ==
  ASSUME SessionInv, NEW r \in Requests, Receive(r)
  PROVE  SessionInv'
<1> USE DEF Receive, To, SessionInv, SessionTyped, Phases, InSession, Requests, connectionVars
<1>1. SessionTyped'
  OBVIOUS
<1>2. ASSUME NEW q \in Requests PROVE At(q)'
  BY DEF At
<1>3. ASSUME NEW e \in Daemons PROVE Open(e)'
  BY DEF Open
<1> QED
  BY <1>1, <1>2, <1>3

\* All of them.
LEMMA InvNext == SessionInv /\ SessionNext => SessionInv'
  BY InvServe, InvFault, InvCrash, InvReceive DEF SessionNext

LEMMA SessionInvariant == SessionSpec => []SessionInv
  BY InitInv, InvNext, InvStutter, PTL DEF SessionSpec

\* In a session there is one request, and it has the mutex, in every run of any number of
\* daemons with any faults.
THEOREM SessionTypes == SessionSpec => []SessionTypeOK
<1>1. SessionInv => SessionTypeOK
  BY DEF SessionInv, SessionTypeOK, At, Open
<1> QED
  BY <1>1, SessionInvariant, PTL

-----------------------------------------------------------------------------
(* What is answered is so: if a COMMIT that fails leaves nothing open.                *)

\* An answer is about what is in the file; what a read saw is there for good.
Truth(r) ==
  /\ phase[r] = "reading back" => r \in committed
  /\ r \in Writes /\ outcome[r] = "ok" => r \in committed
  /\ r \in Writes /\ outcome[r] = "replay" => r \in Retries /\ committed \cap Retries # {}
  /\ saw[r] \subseteq committed
  /\ phase[r] \in {"returned", "answered"} => outcome[r] # "none"

\* Work that is not committed is that of the request in the session.
Kept(d) == pending[d] # {} => \E r \in Writes : DaemonOf[r] = d /\ phase[r] = "written"

TruthInv ==
  /\ SessionInv
  /\ \A r \in Requests : Truth(r)
  /\ \A d \in Daemons : Kept(d)
  /\ published \subseteq committed

\* For the request r that moves: nothing is pending on its connection but what it wrote.
LEMMA Alone ==
  ASSUME SessionInv, NEW r \in Requests, Kept(DaemonOf[r]), phase[r] \in {"looking", "missed"}
  PROVE  pending[DaemonOf[r]] = {}
<1>1. SUFFICES ASSUME NEW q \in Writes, DaemonOf[q] = DaemonOf[r], phase[q] = "written" PROVE FALSE
  BY DEF Kept
<1>2. At(r) /\ At(q) /\ q \in Requests
  BY DEF SessionInv, Requests
<1>3. holder[DaemonOf[r]] = r /\ holder[DaemonOf[q]] = q
  BY <1>1, <1>2 DEF At, InSession
<1> QED
  BY <1>1, <1>3

\* Nothing is pending and nothing answered.
LEMMA InitTruth == SessionInit => TruthInv
<1> SUFFICES ASSUME SessionInit PROVE TruthInv
  OBVIOUS
<1>1. ASSUME NEW r \in Requests PROVE Truth(r)
  BY DEF SessionInit, Truth
<1>2. ASSUME NEW d \in Daemons PROVE Kept(d)
  BY DEF SessionInit, Kept
<1> QED
  BY <1>1, <1>2, InitInv DEF TruthInv, SessionInit

LEMMA TruthStutter == TruthInv /\ UNCHANGED sessionVars => TruthInv'
<1> SUFFICES ASSUME TruthInv, UNCHANGED sessionVars PROVE TruthInv'
  OBVIOUS
<1> USE DEF sessionVars, requestVars, connectionVars, TruthInv
<1>1. ASSUME NEW r \in Requests PROVE Truth(r)'
  BY DEF Truth
<1>2. ASSUME NEW d \in Daemons PROVE Kept(d)'
  <2>1. phase' = phase /\ pending' = pending /\ Kept(d)
    OBVIOUS
  <2> QED
    BY <2>1 DEF Kept
<1> QED
  BY <1>1, <1>2, InvStutter

\* Every request, the one that moves and the others.
LEMMA TruthServe ==
  ASSUME SessionTyped, NEW r \in Requests, At(r), Serve(r), Truth(r),
         phase[r] \in {"looking", "missed"} => pending[DaemonOf[r]] = {},
         NEW q \in Requests, Truth(q)
  PROVE  Truth(q)'
<1> USE DEF SessionTyped, Phases, InSession, Requests, requestVars, connectionVars, To, Return, At, Truth
<1>1. CASE Enter(r)
  BY <1>1 DEF Enter
<1>2. CASE EnterPoisoned(r)
  BY <1>2 DEF EnterPoisoned
<1>3. CASE Read(r)
  BY <1>3 DEF Read, Visible
<1>4. CASE Replay(r)
  BY <1>4 DEF Replay, Hit, Visible
<1>5. CASE Miss(r)
  BY <1>5 DEF Miss, Hit, Visible
<1>6. CASE Refuse(r)
  BY <1>6 DEF Refuse
<1>7. CASE Begin(r)
  BY <1>7 DEF Begin
<1>8. CASE BeginFails(r)
  BY <1>8 DEF BeginFails
<1>9. CASE Execute(r)
  BY <1>9 DEF Execute
<1>10. CASE Busy(r)
  BY <1>10 DEF Busy, Abort, RollBack
<1>11. CASE Commit(r)
  BY <1>11 DEF Commit, RollBack
<1>12. CASE ReadBack(r)
  <2>1. PICK result \in {"ok", "error"} : Return(r, result)
    BY <1>12 DEF ReadBack
  <2> QED
    BY <1>12, <2>1 DEF ReadBack
<1>13. CASE Resume(r)
  BY <1>13 DEF Resume
<1>14. CASE Forget(r)
  BY <1>14 DEF Forget
<1> QED
  BY <1>1, <1>2, <1>3, <1>4, <1>5, <1>6, <1>7, <1>8, <1>9, <1>10, <1>11, <1>12, <1>13, <1>14 DEF Serve

\* What is given up is no longer in progress.
LEMMA KeptAbort ==
  ASSUME SessionTyped, NEW r \in Requests, Abort(r), NEW d \in Daemons, Kept(d)
  PROVE  Kept(d)'
<1>1. /\ phase' = [phase EXCEPT ![r] = "returned"]
      /\ pending' = [pending EXCEPT ![DaemonOf[r]] = {}]
  BY DEF Abort, Return, To, RollBack
<1>2. CASE d = DaemonOf[r]
  BY <1>1, <1>2 DEF SessionTyped, Kept
<1>3. CASE d # DaemonOf[r]
  <2>1. pending'[d] = pending[d]
    BY <1>1, <1>3 DEF SessionTyped
  <2>2. \A q \in Requests : DaemonOf[q] = d => phase'[q] = phase[q]
    BY <1>1, <1>3 DEF SessionTyped
  <2> QED
    BY <2>1, <2>2 DEF Kept, Requests
<1> QED
  BY <1>2, <1>3

\* The work in progress.
LEMMA KeptServe ==
  ASSUME SessionTyped, NEW r \in Requests, At(r), Serve(r),
         NEW d \in Daemons, Kept(d),
         \A q \in Writes : phase[q] = "written" => At(q)
  PROVE  Kept(d)'
<1>10. CASE Busy(r)
  BY <1>10, KeptAbort DEF Busy
<1> USE DEF SessionTyped, Phases, InSession, Requests, requestVars, connectionVars, To, Return, At, Kept
<1>1. CASE Enter(r)
  BY <1>1 DEF Enter
<1>2. CASE EnterPoisoned(r)
  BY <1>2 DEF EnterPoisoned
<1>3. CASE Read(r)
  BY <1>3 DEF Read, Visible
<1>4. CASE Replay(r)
  BY <1>4 DEF Replay, Hit, Visible
<1>5. CASE Miss(r)
  BY <1>5 DEF Miss, Hit, Visible
<1>6. CASE Refuse(r)
  BY <1>6 DEF Refuse
<1>7. CASE Begin(r)
  BY <1>7 DEF Begin
<1>8. CASE BeginFails(r)
  BY <1>8 DEF BeginFails
<1>9. CASE Execute(r)
  BY <1>9 DEF Execute
<1>11. CASE Commit(r)
  BY <1>11 DEF Commit, RollBack
<1>12. CASE ReadBack(r)
  <2>1. PICK result \in {"ok", "error"} : Return(r, result)
    BY <1>12 DEF ReadBack
  <2> QED
    BY <1>12, <2>1 DEF ReadBack
<1>13. CASE Resume(r)
  BY <1>13 DEF Resume
<1>14. CASE Forget(r)
  BY <1>14 DEF Forget
<1> QED
  BY <1>1, <1>2, <1>3, <1>4, <1>5, <1>6, <1>7, <1>8, <1>9, <1>10, <1>11, <1>12, <1>13, <1>14 DEF Serve

\* What the other clients are told.
LEMMA PublishedServe ==
  ASSUME SessionTyped, NEW r \in Requests, Truth(r), published \subseteq committed, Serve(r)
  PROVE  published' \subseteq committed'
<1> USE DEF SessionTyped, Phases, InSession, Requests, requestVars, connectionVars, To, Return, Truth
<1>1. CASE Enter(r)
  BY <1>1 DEF Enter
<1>2. CASE EnterPoisoned(r)
  BY <1>2 DEF EnterPoisoned
<1>3. CASE Read(r)
  BY <1>3 DEF Read, Visible
<1>4. CASE Replay(r)
  BY <1>4 DEF Replay, Hit, Visible
<1>5. CASE Miss(r)
  BY <1>5 DEF Miss, Hit, Visible
<1>6. CASE Refuse(r)
  BY <1>6 DEF Refuse
<1>7. CASE Begin(r)
  BY <1>7 DEF Begin
<1>8. CASE BeginFails(r)
  BY <1>8 DEF BeginFails
<1>9. CASE Execute(r)
  BY <1>9 DEF Execute
<1>10. CASE Busy(r)
  BY <1>10 DEF Busy, Abort, RollBack
<1>11. CASE Commit(r)
  BY <1>11 DEF Commit, RollBack
<1>12. CASE ReadBack(r)
  <2>1. PICK result \in {"ok", "error"} : Return(r, result)
    BY <1>12 DEF ReadBack
  <2> QED
    BY <1>12, <2>1 DEF ReadBack
<1>13. CASE Resume(r)
  BY <1>13 DEF Resume
<1>14. CASE Forget(r)
  BY <1>14 DEF Forget
<1> QED
  BY <1>1, <1>2, <1>3, <1>4, <1>5, <1>6, <1>7, <1>8, <1>9, <1>10, <1>11, <1>12, <1>13, <1>14 DEF Serve

\* The way of a request that goes well: an outcome is decided when its rows are in the file.
LEMMA TruthInvServe ==
  ASSUME TruthInv, NEW r \in Requests, Serve(r)
  PROVE  TruthInv'
<1>1. SessionInv /\ SessionTyped /\ At(r) /\ Truth(r) /\ Kept(DaemonOf[r])
  BY DEF TruthInv, SessionInv, Requests
<1>2. phase[r] \in {"looking", "missed"} => pending[DaemonOf[r]] = {}
  BY <1>1, Alone
<1>3. SessionInv'
  BY <1>1, InvServe
<1>4. ASSUME NEW q \in Requests PROVE Truth(q)'
  BY <1>1, <1>2, TruthServe DEF TruthInv
<1>5. ASSUME NEW d \in Daemons PROVE Kept(d)'
  <2>1. \A q \in Writes : phase[q] = "written" => At(q)
    BY <1>1 DEF SessionInv, Requests
  <2> QED
    BY <1>1, <2>1, KeptServe DEF TruthInv
<1>6. published' \subseteq committed'
  BY <1>1, PublishedServe DEF TruthInv
<1> QED
  BY <1>3, <1>4, <1>5, <1>6 DEF TruthInv

\* Every request, the one that moves and the others.
LEMMA TruthFault ==
  ASSUME SessionTyped, NEW r \in Requests, At(r), Fault(r), Truth(r),
         phase[r] \in {"looking", "missed"} => pending[DaemonOf[r]] = {},
         NEW q \in Requests, Truth(q)
  PROVE  Truth(q)'
<1> USE DEF SessionTyped, Phases, InSession, Requests, requestVars, connectionVars, To, Return, At, Truth
<1>1. CASE StatementFails(r)
  BY <1>1 DEF StatementFails, Abort, RollBack
<1>2. CASE CommitFails(r)
  BY <1>2 DEF CommitFails, RollBack
<1>3. CASE Panic(r)
  BY <1>3 DEF Panic
<1>4. CASE Drop(r)
  BY <1>4 DEF Drop
<1> QED
  BY <1>1, <1>2, <1>3, <1>4 DEF Fault

\* The work in progress.
LEMMA KeptFault ==
  ASSUME "commit stays open" \notin Faults, SessionTyped, NEW r \in Requests, At(r), Fault(r),
         NEW d \in Daemons, Kept(d),
         \A q \in Writes : phase[q] = "written" => At(q)
  PROVE  Kept(d)'
<1>1. CASE StatementFails(r)
  BY <1>1, KeptAbort DEF StatementFails
<1> USE DEF SessionTyped, Phases, InSession, Requests, requestVars, connectionVars, To, Return, At, Kept
<1>2. CASE CommitFails(r)
  <2>1. RollBack(DaemonOf[r])
    BY <1>2 DEF CommitFails
  <2>2. pending' = [pending EXCEPT ![DaemonOf[r]] = {}] /\ \A q \in Requests \ {r} : phase'[q] = phase[q]
    BY <1>2, <2>1 DEF CommitFails, RollBack
  <2>3. CASE d = DaemonOf[r]
    <3> HIDE DEF At
    <3>1. pending'[d] = {}
      BY <2>2, <2>3
    <3> QED
      BY <3>1
  <2>4. CASE d # DaemonOf[r]
    <3> HIDE DEF At, SessionTyped
    <3>1. pending'[d] = pending[d]
      BY <2>2, <2>4 DEF SessionTyped
    <3>2. \A q \in Writes : DaemonOf[q] = d => phase'[q] = phase[q]
      BY <2>2, <2>4
    <3> QED
      BY <3>1, <3>2
  <2> QED
    BY <2>3, <2>4
<1>3. CASE Panic(r)
  BY <1>3 DEF Panic
<1>4. CASE Drop(r)
  BY <1>4 DEF Drop
<1> QED
  BY <1>1, <1>2, <1>3, <1>4 DEF Fault

\* What the other clients are told.
LEMMA PublishedFault ==
  ASSUME SessionTyped, NEW r \in Requests, Truth(r), published \subseteq committed, Fault(r)
  PROVE  published' \subseteq committed'
<1> USE DEF SessionTyped, Phases, InSession, Requests, requestVars, connectionVars, To, Return, Truth
<1>1. CASE StatementFails(r)
  BY <1>1 DEF StatementFails, Abort, RollBack
<1>2. CASE CommitFails(r)
  BY <1>2 DEF CommitFails, RollBack
<1>3. CASE Panic(r)
  BY <1>3 DEF Panic
<1>4. CASE Drop(r)
  BY <1>4 DEF Drop
<1> QED
  BY <1>1, <1>2, <1>3, <1>4 DEF Fault

\* The ways in which it does not: with every failure the connection is rid of what was
\* pending.
LEMMA TruthInvFault ==
  ASSUME "commit stays open" \notin Faults, TruthInv, NEW r \in Requests, Fault(r)
  PROVE  TruthInv'
<1>1. SessionInv /\ SessionTyped /\ At(r) /\ Truth(r) /\ Kept(DaemonOf[r])
  BY DEF TruthInv, SessionInv, Requests
<1>2. phase[r] \in {"looking", "missed"} => pending[DaemonOf[r]] = {}
  BY <1>1, Alone
<1>3. SessionInv'
  BY <1>1, InvFault
<1>4. ASSUME NEW q \in Requests PROVE Truth(q)'
  BY <1>1, <1>2, TruthFault DEF TruthInv
<1>5. ASSUME NEW d \in Daemons PROVE Kept(d)'
  <2>1. \A q \in Writes : phase[q] = "written" => At(q)
    BY <1>1 DEF SessionInv, Requests
  <2> QED
    BY <1>1, <2>1, KeptFault DEF TruthInv
<1>6. published' \subseteq committed'
  BY <1>1, PublishedFault DEF TruthInv
<1> QED
  BY <1>3, <1>4, <1>5, <1>6 DEF TruthInv

\* All of them.
LEMMA TruthInvNext ==
  ASSUME "commit stays open" \notin Faults, TruthInv, SessionNext
  PROVE  TruthInv'
<1>1. ASSUME NEW r \in Requests, Receive(r) PROVE TruthInv'
  <2> USE <1>1 DEF Receive, To, TruthInv, SessionInv, SessionTyped, connectionVars
  <2>1. ASSUME NEW q \in Requests PROVE Truth(q)'
    BY DEF Truth
  <2>2. ASSUME NEW d \in Daemons PROVE Kept(d)'
    BY DEF Kept, Requests
  <2> QED
    BY <2>1, <2>2, InvReceive
<1>2. ASSUME NEW d \in Daemons, Crash(d) PROVE TruthInv'
  <2> USE <1>2 DEF Crash, RollBack, TruthInv, SessionInv, SessionTyped
  <2>1. ASSUME NEW q \in Requests PROVE Truth(q)'
    BY DEF Truth
  <2>2. ASSUME NEW e \in Daemons, pending'[e] # {} PROVE \E q \in Writes : DaemonOf[q] = e /\ phase'[q] = "written"
    <3>1. e # d /\ pending[e] # {}
      BY <2>2
    <3>2. PICK q \in Writes : DaemonOf[q] = e /\ phase[q] = "written"
      BY <3>1 DEF Kept
    <3> QED
      BY <3>1, <3>2 DEF Requests
  <2>3. ASSUME NEW e \in Daemons PROVE Kept(e)'
    BY <2>2 DEF Kept
  <2> QED
    BY <2>1, <2>3, InvCrash
<1> QED
  BY <1>1, <1>2, TruthInvServe, TruthInvFault DEF SessionNext

\* With any number of daemons on one file and whatever fails, but a COMMIT that leaves its
\* transaction open: what is acknowledged or published is in the file.
THEOREM AcknowledgedSurvives ==
  ASSUME "commit stays open" \notin Faults
  PROVE  SessionSpec => []AcknowledgedIsCommitted
<1>1. TruthInv => AcknowledgedIsCommitted
  BY DEF TruthInv, Truth, AcknowledgedIsCommitted, Requests
<1>2. TruthInv /\ SessionNext => TruthInv'
  BY TruthInvNext
<1> QED
  BY <1>1, <1>2, InitTruth, TruthStutter, PTL DEF SessionSpec

\* Under the same assumption no read is shown a write that does not last.
THEOREM NothingElseIsSeen ==
  ASSUME "commit stays open" \notin Faults
  PROVE  SessionSpec => []OnlyCommittedIsSeen
<1>1. TruthInv => OnlyCommittedIsSeen
  BY DEF TruthInv, Truth, OnlyCommittedIsSeen, Requests
<1>2. TruthInv /\ SessionNext => TruthInv'
  BY TruthInvNext
<1> QED
  BY <1>1, <1>2, InitTruth, TruthStutter, PTL DEF SessionSpec

-----------------------------------------------------------------------------
(* One daemon is an atomic store.                                             *)

\* The ledger was asked and nothing with the key has been committed since; and a request that
\* is committed is past its COMMIT.
Fresh(r) ==
  /\ r \in Retries /\ phase[r] \in {"missed", "writing", "written"} => committed \cap Retries = {}
  /\ r \in committed => phase[r] \in {"reading back", "returned", "answered", "gone"}

OneInv == TruthInv /\ \A r \in Requests : Fresh(r)

OneDaemon == \A d, e \in Daemons : d = e

\* No key has been looked up.
LEMMA InitOne == SessionInit => OneInv
  BY InitTruth DEF SessionInit, OneInv, Fresh

LEMMA OneStutter == OneInv /\ UNCHANGED sessionVars => OneInv'
<1> SUFFICES ASSUME OneInv, UNCHANGED sessionVars PROVE OneInv'
  OBVIOUS
<1>1. ASSUME NEW r \in Requests PROVE Fresh(r)'
  BY DEF OneInv, Fresh, sessionVars, requestVars
<1> QED
  BY <1>1, TruthStutter DEF OneInv

-----------------------------------------------------------------------------
(* What the steps do to phases and to the file.                              *)

Under == {"queued", "returned"} \cup InSession

\* A step of a request that is under way and stays so, and commits nothing.
Plain(r) ==
  /\ phase[r] \in Under /\ \E p \in Under : phase' = [phase EXCEPT ![r] = p]
  /\ \A q \in Requests \ {r} : outcome'[q] = outcome[q]
  /\ saw' = saw /\ committed' = committed
  /\ phase'[r] \in {"missed", "writing", "written"} =>
       phase[r] \in {"missed", "writing", "written"} \/ (r \in Retries => committed \cap Retries = {})
  /\ phase[r] \in {"reading back", "returned"} => phase'[r] \in {"reading back", "returned"}

\* All steps of the session but the ones of the next lemma are of that kind.
LEMMA PlainSteps ==
  ASSUME SessionTyped, NEW r \in Requests,
         \/ Enter(r) \/ EnterPoisoned(r) \/ Replay(r) \/ Miss(r) \/ Refuse(r) \/ Begin(r) \/ BeginFails(r)
         \/ Execute(r) \/ Busy(r) \/ ReadBack(r) \/ StatementFails(r) \/ CommitFails(r) \/ Panic(r)
  PROVE  Plain(r)
<1> USE DEF SessionTyped, Plain, Under, InSession, To, Return
<1>1. CASE Enter(r)
  BY <1>1 DEF Enter, connectionVars
<1>2. CASE EnterPoisoned(r)
  BY <1>2 DEF EnterPoisoned, connectionVars
<1>3. CASE Replay(r)
  BY <1>3 DEF Replay, connectionVars
<1>4. CASE Miss(r)
  BY <1>4 DEF Miss, Hit, Visible, connectionVars
<1>5. CASE Refuse(r)
  BY <1>5 DEF Refuse, connectionVars
<1>6. CASE Begin(r)
  BY <1>6 DEF Begin, connectionVars
<1>7. CASE BeginFails(r)
  BY <1>7 DEF BeginFails, connectionVars
<1>8. CASE Execute(r)
  BY <1>8 DEF Execute, connectionVars
<1>9. CASE Busy(r)
  BY <1>9 DEF Busy, Abort, connectionVars
<1>10. CASE ReadBack(r)
  BY <1>10 DEF ReadBack, connectionVars
<1>11. CASE StatementFails(r)
  BY <1>11 DEF StatementFails, Abort, connectionVars
<1>12. CASE CommitFails(r)
  BY <1>12 DEF CommitFails, connectionVars
<1>13. CASE Panic(r)
  BY <1>13 DEF Panic, connectionVars
<1> QED
  BY <1>1, <1>2, <1>3, <1>4, <1>5, <1>6, <1>7, <1>8, <1>9, <1>10, <1>11, <1>12, <1>13

\* Between look-up and COMMIT nobody else gets into the session.
LEMMA OneNext ==
  ASSUME OneDaemon, "commit stays open" \notin Faults, OneInv, SessionNext
  PROVE  OneInv'
<1> USE DEF OneInv, TruthInv, SessionInv, SessionTyped
<1>1. TruthInv'
  BY TruthInvNext
<1>2. ASSUME NEW r \in Requests, Plain(r) \/ Read(r) \/ Resume(r) \/ Forget(r) \/ Receive(r) \/ Drop(r),
             NEW q \in Requests
      PROVE  Fresh(q)'
  <2>1. committed' = committed
    BY <1>2 DEF Plain, Read, Resume, Forget, Receive, Drop
  <2>2. CASE Plain(r)
    BY <2>1, <2>2 DEF Fresh, Plain, Under, InSession
  <2>3. CASE Read(r) \/ Resume(r) \/ Forget(r) \/ Receive(r) \/ Drop(r)
    <3>1. phase'[q] \in {phase[q], "returned", "answered", "gone", "queued"} /\ (phase'[q] = "queued" => phase[q] \in {"queued", "new"})
      BY <2>3 DEF Read, Resume, Forget, Receive, Drop, To, Return
    <3> QED
      BY <2>1, <3>1 DEF Fresh
  <2> QED
    BY <1>2, <2>2, <2>3
<1>3. ASSUME NEW r \in Requests, Commit(r), NEW q \in Requests PROVE Fresh(q)'
  <2>1. committed' = committed \cup {r} /\ phase' = [phase EXCEPT ![r] = "reading back"]
    BY <1>3 DEF Commit, To, At
  <2>2. At(r) /\ At(q) /\ DaemonOf[q] = DaemonOf[r]
    BY DEF OneDaemon, Requests
  <2>3. q # r => phase[q] \notin InSession
    BY <1>3, <2>2 DEF Commit, At, InSession
  <2> QED
    BY <2>1, <2>3 DEF Fresh, InSession
<1>4. ASSUME NEW d \in Daemons, Crash(d), NEW q \in Requests PROVE Fresh(q)'
  BY <1>4 DEF Crash, Fresh
<1>5. ASSUME NEW q \in Requests PROVE Fresh(q)'
  BY <1>2, <1>3, <1>4, PlainSteps DEF SessionNext, Serve, Fault
<1> QED
  BY <1>1, <1>5

-----------------------------------------------------------------------------
(* The refinement.                                                           *)

\* Nothing has been asked.
LEMMA InitRefines == SessionInit => Atomic!Init
  BY DEF SessionInit, Atomic!Init, StatusOf, Requests, Atomic!Requests

\* COMMIT is the moment at which a request takes effect, and an answer is an answer; all else
\* is not seen.
LEMMA StepRefines ==
  ASSUME OneDaemon, "commit stays open" \notin Faults, OneInv, SessionNext
  PROVE  Atomic!Next \/ UNCHANGED Atomic!atomicVars
<1> USE DEF OneInv, TruthInv, SessionInv, SessionTyped, Requests, Atomic!Requests
<1> DEFINE Status == [r \in Requests |-> StatusOf(r)]
<1>1. ASSUME NEW r \in Requests, Plain(r) PROVE UNCHANGED <<Status, committed, saw>>
  <2>1. ASSUME NEW q \in Requests PROVE StatusOf(q)' = StatusOf(q)
    <3>1. phase'[q] = phase[q] \/ (q = r /\ phase[r] \in Under /\ phase'[r] \in Under)
      BY <1>1 DEF Plain
    <3>2. CASE q = r
      <4>1. phase[r] \in Under /\ phase'[r] \in Under
        BY <1>1 DEF Plain
      <4> QED
        BY <3>2, <4>1 DEF Under, InSession, StatusOf
    <3>3. CASE q # r
      <4>1. phase'[q] = phase[q] /\ outcome'[q] = outcome[q]
        BY <1>1, <3>1, <3>3 DEF Plain
      <4> QED
        BY <4>1 DEF StatusOf
    <3> QED
      BY <3>2, <3>3
  <2>2. Status' = Status
    BY <2>1
  <2> QED
    BY <1>1, <2>2 DEF Plain
<1>2. ASSUME NEW r \in Requests, Drop(r) PROVE UNCHANGED <<Status, committed, saw>>
  BY <1>2 DEF Drop, StatusOf
<1>3. ASSUME NEW r \in Requests, Receive(r) PROVE Atomic!Invoke(r)
  <2>1. Status[r] = "new" /\ Status' = [Status EXCEPT ![r] = "pending"]
    BY <1>3 DEF Receive, To, StatusOf
  <2> QED
    BY <1>3, <2>1 DEF Receive, Atomic!Invoke
<1>4. ASSUME NEW r \in Requests, Read(r) PROVE Atomic!Observe(r)
  <2>1. pending[DaemonOf[r]] = {}
    BY <1>4, Alone DEF Read
  <2>2. Status[r] = "pending" /\ Status' = Status
    BY <1>4 DEF Read, Return, To, StatusOf
  <2> QED
    BY <1>4, <2>1, <2>2 DEF Read, Visible, Atomic!Observe
<1>5. ASSUME NEW r \in Requests, Commit(r) PROVE Atomic!TakeEffect(r)
  <2>1. At(r) /\ Fresh(r)
    OBVIOUS
  <2>2. r \in Writes /\ r \notin committed /\ committed' = committed \cup {r}
    BY <1>5, <2>1 DEF Commit, At, Fresh
  <2>3. r \in Retries => committed \cap Retries = {}
    BY <1>5, <2>1 DEF Commit, Fresh
  <2>4. Status[r] = "pending" /\ Status' = Status
    BY <1>5 DEF Commit, To, StatusOf
  <2> QED
    BY <1>5, <2>2, <2>3, <2>4 DEF Commit, Atomic!TakeEffect
<1>6. ASSUME NEW r \in Requests, Resume(r) PROVE \E result \in {"ok", "error"} : Atomic!Answer(r, result)
  <2> DEFINE result == IF outcome[r] = "replay" THEN "ok" ELSE outcome[r]
  <2>1. result \in {"ok", "error"}
    BY <1>6 DEF Resume, Truth
  <2>2. result = "ok" /\ r \in Writes => r \in committed \/ (r \in Retries /\ committed \cap Retries # {})
    BY <1>6 DEF Truth, Resume
  <2>3. Status[r] = "pending" /\ Status' = [Status EXCEPT ![r] = result]
    BY <1>6 DEF Resume, To, StatusOf
  <2>4. UNCHANGED <<committed, saw>>
    BY <1>6 DEF Resume
  <2>5. Atomic!Answer(r, result)
    BY <2>2, <2>3, <2>4 DEF Atomic!Answer
  <2> QED
    BY <2>1, <2>5
<1>7. ASSUME NEW r \in Requests, Forget(r) PROVE Atomic!Lose({r})
  <2>1. Status[r] = "pending" /\ Status' = [q \in Requests |-> IF q \in {r} THEN "lost" ELSE Status[q]]
    BY <1>7 DEF Forget, To, StatusOf
  <2> QED
    BY <1>7, <2>1 DEF Forget, Atomic!Lose
<1>8. ASSUME NEW d \in Daemons, Crash(d) PROVE \E S \in SUBSET Requests : Atomic!Lose(S)
  <2> DEFINE S == {r \in Requests : DaemonOf[r] = d /\ phase[r] \notin {"new", "answered", "gone"}}
  <2>1. \A r \in S : Status[r] = "pending"
    BY DEF StatusOf
  <2>2. Status' = [r \in Requests |-> IF r \in S THEN "lost" ELSE Status[r]]
    BY <1>8 DEF Crash, StatusOf
  <2>3. Atomic!Lose(S)
    BY <1>8, <2>1, <2>2 DEF Crash, Atomic!Lose
  <2> QED
    BY <2>3
<1>9. CASE \E d \in Daemons : Crash(d)
  BY <1>8, <1>9 DEF Atomic!Next
<1>10. CASE \E r \in Requests : Receive(r) \/ Serve(r) \/ Fault(r)
  <2>1. PICK r \in Requests : Receive(r) \/ Serve(r) \/ Fault(r)
    BY <1>10
  <2>2. Plain(r) \/ Drop(r) \/ Receive(r) \/ Read(r) \/ Commit(r) \/ Resume(r) \/ Forget(r)
    BY <2>1, PlainSteps DEF Serve, Fault
  <2>3. CASE Plain(r) \/ Drop(r)
    BY <1>1, <1>2, <2>3 DEF Atomic!atomicVars
  <2>4. CASE Receive(r)
    BY <1>3, <2>4 DEF Atomic!Next
  <2>5. CASE Read(r)
    BY <1>4, <2>5 DEF Atomic!Next
  <2>6. CASE Commit(r)
    BY <1>5, <2>6 DEF Atomic!Next
  <2>7. CASE Resume(r)
    BY <1>6, <2>7 DEF Atomic!Next
  <2>8. CASE Forget(r)
    <3>1. Atomic!Lose({r}) /\ {r} \in SUBSET Requests
      BY <1>7, <2>8
    <3> QED
      BY <3>1 DEF Atomic!Next
  <2> QED
    BY <2>2, <2>3, <2>4, <2>5, <2>6, <2>7, <2>8
<1> QED
  BY <1>9, <1>10 DEF SessionNext

LEMMA StutterRefines == UNCHANGED sessionVars => UNCHANGED Atomic!atomicVars
  BY DEF sessionVars, requestVars, Atomic!atomicVars, StatusOf

\* One daemon on its file does what AtomicStore says, whatever fails but a COMMIT that leaves its
\* transaction open: each request takes effect at one moment between question and answer, or
\* never, and one of those with the same key.
THEOREM RefinesAtomicStore ==
  ASSUME OneDaemon, "commit stays open" \notin Faults
  PROVE  SessionSpec => ImplementsAtomic
<1>1. OneInv /\ SessionNext => OneInv'
  BY OneNext
<1>2. OneInv /\ SessionNext => Atomic!Next \/ UNCHANGED Atomic!atomicVars
  BY StepRefines
<1> QED
  BY <1>1, <1>2, InitOne, OneStutter, InitRefines, StutterRefines, PTL
     DEF SessionSpec, ImplementsAtomic, Atomic!Spec

-----------------------------------------------------------------------------
(* Failures.                                                                 *)

\* Whatever fails, on any number of daemons: a write that was refused or failed before its
\* COMMIT got through is not committed by a later transaction, not even by one on a connection
\* that was left inside the failed one.
THEOREM FailedStaysFailed == SessionSpec => FailureIsFinal
<1>1. SessionInv /\ SessionNext =>
        (\A r \in Writes : outcome[r] = "error" /\ r \notin committed => r \notin committed')
  <2> DEFINE Final == \A r \in Writes : outcome[r] = "error" /\ r \notin committed => r \notin committed'
  <2> SUFFICES ASSUME SessionInv, SessionNext PROVE Final
    OBVIOUS
  <2>1. ASSUME NEW r \in Requests, Commit(r) PROVE Final
    <3>1. committed' = committed \cup {r} /\ outcome[r] = "none"
      BY <2>1 DEF SessionInv, At, Commit, InSession, Requests
    <3> QED
      BY <3>1
  <2>2. ASSUME committed' = committed PROVE Final
    BY <2>2
  <2>3. (\E r \in Requests : Commit(r)) \/ committed' = committed
    BY DEF SessionNext, Serve, Fault, Receive, Crash, Enter, EnterPoisoned, Read, Replay, Miss, Refuse, Begin,
           BeginFails, Execute, Busy, ReadBack, Resume, Forget, StatementFails, CommitFails, Panic, Drop, Abort
  <2> QED
    BY <2>1, <2>2, <2>3
<1>2. SessionInv /\ UNCHANGED sessionVars =>
        (\A r \in Writes : outcome[r] = "error" /\ r \notin committed => r \notin committed')
  BY DEF sessionVars
<1> QED
  BY <1>1, <1>2, SessionInvariant, PTL DEF SessionSpec, FailureIsFinal
=============================================================================
