------------------------------ MODULE AtomicStore ------------------------------
(***************************************************************************)
(* What the callers of the store may rely on: between a request and its    *)
(* answer a write takes effect at one moment or not at all, a read sees    *)
(* what had taken effect at one moment, and of the requests that carry one *)
(* key a single one takes effect.  SqlSession implements this.             *)
(***************************************************************************)

CONSTANTS
  Reads, Writes,  \* the requests; each is made once
  Retries         \* the writes that carry the same idempotency key

VARIABLES
  status,  \* of each request: "new", "pending", "ok", "error" or "lost"
  done,    \* the writes that have taken effect
  saw      \* what each read has seen

atomicVars == <<status, done, saw>>

Requests == Reads \cup Writes

Init ==
  /\ status = [r \in Requests |-> "new"]
  /\ done = {}
  /\ saw = [r \in Requests |-> {}]

Invoke(r) ==
  /\ status[r] = "new" /\ status' = [status EXCEPT ![r] = "pending"]
  /\ UNCHANGED <<done, saw>>

TakeEffect(r) ==
  /\ r \in Writes \ done /\ status[r] = "pending"
  /\ r \in Retries => done \cap Retries = {}
  /\ done' = done \cup {r}
  /\ UNCHANGED <<status, saw>>

Observe(r) ==
  /\ r \in Reads /\ status[r] = "pending"
  /\ saw' = [saw EXCEPT ![r] = done]
  /\ UNCHANGED <<status, done>>

\* A retry is told of the write of another request with its key.
Answer(r, result) ==
  /\ status[r] = "pending"
  /\ result = "ok" /\ r \in Writes => r \in done \/ (r \in Retries /\ done \cap Retries # {})
  /\ status' = [status EXCEPT ![r] = result]
  /\ UNCHANGED <<done, saw>>

\* The caller or the daemon is gone: nobody hears what became of the request.
Lose(S) ==
  /\ \A r \in S : status[r] = "pending"
  /\ status' = [r \in Requests |-> IF r \in S THEN "lost" ELSE status[r]]
  /\ UNCHANGED <<done, saw>>

Next ==
  \/ \E r \in Requests :
       Invoke(r) \/ TakeEffect(r) \/ Observe(r) \/ \E result \in {"ok", "error"} : Answer(r, result)
  \/ \E S \in SUBSET Requests : Lose(S)

Spec == Init /\ [][Next]_atomicVars
=============================================================================
