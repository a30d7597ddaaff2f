------------------------------ MODULE FlowClaims ------------------------------
(***************************************************************************)
(* What a comment of the schema says of the store, and what the store does *)
(* not do: a run of its own finds it violated.                             *)
(***************************************************************************)
EXTENDS SeedMC

\* "if a row exists the request is a retry and the store returns the recorded seq instead of
\* writing again" (0001_initial_schema.sql:306). The node is looked for first, so the retry of
\* a delete is answered "node not found".
RetryIsAnswered ==
  [][\A n \in NodeIds \ Live, k \in Keys :
       (\E s \in DOMAIN events : events[s].kind = "NODE_DELETED" /\ events[s].payload # NoPayload
          /\ events[s].payload.image # NoImage /\ events[s].payload.image.id = n
          /\ <<events[s].project, k>> \in DOMAIN idem
          /\ idem[<<events[s].project, k>>].seq = s)
       => ~(DeleteNode(n, FALSE, k) /\ ~reply'.ok)]_vars
=============================================================================
