------------------------------- MODULE ClientsMC -------------------------------
(***************************************************************************)
(* The store from the dev fixture with one client of interest and others   *)
(* that write: an agent that retries, a user who undoes, an agent that     *)
(* polls or one that pages.  Which client it is is chosen at the start.    *)
(***************************************************************************)
EXTENDS AgentRetry, FlowUndo, Readers

VARIABLE client

ownVars == <<agentVars, prior, readerVars>>
clientsVars == <<vars, ownVars, client>>

ClientsInit ==
  /\ client \in {"retries", "undoes", "polls", "pages"}
  /\ AgentInit /\ UndoInit /\ ReaderInit
  /\ client # "retries" => write = "create"

ClientsNext ==
  /\ \/ client = "retries" /\ AgentNext /\ UNCHANGED <<prior, readerVars>>
     \/ client = "undoes" /\ UndoRequest /\ UNCHANGED <<agentVars, readerVars>>
     \/ client = "polls" /\ PollNext /\ UNCHANGED <<agentVars, prior>>
     \/ client = "pages" /\ PageNext /\ UNCHANGED <<agentVars, prior>>
  /\ UNCHANGED client

ClientsSpec == ClientsInit /\ [][ClientsNext]_clientsVars

\* The latest reply is nothing a client acts on later; when the picture last changed matters
\* to the one that polls.
ClientsView ==
  <<View, agentVars, prior, pollVars, pageVars, client, IF client = "polls" THEN changed ELSE 0>>
=============================================================================
