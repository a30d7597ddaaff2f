------------------------------ MODULE ConcernsMC ------------------------------
(***************************************************************************)
(* The store from the dev fixture, with the requests of one concern at a   *)
(* time, so that TLC reaches the long sequences that the full request set  *)
(* (module StoreMC) has no room for.  Which concern it is is chosen at the *)
(* start.                                                                  *)
(***************************************************************************)
EXTENDS SeedMC

VARIABLE concern

concernVars == <<vars, concern>>

ConcernInit == SeedInit /\ concern \in {"graph", "review"}

\* The requests that change the graph, without keys.
GraphRequest ==
  /\ \/ \E p \in DOMAIN projects, parent \in Live \cup {NoNode}, kind \in Kinds :
          CreateNode(p, parent, kind, NoKey)
     \/ \E p \in DOMAIN projects, seq \in DOMAIN events : Undo(p, seq, NoKey)
     \/ \E n \in Live :
          \/ \E flag \in BOOLEAN : DeleteNode(n, flag, NoKey)
          \/ \E status \in {"OPEN", "DONE"} : SetStatus(n, status, NoKey)
          \/ \E parent \in Live \cup {NoNode}, kind \in {"TASK", "STEP"} :
               MoveNode(n, parent, kind, NoKey)
          \/ \E m \in Live : AddDependency(n, m, NoKey) \/ RemoveDependency(n, m, NoKey)
  /\ UNCHANGED now

\* The requests on the two fixture tasks that write a row, a report or a verdict, with a
\* clock that runs.
ReviewRequest ==
  /\ \E n \in {Task1, Task2} :
       \/ \E result \in AgentResults : ReportCondition(n, result, NoKey)
       \/ \E verdict \in Verdicts \cup {"UNSPECIFIED"} : SetVerdict(n, verdict, NoKey)
       \/ SetStatus(n, "DONE", NoKey)
       \/ UpdateNode(n, "text", NoKey)
       \/ MoveNode(n, Task1, "STEP", NoKey)
       \/ Undo(Travel, 0, NoKey)
  /\ UNCHANGED now

ConcernNext ==
  /\ \/ concern = "graph" /\ GraphRequest
     \/ concern = "review" /\ (ReviewRequest \/ Tick)
  /\ UNCHANGED concern

ConcernSpec == ConcernInit /\ [][ConcernNext]_concernVars

ConcernView == <<View, concern>>
=============================================================================
