-------------------------------- MODULE StoreMC --------------------------------
(***************************************************************************)
(* The store for TLC from an empty database, with every request, with and  *)
(* without a key, and what callers are told.                               *)
(***************************************************************************)
EXTENDS FlowErrors, FlowProperties, TLC

\* Ids are alike: nothing in the code orders or compares them.
Alike == {f @@ g : f \in Permutations(NodeIds), g \in Permutations(ProjectIds)}

\* What happens next depends on the tables; the latest request and its reply do not.
StoreView == <<tables, now>>
=============================================================================
