---------------------------- MODULE WorkGraph_proofs ----------------------------
(***************************************************************************)
(* Proofs about the abstract work graph: nobody ever waits in a circle.    *)
(***************************************************************************)
EXTENDS WorkGraph, TLAPS

\* The relation is between items that exist, and does not close a circle.
GraphInv == items \subseteq Items /\ waits \subseteq items \X items /\ NoCircle

\* A new item waits for nothing and nothing waits for it, so a set that has it and others is
\* judged by the others.
LEMMA AddKeeps ==
  ASSUME GraphInv, Add
  PROVE  GraphInv'
<1>1. PICK n \in Items \ items : items' = items \cup {n} /\ UNCHANGED waits
  BY DEF Add
<1>2. ASSUME NEW S \in SUBSET items', S # {}
      PROVE  \E i \in S : \A m \in S : <<m, i>> \notin waits
  <2>1. CASE S = {n}
    BY <1>1, <2>1 DEF GraphInv
  <2>2. CASE S # {n}
    <3>1. PICK i \in S \ {n} : \A m \in S \ {n} : <<m, i>> \notin waits
      BY <1>1, <1>2, <2>2 DEF GraphInv, NoCircle
    <3> QED
      BY <1>1, <3>1 DEF GraphInv
  <2> QED
    BY <2>1, <2>2
<1> QED
  BY <1>1, <1>2 DEF GraphInv, NoCircle

\* Fewer items and fewer edges close no circle.
LEMMA DropKeeps ==
  ASSUME GraphInv, Drop
  PROVE  GraphInv'
<1>1. PICK S \in SUBSET items :
        items' = items \ S /\ waits' = {e \in waits : e[1] \notin S /\ e[2] \notin S}
  BY DEF Drop
<1>2. waits' \subseteq items' \X items'
  BY <1>1 DEF GraphInv
<1>3. NoCircle'
  BY <1>1 DEF GraphInv, NoCircle
<1> QED
  BY <1>1, <1>2, <1>3 DEF GraphInv

\* The new edge leads from outside a closed set C into it. A set of items that has members
\* outside C has one there that no member blocks: not one outside, by the invariant, not one
\* in C, as C is closed. A set within C does not have the edge's source.
LEMMA LinkKeeps ==
  ASSUME GraphInv, Link
  PROVE  GraphInv'
<1>1. PICK a \in items, b \in items :
        Independent(a, b) /\ waits' = waits \cup {<<a, b>>} /\ UNCHANGED items
  BY DEF Link
<1>2. PICK C \in SUBSET Items :
        b \in C /\ a \notin C /\ \A e \in waits : e[1] \in C => e[2] \in C
  BY <1>1 DEF Independent
<1>3. ASSUME NEW S \in SUBSET items, S # {}
      PROVE  \E i \in S : \A m \in S : <<m, i>> \notin waits'
  <2>1. CASE S \subseteq C
    BY <1>1, <1>2, <1>3, <2>1 DEF GraphInv, NoCircle
  <2>2. CASE S \ C # {}
    <3>1. PICK i \in S \ C : \A m \in S \ C : <<m, i>> \notin waits
      BY <1>3, <2>2 DEF GraphInv, NoCircle
    <3>2. ASSUME NEW m \in S PROVE <<m, i>> \notin waits
      BY <1>2, <3>1
    <3> QED
      BY <1>1, <1>2, <3>1, <3>2
  <2> QED
    BY <2>1, <2>2
<1> QED
  BY <1>1, <1>3 DEF GraphInv, NoCircle

\* Nor do fewer edges.
LEMMA UnlinkKeeps ==
  ASSUME GraphInv, Unlink
  PROVE  GraphInv'
  BY DEF GraphInv, Unlink, NoCircle

\* Whatever is added, dropped, linked and unlinked, no set of items waits on itself: this is
\* what dependencies_no_cycle is for.
THEOREM NeverCircular == Spec => []GraphInv
<1>1. Init => GraphInv
  BY DEF Init, GraphInv
<1>2. ASSUME GraphInv, [Next]_workVars PROVE GraphInv'
  <2>1. CASE UNCHANGED workVars
    BY <1>2, <2>1 DEF GraphInv, NoCircle, workVars
  <2> QED
    BY <1>2, <2>1, AddKeeps, DropKeeps, LinkKeeps, UnlinkKeeps DEF Next
<1> QED
  BY <1>1, <1>2, PTL DEF Spec
=============================================================================
