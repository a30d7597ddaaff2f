------------------------------ MODULE SessionMC ------------------------------
(* SqlSession on small instances: one daemon, and two that share a file. *)
EXTENDS SqlSession, TLC

CONSTANTS r1, w1, w2, w3, d1, d2

OneReads == {r1}
TwoWrites == {w1, w2}
ThreeWrites == {w1, w2, w3}
BothRetries == {w1, w2}
AllToOne == [r \in {r1, w1, w2} |-> d1]
OneEach == (r1 :> d1) @@ (w1 :> d1) @@ (w2 :> d2) @@ (w3 :> d2)
=============================================================================
