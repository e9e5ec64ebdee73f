--------------------------- MODULE MCTwoChainBFT ---------------------------
(* Four validators of equal power, one of them Byzantine, and a tree in     *)
(* which every rule of the protocol is needed: a chain with consecutive     *)
(* rounds and two forks from genesis, in its second round and after it.     *)
EXTENDS TwoChainBFT, FiniteSets, TLC

CONSTANTS v1, v2, v3, v4, p1, p2, g, a1, a2, b2, b3

MCValidator == {v1, v2, v3, v4}
MCHonest == {v1, v2, v3}
MCQuorum == {Q \in SUBSET MCValidator : Cardinality(Q) >= 3}
MCBlock == {g, a1, a2, b2, b3}
MCround == g :> 0 @@ a1 :> 1 @@ a2 :> 2 @@ b2 :> 2 @@ b3 :> 3
MCparent == g :> g @@ a1 :> g @@ a2 :> a1 @@ b2 :> g @@ b3 :> g
MCReplica == {p1, p2}
MCRound == 1 .. 2

Symmetry == Permutations(MCHonest) \cup Permutations(MCReplica)
=============================================================================
