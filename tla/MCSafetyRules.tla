--------------------------- MODULE MCSafetyRules ---------------------------
(* Two epochs with different keys and a tree that forks at every round.    *)
EXTENDS SafetyRules, TLC

CONSTANTS g, a1, a2, b2, k1, k2

MCBlock == {g, a1, a2, b2}
MCround == g :> 0 @@ a1 :> 1 @@ a2 :> 2 @@ b2 :> 2
MCparent == g :> g @@ a1 :> g @@ a2 :> a1 @@ b2 :> g
MCEpoch == 1 .. 2
MCRound == 1 .. 2
MCKey == {k1, k2}
MCexpected_key == 1 :> k1 @@ 2 :> k2
=============================================================================
