------------------------ MODULE MCPendingOrderVotes ------------------------
(* Every distribution of stakes up to MaxPower.  Blocks a1 and a2 of       *)
(* rounds 1 and 2 are certified, b1 of round 1 is not.                     *)
EXTENDS PendingOrderVotes, FiniteSetsExt, TLC

CONSTANTS v1, v2, v3, v4, a1, b1, a2, MaxPower

MCValidator == {v1, v2, v3, v4}
MCWeights ==
  {[S \in SUBSET MCValidator |-> MapThenSumSet(LAMBDA v : p[v], S)] :
     p \in [MCValidator -> 0 .. MaxPower]}
MCSymmetry == Permutations(MCValidator)

(* Votes are explored with equal stakes, and with those of two large and   *)
(* two small validators, which can both be Byzantine; all distributions    *)
(* are initial states.                                                     *)
WithPower(k) == {v \in MCValidator : weight[{v}] = k}
MCVoting ==
  \/ WithPower(1) = MCValidator
  \/ Cardinality(WithPower(1)) = 2 /\ Cardinality(WithPower(3)) = 2

MCLedgerInfo == {a1, b1, a2}
MCRoundOf == a1 :> 1 @@ b1 :> 1 @@ a2 :> 2
MCCommitRound == a1 :> 0 @@ b1 :> 0 @@ a2 :> 1
=============================================================================
