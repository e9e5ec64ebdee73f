---------------------------- MODULE MCRoundState ----------------------------
(* Round 1 has competing blocks x and y, round 2 has none: only timeouts.  *)
(* v1, v2 and v3 vote for x, v1 and v2 also with a timeout; the Byzantine  *)
(* v4 signs either block, and badly if it likes.                           *)
EXTENDS RoundState, FiniteSets, TLC

CONSTANTS v1, v2, v3, v4, x, y

MCValidator == {v1, v2, v3, v4}
MCHonest == {v1, v2, v3}
MCQuorum == {S \in SUBSET MCValidator : Cardinality(S) >= 3}
MCMinority == {S \in SUBSET MCValidator : Cardinality(S) >= 2}
MCround == x :> 1 @@ y :> 1

Vote(A, B, V, T) ==
  [author : A, block : B, valid : V, timeout : T]
MCVotes ==
  Vote({v1, v2}, {x}, {TRUE}, {None, 0}) \cup
  Vote({v3}, {x}, {TRUE}, {None}) \cup
  Vote({v4}, {x, y}, BOOLEAN, {None, 0})

(* Timeouts with QCs of different rounds: one per round of an honest       *)
(* validator, and two of v4 in round 2.                                    *)
MCTimeouts ==
  [author : {v3, v4}, round : {1}, hqc_round : {0}] \cup
  [author : {v4}, round : {2}, hqc_round : {0, 1}] \cup
  {[author |-> v1, round |-> 2, hqc_round |-> 0],
   [author |-> v2, round |-> 2, hqc_round |-> 1],
   [author |-> v3, round |-> 2, hqc_round |-> 0]}

(* v1 has restarted in round 2 with a newer QC than it had before.         *)
RestartTimeouts ==
  {[author |-> v1, round |-> 2, hqc_round |-> 0],
   [author |-> v1, round |-> 2, hqc_round |-> 1],
   [author |-> v2, round |-> 2, hqc_round |-> 0],
   [author |-> v3, round |-> 2, hqc_round |-> 0]}
=============================================================================
