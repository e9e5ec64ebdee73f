--------------------------- MODULE MCRoundManager ---------------------------
(***************************************************************************)
(* Four validators of unequal voting power; v4 is silent throughout.  A    *)
(* quorum needs v1 with v2 or v3, f+1 is reached by v1 or by v2 and v3.    *)
(* The first scenario has two validators of which one may restart.  In the *)
(* second three have timed out of round 1 while the votes for its block    *)
(* are still on the way; v1 and v2 have the TC already, v3 may still form  *)
(* the QC, so that the QCs they report differ, and v1 may restart.  There  *)
(* are no proposals after the first.                                       *)
(***************************************************************************)
EXTENDS RoundManager, Sequences, TLC

CONSTANTS v1, v2, v3, v4

MCBlock == {<<>>, <<1>>, <<2>>, <<1, 2>>}
MCround == [b \in MCBlock |-> IF b = <<>> THEN 0 ELSE b[Len(b)]]
MCparent == [b \in MCBlock |-> IF b = <<>> THEN b ELSE SubSeq(b, 1, Len(b) - 1)]
MCGenesis == <<>>

MCScenario ==
  {[running |-> {v1, v2}, proposer |-> <<v1, v2, v1>>, timed_out |-> {}, ahead |-> {},
    last_round |-> 3, restarting |-> {v1, v2}, restarts |-> 1],
   [running |-> {v1, v2, v3}, proposer |-> <<v1, v4, v4>>,
    timed_out |-> {v1, v2, v3}, ahead |-> {v1, v2},
    last_round |-> 3, restarting |-> {v1}, restarts |-> 1]}
=============================================================================
