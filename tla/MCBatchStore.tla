---------------------------- MODULE MCBatchStore ----------------------------
(* Two batches of one author, who has not the quota for both; only the     *)
(* small one fits in memory.                                               *)
EXTENDS BatchStore, FiniteSetsExt, TLC

CONSTANTS d1, d2, a1, t1, t2

MCDigest == {d1, d2}
MCPeer == {a1}
MCTask == {t1, t2}
MCAuthor == [d \in MCDigest |-> a1]
MCSize == [d \in MCDigest |-> IF d = d1 THEN 1 ELSE 2]
MCBytes == [S \in SUBSET Slot |-> MapThenSumSet(LAMBDA x : Size[x[2]], S)]
MCSymmetry == Permutations(MCTask)
=============================================================================
