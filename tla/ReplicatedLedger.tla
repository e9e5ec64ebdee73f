-------------------------- MODULE ReplicatedLedger --------------------------
(***************************************************************************)
(* What the consensus layer promises to the layers below it: the replicas  *)
(* extend one and the same chain of blocks.  A replica may lag behind, it  *)
(* never leaves the chain and never goes back on it.                       *)
(***************************************************************************)
EXTENDS TwoChainRules

CONSTANT Replica  \* the nodes that order blocks

VARIABLE ledger   \* ledger[p]: the last block of p's chain

LedgerInit == ledger = [p \in Replica |-> Genesis]

(* p appends the blocks up to b; whatever another replica has appended is  *)
(* on the same chain.                                                      *)
Append(p, b) ==
  /\ Extends(b, ledger[p])
  /\ \A q \in Replica : Extends(b, ledger[q]) \/ Extends(ledger[q], b)
  /\ ledger' = [ledger EXCEPT ![p] = b]

LedgerNext == \E p \in Replica, b \in Block : Append(p, b)

LedgerSpec == LedgerInit /\ [][LedgerNext]_ledger
=============================================================================
