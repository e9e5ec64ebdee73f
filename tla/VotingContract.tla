--------------------------- MODULE VotingContract ---------------------------
(***************************************************************************)
(* What a validator promises to the others, stated on the signatures it    *)
(* has released and on nothing else: no storage, no cache, no restarts.    *)
(* Agreement (module TwoChainBFT) needs of an honest validator only this.  *)
(***************************************************************************)
EXTENDS Integers

CONSTANTS Epoch, Round, Block, round, parent

VARIABLES votes,       \* <<e, b>>: a vote for b in epoch e was released
          timeouts,    \* <<e, r, h>>: a timeout of round r with a QC of round h
          order_votes  \* <<e, b>>: an order vote for b was released

released == <<votes, timeouts, order_votes>>

ContractInit == votes = {} /\ timeouts = {} /\ order_votes = {}

(* Nothing released belongs to an epoch after e.                           *)
NoLaterEpoch(e) ==
  /\ \A v \in votes : v[1] <= e
  /\ \A t \in timeouts : t[1] <= e
  /\ \A v \in order_votes : v[1] <= e

(* Votes only move up, one block per round, and no timeout at or above the *)
(* round has hidden the certificate the block carries.                     *)
ReleaseVote(e, b) ==
  /\ NoLaterEpoch(e)
  /\ \A v \in votes : v[1] = e => v[2] = b \/ round[v[2]] < round[b]
  /\ \A t \in timeouts :
       t[1] = e /\ t[2] >= round[b] => t[3] >= round[parent[b]]
  /\ votes' = votes \cup {<<e, b>>}
  /\ UNCHANGED <<timeouts, order_votes>>

(* A timeout is not below a vote, does not go back, and reports a          *)
(* certificate at least as high as any the signer has acted on.            *)
ReleaseTimeout(e, r, h) ==
  /\ NoLaterEpoch(e)
  /\ \A v \in votes :
       v[1] = e => round[v[2]] <= r /\ round[parent[v[2]]] <= h
  /\ \A v \in order_votes : v[1] = e => round[v[2]] <= h
  /\ \A t \in timeouts : t[1] = e => t[2] <= r
  /\ timeouts' = timeouts \cup {<<e, r, h>>}
  /\ UNCHANGED <<votes, order_votes>>

(* An order vote is for a round the signer has not given up on.            *)
ReleaseOrderVote(e, b) ==
  /\ NoLaterEpoch(e)
  /\ \A t \in timeouts : t[1] = e => t[2] < round[b]
  /\ order_votes' = order_votes \cup {<<e, b>>}
  /\ UNCHANGED <<votes, timeouts>>

ContractNext ==
  \/ \E e \in Epoch, b \in Block : ReleaseVote(e, b)
  \/ \E e \in Epoch, r \in Round, c \in Block :
       ReleaseTimeout(e, r, round[c])
  \/ \E e \in Epoch, b \in Block : ReleaseOrderVote(e, b)

ContractSpec == ContractInit /\ [][ContractNext]_released
=============================================================================
