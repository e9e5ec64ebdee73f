--------------------------- MODULE TwoChainRules ---------------------------
(***************************************************************************)
(* The voting rules of the 2-chain protocol as operators on SafetyData,    *)
(* the record a validator persists.  The rules are those of                *)
(* consensus/safety-rules; the modules SafetyRules (one validator with its *)
(* storage) and TwoChainBFT (all validators of an epoch) are built on them.*)
(*                                                                         *)
(* A block's id is the hash of its data, its quorum certificate included,  *)
(* so the id fixes the parent, and all the blocks that can ever be         *)
(* proposed form a tree.  The tree is a constant: parent[b] is             *)
(* b.quorum_cert().certified_block().  Genesis has the implicitly agreed   *)
(* certificate whose parent block is genesis itself.                       *)
(***************************************************************************)
EXTENDS Integers

CONSTANTS Block,    \* the ids of all blocks that may be proposed in an epoch
          Genesis,  \* the block every validator starts the epoch from
          round,    \* round[b]: the round of block b
          parent,   \* parent[b]: the block certified by b's quorum certificate
          None      \* the absence of an optional value

ASSUME BlockAssumption ==
  /\ Genesis \in Block
  /\ None \notin Block
  /\ round \in [Block -> Nat]
  /\ parent \in [Block -> Block]

(* Block::verify_well_formed, the part that concerns rounds; QuorumCert::  *)
(* verify accepts only genesis for a certified block of round 0.           *)
ASSUME WellFormedAssumption ==
  /\ round[Genesis] = 0
  /\ parent[Genesis] = Genesis
  /\ \A b \in Block \ {Genesis} : round[parent[b]] < round[b]

(* What a validator must remember to vote safely.                          *)
SafetyData ==
  [epoch : Nat,
   last_voted_round : Nat,
   preferred_round : Nat,
   one_chain_round : Nat,
   last_vote : Block \cup {None},
   highest_timeout_round : Nat]

(* SafetyData::new(epoch, 0, 0, 0, None, 0)                                *)
new_safety_data(e) ==
  [epoch |-> e,
   last_voted_round |-> 0,
   preferred_round |-> 0,
   one_chain_round |-> 0,
   last_vote |-> None,
   highest_timeout_round |-> 0]

Higher(r1, r2) == IF r1 > r2 THEN r1 ELSE r2

(* A 2-chain timeout certificate is read as its round and the round of its *)
(* highest QC; a missing one is read as 0 and 0.                           *)
NoTC == [round |-> 0, hqc_round |-> 0]

----------------------------------------------------------------------------
(* A quorum certificate for block b is observed.                           *)
observe_qc(sd, b) ==
  [sd EXCEPT !.one_chain_round = Higher(round[b], @),
             !.preferred_round = Higher(round[parent[b]], @)]

(* A proposal for the round of the last vote is answered with that vote.   *)
already_voted(sd, r) == sd.last_vote # None /\ round[sd.last_vote] = r

(* First voting rule: never vote twice in a round, nor backwards.          *)
verify_last_vote_round(sd, r) == r > sd.last_voted_round

(* Mutant: the block's certificate is not compared with the TC's.          *)
MutVoteAfterAnyTC(b, tc) ==
  \/ round[b] = round[parent[b]] + 1
  \/ round[b] = tc.round + 1

(* Second voting rule, for blocks.                                         *)
safe_to_vote(b, tc) ==
  \/ round[b] = round[parent[b]] + 1
  \/ round[b] = tc.round + 1 /\ round[parent[b]] >= tc.hqc_round

(* Mutant: the timeout may carry a certificate older than one already seen.*)
MutTimeoutWithOldQC(sd, r, hqc, tc) == r = hqc + 1 \/ r = tc.round + 1

(* Timeout rule; hqc is the round of the certificate the timeout carries.  *)
safe_to_timeout(sd, r, hqc, tc) ==
  /\ r = hqc + 1 \/ r = tc.round + 1
  /\ hqc >= sd.one_chain_round

(* Mutant: an order vote does not look at the rounds timed out of.         *)
MutOrderVoteAfterTimeout(sd, b) == round[b] >= sd.preferred_round

(* Order votes are refused for rounds the validator has given up on.       *)
safe_for_order_vote(sd, b) == round[b] > sd.highest_timeout_round

----------------------------------------------------------------------------
(* Mutant: the vote is signed and its round is not recorded.               *)
MutForgetVote(sd, b) == observe_qc(sd, parent[b])

(* The record each signing operation persists.                             *)
voted_data(sd, b) ==
  [observe_qc(sd, parent[b]) EXCEPT !.last_voted_round = round[b],
                                    !.last_vote = b]

timed_out_data(sd, r) ==
  [sd EXCEPT !.last_voted_round = Higher(r, @),
             !.highest_timeout_round = Higher(r, @)]

order_voted_data(sd, b) == observe_qc(sd, b)

(* construct_ledger_info_2chain: the block a certificate for b commits.    *)
commit_info(b) ==
  IF round[b] = round[parent[b]] + 1 THEN parent[b] ELSE None

----------------------------------------------------------------------------
(* Extends(c, b): c is b or a descendant of b, what path_from_root_to_block*)
(* decides by walking parent links.  The descendants of b are the least    *)
(* set that contains b and, with a block, its children.                    *)
ClosedUnderChildren(S) ==
  \A c \in Block \ {Genesis} : parent[c] \in S => c \in S

Descendants ==
  [b \in Block |->
     {c \in Block : \A S \in SUBSET Block :
                      b \in S /\ ClosedUnderChildren(S) => c \in S}]

Extends(c, b) == c \in Descendants[b]
=============================================================================
