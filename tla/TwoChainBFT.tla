---------------------------- MODULE TwoChainBFT ----------------------------
(***************************************************************************)
(* LumioBFT within one epoch: every honest validator runs SafetyRules and  *)
(* orders blocks with its BlockStore; Byzantine validators sign anything.  *)
(*                                                                         *)
(* A signature, once made, can be replayed, delayed or dropped by the      *)
(* network, so the state keeps the sets of all signatures of honest        *)
(* validators and a certificate exists as soon as a quorum of signatures   *)
(* can be put together.  Certificates are verified, by SafetyRules itself  *)
(* or (skip_sig_verify) by the RoundManager when a message arrives.  Other *)
(* than that SafetyRules does not rely on its caller: the model lets it be *)
(* asked to sign for any block, round and certificate, in any order.       *)
(***************************************************************************)
EXTENDS TwoChainRules

CONSTANTS Validator,  \* the validator set of the epoch
          Honest,     \* the validators that run this code
          Quorum,     \* sets whose voting power reaches quorum_voting_power
          Round,      \* the rounds a timeout may be signed for
          Replica     \* the nodes that keep a BlockStore: validators, observers

(* ValidatorVerifier requires more than two thirds of the voting power;    *)
(* with less than a third of it Byzantine, two quorums share an honest     *)
(* validator.                                                              *)
ASSUME QuorumAssumption ==
  /\ Honest \subseteq Validator
  /\ Quorum \subseteq SUBSET Validator
  /\ \A Q1, Q2 \in Quorum : Q1 \cap Q2 \cap Honest # {}

ASSUME RoundAssumption == Round \subseteq Nat

VARIABLES safety_data,   \* safety_data[n]: what n has persisted
          votes,         \* <<n, b>>: n signed a vote for b
          timeouts,      \* <<n, r, h>>: n signed a timeout of r with QC of h
          order_votes,   \* <<n, b>>: n signed an order vote for b
          ordered_root   \* ordered_root[p]: the last block p has ordered

vars == <<safety_data, votes, timeouts, order_votes, ordered_root>>

TypeOK ==
  /\ safety_data \in [Honest -> SafetyData]
  /\ votes \subseteq Honest \X Block
  /\ timeouts \subseteq Honest \X Nat \X Nat
  /\ order_votes \subseteq Honest \X Block
  /\ ordered_root \in [Replica -> Block]

----------------------------------------------------------------------------
(* A Byzantine validator's signature on anything is always available.      *)
Voted(n, b)      == n \in Honest => <<n, b>> \in votes
OrderVoted(n, b) == n \in Honest => <<n, b>> \in order_votes
TimedOut(n, r, h) == n \in Honest => <<n, r, h>> \in timeouts

(* QuorumCert::verify succeeds for some certificate of b.                  *)
Certified(b) ==
  \/ b = Genesis
  \/ \E Q \in Quorum : \A n \in Q : Voted(n, b)

(* The ledger info signed by order votes for b has a quorum.               *)
OrderCertified(b) == \E Q \in Quorum : \A n \in Q : OrderVoted(n, b)

(* TwoChainTimeoutCertificate::verify succeeds: a quorum timed out of the  *)
(* round, and the certificate it carries is the highest one any of them    *)
(* signed.                                                                 *)
ValidTC(tc) ==
  /\ tc.hqc_round < tc.round
  /\ \E b \in Block : Certified(b) /\ round[b] = tc.hqc_round
  /\ \E Q \in Quorum :
       /\ \A n \in Q : \E h \in 0 .. tc.hqc_round : TimedOut(n, tc.round, h)
       /\ \E n \in Q : TimedOut(n, tc.round, tc.hqc_round)

TCs == {tc \in [round : Round, hqc_round : {round[b] : b \in Block}] :
          ValidTC(tc)}

(* A certificate that finalizes b: a QC on a child in the next round whose *)
(* ledger info commits b, or an order certificate for b itself.            *)
Committed(b) ==
  \/ \E c \in Block \ {Genesis} : commit_info(c) = b /\ Certified(c)
  \/ OrderCertified(b)

----------------------------------------------------------------------------
Init ==
  /\ safety_data = [n \in Honest |-> new_safety_data(1)]
  /\ votes = {}
  /\ timeouts = {}
  /\ order_votes = {}
  /\ ordered_root = [p \in Replica |-> Genesis]

(* construct_and_sign_vote_two_chain.  A proposal for the round of the     *)
(* last vote gets that vote back and changes nothing.                      *)
SignVote(n, b) ==
  /\ b # Genesis
  /\ ~ already_voted(safety_data[n], round[b])
  /\ verify_last_vote_round(safety_data[n], round[b])
  /\ Certified(parent[b])
  /\ \E tc \in TCs \cup {NoTC} : safe_to_vote(b, tc)
  /\ safety_data' = [safety_data EXCEPT ![n] = voted_data(@, b)]
  /\ votes' = votes \cup {<<n, b>>}
  /\ UNCHANGED <<timeouts, order_votes, ordered_root>>

(* sign_timeout_with_qc for round r with a certificate of block b.         *)
SignTimeout(n, r, b) ==
  /\ round[b] < r
  /\ r >= safety_data[n].last_voted_round
  /\ Certified(b)
  /\ \E tc \in TCs \cup {NoTC} :
       safe_to_timeout(safety_data[n], r, round[b], tc)
  /\ safety_data' = [safety_data EXCEPT ![n] = timed_out_data(@, r)]
  /\ timeouts' = timeouts \cup {<<n, r, round[b]>>}
  /\ UNCHANGED <<votes, order_votes, ordered_root>>

(* construct_and_sign_order_vote for b with its quorum certificate.        *)
SignOrderVote(n, b) ==
  /\ safe_for_order_vote(safety_data[n], b)
  /\ Certified(b)
  /\ safety_data' = [safety_data EXCEPT ![n] = order_voted_data(@, b)]
  /\ order_votes' = order_votes \cup {<<n, b>>}
  /\ UNCHANGED <<votes, timeouts, ordered_root>>

(* BlockStore::send_for_execution with a finality proof for b.             *)
Order(p, b) ==
  /\ round[b] > round[ordered_root[p]]
  /\ Committed(b)
  /\ ordered_root' = [ordered_root EXCEPT ![p] = b]
  /\ UNCHANGED <<safety_data, votes, timeouts, order_votes>>

Next ==
  \/ \E n \in Honest, b \in Block : SignVote(n, b)
  \/ \E n \in Honest, r \in Round, b \in Block : SignTimeout(n, r, b)
  \/ \E n \in Honest, b \in Block : SignOrderVote(n, b)
  \/ \E p \in Replica, b \in Block : Order(p, b)

Spec == Init /\ [][Next]_vars

----------------------------------------------------------------------------
(* The inductive invariant.  What a validator persists covers what it has  *)
(* signed.                                                                 *)
VotesRemembered ==
  \A n \in Honest, b \in Block :
    <<n, b>> \in votes => /\ safety_data[n].last_voted_round >= round[b]
                         /\ safety_data[n].one_chain_round >= round[parent[b]]

TimeoutsRemembered ==
  \A n \in Honest, r, h \in Nat :
    <<n, r, h>> \in timeouts => /\ safety_data[n].last_voted_round >= r
                               /\ safety_data[n].highest_timeout_round >= r

OrderVotesRemembered ==
  \A n \in Honest, b \in Block :
    <<n, b>> \in order_votes => safety_data[n].one_chain_round >= round[b]

OneVotePerRound ==
  \A n \in Honest, b, c \in Block :
    <<n, b>> \in votes /\ <<n, c>> \in votes /\ round[b] = round[c] => b = c

(* A timeout of a round not below a vote or an order vote was signed after *)
(* it, and reports a certificate at least as high.                         *)
TimeoutsReportVotes ==
  \A n \in Honest, b \in Block, r, h \in Nat :
    <<n, b>> \in votes /\ <<n, r, h>> \in timeouts /\ r >= round[b]
      => h >= round[parent[b]]

TimeoutsReportOrderVotes ==
  \A n \in Honest, b \in Block, r, h \in Nat :
    <<n, b>> \in order_votes /\ <<n, r, h>> \in timeouts /\ r >= round[b]
      => h >= round[b]

(* The certificates that justified a signature exist.                      *)
VotesJustified ==
  \A n \in Honest, b \in Block :
    <<n, b>> \in votes => /\ b # Genesis
                         /\ Certified(parent[b])
                         /\ \E tc \in TCs \cup {NoTC} : safe_to_vote(b, tc)

OrderVotesJustified ==
  \A n \in Honest, b \in Block : <<n, b>> \in order_votes => Certified(b)

RootsCommitted ==
  \A p \in Replica, b \in Block :
    ordered_root[p] = b => b = Genesis \/ Committed(b)

(* Everything the agreement argument rests on: the persisted record covers *)
(* every signature, no validator votes twice in a round, no timeout hides  *)
(* a certificate its signer had voted on, and every signature was          *)
(* justified by certificates that exist.                                   *)
SafetyInv ==
  /\ TypeOK
  /\ VotesRemembered
  /\ TimeoutsRemembered
  /\ OrderVotesRemembered
  /\ OneVotePerRound
  /\ TimeoutsReportVotes
  /\ TimeoutsReportOrderVotes
  /\ VotesJustified
  /\ OrderVotesJustified
  /\ RootsCommitted

----------------------------------------------------------------------------
(* One certificate per round: BlockTree::insert_quorum_cert states as its  *)
(* precondition that two quorum certificates of one round are the same.    *)
OneQCPerRound ==
  LET Certs == {b \in Block : Certified(b)}
  IN  \A b, c \in Certs : round[b] = round[c] => b = c

(* Agreement: no two finality proofs, of either kind and whoever holds     *)
(* them, are for conflicting blocks.                                       *)
Agreement ==
  LET Final == {b \in Block : Committed(b)}
  IN  \A b, c \in Final : Extends(b, c) \/ Extends(c, b)

(* The assertion in send_for_execution never fires: whenever a finality    *)
(* proof is newer than the ordered root, the block is on a path from it,   *)
(* so the list of blocks to order is not empty.                            *)
OrderAssertion ==
  LET Final == {b \in Block : Committed(b)}
  IN  \A p \in Replica, b \in Final :
        round[b] > round[ordered_root[p]] => Extends(b, ordered_root[p])

(* The ordered roots of the replicas implement one replicated ledger: a    *)
(* finality proof only ever moves a replica forward on the chain that      *)
(* every other replica is on.                                              *)
Ledger == INSTANCE ReplicatedLedger WITH ledger <- ordered_root
OneLedger == Ledger!LedgerSpec
=============================================================================
