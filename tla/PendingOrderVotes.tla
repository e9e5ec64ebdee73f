------------------------- MODULE PendingOrderVotes -------------------------
(***************************************************************************)
(* Order votes: a validator that sees a block certified broadcasts an      *)
(* order vote for it once, and a node that collects a quorum of them       *)
(* orders the block without waiting for the next one.  The node's          *)
(* PendingOrderVotes and the RoundManager handlers that fill, use and      *)
(* clear it are modelled on the verifier of the current epoch, with its    *)
(* stakes and its Byzantine validators.                                    *)
(*                                                                         *)
(* A ledger info stands for the block it orders.  Signatures are verified  *)
(* optimistically: only the aggregate is, and each one when that fails.    *)
(* Of the block store, which BlockStore models, only what the handlers ask *)
(* of it is kept: whether a block and its QC are there, and the highest    *)
(* ordered round.                                                          *)
(***************************************************************************)
EXTENDS ValidatorVerifier, FiniteSets

CONSTANTS LedgerInfo,
          RoundOf,     \* the round of each
          CommitRound, \* the round of the block the QC of its block commits
          Certified,   \* the ledger infos for whose block there is a QC
          Window       \* rounds ahead of the ordered one that are taken

ASSUME OrderAssumption ==
  /\ RoundOf \in [LedgerInfo -> Nat \ {0}]
  /\ CommitRound \in [LedgerInfo -> Nat]
  /\ \A li \in LedgerInfo : CommitRound[li] < RoundOf[li]
  /\ Certified \subseteq LedgerInfo
  /\ Window \in Nat

VARIABLES li_digest_to_votes,     \* an entry for each ledger info
          pessimistic_verify_set, \* whose signatures are checked at once
          block,                  \* absent, inserted or certified
          highest_ordered_round,
          heard   \* ghost: the honest authors of the votes taken

order_vars == <<verifier, li_digest_to_votes, pessimistic_verify_set, block,
                highest_ordered_round, heard>>

(* Whose signatures are held, and once there are enough votes the signers  *)
(* of the order certificate.  The QC is there when the entry is.           *)
Entry == [exists : BOOLEAN, valid : SUBSET Validator,
          invalid : SUBSET Validator, cert : SUBSET Validator]
NoEntry == [exists |-> FALSE, valid |-> {}, invalid |-> {}, cert |-> {}]

OrderTypeOK ==
  /\ VerifierTypeOK
  /\ li_digest_to_votes \in [LedgerInfo -> Entry]
  /\ pessimistic_verify_set \in SUBSET Validator
  /\ block \in [LedgerInfo -> {"absent", "inserted", "certified"}]
  /\ highest_ordered_round \in Nat
  /\ heard \in [LedgerInfo -> SUBSET Validator]

Larger(m, n) == IF m > n THEN m ELSE n

has_enough_order_votes(li) == li_digest_to_votes[li].cert # {}

in_range(li) ==
  /\ RoundOf[li] > highest_ordered_round
  /\ RoundOf[li] < highest_ordered_round + Window

----------------------------------------------------------------------------
(* Mutant: the signatures left are not counted again.                      *)
MutFilteredEnough(V, I) ==
  IF I = {} THEN {<<V, {}, V>>} ELSE {<<V, {}, V>>, <<V, I, V \cup I>>}

(* Mutant: a failed aggregate is given up, invalid signatures and all.     *)
MutNoFilter(V, I) ==
  IF I = {} THEN {<<V, {}, V>>} ELSE {<<V, I, {}>>}

(* aggregate_and_verify: the signatures kept, and the certificate's        *)
(* signers.  The aggregate verifies when every signature does, and may     *)
(* when two or more were made to cancel out; if it does not, the invalid   *)
(* ones are removed and the rest is counted again.                         *)
aggregate_and_verify(V, I) ==
  (IF Cardinality(I) = 1 THEN {} ELSE {<<V, I, V \cup I>>})
    \cup
  (IF I = {} THEN {}
   ELSE {<<V, {}, IF check_voting_power(V, TRUE) THEN V ELSE {}>>})

(* The signatures with that of a, which replaces an earlier one.           *)
Signed(S, a, member) == IF member THEN S \cup {a} ELSE S \ {a}

(* insert_order_vote, for an entry without enough votes.                   *)
insert_order_vote(e, a, good) ==
  LET V == Signed(e.valid, a, good)
      I == Signed(e.invalid, a, ~ good)
  IN  {[exists |-> TRUE, valid |-> r[1], invalid |-> r[2], cert |-> r[3]] :
         r \in IF check_voting_power(V \cup I, TRUE)
               THEN aggregate_and_verify(V, I) ELSE {<<V, I, {}>>}}

(* The entries above round h; all of them for h = 0.                       *)
garbage_collect(entries, h) ==
  [li \in LedgerInfo |-> IF RoundOf[li] > h THEN entries[li] ELSE NoEntry]

----------------------------------------------------------------------------
(* new_ordered_cert: with the block in the store its QC is inserted and    *)
(* the block is ordered, and process_certificates after either may start a *)
(* new round, which collects garbage.  Without the block it is an error,   *)
(* and the entry keeps its certificate.                                    *)
new_ordered_cert(li, entries) ==
  \/ /\ block[li] = "absent"
     /\ li_digest_to_votes' = entries
     /\ UNCHANGED <<block, highest_ordered_round>>
  \/ /\ block[li] # "absent"
     /\ block' = [block EXCEPT ![li] = "certified"]
     /\ highest_ordered_round' = Larger(highest_ordered_round, RoundOf[li])
     /\ \E h \in {0, Larger(highest_ordered_round, CommitRound[li]),
                  highest_ordered_round'} :
          li_digest_to_votes' = garbage_collect(entries, h)

(* Mutant: the QC is not verified.                                         *)
MutTrustQC(li, qc_verifies) == TRUE

(* Only the first order vote of a block needs its QC verified.             *)
qc_accepted(li, qc_verifies) == li_digest_to_votes[li].exists \/ qc_verifies

(* process_order_vote_msg, from author a of the validator set.  A message  *)
(* that fails one of the conditions is dropped.                            *)
process_order_vote_msg(a, li, good, qc_verifies) ==
  /\ a \notin byzantine => good /\ qc_verifies
  /\ qc_verifies => li \in Certified
  /\ a \in pessimistic_verify_set => good
  /\ ~ has_enough_order_votes(li)
  /\ in_range(li)
  /\ qc_accepted(li, qc_verifies)
  /\ \E e \in insert_order_vote(li_digest_to_votes[li], a, good) :
       LET entries == [li_digest_to_votes EXCEPT ![li] = e]
       IN  /\ pessimistic_verify_set' =
                pessimistic_verify_set \cup
                  (Signed(li_digest_to_votes[li].invalid, a, ~ good)
                     \ e.invalid)
           /\ \/ /\ e.cert = {}
                 /\ li_digest_to_votes' = entries
                 /\ UNCHANGED <<block, highest_ordered_round>>
              \/ /\ e.cert # {}
                 /\ new_ordered_cert(li, entries)
  /\ heard' = [heard EXCEPT ![li] = @ \cup ({a} \ byzantine)]
  /\ UNCHANGED verifier

----------------------------------------------------------------------------
(* The other handlers, as far as they concern the order votes.             *)

(* A proposal's block enters the store.                                    *)
insert_block(li) ==
  /\ block[li] = "absent"
  /\ block' = [block EXCEPT ![li] = "inserted"]
  /\ UNCHANGED <<verifier, li_digest_to_votes, pessimistic_verify_set,
                 highest_ordered_round, heard>>

(* A QC enters the store, with its block, and orders what it commits.      *)
insert_quorum_cert(li) ==
  /\ li \in Certified
  /\ block[li] # "certified"
  /\ RoundOf[li] >= highest_ordered_round
  /\ block' = [block EXCEPT ![li] = "certified"]
  /\ highest_ordered_round' = Larger(highest_ordered_round, CommitRound[li])
  /\ \E h \in {0, highest_ordered_round'} :
       li_digest_to_votes' = garbage_collect(li_digest_to_votes, h)
  /\ UNCHANGED <<verifier, pessimistic_verify_set, heard>>

(* A sync info brings the order certificate another node has formed.       *)
add_certs(li) ==
  /\ li \in Certified
  /\ RoundOf[li] > highest_ordered_round
  /\ block' = [block EXCEPT ![li] = "certified"]
  /\ highest_ordered_round' = RoundOf[li]
  /\ \E h \in {0, RoundOf[li]} :
       li_digest_to_votes' = garbage_collect(li_digest_to_votes, h)
  /\ UNCHANGED <<verifier, pessimistic_verify_set, heard>>

(* A round that starts for another reason, as a timeout certificate.       *)
process_new_round_event ==
  /\ li_digest_to_votes' =
       garbage_collect(li_digest_to_votes, highest_ordered_round)
  /\ UNCHANGED <<verifier, pessimistic_verify_set, block,
                 highest_ordered_round, heard>>

NoVotes == [li \in LedgerInfo |-> NoEntry]
NoBlocks == [li \in LedgerInfo |-> "absent"]
Nobody == [li \in LedgerInfo |-> {}]

(* A restart loses the votes and the order certificates made from them;    *)
(* what was ordered and not committed may have to be ordered again.        *)
restart ==
  /\ li_digest_to_votes' = NoVotes
  /\ pessimistic_verify_set' = {}
  /\ highest_ordered_round' \in
       {h \in {0} \cup {RoundOf[li] : li \in LedgerInfo} :
          h <= highest_ordered_round}
  /\ heard' = Nobody
  /\ UNCHANGED <<verifier, block>>

----------------------------------------------------------------------------
OrderInit ==
  /\ VerifierInit
  /\ li_digest_to_votes = NoVotes
  /\ pessimistic_verify_set = {}
  /\ block = NoBlocks
  /\ highest_ordered_round = 0
  /\ heard = Nobody

(* The epoch ends once its last block is ordered; the next one has its own *)
(* verifier and RoundManager.  What the old one holds then does not matter *)
(* for the next state, so one such state is enough.                        *)
start_new_epoch ==
  /\ \A li \in Certified : RoundOf[li] <= highest_ordered_round
  /\ li_digest_to_votes = NoVotes /\ heard = Nobody
  /\ NewEpoch
  /\ li_digest_to_votes' = NoVotes
  /\ pessimistic_verify_set' = {}
  /\ block' = NoBlocks
  /\ highest_ordered_round' = 0
  /\ heard' = Nobody

OrderNext ==
  \/ \E a \in Validator, li \in LedgerInfo, good, qc_verifies \in BOOLEAN :
       process_order_vote_msg(a, li, good, qc_verifies)
  \/ \E li \in LedgerInfo :
       insert_block(li) \/ insert_quorum_cert(li) \/ add_certs(li)
  \/ process_new_round_event
  \/ restart
  \/ start_new_epoch

OrderSpec == OrderInit /\ [][OrderNext]_order_vars

----------------------------------------------------------------------------
(* An order certificate is for a block that has a QC, although only the QC *)
(* that comes with the first order vote is verified.                       *)
EntriesCertified ==
  \A li \in LedgerInfo : li_digest_to_votes[li].exists => li \in Certified

(* Every order certificate has f+1 of voting power from honest validators  *)
(* whose own order votes arrived, however many signatures were invalid,    *)
(* replaced, or made to cancel out.                                        *)
CertsHonest ==
  \A li \in LedgerInfo :
    has_enough_order_votes(li) =>
      /\ check_voting_power(li_digest_to_votes[li].cert, TRUE)
      /\ check_voting_power(li_digest_to_votes[li].cert \cap heard[li], FALSE)

(* Order votes are sent once.  When a quorum of them was taken from honest *)
(* validators and the block is not ordered, the certificate is there:      *)
(* nothing a Byzantine validator signs, and no garbage collection, loses   *)
(* the votes of the others.                                                *)
HonestVotesCount ==
  \A li \in LedgerInfo :
    RoundOf[li] > highest_ordered_round /\ check_voting_power(heard[li], TRUE)
      => has_enough_order_votes(li)

=============================================================================
