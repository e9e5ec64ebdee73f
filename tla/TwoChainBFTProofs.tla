------------------------- MODULE TwoChainBFTProofs -------------------------
(***************************************************************************)
(* Agreement of the 2-chain protocol with order votes, for every tree of   *)
(* blocks, every set of validators and every quorum system in which two    *)
(* quorums share an honest validator.                                      *)
(***************************************************************************)
EXTENDS TwoChainBFT, TLAPS, WellFoundedInduction

(* The tree of blocks.                                                     *)

(* Every nonempty set of rounds has a least element.                       *)
LEMMA LeastRound ==
  ASSUME NEW T, T \subseteq Nat, T # {}
  PROVE  \E x \in T : \A y \in T : x <= y
<1> DEFINE Less == {ss \in Nat \X Nat : ss[1] < ss[2]}
<1>1. IsWellFoundedOn(Less, Nat)
  BY NatLessThanWellFounded, Zenon DEF OpToRel
<1>2. PICK x \in T : \A y \in T : ~ (<<y, x>> \in Less)
  <2> HIDE DEF Less
  <2> QED BY <1>1, WFMin
<1>3. ASSUME NEW y \in T PROVE x <= y
  <2>1. ~ (<<y, x>> \in Less)
    BY <1>2, <1>3
  <2>2. x \in Nat /\ y \in Nat
    BY <1>2, <1>3
  <2> QED BY <2>1, <2>2
<1> QED BY <1>3

(* Every nonempty set of blocks has a block of least round: the form in    *)
(* which the proofs below reason by induction on rounds.                   *)
LEMMA LeastBlock ==
  ASSUME NEW S, S \subseteq Block, S # {}
  PROVE  \E c \in S : \A d \in S : round[c] <= round[d]
<1> DEFINE T == {round[c] : c \in S}
<1>1. T \subseteq Nat /\ T # {}
  BY BlockAssumption
<1>2. PICK x \in T : \A y \in T : x <= y
  <2> HIDE DEF T
  <2> QED BY <1>1, LeastRound
<1>3. PICK c \in S : round[c] = x
  OBVIOUS
<1>4. ASSUME NEW d \in S PROVE round[c] <= round[d]
  <2>1. round[d] \in T
    OBVIOUS
  <2> QED BY <1>2, <1>3, <2>1
<1> QED BY <1>4

(* A block extends itself.                                                 *)
LEMMA ExtendsReflexive == \A b \in Block : Extends(b, b)
BY DEF Extends, Descendants

(* A child of a block that extends b extends b.                            *)
LEMMA ExtendsChild ==
  ASSUME NEW b \in Block, NEW c \in Block, c # Genesis, Extends(parent[c], b)
  PROVE  Extends(c, b)
BY BlockAssumption DEF Extends, Descendants, ClosedUnderChildren

(* Every block extends genesis.                                            *)
LEMMA ExtendsGenesis == \A c \in Block : Extends(c, Genesis)
<1> DEFINE Bad == {c \in Block : ~ Extends(c, Genesis)}
<1> SUFFICES ASSUME Bad # {} PROVE FALSE
  OBVIOUS
<1>1. PICK c \in Bad : \A d \in Bad : round[c] <= round[d]
  BY LeastBlock
<1>2. c # Genesis
  BY ExtendsReflexive
<1>3. parent[c] \in Block /\ round[parent[c]] < round[c]
  BY <1>2, BlockAssumption, WellFormedAssumption
<1>4. parent[c] \notin Bad
  <2> SUFFICES ASSUME parent[c] \in Bad PROVE FALSE
    OBVIOUS
  <2>1. round[c] <= round[parent[c]]
    BY <1>1
  <2> QED BY <1>3, <2>1, BlockAssumption
<1> QED BY <1>2, <1>3, <1>4, ExtendsChild, BlockAssumption

-----------------------------------------------------------------------------
(* The records that the signing operations persist: what they keep, and    *)
(* that no round in them ever goes down.                                   *)
LEMMA ObservedData ==
  ASSUME NEW sd \in SafetyData, NEW b \in Block
  PROVE  /\ observe_qc(sd, b) \in SafetyData
         /\ observe_qc(sd, b).epoch = sd.epoch
         /\ observe_qc(sd, b).last_vote = sd.last_vote
         /\ observe_qc(sd, b).last_voted_round = sd.last_voted_round
         /\ observe_qc(sd, b).highest_timeout_round = sd.highest_timeout_round
         /\ observe_qc(sd, b).one_chain_round >= round[b]
         /\ observe_qc(sd, b).one_chain_round >= sd.one_chain_round
<1>1. round[b] \in Nat /\ round[parent[b]] \in Nat
  BY BlockAssumption
<1>2. /\ Higher(round[b], sd.one_chain_round) \in Nat
      /\ Higher(round[parent[b]], sd.preferred_round) \in Nat
      /\ Higher(round[b], sd.one_chain_round) >= round[b]
      /\ Higher(round[b], sd.one_chain_round) >= sd.one_chain_round
  BY <1>1 DEF SafetyData, Higher
<1> QED BY <1>2 DEF SafetyData, observe_qc

LEMMA VotedData ==
  ASSUME NEW sd \in SafetyData, NEW b \in Block
  PROVE  /\ voted_data(sd, b) \in SafetyData
         /\ voted_data(sd, b).epoch = sd.epoch
         /\ voted_data(sd, b).last_vote = b
         /\ voted_data(sd, b).last_voted_round = round[b]
         /\ voted_data(sd, b).highest_timeout_round = sd.highest_timeout_round
         /\ voted_data(sd, b).one_chain_round >= round[parent[b]]
         /\ voted_data(sd, b).one_chain_round >= sd.one_chain_round
<1>1. round[b] \in Nat /\ parent[b] \in Block
  BY BlockAssumption
<1> DEFINE od == observe_qc(sd, parent[b])
<1>2. /\ od \in SafetyData
      /\ od.epoch = sd.epoch
      /\ od.highest_timeout_round = sd.highest_timeout_round
      /\ od.one_chain_round >= round[parent[b]]
      /\ od.one_chain_round >= sd.one_chain_round
  BY <1>1, ObservedData
<1> HIDE DEF od
<1> QED BY <1>1, <1>2 DEF SafetyData, voted_data, od

LEMMA TimedOutData ==
  ASSUME NEW sd \in SafetyData, NEW r \in Nat
  PROVE  /\ timed_out_data(sd, r) \in SafetyData
         /\ timed_out_data(sd, r).epoch = sd.epoch
         /\ timed_out_data(sd, r).last_vote = sd.last_vote
         /\ timed_out_data(sd, r).last_voted_round >= r
         /\ timed_out_data(sd, r).last_voted_round >= sd.last_voted_round
         /\ timed_out_data(sd, r).highest_timeout_round >= r
         /\ timed_out_data(sd, r).highest_timeout_round >= sd.highest_timeout_round
         /\ timed_out_data(sd, r).one_chain_round = sd.one_chain_round
<1>1. \A q \in Nat : Higher(r, q) \in Nat /\ Higher(r, q) >= r /\ Higher(r, q) >= q
  BY DEF Higher
<1> QED BY <1>1 DEF SafetyData, timed_out_data

-----------------------------------------------------------------------------
(* Certificates, once they exist, exist for ever: signatures are only      *)
(* added.                                                                  *)
LEMMA CertifiedStable ==
  ASSUME NEW b \in Block, votes \subseteq votes', Certified(b)
  PROVE  Certified(b)'
BY DEF Certified, Voted

LEMMA ValidTCStable ==
  ASSUME NEW tc \in TCs, votes \subseteq votes', timeouts \subseteq timeouts'
  PROVE  tc \in TCs'
<1>1. ValidTC(tc) /\ tc \in [round : Round, hqc_round : {round[b] : b \in Block}]
  BY DEF TCs
<1>2. \E b \in Block : Certified(b)' /\ round[b] = tc.hqc_round
  BY <1>1, CertifiedStable DEF ValidTC
<1>3. \E Q \in Quorum :
        /\ \A n \in Q : \E h \in 0 .. tc.hqc_round : TimedOut(n, tc.round, h)'
        /\ \E n \in Q : TimedOut(n, tc.round, tc.hqc_round)'
  <2>1. PICK Q \in Quorum :
          /\ \A n \in Q : \E h \in 0 .. tc.hqc_round : TimedOut(n, tc.round, h)
          /\ \E n \in Q : TimedOut(n, tc.round, tc.hqc_round)
    BY <1>1 DEF ValidTC
  <2>2. \A n \in Q : \A h : TimedOut(n, tc.round, h) => TimedOut(n, tc.round, h)'
    BY DEF TimedOut
  <2> QED BY <2>1, <2>2
<1>4. ValidTC(tc)'
  BY <1>1, <1>2, <1>3 DEF ValidTC
<1> QED BY <1>1, <1>4 DEF TCs

LEMMA CommittedStable ==
  ASSUME NEW b \in Block, votes \subseteq votes',
         order_votes \subseteq order_votes', Committed(b)
  PROVE  Committed(b)'
<1>1. CASE \E c \in Block \ {Genesis} : commit_info(c) = b /\ Certified(c)
  BY <1>1, CertifiedStable DEF Committed
<1>2. CASE OrderCertified(b)
  BY <1>2 DEF Committed, OrderCertified, OrderVoted
<1> QED BY <1>1, <1>2 DEF Committed

-----------------------------------------------------------------------------
(* The initial state satisfies the inductive invariant: nothing is signed. *)
LEMMA InitSafetyInv == Init => SafetyInv
BY BlockAssumption
   DEF Init, SafetyInv, TypeOK, SafetyData, new_safety_data,
       VotesRemembered, TimeoutsRemembered, OrderVotesRemembered,
       OneVotePerRound, TimeoutsReportVotes, TimeoutsReportOrderVotes,
       VotesJustified, OrderVotesJustified, RootsCommitted

(* What a signing step leaves of the justifications: all of them.          *)
LEMMA JustificationsStable ==
  ASSUME SafetyInv, votes \subseteq votes', timeouts \subseteq timeouts',
         order_votes \subseteq order_votes'
  PROVE  /\ \A n \in Honest, b \in Block :
              <<n, b>> \in votes
                => /\ b # Genesis
                   /\ Certified(parent[b])'
                   /\ \E tc \in TCs' \cup {NoTC} : safe_to_vote(b, tc)
         /\ \A n \in Honest, b \in Block :
              <<n, b>> \in order_votes => Certified(b)'
         /\ \A b \in Block : Committed(b) => Committed(b)'
<1>1. \A b \in Block : parent[b] \in Block
  BY BlockAssumption
<1>3. ASSUME NEW n \in Honest, NEW b \in Block, <<n, b>> \in votes
      PROVE  /\ b # Genesis
             /\ Certified(parent[b])'
             /\ \E tc \in TCs' \cup {NoTC} : safe_to_vote(b, tc)
  <2>1. /\ b # Genesis
        /\ Certified(parent[b])
        /\ \E tc \in TCs \cup {NoTC} : safe_to_vote(b, tc)
    BY <1>3 DEF SafetyInv, VotesJustified
  <2>2. Certified(parent[b])'
    BY <2>1, <1>1, CertifiedStable
  <2>3. \E tc \in TCs' \cup {NoTC} : safe_to_vote(b, tc)
    BY <2>1, ValidTCStable
  <2> QED BY <2>1, <2>2, <2>3
<1>4. ASSUME NEW n \in Honest, NEW b \in Block, <<n, b>> \in order_votes
      PROVE  Certified(b)'
  BY <1>4, CertifiedStable DEF SafetyInv, OrderVotesJustified
<1>5. \A b \in Block : Committed(b) => Committed(b)'
  BY CommittedStable
<1> QED BY <1>3, <1>4, <1>5

(* A vote preserves the inductive invariant.                               *)
LEMMA SignVoteStep ==
  ASSUME SafetyInv, NEW n \in Honest, NEW b \in Block, SignVote(n, b)
  PROVE  SafetyInv'
<1> DEFINE sd == safety_data[n]
<1>0. /\ sd \in SafetyData /\ round[b] \in Nat /\ parent[b] \in Block
      /\ round[parent[b]] \in Nat /\ round[parent[parent[b]]] \in Nat
  BY BlockAssumption DEF SafetyInv, TypeOK
<1>1. /\ votes' = votes \cup {<<n, b>>}
      /\ timeouts' = timeouts /\ order_votes' = order_votes
      /\ ordered_root' = ordered_root
      /\ round[b] > sd.last_voted_round
      /\ safety_data' = [safety_data EXCEPT ![n] = voted_data(sd, b)]
  BY DEF SignVote, verify_last_vote_round
<1>2. /\ voted_data(sd, b) \in SafetyData
      /\ voted_data(sd, b).last_voted_round = round[b]
      /\ voted_data(sd, b).one_chain_round >= round[parent[b]]
      /\ voted_data(sd, b).one_chain_round >= sd.one_chain_round
      /\ voted_data(sd, b).highest_timeout_round = sd.highest_timeout_round
  BY <1>0, VotedData
<1>3. /\ \A m \in Honest : m # n => safety_data'[m] = safety_data[m]
      /\ safety_data'[n] = voted_data(sd, b)
  BY <1>1 DEF SafetyInv, TypeOK
<1>4. TypeOK'
  BY <1>1, <1>2 DEF SafetyInv, TypeOK
<1> HIDE DEF sd
<1>5. VotesRemembered'
  BY <1>0, <1>1, <1>2, <1>3, BlockAssumption
     DEF SafetyInv, VotesRemembered, SafetyData, TypeOK, sd
<1>6. TimeoutsRemembered'
  BY <1>0, <1>1, <1>2, <1>3
     DEF SafetyInv, TimeoutsRemembered, SafetyData, TypeOK, sd
<1>7. OrderVotesRemembered'
  BY <1>0, <1>1, <1>2, <1>3, BlockAssumption
     DEF SafetyInv, OrderVotesRemembered, SafetyData, TypeOK, sd
<1>8. OneVotePerRound'
  BY <1>0, <1>1, BlockAssumption
     DEF SafetyInv, OneVotePerRound, VotesRemembered, SafetyData, TypeOK, sd
<1>9. TimeoutsReportVotes'
  BY <1>0, <1>1, BlockAssumption
     DEF SafetyInv, TimeoutsReportVotes, TimeoutsRemembered, SafetyData, TypeOK, sd
<1>10. TimeoutsReportOrderVotes'
  BY <1>1 DEF SafetyInv, TimeoutsReportOrderVotes
<1>11. /\ b # Genesis
       /\ Certified(parent[b])'
       /\ \E tc \in TCs' \cup {NoTC} : safe_to_vote(b, tc)
  <2>1. Certified(parent[b])'
    BY <1>0, <1>1, CertifiedStable DEF SignVote
  <2>2. \E tc \in TCs' \cup {NoTC} : safe_to_vote(b, tc)
    BY <1>1, ValidTCStable DEF SignVote
  <2> QED BY <2>1, <2>2 DEF SignVote
<1>12. VotesJustified'
  BY <1>1, <1>11, JustificationsStable DEF VotesJustified
<1>13. OrderVotesJustified'
  BY <1>1, JustificationsStable DEF OrderVotesJustified
<1>14. RootsCommitted'
  BY <1>1, JustificationsStable DEF SafetyInv, RootsCommitted
<1> QED BY <1>4, <1>5, <1>6, <1>7, <1>8, <1>9, <1>10, <1>12, <1>13, <1>14
   DEF SafetyInv

(* A timeout preserves the inductive invariant.                            *)
LEMMA SignTimeoutStep ==
  ASSUME SafetyInv, NEW n \in Honest, NEW r \in Round, NEW b \in Block,
         SignTimeout(n, r, b)
  PROVE  SafetyInv'
<1> DEFINE sd == safety_data[n]
<1>0. /\ sd \in SafetyData /\ round[b] \in Nat /\ r \in Nat
  BY BlockAssumption, RoundAssumption DEF SafetyInv, TypeOK
<1>1. /\ timeouts' = timeouts \cup {<<n, r, round[b]>>}
      /\ votes' = votes /\ order_votes' = order_votes
      /\ ordered_root' = ordered_root
      /\ r >= sd.last_voted_round
      /\ round[b] >= sd.one_chain_round
      /\ safety_data' = [safety_data EXCEPT ![n] = timed_out_data(sd, r)]
  BY DEF SignTimeout, safe_to_timeout
<1>2. /\ timed_out_data(sd, r) \in SafetyData
      /\ timed_out_data(sd, r).last_voted_round >= r
      /\ timed_out_data(sd, r).last_voted_round >= sd.last_voted_round
      /\ timed_out_data(sd, r).highest_timeout_round >= r
      /\ timed_out_data(sd, r).highest_timeout_round >= sd.highest_timeout_round
      /\ timed_out_data(sd, r).one_chain_round = sd.one_chain_round
  BY <1>0, TimedOutData
<1>3. /\ \A m \in Honest : m # n => safety_data'[m] = safety_data[m]
      /\ safety_data'[n] = timed_out_data(sd, r)
  BY <1>1 DEF SafetyInv, TypeOK
<1>4. TypeOK'
  BY <1>0, <1>1, <1>2 DEF SafetyInv, TypeOK
<1> HIDE DEF sd
<1>5. VotesRemembered'
  BY <1>0, <1>1, <1>2, <1>3, BlockAssumption
     DEF SafetyInv, VotesRemembered, SafetyData, TypeOK, sd
<1>6. TimeoutsRemembered'
  BY <1>0, <1>1, <1>2, <1>3
     DEF SafetyInv, TimeoutsRemembered, SafetyData, TypeOK, sd
<1>7. OrderVotesRemembered'
  BY <1>0, <1>1, <1>2, <1>3, BlockAssumption
     DEF SafetyInv, OrderVotesRemembered, SafetyData, TypeOK, sd
<1>8. OneVotePerRound'
  BY <1>1 DEF SafetyInv, OneVotePerRound
<1>9. TimeoutsReportVotes'
  BY <1>0, <1>1, BlockAssumption
     DEF SafetyInv, TimeoutsReportVotes, VotesRemembered, SafetyData, TypeOK, sd
<1>10. TimeoutsReportOrderVotes'
  BY <1>0, <1>1, BlockAssumption
     DEF SafetyInv, TimeoutsReportOrderVotes, OrderVotesRemembered, SafetyData,
         TypeOK, sd
<1>12. VotesJustified'
  BY <1>1, JustificationsStable DEF VotesJustified
<1>13. OrderVotesJustified'
  BY <1>1, JustificationsStable DEF OrderVotesJustified
<1>14. RootsCommitted'
  BY <1>1, JustificationsStable DEF SafetyInv, RootsCommitted
<1> QED BY <1>4, <1>5, <1>6, <1>7, <1>8, <1>9, <1>10, <1>12, <1>13, <1>14
   DEF SafetyInv

(* An order vote preserves the inductive invariant.                        *)
LEMMA SignOrderVoteStep ==
  ASSUME SafetyInv, NEW n \in Honest, NEW b \in Block, SignOrderVote(n, b)
  PROVE  SafetyInv'
<1> DEFINE sd == safety_data[n]
<1>0. /\ sd \in SafetyData /\ round[b] \in Nat
  BY BlockAssumption DEF SafetyInv, TypeOK
<1>1. /\ order_votes' = order_votes \cup {<<n, b>>}
      /\ votes' = votes /\ timeouts' = timeouts
      /\ ordered_root' = ordered_root
      /\ round[b] > sd.highest_timeout_round
      /\ safety_data' = [safety_data EXCEPT ![n] = observe_qc(sd, b)]
  BY DEF SignOrderVote, safe_for_order_vote, order_voted_data
<1>2. /\ observe_qc(sd, b) \in SafetyData
      /\ observe_qc(sd, b).last_voted_round = sd.last_voted_round
      /\ observe_qc(sd, b).highest_timeout_round = sd.highest_timeout_round
      /\ observe_qc(sd, b).one_chain_round >= round[b]
      /\ observe_qc(sd, b).one_chain_round >= sd.one_chain_round
  BY <1>0, ObservedData
<1>3. /\ \A m \in Honest : m # n => safety_data'[m] = safety_data[m]
      /\ safety_data'[n] = observe_qc(sd, b)
  BY <1>1 DEF SafetyInv, TypeOK
<1>4. TypeOK'
  BY <1>0, <1>1, <1>2 DEF SafetyInv, TypeOK
<1> HIDE DEF sd
<1>5. VotesRemembered'
  BY <1>0, <1>1, <1>2, <1>3, BlockAssumption
     DEF SafetyInv, VotesRemembered, SafetyData, TypeOK, sd
<1>6. TimeoutsRemembered'
  BY <1>0, <1>1, <1>2, <1>3
     DEF SafetyInv, TimeoutsRemembered, SafetyData, TypeOK, sd
<1>7. OrderVotesRemembered'
  BY <1>0, <1>1, <1>2, <1>3, BlockAssumption
     DEF SafetyInv, OrderVotesRemembered, SafetyData, TypeOK, sd
<1>8. OneVotePerRound'
  BY <1>1 DEF SafetyInv, OneVotePerRound
<1>9. TimeoutsReportVotes'
  BY <1>1 DEF SafetyInv, TimeoutsReportVotes
<1>10. TimeoutsReportOrderVotes'
  BY <1>0, <1>1, BlockAssumption
     DEF SafetyInv, TimeoutsReportOrderVotes, TimeoutsRemembered, SafetyData,
         TypeOK, sd
<1>12. VotesJustified'
  BY <1>1, JustificationsStable DEF VotesJustified
<1>13. OrderVotesJustified'
  <2>1. Certified(b)'
    BY <1>1, CertifiedStable DEF SignOrderVote
  <2> QED BY <1>1, <2>1, JustificationsStable DEF OrderVotesJustified
<1>14. RootsCommitted'
  BY <1>1, JustificationsStable DEF SafetyInv, RootsCommitted
<1> QED BY <1>4, <1>5, <1>6, <1>7, <1>8, <1>9, <1>10, <1>12, <1>13, <1>14
   DEF SafetyInv

(* Ordering a block preserves the inductive invariant.                     *)
LEMMA OrderStep ==
  ASSUME SafetyInv, NEW p \in Replica, NEW b \in Block, Order(p, b)
  PROVE  SafetyInv'
<1>1. /\ votes' = votes /\ timeouts' = timeouts /\ order_votes' = order_votes
      /\ safety_data' = safety_data
      /\ ordered_root' = [ordered_root EXCEPT ![p] = b]
      /\ Committed(b)
  BY DEF Order
<1>2. TypeOK'
  BY <1>1 DEF SafetyInv, TypeOK
<1>3. RootsCommitted'
  BY <1>1, JustificationsStable DEF SafetyInv, RootsCommitted, TypeOK
<1>4. VotesJustified' /\ OrderVotesJustified'
  BY <1>1, JustificationsStable DEF VotesJustified, OrderVotesJustified
<1>5. /\ VotesRemembered' /\ TimeoutsRemembered' /\ OrderVotesRemembered'
      /\ OneVotePerRound' /\ TimeoutsReportVotes' /\ TimeoutsReportOrderVotes'
  BY <1>1 DEF SafetyInv, VotesRemembered, TimeoutsRemembered,
              OrderVotesRemembered, OneVotePerRound, TimeoutsReportVotes,
              TimeoutsReportOrderVotes
<1> QED BY <1>2, <1>3, <1>4, <1>5 DEF SafetyInv

(* The inductive invariant is an invariant of the protocol: what every     *)
(* validator has persisted covers what it has signed, and every signature  *)
(* is justified by existing certificates.                                  *)
THEOREM SafetyInvariant == Spec => []SafetyInv
<1>1. Init => SafetyInv
  BY InitSafetyInv
<1>2. SafetyInv /\ [Next]_vars => SafetyInv'
  <2> SUFFICES ASSUME SafetyInv, [Next]_vars PROVE SafetyInv'
    OBVIOUS
  <2>1. ASSUME NEW n \in Honest, NEW b \in Block, SignVote(n, b)
        PROVE  SafetyInv'
    BY <2>1, SignVoteStep
  <2>2. ASSUME NEW n \in Honest, NEW r \in Round, NEW b \in Block,
               SignTimeout(n, r, b)
        PROVE  SafetyInv'
    BY <2>2, SignTimeoutStep
  <2>3. ASSUME NEW n \in Honest, NEW b \in Block, SignOrderVote(n, b)
        PROVE  SafetyInv'
    BY <2>3, SignOrderVoteStep
  <2>4. ASSUME NEW p \in Replica, NEW b \in Block, Order(p, b)
        PROVE  SafetyInv'
    BY <2>4, OrderStep
  <2>5. CASE UNCHANGED vars
    <3>1. VotesJustified' /\ OrderVotesJustified' /\ RootsCommitted'
      BY <2>5, JustificationsStable
         DEF vars, SafetyInv, VotesJustified, OrderVotesJustified, RootsCommitted
    <3>2. /\ TypeOK' /\ VotesRemembered' /\ TimeoutsRemembered'
          /\ OrderVotesRemembered' /\ OneVotePerRound'
          /\ TimeoutsReportVotes' /\ TimeoutsReportOrderVotes'
      BY <2>5 DEF vars, SafetyInv, TypeOK, VotesRemembered, TimeoutsRemembered,
                  OrderVotesRemembered, OneVotePerRound, TimeoutsReportVotes,
                  TimeoutsReportOrderVotes
    <3> QED BY <3>1, <3>2 DEF SafetyInv
  <2> QED BY <2>1, <2>2, <2>3, <2>4, <2>5 DEF Next
<1> QED BY <1>1, <1>2, PTL DEF Spec

-----------------------------------------------------------------------------
(* Every quorum contains an honest voter for each certified block, and an  *)
(* honest signer of each timeout certificate.                              *)
LEMMA HonestVoter ==
  ASSUME NEW b \in Block, b # Genesis, Certified(b), NEW Q \in Quorum
  PROVE  \E n \in Q \cap Honest : <<n, b>> \in votes
<1>1. PICK R \in Quorum : \A n \in R : Voted(n, b)
  BY DEF Certified
<1>2. PICK n \in Q \cap R \cap Honest : TRUE
  BY QuorumAssumption
<1> QED BY <1>1, <1>2 DEF Voted

LEMMA HonestTimeout ==
  ASSUME NEW tc \in TCs, NEW Q \in Quorum
  PROVE  \E n \in Q \cap Honest : \E h \in Nat :
           h <= tc.hqc_round /\ <<n, tc.round, h>> \in timeouts
<1>0. tc.hqc_round \in Nat
  BY BlockAssumption DEF TCs
<1>1. PICK R \in Quorum :
        \A n \in R : \E h \in 0 .. tc.hqc_round : TimedOut(n, tc.round, h)
  BY DEF TCs, ValidTC
<1>2. PICK n \in Q \cap R \cap Honest : TRUE
  BY QuorumAssumption
<1>3. PICK h \in 0 .. tc.hqc_round : TimedOut(n, tc.round, h)
  BY <1>1, <1>2
<1>4. <<n, tc.round, h>> \in timeouts
  BY <1>2, <1>3 DEF TimedOut
<1>5. h \in Nat /\ h <= tc.hqc_round
  BY <1>0, <1>3
<1> QED BY <1>2, <1>4, <1>5

(* Only genesis has round 0.                                               *)
LEMMA RoundZero == \A b \in Block : round[b] = 0 => b = Genesis
BY BlockAssumption, WellFormedAssumption

LEMMA CertifiedUnique ==
  ASSUME SafetyInv, NEW b \in Block, NEW c \in Block,
         Certified(b), Certified(c), round[b] = round[c]
  PROVE  b = c
<1>1. CASE b = Genesis \/ c = Genesis
  BY <1>1, RoundZero, WellFormedAssumption
<1>2. CASE b # Genesis /\ c # Genesis
  <2>1. PICK Q \in Quorum : \A n \in Q : Voted(n, b)
    BY <1>2 DEF Certified
  <2>2. PICK n \in Q \cap Honest : <<n, c>> \in votes
    BY <1>2, HonestVoter
  <2>3. <<n, b>> \in votes
    BY <2>1, <2>2 DEF Voted
  <2> QED BY <2>2, <2>3 DEF SafetyInv, OneVotePerRound
<1> QED BY <1>1, <1>2

(* The block that a certificate commits is its parent, one round below.    *)
LEMMA CommitInfo ==
  ASSUME NEW b \in Block, NEW c \in Block, commit_info(c) = b
  PROVE  parent[c] = b /\ round[c] = round[b] + 1
BY BlockAssumption DEF commit_info

(* A block with a finality proof is certified.                             *)
LEMMA CommittedCertified ==
  ASSUME SafetyInv, NEW b \in Block, Committed(b)
  PROVE  Certified(b)
<1>1. CASE OrderCertified(b)
  <2>1. PICK Q \in Quorum : \A n \in Q : OrderVoted(n, b)
    BY <1>1 DEF OrderCertified
  <2>2. PICK n \in Q \cap Q \cap Honest : TRUE
    BY QuorumAssumption
  <2>3. <<n, b>> \in order_votes
    BY <2>1, <2>2 DEF OrderVoted
  <2> QED BY <2>2, <2>3 DEF SafetyInv, OrderVotesJustified
<1>2. ASSUME NEW c \in Block \ {Genesis}, commit_info(c) = b, Certified(c)
      PROVE  Certified(b)
  <2>1. PICK Q \in Quorum : TRUE
    BY <1>2 DEF Certified
  <2>2. PICK n \in Q \cap Honest : <<n, c>> \in votes
    BY <1>2, HonestVoter
  <2>3. Certified(parent[c])
    BY <1>2, <2>2 DEF SafetyInv, VotesJustified
  <2> QED BY <1>2, <2>3, CommitInfo
<1> QED BY <1>1, <1>2 DEF Committed

(* The heart of the argument: a certified block of a later round than a    *)
(* finalized block b has a parent of a round not below b.  Otherwise a     *)
(* timeout certificate let its voters skip b; the timeout certificate and  *)
(* the finality proof share an honest validator, whose timeout had to      *)
(* report a certificate of b's round or higher.                            *)
LEMMA NoSkip ==
  ASSUME SafetyInv, NEW b \in Block, NEW c \in Block,
         Committed(b), Certified(c), round[c] > round[b]
  PROVE  round[parent[c]] >= round[b]
<1>0. /\ round[b] \in Nat /\ round[c] \in Nat
      /\ parent[c] \in Block /\ round[parent[c]] \in Nat
  BY BlockAssumption
<1>1. c # Genesis
  BY <1>0, WellFormedAssumption
<1>2. PICK Q0 \in Quorum : TRUE
  BY <1>1 DEF Certified
<1>3. PICK n \in Q0 \cap Honest : <<n, c>> \in votes
  BY <1>1, HonestVoter
<1>4. PICK tc \in TCs \cup {NoTC} : safe_to_vote(c, tc)
  BY <1>3 DEF SafetyInv, VotesJustified
<1>5. CASE round[c] = round[parent[c]] + 1
  BY <1>0, <1>5
<1>6. CASE tc = NoTC /\ round[c] # round[parent[c]] + 1
  <2>1. round[c] = 1
    BY <1>4, <1>6 DEF safe_to_vote, NoTC
  <2> QED BY <1>0, <2>1
<1>7. CASE tc \in TCs /\ round[c] # round[parent[c]] + 1
  <2>0. tc.round \in Nat /\ tc.hqc_round \in Nat
    BY <1>7, BlockAssumption, RoundAssumption DEF TCs
  <2>1. round[c] = tc.round + 1 /\ round[parent[c]] >= tc.hqc_round
    BY <1>4, <1>7 DEF safe_to_vote
  <2>2. CASE OrderCertified(b)
    <3>1. PICK Q \in Quorum : \A m \in Q : OrderVoted(m, b)
      BY <2>2 DEF OrderCertified
    <3>2. PICK m \in Q \cap Honest, h \in Nat :
            h <= tc.hqc_round /\ <<m, tc.round, h>> \in timeouts
      BY <1>7, HonestTimeout
    <3>3. <<m, b>> \in order_votes
      BY <3>1, <3>2 DEF OrderVoted
    <3>4. tc.round >= round[b]
      BY <1>0, <2>0, <2>1
    <3>5. h >= round[b]
      BY <2>0, <3>2, <3>3, <3>4 DEF SafetyInv, TimeoutsReportOrderVotes
    <3> QED BY <1>0, <2>0, <2>1, <3>2, <3>5
  <2>3. ASSUME NEW d \in Block \ {Genesis}, commit_info(d) = b, Certified(d)
        PROVE  round[parent[c]] >= round[b]
    <3>0. parent[d] = b /\ round[d] = round[b] + 1
      BY <2>3, CommitInfo
    <3>1. CASE round[c] = round[d]
      BY <2>3, <3>0, <3>1, <1>0, CertifiedUnique
    <3>2. CASE round[c] # round[d]
      <4>1. PICK Q \in Quorum : \A m \in Q : Voted(m, d)
        BY <2>3 DEF Certified
      <4>2. PICK m \in Q \cap Honest, h \in Nat :
              h <= tc.hqc_round /\ <<m, tc.round, h>> \in timeouts
        BY <1>7, HonestTimeout
      <4>3. <<m, d>> \in votes
        BY <4>1, <4>2 DEF Voted
      <4>4. tc.round >= round[d]
        BY <1>0, <2>0, <2>1, <3>0, <3>2
      <4>5. h >= round[parent[d]]
        BY <2>0, <2>3, <4>2, <4>3, <4>4 DEF SafetyInv, TimeoutsReportVotes
      <4> QED BY <1>0, <2>0, <2>1, <3>0, <4>2, <4>5
    <3> QED BY <3>1, <3>2
  <2> QED BY <2>2, <2>3 DEF Committed
<1> QED BY <1>4, <1>5, <1>6, <1>7

(* Every certified block of a round not below a finalized block extends it.*)
LEMMA CertifiedExtendsCommitted ==
  ASSUME SafetyInv, NEW b \in Block, Committed(b)
  PROVE  \A c \in Block : Certified(c) /\ round[c] >= round[b] => Extends(c, b)
<1> DEFINE Bad == {c \in Block : /\ Certified(c)
                                 /\ round[c] >= round[b]
                                 /\ ~ Extends(c, b)}
<1> SUFFICES ASSUME Bad # {} PROVE FALSE
  OBVIOUS
<1>1. PICK c \in Bad : \A d \in Bad : round[c] <= round[d]
  BY LeastBlock
<1>2. c # b
  BY ExtendsReflexive
<1>3. round[c] > round[b]
  <2>1. round[c] # round[b]
    BY <1>2, CommittedCertified, CertifiedUnique
  <2> QED BY <2>1, BlockAssumption
<1>4. c # Genesis
  BY <1>3, BlockAssumption, WellFormedAssumption
<1>5. /\ parent[c] \in Block
      /\ round[parent[c]] < round[c]
      /\ round[parent[c]] >= round[b]
  BY <1>3, <1>4, NoSkip, BlockAssumption, WellFormedAssumption
<1>6. Certified(parent[c])
  <2>1. PICK Q \in Quorum : TRUE
    BY <1>4 DEF Certified
  <2>2. PICK n \in Q \cap Honest : <<n, c>> \in votes
    BY <1>4, HonestVoter
  <2> QED BY <2>2 DEF SafetyInv, VotesJustified
<1>7. parent[c] \notin Bad
  <2> SUFFICES ASSUME parent[c] \in Bad PROVE FALSE
    OBVIOUS
  <2>1. round[c] <= round[parent[c]]
    BY <1>1
  <2> QED BY <1>5, <2>1, BlockAssumption
<1>8. Extends(parent[c], b)
  BY <1>5, <1>6, <1>7
<1> QED BY <1>4, <1>8, ExtendsChild

(* The state predicates that the inductive invariant gives.                *)
LEMMA InvAgreement == SafetyInv => Agreement
<1> SUFFICES ASSUME SafetyInv, NEW b \in Block, NEW c \in Block,
                    Committed(b), Committed(c)
             PROVE  Extends(b, c) \/ Extends(c, b)
  BY DEF Agreement
<1>1. Certified(b) /\ Certified(c)
  BY CommittedCertified
<1>2. round[b] >= round[c] \/ round[c] >= round[b]
  BY BlockAssumption
<1> QED BY <1>1, <1>2, CertifiedExtendsCommitted

LEMMA InvOrderAssertion == SafetyInv => OrderAssertion
<1> SUFFICES ASSUME SafetyInv, NEW p \in Replica, NEW b \in Block,
                    Committed(b), round[b] > round[ordered_root[p]]
             PROVE  Extends(b, ordered_root[p])
  BY DEF OrderAssertion
<1>1. ordered_root[p] \in Block
  BY DEF SafetyInv, TypeOK
<1>2. CASE ordered_root[p] = Genesis
  BY <1>2, ExtendsGenesis
<1>3. CASE Committed(ordered_root[p])
  <2>1. round[b] >= round[ordered_root[p]]
    BY <1>1, BlockAssumption
  <2> QED BY <1>1, <1>3, <2>1, CommittedCertified, CertifiedExtendsCommitted
<1> QED BY <1>1, <1>2, <1>3 DEF SafetyInv, RootsCommitted

(* No two quorum certificates of one round: what insert_quorum_cert        *)
(* requires of the block tree.                                             *)
THEOREM UniqueCertificates == Spec => []OneQCPerRound
<1>1. SafetyInv => OneQCPerRound
  BY CertifiedUnique DEF OneQCPerRound
<1> QED BY <1>1, SafetyInvariant, PTL

(* Agreement: finality proofs, by quorum certificate or by order votes,    *)
(* never conflict.                                                         *)
THEOREM AgreementTheorem == Spec => []Agreement
BY InvAgreement, SafetyInvariant, PTL

(* The assertion of send_for_execution holds whenever it is evaluated.     *)
THEOREM OrderAssertionTheorem == Spec => []OrderAssertion
BY InvOrderAssertion, SafetyInvariant, PTL

(* The protocol implements one replicated ledger.                          *)
THEOREM ImplementsLedger == Spec => OneLedger
<1>1. Init => Ledger!LedgerInit
  BY DEF Init, Ledger!LedgerInit
<1>2. SafetyInv /\ [Next]_vars => [Ledger!LedgerNext]_ordered_root
  <2> SUFFICES ASSUME SafetyInv, [Next]_vars, ordered_root' # ordered_root
               PROVE  Ledger!LedgerNext
    BY DEF Next
  <2>1. PICK p \in Replica, b \in Block : Order(p, b)
    BY DEF Next, vars, SignVote, SignTimeout, SignOrderVote
  <2>2. /\ Committed(b)
        /\ round[b] > round[ordered_root[p]]
        /\ ordered_root' = [ordered_root EXCEPT ![p] = b]
    BY <2>1 DEF Order
  <2>3. Extends(b, ordered_root[p])
    BY <2>2, InvOrderAssertion DEF OrderAssertion
  <2>4. ASSUME NEW q \in Replica
        PROVE  Extends(b, ordered_root[q]) \/ Extends(ordered_root[q], b)
    <3>1. ordered_root[q] \in Block
      BY DEF SafetyInv, TypeOK
    <3>2. CASE ordered_root[q] = Genesis
      BY <3>2, ExtendsGenesis
    <3>3. CASE Committed(ordered_root[q])
      BY <2>2, <3>1, <3>3, InvAgreement DEF Agreement
    <3> QED BY <3>1, <3>2, <3>3 DEF SafetyInv, RootsCommitted
  <2>5. Ledger!Append(p, b)
    BY <2>2, <2>3, <2>4
       DEF Ledger!Append, Ledger!Extends, Ledger!Descendants,
           Ledger!ClosedUnderChildren, Extends, Descendants, ClosedUnderChildren
  <2> QED BY <2>5 DEF Ledger!LedgerNext
<1> QED BY <1>1, <1>2, SafetyInvariant, PTL DEF Spec, OneLedger, Ledger!LedgerSpec
=============================================================================
