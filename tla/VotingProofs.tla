---------------------------- MODULE VotingProofs ----------------------------
(***************************************************************************)
(* How a vote is signed and how votes are counted.                         *)
(*                                                                         *)
(* SafetyRules keeps the voting contract over restarts, failed writes and  *)
(* epoch changes, for every tree of blocks and any number of epochs, with  *)
(* and without the cache.                                                  *)
(*                                                                         *)
(* The thresholds of ValidatorVerifier and the order votes counted with    *)
(* them by PendingOrderVotes, for any validators, stakes, ledger infos and *)
(* window.                                                                 *)
(***************************************************************************)
EXTENDS SafetyRules, PendingOrderVotes, TLAPS

----------------------------------------------------------------------------
(* Signing: SafetyRules.                                                   *)

(* The records that the signing operations persist: what they keep, and    *)
(* that no round in them ever goes down.                                   *)
LEMMA ObservedData ==
  ASSUME NEW sd \in SafetyData, NEW b \in Block
  PROVE  /\ observe_qc(sd, b) \in SafetyData
         /\ observe_qc(sd, b).epoch = sd.epoch
         /\ observe_qc(sd, b).last_vote = sd.last_vote
         /\ observe_qc(sd, b).last_voted_round = sd.last_voted_round
         /\ observe_qc(sd, b).highest_timeout_round = sd.highest_timeout_round
         /\ observe_qc(sd, b).one_chain_round >= round[b]
         /\ observe_qc(sd, b).one_chain_round >= sd.one_chain_round
<1>1. round[b] \in Nat /\ round[parent[b]] \in Nat
  BY BlockAssumption
<1>2. /\ Higher(round[b], sd.one_chain_round) \in Nat
      /\ Higher(round[parent[b]], sd.preferred_round) \in Nat
      /\ Higher(round[b], sd.one_chain_round) >= round[b]
      /\ Higher(round[b], sd.one_chain_round) >= sd.one_chain_round
  BY <1>1 DEF SafetyData, Higher
<1> QED BY <1>2 DEF SafetyData, observe_qc

LEMMA VotedData ==
  ASSUME NEW sd \in SafetyData, NEW b \in Block
  PROVE  /\ voted_data(sd, b) \in SafetyData
         /\ voted_data(sd, b).epoch = sd.epoch
         /\ voted_data(sd, b).last_vote = b
         /\ voted_data(sd, b).last_voted_round = round[b]
         /\ voted_data(sd, b).highest_timeout_round = sd.highest_timeout_round
         /\ voted_data(sd, b).one_chain_round >= round[parent[b]]
         /\ voted_data(sd, b).one_chain_round >= sd.one_chain_round
<1>1. round[b] \in Nat /\ parent[b] \in Block
  BY BlockAssumption
<1> DEFINE od == observe_qc(sd, parent[b])
<1>2. /\ od \in SafetyData
      /\ od.epoch = sd.epoch
      /\ od.highest_timeout_round = sd.highest_timeout_round
      /\ od.one_chain_round >= round[parent[b]]
      /\ od.one_chain_round >= sd.one_chain_round
  BY <1>1, ObservedData
<1> HIDE DEF od
<1> QED BY <1>1, <1>2 DEF SafetyData, voted_data, od

LEMMA TimedOutData ==
  ASSUME NEW sd \in SafetyData, NEW r \in Nat
  PROVE  /\ timed_out_data(sd, r) \in SafetyData
         /\ timed_out_data(sd, r).epoch = sd.epoch
         /\ timed_out_data(sd, r).last_vote = sd.last_vote
         /\ timed_out_data(sd, r).last_voted_round >= r
         /\ timed_out_data(sd, r).last_voted_round >= sd.last_voted_round
         /\ timed_out_data(sd, r).highest_timeout_round >= r
         /\ timed_out_data(sd, r).highest_timeout_round >= sd.highest_timeout_round
         /\ timed_out_data(sd, r).one_chain_round = sd.one_chain_round
<1>1. \A q \in Nat : Higher(r, q) \in Nat /\ Higher(r, q) >= r /\ Higher(r, q) >= q
  BY DEF Higher
<1> QED BY <1>1 DEF SafetyData, timed_out_data

-----------------------------------------------------------------------------
(* A read returns the stored record and leaves a coherent cache.           *)
LEMMA ReadCoherent ==
  ASSUME StorageInv
  PROVE  /\ safety_data = internal_store
         /\ read_cache \in {None, internal_store}
         /\ internal_store \in SafetyData
         /\ internal_store.epoch \in Nat
         /\ internal_store.last_voted_round \in Nat
         /\ internal_store.one_chain_round \in Nat
         /\ internal_store.highest_timeout_round \in Nat
         /\ internal_store.last_vote \in Block \cup {None}
BY EpochAssumption DEF StorageInv, TypeOK, CacheCoherent, safety_data, read_cache, SafetyData

(* The released signatures, component by component.                        *)
LEMMA Components ==
  ASSUME TypeOK
  PROVE  /\ \A v \in votes \cup order_votes :
              /\ v[1] \in Nat /\ v[2] \in Block
              /\ round[v[2]] \in Nat /\ parent[v[2]] \in Block
              /\ round[parent[v[2]]] \in Nat
         /\ \A t \in timeouts : t[1] \in Nat /\ t[2] \in Nat /\ t[3] \in Nat
<1>1. \A v \in votes \cup order_votes : v \in Nat \X Block
  BY DEF TypeOK
<1>2. \A v \in votes \cup order_votes : v[1] \in Nat /\ v[2] \in Block
  BY <1>1
<1>3. \A t \in timeouts : t \in Nat \X Nat \X Nat
  BY DEF TypeOK
<1>4. \A t \in timeouts : t[1] \in Nat /\ t[2] \in Nat /\ t[3] \in Nat
  BY <1>3
<1> QED BY <1>2, <1>4, BlockAssumption

(* A fresh store with nothing released satisfies the inductive invariant.  *)
LEMMA InitStorageInv == Init => StorageInv
BY EpochAssumption
   DEF Init, StorageInv, TypeOK, CacheCoherent, EpochsInOrder, EpochsCover,
       LastVoteCovered, VotesCovered, TimeoutsCovered, OrderVotesCovered,
       new_safety_data, SafetyData

(* A step that changes neither the stored record nor what is released      *)
(* keeps the record covering what is released.                             *)
LEMMA CoverUnchanged ==
  ASSUME StorageInv, internal_store' = internal_store, UNCHANGED released
  PROVE  /\ EpochsCover' /\ LastVoteCovered' /\ VotesCovered'
         /\ TimeoutsCovered' /\ OrderVotesCovered'
BY DEF StorageInv, EpochsCover, LastVoteCovered, VotesCovered,
       TimeoutsCovered, OrderVotesCovered, released

(* A new epoch starts from an empty record: nothing has been released in   *)
(* it.                                                                     *)
LEMMA CoverNewEpoch ==
  ASSUME StorageInv, NEW e \in Epoch, internal_store.epoch < e,
         internal_store' = new_safety_data(e), UNCHANGED released
  PROVE  /\ EpochsCover' /\ LastVoteCovered' /\ VotesCovered'
         /\ TimeoutsCovered' /\ OrderVotesCovered'
<1>0. e \in Nat /\ internal_store.epoch \in Nat
  BY EpochAssumption, ReadCoherent
<1>1. /\ \A v \in votes \cup order_votes : v[1] \in Nat /\ v[1] < e
      /\ \A t \in timeouts : t[1] \in Nat /\ t[1] < e
  BY <1>0, Components DEF StorageInv, EpochsCover
<1>2. /\ internal_store'.epoch = e
      /\ internal_store'.last_vote = None
  BY DEF new_safety_data
<1> QED BY <1>0, <1>1, <1>2
   DEF EpochsCover, LastVoteCovered, VotesCovered, TimeoutsCovered,
       OrderVotesCovered, released

(* A vote, recorded or not, handed out or not.                             *)
LEMMA SignVoteStep ==
  ASSUME StorageInv, NEW b \in Block, SignVote(b)
  PROVE  StorageInv' /\ (Contract!ContractNext \/ UNCHANGED released)
<1> DEFINE sd == internal_store
           vd == voted_data(internal_store, b)
<1>0. /\ safety_data = sd /\ sd \in SafetyData /\ sd.epoch \in Nat
      /\ sd.last_voted_round \in Nat /\ sd.one_chain_round \in Nat
      /\ sd.highest_timeout_round \in Nat /\ sd.last_vote \in Block \cup {None}
      /\ round[b] \in Nat /\ parent[b] \in Block /\ round[parent[b]] \in Nat
      /\ \A c \in Block : round[c] \in Nat /\ round[parent[c]] \in Nat
      /\ None \notin Block
  BY ReadCoherent, BlockAssumption
<1>1. /\ vd \in SafetyData /\ vd.epoch = sd.epoch /\ vd.last_vote = b
      /\ vd.last_voted_round = round[b]
      /\ vd.highest_timeout_round = sd.highest_timeout_round
      /\ vd.one_chain_round >= round[parent[b]]
      /\ vd.one_chain_round >= sd.one_chain_round
      /\ vd.one_chain_round \in Nat
  BY <1>0, VotedData DEF SafetyData
<1>2. /\ UNCHANGED <<waypoint, epoch_state, validator_signer>>
      /\ timeouts' = timeouts /\ order_votes' = order_votes
      /\ cached_safety_data' \in {None, internal_store'}
      /\ \/ internal_store' = vd /\ votes' = votes \cup {<<sd.epoch, b>>}
         \/ internal_store' = vd /\ votes' = votes
         \/ internal_store' = sd /\ votes' = votes
      /\ round[b] > sd.last_voted_round
  BY <1>0 DEF SignVote, set_safety_data, set_safety_data_fails, session_vars,
              verify_last_vote_round
<1>3. /\ \A t \in timeouts : t[1] = sd.epoch => t[2] < round[b]
      /\ \A v \in votes : v[1] = sd.epoch => round[v[2]] < round[b]
  BY <1>0, <1>2, Components
     DEF StorageInv, TimeoutsCovered, VotesCovered, LastVoteCovered
<1> HIDE DEF vd
<1>4. TypeOK' /\ CacheCoherent' /\ EpochsInOrder'
  BY <1>0, <1>1, <1>2 DEF StorageInv, TypeOK, CacheCoherent, EpochsInOrder
<1>5. CASE internal_store' = sd /\ votes' = votes
  BY <1>2, <1>4, <1>5, CoverUnchanged DEF released, StorageInv
<1>6. ASSUME internal_store' = vd, votes' \subseteq votes \cup {<<sd.epoch, b>>}
      PROVE  /\ EpochsCover' /\ LastVoteCovered' /\ VotesCovered'
             /\ TimeoutsCovered' /\ OrderVotesCovered'
  <2>0. \A v \in votes' : v \in votes \/ (v[1] = sd.epoch /\ v[2] = b)
    BY <1>6
  <2>1. EpochsCover'
    BY <1>0, <1>1, <1>2, <1>6, <2>0 DEF StorageInv, EpochsCover
  <2>2. LastVoteCovered'
    BY <1>0, <1>1, <1>6 DEF LastVoteCovered
  <2>3. VotesCovered'
    BY <1>0, <1>1, <1>3, <1>6, <2>0, Components DEF StorageInv, VotesCovered
  <2>4. TimeoutsCovered'
    BY <1>0, <1>1, <1>2, <1>3, <1>6, Components DEF StorageInv, TimeoutsCovered
  <2>5. OrderVotesCovered'
    BY <1>0, <1>1, <1>2, <1>6, Components DEF StorageInv, OrderVotesCovered
  <2> QED BY <2>1, <2>2, <2>3, <2>4, <2>5
<1>7. StorageInv'
  BY <1>2, <1>4, <1>5, <1>6 DEF StorageInv
<1>8. ASSUME votes' = votes \cup {<<sd.epoch, b>>}
      PROVE  Contract!ReleaseVote(sd.epoch, b)
  BY <1>0, <1>2, <1>3, <1>8, Components
     DEF Contract!ReleaseVote, Contract!NoLaterEpoch, StorageInv, EpochsCover
<1> QED BY <1>2, <1>7, <1>8
   DEF released, Contract!ContractNext, StorageInv, EpochsCover
(* The recorded vote is handed out, perhaps again.                         *)
LEMMA ReturnLastVoteStep ==
  ASSUME StorageInv, NEW b \in Block, ReturnLastVote(b)
  PROVE  StorageInv' /\ (Contract!ContractNext \/ UNCHANGED released)
<1> DEFINE sd == internal_store
<1>0. /\ safety_data = sd /\ sd \in SafetyData /\ sd.epoch \in Nat
      /\ sd.last_vote \in Block \cup {None}
      /\ sd.one_chain_round \in Nat /\ sd.last_voted_round \in Nat
      /\ read_cache \in {None, sd}
      /\ \A c \in Block : round[c] \in Nat /\ round[parent[c]] \in Nat
  BY ReadCoherent, BlockAssumption
<1>1. /\ UNCHANGED <<waypoint, epoch_state, validator_signer>>
      /\ timeouts' = timeouts /\ order_votes' = order_votes
      /\ internal_store' = sd
      /\ cached_safety_data' \in {None, sd}
      /\ votes' = votes \cup {<<sd.epoch, sd.last_vote>>}
      /\ sd.last_vote # None
  BY <1>0 DEF ReturnLastVote, session_vars, already_voted
<1>2. \A v \in votes' : v \in votes \/ (v[1] = sd.epoch /\ v[2] = sd.last_vote)
  BY <1>1
<1>3. TypeOK' /\ CacheCoherent' /\ EpochsInOrder'
  BY <1>0, <1>1 DEF StorageInv, TypeOK, CacheCoherent, EpochsInOrder
<1>4. EpochsCover' /\ LastVoteCovered' /\ TimeoutsCovered' /\ OrderVotesCovered'
  BY <1>0, <1>1, <1>2
     DEF StorageInv, EpochsCover, LastVoteCovered, TimeoutsCovered,
         OrderVotesCovered
<1>5. VotesCovered'
  BY <1>0, <1>1, <1>2 DEF StorageInv, VotesCovered, LastVoteCovered
<1>6. Contract!ReleaseVote(sd.epoch, sd.last_vote)
  BY <1>0, <1>1, Components
     DEF Contract!ReleaseVote, Contract!NoLaterEpoch, StorageInv, EpochsCover,
         VotesCovered, TimeoutsCovered
<1> QED BY <1>0, <1>1, <1>3, <1>4, <1>5, <1>6
   DEF Contract!ContractNext, StorageInv, EpochsCover

(* A timeout, recorded or not, handed out or not.                          *)
LEMMA SignTimeoutStep ==
  ASSUME StorageInv, NEW r \in Round, NEW c \in Block, SignTimeout(r, round[c])
  PROVE  StorageInv' /\ (Contract!ContractNext \/ UNCHANGED released)
<1> DEFINE sd == internal_store
           td == timed_out_data(internal_store, r)
           h == round[c]
<1>0. /\ safety_data = sd /\ sd \in SafetyData /\ sd.epoch \in Nat
      /\ sd.last_voted_round \in Nat /\ sd.one_chain_round \in Nat
      /\ sd.highest_timeout_round \in Nat /\ sd.last_vote \in Block \cup {None}
      /\ h \in Nat /\ r \in Nat
      /\ \A d \in Block : round[d] \in Nat /\ round[parent[d]] \in Nat
  BY ReadCoherent, BlockAssumption, EpochAssumption
<1>1. /\ td \in SafetyData /\ td.epoch = sd.epoch
      /\ td.last_vote = sd.last_vote
      /\ td.last_voted_round >= r
      /\ td.last_voted_round >= sd.last_voted_round
      /\ td.highest_timeout_round >= r
      /\ td.highest_timeout_round >= sd.highest_timeout_round
      /\ td.one_chain_round = sd.one_chain_round
      /\ td.last_voted_round \in Nat /\ td.highest_timeout_round \in Nat
  BY <1>0, TimedOutData DEF SafetyData
<1> HIDE DEF h, td
<1>2. /\ UNCHANGED <<waypoint, epoch_state, validator_signer>>
      /\ votes' = votes /\ order_votes' = order_votes
      /\ cached_safety_data' \in {None, internal_store'}
      /\ \/ internal_store' = td /\ timeouts' = timeouts \cup {<<sd.epoch, r, h>>}
         \/ internal_store' = td /\ timeouts' = timeouts
         \/ internal_store' = sd /\ timeouts' = timeouts
      /\ r >= sd.last_voted_round
      /\ h >= sd.one_chain_round
  BY <1>0 DEF SignTimeout, set_safety_data, set_safety_data_fails, session_vars,
              safe_to_timeout, td, h
<1>4. TypeOK' /\ CacheCoherent' /\ EpochsInOrder'
  BY <1>0, <1>1, <1>2 DEF StorageInv, TypeOK, CacheCoherent, EpochsInOrder
<1>5. CASE internal_store' = sd /\ timeouts' = timeouts
  BY <1>2, <1>4, <1>5, CoverUnchanged DEF released, StorageInv
<1>6. ASSUME internal_store' = td,
             timeouts' \subseteq timeouts \cup {<<sd.epoch, r, h>>}
      PROVE  /\ EpochsCover' /\ LastVoteCovered' /\ VotesCovered'
             /\ TimeoutsCovered' /\ OrderVotesCovered'
  <2>0. \A t \in timeouts' :
          t \in timeouts \/ (t[1] = sd.epoch /\ t[2] = r /\ t[3] = h)
    BY <1>6
  <2>1. EpochsCover'
    BY <1>0, <1>1, <1>2, <1>6, <2>0 DEF StorageInv, EpochsCover
  <2>2. LastVoteCovered'
    BY <1>0, <1>1, <1>6 DEF StorageInv, LastVoteCovered
  <2>3. VotesCovered'
    BY <1>0, <1>1, <1>2, <1>6 DEF StorageInv, VotesCovered
  <2>4. TimeoutsCovered'
    BY <1>0, <1>1, <1>2, <1>6, <2>0, Components
       DEF StorageInv, TimeoutsCovered, LastVoteCovered
  <2>5. OrderVotesCovered'
    BY <1>0, <1>1, <1>2, <1>6 DEF StorageInv, OrderVotesCovered
  <2> QED BY <2>1, <2>2, <2>3, <2>4, <2>5
<1>7. StorageInv'
  BY <1>2, <1>4, <1>5, <1>6 DEF StorageInv
<1>8. ASSUME timeouts' = timeouts \cup {<<sd.epoch, r, h>>}
      PROVE  Contract!ReleaseTimeout(sd.epoch, r, h)
  <2>1. Contract!NoLaterEpoch(sd.epoch)
    BY DEF Contract!NoLaterEpoch, StorageInv, EpochsCover
  <2>2. \A v \in votes :
          v[1] = sd.epoch => round[v[2]] <= r /\ round[parent[v[2]]] <= h
    BY <1>0, <1>2, Components DEF StorageInv, VotesCovered, LastVoteCovered
  <2>3. \A v \in order_votes : v[1] = sd.epoch => round[v[2]] <= h
    BY <1>0, <1>2, Components DEF StorageInv, OrderVotesCovered
  <2>4. \A t \in timeouts : t[1] = sd.epoch => t[2] <= r
    BY <1>0, <1>2, Components DEF StorageInv, TimeoutsCovered
  <2> QED BY <1>2, <1>8, <2>1, <2>2, <2>3, <2>4 DEF Contract!ReleaseTimeout
<1>9. CASE timeouts' = timeouts \cup {<<sd.epoch, r, h>>}
  BY <1>7, <1>8, <1>9 DEF Contract!ContractNext, StorageInv, EpochsCover, h
<1> QED BY <1>2, <1>7, <1>9 DEF released
(* An order vote, recorded or not, handed out or not.                      *)
LEMMA SignOrderVoteStep ==
  ASSUME StorageInv, NEW b \in Block, SignOrderVote(b)
  PROVE  StorageInv' /\ (Contract!ContractNext \/ UNCHANGED released)
<1> DEFINE sd == internal_store
           od == observe_qc(internal_store, b)
<1>0. /\ safety_data = sd /\ sd \in SafetyData /\ sd.epoch \in Nat
      /\ sd.last_voted_round \in Nat /\ sd.one_chain_round \in Nat
      /\ sd.highest_timeout_round \in Nat /\ sd.last_vote \in Block \cup {None}
      /\ round[b] \in Nat
      /\ \A c \in Block : round[c] \in Nat /\ round[parent[c]] \in Nat
  BY ReadCoherent, BlockAssumption
<1>1. /\ od \in SafetyData /\ od.epoch = sd.epoch
      /\ od.last_vote = sd.last_vote
      /\ od.last_voted_round = sd.last_voted_round
      /\ od.highest_timeout_round = sd.highest_timeout_round
      /\ od.one_chain_round >= round[b]
      /\ od.one_chain_round >= sd.one_chain_round
      /\ od.one_chain_round \in Nat
  BY <1>0, ObservedData DEF SafetyData
<1>2. /\ UNCHANGED <<waypoint, epoch_state, validator_signer>>
      /\ votes' = votes /\ timeouts' = timeouts
      /\ cached_safety_data' \in {None, internal_store'}
      /\ \/ /\ internal_store' = od
            /\ order_votes' = order_votes \cup {<<sd.epoch, b>>}
         \/ internal_store' = od /\ order_votes' = order_votes
         \/ internal_store' = sd /\ order_votes' = order_votes
      /\ round[b] > sd.highest_timeout_round
  BY <1>0 DEF SignOrderVote, set_safety_data, set_safety_data_fails,
              session_vars, safe_for_order_vote, order_voted_data
<1> HIDE DEF od
<1>4. TypeOK' /\ CacheCoherent' /\ EpochsInOrder'
  BY <1>0, <1>1, <1>2 DEF StorageInv, TypeOK, CacheCoherent, EpochsInOrder
<1>5. CASE internal_store' = sd /\ order_votes' = order_votes
  BY <1>2, <1>4, <1>5, CoverUnchanged DEF released, StorageInv
<1>6. ASSUME internal_store' = od,
             order_votes' \subseteq order_votes \cup {<<sd.epoch, b>>}
      PROVE  /\ EpochsCover' /\ LastVoteCovered' /\ VotesCovered'
             /\ TimeoutsCovered' /\ OrderVotesCovered'
  <2>0. \A v \in order_votes' :
          v \in order_votes \/ (v[1] = sd.epoch /\ v[2] = b)
    BY <1>6
  <2>1. EpochsCover'
    BY <1>0, <1>1, <1>2, <1>6, <2>0 DEF StorageInv, EpochsCover
  <2>2. LastVoteCovered'
    BY <1>0, <1>1, <1>6 DEF StorageInv, LastVoteCovered
  <2>3. VotesCovered'
    BY <1>0, <1>1, <1>2, <1>6, Components DEF StorageInv, VotesCovered
  <2>4. TimeoutsCovered'
    BY <1>0, <1>1, <1>2, <1>6 DEF StorageInv, TimeoutsCovered
  <2>5. OrderVotesCovered'
    BY <1>0, <1>1, <1>2, <1>6, <2>0, Components DEF StorageInv, OrderVotesCovered
  <2> QED BY <2>1, <2>2, <2>3, <2>4, <2>5
<1>7. StorageInv'
  BY <1>2, <1>4, <1>5, <1>6 DEF StorageInv
<1>8. ASSUME order_votes' = order_votes \cup {<<sd.epoch, b>>}
      PROVE  Contract!ReleaseOrderVote(sd.epoch, b)
  BY <1>0, <1>2, <1>8, Components
     DEF Contract!ReleaseOrderVote, Contract!NoLaterEpoch, StorageInv,
         EpochsCover, TimeoutsCovered
<1> QED BY <1>2, <1>7, <1>8
   DEF released, Contract!ContractNext, StorageInv, EpochsCover

(* The steps that release nothing: reads, initializations complete or cut  *)
(* short, restarts, and stuttering.                                        *)
LEMMA SessionStep ==
  ASSUME StorageInv,
         \/ ConsensusState
         \/ \E e \in Epoch : \/ InitializeWaypointFails(e)
                             \/ InitializeSafetyDataFails(e)
                             \/ Initialize(e)
         \/ Restart
         \/ UNCHANGED vars
  PROVE  StorageInv' /\ UNCHANGED released
<1>0. /\ safety_data = internal_store /\ read_cache \in {None, internal_store}
      /\ internal_store \in SafetyData /\ internal_store.epoch \in Nat
  BY ReadCoherent
<1>1. \A e \in Epoch : e \in Nat /\ new_safety_data(e) \in SafetyData
                       /\ new_safety_data(e).epoch = e
  BY EpochAssumption DEF new_safety_data, SafetyData
<1>2. CASE UNCHANGED vars
  <2>1. internal_store' = internal_store /\ UNCHANGED released
    BY <1>2 DEF vars, storage_vars, released
  <2>2. TypeOK' /\ CacheCoherent' /\ EpochsInOrder'
    BY <1>2 DEF vars, storage_vars, session_vars, released, StorageInv, TypeOK,
                CacheCoherent, EpochsInOrder
  <2> QED BY <2>1, <2>2, CoverUnchanged DEF StorageInv
<1>3. CASE ConsensusState \/ Restart
  <2>1. /\ internal_store' = internal_store /\ UNCHANGED released
        /\ votes' = votes /\ timeouts' = timeouts /\ order_votes' = order_votes
        /\ waypoint' = waypoint
        /\ epoch_state' \in {epoch_state, None}
        /\ validator_signer' \in {validator_signer, None}
        /\ cached_safety_data' \in {None, internal_store}
    BY <1>0, <1>3 DEF ConsensusState, Restart, session_vars, released
  <2>2. TypeOK' /\ CacheCoherent' /\ EpochsInOrder'
    BY <2>1, <1>0 DEF StorageInv, TypeOK, CacheCoherent, EpochsInOrder
  <2> QED BY <2>1, <2>2, CoverUnchanged DEF StorageInv
<1>4. ASSUME NEW e \in Epoch, InitializeWaypointFails(e)
      PROVE  StorageInv' /\ UNCHANGED released
  <2>1. /\ internal_store' = internal_store /\ UNCHANGED released
        /\ votes' = votes /\ timeouts' = timeouts /\ order_votes' = order_votes
        /\ UNCHANGED <<epoch_state, validator_signer, cached_safety_data>>
        /\ waypoint' \in {waypoint, e} /\ e > waypoint
    BY <1>4 DEF InitializeWaypointFails, storage_vars, released
  <2>2. TypeOK' /\ CacheCoherent' /\ EpochsInOrder'
    BY <2>1, <1>0, <1>1, EpochAssumption
       DEF StorageInv, TypeOK, CacheCoherent, EpochsInOrder
  <2> QED BY <2>1, <2>2, CoverUnchanged DEF StorageInv
<1>5. ASSUME NEW e \in Epoch, InitializeSafetyDataFails(e) \/ Initialize(e)
      PROVE  StorageInv' /\ UNCHANGED released
  <2>1. /\ UNCHANGED released
        /\ votes' = votes /\ timeouts' = timeouts /\ order_votes' = order_votes
        /\ waypoint' = e
        /\ cached_safety_data' \in {None, internal_store'}
        /\ \/ /\ internal_store.epoch < e
              /\ internal_store' = new_safety_data(e)
           \/ internal_store' = internal_store /\ internal_store.epoch <= e
    BY <1>0, <1>1, <1>5
       DEF InitializeSafetyDataFails, Initialize, released, set_safety_data,
           set_safety_data_fails
  <2>2. \/ epoch_state' = epoch_state
        \/ epoch_state' = e /\ internal_store'.epoch = e
    BY <1>0, <1>1, <1>5
       DEF InitializeSafetyDataFails, Initialize, set_safety_data
  <2>3. validator_signer' \in Key \cup {None}
    BY <1>5, EpochAssumption
       DEF InitializeSafetyDataFails, Initialize, reconciled_signers,
           StorageInv, TypeOK
  <2>4. TypeOK' /\ CacheCoherent' /\ EpochsInOrder'
    BY <2>1, <2>2, <2>3, <1>0, <1>1, EpochAssumption
       DEF StorageInv, TypeOK, CacheCoherent, EpochsInOrder
  <2> QED BY <2>1, <2>4, CoverUnchanged, CoverNewEpoch DEF StorageInv
<1> QED BY <1>2, <1>3, <1>4, <1>5

(* One step, of any kind.                                                  *)
LEMMA StepLemma ==
  ASSUME StorageInv, [Next]_vars
  PROVE  StorageInv' /\ (Contract!ContractNext \/ UNCHANGED released)
<1>1. ASSUME NEW b \in Block, SignVote(b) \/ ReturnLastVote(b) \/ SignOrderVote(b)
      PROVE  StorageInv' /\ (Contract!ContractNext \/ UNCHANGED released)
  BY <1>1, SignVoteStep, ReturnLastVoteStep, SignOrderVoteStep
<1>2. ASSUME NEW r \in Round, NEW h \in {round[b] : b \in Block}, SignTimeout(r, h)
      PROVE  StorageInv' /\ (Contract!ContractNext \/ UNCHANGED released)
  BY <1>2, SignTimeoutStep
<1>3. CASE \/ ConsensusState
           \/ \E e \in Epoch : \/ InitializeWaypointFails(e)
                               \/ InitializeSafetyDataFails(e)
                               \/ Initialize(e)
           \/ Restart
           \/ UNCHANGED vars
  BY <1>3, SessionStep
<1> QED BY <1>1, <1>2, <1>3 DEF Next

-----------------------------------------------------------------------------
(* The inductive invariant holds in every reachable state: the record in   *)
(* the secure storage covers every signature released, wherever a write    *)
(* failed or the process stopped.                                          *)
THEOREM StorageInvariant == Spec => []StorageInv
BY InitStorageInv, StepLemma, PTL DEF Spec

(* The cache of PersistentSafetyStorage never differs from the store.      *)
THEOREM CacheCoherence == Spec => []CacheCoherent
<1>1. StorageInv => CacheCoherent
  BY DEF StorageInv
<1> QED BY <1>1, StorageInvariant, PTL

(* The three places that hold an epoch stay ordered, so a restart finds a  *)
(* waypoint that covers the persisted epoch.                               *)
THEOREM EpochOrder == Spec => []EpochsInOrder
<1>1. StorageInv => EpochsInOrder
  BY DEF StorageInv
<1> QED BY <1>1, StorageInvariant, PTL

(* SafetyRules with its storage implements the voting contract.            *)
THEOREM KeepsContract == Spec => ContractKept
<1>1. Init => Contract!ContractInit
  BY DEF Init, Contract!ContractInit
<1>2. StorageInv /\ [Next]_vars => [Contract!ContractNext]_(Contract!released)
  BY StepLemma DEF Contract!released, released
<1> QED BY <1>1, <1>2, StorageInvariant, PTL
   DEF Spec, ContractKept, Contract!ContractSpec

----------------------------------------------------------------------------
(* Counting: ValidatorVerifier and PendingOrderVotes.                      *)

(* What an additive weight gives for unions, subsets and complements.      *)
LEMMA WeightFacts ==
  ASSUME NEW w \in Weights, NEW S \in SUBSET Validator, NEW T \in SUBSET Validator
  PROVE  /\ w[S] \in Nat /\ w[T] \in Nat /\ w[Validator] \in Nat
         /\ w[S \cap T] \in Nat
         /\ w[Validator] = w[S] + w[Validator \ S]
         /\ S \subseteq T => w[S] <= w[T]
         /\ w[S] + w[T] <= w[Validator] + w[S \cap T]
<1>1. /\ \A A \in SUBSET Validator : w[A] \in Nat
      /\ \A A, B \in SUBSET Validator : A \cap B = {} => w[A \cup B] = w[A] + w[B]
  BY WeightsAssumption DEF Additive
<1>2. ASSUME NEW A \in SUBSET Validator, NEW B \in SUBSET Validator, A \subseteq B
      PROVE  w[B] = w[A] + w[B \ A]
  <2>1. A \cap (B \ A) = {} /\ A \cup (B \ A) = B /\ B \ A \in SUBSET Validator
    BY <1>2
  <2> QED BY <1>1, <2>1
<1>3. \A A, B \in SUBSET Validator : A \subseteq B => w[A] <= w[B]
  <2> SUFFICES ASSUME NEW A \in SUBSET Validator, NEW B \in SUBSET Validator,
                      A \subseteq B
               PROVE  w[A] <= w[B]
    OBVIOUS
  <2>1. w[B] = w[A] + w[B \ A] /\ B \ A \in SUBSET Validator
    BY <1>2
  <2> QED BY <1>1, <2>1
<1>4. w[Validator] = w[S] + w[Validator \ S]
  BY <1>2
<1>5. w[S] + w[T] <= w[Validator] + w[S \cap T]
  <2>1. w[T] = w[S \cap T] + w[T \ (S \cap T)]
    BY <1>2
  <2>2. w[T \ (S \cap T)] <= w[Validator \ S]
    BY <1>3
  <2>3. /\ w[S] \in Nat /\ w[T] \in Nat /\ w[Validator] \in Nat
        /\ w[S \cap T] \in Nat /\ w[T \ (S \cap T)] \in Nat
        /\ w[Validator \ S] \in Nat
    BY <1>1
  <2> QED BY <1>4, <2>1, <2>2, <2>3
<1> QED BY <1>1, <1>3, <1>4, <1>5

(* The arithmetic of the threshold: total * 2 / 3 + 1.                     *)
LEMMA Threshold ==
  ASSUME NEW t \in Nat, NEW f \in Nat, 3 * f < t
  PROVE  /\ default_quorum(t) \in Nat
         /\ 2 * default_quorum(t) > t + f
         /\ t - f >= default_quorum(t)
         /\ t - default_quorum(t) + 1 > f
BY DEF default_quorum

(* Two quorums share an honest validator, in every epoch.                  *)
THEOREM QuorumIntersection == VerifierSpec => []QuorumsShareHonest
<1> DEFINE Inv == VerifierTypeOK /\ FaultBound
<1>1. VerifierInit => Inv
  BY DEF VerifierInit, VerifierTypeOK
<1>2. Inv /\ [VerifierNext]_verifier => Inv'
  BY DEF VerifierNext, NewEpoch, verifier, VerifierTypeOK, FaultBound, total_voting_power
<1>3. Inv => QuorumsShareHonest
  <2> SUFFICES ASSUME Inv,
                      NEW Q1 \in SUBSET Validator, NEW Q2 \in SUBSET Validator,
                      check_voting_power(Q1, TRUE), check_voting_power(Q2, TRUE),
                      (Q1 \cap Q2) \ byzantine = {}
               PROVE  FALSE
    BY DEF QuorumsShareHonest
  <2> DEFINE t == weight[Validator]
             f == weight[byzantine]
  <2>1. weight \in Weights /\ byzantine \in SUBSET Validator /\ 3 * f < t
    BY DEF VerifierTypeOK, FaultBound, total_voting_power
  <2>2. /\ t \in Nat /\ f \in Nat /\ weight[Q1] \in Nat /\ weight[Q2] \in Nat
        /\ weight[Q1 \cap Q2] \in Nat
        /\ weight[Q1] + weight[Q2] <= t + weight[Q1 \cap Q2]
    BY <2>1, WeightFacts
  <2>3. weight[Q1 \cap Q2] <= f
    <3>1. Q1 \cap Q2 \in SUBSET Validator /\ Q1 \cap Q2 \subseteq byzantine
      OBVIOUS
    <3> QED BY <2>1, <3>1, WeightFacts
  <2>4. weight[Q1] >= default_quorum(t) /\ weight[Q2] >= default_quorum(t)
    BY DEF check_voting_power, quorum_voting_power, total_voting_power
  <2>5. default_quorum(t) \in Nat /\ 2 * default_quorum(t) > t + f
    BY <2>1, <2>2, Threshold
  <2> HIDE DEF t, f
  <2> QED BY <2>2, <2>3, <2>4, <2>5
<1> QED BY <1>1, <1>2, <1>3, PTL DEF VerifierSpec

(* The honest validators reach the quorum alone, and any f+1 of voting     *)
(* power contains an honest validator, in every epoch.                     *)
THEOREM HonestThresholds == VerifierSpec => []HonestSuffice
<1> DEFINE Inv == VerifierTypeOK /\ FaultBound
<1>1. VerifierInit => Inv
  BY DEF VerifierInit, VerifierTypeOK
<1>2. Inv /\ [VerifierNext]_verifier => Inv'
  BY DEF VerifierNext, NewEpoch, verifier, VerifierTypeOK, FaultBound, total_voting_power
<1>3. Inv => HonestSuffice
  <2> SUFFICES ASSUME Inv PROVE HonestSuffice
    OBVIOUS
  <2> DEFINE t == weight[Validator]
             f == weight[byzantine]
             h == weight[Validator \ byzantine]
  <2>1. weight \in Weights /\ byzantine \in SUBSET Validator /\ 3 * f < t
    BY DEF VerifierTypeOK, FaultBound, total_voting_power
  <2>2. t \in Nat /\ f \in Nat /\ h \in Nat /\ t = f + h
    BY <2>1, WeightFacts
  <2>3. /\ default_quorum(t) \in Nat
        /\ t - f >= default_quorum(t)
        /\ t - default_quorum(t) + 1 > f
    BY <2>1, <2>2, Threshold
  <2>4. check_voting_power(Validator \ byzantine, TRUE)
    <3>1. h >= default_quorum(t)
      <4> HIDE DEF t, f, h
      <4> QED BY <2>2, <2>3
    <3> QED BY <3>1 DEF check_voting_power, quorum_voting_power, total_voting_power
  <2>5. ASSUME NEW S \in SUBSET Validator, check_voting_power(S, FALSE),
               S \ byzantine = {}
        PROVE  FALSE
    <3>1. weight[S] >= t - default_quorum(t) + 1
      BY <2>5 DEF check_voting_power, quorum_voting_power, total_voting_power
    <3>2. weight[S] <= f /\ weight[S] \in Nat
      <4>1. S \subseteq byzantine
        BY <2>5
      <4> QED BY <2>1, <4>1, WeightFacts
    <3> HIDE DEF t, f
    <3> QED BY <2>2, <2>3, <3>1, <3>2
  <2> QED BY <2>4, <2>5 DEF HonestSuffice
<1> QED BY <1>1, <1>2, <1>3, PTL DEF VerifierSpec

-----------------------------------------------------------------------------

(* check_voting_power(S, TRUE) under the powers w.                         *)
Enough(w, S) == w[S] >= default_quorum(w[Validator])

(* The powers and the Byzantine validators an epoch may have.              *)
EpochOK(w, b) ==
  /\ w \in Weights /\ b \in SUBSET Validator
  /\ 3 * w[b] < w[Validator]

(* The signatures of an entry, of which H have arrived from honest         *)
(* validators: only Byzantine ones are invalid, and an honest validator    *)
(* signs for itself.                                                       *)
Fits(w, b, e, H) ==
  /\ e.valid \ b \subseteq H
  /\ e.invalid \subseteq b
  /\ e.cert # {} => Enough(w, e.cert) /\ e.cert \ b \subseteq H

(* No vote of an honest validator is lost before the certificate is made.  *)
Counts(w, e, H) ==
  e.cert = {} => H \subseteq e.valid /\ ~ Enough(w, e.valid)

(* What the invariant says of the entries E, with the honest votes H and   *)
(* the ordered round h.                                                    *)
EntriesOK(w, b, E, H, h) ==
  /\ E \in [LedgerInfo -> Entry]
  /\ H \in [LedgerInfo -> SUBSET (Validator \ b)]
  /\ \A li \in LedgerInfo :
       /\ Fits(w, b, E[li], H[li])
       /\ RoundOf[li] > h => Counts(w, E[li], H[li])
       /\ E[li].exists => li \in Certified

(* The inductive invariant.                                                *)
OrderInv ==
  /\ OrderTypeOK
  /\ EpochOK(weight, byzantine)
  /\ EntriesOK(weight, byzantine, li_digest_to_votes, heard, highest_ordered_round)

----------------------------------------------------------------------------
(* Nobody is not a quorum, and who joins a quorum does not undo it.        *)
LEMMA EnoughFacts ==
  ASSUME NEW w, NEW b, EpochOK(w, b)
  PROVE  /\ ~ Enough(w, {})
         /\ \A S, T \in SUBSET Validator :
              S \subseteq T /\ Enough(w, S) => Enough(w, T)
<1>1. /\ w \in Weights /\ w[Validator] \in Nat /\ w[b] \in Nat
      /\ 3 * w[b] < w[Validator]
  BY WeightFacts DEF EpochOK
<1>2. w[{}] = 0
  BY <1>1, WeightsAssumption DEF Additive
<1>3. default_quorum(w[Validator]) \in Nat \ {0}
  BY <1>1 DEF default_quorum
<1>4. ASSUME NEW S \in SUBSET Validator, NEW T \in SUBSET Validator,
             S \subseteq T, Enough(w, S)
      PROVE  Enough(w, T)
  <2>1. w[S] \in Nat /\ w[T] \in Nat /\ w[S] <= w[T]
    BY <1>1, <1>4, WeightFacts
  <2> QED BY <1>3, <1>4, <2>1 DEF Enough
<1>5. ~ Enough(w, {})
  BY <1>2, <1>3 DEF Enough
<1> QED BY <1>4, <1>5

(* The honest part of a quorum has f+1 of the voting power.                *)
LEMMA HonestPart ==
  ASSUME NEW w, NEW b, EpochOK(w, b), NEW S \in SUBSET Validator, Enough(w, S),
         NEW H \in SUBSET Validator, S \ b \subseteq H
  PROVE  w[S \cap H] >= w[Validator] - default_quorum(w[Validator]) + 1
<1> DEFINE t == w[Validator]
           f == w[b]
           h == w[Validator \ b]
           s == w[S]
           m == w[S \cap (Validator \ b)]
           n == w[S \cap H]
           q == default_quorum(t)
<1>1. w \in Weights /\ b \in SUBSET Validator /\ 3 * f < t /\ s >= q
  BY DEF EpochOK, Enough
<1>2. t \in Nat /\ f \in Nat /\ t = f + h
  BY <1>1, WeightFacts
<1>3. s \in Nat /\ h \in Nat /\ m \in Nat /\ s + h <= t + m
  BY <1>1, WeightFacts
<1>4. n \in Nat /\ m <= n
  <2>1. S \cap (Validator \ b) \in SUBSET Validator /\ S \cap H \in SUBSET Validator
        /\ S \cap (Validator \ b) \subseteq S \cap H
    OBVIOUS
  <2> QED BY <1>1, <2>1, WeightFacts
<1>5. q \in Nat /\ 2 * q > t + f
  BY <1>1, <1>2, Threshold
<1> HIDE DEF t, f, h, s, m, n, q
<1>6. n >= t - q + 1
  BY <1>1, <1>2, <1>3, <1>4, <1>5
<1> QED BY <1>6 DEF t, n, q

(* insert_order_vote takes an honest vote into account, and keeps those it *)
(* had, whatever the aggregate turns out to be.                            *)
LEMMA InsertVote ==
  ASSUME EpochOK(weight, byzantine),
         NEW e \in Entry, e.cert = {},
         NEW H \in SUBSET (Validator \ byzantine),
         Fits(weight, byzantine, e, H), Counts(weight, e, H),
         NEW a \in Validator, NEW good \in BOOLEAN, a \notin byzantine => good,
         NEW r \in insert_order_vote(e, a, good)
  PROVE  /\ r \in Entry
         /\ Fits(weight, byzantine, r, H \cup ({a} \ byzantine))
         /\ Counts(weight, r, H \cup ({a} \ byzantine))
<1> DEFINE V == Signed(e.valid, a, good)
           I == Signed(e.invalid, a, ~ good)
           G == H \cup ({a} \ byzantine)
<1>1. /\ e.valid \in SUBSET Validator /\ e.invalid \in SUBSET Validator
      /\ e.valid \ byzantine \subseteq H /\ e.invalid \subseteq byzantine
      /\ H \subseteq e.valid
  BY DEF Entry, Fits, Counts
<1>2. V \in SUBSET Validator /\ I \in SUBSET Validator
  BY <1>1 DEF Signed
<1>3. V \ byzantine \subseteq G /\ I \subseteq byzantine /\ G \subseteq V
  BY <1>1 DEF Signed
<1>4. \A S : check_voting_power(S, TRUE) <=> Enough(weight, S)
  BY DEF check_voting_power, Enough, quorum_voting_power, total_voting_power
<1>5. PICK x \in IF check_voting_power(V \cup I, TRUE)
                 THEN aggregate_and_verify(V, I) ELSE {<<V, I, {}>>} :
        r = [exists |-> TRUE, valid |-> x[1], invalid |-> x[2], cert |-> x[3]]
  BY Zenon DEF insert_order_vote
<1> HIDE DEF V, I, G
<1>6. /\ ~ Enough(weight, {})
      /\ Enough(weight, V) => Enough(weight, V \cup I)
  BY <1>2, EnoughFacts
<1>7. \/ ~ Enough(weight, V \cup I) /\ x = <<V, I, {}>>
      \/ Enough(weight, V \cup I) /\ x = <<V, I, V \cup I>>
      \/ Enough(weight, V) /\ x = <<V, {}, V>>
      \/ ~ Enough(weight, V) /\ x = <<V, {}, {}>>
  BY <1>4, <1>5, Zenon DEF aggregate_and_verify
<1>8. r.valid = x[1] /\ r.invalid = x[2] /\ r.cert = x[3]
  BY <1>5
<1>9. r \in Entry
  BY <1>2, <1>5, <1>7 DEF Entry
<1>10. Fits(weight, byzantine, r, G)
  BY <1>3, <1>7, <1>8 DEF Fits
<1>11. Counts(weight, r, G)
  <2>1. CASE ~ Enough(weight, V \cup I) /\ x = <<V, I, {}>>
    BY <1>3, <1>6, <1>8, <2>1 DEF Counts
  <2>2. CASE Enough(weight, V \cup I) /\ x = <<V, I, V \cup I>>
    <3>1. V \cup I # {}
      BY <1>6, <2>2
    <3> QED BY <1>8, <2>2, <3>1 DEF Counts
  <2>3. CASE Enough(weight, V) /\ x = <<V, {}, V>>
    <3>1. V # {}
      BY <1>6, <2>3
    <3> QED BY <1>8, <2>3, <3>1 DEF Counts
  <2>4. CASE ~ Enough(weight, V) /\ x = <<V, {}, {}>>
    BY <1>3, <1>8, <2>4 DEF Counts
  <2> QED BY <1>7, <2>1, <2>2, <2>3, <2>4
<1> QED BY <1>9, <1>10, <1>11 DEF G

(* An empty entry is in order where nothing was heard, and where the block *)
(* is ordered.                                                             *)
LEMMA NoEntryOK ==
  ASSUME NEW w, NEW b, EpochOK(w, b)
  PROVE  /\ NoEntry \in Entry /\ NoEntry.exists = FALSE
         /\ \A H : Fits(w, b, NoEntry, H)
         /\ Counts(w, NoEntry, {})
BY EnoughFacts DEF NoEntry, Entry, Fits, Counts

(* Nothing that still counts is collected as garbage, as long as no more   *)
(* is than what is ordered.                                                *)
LEMMA Collected ==
  ASSUME NEW w, NEW b, EpochOK(w, b), NEW E, NEW H, NEW h \in Nat, NEW g \in Nat,
         g <= h, EntriesOK(w, b, E, H, h)
  PROVE  EntriesOK(w, b, garbage_collect(E, g), H, h)
<1> DEFINE D == garbage_collect(E, g)
<1>0. E \in [LedgerInfo -> Entry] /\ NoEntry \in Entry
  BY NoEntryOK, Zenon DEF EntriesOK
<1>1. D = [li \in LedgerInfo |-> IF RoundOf[li] > g THEN E[li] ELSE NoEntry]
  BY DEF garbage_collect
<1> HIDE DEF D
<1>2. D \in [LedgerInfo -> Entry]
  BY <1>0, <1>1
<1>3. ASSUME NEW li \in LedgerInfo
      PROVE  /\ Fits(w, b, D[li], H[li])
             /\ RoundOf[li] > h => Counts(w, D[li], H[li])
             /\ D[li].exists => li \in Certified
  <2>1. CASE D[li] = E[li]
    BY <2>1 DEF EntriesOK
  <2>2. CASE D[li] = NoEntry /\ ~ RoundOf[li] > g
    <3>1. ~ RoundOf[li] > h
      BY <2>2, OrderAssumption
    <3> QED BY <2>2, <3>1, NoEntryOK, Zenon
  <2> QED BY <1>1, <2>1, <2>2
<1>4. EntriesOK(w, b, D, H, h)
  BY <1>2, <1>3 DEF EntriesOK
<1> QED BY <1>4 DEF D

(* The ordered round moving up leaves less to keep.                        *)
LEMMA Ordered ==
  ASSUME NEW w, NEW b, NEW E, NEW H, NEW h \in Nat, NEW k \in Nat, h <= k,
         EntriesOK(w, b, E, H, h)
  PROVE  EntriesOK(w, b, E, H, k)
BY OrderAssumption DEF EntriesOK

(* No votes and nobody heard is in order.                                  *)
LEMMA FreshOK ==
  ASSUME NEW w, NEW b, EpochOK(w, b), NEW h
  PROVE  EntriesOK(w, b, NoVotes, Nobody, h)
BY NoEntryOK, Zenon DEF EntriesOK, NoVotes, Nobody

(* A vote is taken into its entry.                                         *)
LEMMA VoteTaken ==
  ASSUME OrderInv, NEW li \in LedgerInfo, NEW a \in Validator,
         NEW good \in BOOLEAN, a \notin byzantine => good,
         ~ has_enough_order_votes(li), RoundOf[li] > highest_ordered_round,
         li \in Certified,
         NEW e \in insert_order_vote(li_digest_to_votes[li], a, good)
  PROVE  EntriesOK(weight, byzantine, [li_digest_to_votes EXCEPT ![li] = e],
                   [heard EXCEPT ![li] = @ \cup ({a} \ byzantine)],
                   highest_ordered_round)
<1> DEFINE E == [li_digest_to_votes EXCEPT ![li] = e]
           H == [heard EXCEPT ![li] = @ \cup ({a} \ byzantine)]
<1>1. /\ EpochOK(weight, byzantine)
      /\ EntriesOK(weight, byzantine, li_digest_to_votes, heard, highest_ordered_round)
  BY DEF OrderInv
<1>2. /\ li_digest_to_votes \in [LedgerInfo -> Entry]
      /\ heard \in [LedgerInfo -> SUBSET (Validator \ byzantine)]
      /\ Fits(weight, byzantine, li_digest_to_votes[li], heard[li])
      /\ Counts(weight, li_digest_to_votes[li], heard[li])
  BY <1>1 DEF EntriesOK
<1>3. /\ li_digest_to_votes[li] \in Entry /\ li_digest_to_votes[li].cert = {}
      /\ heard[li] \in SUBSET (Validator \ byzantine)
  BY <1>2 DEF has_enough_order_votes
<1>4. /\ e \in Entry
      /\ Fits(weight, byzantine, e, heard[li] \cup ({a} \ byzantine))
      /\ Counts(weight, e, heard[li] \cup ({a} \ byzantine))
  BY <1>1, <1>2, <1>3, InsertVote
<1>5. /\ E \in [LedgerInfo -> Entry]
      /\ H \in [LedgerInfo -> SUBSET (Validator \ byzantine)]
      /\ E[li] = e /\ H[li] = heard[li] \cup ({a} \ byzantine)
      /\ \A k \in LedgerInfo \ {li} : E[k] = li_digest_to_votes[k] /\ H[k] = heard[k]
  BY <1>2, <1>4
<1> HIDE DEF E, H
<1>6. ASSUME NEW k \in LedgerInfo
      PROVE  /\ Fits(weight, byzantine, E[k], H[k])
             /\ RoundOf[k] > highest_ordered_round => Counts(weight, E[k], H[k])
             /\ E[k].exists => k \in Certified
  <2>1. CASE k = li
    BY <1>4, <1>5, <2>1, Zenon
  <2>2. CASE k # li
    BY <1>1, <1>5, <2>2 DEF EntriesOK
  <2> QED BY <2>1, <2>2
<1>7. EntriesOK(weight, byzantine, E, H, highest_ordered_round)
  BY <1>5, <1>6 DEF EntriesOK
<1> QED BY <1>7 DEF E, H

(* The handlers that move the ordered round to k and collect the entries   *)
(* up to g.                                                                *)
LEMMA OrderedAndCollected ==
  ASSUME NEW w, NEW b, EpochOK(w, b), NEW E, NEW H, NEW h \in Nat, NEW k \in Nat,
         NEW g \in Nat, h <= k, g <= k, EntriesOK(w, b, E, H, h)
  PROVE  EntriesOK(w, b, garbage_collect(E, g), H, k)
BY Collected, Ordered, Zenon

(* Every handler keeps the entries in order.                               *)
LEMMA EntriesStep ==
  ASSUME OrderInv, [OrderNext]_order_vars
  PROVE  /\ EpochOK(weight, byzantine)'
         /\ highest_ordered_round' \in Nat
         /\ EntriesOK(weight, byzantine, li_digest_to_votes, heard, highest_ordered_round)'
<1> DEFINE h == highest_ordered_round
           OK(E, H, k) == EntriesOK(weight, byzantine, E, H, k)
           Goal == /\ EpochOK(weight', byzantine')
                   /\ h' \in Nat
                   /\ EntriesOK(weight', byzantine', li_digest_to_votes', heard', h')
<1>1. /\ EpochOK(weight, byzantine) /\ h \in Nat /\ OK(li_digest_to_votes, heard, h)
  BY DEF OrderInv, OrderTypeOK
<1>2. /\ \A li \in LedgerInfo : RoundOf[li] \in Nat /\ CommitRound[li] \in Nat
      /\ \A m, n \in Nat : /\ Larger(m, n) \in Nat
                           /\ m <= Larger(m, n) /\ n <= Larger(m, n)
  BY OrderAssumption DEF Larger
<1>3. ASSUME NEW a \in Validator, NEW li \in LedgerInfo, NEW good \in BOOLEAN,
             NEW qc_verifies \in BOOLEAN,
             process_order_vote_msg(a, li, good, qc_verifies)
      PROVE  Goal
  <2> DEFINE H == [heard EXCEPT ![li] = @ \cup ({a} \ byzantine)]
  <2>1. PICK e \in insert_order_vote(li_digest_to_votes[li], a, good) :
          LET E == [li_digest_to_votes EXCEPT ![li] = e]
          IN  \/ li_digest_to_votes' = E /\ UNCHANGED highest_ordered_round
              \/ new_ordered_cert(li, E)
    BY <1>3, Zenon DEF process_order_vote_msg
  <2> DEFINE E == [li_digest_to_votes EXCEPT ![li] = e]
  <2>2. OK(E, H, h)
    <3>1. /\ a \notin byzantine => good
          /\ ~ has_enough_order_votes(li) /\ RoundOf[li] > highest_ordered_round
      BY <1>3 DEF process_order_vote_msg, in_range
    <3>2. li \in Certified
      BY <1>1, <1>3 DEF process_order_vote_msg, qc_accepted, EntriesOK
    <3> QED BY <3>1, <3>2, VoteTaken
  <2>3. weight' = weight /\ byzantine' = byzantine /\ heard' = H
    BY <1>3 DEF process_order_vote_msg, verifier
  <2> HIDE DEF E, H, OK
  <2>4. CASE li_digest_to_votes' = E /\ UNCHANGED highest_ordered_round
    BY <1>1, <2>2, <2>3, <2>4 DEF OK
  <2>5. CASE /\ highest_ordered_round' = Larger(h, RoundOf[li])
             /\ \E g \in {0, Larger(h, CommitRound[li]), highest_ordered_round'} :
                   li_digest_to_votes' = garbage_collect(E, g)
    <3>1. PICK g \in {0, Larger(h, CommitRound[li]), h'} :
            li_digest_to_votes' = garbage_collect(E, g)
      BY <2>5
    <3>2. h' \in Nat /\ h <= h' /\ g \in Nat /\ g <= h'
      BY <1>1, <1>2, <2>5, <3>1, OrderAssumption DEF Larger
    <3>3. OK(garbage_collect(E, g), H, h')
      BY <1>1, <2>2, <3>2, OrderedAndCollected DEF OK
    <3> QED BY <1>1, <2>3, <3>1, <3>2, <3>3 DEF OK
  <2> QED BY <2>1, <2>4, <2>5 DEF new_ordered_cert, E
<1>4. ASSUME NEW li \in LedgerInfo, insert_quorum_cert(li) \/ add_certs(li)
      PROVE  Goal
  <2>1. PICK k \in {CommitRound[li], RoundOf[li]} : h' = Larger(h, k)
    <3>1. CASE insert_quorum_cert(li)
      BY <3>1, Zenon DEF insert_quorum_cert
    <3>2. CASE add_certs(li)
      <4>1. h' = RoundOf[li] /\ RoundOf[li] > h
        BY <3>2, Zenon DEF add_certs
      <4>2. h' = Larger(h, RoundOf[li])
        BY <1>1, <1>2, <4>1 DEF Larger
      <4> QED BY <4>2, Zenon
    <3> QED BY <1>4, <3>1, <3>2
  <2>2. PICK g \in {0, h'} : li_digest_to_votes' = garbage_collect(li_digest_to_votes, g)
    BY <1>4 DEF insert_quorum_cert, add_certs
  <2>3. weight' = weight /\ byzantine' = byzantine /\ heard' = heard
    BY <1>4 DEF insert_quorum_cert, add_certs, verifier
  <2>4. h' \in Nat /\ h <= h' /\ g \in Nat /\ g <= h'
    <3>1. k \in Nat
      BY <1>2, <2>1, Zenon
    <3>2. h' \in Nat /\ h <= h'
      BY <1>1, <1>2, <2>1, <3>1
    <3> QED BY <1>1, <2>2, <3>2
  <2>5. OK(garbage_collect(li_digest_to_votes, g), heard, h')
    BY <1>1, <2>4, OrderedAndCollected
  <2> QED BY <1>1, <2>2, <2>3, <2>4, <2>5
<1>5. CASE process_new_round_event
  <2>1. OK(garbage_collect(li_digest_to_votes, h), heard, h)
    BY <1>1, OrderedAndCollected
  <2> QED BY <1>1, <1>5, <2>1 DEF process_new_round_event, verifier
<1>6. ASSUME NEW li \in LedgerInfo, insert_block(li)
      PROVE  Goal
  BY <1>1, <1>6 DEF insert_block, verifier
<1>7. CASE restart
  <2>1. h' \in Nat /\ weight' = weight /\ byzantine' = byzantine
    <3>1. h' \in {0} \cup {RoundOf[li] : li \in LedgerInfo}
      BY <1>7 DEF restart
    <3> QED BY <1>2, <1>7, <3>1 DEF restart, verifier
  <2> QED BY <1>1, <1>7, <2>1, FreshOK DEF restart
<1>8. CASE start_new_epoch
  <2>1. EpochOK(weight', byzantine')
    BY <1>8 DEF start_new_epoch, NewEpoch, FaultBound, total_voting_power, EpochOK
  <2> QED BY <1>8, <2>1, FreshOK DEF start_new_epoch
<1>9. CASE UNCHANGED order_vars
  BY <1>1, <1>9 DEF order_vars, verifier
<1>10. Goal
  BY <1>3, <1>4, <1>5, <1>6, <1>7, <1>8, <1>9, Zenon DEF OrderNext
<1> QED BY <1>10

(* The types, the rest of which follows from the entries'.                 *)
LEMMA OrderStep ==
  ASSUME OrderInv, [OrderNext]_order_vars
  PROVE  OrderInv'
<1>1. /\ EpochOK(weight', byzantine') /\ highest_ordered_round' \in Nat
      /\ EntriesOK(weight', byzantine', li_digest_to_votes', heard', highest_ordered_round')
  BY EntriesStep
<1>2. weight' \in Weights /\ byzantine' \subseteq Validator
  BY <1>1 DEF EpochOK
<1>3. /\ li_digest_to_votes' \in [LedgerInfo -> Entry]
      /\ heard' \in [LedgerInfo -> SUBSET Validator]
  BY <1>1 DEF EntriesOK
<1>4. /\ li_digest_to_votes \in [LedgerInfo -> Entry]
      /\ pessimistic_verify_set \in SUBSET Validator
      /\ block \in [LedgerInfo -> {"absent", "inserted", "certified"}]
  BY DEF OrderInv, OrderTypeOK
<1>5. block' \in [LedgerInfo -> {"absent", "inserted", "certified"}]
  <2>1. \/ UNCHANGED block
        \/ block' = NoBlocks
        \/ \E li \in LedgerInfo, b \in {"inserted", "certified"} :
             block' = [block EXCEPT ![li] = b]
    <3>1. ASSUME NEW li \in LedgerInfo, NEW entries, new_ordered_cert(li, entries)
          PROVE  UNCHANGED block \/ block' = [block EXCEPT ![li] = "certified"]
      BY <3>1, Zenon DEF new_ordered_cert
    <3> QED BY <3>1, Zenon DEF OrderNext, order_vars, process_order_vote_msg, insert_block,
              insert_quorum_cert, add_certs, process_new_round_event, restart,
              start_new_epoch
  <2> QED BY <1>4, <2>1 DEF NoBlocks
<1>6. pessimistic_verify_set' \in SUBSET Validator
  <2>1. ASSUME NEW a \in Validator, NEW li \in LedgerInfo, NEW good \in BOOLEAN,
               NEW qc_verifies \in BOOLEAN,
               process_order_vote_msg(a, li, good, qc_verifies)
        PROVE  pessimistic_verify_set' \in SUBSET Validator
    <3>1. PICK e : pessimistic_verify_set' =
                     pessimistic_verify_set \cup
                       (Signed(li_digest_to_votes[li].invalid, a, ~ good) \ e.invalid)
      BY <2>1, Zenon DEF process_order_vote_msg
    <3>2. li_digest_to_votes[li].invalid \in SUBSET Validator
      BY <1>4 DEF Entry
    <3> QED BY <1>4, <3>1, <3>2 DEF Signed
  <2>2. CASE ~ \E a \in Validator, li \in LedgerInfo, good, qc_verifies \in BOOLEAN :
                 process_order_vote_msg(a, li, good, qc_verifies)
    BY <1>4, <2>2 DEF OrderNext, order_vars, insert_block, insert_quorum_cert, add_certs,
      process_new_round_event, restart, start_new_epoch
  <2> QED BY <2>1, <2>2
<1> QED BY <1>1, <1>2, <1>3, <1>5, <1>6 DEF OrderInv, OrderTypeOK, VerifierTypeOK

(* What the invariant gives for one ledger info.                           *)
LEMMA OrderInvGives ==
  ASSUME OrderInv
  PROVE  EntriesCertified /\ CertsHonest /\ HonestVotesCount
<1>1. /\ EpochOK(weight, byzantine)
      /\ EntriesOK(weight, byzantine, li_digest_to_votes, heard, highest_ordered_round)
  BY DEF OrderInv
<1>2. \A S : /\ check_voting_power(S, TRUE) <=> Enough(weight, S)
             /\ check_voting_power(S, FALSE) <=>
                  weight[S] >= weight[Validator] - default_quorum(weight[Validator]) + 1
  BY DEF check_voting_power, Enough, quorum_voting_power, total_voting_power
<1>3. EntriesCertified
  BY <1>1 DEF EntriesOK, EntriesCertified
<1>4. ASSUME NEW li \in LedgerInfo, has_enough_order_votes(li)
      PROVE  /\ check_voting_power(li_digest_to_votes[li].cert, TRUE)
             /\ check_voting_power(li_digest_to_votes[li].cert \cap heard[li], FALSE)
  <2>1. /\ li_digest_to_votes[li].cert \in SUBSET Validator
        /\ heard[li] \in SUBSET Validator
    BY <1>1 DEF EntriesOK, Entry
  <2>2. /\ Enough(weight, li_digest_to_votes[li].cert)
        /\ li_digest_to_votes[li].cert \ byzantine \subseteq heard[li]
    BY <1>1, <1>4 DEF EntriesOK, Fits, has_enough_order_votes
  <2> QED BY <1>1, <1>2, <2>1, <2>2, HonestPart, Zenon
<1>5. ASSUME NEW li \in LedgerInfo, RoundOf[li] > highest_ordered_round,
             check_voting_power(heard[li], TRUE), ~ has_enough_order_votes(li)
      PROVE  FALSE
  <2>1. /\ li_digest_to_votes[li].valid \in SUBSET Validator
        /\ heard[li] \in SUBSET Validator
    BY <1>1 DEF EntriesOK, Entry
  <2>2. /\ heard[li] \subseteq li_digest_to_votes[li].valid
        /\ ~ Enough(weight, li_digest_to_votes[li].valid)
    BY <1>1, <1>5 DEF EntriesOK, Counts, has_enough_order_votes
  <2> QED BY <1>1, <1>2, <1>5, <2>1, <2>2, EnoughFacts, Zenon
<1> QED BY <1>3, <1>4, <1>5, Zenon DEF CertsHonest, HonestVotesCount

(* The invariant holds initially.                                          *)
LEMMA OrderInvInit == OrderInit => OrderInv
<1> SUFFICES ASSUME OrderInit PROVE OrderInv
  OBVIOUS
<1>1. EpochOK(weight, byzantine)
  BY DEF OrderInit, VerifierInit, FaultBound, total_voting_power, EpochOK
<1>2. EntriesOK(weight, byzantine, li_digest_to_votes, heard, highest_ordered_round)
  BY <1>1, FreshOK DEF OrderInit
<1>3. OrderTypeOK
  BY <1>1, <1>2 DEF OrderInit, VerifierInit, OrderTypeOK, VerifierTypeOK, EntriesOK, NoBlocks
<1> QED BY <1>1, <1>2, <1>3 DEF OrderInv

(* Order votes are kept, and order certificates made, only for blocks that *)
(* have a QC, although exists() lets later votes in without one.           *)
THEOREM OrderVotesNeedQC == OrderSpec => []EntriesCertified
BY OrderInvInit, OrderStep, OrderInvGives, PTL DEF OrderSpec

(* f+1 of the voting power of an order certificate is from honest          *)
(* validators whose order votes this node has taken.                       *)
THEOREM OrderCertificates == OrderSpec => []CertsHonest
BY OrderInvInit, OrderStep, OrderInvGives, PTL DEF OrderSpec

(* A quorum of honest order votes taken for a block that is not ordered    *)
(* has made its certificate.                                               *)
THEOREM NoOrderVoteLost == OrderSpec => []HonestVotesCount
BY OrderInvInit, OrderStep, OrderInvGives, PTL DEF OrderSpec

=============================================================================
