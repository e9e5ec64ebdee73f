----------------------------- MODULE SafetyRules -----------------------------
(***************************************************************************)
(* One validator's SafetyRules on top of its PersistentSafetyStorage, over *)
(* restarts, failing storage and epoch changes.                            *)
(*                                                                         *)
(* A write to the secure storage that reports an error may or may not have *)
(* been applied (the backend can be a remote Vault), and a crash may come  *)
(* between a write and the answer to the caller.  Requests come in any     *)
(* order; the signatures inside a request verify or the request is         *)
(* refused, so a request here is one whose certificates verify.            *)
(***************************************************************************)
EXTENDS TwoChainRules

CONSTANTS Epoch,        \* the epochs, consecutive from 1
          Round,        \* the rounds a timeout may be asked for
          Key,          \* consensus keys
          expected_key, \* expected_key[e]: the key e's validator set has for us
          stored_keys,  \* the keys consensus_sk_by_pk finds in the storage
          enable_cached_safety_data

ASSUME EpochAssumption ==
  /\ Epoch \subseteq Nat \ {0} /\ 1 \in Epoch
  /\ Round \subseteq Nat
  /\ None \notin Epoch /\ None \notin Key /\ None \notin SafetyData
  /\ expected_key \in [Epoch -> Key \cup {None}]
  /\ stored_keys \subseteq Key
  /\ enable_cached_safety_data \in BOOLEAN

VARIABLES internal_store,      \* SAFETY_DATA in the secure storage
          waypoint,            \* WAYPOINT there: the epoch it opens
          cached_safety_data,  \* in memory
          epoch_state,         \* in memory: the epoch whose verifier is used
          validator_signer,    \* in memory: the key signed with
          votes,               \* <<e, b>>: votes handed to the caller
          timeouts,            \* <<e, r, h>>: timeout signatures handed out
          order_votes          \* <<e, b>>: order votes handed out

storage_vars == <<internal_store, cached_safety_data>>
session_vars == <<waypoint, epoch_state, validator_signer>>
released == <<votes, timeouts, order_votes>>
vars == <<storage_vars, session_vars, released>>

TypeOK ==
  /\ internal_store \in SafetyData
  /\ waypoint \in Epoch
  /\ cached_safety_data \in SafetyData \cup {None}
  /\ epoch_state \in Epoch \cup {None}
  /\ validator_signer \in Key \cup {None}
  /\ votes \subseteq Nat \X Block
  /\ timeouts \subseteq Nat \X Nat \X Nat
  /\ order_votes \subseteq Nat \X Block

----------------------------------------------------------------------------
(* PersistentSafetyStorage::safety_data                                    *)
safety_data ==
  IF enable_cached_safety_data /\ cached_safety_data # None
  THEN cached_safety_data
  ELSE internal_store

(* The cache after a read.                                                 *)
read_cache ==
  IF enable_cached_safety_data THEN safety_data ELSE cached_safety_data

(* PersistentSafetyStorage::set_safety_data, succeeding and failing.       *)
set_safety_data(sd) ==
  /\ internal_store' = sd
  /\ cached_safety_data' = sd

(* Mutant: a failed write leaves the cache as it was.                      *)
MutFailedWriteKeepsCache(sd) ==
  /\ internal_store' \in {internal_store, sd}
  /\ cached_safety_data' = read_cache

set_safety_data_fails(sd) ==
  /\ internal_store' \in {internal_store, sd}
  /\ cached_safety_data' = None

(* PersistentSafetyStorage::initialize: epoch 1, and the waypoint of the   *)
(* node's configuration.                                                   *)
Init ==
  /\ internal_store = new_safety_data(1)
  /\ waypoint \in Epoch
  /\ cached_safety_data = new_safety_data(1)
  /\ epoch_state = None
  /\ validator_signer = None
  /\ votes = {}
  /\ timeouts = {}
  /\ order_votes = {}

(* signer()? and epoch_state()?                                            *)
CanSign == validator_signer # None /\ epoch_state # None

(* The timeout certificates a request may carry, or none.                  *)
TCs == {tc \in [round : Round, hqc_round : {round[b] : b \in Block}] :
          tc.hqc_round < tc.round} \cup {NoTC}
----------------------------------------------------------------------------
(* construct_and_sign_vote_two_chain.  The vote is signed before it is     *)
(* persisted and handed out only if the write succeeds.                    *)
SignVote(b) ==
  LET sd == safety_data
  IN  /\ CanSign
      /\ b # Genesis
      /\ ~ already_voted(sd, round[b])
      /\ verify_last_vote_round(sd, round[b])
      /\ \E tc \in TCs : safe_to_vote(b, tc)
      /\ \/ /\ set_safety_data(voted_data(sd, b))
            /\ votes' = votes \cup {<<sd.epoch, b>>}
         \/ /\ set_safety_data_fails(voted_data(sd, b))
            /\ UNCHANGED votes
      /\ UNCHANGED <<session_vars, timeouts, order_votes>>

(* The early return: any proposal for the round of the last vote gets the  *)
(* recorded vote, which may never have reached the caller before.          *)
ReturnLastVote(b) ==
  LET sd == safety_data
  IN  /\ CanSign
      /\ b # Genesis
      /\ already_voted(sd, round[b])
      /\ votes' = votes \cup {<<sd.epoch, sd.last_vote>>}
      /\ cached_safety_data' = read_cache
      /\ UNCHANGED <<internal_store, session_vars, timeouts, order_votes>>

(* Mutant: the timeout is signed and handed out before it is persisted.    *)
MutSignTimeoutFirst(r, h) ==
  LET sd == safety_data
  IN  /\ CanSign
      /\ h < r
      /\ \E tc \in TCs : safe_to_timeout(sd, r, h, tc)
      /\ r >= sd.last_voted_round
      /\ timeouts' = timeouts \cup {<<sd.epoch, r, h>>}
      /\ \/ set_safety_data(timed_out_data(sd, r))
         \/ set_safety_data_fails(timed_out_data(sd, r))
      /\ UNCHANGED <<session_vars, votes, order_votes>>

(* sign_timeout_with_qc for round r with a certificate of round h.  The    *)
(* data is persisted before the signature is made.                         *)
SignTimeout(r, h) ==
  LET sd == safety_data
  IN  /\ CanSign
      /\ h < r
      /\ \E tc \in TCs : safe_to_timeout(sd, r, h, tc)
      /\ r >= sd.last_voted_round
      /\ \/ /\ set_safety_data(timed_out_data(sd, r))
            /\ timeouts' = timeouts \cup {<<sd.epoch, r, h>>}
         \/ /\ set_safety_data_fails(timed_out_data(sd, r))
            /\ UNCHANGED timeouts
      /\ UNCHANGED <<session_vars, votes, order_votes>>

(* construct_and_sign_order_vote.                                          *)
SignOrderVote(b) ==
  LET sd == safety_data
  IN  /\ CanSign
      /\ safe_for_order_vote(sd, b)
      /\ \/ /\ set_safety_data(order_voted_data(sd, b))
            /\ order_votes' = order_votes \cup {<<sd.epoch, b>>}
         \/ /\ set_safety_data_fails(order_voted_data(sd, b))
            /\ UNCHANGED order_votes
      /\ UNCHANGED <<session_vars, votes, timeouts>>

(* consensus_state.  sign_proposal, sign_commit_vote and every refused     *)
(* request leave nothing behind but, at most, a filled cache either.       *)
ConsensusState ==
  /\ cached_safety_data' = read_cache
  /\ UNCHANGED <<internal_store, session_vars, released>>

----------------------------------------------------------------------------
(* initialize with a proof that ends in the ledger info opening epoch e;   *)
(* EpochChangeProof::verify refuses one that is behind the waypoint.       *)
ProofVerifies(e) == e >= waypoint

InitializeWaypointFails(e) ==
  /\ e > waypoint
  /\ waypoint' \in {waypoint, e}
  /\ UNCHANGED <<storage_vars, epoch_state, validator_signer, released>>

InitializeSafetyDataFails(e) ==
  /\ ProofVerifies(e)
  /\ safety_data.epoch < e
  /\ waypoint' = e
  /\ set_safety_data_fails(new_safety_data(e))
  /\ UNCHANGED <<epoch_state, validator_signer, released>>

(* The signer after key reconciliation; the storage may fail to read the   *)
(* key.                                                                    *)
reconciled_signers(e) ==
  LET k == expected_key[e]
  IN  IF k # None /\ k = validator_signer THEN {k}
      ELSE {None} \cup ({k} \cap stored_keys)

(* The author is read from the storage after the epoch has been started;   *)
(* if that read fails the signer stays as it was.                          *)
Initialize(e) ==
  /\ ProofVerifies(e)
  /\ safety_data.epoch <= e
  /\ waypoint' = e
  /\ \/ safety_data.epoch < e /\ set_safety_data(new_safety_data(e))
     \/ /\ safety_data.epoch = e
        /\ cached_safety_data' = read_cache
        /\ UNCHANGED internal_store
  /\ epoch_state' = e
  /\ validator_signer' \in {validator_signer} \cup reconciled_signers(e)
  /\ UNCHANGED released

(* The process restarts; PersistentSafetyStorage::new on the same store.   *)
Restart ==
  /\ cached_safety_data' = None
  /\ epoch_state' = None
  /\ validator_signer' = None
  /\ UNCHANGED <<internal_store, waypoint, released>>

Next ==
  \/ \E b \in Block : SignVote(b)
  \/ \E b \in Block : ReturnLastVote(b)
  \/ \E r \in Round, h \in {round[b] : b \in Block} : SignTimeout(r, h)
  \/ \E b \in Block : SignOrderVote(b)
  \/ ConsensusState
  \/ \E e \in Epoch : InitializeWaypointFails(e)
  \/ \E e \in Epoch : InitializeSafetyDataFails(e)
  \/ \E e \in Epoch : Initialize(e)
  \/ Restart

Spec == Init /\ [][Next]_vars

(* A start at which the storage fails to read OWNER_ACCOUNT: storage()     *)
(* takes any error of author() for a fresh store and initializes it again. *)
RestartOwnerUnreadable ==
  /\ internal_store' = new_safety_data(1)
  /\ cached_safety_data' = new_safety_data(1)
  /\ waypoint' \in Epoch
  /\ epoch_state' = None
  /\ validator_signer' = None
  /\ UNCHANGED released

UnreadableSpec == Init /\ [][Next \/ RestartOwnerUnreadable]_vars

----------------------------------------------------------------------------
(* The inductive invariant: the stored record covers every signature that  *)
(* was released in its epoch.                                              *)
EpochsCover ==
  /\ internal_store.epoch \in Epoch
  /\ \A v \in votes \cup order_votes : v[1] <= internal_store.epoch
  /\ \A t \in timeouts : t[1] <= internal_store.epoch

LastVoteCovered ==
  LET sd == internal_store
  IN  sd.last_vote # None => /\ round[sd.last_vote] <= sd.last_voted_round
                             /\ round[parent[sd.last_vote]] <= sd.one_chain_round

VotesCovered ==
  LET sd == internal_store
  IN  \A v \in votes :
        v[1] = sd.epoch =>
          /\ sd.last_vote # None
          /\ v[2] = sd.last_vote \/ round[v[2]] < round[sd.last_vote]
          /\ round[parent[v[2]]] <= sd.one_chain_round

TimeoutsCovered ==
  LET sd == internal_store
  IN  \A t \in timeouts :
        t[1] = sd.epoch =>
          /\ t[2] <= sd.last_voted_round
          /\ t[2] <= sd.highest_timeout_round
          /\ sd.last_vote # None /\ round[sd.last_vote] <= t[2]
               => round[parent[sd.last_vote]] <= t[3]

OrderVotesCovered ==
  \A v \in order_votes :
    v[1] = internal_store.epoch
      => round[v[2]] <= internal_store.one_chain_round

(* A cached record is the stored one, whatever writes have failed: a stale *)
(* cache would let SafetyRules forget a round it has voted in.             *)
CacheCoherent == cached_safety_data \in {None, internal_store}

(* The verifier in use never runs ahead of the persisted epoch, and that   *)
(* never ahead of the waypoint, wherever initialize was cut short; so the  *)
(* WaypointOutOfDate answer of initialize needs a waypoint moved back by   *)
(* hand.                                                                   *)
EpochsInOrder ==
  /\ epoch_state # None => epoch_state <= internal_store.epoch
  /\ internal_store.epoch <= waypoint

StorageInv ==
  /\ TypeOK
  /\ CacheCoherent
  /\ EpochsInOrder
  /\ EpochsCover
  /\ LastVoteCovered
  /\ VotesCovered
  /\ TimeoutsCovered
  /\ OrderVotesCovered

(* The first voting rule, on what was released: one vote per round, over   *)
(* all restarts.                                                           *)
VotingRuleOverRestarts ==
  \A v, w \in votes :
    v[1] = w[1] /\ round[v[2]] = round[w[2]] => v[2] = w[2]

(* Whatever the storage and the process do, the signatures that leave      *)
(* SafetyRules keep the promises the agreement of LumioBFT needs of an     *)
(* honest validator.                                                       *)
Contract == INSTANCE VotingContract
ContractKept == Contract!ContractSpec
=============================================================================
