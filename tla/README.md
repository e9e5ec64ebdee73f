# LumioBFT: specifications and proofs

TLA+ modules for the consensus core of lumio-node: the 2-chain voting rules,
SafetyRules on its storage, the quorum arithmetic of the validator set, the
aggregation of votes, timeouts and order votes, the block store with pruning,
sync and recovery, the RoundManagers of several validators on a lossy network,
the execution pipeline and the batch store. TLC checks them on small instances,
TLAPS proves every safety property of the passing runs for all instances. `PROJECT.json` has
the correspondence of definitions and source lines, the runs, the mutants, the
hazards and the theorems in machine-readable form. Paths below are relative to
`src/consensus/` unless they begin with `src/`.

## The system

lumio-node is a blockchain node. Its validators agree on a chain of blocks with
LumioBFT, a HotStuff protocol with a 2-chain commit rule. A leader proposes a
block for a round, validators vote, a quorum of votes is a quorum certificate
(QC). A validator that waits too long signs a timeout, which reports its highest
QC; a quorum of timeouts is a timeout certificate (TC). A block is final when a
child in the next round is certified, or when a quorum of validators that saw
its QC has sent order votes. Final blocks are ordered first, and executed and
committed later, in a pipeline. The transactions of a block are named by the
digests of batches that validators keep for each other.

| part | state | operations | hard behaviour |
|---|---|---|---|
| SafetyRules (`safety-rules/`) | `SafetyData`, waypoint, cache, signer, epoch | vote, timeout, order vote, initialize | crash, ambiguous failed writes, retries, epoch change |
| ValidatorVerifier (`src/types/src/validator_verifier.rs`) | stakes, quorum | check voting power, aggregate | rounding, zero stake |
| PendingVotes (`src/pending_votes.rs`) | votes and timeouts of a round | insert vote, insert timeout | equivocation, unverified signatures, order of arrival |
| RoundState (`src/liveness/round_state.rs`) | round, what was sent, timer | process certificates, local timeout | late timer events, certificates overtaking |
| PendingOrderVotes (`src/pending_order_votes.rs`) | order votes per ledger info | insert, garbage-collect | only the first vote's QC is verified; bad signatures |
| BlockStore, BlockTree (`src/block_storage/`) | block tree, roots, highest certificates | insert, order, prune, sync, recover | certificates out of order, crash between saves |
| RoundManager (`src/round_manager.rs`) | composition of the above | one handler per message | loss, delay, restarts, rounds out of step |
| BufferManager (`src/pipeline/`) | buffer of ordered blocks, cursors, phases | execute, sign, aggregate, persist, reset | answers out of order, retries, bounded caches |
| BatchStore (`src/quorum_store/`) | cached batches, quotas, expirations | persist, fetch, sweep, restart | many tasks, one lock per entry |

The RoundManager feeds certificates to the BlockStore and then to RoundState,
which starts rounds; it asks SafetyRules for every signature; votes and timeouts
of peers go to PendingVotes through RoundState, order votes to
PendingOrderVotes, and the certificates they form go back to the BlockStore,
which hands ordered blocks to the BufferManager. Its commits call back to the
BlockStore, which prunes, and to the BatchStore, which sweeps what has expired.

What makes this correct:

1. No two finality proofs conflict, and no replica leaves the chain it is on,
   whatever fewer than a third of the voting power does.
2. The promises a validator makes by signing survive crashes, failed writes and
   epoch changes.
3. A certificate handed out verifies everywhere, and enough honest votes,
   timeouts or order votes always produce one.
4. Every round ends: timers are never lost, SafetyRules never refuses the
   timeout of the current round, and validators do not wait for each other in
   different rounds.
5. The block store stays one path from window root to highest certificate, the
   committed ledger and the highest certificate never go back, and a restarted
   node recovers from what it stored.
6. Only certified blocks that were executed are committed; an ordered block is
   executed and signed, and committed once it is decided.
7. A batch that was signed for is kept until it has expired, quota is neither
   lost nor given back twice, and a fetch does not miss its batch.

## Modules

| module | models |
|---|---|
| `TwoChainRules` | `SafetyData` and the rules of `safety_rules_2chain.rs` as operators; the block tree |
| `TwoChainBFT` | all validators signing, certificates, replicas ordering blocks |
| `ReplicatedLedger` | abstract: every replica's root moves forward on one chain |
| `SafetyRules` | one validator's SafetyRules on `PersistentSafetyStorage` |
| `VotingContract` | abstract: what a validator promises by what it releases |
| `ValidatorVerifier` | stakes, quorum and f+1 thresholds |
| `PendingVotes` | the record of votes and timeouts of a round and its operators |
| `RoundState` | rounds, PendingVotes of the current round, the timer |
| `PendingOrderVotes` | order votes, their certificates and the handlers that use them |
| `BlockStore` | one validator's BlockTree, ConsensusDB, ledger, commit callbacks, sync and recovery |
| `RoundManager` | the RoundManagers of an epoch with SafetyRules, certificates, RoundStates and the network |
| `BufferManager` | one validator's execution pipeline |
| `BatchStore` | one validator's batch store with its tasks and sweeps |
| `VotingProofs` | theorems about `SafetyRules`, `ValidatorVerifier` and `PendingOrderVotes` |
| `BufferManagerSteps` | the invariant of `BufferManager` and the steps that pop nothing off its buffer |
| other `*Proofs` | theorems about the module they are named after (see Proofs) |
| `MC*` | finite instances for TLC |

**TwoChainRules, TwoChainBFT.** The block tree (`Block`, `round`, `parent`) is a
constant: all blocks anybody may ever propose, equivocating ones included.
`safety_data[n]` is what an honest validator has persisted; `votes`, `timeouts`,
`order_votes` are the signatures honest validators have made. A Byzantine
validator's signature on anything is always available, so `Certified`,
`OrderCertified` and `ValidTC` say which certificates can be put together at all
and no network is needed: messages may be lost, delayed, reordered or repeated
because nothing says when a certificate is used. `SignVote`, `SignTimeout` and
`SignOrderVote` are the three signing handlers, `Order` is `send_for_execution`.
A handler is one step here because SafetyRules serves one request at a time
behind a lock; the steps inside are the subject of `SafetyRules`. Certificates
are assumed verified, by SafetyRules or, with `skip_sig_verify`, by the
RoundManager. Blocks of one epoch are modelled: reconfiguration suffixes and NIL
blocks are blocks like others to the rules.

**SafetyRules, VotingContract.** `internal_store` and `waypoint` are the secure
storage, the cache, `epoch_state` and `validator_signer` are memory. `votes`,
`timeouts`, `order_votes` hold what was handed to the caller. Every write either
succeeds, or fails with the value written or not. `Restart` clears the memory.
`Initialize` is `guarded_initialize` to its end; `InitializeWaypointFails` and
`InitializeSafetyDataFails` are the two places a write stops it. Refused
requests, `consensus_state`, `sign_proposal` and `sign_commit_vote` at most fill
the cache. `RestartOwnerUnreadable` is `storage()` at a start where `author()`
returns an error; it is in `UnreadableSpec` only. The epochs of blocks are not
part of the block names: a request is for the persisted epoch, as `verify_epoch`
demands.

`TwoChainBFT` and `SafetyRules` share `TwoChainRules`, so both apply the same
translation of the rules. The theorem `KeepsContract` shows that storage,
crashes and retries never make a validator release something `VotingContract`
forbids. The guards of `VotingContract` (one vote per round, timeouts that
report, no order vote after a timeout) are the ones `SafetyInv` of
`TwoChainBFT` rests on. That link between the two is by statement and not
itself a machine-checked refinement.

**ValidatorVerifier.** `Weights` holds functions from sets of validators to
voting power, constrained to be additive; an epoch picks one, and a set of
Byzantine validators with less than a third of it.

**PendingVotes, RoundState.** A vote has an author, a block, whether its
signature is valid, and perhaps a timeout with the round of its QC. Signatures
are counted before they are verified: `aggregates` gives what may be left after
`aggregate_and_verify`, including the aggregate of two or more invalid
signatures that cancel out. Authors of filtered signatures enter `pessimistic`.
`heard`, `qcs` and `tcs` record what was delivered and handed out. The timer's
event travels through a channel, so it may arrive after its round. Durations,
deadlines and timeout reasons are left out: they decide when, never what.

**PendingOrderVotes.** It extends `ValidatorVerifier`: every epoch has its
stakes and its Byzantine validators. An entry of `li_digest_to_votes` has the
valid and the invalid signatures held and, once there are enough, the signers of
the certificate. `process_order_vote_msg` is the handler of the RoundManager
down to `insert_order_vote` and `new_ordered_cert`; `qc_verifies` is whether the
QC in the message does, which is looked at for the first vote only.
`process_new_round_event` garbage-collects, `restart` forgets the votes and
`start_new_epoch` changes the verifier.

**BlockStore.** `tree` is the `BlockTree`, `db` the blocks and certificates in
ConsensusDB, `ledger` the latest ledger info. Which certificates exist is a
constant; `CertificateAssumption` says of them what `UniqueCertificates` and the
core lemma of `TwoChainBFTProofs` establish. Three tasks interleave. The
RoundManager handles one message at a time (`ProcessProposal`, `FetchBlock`,
`InsertQuorumCert`, `InsertOrderedCert`, `FastForwardSync`) and waits inside
`insert_block` (`inserting`, ended by `FinishInsert`) and inside a sync
(`syncing`, with the steps `SyncToTarget` and `RebuildTree`). The pipeline
commits (`CommitLedger`). Each commit later calls back to prune the tree
(`PostCommitLedger`; `StalePostCommitLedger` when the tree was replaced in
between). `Crash` may come between any two steps, and stands for panics too; it
restarts from `db` and `ledger`, or in recovery mode, where `RecoverySync` is
the RecoveryManager. Saving a block and the storage half of a prune may fail.
`SyncToTarget` is `ExecutionClient::sync_to_target`: the pipeline is reset, then
the ExecutionProxy compares the target with `latest_logical_time`, which every
call raises, failed ones included, and the pipeline's commits do not. At or below
it the answer is Ok and the ledger stays where it is. Above it the state sync
driver is asked, which refuses a target older than the ledger
(`initialize_sync_target_request`, its `OldSyncRequest` error) and otherwise
reaches the target or fails. Left out of it: an error of the executor's reset
after the driver has succeeded, and `sync_for_duration`, which only the consensus
observer calls. `window_size` is fixed for the epoch, and 0 stands for `None`.
The round of the pre-commit status is taken to be the ledger's. Left out: the
round index, pausing of pre-commit, payload prefetch, order votes disabled, the
end of an epoch.

**RoundManager.** `node[n]` is a validator's highest certificates (persisted),
`SafetyData` (persisted), last vote (persisted) and RoundState (in memory);
`network` holds the messages sent. They stay there, so they may be delivered
late, in any order, again and again or never. Each handler is one action and
sends what the round it begins makes it send. `add_certs_fails` is a sync that
stops between the QC and the TC; `stop_while_voting` a crash between the two
writes of a vote; `restart` a crash anywhere else. A TC is read as its round,
its highest QC round and whether it verifies at a receiver: one formed of two
timeouts of a validator that restarted in between may not (see Findings).
Validators that are not running are silent. The default mode is modelled, with
round timeout messages and broadcast votes (`enable_round_timeout_msg`,
`broadcast_vote`). Sending and delivery of a SyncInfo are one step, and ordered
and commit certificates are left out of it. Not modelled: optimistic proposals,
waiting for payloads, the check for an equivocating proposer, which forbids
votes and adds none.

**BufferManager.** The manager is one task: a tokio `select!` loop that takes
one ready branch at a time, so a branch is an action; only `reset()` awaits
other tasks and is three actions. The phases are tasks of their own between
channels that survive a reset. The chain is linear, an item is known by its last
round. After a state sync the tree has new block objects for the same ids; `gen`
tells them apart. The futures of a block's own pipeline are read off four rounds:
`failed` is the first whose execution fails, `aborted` the first that a reset
aborted, `finished` the last whose commit is done, `own_votes` those whose commit
vote was broadcast. The pipeline broadcasts that vote, to the validator itself as
well, before the signing phase answers, so `Cast` lets it arrive first. The vote
is a shared future: signing fails only when it was aborted, and then for good.
`reset_ack` ends a reset, and the state sync that asked for it then succeeds or
fails (`sync_to_target`, `sync_fails`); after a failure the tree is neither
rebuilt nor its blocks sent again. The history variable `stale` records that an
answer from before a reset changed the state after it, or that such a state sync
failed. The schedule phase is merged with its answer, the retry of a failed
signing goes straight to `signing_tx`, and the pessimistic set is abstracted: any
invalid signature may be filtered.

**BatchStore.** One action is what happens under one lock or in one database
call. Tasks persist batches of peers or fetch batches a proposal names;
`sweeper` are the calls that tell the store the certified time (a commit, a
state sync, the one at startup) and remove what expired, with the quota freed
after the entry's lock is released. An insert that replaces a batch charges the
new one, then frees the old one, in two steps under the entry's lock. `freeing`
holds what was taken out of the cache and is not freed yet. `up` is FALSE after a
panic; `restart` rebuilds the cache from the database.

## Runs

| run | instance | states | shows |
|---|---|---|---|
| `two_chain_bft` | 4 validators (1 Byzantine), 2 replicas, a 5-block tree with two forks, rounds 1-2 for timeouts | | `OneQCPerRound`, `Agreement`, `OrderAssertion`, refinement `OneLedger` |
| `safety_rules` | 2 epochs with different keys, 4 blocks, 2 rounds, cache on | | `CacheCoherent`, refinement `ContractKept` |
| `safety_rules_unreadable` | the same, with `RestartOwnerUnreadable` | | a second vote in a round (finding) |
| `order_votes` | 4 validators, stakes 0 to 3, 2 certified blocks and one that is not | 43,000 | `QuorumsShareHonest`, `EntriesCertified`, `CertsHonest`, `HonestVotesCount` |
| `round_state` | 4 validators (1 Byzantine), 2 rounds, two competing blocks | 385,000 | `QCsVerify`, `NoLostQC`, `HonestTimeoutsCount`, `TCsCover`, `SentInCurrentRound`, `TimerArmed` |
| `round_state_restart` | timeouts of a validator that restarted in the round | | a TC that does not verify (finding) |
| `round_manager` | 2 validators, and 3 of which two hold a TC and the third may form the QC; a restart in both; rounds 1-3 | 92,000 | `TypeOK`, `CanTimeOut`, `RoundsNeverFall`, liveness `EveryRoundEnds` |
| `block_store` | 8 blocks, no window and a window of 2 rounds, 2 sync targets | 129,000 | `RootsOnOnePath`, `OrderedPathAssertion`, `ChildrenExist`, `CallbacksFindWindow`, `RecoversFromStorage`, `SyncRecovers`, `LedgerOnlyGrows`, `HighestQCNeverLost` |
| `block_store_sync_crash` | no window, sync | | a committed block without a stored certificate (finding) |
| `buffer_manager` | 3 validators (1 faulty), 3 blocks, or 1 to 2 with faults | 165,000 | `RootsFirstUnprocessed`, `AckedVoteKept`, `PersistsExecuted`, `AnswerFitsItem`, `IntakeReopens`, `CommitsCertified`, liveness `BlocksGetThrough`, `ResetAnswered` |
| `batch_store` | 2 tasks, 2 batches of one author, 3 sweeps, a crash | 353,000 | `QuotaConserved`, `ScheduledForExpiry`, `SignedKept`, `NoLostWakeup` |
| `batch_store_restart` | a crash before a batch expires | | a batch dropped early (finding) |

Every property of a passing run has a mutant, a plausible bug in one definition
(`Mut...` operators next to the originals) under which TLC reports it violated.

### Bounds

*two_chain_bft.* The tree has a 2-chain that can commit, a competing block in its
second round and one after it, both from genesis: the smallest tree in which
each of the rules is needed, which its mutants show (each drops or weakens one
rule and breaks a property). Its deadlock check is off because the tree is
finite: when all is signed and ordered nothing is left to do. Honest validators
and replicas are symmetric; no property in the run is temporal beyond `[][A]_v`,
for which symmetry is sound here since both sets occur only under quantifiers.

*safety_rules* has what its hazards need: two epochs, a conflicting pair of
blocks, rounds to vote and time out of.

*order_votes.* Stakes up to 3 for four validators reach every remainder of the
total modulo 3, where the rounding of the quorum bites; all of them are initial
states, and votes are explored from stakes 1, 1, 1, 1 and 3, 3, 1, 1
(`MCVoting`). One block is one round ahead, one is never certified, and the
window of rounds taken is 3.

*round_state.* Only the Byzantine validator signs badly, for both blocks, or
timeouts of one round that report different QCs. With those a TC need not verify
(see Findings), so the run claims `TCsCover`: a TC has the timeouts of a quorum
and carries a QC as high as any that is reported for it. An honest validator
signs one timeout of a round, alone or with its vote; the restart run is the
exception, in which one signs two.

*block_store.* The tree has a gap in its rounds, a certified fork that is left
behind, two blocks that are never certified, and a last block committed by order
votes only. One pruned block stays in memory, so that the buffer overflows, and a
sync is forced two rounds behind (30 or more in the code). The sync targets are
`a3` and `a5`; the run was also done with every final block as a target, with the
same result, and is kept smaller for its time. The `a5` target matters: a sync to
it saves blocks above a stored block whose certificate is not stored. If such a
sync is then cut short, by a crash or a failed state sync, recovery no longer
always finds its root, which is what `block_store_sync_crash` shows. The history
variable `interrupted` records this, and `RecoversFromStorage` is claimed only
while it is FALSE. `SyncRecovers` is claimed after interruptions too, when the
ledger is at the target. The exception is a sync after a failed one that returns
Ok with the ledger below its target (five steps); what is stored then need not
have the ledger's certificate, and the panic after `start` is reached in eleven.

*round_manager.* In the first scenario two validators that make up a quorum
propose in turn and one may restart at any point; in the second three have voted
and timed out of round 1, two of them have moved on with the TC, the third may
still form the QC, one of the two may restart, and the proposers of the next
rounds are silent, so that QC and TC race. A restart there can make a TC that
does not verify, the case `EveryRoundEnds` excepts. Round 3 is not ended any
more, which bounds the model and is why its deadlock check is off. Larger
instances gave the same result: a fourth round in the first scenario (190,000
states), a restart of any of the three in the second (130,000), and three
validators that are all still in round 1, any of which may restart (372,000).

*buffer_manager.* Voting powers 2, 3, 2 with the last faulty; batches of up to 2
blocks; the decision of round 2 may arrive from outside; one pending proof, a
vote cache of 3 rounds, a backlog of 1. A scenario has three rounds, with or
without the epoch's end at round 2, two rounds and one fault, or one or two
rounds and two faults. A fault is a failed execution or a reset, whose state sync
may fail; with two, a sync fails and is tried again. `voted` are the rounds whose
votes arrive: votes of rounds 1 and 2 in one behaviour, and in the two-fault
scenarios those of round 2, are left out for the run's time. With the votes of
all rounds there are 1,050,000 states, which satisfied the same properties. The
deadlock check is off because the chain ends.

*batch_store.* Two batches of sizes 1 and 2 of one author who has not the quota
for both; only the small one fits in memory. Expirations 1 and 4, certified times
2 and 5, a buffer of 1, two calls, a restart. Tasks are symmetric. The run was
also done with a quota that is enough for both batches but not for both and a
replacement (426,000 states). Larger instances with more calls or times (5 to 6
million states) satisfied the same properties.

### Fairness

`round_manager` assumes `WF_vars(Progress)`: at a validator whose round lasts the
timer fires again (`process_local_timeout` re-arms it), and one of the copies of
a timeout sent again and again is delivered. Nothing is assumed of proposals,
votes, SyncInfos, restarts and failures. One weak fairness condition on the
disjunction is enough because each of its steps changes the state for good: a
timeout counted stays counted while the round lasts, and rounds are bounded. It
also means that a validator is not back-pressured (`sync_only`) for ever.

`buffer_manager` assumes it of the branches of the `select!` loop and of the
phases, which are tasks that serve their queues. Nothing is assumed of votes and
decisions from outside, of resets and of failures: a commit vote may never arrive
(its sender stops broadcasting it once it has aggregated itself, and sends it
once for a block inside a batch), so `BlocksGetThrough` speaks of commits only
once the votes or the decision are here. The other runs check safety only.

## Findings

* `safety-rules/src/safety_rules_manager.rs:49`: any error of `author()` at
  start counts as an uninitialized store, and SAFETY_DATA is overwritten if the
  following writes succeed and an initial configuration is given. The promise
  that voting rules hold "even in the case of restart" (`README.md:46`) fails.
* `consensus-types/src/timeout_2chain.rs:260`: when one author's timeouts of a
  round report different QCs, which takes a restart within the round or a faulty
  author, the carried QC is raised while the author's first signed round is kept; the TC
  then fails the check described at `timeout_2chain.rs:141`.
* `src/block_storage/sync_manager.rs:497`: a crash in the middle of a
  fast-forward sync makes recovery attach the saved blocks to an older block
  whose certificate was not stored. Once that block is committed, the next start
  is in recovery mode. The comment at line 272 says the blocks are saved so that
  the node "could restart".
* `src/quorum_store/batch_store.rs:221`: a start subtracts the expiration buffer
  from a batch's expiration before comparing it with the certified time, where
  the sweep adds it; batches are dropped a minute early instead of kept a minute
  longer.

Seen while modelling, and not the subject of a run:

* `README.md:25` describes a contiguous 3-chain commit rule; the code has the
  2-chain rule and order votes.
* `src/persistent_liveness_storage.rs:179`: with an execution window of two or
  more rounds, recovery right after the first commits of an epoch looks for the
  virtual genesis block in storage, where it never is. `RecoversFromStorage`
  excludes that case. The window is off by default, and of one round when
  enabled.
* `src/block_storage/block_tree.rs:481`: nothing waits for or aborts the
  post-commit part of a block's pipeline when a sync replaces the tree; a
  callback delayed that long does not find its block and panics.
* `src/pipeline/buffer_manager.rs:974` and `:615`: answers to requests from before
  a reset are recognised by block id only, and the ids are the same after it. A
  persisting answer then lowers `highest_committed_round`; an execution answer
  may execute an item whose own pipeline is still running, and if the blocks were
  batched differently the second time it meets the panics of
  `advance_to_executed_or_aggregated`. It takes a state sync that overtakes an
  answer already queued. `stale` marks the states after it.
* `src/state_computer.rs:184`: a failed state sync leaves `latest_logical_time` at
  its target, so the next sync to that target returns Ok with the ledger where it
  was; `src/block_storage/sync_manager.rs:508` may then panic. `SyncRecovers`
  excepts it.
* `src/pipeline/execution_client.rs:444`: when the state sync after a reset fails,
  the reset pipeline is not given its blocks again (the code has a TODO there). They
  wait for a restart or the next sync. `stale` marks the states after it.
* `src/quorum_store/batch_store.rs:370` (`unreachable!` for an expired entry that
  is not in the cache) can be reached by two sweeps at one digest, or by a batch
  persisted between `insert_to_cache` and `add_item`; `:234` (`expect` on the
  quota at a start) when quota was freed before the database deletion. The model
  has both as `up` = FALSE, and the properties are about a running store.
* `src/liveness/proposal_generator.rs:488`: a proposer that restarts in its round
  before it has voted may generate a second proposal, while the comment says at
  most one is generated.
* The comment of `ensure_round_and_sync_up` (`src/round_manager.rs:877`) speaks of
  helping a lagging remote, which the function no longer does.

## Proofs

All assumptions are named ASSUMEs on constants, evaluated by TLC on the
instances. They are what the code or another part of the project establishes:

| assumption | says | from |
|---|---|---|
| `QuorumAssumption` | two quorums share an honest validator | `QuorumIntersection` |
| `BlockAssumption`, `WellFormedAssumption` | parents have lower rounds; only genesis has round 0 | `Block::verify_well_formed` |
| `PowerAssumption` | supersets of quorums and of f+1 sets are such sets, and neither is empty | `ValidatorVerifier` |
| `MessageAssumption` | the shape of messages | the message types |
| `HonestAssumption` | an honest validator votes for one block of a round | `KeepsContract` |
| `ScenarioAssumption` | running validators are a quorum; the model's last round is above all blocks | bound of the model, for any bound |
| `CertificateAssumption` | certified blocks of a round are one, and certified blocks above a final block extend it | `UniqueCertificates`, `CertifiedExtendsCommitted` |
| `QuorumAssumption` (of `BufferManager`), `BoundAssumption` | supersets of quorums are quorums, every quorum has an honest validator; bounds are naturals | `check_voting_power`; bounds of the model, for any bound |
| `FiniteAssumption` | an epoch's blocks are finitely many | - |
| `ConstantsAssumption`, `BytesAssumption` | quotas are naturals, batches finitely many, sizes add up | - |

**TwoChainBFTProofs.** `Agreement` is not inductive: it says nothing about
signatures not yet in a certificate. `SafetyInv` (theorem `SafetyInvariant`)
adds that the persisted record covers every signature, that a validator votes
once per round, that a timeout at or above the round of a vote or an order vote
reports a QC at least as high as the one acted on, and that what justified a
signature exists. From it `UniqueCertificates` follows by quorum intersection.
The core lemma then is: once a block is final, every certified block of a higher
round extends it. Its proof takes a certified counterexample of least round
(the least number principle on a set of rounds, which needs no operator
parameter): its parent is certified and, not being a counterexample, lies below
the final block; so it was justified by a TC, whose quorum shares an honest
validator with the quorum that finalized the block, and that validator's timeout
reported too high a QC for the TC. `AgreementTheorem`, `OrderAssertionTheorem`
and `ImplementsLedger` follow.

**VotingProofs**, how votes are signed. `StorageInvariant`: the stored record covers every
signature released in its epoch, the cache is the store or absent, and the three
epochs are in order. The coverage is needed because the contract's guards speak
of what was released while the code looks at the record only. `CacheCoherence`,
`EpochOrder` and the refinement `KeepsContract` follow.

How votes are counted. `QuorumIntersection` and `HonestThresholds` for all
additive stakes. Additivity is a hypothesis on the power function, since a sum
over a set is defined by recursion. With `OrderInv`, which says that an honest
signature held is valid and was heard, that one heard is held until there is a
certificate, and that the signatures held without one do not reach the quorum,
follow `OrderVotesNeedQC`, `OrderCertificates` and `NoOrderVoteLost`.

**RoundStateProofs.** The inductive invariant is `RoundInv`. A QC handed out
must have been formed of verified signatures, so the invariant speaks of the
aggregator: as long as a block has no QC the valid signature of its author's
latest vote is kept and the signatures held do not reach the quorum
(`VotesCounted`). For timeouts it says that the carried QC round covers every
signed one (`TimeoutsCounted`), and that without a QC every honest timeout that
arrived is counted and has had its effect (`HeardCounted`). All six properties of
the run follow. Of timeout certificates `TCsCoverSigners` proves `TCsCover`; that
they verify, `TCsVerify`, is false, as `round_state_restart` shows.

**RoundManagerProofs.** The inductive invariant `ManagerInv` says that a
validator's round is the one after its highest certificate, that SafetyRules has
seen no QC above the one the BlockStore holds and signed in no round above the
current one, and that every message in the network was sent in that condition: it
is of the round after the certificates it carries, and a proposal extends the QC
in it. It is needed because what SafetyRules sees comes from messages: a vote
makes it see the QC of the proposal, and the timeout of the round can be signed
only if the BlockStore then holds one as high. `TypesKept`,
`TimeoutNeverRefused`, `RoundsGrow` and `SyncedToMessage` follow, for any number
of validators, blocks, rounds and restarts; a restart begins the round the
validator was in because that round is a function of what was persisted.

**BlockStoreProofs.** The inductive invariant is `StoreInv`, in
four parts. `TreeOK`: the window root is that of the commit root, roots and
highest certificates are ordered by round, a block that descends from the window
root has its path to it in memory, links below it lead to blocks in memory, and
no pruned block is below it. Since the roots are committable and
certificates committable only on one path, order by round is order on the path.
`Stored`: storage has what memory has below the window root, and the highest
certificate. `Pipelined`: commits and callbacks follow in the order of rounds,
between commit root and ordered root. `Recoverable`: the certificate of a block
that can be committed was saved before any of its descendants, unless a sync was
interrupted, and a sync under way has saved the root it is going to need. The
last part is why storage suffices wherever a crash falls: a block that is
committed next has descendants in storage, so its certificate is there.
The first half of the module has the facts about trees and the operations on
one; then come one lemma per action and the eight theorems that state the
properties of the run, among them the action properties `LedgerGrows` and
`HighestQCKept`. `LedgerGrows` rests on the driver's refusal of old targets and
on what the pipeline may commit, not on `latest_logical_time`; `SyncSucceeds` on
what a sync saves before it asks for the state sync.

**BufferManagerSteps, BufferManagerProofs.** The inductive invariant is `PipelineInv`. None of the
six properties is inductive, since each is about the buffer while an answer that
is still queued decides what becomes of it. So the invariant follows the blocks
of the current tree through the whole pipeline. `Chain`: requests to the
persisting phase, buffer, blocks on their way to it and blocks still to be
ordered follow each other on the chain. `Queues`: the queues to and from the
execution keep that order, an entry with the last block of an item is about the
blocks of that item, an ordered item waits for an answer or has failed, and the
answer says which. Hence answers come in turn, executed items are a prefix of the
buffer, and what `advance_head` pops was executed even though it looks at the
certified item only. `Roots`: both cursors are at the first item of their stage.
`Certificates`: signatures that count were acknowledged, proofs came from the
network, and so every request to persist is for a decided block. Under `Fresh`,
as long as no answer of an earlier tree was taken for one of the current tree and
no state sync after a reset has failed:
the buffer lies above the ledger, requests to the persisting phase can be served
one after the other, its answers trail the ledger, the last round taken in is
committed or on its way, no block that is to be persisted was aborted, and
acknowledged votes are kept. `AnswersFit` and
`CommitsAreCertified` do not depend on `Fresh`. A larger instance than the run's,
with two state syncs, was needed to see which properties do. The proof is in two
modules: the first has the invariant and the steps that pop nothing off the
buffer; the second has the steps that may pop its head, and the theorems. Lemmas that look for the first item of a
stage assume `NumbersOrdered`, which `Least` proves at the end.

**BatchStoreProofs.** `QuotaSafety` sums what an author is charged for over the
slots of the cache, the sweeps and the inserts, so that a step moves a value from
one slot to another, or charges or frees one.
`Scheduled` and `FetchWakeup` are inductive with the types. `SignedBatchesKept`
is not: a batch is promised by the task that cached it before it is signed, and
a sweep that has seen it expired may still be about to remove it, so the
invariant follows a promise from the insertion on and bounds what a sweep may
remove (`Promised`, `Safe`).

The inductive invariants were first checked with TLC on the instances of the
runs. Every type invariant is a conjunct of one of them.

### Only model-checked

* The liveness properties `EveryRoundEnds`, `BlocksGetThrough` and
  `ResetAnswered`: liveness under fairness and `ENABLED` are out of the prover's
  reach.
* What is defined by recursion: the sums of stakes and of bytes are constants
  with an assumption in the proofs and are computed in the MC modules; induction
  over data is out of reach.

## Not modelled

Execution, the Move VM, storage engines, networking, the API and the tools are
I/O or deterministic computation to which consensus is indifferent. Of state sync
there is what consensus sees of it: which targets are refused, reached or failed.
The DAG protocol, the consensus observer, DKG, JWK consensus and randomness
generation are separate services. Reliable broadcast is a retry loop; no property
relies on what it delivers. The EpochManager starts and stops the other parts; their own epoch
changes are in `SafetyRules`, `PendingOrderVotes` and `BufferManager`. Of the
quorum store the making of batches and proofs (generator, coordinators, queues)
is left out. Leader reputation and proposal generation affect performance only:
`RoundManager` takes the proposers as given. Optimistic proposals are not
modelled. Cryptography is represented by who signed what.
