--------------------------- MODULE BufferManager ---------------------------
(***************************************************************************)
(* The decoupled execution pipeline of one validator: BufferManager of     *)
(* consensus/src/pipeline/buffer_manager.rs with the items of              *)
(* buffer_item.rs, the cursors of buffer.rs and the four phases it feeds   *)
(* (schedule, execution wait, signing, persisting).                        *)
(*                                                                         *)
(* The manager is one task: a tokio select! loop takes one ready branch at *)
(* a time, so a branch is an action.  Only reset() awaits other tasks; it  *)
(* is three actions.  The phases run concurrently, each serving its queue  *)
(* in order.  Channels are sequences, and survive a reset.                 *)
(*                                                                         *)
(* The ordered chain is linear: the block of round r has one id, so a      *)
(* cursor is the round of an item's last block (0 for None).  A state sync *)
(* rebuilds the tree with new PipelinedBlock objects for the same ids;     *)
(* "gen" tells the objects of one tree from those of the next.             *)
(***************************************************************************)
EXTENDS Integers, Sequences, FiniteSetsExt

CONSTANTS
  Validator, Self, Faulty,  \* the epoch's validators, this one, the faulty ones
  Quorum,                   \* the sets of validators with quorum voting power
  MaxRound,                 \* bound: blocks of the chain
  MaxBatch,                 \* bound: blocks ordered by one proof
  MaxBacklog,               \* MAX_BACKLOG
  VoteCache,                \* max_pending_rounds_in_commit_vote_cache
  MaxProofs,                \* MAX_PENDING_COMMIT_PROOFS
  Scenario,                 \* bounds: the length of the chain, the round of its
                            \* reconfiguration (0: none), the rounds whose votes
                            \* arrive, and how many resets and failed executions
  FaultyVote,               \* bound: the votes faulty validators send
  Decision                  \* bound: the rounds whose commit decision arrives

ASSUME BoundAssumption ==
  /\ MaxRound \in Nat /\ MaxBatch \in Nat /\ MaxBacklog \in Nat
  /\ VoteCache \in Nat /\ MaxProofs \in Nat

ASSUME QuorumAssumption ==
  /\ Self \in Validator /\ Faulty \subseteq Validator \ {Self}
  /\ Quorum \subseteq SUBSET Validator
  /\ \A Q \in Quorum, S \in SUBSET Validator : Q \subseteq S => S \in Quorum
  /\ \A Q \in Quorum : ~ Q \subseteq Faulty
  /\ Decision \subseteq 1..MaxRound
  /\ Scenario \subseteq [rounds : 1..MaxRound, epoch_end : 0..MaxRound,
                         voted : SUBSET (1..MaxRound), faults : Nat]
  /\ FaultyVote \subseteq [author : Faulty, round : 1..MaxRound,
                           kind : {"good", "mismatch", "badsig"}]

VARIABLES
  buffer,                  \* sequence of items, the oldest first
  execution_root, signing_root,
  block_rx,                \* ordered blocks from the block store
  schedule_rx, wait_tx, wait_rx,
  signing_tx, signing_rx,
  persisting_tx, persisting_rx,
  pending_commit_votes, pending_commit_proofs, pending_commit_blocks,
  highest_committed_round, latest_round,
  mode,                    \* "run", the two waits of reset(), or "stopped"
  reset_signal,            \* what is answered: 0 epoch end, -1 Stop, r TargetRound(r)
  \* the rest of the node
  gen, next_round,         \* the block tree: its incarnation, the next round it orders
  committed,               \* the ledger: the last round written by commit_ledger
  finished,                \* the last round of this tree whose commit_ledger future is done
  failed,                  \* the first round of this tree whose execution fails
  aborted,                 \* the first round of this tree whose pipeline a reset aborted
  latest_logical_time,     \* ExecutionProxy: the round of the last state sync tried
  scenario,                \* the chain and the faults of this behaviour
  own_votes,               \* rounds whose commit vote this validator broadcast
  acked,                   \* <<a, r>>: a's valid vote for r was acknowledged
  certified,               \* rounds whose commit proof arrived from outside
  faults,
  stale                    \* an answer of before a reset changed the state after it,
                           \* or the state sync after a reset failed

channels == <<schedule_rx, wait_tx, wait_rx, signing_tx, signing_rx, persisting_tx,
              persisting_rx>>
pending == <<pending_commit_votes, pending_commit_proofs, pending_commit_blocks>>
roots == <<execution_root, signing_root>>
rounds == <<highest_committed_round, latest_round>>
control == <<mode, reset_signal>>
node == <<gen, next_round, committed, finished, failed, aborted, latest_logical_time,
          scenario>>
history == <<own_votes, acked, certified, faults, stale>>
vars == <<buffer, roots, block_rx, channels, pending, rounds, control, node, history>>

Round == 1..MaxRound
None == 0
epoch_end == scenario.epoch_end
Honest == Validator \ Faulty
Kind == {"good", "mismatch", "badsig"}
NoVotes == [a \in Validator |-> "none"]

-----------------------------------------------------------------------------
(* buffer.rs: the cursors *)

Ids(buf) == {buf[i].last : i \in DOMAIN buf}
IndexOf(buf, id) == CHOOSE i \in DOMAIN buf : buf[i].last = id
head_cursor(buf) == IF buf = <<>> THEN None ELSE buf[1].last

\* Mutant: the item is looked up by its id alone.
MutFindAnywhere(buf, cursor, key) == IF key \in Ids(buf) THEN key ELSE None

find_elem_by_key(buf, cursor, key) ==
  IF /\ cursor \in Ids(buf) /\ key \in Ids(buf)
     /\ IndexOf(buf, key) >= IndexOf(buf, cursor)
  THEN key ELSE None

find_elem_from(buf, cursor, stage) ==
  LET after == {i \in DOMAIN buf : /\ cursor \in Ids(buf)
                                   /\ i >= IndexOf(buf, cursor)
                                   /\ buf[i].stage = stage}
  IN  IF after = {} THEN None ELSE buf[Min(after)].last

-----------------------------------------------------------------------------
(* buffer_item.rs *)

\* Mutant: the votes that came before the block are dropped.
MutDropEarlyVotes(b, votes) ==
  [first |-> b.first, last |-> b.last, gen |-> b.gen, stage |-> "ordered",
   votes |-> NoVotes, proof |-> FALSE]

new_ordered(b, votes) ==
  [first |-> b.first, last |-> b.last, gen |-> b.gen, stage |-> "ordered",
   votes |-> votes, proof |-> FALSE]

Voters(votes) == {a \in Validator : votes[a] # "none"}
Good(votes) == {a \in Validator : votes[a] = "good"}
EnoughPower(S) == S \in Quorum

\* Mutant: the signatures are aggregated without being verified.
MutAggregateUnverified(votes) == EnoughPower(Voters(votes))

\* aggregate_and_verify succeeds when the voting power is there and is still
\* there once the signatures that do not verify are filtered out.
Aggregates(votes) == EnoughPower(Voters(votes)) /\ EnoughPower(Good(votes))

\* ... and when it fails in place, what the filter leaves.
Filtered(votes) ==
  IF EnoughPower(Voters(votes))
  THEN [a \in Validator |-> IF votes[a] = "good" THEN "good" ELSE "none"]
  ELSE votes

create_signature_aggregator(votes) ==
  [a \in Validator |-> IF votes[a] = "mismatch" THEN "none" ELSE votes[a]]

advance_to_executed_or_aggregated(item, executed_gen) ==
  LET votes == create_signature_aggregator(item.votes)
      new == [item EXCEPT !.gen = executed_gen]
  IN  IF item.proof \/ Aggregates(votes)
      THEN [new EXCEPT !.stage = "aggregated"]
      ELSE [new EXCEPT !.stage = "executed", !.votes = Filtered(votes)]

\* Mutant: a commit decision does not wait for the execution.
MutAggregateOrdered(item) == [item EXCEPT !.stage = "aggregated"]

try_advance_to_aggregated_with_ledger_info(item) ==
  IF item.stage = "ordered" THEN [item EXCEPT !.proof = TRUE]
                            ELSE [item EXCEPT !.stage = "aggregated"]

\* The signed item aggregates a clone, so what was filtered comes back.
try_advance_to_aggregated(item) ==
  CASE item.stage = "ordered" -> item
    [] item.stage # "ordered" /\ Aggregates(item.votes) ->
         [item EXCEPT !.stage = "aggregated"]
    [] item.stage = "signed" /\ ~ Aggregates(item.votes) -> item
    [] item.stage = "executed" /\ ~ Aggregates(item.votes) ->
         [item EXCEPT !.votes = Filtered(item.votes)]

\* Whether the vote is added: an ordered item takes any vote for its block, an
\* executed one only a vote for the result it computed.
signature_matches(item, kind) == item.stage = "ordered" \/ kind # "mismatch"

-----------------------------------------------------------------------------
(* The parts of buffer_manager.rs that several branches share *)

need_back_pressure == highest_committed_round + MaxBacklog < latest_round

ends_epoch(target) == epoch_end # None /\ target >= epoch_end

\* Mutant: a proof that came before the execution is drained and not used.
MutForgetProof(r) == FALSE

\* drain_pending_commit_proof_till: what stays, and whether the last of the
\* rest is the proof of this block.
ProofsAfter(r) == {p \in pending_commit_proofs : p > r}
DrainsOwn(r) == r \in pending_commit_proofs

first_from(buf, cursor, stage) ==
  find_elem_from(buf, IF cursor = None THEN head_cursor(buf) ELSE cursor, stage)

advance_execution_root(buf, cursor) == execution_root' = first_from(buf, cursor, "ordered")

advance_signing_root(buf, cursor) ==
  \E root \in {first_from(buf, cursor, "executed")} :
      /\ signing_root' = root
      /\ signing_tx' = IF root = None THEN signing_tx ELSE Append(signing_tx, root)

signing_root_as(root) == signing_root' = root /\ UNCHANGED signing_tx

\* Mutant: a root to a popped item is kept.
MutKeepRoot(root, popped) == root

Popped(buf, target) == SubSeq(buf, 1, IndexOf(buf, target))
Rest(buf, target) == SubSeq(buf, IndexOf(buf, target) + 1, Len(buf))
Unless(root, popped) == IF root \in Ids(popped) THEN None ELSE root
BlocksOf(items) ==
  UNION {{[round |-> r, gen |-> items[i].gen] : r \in items[i].first..items[i].last}
         : i \in DOMAIN items}

\* The prefix up to the aggregated item, whatever the stage of the items in
\* it, goes to the persisting phase.  An epoch-ending proof resets at once.
advance_head(buf, target) ==
  \E popped \in {Popped(buf, target)} : \E blocks \in {BlocksOf(popped)} :
      /\ buffer' = Rest(buf, target)
      /\ persisting_tx' = Append(persisting_tx, [blocks |-> blocks, target |-> target,
                                                executed |-> \A i \in DOMAIN popped :
                                                               popped[i].stage # "ordered"])
      /\ pending_commit_blocks' =
           {b \in pending_commit_blocks : \A c \in blocks : c.round # b.round} \cup blocks
      /\ IF ends_epoch(target) THEN mode' = "commits" /\ reset_signal' = 0
                               ELSE UNCHANGED control

\* advance_head followed by what its caller does to the roots: after an epoch's
\* end the buffer is empty by then, and the roots stay None.
advance_head_and_roots(buf, target) ==
  \E rest \in {Rest(buf, target)},
     e \in {Unless(execution_root, Popped(buf, target))},
     s \in {Unless(signing_root, Popped(buf, target))} :
      /\ advance_head(buf, target)
      /\ IF e = None /\ ~ ends_epoch(target) THEN advance_execution_root(rest, None)
                                            ELSE execution_root' = e
      /\ IF s = None /\ ~ ends_epoch(target) THEN advance_signing_root(rest, None)
                                            ELSE signing_root_as(s)

-----------------------------------------------------------------------------
(* The branches of the main loop, BufferManager::start *)

\* Some(blocks) = block_rx.next(), if !need_back_pressure()
process_ordered_blocks ==
  /\ mode = "run" /\ block_rx # <<>> /\ ~ need_back_pressure
  /\ LET b == Head(block_rx)
         buf == Append(buffer, new_ordered(b, pending_commit_votes[b.last]))
     IN  /\ buffer' = buf
         /\ schedule_rx' = Append(schedule_rx, b)
         /\ pending_commit_votes' = [pending_commit_votes EXCEPT ![b.last] = NoVotes]
         /\ latest_round' = b.last
         /\ IF execution_root = None THEN advance_execution_root(buf, None)
                                     ELSE UNCHANGED execution_root
  /\ block_rx' = Tail(block_rx)
  /\ UNCHANGED <<signing_root, wait_tx, wait_rx, signing_tx, signing_rx,
                 persisting_tx, persisting_rx, pending_commit_proofs,
                 pending_commit_blocks, highest_committed_round, control, node,
                 history>>

\* Some(response) = execution_schedule_phase_rx.next()
process_execution_schedule_response ==
  /\ mode = "run" /\ schedule_rx # <<>>
  /\ schedule_rx' = Tail(schedule_rx)
  /\ wait_tx' = Append(wait_tx, Head(schedule_rx))
  /\ UNCHANGED <<buffer, roots, block_rx, wait_rx, signing_tx, signing_rx,
                 persisting_tx, persisting_rx, pending, rounds, control, node,
                 history>>

ExecutedCursor(resp) == find_elem_by_key(buffer, execution_root, resp.last)

\* An answer for no item, or an error: the roots are advanced all the same.
ignore_execution_response ==
  /\ mode = "run" /\ wait_rx # <<>>
  /\ ExecutedCursor(Head(wait_rx)) = None \/ ~ Head(wait_rx).ok
  /\ wait_rx' = Tail(wait_rx)
  /\ advance_execution_root(buffer, execution_root)
  /\ IF signing_root = None THEN advance_signing_root(buffer, None)
                            ELSE signing_root_as(signing_root)
  /\ UNCHANGED <<buffer, block_rx, schedule_rx, wait_tx, signing_rx, persisting_tx,
                 persisting_rx, pending, rounds, control, node, history>>

\* Some(response) = execution_wait_phase_rx.next()
process_execution_response ==
  /\ mode = "run" /\ wait_rx # <<>>
  /\ ExecutedCursor(Head(wait_rx)) # None /\ Head(wait_rx).ok
  /\ wait_rx' = Tail(wait_rx)
  /\ \E resp \in {Head(wait_rx)}, i \in DOMAIN buffer :
     \E executed \in {advance_to_executed_or_aggregated(buffer[i], resp.gen)} :
     \E item \in {IF executed.stage # "aggregated" /\ DrainsOwn(resp.last)
                  THEN try_advance_to_aggregated_with_ledger_info(executed) ELSE executed} :
     \E buf \in {[buffer EXCEPT ![i] = item]} :
         /\ buffer[i].last = resp.last
         /\ pending_commit_proofs' = ProofsAfter(resp.last)
         /\ stale' = (stale \/ resp.gen # buffer[i].gen)
         /\ IF item.stage = "aggregated"
            THEN advance_head_and_roots(buf, resp.last)
            ELSE /\ buffer' = buf
                 /\ advance_execution_root(buf, execution_root)
                 /\ IF signing_root = None THEN advance_signing_root(buf, None)
                                           ELSE signing_root_as(signing_root)
                 /\ UNCHANGED <<persisting_tx, pending_commit_blocks, control>>
  /\ UNCHANGED <<block_rx, schedule_rx, wait_tx, signing_rx, persisting_rx,
                 pending_commit_votes, rounds, node, own_votes, acked, certified,
                 faults>>

\* Some(response) = signing_phase_rx.next(): an item found executed becomes
\* signed and its vote is broadcast; the root is advanced in every case.
process_signing_response ==
  /\ mode = "run" /\ signing_rx # <<>>
  /\ signing_rx' = Tail(signing_rx)
  /\ \E resp \in {Head(signing_rx)} :
     \E signs \in {/\ resp.ok
                   /\ find_elem_by_key(buffer, signing_root, resp.round) # None
                   /\ buffer[IndexOf(buffer, resp.round)].stage = "executed"} :
     \E buf \in {IF signs
                 THEN [buffer EXCEPT ![IndexOf(buffer, resp.round)].stage = "signed"]
                 ELSE buffer} :
         /\ buffer' = buf
         /\ own_votes' = IF signs THEN own_votes \cup {resp.round} ELSE own_votes
         /\ advance_signing_root(buf, signing_root)
  /\ UNCHANGED <<execution_root, block_rx, schedule_rx, wait_tx, wait_rx,
                 persisting_tx, persisting_rx, pending, rounds, control, node,
                 acked, certified, faults, stale>>

\* Some(Ok(round)) = persisting_phase_rx.next()
process_persisting_response ==
  /\ mode = "run" /\ persisting_rx # <<>>
  /\ LET resp == Head(persisting_rx)
     IN  /\ highest_committed_round' = resp.round
         /\ pending_commit_votes' =
              [r \in Round |-> IF r > resp.round THEN pending_commit_votes[r] ELSE NoVotes]
         /\ pending_commit_blocks' = {b \in pending_commit_blocks : b.round > resp.round}
         /\ stale' = (stale \/ (resp.gen # gen /\ resp.round < highest_committed_round))
  /\ persisting_rx' = Tail(persisting_rx)
  /\ UNCHANGED <<buffer, roots, block_rx, schedule_rx, wait_tx, wait_rx, signing_tx,
                 signing_rx, persisting_tx, pending_commit_proofs, latest_round,
                 control, node, own_votes, acked, certified, faults>>

Vote == [author : Honest, round : Round, kind : {"good"}] \cup FaultyVote

\* The votes that can arrive: a validator that follows the protocol votes for
\* the result every correct validator computes.  This one's come from the
\* pipelines of its blocks, as soon as they are executed, and from process_-
\* signing_response.
Cast(v) ==
  /\ v.round \in scenario.voted
  /\ v.author = Self => v.round \in own_votes \/ (v.round < next_round /\ v.round < failed)

Acked(v) == acked' = IF v.kind = "good" THEN acked \cup {<<v.author, v.round>>} ELSE acked

\* Some(rpc_request) = verified_commit_msg_rx.next(), a vote for a block in
\* the buffer: stored and acknowledged, or refused when it does not match.
process_commit_vote(v) ==
  /\ mode = "run" /\ Cast(v)
  /\ \E i \in {j \in DOMAIN buffer : buffer[j].last = v.round} :
     \E item \in {IF signature_matches(buffer[i], v.kind)
                  THEN try_advance_to_aggregated([buffer[i] EXCEPT !.votes[v.author] = v.kind])
                  ELSE buffer[i]} :
     \E buf \in {[buffer EXCEPT ![i] = item]} :
         /\ IF signature_matches(buffer[i], v.kind) THEN Acked(v) ELSE UNCHANGED acked
         /\ IF item.stage = "aggregated"
            THEN advance_head_and_roots(buf, v.round)
            ELSE /\ buffer' = buf
                 /\ UNCHANGED <<roots, signing_tx, persisting_tx,
                                pending_commit_blocks, control>>
  /\ UNCHANGED <<block_rx, schedule_rx, wait_tx, wait_rx, signing_rx, persisting_rx,
                 pending_commit_votes, pending_commit_proofs, rounds, node,
                 own_votes, certified, faults, stale>>

\* ... a vote for a block not in the buffer, cached for the next rounds only.
try_add_pending_commit_vote(v) ==
  /\ mode = "run" /\ Cast(v) /\ v.round \notin Ids(buffer)
  /\ v.round > highest_committed_round
  /\ highest_committed_round + VoteCache > v.round
  /\ pending_commit_votes' = [pending_commit_votes EXCEPT ![v.round][v.author] = v.kind]
  /\ Acked(v)
  /\ UNCHANGED <<buffer, roots, block_rx, channels, pending_commit_proofs,
                 pending_commit_blocks, rounds, control, node, own_votes, certified,
                 faults, stale>>

\* ... a commit decision, verified to carry a quorum.
process_commit_decision(r) ==
  /\ mode = "run" /\ r <= scenario.rounds
  /\ certified' = certified \cup {r}
  /\ IF r \in Ids(buffer)
     THEN \E i \in {IndexOf(buffer, r)} :
          \E buf \in {[buffer EXCEPT ![i] = try_advance_to_aggregated_with_ledger_info(@)]} :
              /\ IF buf[i].stage = "aggregated"
                 THEN advance_head_and_roots(buf, r)
                 ELSE /\ buffer' = buf
                      /\ UNCHANGED <<roots, signing_tx, persisting_tx,
                                     pending_commit_blocks, control>>
              /\ UNCHANGED pending_commit_proofs
     ELSE /\ pending_commit_proofs' =
               IF highest_committed_round < r /\ Cardinality(pending_commit_proofs) < MaxProofs
               THEN pending_commit_proofs \cup {r} ELSE pending_commit_proofs
          /\ UNCHANGED <<buffer, roots, signing_tx, persisting_tx,
                         pending_commit_blocks, control>>
  /\ UNCHANGED <<block_rx, schedule_rx, wait_tx, wait_rx, signing_rx, persisting_rx,
                 pending_commit_votes, rounds, node, own_votes, acked, faults,
                 stale>>

\* Some(reset_event) = reset_rx.next(): a state sync to a round the ledger has
\* not reached, certified by the network ...
process_reset_request(r) ==
  /\ mode = "run" /\ faults < scenario.faults /\ r > committed /\ r <= scenario.rounds
  /\ highest_committed_round' = r /\ latest_round' = r
  /\ pending_commit_proofs' = ProofsAfter(r)
  /\ mode' = "commits" /\ reset_signal' = r
  /\ certified' = certified \cup {r}
  /\ faults' = faults + 1
  /\ UNCHANGED <<buffer, roots, block_rx, channels, pending_commit_votes,
                 pending_commit_blocks, node, own_votes, acked, stale>>

\* ... or the end of the epoch.
process_stop_request ==
  /\ mode = "run" /\ epoch_end # None /\ committed >= epoch_end
  /\ mode' = "commits" /\ reset_signal' = -1
  /\ UNCHANGED <<buffer, roots, block_rx, channels, pending, rounds, node, history>>

\* Mutant: waits for answers that only the main loop takes.
MutWaitForAnswers == pending_commit_blocks = {}

\* reset(): once the blocks being persisted have finished, the buffer and the
\* incoming blocks are dropped and their pipelines aborted.  At the end of the
\* epoch no later block executes either ("will result in BlockNotFound").
CommitFails(b) == b.gen # gen \/ b.round >= failed \/ b.round >= aborted
CommitsFinished ==
  \A b \in pending_commit_blocks : b.round <= finished \/ CommitFails(b)

reset_buffer ==
  /\ mode = "commits" /\ CommitsFinished
  /\ buffer' = <<>> /\ block_rx' = <<>>
  /\ execution_root' = None /\ signing_root' = None
  /\ pending_commit_blocks' = {}
  /\ mode' = "tasks"
  /\ aborted' = IF finished < aborted THEN finished + 1 ELSE aborted
  /\ failed' = IF reset_signal = 0 /\ finished < failed THEN finished + 1 ELSE failed
  /\ acked' = {x \in acked : x[2] \notin Ids(buffer)}
  /\ UNCHANGED <<channels, pending_commit_votes, pending_commit_proofs, rounds,
                 reset_signal, gen, next_round, committed, finished,
                 latest_logical_time, scenario, own_votes, certified, faults, stale>>

ongoing_tasks ==
  Len(wait_tx) + Len(signing_tx) + Len(persisting_tx)

\* The acknowledgement.  ExecutionProxy::sync_to_target then moves the ledger
\* to the target, or returns at once if it has tried as far before; and the
\* block store rebuilds the tree from the ledger.
sync_to_target ==
  \E base \in 0..MaxRound :
      /\ \/ /\ latest_logical_time >= reset_signal /\ base = committed
            /\ UNCHANGED latest_logical_time
         \/ /\ latest_logical_time < reset_signal /\ reset_signal >= committed
            /\ base = reset_signal /\ latest_logical_time' = reset_signal
      /\ gen' = gen + 1
      /\ committed' = base /\ finished' = base
      /\ next_round' = base + 1
      /\ failed' = MaxRound + 1 /\ aborted' = MaxRound + 1
      /\ UNCHANGED stale

\* It fails, always so if the ledger has gone past the target by now: the tree
\* stays, and nobody hands in again the blocks that the reset dropped.
sync_fails ==
  /\ latest_logical_time < reset_signal
  /\ latest_logical_time' = reset_signal
  /\ stale' = TRUE
  /\ UNCHANGED <<gen, committed, finished, next_round, failed, aborted>>

reset_ack ==
  /\ mode = "tasks" /\ ongoing_tasks = 0
  /\ mode' = IF reset_signal = -1 THEN "stopped" ELSE "run"
  /\ \/ reset_signal > 0 /\ sync_to_target
     \/ reset_signal > 0 /\ sync_fails
     \/ reset_signal <= 0 /\ UNCHANGED <<gen, committed, finished, next_round, failed,
                                        aborted, latest_logical_time, stale>>
  /\ UNCHANGED <<buffer, roots, block_rx, channels, pending, rounds, reset_signal,
                 scenario, own_votes, acked, certified, faults>>

-----------------------------------------------------------------------------
(* The phases: pipeline_phase.rs, each serving its queue in order *)

\* A block executes on its parent's result: it fails where an ancestor failed.
\* An aborted pipeline answers an error unless it was done before the abort.
Aborting == mode = "tasks"
CanSucceed(b) == b.gen = gen /\ (b.last < failed \/ Aborting)
MustFail(b) == b.gen # gen \/ b.last >= failed \/ Aborting

execution_wait_phase(ok) ==
  /\ wait_tx # <<>>
  /\ IF ok THEN CanSucceed(Head(wait_tx)) ELSE MustFail(Head(wait_tx))
  /\ LET b == Head(wait_tx)
     IN  wait_rx' = Append(wait_rx, [first |-> b.first, last |-> b.last,
                                     gen |-> b.gen, ok |-> ok])
  /\ wait_tx' = Tail(wait_tx)
  /\ UNCHANGED <<buffer, roots, block_rx, schedule_rx, signing_tx, signing_rx,
                 persisting_tx, persisting_rx, pending, rounds, control, node,
                 history>>

\* The execution of a block fails: the future is shared, so for good.  On top of
\* an aborted block it may, whatever else goes wrong.
execution_fails(r) ==
  /\ failed > MaxRound /\ wait_tx # <<>>
  /\ Head(wait_tx).gen = gen /\ r \in Head(wait_tx).first..Head(wait_tx).last
  /\ \A q \in Round : <<Self, q>> \in acked => q < r
  /\ failed' = r
  /\ IF r >= aborted THEN UNCHANGED faults
                     ELSE faults < scenario.faults /\ faults' = faults + 1
  /\ UNCHANGED <<buffer, roots, block_rx, channels, pending, rounds, control, gen,
                 next_round, committed, finished, aborted, latest_logical_time,
                 scenario, own_votes, acked, certified, stale>>

\* Takes the vote that the block's pipeline has signed.  As the block was
\* executed only an abort makes that future fail, and then for good.
signing_phase(ok) ==
  /\ signing_tx # <<>>
  /\ ~ ok => Aborting
  /\ signing_tx' = Tail(signing_tx)
  /\ signing_rx' = Append(signing_rx, [round |-> Head(signing_tx), ok |-> ok])
  /\ UNCHANGED <<buffer, roots, block_rx, schedule_rx, wait_tx, wait_rx,
                 persisting_tx, persisting_rx, pending, rounds, control, node,
                 history>>

\* The blocks of a request whose commit_ledger succeeds.
Live(req) == {b \in req.blocks : ~ CommitFails(b)}

\* Mutant: answers with the first block of the request.
MutAnswerFirst ==
  /\ persisting_tx # <<>>
  /\ LET req == Head(persisting_tx)
         live == {b.round : b \in Live(req)}
     IN  /\ \A r \in live : (finished + 1)..r \subseteq live
         /\ finished' = Max(live \cup {finished})
         /\ committed' = IF req.target \in live THEN Max({committed, req.target})
                         ELSE committed
         /\ persisting_rx' =
              Append(persisting_rx,
                     [round |-> Min({b.round : b \in req.blocks}), gen |-> gen])
  /\ persisting_tx' = Tail(persisting_tx)
  /\ UNCHANGED <<buffer, roots, block_rx, schedule_rx, wait_tx, wait_rx, signing_tx,
                 signing_rx, pending, rounds, control, gen, next_round, failed,
                 aborted, latest_logical_time, scenario, history>>

\* Hands the proof to every block of the request and waits for its
\* commit_ledger, which waits for the parent's and writes the ledger only for
\* the block the proof is about.  The answer is Ok whatever came of it.
persisting_phase ==
  /\ persisting_tx # <<>>
  /\ LET req == Head(persisting_tx)
         live == {b.round : b \in Live(req)}
     IN  /\ \A r \in live : (finished + 1)..r \subseteq live
         /\ finished' = Max(live \cup {finished})
         /\ committed' = IF req.target \in live THEN Max({committed, req.target})
                         ELSE committed
         /\ persisting_rx' = Append(persisting_rx, [round |-> req.target, gen |-> gen])
  /\ persisting_tx' = Tail(persisting_tx)
  /\ UNCHANGED <<buffer, roots, block_rx, schedule_rx, wait_tx, wait_rx, signing_tx,
                 signing_rx, pending, rounds, control, gen, next_round, failed,
                 aborted, latest_logical_time, scenario, history>>

-----------------------------------------------------------------------------
(* The block store orders the next blocks, except while it waits for a reset *)

finalize_order(k) ==
  /\ mode = "run" \/ (mode \in {"commits", "tasks"} /\ reset_signal = 0)
  /\ next_round + k - 1 <= scenario.rounds
  /\ block_rx' = Append(block_rx, [first |-> next_round, last |-> next_round + k - 1,
                                   gen |-> gen])
  /\ next_round' = next_round + k
  /\ UNCHANGED <<buffer, roots, channels, pending, rounds, control, gen, committed,
                 finished, failed, aborted, latest_logical_time, scenario, history>>

Init ==
  /\ buffer = <<>> /\ execution_root = None /\ signing_root = None
  /\ block_rx = <<>> /\ schedule_rx = <<>> /\ wait_tx = <<>>
  /\ wait_rx = <<>> /\ signing_tx = <<>> /\ signing_rx = <<>>
  /\ persisting_tx = <<>> /\ persisting_rx = <<>>
  /\ pending_commit_votes = [r \in Round |-> NoVotes]
  /\ pending_commit_proofs = {} /\ pending_commit_blocks = {}
  /\ highest_committed_round = 0 /\ latest_round = 0
  /\ mode = "run" /\ reset_signal = 0
  /\ gen = 0 /\ next_round = 1 /\ committed = 0 /\ finished = 0
  /\ failed = MaxRound + 1 /\ aborted = MaxRound + 1 /\ latest_logical_time = 0
  /\ scenario \in Scenario
  /\ own_votes = {} /\ acked = {} /\ certified = {}
  /\ faults = 0 /\ stale = FALSE

Next ==
  \/ process_ordered_blocks
  \/ process_execution_schedule_response
  \/ ignore_execution_response
  \/ process_execution_response
  \/ process_signing_response
  \/ process_persisting_response
  \/ \E v \in Vote : process_commit_vote(v)
  \/ \E v \in Vote : try_add_pending_commit_vote(v)
  \/ \E r \in Decision : process_commit_decision(r)
  \/ \E r \in Round : process_reset_request(r)
  \/ process_stop_request
  \/ reset_buffer
  \/ reset_ack
  \/ \E ok \in BOOLEAN : execution_wait_phase(ok)
  \/ \E r \in Round : execution_fails(r)
  \/ \E ok \in BOOLEAN : signing_phase(ok)
  \/ persisting_phase
  \/ \E k \in 1..MaxBatch : finalize_order(k)

-----------------------------------------------------------------------------
(* Fairness: while a branch or a phase has something to do, one of them does *)
(* it.  select! polls its branches in random order, and the phases are tasks  *)
(* of the same runtime.  No fairness on the arrival of votes and decisions, on *)
(* resets and failures, and on the block store.                               *)

Progress ==
  \/ process_ordered_blocks \/ process_execution_schedule_response
  \/ ignore_execution_response \/ process_execution_response
  \/ process_signing_response \/ process_persisting_response
  \/ reset_buffer \/ reset_ack
  \/ \E ok \in BOOLEAN : execution_wait_phase(ok) \/ signing_phase(ok)
  \/ persisting_phase

Spec == Init /\ [][Next]_vars /\ WF_vars(Progress)

-----------------------------------------------------------------------------
(* Properties *)

Item == [first : Round, last : Round, gen : Nat, stage : {"ordered", "executed", "signed"},
         votes : [Validator -> Kind \cup {"none"}], proof : BOOLEAN]

\* The state is well formed; in particular no aggregated item stays in the
\* buffer, which buffer_item.rs holds to be unreachable ("any aggregated buffer
\* item should get dequeued right away").
TypeOK ==
  /\ \A i \in DOMAIN buffer : buffer[i] \in Item
  /\ execution_root \in Round \cup {None} /\ signing_root \in Round \cup {None}
  /\ pending_commit_votes \in [Round -> [Validator -> Kind \cup {"none"}]]
  /\ pending_commit_proofs \subseteq Round
  /\ highest_committed_round \in 0..MaxRound /\ latest_round \in 0..MaxRound
  /\ mode \in {"run", "commits", "tasks", "stopped"} /\ reset_signal \in -1..MaxRound
  /\ committed \in 0..MaxRound /\ finished \in 0..MaxRound
  /\ failed \in 1..(MaxRound + 1) /\ aborted \in 1..(MaxRound + 1)
  /\ latest_logical_time \in 0..MaxRound
  /\ own_votes \subseteq Round /\ acked \subseteq Validator \X Round /\ certified \subseteq Round

EpochOver == epoch_end # None /\ committed >= epoch_end

\* "the roots point to the first *unprocessed* item": between two branches the
\* execution root is the first item not executed and the signing root the first
\* executed item not signed, with a signing request for it on its way.  A root
\* left behind, or None too early, stops the pipeline without an error.  Not
\* claimed once an answer of before a reset was taken for one of after it, or
\* the state sync after a reset failed.
RootsFirstUnprocessed ==
  mode = "run" /\ ~ stale =>
    /\ execution_root = first_from(buffer, None, "ordered")
    /\ signing_root = first_from(buffer, None, "executed")
    /\ signing_root # None =>
         \/ \E i \in DOMAIN signing_tx : signing_tx[i] = signing_root
         \/ \E i \in DOMAIN signing_rx : signing_rx[i].round = signing_root

\* A commit vote that was acknowledged, and so is not sent again, is kept until
\* its block is handed to the persisting phase: in the cache of early votes or
\* in the item, across every stage of it.  Only a reset loses votes, with the
\* items it drops, or an answer of before a reset taken for one of after it; a
\* failed state sync leaves a highest_committed_round the ledger is not at.
AckedVoteKept ==
  ~ stale => \A x \in acked : x[1] \in Honest =>
    \/ x[2] <= highest_committed_round \/ x[2] <= committed
    \/ \E i \in DOMAIN persisting_tx : persisting_tx[i].target >= x[2]
    \/ pending_commit_votes[x[2]][x[1]] = "good"
    \/ \E i \in DOMAIN buffer : buffer[i].last = x[2] /\ buffer[i].votes[x[1]] = "good"

\* The ledger only moves forward, to a round that the network decided or that a
\* quorum of valid votes acknowledged here certifies: mismatching and badly
\* signed votes never count, whatever stage the item was in when they came.
CommitsCertified ==
  [][committed' # committed =>
       /\ committed' > committed
       /\ \/ committed' \in certified
          \/ {a \in Validator : <<a, committed'>> \in acked} \in Quorum]_vars

\* advance_head pops items of any stage: all blocks it hands to the persisting
\* phase have nevertheless been executed, by the pipelines of the current tree.
\* (Again only until an answer of before a reset is taken or a sync fails.)
PersistsExecuted ==
  ~ stale => \A i \in DOMAIN persisting_tx :
               persisting_tx[i].executed /\ \A b \in persisting_tx[i].blocks : b.gen = gen

\* advance_to_executed_or_aggregated panics on an item that is not ordered or
\* that holds other blocks: an answer of this tree never finds one, even after
\* answers of an earlier tree were taken for answers of this one.
AnswerFitsItem ==
  mode = "run" /\ wait_rx # <<>> =>
    LET resp == Head(wait_rx)
    IN  resp.gen = gen /\ resp.ok /\ ExecutedCursor(resp) # None =>
          LET item == buffer[IndexOf(buffer, resp.last)]
          IN  item.stage = "ordered" /\ item.first = resp.first

\* While back pressure keeps ordered blocks out, there is something left whose
\* commit can lift it, as long as no answer of before a reset is taken for one
\* of after it and no state sync fails.  (need_back_pressure)
IntakeReopens ==
  mode = "run" /\ need_back_pressure /\ ~ EpochOver /\ ~ stale =>
    buffer # <<>> \/ persisting_tx # <<>> \/ persisting_rx # <<>>

\* A block in the buffer gets through, unless its execution fails, the epoch
\* ends, a reset drops it or `stale' holds: it is executed and the vote for it broadcast,
\* whatever the other validators do, and once a quorum of votes for it was
\* acknowledged here, or its commit decision, it is committed.  No root, queue,
\* cached vote or proof is waited for in vain.  (advance_execution_root,
\* advance_signing_root, advance_head)
Excused(r) == r >= failed \/ EpochOver \/ mode # "run" \/ stale

BlocksGetThrough ==
  \A r \in Round :
    /\ r \in Ids(buffer) ~> r \in own_votes \/ r \notin Ids(buffer) \/ Excused(r)
    /\ /\ r \in Ids(buffer)
       /\ \/ {a \in Validator : <<a, r>> \in acked} \in Quorum
          \/ r \in pending_commit_proofs
          \/ \E i \in DOMAIN buffer : buffer[i].last = r /\ buffer[i].proof
       ~> committed >= r \/ Excused(r)

\* A reset is acknowledged: the blocks it waits for do finish ("should be able
\* to finish commit_ledger") and every request being counted is answered.  The
\* block store waits for this answer before it syncs.  Not claimed once an
\* answer of before a reset was taken for one of after it or a sync failed: a
\* commit can then wait for a parent that got no proof.
ResetAnswered == mode \in {"commits", "tasks"} ~> stale \/ mode \in {"run", "stopped"}
=============================================================================
