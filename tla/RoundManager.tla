---------------------------- MODULE RoundManager ----------------------------
(***************************************************************************)
(* The RoundManagers of the validators of an epoch, each with its          *)
(* SafetyRules, the certificates of its BlockStore, its RoundState and     *)
(* the network between them: what gets every round over.                   *)
(*                                                                         *)
(* A message that was sent stays in the network and may be delivered       *)
(* late, in any order, more than once or never.  Only a timeout is sent    *)
(* again and again, each time the round's timer fires.  Validators that do *)
(* not run this code are silent: they help no quorum along.                *)
(*                                                                         *)
(* A TC is read as its round, the round of its highest QC and whether it   *)
(* passes TwoChainTimeoutCertificate::verify at a receiver.  Votes of a    *)
(* round are counted when a quorum of them has arrived, as fewer have no   *)
(* effect.  Ordered and commit certificates are left out of SyncInfo, and  *)
(* the block of a QC comes along with it.                                  *)
(***************************************************************************)
EXTENDS TwoChainRules, FiniteSets

CONSTANTS Validator,    \* the validators of the epoch
          Quorum,       \* sets that reach quorum_voting_power
          Minority,     \* sets that reach f+1
          Scenario      \* the settings explored, see below

Pending == INSTANCE PendingVotes

(* A setting: the validators that are running, enough for a quorum; the    *)
(* proposer of each round; those that have voted in round 1 and timed out  *)
(* of it when it starts, and those of them ahead of the others, with the   *)
(* TC; and, to bound the model, the round that is not ended any more, with *)
(* no block in it, who may restart and how many restarts there are.        *)
ASSUME ScenarioAssumption ==
  /\ Quorum \subseteq SUBSET Validator
  /\ \A sc \in Scenario : /\ sc.running \in Quorum
                          /\ sc.timed_out \subseteq sc.running
                          /\ sc.ahead \subseteq sc.timed_out
                          /\ sc.ahead # {} => sc.timed_out \in Quorum
                          /\ sc.last_round \in Nat \ {0}
                          /\ \A b \in Block : round[b] < sc.last_round
                          /\ sc.restarts \in Nat
                          /\ sc.proposer \in [1 .. sc.last_round -> Validator]
                          /\ sc.timed_out # {} => \E b \in Block : /\ round[b] = 1
                                                                  /\ parent[b] = Genesis

VARIABLES scenario,  \* the setting
          node,      \* node[n]: the state of validator n
          network,   \* the messages sent
          restarts   \* how many more restarts there may be

vars == <<scenario, node, network, restarts>>

NoCert == [round |-> 0, hqc_round |-> 0, valid |-> TRUE]
NoTimeouts == [timeout_votes |-> None, echo_timeout |-> FALSE]

running == scenario.running

----------------------------------------------------------------------------
(* Certificates.                                                           *)

(* BlockStore::sync_info; new_decoupled leaves out a TC the QC supersedes. *)
sync_info(s) ==
  [hqc |-> s.hqc,
   htc |-> IF s.htc.round > round[s.hqc] THEN s.htc ELSE NoCert]

highest_round(si) == Higher(round[si.hqc], si.htc.round)

has_newer_certificates(si, local) ==
  \/ round[si.hqc] > round[local.hqc]
  \/ si.htc.round > local.htc.round

(* insert_quorum_cert and insert_2chain_timeout_certificate: only a higher *)
(* round replaces the certificate held.                                    *)
insert_quorum_cert(hqc, b) == IF round[b] > round[hqc] THEN b ELSE hqc

insert_2chain_timeout_certificate(htc, tc) ==
  IF tc.round > htc.round THEN tc ELSE htc

(* Mutant: the new round is one too far.                                   *)
MutSkipRound(s) ==
  [s EXCEPT !.current_round = highest_round(sync_info(s)) + 2,
            !.pending_votes = NoTimeouts,
            !.vote_sent = None,
            !.timeout_sent = None]

(* RoundState::process_certificates                                        *)
process_certificates(s) ==
  LET new_round == highest_round(sync_info(s)) + 1
  IN  IF new_round > s.current_round
      THEN [s EXCEPT !.current_round = new_round,
                     !.pending_votes = NoTimeouts,
                     !.vote_sent = None,
                     !.timeout_sent = None]
      ELSE s

(* Certificates are inserted and a higher round begins: add_certs, or one  *)
(* aggregated here.                                                        *)
with_certs(s, b, tc) ==
  process_certificates(
    [s EXCEPT !.hqc = insert_quorum_cert(@, b),
              !.htc = insert_2chain_timeout_certificate(@, tc)])

(* Mutant: the TC that came along is not inserted.                         *)
MutSyncOnlyQC(s, si) ==
  IF has_newer_certificates(si, sync_info(s)) THEN with_certs(s, si.hqc, s.htc)
  ELSE s

(* sync_up takes over what is newer, provided that it verifies.            *)
sync_up(s, si) ==
  IF has_newer_certificates(si, sync_info(s)) THEN with_certs(s, si.hqc, si.htc)
  ELSE s

Verifies(s, si) == has_newer_certificates(si, sync_info(s)) => si.htc.valid

----------------------------------------------------------------------------
(* Proposing.                                                              *)

(* process_new_round_event: the proposer of the round that has just begun  *)
(* sends a block on its highest QC, unless SafetyRules has signed in this  *)
(* round before.                                                           *)
proposal(n, s) ==
  {[type |-> "proposal", block |-> b, sync |-> sync_info(s)] :
     b \in {b \in Block : /\ round[b] = s.current_round
                          /\ parent[b] = s.hqc
                          /\ n = scenario.proposer[s.current_round]
                          /\ round[b] > s.safety.last_voted_round}}

new_round_event(n, old, s) ==
  IF s.current_round > old.current_round THEN proposal(n, s) ELSE {}

----------------------------------------------------------------------------
(* Timeouts.                                                               *)

(* SafetyRules::sign_timeout_with_qc                                       *)
can_sign_timeout(s) ==
  /\ safe_to_timeout(s.safety, s.current_round, round[s.hqc], s.htc)
  /\ s.current_round >= s.safety.last_voted_round

(* process_local_timeout: the timeout sent before or a new one, unless     *)
(* SafetyRules refuses or back pressure makes the validator sync_only.     *)
local_timeout(s, sync_only) ==
  IF s.timeout_sent = None /\ can_sign_timeout(s) /\ ~ sync_only
  THEN [s EXCEPT !.safety = timed_out_data(@, s.current_round),
                 !.timeout_sent = round[s.hqc]]
  ELSE s

timeout_msg(n, s) ==
  IF s.timeout_sent = None THEN {}
  ELSE {[type |-> "timeout", author |-> n, round |-> s.current_round,
         hqc_round |-> s.timeout_sent, sync |-> sync_info(s)]}

(* RoundState::insert_round_timeout                                        *)
insert_round_timeout(s, a, h) ==
  [s EXCEPT !.pending_votes = Pending!add_timeout(@, a, h)]

new_2chain_tc(s) ==
  [round |-> s.current_round,
   hqc_round |-> s.pending_votes.timeout_votes.hqc_round,
   valid |-> Pending!tc_verifies(s.pending_votes.timeout_votes)]

----------------------------------------------------------------------------
(* Voting.                                                                 *)

(* SafetyRules::construct_and_sign_vote_two_chain: the vote it returns.    *)
can_vote(s, b) ==
  /\ s.vote_sent = None
  /\ \/ already_voted(s.safety, round[b])
     \/ verify_last_vote_round(s.safety, round[b]) /\ safe_to_vote(b, s.htc)

vote_block(s, b) ==
  IF already_voted(s.safety, round[b]) THEN s
  ELSE [s EXCEPT !.safety = voted_data(@, b)]

record_vote(s) == [s EXCEPT !.vote_sent = s.safety.last_vote,
                            !.last_vote = s.safety.last_vote]

vote_msg(n, s) ==
  {[type |-> "vote", author |-> n, block |-> s.vote_sent, sync |-> sync_info(s)]}

(* broadcast_order_vote, unless SafetyRules refuses.                       *)
order_vote(s, b) ==
  IF safe_for_order_vote(s.safety, b)
  THEN [s EXCEPT !.safety = order_voted_data(@, b)] ELSE s

HasQuorum(b) ==
  {v.author : v \in {m \in network : m.type = "vote" /\ m.block = b}} \in Quorum

----------------------------------------------------------------------------
(* A step of validator n to state s; what it sends because a round begins  *)
(* goes with it.                                                           *)
Step(n, s, sent) ==
  /\ node' = [node EXCEPT ![n] = s]
  /\ network' = network \cup sent \cup new_round_event(n, node[n], s)
  /\ UNCHANGED <<scenario, restarts>>

(* ensure_round_and_sync_up for a message of round r that is not stale.    *)
NotStale(n, r, si) == r >= node[n].current_round /\ Verifies(node[n], si)

process_local_timeout(n) ==
  \E s \in {local_timeout(node[n], FALSE)} : Step(n, s, timeout_msg(n, s))

(* process_timeout_reception_result for state s with the timeout counted:  *)
(* a TC ends the round; f+1 timeouts are joined by the validator's own.    *)
NewTC(n, s) ==
  /\ Pending!timeout_signers(s.pending_votes) \in Quorum
  /\ \E t \in {with_certs(s, s.hqc, new_2chain_tc(s))} : Step(n, t, {})

EchoTimeout(n, s, sync_only) ==
  /\ Pending!timeout_signers(s.pending_votes) \notin Quorum
  /\ \E pv \in {Pending!echo_if_minority(s.pending_votes)} :
       \E echo \in {[s EXCEPT !.pending_votes = pv]} :
         IF pv # s.pending_votes /\ s.timeout_sent = None
         THEN \E t \in {local_timeout(echo, sync_only)} :
                Step(n, t, timeout_msg(n, t))
         ELSE Step(n, echo, {})

process_round_timeout_msg(n, m, sync_only) ==
  /\ m.type = "timeout"
  /\ NotStale(n, m.round, m.sync)
  /\ \E s \in {sync_up(node[n], m.sync)} :
       IF m.round = s.current_round /\ m.round < scenario.last_round
       THEN \E t \in {insert_round_timeout(s, m.author, m.hqc_round)} :
              NewTC(n, t) \/ EchoTimeout(n, t, sync_only)
       ELSE Step(n, s, {})

process_proposal_msg(n, m) ==
  /\ m.type = "proposal"
  /\ NotStale(n, round[m.block], m.sync)
  /\ \E s \in {sync_up(node[n], m.sync)} :
       \/ s # node[n] /\ Step(n, s, {})
       \/ /\ round[m.block] = s.current_round
          /\ can_vote(s, m.block)
          /\ \E t \in {record_vote(vote_block(s, m.block))} :
               Step(n, t, vote_msg(n, t))

process_vote_msg(n, m) ==
  /\ m.type = "vote"
  /\ NotStale(n, round[m.block], m.sync)
  /\ \E s \in {sync_up(node[n], m.sync)} :
       \/ s # node[n] /\ Step(n, s, {})
       \/ /\ round[m.block] = s.current_round
          /\ HasQuorum(m.block)
          /\ \E t \in {with_certs(s, m.block, s.htc)} :
               Step(n, order_vote(t, m.block), {})

(* process_sync_info_msg with what the sync_only validator a broadcasts.   *)
process_sync_info_msg(n, a) ==
  \E si \in {sync_info(node[a])} :
    /\ NotStale(n, highest_round(si) + 1, si)
    /\ has_newer_certificates(si, sync_info(node[n]))
    /\ \E s \in {sync_up(node[n], si)} : Step(n, s, {})

(* add_certs fails between the QC and the TC: an error, but the round of   *)
(* the QC is over.                                                         *)
add_certs_fails(n, m) ==
  /\ has_newer_certificates(m.sync, sync_info(node[n]))
  /\ NotStale(n, highest_round(m.sync) + 1, m.sync)
  /\ \E s \in {with_certs(node[n], m.sync.hqc, node[n].htc)} : Step(n, s, {})

(* What is left of the RoundState when a round is jump-started.            *)
jump_start(s) ==
  LET r == highest_round(sync_info(s)) + 1
  IN  [s EXCEPT !.current_round = r,
                !.pending_votes = NoTimeouts,
                !.vote_sent = IF s.last_vote # None /\ round[s.last_vote] = r
                              THEN s.last_vote ELSE None,
                !.timeout_sent = None]

(* Mutants: the QC, or the TC, was kept in memory only.                    *)
MutForgetQC(s) == jump_start([s EXCEPT !.hqc = parent[@]])
MutForgetTC(s) == jump_start([s EXCEPT !.htc = NoCert])

(* RoundManager::init on what was persisted: the certificates, the last    *)
(* vote and SafetyData.                                                    *)
init(s) == jump_start(s)

Restart(n, s) ==
  /\ n \in scenario.restarting /\ restarts > 0
  /\ restarts' = restarts - 1
  /\ node' = [node EXCEPT ![n] = init(s)]
  /\ network' = network \cup proposal(n, init(s))
  /\ UNCHANGED scenario

restart(n) == Restart(n, node[n])

(* The validator stops after SafetyRules has persisted its vote and before *)
(* save_vote.                                                              *)
stop_while_voting(n, m) ==
  /\ m.type = "proposal"
  /\ NotStale(n, round[m.block], m.sync)
  /\ \E s \in {sync_up(node[n], m.sync)} :
       /\ round[m.block] = s.current_round
       /\ can_vote(s, m.block)
       /\ Restart(n, vote_block(s, m.block))

Start ==
  [hqc |-> Genesis, htc |-> NoCert, safety |-> new_safety_data(1), last_vote |-> None,
   current_round |-> 1, pending_votes |-> NoTimeouts, vote_sent |-> None,
   timeout_sent |-> None]

(* After a vote for the first proposal and a timeout, and with the TC.     *)
FirstBlock == CHOOSE b \in Block : round[b] = 1 /\ parent[b] = Genesis
FirstTC == [round |-> 1, hqc_round |-> 0, valid |-> TRUE]

TimedOut == local_timeout(record_vote(vote_block(Start, FirstBlock)), FALSE)
Ahead == with_certs(TimedOut, Genesis, FirstTC)

Init ==
  /\ scenario \in Scenario
  /\ node = [n \in Validator |-> IF n \in scenario.ahead THEN Ahead
                                 ELSE IF n \in scenario.timed_out THEN TimedOut
                                 ELSE Start]
  /\ network = (UNION {proposal(n, Start) : n \in running}) \cup
               (UNION {vote_msg(n, TimedOut) \cup timeout_msg(n, TimedOut) :
                         n \in scenario.timed_out})
  /\ restarts = scenario.restarts

Next ==
  \E n \in running :
    \/ process_local_timeout(n)
    \/ \E m \in network : process_round_timeout_msg(n, m, FALSE)
    \/ \E m \in network : /\ node[n].timeout_sent = None
                         /\ process_round_timeout_msg(n, m, TRUE)
    \/ \E m \in network : process_proposal_msg(n, m)
    \/ \E m \in network : process_vote_msg(n, m)
    \/ \E a \in running : process_sync_info_msg(n, a)
    \/ \E m \in network : add_certs_fails(n, m)
    \/ restart(n)
    \/ \E m \in network : stop_while_voting(n, m)

(* The timer of n's round fires as long as the round lasts, and then its   *)
(* timeout is sent once more: one of the copies is delivered.  Once it is  *)
(* in the network, or counted, doing so again changes nothing.             *)
Sent(n) ==
  /\ node[n].timeout_sent # None
  /\ timeout_msg(n, node[n]) \subseteq network

Counted(s, m) ==
  /\ m.round = s.current_round
  /\ s.pending_votes.timeout_votes # None
  /\ s.pending_votes.timeout_votes.rounds[m.author] # None
  /\ m.hqc_round <= s.pending_votes.timeout_votes.hqc_round
  /\ ~ has_newer_certificates(m.sync, sync_info(s))

timer_fires(n) == ~ Sent(n) /\ process_local_timeout(n)

timeout_arrives(n, a) ==
  /\ Sent(a)
  /\ \E m \in timeout_msg(a, node[a]) :
       ~ Counted(node[n], m) /\ process_round_timeout_msg(n, m, FALSE)

Progress ==
  \E n \in running : \/ timer_fires(n)
                     \/ \E a \in running : timeout_arrives(n, a)

Spec == Init /\ [][Next]_vars /\ WF_vars(Progress)

----------------------------------------------------------------------------
Certificate == [round : Nat, hqc_round : Nat, valid : BOOLEAN]

(* The validators' states have their types, and the current round is the   *)
(* one after the highest certificate held.  (process_certificates)         *)
TypeOK ==
  /\ scenario \in Scenario
  /\ restarts \in 0 .. scenario.restarts
  /\ \A n \in Validator :
       LET s == node[n]
       IN  /\ s.hqc \in Block
           /\ s.htc \in Certificate
           /\ s.safety \in SafetyData
           /\ s.current_round \in 1 .. scenario.last_round
           /\ s.current_round = highest_round(sync_info(s)) + 1
           /\ s.vote_sent \in Block \cup {None}
           /\ s.timeout_sent \in 0 .. s.current_round - 1 \cup {None}

(* A validator can always time out of the round it is in: SafetyRules      *)
(* never refuses to sign because the certificates the BlockStore holds are *)
(* behind what SafetyRules has seen, or because it has signed in a later   *)
(* round.  Votes, order votes, sync_up, a failing add_certs and restarts   *)
(* between two writes keep the two in step.  (process_local_timeout)       *)
CanTimeOut ==
  \A n \in running :
    node[n].timeout_sent # None \/ can_sign_timeout(node[n])

(* The round never falls, not even over a restart: the certificates that   *)
(* process_certificates started it from were persisted first.              *)
RoundsNeverFall ==
  [][\A n \in running : node'[n].current_round >= node[n].current_round]_vars

(* Every round ends at every running validator, unless one of them is left *)
(* for ever with a TC that does not verify at the others: with timers that *)
(* go on firing and timeouts that arrive if they are sent often enough, no *)
(* loss of proposals and votes, no delay, no restart and no partly learned *)
(* certificate leaves the validators waiting for each other in different   *)
(* rounds.  A TC that does not verify takes a validator that reports two   *)
(* QCs in one round, as it may after a restart; the others then refuse the *)
(* SyncInfo of its holder and with it every message.                       *)
(* (process_local_timeout, ensure_round_and_sync_up)                       *)
EveryRoundEnds ==
  \/ <>(\A n \in running : node[n].current_round = scenario.last_round)
  \/ <>[](\E n \in running : ~ sync_info(node[n]).htc.valid)
=============================================================================
