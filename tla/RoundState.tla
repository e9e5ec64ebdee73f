----------------------------- MODULE RoundState -----------------------------
(***************************************************************************)
(* RoundState with the PendingVotes of its current round: rounds start     *)
(* when certificates arrive, votes and timeouts of the current round are   *)
(* aggregated, and a timer runs while the round lasts.                     *)
(*                                                                         *)
(* The timer's task sends the round over a channel, so an event of a round *)
(* that is over may still be waiting there when the next round has begun.  *)
(***************************************************************************)
EXTENDS PendingVotes

CONSTANTS round,     \* round[b]: the round of block b
          MaxRound,  \* bound on the rounds of the model
          Votes,     \* the vote messages that may arrive
          Timeouts,  \* the RoundTimeout messages that may arrive
          Honest     \* the validators that follow the protocol

(* Messages have passed verify, which checks that the author is in the     *)
(* validator set.                                                          *)
ASSUME MessageAssumption ==
  /\ round \in [Block -> Nat] /\ MaxRound \in Nat \ {0}
  /\ Votes \subseteq [author : Validator, block : Block, valid : BOOLEAN,
                     timeout : Nat \cup {None}]
  /\ Timeouts \subseteq [author : Validator, round : Nat, hqc_round : Nat]
  /\ None \notin Nat \cup Votes \cup Timeouts
  /\ None \notin [hqc_round : Nat, rounds : [Validator -> Nat \cup {None}]]

(* A validator that follows the protocol votes for one block of a round.   *)
ASSUME HonestAssumption ==
  /\ Honest \subseteq Validator
  /\ \A v, w \in Votes :
       v.author = w.author /\ v.author \in Honest /\ round[v.block] = round[w.block]
         => v.block = w.block

VARIABLES current_round,
          highest_ordered_round,
          pending_votes,
          vote_sent,      \* the vote sent in the current round, or None
          timeout_sent,   \* the timeout sent in the current round, or None
          timer,          \* the round whose timer task is scheduled, or None
          channel,        \* timer events on their way to the RoundManager
          pessimistic,    \* ValidatorVerifier's pessimistic_verify_set
          heard,          \* authors of timeouts delivered in this round
          qcs,            \* QCs handed out: block and signers
          tcs             \* TCs handed out

cert_vars == <<qcs, tcs>>
timer_vars == <<timer, channel>>
sent_vars == <<vote_sent, timeout_sent>>
round_vars == <<current_round, highest_ordered_round>>
vars == <<round_vars, pending_votes, sent_vars, timer_vars, pessimistic, heard,
          cert_vars>>

TypeOK ==
  /\ current_round \in 0 .. MaxRound
  /\ highest_ordered_round \in 0 .. MaxRound
  /\ pending_votes \in
       [author_to_vote : [Validator -> Votes \cup {None}],
        signatures : [Block -> [Validator -> {"absent", "valid", "invalid"}]],
        enough_votes : [Block -> SUBSET Validator],
        timeout_votes : [hqc_round : Nat, rounds : [Validator -> Nat \cup {None}]]
                          \cup {None},
        echo_timeout : BOOLEAN]
  /\ vote_sent \in Votes \cup {None}
  /\ timeout_sent \in Timeouts \cup {None}
  /\ timer \in 0 .. MaxRound \cup {None}
  /\ channel \subseteq 0 .. MaxRound
  /\ pessimistic \subseteq Validator
  /\ heard \subseteq Validator

Init ==
  /\ current_round = 0
  /\ highest_ordered_round = 0
  /\ pending_votes = NewPendingVotes
  /\ vote_sent = None
  /\ timeout_sent = None
  /\ timer = None
  /\ channel = {}
  /\ pessimistic = {}
  /\ heard = {}
  /\ qcs = {}
  /\ tcs = {}

Highest(S) == CHOOSE r \in S : \A s \in S : s <= r

----------------------------------------------------------------------------
(* Mutant: what was sent in the old round is not forgotten.                *)
MutKeepSent(hc, ht, ho) ==
  /\ highest_ordered_round' = Highest({highest_ordered_round, ho})
  /\ Highest({hc, ht}) + 1 > current_round
  /\ current_round' = Highest({hc, ht}) + 1
  /\ pending_votes' = NewPendingVotes
  /\ timer' = current_round'
  /\ heard' = {}
  /\ UNCHANGED <<sent_vars, channel, pessimistic, cert_vars>>

(* process_certificates starts a new round: the highest certified and      *)
(* timed out rounds are hc and ht, the highest ordered one ho.             *)
StartRound(hc, ht, ho) ==
  /\ highest_ordered_round' = Highest({highest_ordered_round, ho})
  /\ Highest({hc, ht}) + 1 > current_round
  /\ current_round' = Highest({hc, ht}) + 1
  /\ pending_votes' = NewPendingVotes
  /\ vote_sent' = None
  /\ timeout_sent' = None
  /\ timer' = current_round'
  /\ heard' = {}
  /\ UNCHANGED <<channel, pessimistic, cert_vars>>

(* process_certificates with nothing newer than the current round.         *)
OrderedOnly(hc, ht, ho) ==
  /\ Highest({hc, ht}) + 1 <= current_round
  /\ highest_ordered_round' = Highest({highest_ordered_round, ho})
  /\ UNCHANGED <<current_round, pending_votes, sent_vars, timer_vars,
                 pessimistic, heard, cert_vars>>

----------------------------------------------------------------------------
(* The outcomes of a timeout by author a for the current round: a TC, an   *)
(* echo, or nothing yet.                                                   *)
InsertTimeout(pv, a, h) ==
  LET added == add_timeout(pv, a, h)
  IN  /\ pending_votes' = echo_if_minority(added)
      /\ tcs' = IF timeout_signers(added) \in Quorum
                THEN tcs \cup {[round |-> current_round,
                                hqc_round |-> added.timeout_votes.hqc_round,
                                rounds |-> added.timeout_votes.rounds]}
                ELSE tcs

(* A vote's signature is checked on receipt unless votes are taken         *)
(* optimistically from its author.                                         *)
VoteVerifies(v) == v.valid \/ v.author \notin pessimistic

(* insert_vote, the outcomes that change nothing but what was heard:       *)
(* DuplicateVote, EquivocateVote.                                          *)
IgnoreVote(v) ==
  /\ round[v.block] = current_round
  /\ VoteVerifies(v)
  /\ duplicate_vote(pending_votes, v) \/ equivocate_vote(pending_votes, v)
  /\ heard' = IF v.timeout # None THEN heard \cup {v.author} ELSE heard
  /\ UNCHANGED <<round_vars, pending_votes, sent_vars, timer_vars, pessimistic,
                 cert_vars>>

(* insert_vote, otherwise: pv is what aggregation leaves.  A QC if there   *)
(* is one, now or from before; else the timeout, if any, is counted.       *)
MakeQC(pv, v) ==
  /\ pv.enough_votes[v.block] # {}
  /\ pending_votes' = pv
  /\ qcs' = qcs \cup {[block |-> v.block,
                       signers |-> pv.enough_votes[v.block],
                       invalid |-> Invalid(pv.signatures[v.block])]}
  /\ UNCHANGED tcs

CountTimeout(pv, v) ==
  /\ pv.enough_votes[v.block] = {}
  /\ v.timeout # None
  /\ InsertTimeout(pv, v.author, v.timeout)
  /\ UNCHANGED qcs

CountVote(pv, v) ==
  /\ pv.enough_votes[v.block] = {}
  /\ v.timeout = None
  /\ pending_votes' = pv
  /\ UNCHANGED cert_vars

InsertVote(v) ==
  /\ round[v.block] = current_round
  /\ VoteVerifies(v)
  /\ ~ duplicate_vote(pending_votes, v)
  /\ ~ equivocate_vote(pending_votes, v)
  /\ heard' = IF v.timeout # None THEN heard \cup {v.author} ELSE heard
  /\ LET stored == store_vote(pending_votes, v)
         voters(pv) == Voters(pv.signatures[v.block])
     IN  \E pv \in verified_votes(stored, v.block) :
           /\ MakeQC(pv, v) \/ CountTimeout(pv, v) \/ CountVote(pv, v)
           /\ pessimistic' = pessimistic \cup (voters(stored) \ voters(pv))
  /\ UNCHANGED <<round_vars, sent_vars, timer_vars>>

(* insert_round_timeout                                                    *)
InsertRoundTimeout(t) ==
  /\ t.round = current_round
  /\ heard' = heard \cup {t.author}
  /\ InsertTimeout(pending_votes, t.author, t.hqc_round)
  /\ UNCHANGED <<round_vars, sent_vars, timer_vars, pessimistic, qcs>>

----------------------------------------------------------------------------
(* record_vote and record_round_timeout; for another round they do nothing,*)
(* as the round may have ended while the vote was being signed and stored. *)
RecordVote(v) ==
  /\ round[v.block] = current_round
  /\ vote_sent' = v
  /\ UNCHANGED <<round_vars, pending_votes, timeout_sent, timer_vars,
                 pessimistic, heard, cert_vars>>

RecordRoundTimeout(t) ==
  /\ t.round = current_round
  /\ timeout_sent' = t
  /\ UNCHANGED <<round_vars, pending_votes, vote_sent, timer_vars, pessimistic,
                 heard, cert_vars>>

(* The timer's task runs.                                                  *)
TimerFires ==
  /\ timer # None
  /\ timer' = None
  /\ channel' = channel \cup {timer}
  /\ UNCHANGED <<round_vars, pending_votes, sent_vars, pessimistic, heard,
                 cert_vars>>

(* Mutant: the timer is not set up again after a local timeout.            *)
MutNoRearm(r) ==
  /\ r \in channel
  /\ channel' = channel \ {r}
  /\ UNCHANGED <<round_vars, pending_votes, sent_vars, timer, pessimistic,
                 heard, cert_vars>>

(* process_local_timeout: the timer starts again, replacing a scheduled    *)
(* one; an event of another round is dropped.                              *)
ProcessLocalTimeout(r) ==
  /\ r \in channel
  /\ channel' = channel \ {r}
  /\ timer' = IF r = current_round THEN current_round ELSE timer
  /\ UNCHANGED <<round_vars, pending_votes, sent_vars, pessimistic, heard,
                 cert_vars>>

Next ==
  \/ \E hc, ht, ho \in 0 .. MaxRound - 1 : StartRound(hc, ht, ho)
  \/ \E hc, ht, ho \in 0 .. MaxRound - 1 : OrderedOnly(hc, ht, ho)
  \/ \E v \in Votes : IgnoreVote(v)
  \/ \E v \in Votes : InsertVote(v)
  \/ \E t \in Timeouts : InsertRoundTimeout(t)
  \/ \E v \in Votes : RecordVote(v)
  \/ \E t \in Timeouts : RecordRoundTimeout(t)
  \/ TimerFires
  \/ \E r \in 0 .. MaxRound : ProcessLocalTimeout(r)

Spec == Init /\ [][Next]_vars

----------------------------------------------------------------------------
HasQC == \E b \in Block : pending_votes.enough_votes[b] # {}
HasTC == \E tc \in tcs : tc.round = current_round

(* Every QC handed out passes verify_multi_signatures elsewhere: a quorum  *)
(* of signers after the invalid signatures have been filtered out, however *)
(* they were mixed with valid ones.                                        *)
QCsVerify ==
  \A qc \in qcs : /\ qc.signers \in Quorum
                  /\ \A a \in Validator : qc.invalid # {a}

(* Valid votes of a quorum for one block always produce its QC: invalid,   *)
(* duplicate and equivocating votes that arrive in between cannot make the *)
(* aggregation miss it.                                                    *)
NoLostQC ==
  \A b \in Block :
    {a \in Validator : /\ pending_votes.author_to_vote[a] # None
                       /\ pending_votes.author_to_vote[a].block = b
                       /\ pending_votes.author_to_vote[a].valid} \in Quorum
      => pending_votes.enough_votes[b] # {}

(* Timeouts of honest validators are not lost, whether they came with a    *)
(* vote or alone: f+1 of them are echoed and a quorum ends the round,      *)
(* unless a QC does.                                                       *)
HonestTimeoutsCount ==
  /\ heard \cap Honest \in Minority
       => pending_votes.echo_timeout \/ HasTC \/ HasQC
  /\ heard \cap Honest \in Quorum => HasTC \/ HasQC

(* Every TC handed out passes TwoChainTimeoutCertificate::verify: the QC   *)
(* it carries is the highest one that its signers signed.                  *)
TCsVerify == \A tc \in tcs : tc_verifies(tc)

(* Every timeout that may arrive, with a vote or alone.                    *)
Reports ==
  Timeouts \cup {[author |-> v.author, round |-> round[v.block],
                  hqc_round |-> v.timeout] : v \in {w \in Votes : w.timeout # None}}

(* A TC handed out is safe to vote on, whatever its authors reported: a    *)
(* quorum signed it and none of them signed a higher QC than it carries.   *)
(* Only a signer that reported two QCs in the round can keep it from       *)
(* passing TwoChainTimeoutCertificate::verify: its second report raised    *)
(* the QC carried, and its first signature, for a lower one, was kept.     *)
TCsCover ==
  \A tc \in tcs :
    /\ {a \in Validator : tc.rounds[a] # None} \in Quorum
    /\ \A a \in Validator : tc.rounds[a] # None => tc.rounds[a] <= tc.hqc_round
    /\ \/ tc_verifies(tc)
       \/ \E a \in Validator :
            /\ tc.rounds[a] # None /\ tc.rounds[a] < tc.hqc_round
            /\ [author |-> a, round |-> tc.round, hqc_round |-> tc.hqc_round] \in Reports

(* What was sent belongs to the current round, so that a timeout or a vote *)
(* of an earlier round is never sent again as if it were the current one.  *)
SentInCurrentRound ==
  /\ vote_sent # None => round[vote_sent.block] = current_round
  /\ timeout_sent # None => timeout_sent.round = current_round

(* A round that has begun can always time out: its timer is scheduled or   *)
(* its event is on the way.                                                *)
TimerArmed ==
  current_round > 0 => timer = current_round \/ current_round \in channel
=============================================================================
