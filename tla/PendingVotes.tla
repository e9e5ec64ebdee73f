---------------------------- MODULE PendingVotes ----------------------------
(***************************************************************************)
(* PendingVotes: the votes and timeouts a node has received for one round, *)
(* and the certificates that come out of them, as operators on a record.   *)
(*                                                                         *)
(* A vote names its block, which fixes the ledger info it signs; its       *)
(* signature may be invalid, because votes are verified optimistically:    *)
(* only the aggregate of a quorum is checked, and the individual ones when *)
(* that fails.  A vote may carry a timeout with the round of the sender's  *)
(* highest QC.  Timeout signatures are verified on receipt.                *)
(***************************************************************************)
EXTENDS Integers

CONSTANTS Validator,  \* the validators of the epoch
          Quorum,     \* sets that reach quorum_voting_power
          Minority,   \* sets that reach f+1
          Block,      \* the blocks voted on
          None

(* More validators never have less voting power, and both thresholds are   *)
(* at least 1.                                                             *)
ASSUME PowerAssumption ==
  \A P \in {Quorum, Minority} :
    /\ P \subseteq SUBSET Validator /\ {} \notin P
    /\ \A S \in P, T \in SUBSET Validator : S \subseteq T => T \in P

(* SignatureAggregator holds at most one signature per voter.              *)
NoSignatures == [a \in Validator |-> "absent"]
Voters(sigs) == {a \in Validator : sigs[a] # "absent"}
Invalid(sigs) == {a \in Validator : sigs[a] = "invalid"}

NewPendingVotes ==
  [author_to_vote |-> [a \in Validator |-> None],
   signatures |-> [b \in Block |-> NoSignatures],
   enough_votes |-> [b \in Block |-> {}],  \* the signers of the QC, if formed
   timeout_votes |-> None,
   echo_timeout |-> FALSE]

----------------------------------------------------------------------------
(* The same author again: with the same vote, unless it now carries a      *)
(* timeout, or with another one.                                           *)
duplicate_vote(pv, v) ==
  LET seen == pv.author_to_vote[v.author]
  IN  /\ seen # None
      /\ seen.block = v.block
      /\ v.timeout = None \/ seen.timeout # None

equivocate_vote(pv, v) ==
  LET seen == pv.author_to_vote[v.author]
  IN  seen # None /\ seen.block # v.block

(* The vote is stored and, while its block has no QC, its signature.       *)
store_vote(pv, v) ==
  [pv EXCEPT
     !.author_to_vote[v.author] = v,
     !.signatures[v.block][v.author] =
        IF pv.enough_votes[v.block] # {} THEN @
        ELSE IF v.valid THEN "valid" ELSE "invalid"]

(* SignatureAggregator::aggregate_and_verify: the signatures that remain.  *)
(* Two or more invalid signatures may have been made to cancel out.        *)
aggregates(sigs) ==
  LET bad == Invalid(sigs)
  IN  (IF \E a \in Validator : bad = {a} THEN {} ELSE {sigs})
        \cup
      (IF bad = {} THEN {}
       ELSE {[a \in Validator |-> IF a \in bad THEN "absent" ELSE sigs[a]]})

(* Mutant: what is left after filtering is not counted again.              *)
MutFilteredEnough(pv, b, sigs) ==
  [pv EXCEPT !.signatures[b] = sigs, !.enough_votes[b] = Voters(sigs)]

(* The block's entry after verification: a QC if a quorum is left.         *)
with_aggregate(pv, b, sigs) ==
  [pv EXCEPT !.signatures[b] = sigs,
             !.enough_votes[b] = IF Voters(sigs) \in Quorum
                                 THEN Voters(sigs) ELSE {}]

(* Mutant: the quorum has to be exceeded before signatures are verified.   *)
MutExceedQuorum(pv, b) ==
  IF /\ pv.enough_votes[b] = {}
     /\ \E a \in Voters(pv.signatures[b]) :
          Voters(pv.signatures[b]) \ {a} \in Quorum
  THEN {with_aggregate(pv, b, sigs) : sigs \in aggregates(pv.signatures[b])}
  ELSE {pv}

(* What insertion leaves for block b: with a quorum of signatures they are *)
(* verified, unless the QC exists.                                         *)
verified_votes(pv, b) ==
  IF pv.enough_votes[b] = {} /\ Voters(pv.signatures[b]) \in Quorum
  THEN {with_aggregate(pv, b, sigs) : sigs \in aggregates(pv.signatures[b])}
  ELSE {pv}

----------------------------------------------------------------------------
(* TwoChainTimeoutWithPartialSignatures: the highest QC reported, and for  *)
(* each signer the QC round it signed.                                     *)
new_timeout_votes(h) == [hqc_round |-> h, rounds |-> [a \in Validator |-> None]]

(* Mutant: the first timeout's QC is kept.                                 *)
MutKeepFirstQC(pv, a, h) ==
  LET tv == IF pv.timeout_votes = None
            THEN new_timeout_votes(h) ELSE pv.timeout_votes
  IN  [pv EXCEPT !.timeout_votes =
         [tv EXCEPT !.rounds[a] = IF @ = None THEN h ELSE @]]

(* add: a higher QC replaces the one carried; an author's first signature  *)
(* stays.                                                                  *)
add_timeout(pv, a, h) ==
  LET tv == IF pv.timeout_votes = None
            THEN new_timeout_votes(h) ELSE pv.timeout_votes
  IN  [pv EXCEPT !.timeout_votes =
         [hqc_round |-> IF h > tv.hqc_round THEN h ELSE tv.hqc_round,
          rounds |-> [tv.rounds EXCEPT ![a] = IF @ = None THEN h ELSE @]]]

timeout_signers(pv) ==
  IF pv.timeout_votes = None THEN {}
  ELSE {a \in Validator : pv.timeout_votes.rounds[a] # None}

(* Mutant: the node echoes only a full quorum of timeouts.                 *)
MutEchoLate(pv) ==
  IF ~ pv.echo_timeout /\ timeout_signers(pv) \in Quorum
  THEN [pv EXCEPT !.echo_timeout = TRUE] ELSE pv

(* Too few timeouts for a TC: the first f+1 of them are echoed.            *)
echo_if_minority(pv) ==
  IF ~ pv.echo_timeout /\ timeout_signers(pv) \in Minority \ Quorum
  THEN [pv EXCEPT !.echo_timeout = TRUE] ELSE pv

(* TwoChainTimeoutCertificate::verify, the part that is not signatures.    *)
tc_verifies(tc) ==
  LET signed == {tc.rounds[a] : a \in Validator} \ {None}
  IN  /\ {a \in Validator : tc.rounds[a] # None} \in Quorum
      /\ tc.hqc_round \in signed
      /\ \A h \in signed : h <= tc.hqc_round
=============================================================================
