-------------------------- MODULE RoundStateProofs --------------------------
(***************************************************************************)
(* Proofs about RoundState and its PendingVotes: the certificates they     *)
(* hand out verify, no quorum of valid votes and no timeout of an honest   *)
(* validator is lost, and a round that has begun can always time out.      *)
(*                                                                         *)
(* The inductive invariant RoundInv relates the signatures kept per block  *)
(* to the votes kept per author (VotesCounted), the partial timeout        *)
(* signatures to the timeouts received (TimeoutsCounted), and these to     *)
(* what was delivered in the round (HeardCounted).                         *)
(***************************************************************************)
EXTENDS RoundState, TLAPS

Signature == {"absent", "valid", "invalid"}
TimeoutVotes == [hqc_round : Nat, rounds : [Validator -> Nat \cup {None}]]
PendingVotesType ==
  [author_to_vote : [Validator -> Votes \cup {None}],
   signatures : [Block -> [Validator -> Signature]],
   enough_votes : [Block -> SUBSET Validator],
   timeout_votes : TimeoutVotes \cup {None},
   echo_timeout : BOOLEAN]

----------------------------------------------------------------------------
(* The signature of a valid vote is kept until its block has a QC.         *)
ValidKept(pv) ==
  \A b \in Block, a \in Validator :
    /\ pv.enough_votes[b] = {}
    /\ pv.author_to_vote[a] # None
    /\ pv.author_to_vote[a].block = b
    /\ pv.author_to_vote[a].valid
    => pv.signatures[b][a] = "valid"

QCFormed(pv, b) ==
  /\ pv.enough_votes[b] \in Quorum
  /\ \A c \in Validator : Invalid(pv.signatures[b]) # {c}

(* A block has a QC, formed of verified signatures, or too few signatures. *)
VotesCounted(pv) ==
  /\ ValidKept(pv)
  /\ \A b \in Block : IF pv.enough_votes[b] # {} THEN QCFormed(pv, b)
                      ELSE Voters(pv.signatures[b]) \notin Quorum

(* The author's latest vote is kept, and it is for round r.                *)
VotesOfRound(pv, r) ==
  \A a \in Validator :
    pv.author_to_vote[a] # None
      => /\ pv.author_to_vote[a].author = a
         /\ round[pv.author_to_vote[a].block] = r

(* The QC carried with the timeouts of round r is no lower than any that   *)
(* was signed, and one of the signers reported it.                         *)
Covers(tv) == \A a \in Validator : tv.rounds[a] # None => tv.rounds[a] <= tv.hqc_round
Carried(tv, r) ==
  \E a \in Validator :
    /\ tv.rounds[a] # None
    /\ [author |-> a, round |-> r, hqc_round |-> tv.hqc_round] \in Reports
TimeoutsCounted(tv, r) == Covers(tv) /\ Carried(tv, r)

(* Without a QC every timeout of an honest validator has been counted, and *)
(* f+1 and a quorum of them have had their effect.                         *)
HeardCounted ==
  /\ ~ HasQC =>
       /\ heard \cap Honest \subseteq timeout_signers(pending_votes)
       /\ \A a \in Validator :
            pending_votes.author_to_vote[a] # None /\
            pending_votes.author_to_vote[a].timeout # None
              => a \in timeout_signers(pending_votes)
  /\ timeout_signers(pending_votes) \in Quorum => HasTC
  /\ timeout_signers(pending_votes) \in Minority \ Quorum
       => pending_votes.echo_timeout

(* The same of the TCs, each with a quorum of signers.                     *)
TCsCounted ==
  \A tc \in tcs :
    /\ {a \in Validator : tc.rounds[a] # None} \in Quorum
    /\ TimeoutsCounted(tc, tc.round)

TCType == [round : Nat, hqc_round : Nat, rounds : [Validator -> Nat \cup {None}]]

RoundInv ==
  /\ TypeOK
  /\ VotesCounted(pending_votes)
  /\ VotesOfRound(pending_votes, current_round)
  /\ pending_votes.timeout_votes # None
       => TimeoutsCounted(pending_votes.timeout_votes, current_round)
  /\ HeardCounted
  /\ QCsVerify
  /\ tcs \subseteq TCType
  /\ TCsCounted
  /\ SentInCurrentRound
  /\ TimerArmed
----------------------------------------------------------------------------
(* Highest of two rounds is one of them.                                   *)
LEMMA HighestOfTwo ==
  ASSUME NEW x \in Nat, NEW y \in Nat
  PROVE  Highest({x, y}) \in {x, y} /\ Highest({x, y}) >= x /\ Highest({x, y}) >= y
<1>1. \E r \in {x, y} : \A s \in {x, y} : s <= r
  BY x <= y \/ y <= x
<1>. QED
  BY <1>1 DEF Highest

(* store_vote, field by field.                                             *)
LEMMA StoreVote ==
  ASSUME NEW pv \in PendingVotesType, NEW v \in Votes, NEW q, q = store_vote(pv, v)
  PROVE  /\ q \in PendingVotesType
         /\ q.author_to_vote = [pv.author_to_vote EXCEPT ![v.author] = v]
         /\ q.enough_votes = pv.enough_votes
         /\ q.timeout_votes = pv.timeout_votes
         /\ q.echo_timeout = pv.echo_timeout
         /\ \A b \in Block, a \in Validator :
              IF b = v.block /\ a = v.author /\ pv.enough_votes[b] = {}
              THEN q.signatures[b][a] = (IF v.valid THEN "valid" ELSE "invalid")
              ELSE q.signatures[b][a] = pv.signatures[b][a]
<1>1. v.author \in Validator /\ v.block \in Block
  BY MessageAssumption
<1>. DEFINE sig == IF pv.enough_votes[v.block] # {} THEN pv.signatures[v.block][v.author]
                   ELSE IF v.valid THEN "valid" ELSE "invalid"
            sigs == [pv.signatures EXCEPT ![v.block] =
                       [pv.signatures[v.block] EXCEPT ![v.author] = sig]]
<1>2. q = [pv EXCEPT !.author_to_vote = [pv.author_to_vote EXCEPT ![v.author] = v],
                     !.signatures = sigs]
  BY <1>1 DEF store_vote, PendingVotesType
<1>3. sig \in Signature
  BY <1>1 DEF PendingVotesType, Signature
<1>4. sigs \in [Block -> [Validator -> Signature]]
  BY <1>1, <1>3 DEF PendingVotesType
<1>5. /\ q.author_to_vote = [pv.author_to_vote EXCEPT ![v.author] = v]
      /\ q.enough_votes = pv.enough_votes
      /\ q.timeout_votes = pv.timeout_votes
      /\ q.echo_timeout = pv.echo_timeout
      /\ q.signatures = sigs
  BY <1>2 DEF PendingVotesType
<1>6. q \in PendingVotesType
  <2>1. [pv.author_to_vote EXCEPT ![v.author] = v] \in [Validator -> Votes \cup {None}]
    BY <1>1 DEF PendingVotesType
  <2>. HIDE DEF sigs
  <2>. QED
    BY <1>2, <1>4, <2>1, Zenon DEF PendingVotesType
<1>7. ASSUME NEW b \in Block, NEW a \in Validator
      PROVE  IF b = v.block /\ a = v.author /\ pv.enough_votes[b] = {}
             THEN q.signatures[b][a] = (IF v.valid THEN "valid" ELSE "invalid")
             ELSE q.signatures[b][a] = pv.signatures[b][a]
  BY <1>1, <1>5 DEF PendingVotesType
<1>. QED
  BY <1>5, <1>6, <1>7

(* Signatures that pass aggregate_and_verify: valid ones are never dropped *)
(* and a single invalid one never stays.                                   *)
LEMMA Aggregates ==
  ASSUME NEW sigs \in [Validator -> Signature], NEW left \in aggregates(sigs)
  PROVE  /\ left \in [Validator -> Signature]
         /\ \A a \in Validator : sigs[a] = "valid" => left[a] = "valid"
         /\ \A c \in Validator : Invalid(left) # {c}
<1>1. CASE left = sigs /\ \A a \in Validator : Invalid(sigs) # {a}
  BY <1>1
<1>2. CASE left = [a \in Validator |-> IF a \in Invalid(sigs) THEN "absent" ELSE sigs[a]]
  <2>1. Invalid(left) = {}
    BY <1>2 DEF Invalid
  <2>2. \A a \in Validator : Invalid(left) # {a}
    BY <2>1
  <2>3. left \in [Validator -> Signature]
    BY <1>2 DEF Signature
  <2>4. \A a \in Validator : sigs[a] = "valid" => left[a] = "valid"
    BY <1>2 DEF Invalid
  <2>. QED
    BY <2>2, <2>3, <2>4
<1>. QED
  BY <1>1, <1>2 DEF aggregates

(* with_aggregate, field by field.                                         *)
LEMMA WithAggregate ==
  ASSUME NEW pv \in PendingVotesType, NEW b \in Block,
         NEW sigs \in [Validator -> Signature], NEW q, q = with_aggregate(pv, b, sigs)
  PROVE  /\ q \in PendingVotesType
         /\ q.author_to_vote = pv.author_to_vote
         /\ q.timeout_votes = pv.timeout_votes
         /\ q.echo_timeout = pv.echo_timeout
         /\ q.signatures = [pv.signatures EXCEPT ![b] = sigs]
         /\ q.enough_votes = [pv.enough_votes EXCEPT ![b] =
                                 IF Voters(sigs) \in Quorum THEN Voters(sigs) ELSE {}]
<1>. DEFINE ev == IF Voters(sigs) \in Quorum THEN Voters(sigs) ELSE {}
<1>1. q = [pv EXCEPT !.signatures = [pv.signatures EXCEPT ![b] = sigs],
                     !.enough_votes = [pv.enough_votes EXCEPT ![b] = ev]]
  BY DEF with_aggregate, PendingVotesType
<1>2. ev \in SUBSET Validator
  BY DEF Voters
<1>. HIDE DEF ev
<1>3. /\ [pv.signatures EXCEPT ![b] = sigs] \in [Block -> [Validator -> Signature]]
      /\ [pv.enough_votes EXCEPT ![b] = ev] \in [Block -> SUBSET Validator]
  BY <1>2 DEF PendingVotesType
<1>. QED
  BY <1>1, <1>3, Zenon DEF PendingVotesType, ev

(* What insert_vote leaves of the votes: verified signatures and a QC as   *)
(* soon as there is a quorum of them.                                      *)
LEMMA VoteInserted ==
  ASSUME NEW pv \in PendingVotesType, VotesCounted(pv), NEW v \in Votes,
         ~ equivocate_vote(pv, v), \A a \in Validator :
           pv.author_to_vote[a] # None => pv.author_to_vote[a].author = a,
         NEW q \in verified_votes(store_vote(pv, v), v.block)
  PROVE  /\ q \in PendingVotesType
         /\ VotesCounted(q)
         /\ q.author_to_vote = [pv.author_to_vote EXCEPT ![v.author] = v]
         /\ q.timeout_votes = pv.timeout_votes
         /\ q.echo_timeout = pv.echo_timeout
         /\ \A b \in Block : pv.enough_votes[b] # {} => q.enough_votes[b] # {}
<1>. DEFINE st == store_vote(pv, v)
<1>0. v.author \in Validator /\ v.block \in Block
  BY MessageAssumption
<1>1. /\ st \in PendingVotesType
      /\ st.author_to_vote = [pv.author_to_vote EXCEPT ![v.author] = v]
      /\ st.enough_votes = pv.enough_votes
      /\ st.timeout_votes = pv.timeout_votes
      /\ st.echo_timeout = pv.echo_timeout
      /\ \A b \in Block, a \in Validator :
           IF b = v.block /\ a = v.author /\ pv.enough_votes[b] = {}
           THEN st.signatures[b][a] = (IF v.valid THEN "valid" ELSE "invalid")
           ELSE st.signatures[b][a] = pv.signatures[b][a]
  BY StoreVote
<1>. HIDE DEF st
<1>2. ValidKept(st)
  <2>. SUFFICES ASSUME NEW b \in Block, NEW a \in Validator,
                       st.enough_votes[b] = {}, st.author_to_vote[a] # None,
                       st.author_to_vote[a].block = b, st.author_to_vote[a].valid
                PROVE  st.signatures[b][a] = "valid"
    BY DEF ValidKept
  <2>1. CASE a = v.author
    <3>1. st.author_to_vote[a] = v
      BY <1>0, <1>1, <2>1 DEF PendingVotesType
    <3>. QED
      BY <1>1, <2>1, <3>1
  <2>2. CASE a # v.author
    <3>1. st.author_to_vote[a] = pv.author_to_vote[a]
      BY <1>0, <1>1, <2>2 DEF PendingVotesType
    <3>2. pv.signatures[b][a] = "valid"
      BY <1>1, <3>1 DEF VotesCounted, ValidKept
    <3>. QED
      BY <1>1, <2>2, <3>2
  <2>. QED
    BY <2>1, <2>2
<1>3. ASSUME NEW b \in Block, b # v.block \/ pv.enough_votes[b] # {}
      PROVE  st.signatures[b] = pv.signatures[b]
  <2>1. \A a \in Validator : st.signatures[b][a] = pv.signatures[b][a]
    BY <1>1, <1>3
  <2>2. /\ st.signatures[b] \in [Validator -> Signature]
        /\ pv.signatures[b] \in [Validator -> Signature]
    BY <1>1 DEF PendingVotesType
  <2>. QED
    BY <2>1, <2>2
<1>4. ASSUME NEW b \in Block, b # v.block \/ pv.enough_votes[b] # {}
      PROVE  IF st.enough_votes[b] # {} THEN QCFormed(st, b)
             ELSE Voters(st.signatures[b]) \notin Quorum
  BY <1>1, <1>3, <1>4 DEF VotesCounted, QCFormed
<1>5. CASE st.enough_votes[v.block] = {} /\ Voters(st.signatures[v.block]) \in Quorum
  <2>1. PICK sigs \in aggregates(st.signatures[v.block]) :
               q = with_aggregate(st, v.block, sigs)
    BY <1>5 DEF verified_votes, st
  <2>2. st.signatures[v.block] \in [Validator -> Signature]
    BY <1>0, <1>1 DEF PendingVotesType
  <2>3. /\ sigs \in [Validator -> Signature]
        /\ \A a \in Validator : st.signatures[v.block][a] = "valid" => sigs[a] = "valid"
        /\ \A c \in Validator : Invalid(sigs) # {c}
    BY <2>2, Aggregates
  <2>4. /\ q \in PendingVotesType
        /\ q.author_to_vote = st.author_to_vote
        /\ q.timeout_votes = st.timeout_votes
        /\ q.echo_timeout = st.echo_timeout
        /\ q.signatures = [st.signatures EXCEPT ![v.block] = sigs]
        /\ q.enough_votes = [st.enough_votes EXCEPT ![v.block] =
                                 IF Voters(sigs) \in Quorum THEN Voters(sigs) ELSE {}]
    BY <1>0, <1>1, <2>1, <2>3, WithAggregate
  <2>5. /\ q.signatures[v.block] = sigs
        /\ q.enough_votes[v.block] = IF Voters(sigs) \in Quorum THEN Voters(sigs) ELSE {}
        /\ \A b \in Block \ {v.block} : /\ q.signatures[b] = st.signatures[b]
                                        /\ q.enough_votes[b] = st.enough_votes[b]
    BY <1>0, <1>1, <2>4 DEF PendingVotesType
  <2>6. ValidKept(q)
    <3>. SUFFICES ASSUME NEW b \in Block, NEW a \in Validator,
                         q.enough_votes[b] = {}, q.author_to_vote[a] # None,
                         q.author_to_vote[a].block = b, q.author_to_vote[a].valid
                  PROVE  q.signatures[b][a] = "valid"
      BY DEF ValidKept
    <3>1. st.enough_votes[b] = {}
      BY <1>5, <2>5
    <3>2. st.signatures[b][a] = "valid"
      BY <1>2, <2>4, <3>1 DEF ValidKept
    <3>. QED
      BY <2>3, <2>5, <3>2
  <2>7. ASSUME NEW b \in Block
        PROVE  IF q.enough_votes[b] # {} THEN QCFormed(q, b)
               ELSE Voters(q.signatures[b]) \notin Quorum
    <3>1. CASE b = v.block
      BY <2>3, <2>5, <3>1, PowerAssumption DEF QCFormed
    <3>2. CASE b # v.block
      BY <1>4, <2>5, <3>2 DEF QCFormed
    <3>. QED
      BY <3>1, <3>2
  <2>8. \A b \in Block : pv.enough_votes[b] # {} => q.enough_votes[b] # {}
    BY <1>1, <1>5, <2>5
  <2>. QED
    BY <1>1, <2>4, <2>6, <2>7, <2>8 DEF VotesCounted
<1>6. CASE ~ (st.enough_votes[v.block] = {} /\ Voters(st.signatures[v.block]) \in Quorum)
  <2>1. q = st
    BY <1>6 DEF verified_votes, st
  <2>2. ASSUME NEW b \in Block
        PROVE  IF q.enough_votes[b] # {} THEN QCFormed(q, b)
               ELSE Voters(q.signatures[b]) \notin Quorum
    BY <1>1, <1>4, <1>6, <2>1
  <2>. QED
    BY <1>1, <1>2, <2>1, <2>2 DEF VotesCounted
<1>. QED
  BY <1>5, <1>6

(* What a timeout leaves: its author counted, whatever QC round it signed, *)
(* and f+1 timeouts echoed.                                                *)
LEMMA TimeoutInserted ==
  ASSUME NEW pv \in PendingVotesType, NEW r \in Nat,
         pv.timeout_votes # None => TimeoutsCounted(pv.timeout_votes, r),
         timeout_signers(pv) \in Minority \ Quorum => pv.echo_timeout,
         NEW a \in Validator, NEW h \in Nat,
         [author |-> a, round |-> r, hqc_round |-> h] \in Reports,
         NEW added, added = add_timeout(pv, a, h),
         NEW q, q = echo_if_minority(added)
  PROVE  /\ q \in PendingVotesType
         /\ q.author_to_vote = pv.author_to_vote
         /\ q.signatures = pv.signatures
         /\ q.enough_votes = pv.enough_votes
         /\ q.timeout_votes = added.timeout_votes
         /\ q.timeout_votes \in TimeoutVotes
         /\ TimeoutsCounted(q.timeout_votes, r)
         /\ timeout_signers(q) = timeout_signers(pv) \cup {a}
         /\ timeout_signers(q) = timeout_signers(added)
         /\ timeout_signers(q) \in Minority \ Quorum => q.echo_timeout
<1>. DEFINE tv == IF pv.timeout_votes = None THEN new_timeout_votes(h) ELSE pv.timeout_votes
            nv == [hqc_round |-> IF h > tv.hqc_round THEN h ELSE tv.hqc_round,
                   rounds |-> [tv.rounds EXCEPT ![a] = IF @ = None THEN h ELSE @]]
<1>0. None \notin Nat /\ None \notin TimeoutVotes
  BY MessageAssumption DEF TimeoutVotes
<1>1. tv \in TimeoutVotes
  BY DEF PendingVotesType, TimeoutVotes, new_timeout_votes
<1>2. added = [pv EXCEPT !.timeout_votes = nv]
  BY DEF add_timeout
<1>3. nv \in TimeoutVotes
  <2>. HIDE DEF tv
  <2>. QED
    BY <1>1 DEF TimeoutVotes
<1>4. /\ \A b \in Validator :
           nv.rounds[b] = IF b = a /\ tv.rounds[a] = None THEN h ELSE tv.rounds[b]
      /\ nv.hqc_round = IF h > tv.hqc_round THEN h ELSE tv.hqc_round
  <2>. HIDE DEF tv
  <2>. QED
    BY <1>1 DEF TimeoutVotes
<1>5. \A b \in Validator : tv.rounds[b] # None => pv.timeout_votes # None
  BY DEF new_timeout_votes
<1>6. timeout_signers(pv) = {b \in Validator : tv.rounds[b] # None}
  BY DEF timeout_signers, new_timeout_votes
<1>7. pv.timeout_votes # None => tv = pv.timeout_votes
  OBVIOUS
<1>8. pv.timeout_votes = None => tv.hqc_round = h /\ tv.rounds[a] = None
  BY DEF new_timeout_votes
<1>. HIDE DEF tv, nv
<1>9. Covers(nv)
  <2>. SUFFICES ASSUME NEW b \in Validator, nv.rounds[b] # None
                PROVE  nv.rounds[b] <= nv.hqc_round
    BY Zenon DEF Covers
  <2>1. CASE b = a /\ tv.rounds[a] = None
    BY <1>1, <1>4, <2>1 DEF TimeoutVotes
  <2>2. CASE ~ (b = a /\ tv.rounds[a] = None)
    <3>1. tv.rounds[b] <= tv.hqc_round
      BY <1>4, <1>5, <1>7, <2>2, Zenon DEF TimeoutsCounted, Covers
    <3>2. tv.rounds[b] \in Nat /\ tv.hqc_round \in Nat
      BY <1>1, <1>4, <2>2 DEF TimeoutVotes
    <3>. QED
      BY <1>4, <2>2, <3>1, <3>2
  <2>. QED
    BY <2>1, <2>2
<1>10. Carried(nv, r)
  <2>1. nv.rounds[a] # None
    BY <1>0, <1>4, Zenon
  <2>2. CASE nv.hqc_round = h
    BY <2>1, <2>2, Zenon DEF Carried
  <2>3. CASE nv.hqc_round # h
    <3>1. pv.timeout_votes # None /\ nv.hqc_round = tv.hqc_round
      BY <1>4, <1>8, <2>3, Zenon
    <3>2. PICK b \in Validator :
            /\ tv.rounds[b] # None
            /\ [author |-> b, round |-> r, hqc_round |-> tv.hqc_round] \in Reports
      BY <1>7, <3>1, Zenon DEF TimeoutsCounted, Carried
    <3>3. nv.rounds[b] # None
      BY <1>4, <2>1, <3>2, Zenon
    <3>. QED
      BY <3>1, <3>2, <3>3, Zenon DEF Carried
  <2>. QED
    BY <2>2, <2>3
<1>12. /\ added \in PendingVotesType
       /\ added.author_to_vote = pv.author_to_vote
       /\ added.signatures = pv.signatures
       /\ added.enough_votes = pv.enough_votes
       /\ added.echo_timeout = pv.echo_timeout
       /\ added.timeout_votes = nv
  BY <1>2, <1>3, Zenon DEF PendingVotesType
<1>13. timeout_signers(added) = timeout_signers(pv) \cup {a}
  <2>1. timeout_signers(added) = {b \in Validator : nv.rounds[b] # None}
    BY <1>0, <1>3, <1>12 DEF timeout_signers
  <2>. QED
    BY <1>0, <1>4, <1>6, <2>1, Zenon
<1>14. /\ q \in PendingVotesType
       /\ q.author_to_vote = added.author_to_vote
       /\ q.signatures = added.signatures
       /\ q.enough_votes = added.enough_votes
       /\ q.timeout_votes = added.timeout_votes
       /\ q.echo_timeout = (added.echo_timeout
                              \/ timeout_signers(added) \in Minority \ Quorum)
  BY <1>12, Zenon DEF echo_if_minority, PendingVotesType
<1>15. timeout_signers(q) = timeout_signers(added)
  BY <1>14 DEF timeout_signers
<1>. QED
  BY <1>3, <1>9, <1>10, <1>12, <1>13, <1>14, <1>15, Zenon DEF TimeoutsCounted

----------------------------------------------------------------------------
(* What every action but InsertVote and InsertRoundTimeout leaves alone.   *)
pending_vars == <<pending_votes, current_round, heard, cert_vars>>

(* The part of RoundInv that is about votes, timeouts and certificates.    *)
CertInv ==
  /\ pending_votes \in PendingVotesType
  /\ VotesCounted(pending_votes)
  /\ VotesOfRound(pending_votes, current_round)
  /\ pending_votes.timeout_votes # None
       => TimeoutsCounted(pending_votes.timeout_votes, current_round)
  /\ HeardCounted
  /\ QCsVerify
  /\ tcs \subseteq TCType
  /\ TCsCounted

(* The rest.                                                               *)
TimerInv ==
  /\ current_round \in 0 .. MaxRound
  /\ highest_ordered_round \in 0 .. MaxRound
  /\ vote_sent \in Votes \cup {None}
  /\ timeout_sent \in Timeouts \cup {None}
  /\ timer \in 0 .. MaxRound \cup {None}
  /\ channel \subseteq 0 .. MaxRound
  /\ pessimistic \subseteq Validator
  /\ heard \subseteq Validator
  /\ SentInCurrentRound
  /\ TimerArmed

LEMMA InvParts == RoundInv <=> CertInv /\ TimerInv
<1>1. TypeOK <=> /\ current_round \in 0 .. MaxRound
                 /\ highest_ordered_round \in 0 .. MaxRound
                 /\ pending_votes \in PendingVotesType
                 /\ vote_sent \in Votes \cup {None}
                 /\ timeout_sent \in Timeouts \cup {None}
                 /\ timer \in 0 .. MaxRound \cup {None}
                 /\ channel \subseteq 0 .. MaxRound
                 /\ pessimistic \subseteq Validator
                 /\ heard \subseteq Validator
  BY Zenon DEF TypeOK, PendingVotesType, Signature, TimeoutVotes
<1>. QED
  BY <1>1, Zenon DEF RoundInv, CertInv, TimerInv

LEMMA InvPartsNext == CertInv' /\ TimerInv' => RoundInv'
BY InvParts, PTL

(* What the predicates say of the pending votes pv of the next state.      *)
LEMMA NextPending ==
  ASSUME NEW pv, pending_votes' = pv, NEW r, current_round' = r
  PROVE  /\ VotesCounted(pending_votes)' <=> VotesCounted(pv)
         /\ VotesOfRound(pending_votes, current_round)' <=> VotesOfRound(pv, r)
         /\ TimeoutsCounted(pending_votes.timeout_votes, current_round)'
              <=> TimeoutsCounted(pv.timeout_votes, r)
         /\ timeout_signers(pending_votes)' = timeout_signers(pv)
<1>1. VotesCounted(pending_votes)' <=> VotesCounted(pv)
  BY Zenon DEF VotesCounted, ValidKept, QCFormed, Voters, Invalid
<1>2. VotesOfRound(pending_votes, current_round)' <=> VotesOfRound(pv, r)
  BY Zenon DEF VotesOfRound
<1>3. TimeoutsCounted(pending_votes.timeout_votes, current_round)'
        <=> TimeoutsCounted(pv.timeout_votes, r)
  BY Zenon DEF TimeoutsCounted, Covers, Carried
<1>4. timeout_signers(pending_votes)' = timeout_signers(pv)
  BY Zenon DEF timeout_signers
<1>. QED
  BY <1>1, <1>2, <1>3, <1>4

(* A round begins with nothing counted and nothing heard.                  *)
LEMMA FreshRound ==
  /\ NewPendingVotes \in PendingVotesType
  /\ VotesCounted(NewPendingVotes)
  /\ \A r : VotesOfRound(NewPendingVotes, r)
  /\ NewPendingVotes.timeout_votes = None
  /\ timeout_signers(NewPendingVotes) = {}
  /\ \A a \in Validator : NewPendingVotes.author_to_vote[a] = None
<1>. DEFINE new == NewPendingVotes
<1>1. /\ new.author_to_vote = [a \in Validator |-> None]
      /\ new.signatures = [b \in Block |-> NoSignatures]
      /\ new.enough_votes = [b \in Block |-> {}]
      /\ new.timeout_votes = None
  BY DEF NewPendingVotes
<1>2. new \in PendingVotesType
  BY DEF NewPendingVotes, PendingVotesType, NoSignatures, Signature
<1>. HIDE DEF new
<1>3. Voters(NoSignatures) = {}
  BY DEF Voters, NoSignatures
<1>4. VotesCounted(new)
  BY <1>1, <1>3, PowerAssumption DEF VotesCounted, ValidKept
<1>5. timeout_signers(new) = {}
  BY <1>1 DEF timeout_signers
<1>6. \A a \in Validator : new.author_to_vote[a] = None
  BY <1>1
<1>. QED
  BY <1>1, <1>2, <1>4, <1>5, <1>6 DEF VotesOfRound, new

LEMMA FreshHeard ==
  ASSUME pending_votes = NewPendingVotes, heard = {}
  PROVE  HeardCounted
<1>1. timeout_signers(pending_votes) = {}
  BY FreshRound
<1>2. {} \notin Quorum /\ {} \notin Minority
  BY PowerAssumption
<1>. QED
  BY <1>1, <1>2, FreshRound DEF HeardCounted

LEMMA InitRoundInv == Init => RoundInv
<1>. SUFFICES ASSUME Init PROVE CertInv /\ TimerInv
  BY InvParts
<1>1. CertInv
  BY FreshRound, FreshHeard DEF Init, CertInv, QCsVerify, TCsCounted
<1>2. TimerInv
  BY MessageAssumption DEF Init, TimerInv, SentInCurrentRound, TimerArmed
<1>. QED
  BY <1>1, <1>2

LEMMA SamePending == CertInv /\ UNCHANGED pending_vars => CertInv'
<1>. SUFFICES ASSUME CertInv, UNCHANGED pending_vars PROVE CertInv'
  OBVIOUS
<1>1. /\ pending_votes' = pending_votes /\ current_round' = current_round
      /\ heard' = heard /\ qcs' = qcs /\ tcs' = tcs
  BY DEF pending_vars, cert_vars
<1>2. (VotesCounted(pending_votes) /\ VotesOfRound(pending_votes, current_round))'
  BY <1>1, NextPending, Zenon DEF CertInv
<1>3. (pending_votes.timeout_votes # None
         => TimeoutsCounted(pending_votes.timeout_votes, current_round))'
  BY <1>1, NextPending, Zenon DEF CertInv
<1>4. HeardCounted'
  BY <1>1, Zenon DEF CertInv, HeardCounted, HasQC, HasTC, timeout_signers
<1>5. (QCsVerify /\ TCsCounted)'
  BY <1>1 DEF CertInv, QCsVerify, TCsCounted, TimeoutsCounted, Covers, Carried
<1>. QED
  BY <1>1, <1>2, <1>3, <1>4, <1>5 DEF CertInv

LEMMA StartRoundStep ==
  ASSUME RoundInv, NEW hc \in 0 .. MaxRound - 1, NEW ht \in 0 .. MaxRound - 1,
         NEW ho \in 0 .. MaxRound - 1, StartRound(hc, ht, ho)
  PROVE  RoundInv'
<1>1. MaxRound \in Nat
  BY MessageAssumption
<1>2. /\ Highest({hc, ht}) \in {hc, ht}
      /\ Highest({highest_ordered_round, ho}) \in {highest_ordered_round, ho}
  BY <1>1, HighestOfTwo DEF RoundInv, TypeOK
<1>3. CertInv'
  <2>1. HeardCounted'
    <3>1. timeout_signers(pending_votes)' = {}
      BY FreshRound DEF StartRound
    <3>2. {} \notin Quorum /\ {} \notin Minority
      BY PowerAssumption
    <3>. QED
      BY <3>1, <3>2, FreshRound DEF HeardCounted, StartRound
  <2>2. UNCHANGED cert_vars
    BY DEF StartRound
  <2>3. (QCsVerify /\ tcs \subseteq TCType /\ TCsCounted)'
    BY <2>2, Zenon DEF RoundInv, cert_vars, QCsVerify, TCsCounted, TimeoutsCounted, Covers, Carried
  <2>. QED
    BY <2>1, <2>3, FreshRound, Zenon DEF StartRound, CertInv
<1>4. TimerInv'
  BY <1>1, <1>2 DEF RoundInv, TypeOK, TimerInv, StartRound, SentInCurrentRound, TimerArmed
<1>. QED
  BY <1>3, <1>4, InvPartsNext

(* An action that touches neither votes nor certificates.                  *)
LEMMA TimerStep ==
  ASSUME RoundInv,
         \/ \E hc, ht, ho \in 0 .. MaxRound - 1 : OrderedOnly(hc, ht, ho)
         \/ \E v \in Votes : RecordVote(v)
         \/ \E t \in Timeouts : RecordRoundTimeout(t)
         \/ TimerFires
         \/ \E r \in 0 .. MaxRound : ProcessLocalTimeout(r)
         \/ UNCHANGED vars
  PROVE  RoundInv'
<1>. USE DEF timer_vars, sent_vars, round_vars
<1>0. CertInv /\ TimerInv
  BY InvParts, Zenon
<1>1. UNCHANGED pending_vars
  BY Zenon DEF OrderedOnly, RecordVote, RecordRoundTimeout, TimerFires,
         ProcessLocalTimeout, vars, pending_vars
<1>2. CertInv'
  BY <1>0, <1>1, SamePending
<1>3. TimerInv'
  <2>0. MaxRound \in Nat /\ None \notin Nat
    BY MessageAssumption
  <2>1. ASSUME NEW hc \in 0 .. MaxRound - 1, NEW ht \in 0 .. MaxRound - 1,
               NEW ho \in 0 .. MaxRound - 1, OrderedOnly(hc, ht, ho)
        PROVE  TimerInv'
    <3>1. Highest({highest_ordered_round, ho}) \in {highest_ordered_round, ho}
      BY <1>0, <2>0, HighestOfTwo DEF TimerInv
    <3>. QED
      BY <1>0, <2>0, <2>1, <3>1 DEF TimerInv, OrderedOnly, SentInCurrentRound, TimerArmed
  <2>2. ASSUME NEW v \in Votes, RecordVote(v)
        PROVE  TimerInv'
    BY <1>0, <2>2 DEF TimerInv, RecordVote, SentInCurrentRound, TimerArmed
  <2>3. ASSUME NEW t \in Timeouts, RecordRoundTimeout(t)
        PROVE  TimerInv'
    BY <1>0, <2>3, Zenon DEF TimerInv, RecordRoundTimeout, SentInCurrentRound, TimerArmed
  <2>4. CASE TimerFires
    BY <1>0, <2>0, <2>4, Zenon DEF TimerInv, TimerFires, SentInCurrentRound, TimerArmed
  <2>5. ASSUME NEW r \in 0 .. MaxRound, ProcessLocalTimeout(r)
        PROVE  TimerInv'
    BY <1>0, <2>5, Zenon DEF TimerInv, ProcessLocalTimeout, SentInCurrentRound, TimerArmed
  <2>6. CASE UNCHANGED vars
    BY <1>0, <2>6, Zenon DEF TimerInv, vars, SentInCurrentRound, TimerArmed
  <2>. QED
    BY <2>1, <2>2, <2>3, <2>4, <2>5, <2>6
<1>. QED
  BY <1>2, <1>3, InvPartsNext

(* A message in the current round does not touch the timer.                *)
LEMMA MessageKeepsTimer ==
  ASSUME TimerInv, UNCHANGED <<round_vars, sent_vars, timer_vars>>,
         pessimistic' \subseteq Validator, heard' \subseteq Validator
  PROVE  TimerInv'
BY DEF TimerInv, SentInCurrentRound, TimerArmed, round_vars, sent_vars, timer_vars

(* An honest author is ignored only if its timeout was counted before.     *)
LEMMA IgnoreVoteStep ==
  ASSUME RoundInv, NEW v \in Votes, IgnoreVote(v)
  PROVE  RoundInv'
<1>0. CertInv /\ TimerInv
  BY InvParts
<1>1. v.author \in Validator /\ v.block \in Block
  BY MessageAssumption, Zenon
<1>2. /\ pending_votes' = pending_votes /\ current_round' = current_round
      /\ qcs' = qcs /\ tcs' = tcs
  BY DEF IgnoreVote, round_vars, cert_vars
<1>3. heard' \cap Honest \subseteq (heard \cap Honest)
         \cup (IF v.timeout # None /\ v.author \in Honest THEN {v.author} ELSE {})
  BY DEF IgnoreVote
<1>4. ASSUME v.author \in Honest, v.timeout # None
      PROVE  /\ pending_votes.author_to_vote[v.author] # None
             /\ pending_votes.author_to_vote[v.author].timeout # None
  <2>. DEFINE seen == pending_votes.author_to_vote[v.author]
  <2>1. duplicate_vote(pending_votes, v) \/ equivocate_vote(pending_votes, v)
    BY DEF IgnoreVote
  <2>2. seen # None /\ seen \in Votes
    BY <1>0, <1>1, <2>1, Zenon DEF duplicate_vote, equivocate_vote, CertInv, PendingVotesType
  <2>3. seen.author = v.author /\ round[seen.block] = round[v.block]
    BY <1>0, <1>1, <2>2, Zenon DEF CertInv, VotesOfRound, IgnoreVote
  <2>4. seen.block = v.block
    BY <1>4, <2>2, <2>3, HonestAssumption, Zenon
  <2>. QED
    BY <1>4, <2>1, <2>2, <2>4 DEF duplicate_vote, equivocate_vote
<1>5. HeardCounted'
  <2>1. HasQC' <=> HasQC
    BY <1>2 DEF HasQC
  <2>2. HasTC' <=> HasTC
    BY <1>2 DEF HasTC
  <2>3. timeout_signers(pending_votes)' = timeout_signers(pending_votes)
    BY <1>2, Zenon DEF timeout_signers
  <2>4. ~ HasQC => heard' \cap Honest \subseteq timeout_signers(pending_votes)
    BY <1>0, <1>1, <1>3, <1>4 DEF CertInv, HeardCounted
  <2>. QED
    BY <1>0, <1>2, <2>1, <2>2, <2>3, <2>4 DEF CertInv, HeardCounted
<1>6. CertInv'
  <2>1. (VotesCounted(pending_votes) /\ VotesOfRound(pending_votes, current_round))'
    BY <1>0, <1>2, NextPending, Zenon DEF CertInv
  <2>2. (pending_votes.timeout_votes # None
           => TimeoutsCounted(pending_votes.timeout_votes, current_round))'
    BY <1>0, <1>2, NextPending, Zenon DEF CertInv
  <2>3. (QCsVerify /\ TCsCounted)'
    BY <1>0, <1>2, Zenon DEF CertInv, QCsVerify, TCsCounted, TimeoutsCounted, Covers, Carried
  <2>. QED
    BY <1>0, <1>2, <1>5, <2>1, <2>2, <2>3 DEF CertInv
<1>7. TimerInv'
  <2>1. pessimistic' \subseteq Validator /\ heard' \subseteq Validator
    BY <1>0, <1>1, Zenon DEF IgnoreVote, TimerInv
  <2>. QED
    BY <1>0, <2>1, MessageKeepsTimer DEF IgnoreVote
<1>. QED
  BY <1>6, <1>7, InvPartsNext

(* InsertTimeout for author a into pv, the pending votes with the author's *)
(* vote, if any, already in.                                               *)
LEMMA InsertTimeoutStep ==
  ASSUME CertInv, current_round \in Nat,
         NEW pv \in PendingVotesType, VotesCounted(pv), VotesOfRound(pv, current_round),
         pv.timeout_votes = pending_votes.timeout_votes,
         pv.echo_timeout = pending_votes.echo_timeout,
         NEW a \in Validator, NEW h \in Nat,
         [author |-> a, round |-> current_round, hqc_round |-> h] \in Reports,
         \A b \in Block : pending_votes.enough_votes[b] # {} => pv.enough_votes[b] # {},
         \A c \in Validator \ {a} :
           pv.author_to_vote[c] = pending_votes.author_to_vote[c],
         InsertTimeout(pv, a, h),
         heard' = heard \cup {a}, current_round' = current_round, qcs' = qcs
  PROVE  CertInv'
<1>. DEFINE added == add_timeout(pv, a, h)
            tc == [round |-> current_round, hqc_round |-> added.timeout_votes.hqc_round,
                   rounds |-> added.timeout_votes.rounds]
            q == pending_votes'
<1>1. q = echo_if_minority(added)
  BY Zenon DEF InsertTimeout
<1>2. tcs' = IF timeout_signers(added) \in Quorum THEN tcs \cup {tc} ELSE tcs
  BY Zenon DEF InsertTimeout
<1>3. timeout_signers(pv) = timeout_signers(pending_votes)
  BY Zenon DEF timeout_signers
<1>4. /\ pv.timeout_votes # None => TimeoutsCounted(pv.timeout_votes, current_round)
      /\ timeout_signers(pv) \in Minority \ Quorum => pv.echo_timeout
  BY <1>3, Zenon DEF CertInv, HeardCounted
<1>. HIDE DEF added, q
<1>5. /\ q \in PendingVotesType
      /\ q.author_to_vote = pv.author_to_vote
      /\ q.signatures = pv.signatures
      /\ q.enough_votes = pv.enough_votes
      /\ q.timeout_votes = added.timeout_votes
      /\ q.timeout_votes \in TimeoutVotes
      /\ TimeoutsCounted(q.timeout_votes, current_round)
      /\ timeout_signers(q) = timeout_signers(pv) \cup {a}
      /\ timeout_signers(q) = timeout_signers(added)
      /\ timeout_signers(q) \in Minority \ Quorum => q.echo_timeout
  BY <1>1, <1>4, TimeoutInserted DEF added
<1>6. VotesCounted(q) /\ VotesOfRound(q, current_round)
  BY <1>5 DEF VotesCounted, ValidKept, QCFormed, VotesOfRound
<1>7. q.timeout_votes # None
  BY <1>5, MessageAssumption, Zenon DEF TimeoutVotes
<1>8. timeout_signers(q) = {c \in Validator : tc.rounds[c] # None}
  BY <1>5, <1>7, Zenon DEF timeout_signers
<1>9. tc \in TCType /\ TimeoutsCounted(tc, tc.round)
  BY <1>5, Zenon DEF TCType, TimeoutVotes, TimeoutsCounted, Covers, Carried
<1>10. (tcs \subseteq TCType)' /\ TCsCounted'
  <2>1. timeout_signers(added) \in Quorum => {c \in Validator : tc.rounds[c] # None} \in Quorum
    BY <1>5, <1>8
  <2>. HIDE DEF tc
  <2>. QED
    BY <1>2, <1>9, <2>1, Zenon DEF CertInv, TCsCounted, TimeoutsCounted, Covers, Carried
<1>11. timeout_signers(q) \in Quorum => HasTC'
  <2>. SUFFICES ASSUME timeout_signers(q) \in Quorum
                PROVE  tc \in tcs' /\ tc.round = current_round'
    BY Zenon DEF HasTC
  <2>. QED
    BY <1>2, <1>5, Zenon
<1>12. ASSUME ~ HasQC'
       PROVE  /\ heard' \cap Honest \subseteq timeout_signers(q)
              /\ \A c \in Validator :
                   q.author_to_vote[c] # None /\ q.author_to_vote[c].timeout # None
                     => c \in timeout_signers(q)
  <2>1. ~ HasQC
    BY <1>5, <1>12, Zenon DEF HasQC, q
  <2>. QED
    BY <1>3, <1>5, <2>1, Zenon DEF CertInv, HeardCounted
<1>13. HeardCounted'
  <2>1. timeout_signers(pending_votes)' = timeout_signers(q)
    BY DEF timeout_signers, q
  <2>. QED
    BY <1>5, <1>11, <1>12, <2>1, Zenon DEF HeardCounted, q
<1>14. VotesCounted(pending_votes)' /\ VotesOfRound(pending_votes, current_round)'
  BY <1>6, NextPending, Zenon DEF q
<1>15. TimeoutsCounted(pending_votes.timeout_votes, current_round)'
  BY <1>5, NextPending, Zenon DEF q
<1>16. QCsVerify'
  BY Zenon DEF CertInv, QCsVerify
<1>. QED
  BY <1>5, <1>10, <1>13, <1>14, <1>15, <1>16, Zenon DEF CertInv, q

LEMMA InsertRoundTimeoutStep ==
  ASSUME RoundInv, NEW t \in Timeouts, InsertRoundTimeout(t)
  PROVE  RoundInv'
<1>0. CertInv /\ TimerInv
  BY InvParts
<1>1. t \in [author : Validator, round : Nat, hqc_round : Nat] /\ t.round = current_round
  BY MessageAssumption DEF InsertRoundTimeout
<1>2. [author |-> t.author, round |-> current_round, hqc_round |-> t.hqc_round] \in Reports
  <2>1. t = [author |-> t.author, round |-> t.round, hqc_round |-> t.hqc_round]
    BY <1>1, Zenon
  <2>. QED
    BY <1>1, <2>1 DEF Reports
<1>3. CertInv'
  BY <1>0, <1>1, <1>2, InsertTimeoutStep DEF InsertRoundTimeout, round_vars, CertInv
<1>4. TimerInv'
  <2>1. pessimistic' \subseteq Validator /\ heard' \subseteq Validator
    BY <1>0, <1>1, Zenon DEF InsertRoundTimeout, TimerInv
  <2>. QED
    BY <1>0, <2>1, MessageKeepsTimer, Zenon DEF InsertRoundTimeout
<1>. QED
  BY <1>3, <1>4, InvPartsNext

LEMMA InsertVoteStep ==
  ASSUME RoundInv, NEW v \in Votes, InsertVote(v)
  PROVE  RoundInv'
<1>0. CertInv /\ TimerInv
  BY InvParts
<1>1. /\ v.author \in Validator /\ v.block \in Block
      /\ v.timeout \in Nat \cup {None} /\ None \notin Nat
      /\ v # None
  BY MessageAssumption, Zenon
<1>2. PICK pv \in verified_votes(store_vote(pending_votes, v), v.block) :
        /\ MakeQC(pv, v) \/ CountTimeout(pv, v) \/ CountVote(pv, v)
        /\ pessimistic' = pessimistic \cup
             (Voters(store_vote(pending_votes, v).signatures[v.block])
                \ Voters(pv.signatures[v.block]))
  BY Zenon DEF InsertVote
<1>3. /\ pv \in PendingVotesType
      /\ VotesCounted(pv)
      /\ pv.author_to_vote = [pending_votes.author_to_vote EXCEPT ![v.author] = v]
      /\ pv.timeout_votes = pending_votes.timeout_votes
      /\ pv.echo_timeout = pending_votes.echo_timeout
      /\ \A b \in Block : pending_votes.enough_votes[b] # {} => pv.enough_votes[b] # {}
  <2>1. /\ pending_votes \in PendingVotesType /\ VotesCounted(pending_votes)
        /\ ~ equivocate_vote(pending_votes, v)
        /\ \A a \in Validator : pending_votes.author_to_vote[a] # None
                                 => pending_votes.author_to_vote[a].author = a
    BY <1>0, Zenon DEF CertInv, InsertVote, VotesOfRound
  <2>. QED
    BY <2>1, VoteInserted, Zenon
<1>4. /\ pv.author_to_vote[v.author] = v
      /\ \A c \in Validator \ {v.author} :
           pv.author_to_vote[c] = pending_votes.author_to_vote[c]
  BY <1>0, <1>1, <1>3, Zenon DEF CertInv, PendingVotesType
<1>5. round[v.block] = current_round /\ current_round' = current_round
  BY Zenon DEF InsertVote, round_vars
<1>6. VotesOfRound(pv, current_round)
  BY <1>0, <1>4, <1>5 DEF CertInv, VotesOfRound
<1>7. current_round \in Nat
  BY <1>0, MessageAssumption DEF TimerInv
<1>8. ASSUME CountTimeout(pv, v)
      PROVE  CertInv'
  <2>1. v.timeout \in Nat /\ heard' = heard \cup {v.author}
    BY <1>1, <1>8, Zenon DEF CountTimeout, InsertVote
  <2>2. [author |-> v.author, round |-> current_round, hqc_round |-> v.timeout] \in Reports
    BY <1>5, <1>8, Zenon DEF CountTimeout, Reports
  <2>3. InsertTimeout(pv, v.author, v.timeout) /\ qcs' = qcs
    BY <1>8 DEF CountTimeout
  <2>4. CertInv'
    BY <1>0, <1>1, <1>3, <1>4, <1>5, <1>6, <1>7, <2>1, <2>2, <2>3, InsertTimeoutStep, Zenon
  <2>. QED
    BY <2>4, Zenon
<1>9. ASSUME MakeQC(pv, v) \/ CountVote(pv, v)
      PROVE  CertInv'
  <2>1. pending_votes' = pv /\ tcs' = tcs
    BY <1>9, Zenon DEF MakeQC, CountVote, cert_vars
  <2>2. timeout_signers(pv) = timeout_signers(pending_votes)
    BY <1>3, Zenon DEF timeout_signers
  <2>3. heard' = IF v.timeout # None THEN heard \cup {v.author} ELSE heard
    BY Zenon DEF InsertVote
  <2>4. ASSUME \A b \in Block : pv.enough_votes[b] = {}
        PROVE  /\ ~ HasQC
               /\ v.timeout = None
               /\ heard' = heard
    BY <1>1, <1>3, <1>9, <2>3, <2>4, Zenon DEF MakeQC, CountVote, HasQC
  <2>5. HeardCounted'
    <3>1. HasQC' <=> \E b \in Block : pv.enough_votes[b] # {}
      BY <2>1, Zenon DEF HasQC
    <3>2. HasTC' <=> HasTC
      BY <1>5, <2>1, Zenon DEF HasTC
    <3>3. timeout_signers(pending_votes)' = timeout_signers(pending_votes)
      BY <2>1, <2>2, Zenon DEF timeout_signers
    <3>4. ASSUME ~ HasQC'
          PROVE  /\ heard' \cap Honest \subseteq timeout_signers(pending_votes)
                 /\ \A a \in Validator :
                      pv.author_to_vote[a] # None /\ pv.author_to_vote[a].timeout # None
                        => a \in timeout_signers(pending_votes)
      <4>1. ~ HasQC /\ v.timeout = None /\ heard' = heard
        BY <2>4, <3>1, <3>4, Zenon
      <4>. QED
        BY <1>0, <1>4, <4>1, Zenon DEF CertInv, HeardCounted
    <3>5. pending_votes'.echo_timeout = pending_votes.echo_timeout
      BY <1>3, <2>1
    <3>. QED
      BY <1>0, <2>1, <3>2, <3>3, <3>4, <3>5, Zenon DEF CertInv, HeardCounted
  <2>6. QCsVerify'
    <3>1. CASE MakeQC(pv, v)
      <4>. DEFINE qc == [block |-> v.block, signers |-> pv.enough_votes[v.block],
                         invalid |-> Invalid(pv.signatures[v.block])]
      <4>1. qcs' = qcs \cup {qc} /\ pv.enough_votes[v.block] # {}
        BY <3>1, Zenon DEF MakeQC
      <4>2. QCFormed(pv, v.block)
        BY <1>1, <1>3, <4>1, Zenon DEF VotesCounted
      <4>3. qc.signers \in Quorum /\ \A c \in Validator : qc.invalid # {c}
        BY <4>2, Zenon DEF QCFormed
      <4>. HIDE DEF qc
      <4>. QED
        BY <1>0, <4>1, <4>3, Zenon DEF CertInv, QCsVerify
    <3>2. CASE CountVote(pv, v)
      BY <1>0, <3>2 DEF CertInv, CountVote, cert_vars, QCsVerify
    <3>. QED
      BY <1>9, <3>1, <3>2, Zenon
  <2>7. VotesCounted(pending_votes)' /\ VotesOfRound(pending_votes, current_round)'
    BY <1>3, <1>5, <1>6, <2>1, NextPending, Zenon
  <2>8. (pending_votes.timeout_votes # None
           => TimeoutsCounted(pending_votes.timeout_votes, current_round))'
    BY <1>0, <1>3, <1>5, <2>1, NextPending, Zenon DEF CertInv
  <2>9. (tcs \subseteq TCType /\ TCsCounted)'
    BY <1>0, <2>1, Zenon DEF CertInv, TCsCounted, TimeoutsCounted, Covers, Carried
  <2>. QED
    BY <1>3, <2>1, <2>5, <2>6, <2>7, <2>8, <2>9, Zenon DEF CertInv
<1>10. TimerInv'
  <2>1. pessimistic' \subseteq Validator /\ heard' \subseteq Validator
    BY <1>0, <1>1, <1>2 DEF InsertVote, TimerInv, Voters
  <2>. QED
    BY <1>0, <2>1, MessageKeepsTimer, Zenon DEF InsertVote
<1>. QED
  BY <1>2, <1>8, <1>9, <1>10, InvPartsNext, Zenon

----------------------------------------------------------------------------
(* RoundInv holds in every reachable state.                                *)
THEOREM RoundInvariant == Spec => []RoundInv
<1>1. RoundInv /\ [Next]_vars => RoundInv'
  <2>. SUFFICES ASSUME RoundInv, [Next]_vars PROVE RoundInv'
    OBVIOUS
  <2>1. ASSUME NEW hc \in 0 .. MaxRound - 1, NEW ht \in 0 .. MaxRound - 1,
               NEW ho \in 0 .. MaxRound - 1, StartRound(hc, ht, ho)
        PROVE  RoundInv'
    BY <2>1, StartRoundStep
  <2>2. ASSUME NEW v \in Votes, IgnoreVote(v)
        PROVE  RoundInv'
    BY <2>2, IgnoreVoteStep
  <2>3. ASSUME NEW v \in Votes, InsertVote(v)
        PROVE  RoundInv'
    BY <2>3, InsertVoteStep
  <2>4. ASSUME NEW t \in Timeouts, InsertRoundTimeout(t)
        PROVE  RoundInv'
    BY <2>4, InsertRoundTimeoutStep
  <2>. QED
    BY <2>1, <2>2, <2>3, <2>4, TimerStep DEF Next
<1>. QED
  BY InitRoundInv, <1>1, PTL DEF Spec

(* Every QC that insert_vote hands out passes verify_multi_signatures.     *)
THEOREM QCsHandedOutVerify == Spec => []QCsVerify
<1>1. RoundInv => QCsVerify
  BY DEF RoundInv
<1>. QED
  BY RoundInvariant, <1>1, PTL

(* A quorum of valid votes for a block always has its QC, whatever invalid,*)
(* duplicate and equivocating votes insert_vote was given in between.      *)
THEOREM QuorumOfValidVotes == Spec => []NoLostQC
<1>1. RoundInv => NoLostQC
  <2>. SUFFICES ASSUME RoundInv, NEW b \in Block,
                       pending_votes.enough_votes[b] = {}
                PROVE  {a \in Validator :
                          /\ pending_votes.author_to_vote[a] # None
                          /\ pending_votes.author_to_vote[a].block = b
                          /\ pending_votes.author_to_vote[a].valid} \notin Quorum
    BY DEF NoLostQC
  <2>. DEFINE S == {a \in Validator :
                      /\ pending_votes.author_to_vote[a] # None
                      /\ pending_votes.author_to_vote[a].block = b
                      /\ pending_votes.author_to_vote[a].valid}
              T == Voters(pending_votes.signatures[b])
  <2>1. S \subseteq T /\ T \in SUBSET Validator
    BY DEF RoundInv, VotesCounted, ValidKept, Voters
  <2>2. T \notin Quorum
    BY DEF RoundInv, VotesCounted
  <2>. HIDE DEF S, T
  <2>3. S \notin Quorum
    BY <2>1, <2>2, PowerAssumption, Zenon
  <2>. QED
    BY <2>3 DEF S
<1>. QED
  BY RoundInvariant, <1>1, PTL

(* Timeouts of honest validators count, with a vote or alone: f+1 are      *)
(* echoed, a quorum makes a TC, unless the round has a QC.                 *)
THEOREM HonestTimeoutsNotLost == Spec => []HonestTimeoutsCount
<1>1. RoundInv => HonestTimeoutsCount
  <2>. SUFFICES ASSUME RoundInv, ~ HasQC PROVE HonestTimeoutsCount
    BY Zenon DEF HonestTimeoutsCount
  <2>1. heard \cap Honest \subseteq timeout_signers(pending_votes)
    BY Zenon DEF RoundInv, HeardCounted
  <2>2. timeout_signers(pending_votes) \in SUBSET Validator
    BY DEF timeout_signers
  <2>3. \A P \in {Quorum, Minority} :
          heard \cap Honest \in P => timeout_signers(pending_votes) \in P
    BY <2>1, <2>2, PowerAssumption
  <2>. QED
    BY <2>3 DEF RoundInv, HeardCounted, HonestTimeoutsCount
<1>. QED
  BY RoundInvariant, <1>1, PTL

(* A TC handed out has a quorum of signers and a QC no lower than any they *)
(* signed, and passes TwoChainTimeoutCertificate::verify unless one of its *)
(* signers reported two QCs, with no assumption on what anyone reports.    *)
THEOREM TCsCoverSigners == Spec => []TCsCover
<1>1. RoundInv => TCsCover
  <2>. SUFFICES ASSUME RoundInv, NEW tc \in tcs
                PROVE  /\ {a \in Validator : tc.rounds[a] # None} \in Quorum
                       /\ Covers(tc)
                       /\ \/ tc_verifies(tc)
                          \/ \E a \in Validator :
                               /\ tc.rounds[a] # None /\ tc.rounds[a] < tc.hqc_round
                               /\ [author |-> a, round |-> tc.round,
                                   hqc_round |-> tc.hqc_round] \in Reports
    BY Zenon DEF TCsCover, Covers
  <2>1. /\ {a \in Validator : tc.rounds[a] # None} \in Quorum
        /\ Covers(tc) /\ Carried(tc, tc.round) /\ tc \in TCType
    BY Zenon DEF RoundInv, TCsCounted, TimeoutsCounted
  <2>2. PICK a \in Validator :
          /\ tc.rounds[a] # None
          /\ [author |-> a, round |-> tc.round, hqc_round |-> tc.hqc_round] \in Reports
    BY <2>1, Zenon DEF Carried
  <2>3. /\ tc.hqc_round \in Nat /\ tc.hqc_round # None
        /\ tc.rounds[a] \in Nat /\ tc.rounds[a] <= tc.hqc_round
    BY <2>1, <2>2, MessageAssumption DEF TCType, Covers
  <2>4. CASE tc.rounds[a] = tc.hqc_round
    BY <2>1, <2>3, <2>4 DEF tc_verifies, Covers
  <2>5. CASE tc.rounds[a] # tc.hqc_round
    BY <2>1, <2>2, <2>3, <2>5
  <2>. QED
    BY <2>1, <2>4, <2>5
<1>. QED
  BY RoundInvariant, <1>1, PTL

(* record_vote and record_round_timeout keep what belongs to the round.    *)
THEOREM SentBelongsToRound == Spec => []SentInCurrentRound
<1>1. RoundInv => SentInCurrentRound
  BY DEF RoundInv
<1>. QED
  BY RoundInvariant, <1>1, PTL

(* process_certificates and process_local_timeout leave the round with a   *)
(* timer or with its event on the way.                                     *)
THEOREM RoundCanTimeOut == Spec => []TimerArmed
<1>1. RoundInv => TimerArmed
  BY DEF RoundInv
<1>. QED
  BY RoundInvariant, <1>1, PTL
=============================================================================
