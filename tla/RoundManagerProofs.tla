------------------------- MODULE RoundManagerProofs -------------------------
(***************************************************************************)
(* The invariant of the RoundManagers: a validator's round is the one      *)
(* after its highest certificate, its SafetyRules has seen no certificate  *)
(* above the one held and signed in no later round, and every message was  *)
(* sent by a validator of which this was true.  From it: a validator can   *)
(* always time out, rounds never fall, and whoever syncs up to a message   *)
(* is then in the message's round.                                         *)
(*                                                                         *)
(* L is the scenario's last round throughout.                              *)
(***************************************************************************)
EXTENDS RoundManager, TLAPS

Certs(L) == [round : 0 .. L - 1, hqc_round : Nat, valid : BOOLEAN]

SyncInfo(L) == [hqc : Block, htc : Certs(L)]

TimeoutVotes == [hqc_round : Nat, rounds : [Validator -> Nat \cup {None}]]

PendingTimeouts == [timeout_votes : TimeoutVotes \cup {None}, echo_timeout : BOOLEAN]

State(L) ==
  [hqc : Block, htc : Certs(L), safety : SafetyData, last_vote : Block \cup {None},
   current_round : Nat, pending_votes : PendingTimeouts,
   vote_sent : Block \cup {None}, timeout_sent : Nat \cup {None}]

(* The round, SafetyRules and the certificates of a validator are in step. *)
InStep(s) ==
  /\ s.current_round = highest_round(sync_info(s)) + 1
  /\ s.safety.one_chain_round <= round[s.hqc]
  /\ s.safety.last_voted_round <= s.current_round
  /\ s.timeout_sent # None => s.timeout_sent < s.current_round

Good(s, L) == s \in State(L) /\ InStep(s)

(* The round ensure_round_and_sync_up compares with the receiver's.        *)
message_round(m) == IF m.type = "timeout" THEN m.round ELSE round[m.block]

(* A message is of the round after its sender's highest certificate, and a *)
(* proposal extends the certificate it comes with.                         *)
Message(m, L) ==
  /\ m.sync \in SyncInfo(L)
  /\ message_round(m) = highest_round(m.sync) + 1
  /\ \/ m.type = "proposal" /\ m.block \in Block /\ parent[m.block] = m.sync.hqc
     \/ m.type = "vote" /\ m.block \in Block
     \/ /\ m.type = "timeout" /\ m.author \in Validator
        /\ m.round \in Nat /\ m.hqc_round \in Nat

Limit(L) == L \in Nat \ {0} /\ \A b \in Block : round[b] < L

ManagerInv ==
  /\ scenario \in Scenario
  /\ restarts \in 0 .. scenario.restarts
  /\ node \in [Validator -> State(scenario.last_round)]
  /\ \A n \in Validator : InStep(node[n])
  /\ \A m \in network : Message(m, scenario.last_round)

-----------------------------------------------------------------------------
(* Certificates and rounds.                                                *)

(* The highest round of certificates is the round of one of the two.       *)
LEMMA HighestRound ==
  ASSUME NEW L, Limit(L), NEW si \in SyncInfo(L)
  PROVE  /\ round[si.hqc] \in Nat /\ si.htc.round \in Nat
         /\ highest_round(si) \in Nat
         /\ highest_round(si) = Higher(round[si.hqc], si.htc.round)
         /\ highest_round(si) < L
<1>1. /\ si.hqc \in Block /\ si.htc \in Certs(L)
  BY Zenon DEF SyncInfo
<1>2. si.htc.round \in 0 .. L - 1
  BY <1>1, Zenon DEF Certs
<1>3. round[si.hqc] \in Nat /\ round[si.hqc] < L /\ L \in Nat
  BY <1>1, BlockAssumption, Zenon DEF Limit
<1> QED BY <1>2, <1>3 DEF highest_round, Higher

(* sync_info leaves out only a TC that does not count for the round.       *)
LEMMA OwnSyncInfo ==
  ASSUME NEW L, Limit(L), NEW s \in State(L)
  PROVE  /\ sync_info(s) \in SyncInfo(L)
         /\ sync_info(s).hqc = s.hqc
         /\ sync_info(s).htc.round <= s.htc.round
         /\ round[s.hqc] \in Nat /\ s.htc.round \in Nat
         /\ highest_round(sync_info(s)) = Higher(round[s.hqc], s.htc.round)
         /\ highest_round(sync_info(s)) \in Nat
         /\ highest_round(sync_info(s)) < L
<1>1. /\ s.hqc \in Block /\ s.htc \in Certs(L)
  BY Zenon DEF State
<1>2. /\ s.htc.round \in 0 .. L - 1
      /\ L \in Nat \ {0} /\ round[s.hqc] \in Nat
  BY <1>1, BlockAssumption, Zenon DEF Certs, Limit
<1>3. NoCert \in Certs(L) /\ NoCert.round = 0
  <2>1. 0 \in 0 .. L - 1
    BY <1>2
  <2> QED BY <2>1, Zenon DEF NoCert, Certs
<1>4. sync_info(s).hqc = s.hqc
  BY Zenon DEF sync_info
<1>5. sync_info(s).htc = IF s.htc.round > round[s.hqc] THEN s.htc ELSE NoCert
  BY Zenon DEF sync_info
<1>6. sync_info(s) \in SyncInfo(L)
  BY <1>1, <1>3, Zenon DEF SyncInfo, sync_info
<1>7. /\ sync_info(s).htc.round <= s.htc.round
      /\ Higher(round[s.hqc], sync_info(s).htc.round) = Higher(round[s.hqc], s.htc.round)
  BY <1>2, <1>3, <1>5 DEF Higher
<1> QED BY <1>1, <1>2, <1>4, <1>6, <1>7, HighestRound

(* Certificates are only replaced by higher ones, and the round that       *)
(* begins is the one after the highest.                                    *)
LEMMA WithCerts ==
  ASSUME NEW L, Limit(L), NEW s, Good(s, L), NEW b \in Block, NEW tc \in Certs(L)
  PROVE  LET t == with_certs(s, b, tc)
         IN  /\ Good(t, L)
             /\ round[t.hqc] >= round[b] /\ round[t.hqc] >= round[s.hqc]
             /\ t.current_round = Higher(s.current_round, Higher(round[b], tc.round) + 1)
             /\ t.current_round >= s.current_round
             /\ t.safety = s.safety
<1> DEFINE c == [s EXCEPT !.hqc = insert_quorum_cert(@, b),
                          !.htc = insert_2chain_timeout_certificate(@, tc)]
           t == with_certs(s, b, tc)
<1>1. /\ s \in State(L) /\ InStep(s)
  BY Zenon DEF Good
<1>2. /\ s.hqc \in Block /\ s.htc \in Certs(L)
      /\ round[s.hqc] \in Nat /\ round[b] \in Nat
      /\ s.htc.round \in Nat /\ tc.round \in Nat
  BY <1>1, BlockAssumption DEF State, Certs
<1>3. /\ insert_quorum_cert(s.hqc, b) \in Block
      /\ round[insert_quorum_cert(s.hqc, b)] = Higher(round[b], round[s.hqc])
  BY <1>2, Zenon DEF insert_quorum_cert, Higher
<1>4. /\ insert_2chain_timeout_certificate(s.htc, tc) \in Certs(L)
      /\ insert_2chain_timeout_certificate(s.htc, tc).round = Higher(tc.round, s.htc.round)
  BY <1>2, Zenon DEF insert_2chain_timeout_certificate, Higher
<1>5. /\ c \in State(L)
      /\ c.hqc = insert_quorum_cert(s.hqc, b)
      /\ c.htc = insert_2chain_timeout_certificate(s.htc, tc)
      /\ c.safety = s.safety /\ c.last_vote = s.last_vote
      /\ c.current_round = s.current_round
      /\ c.timeout_sent = s.timeout_sent
  BY <1>1, <1>3, <1>4, Zenon DEF State
<1>6. t = process_certificates(c)
  BY Zenon DEF with_certs
<1> HIDE DEF c, t
<1> DEFINE new == highest_round(sync_info(c)) + 1
<1>7. /\ new \in Nat /\ c.current_round \in Nat
      /\ new = Higher(Higher(round[b], round[s.hqc]), Higher(tc.round, s.htc.round)) + 1
      /\ s.current_round = Higher(round[s.hqc], s.htc.round) + 1
  BY <1>1, <1>3, <1>4, <1>5, OwnSyncInfo DEF InStep, State
<1>8. /\ new >= s.current_round
      /\ new = Higher(s.current_round, Higher(round[b], tc.round) + 1)
  BY <1>2, <1>7 DEF Higher
<1>9. NoTimeouts \in PendingTimeouts
  BY Zenon DEF NoTimeouts, PendingTimeouts
<1>10. /\ t \in State(L) /\ t.hqc = c.hqc /\ t.htc = c.htc
       /\ t.safety = c.safety
       /\ t.current_round = new
       /\ t.timeout_sent = None \/ t.timeout_sent = s.timeout_sent
  <2> HIDE DEF new
  <2>0. t = IF new > c.current_round
            THEN [c EXCEPT !.current_round = new,
                           !.pending_votes = NoTimeouts,
                           !.vote_sent = None,
                           !.timeout_sent = None]
            ELSE c
    BY <1>6, Zenon DEF process_certificates, new
  <2>1. CASE new > c.current_round
    BY <1>5, <1>7, <1>9, <2>0, <2>1, Zenon DEF State
  <2>2. CASE ~ (new > c.current_round)
    <3>1. t = c
      BY <2>0, <2>2, Zenon
    <3>2. new = c.current_round
      BY <1>5, <1>7, <1>8, <2>2
    <3> QED BY <1>5, <3>1, <3>2, Zenon
  <2> QED BY <2>1, <2>2, Zenon
<1>11. sync_info(t) = sync_info(c)
  BY <1>10, Zenon DEF sync_info
<1>12. round[t.hqc] = Higher(round[b], round[s.hqc])
  BY <1>3, <1>5, <1>10, Zenon
<1>13. InStep(t)
  <2>1. t.current_round = highest_round(sync_info(t)) + 1
    BY <1>10, <1>11, Zenon
  <2>2. /\ s.safety.one_chain_round <= round[s.hqc]
        /\ s.safety.last_voted_round <= s.current_round
        /\ s.timeout_sent # None => s.timeout_sent < s.current_round
    BY <1>1, Zenon DEF InStep
  <2>3. s.safety \in SafetyData /\ s.current_round \in Nat /\ s.timeout_sent \in Nat \cup {None}
    BY <1>1, Zenon DEF State
  <2>4. s.safety.one_chain_round \in Nat /\ s.safety.last_voted_round \in Nat
    BY <2>3, Zenon DEF SafetyData
  <2>5. t.safety = s.safety
    BY <1>5, <1>10, Zenon
  <2>6. t.safety.one_chain_round <= round[t.hqc]
    BY <1>2, <1>12, <2>2, <2>4, <2>5 DEF Higher
  <2>7. t.safety.last_voted_round <= t.current_round
    BY <1>7, <1>8, <1>10, <2>2, <2>3, <2>4, <2>5
  <2>8. t.timeout_sent # None => t.timeout_sent < t.current_round
    BY <1>7, <1>8, <1>10, <2>2, <2>3
  <2> QED BY <2>1, <2>6, <2>7, <2>8, Zenon DEF InStep
<1>14. round[t.hqc] >= round[b] /\ round[t.hqc] >= round[s.hqc]
  BY <1>2, <1>12 DEF Higher
<1> QED
  <2> HIDE DEF new
  <2>1. Good(t, L)
    BY <1>10, <1>13, Zenon DEF Good
  <2> QED BY <1>5, <1>8, <1>10, <1>14, <2>1, Zenon DEF t

(* After sync_up a validator is in the round the certificates ask for, or  *)
(* in a higher one it was in before, and its QC is as high as the one that *)
(* came along.                                                             *)
LEMMA SyncUp ==
  ASSUME NEW L, Limit(L), NEW s, Good(s, L), NEW si \in SyncInfo(L)
  PROVE  LET t == sync_up(s, si)
         IN  /\ Good(t, L)
             /\ round[t.hqc] >= round[si.hqc]
             /\ t.current_round = Higher(s.current_round, highest_round(si) + 1)
             /\ t.current_round >= s.current_round
             /\ t.safety = s.safety
<1>1. si.hqc \in Block /\ si.htc \in Certs(L)
  BY Zenon DEF SyncInfo
<1>2. CASE has_newer_certificates(si, sync_info(s))
  <2>1. sync_up(s, si) = with_certs(s, si.hqc, si.htc)
    BY <1>2, Zenon DEF sync_up
  <2> QED BY <1>1, <2>1, WithCerts, HighestRound
<1>3. CASE ~ has_newer_certificates(si, sync_info(s))
  <2>1. sync_up(s, si) = s
    BY <1>3, Zenon DEF sync_up
  <2>2. s \in State(L) /\ s.current_round = highest_round(sync_info(s)) + 1
    BY Zenon DEF Good, InStep
  <2>3. /\ sync_info(s).hqc = s.hqc
        /\ sync_info(s).htc.round \in Nat
        /\ sync_info(s).htc.round <= s.htc.round
        /\ round[s.hqc] \in Nat /\ s.htc.round \in Nat
        /\ s.current_round = Higher(round[s.hqc], s.htc.round) + 1
    BY <2>2, OwnSyncInfo, HighestRound, Zenon
  <2>4. /\ round[si.hqc] \in Nat /\ si.htc.round \in Nat
        /\ highest_round(si) = Higher(round[si.hqc], si.htc.round)
    BY HighestRound, Zenon
  <2>5. round[si.hqc] <= round[s.hqc] /\ si.htc.round <= s.htc.round
    BY <1>3, <2>3, <2>4 DEF has_newer_certificates
  <2>6. s.current_round = Higher(s.current_round, highest_round(si) + 1)
    BY <2>3, <2>4, <2>5 DEF Higher
  <2>7. s.current_round >= s.current_round
    BY <2>3 DEF Higher
  <2> QED BY <2>1, <2>5, <2>6, <2>7, Zenon
<1> QED BY <1>2, <1>3, Zenon

-----------------------------------------------------------------------------
(* Timeouts.                                                               *)

(* A validator that is in step may sign a timeout of its round.            *)
LEMMA MaySignTimeout ==
  ASSUME NEW L, Limit(L), NEW s, Good(s, L)
  PROVE  can_sign_timeout(s)
<1>1. s \in State(L) /\ InStep(s)
  BY Zenon DEF Good
<1>2. /\ round[s.hqc] \in Nat /\ s.htc.round \in Nat
      /\ s.current_round = Higher(round[s.hqc], s.htc.round) + 1
  BY <1>1, OwnSyncInfo, Zenon DEF InStep
<1>3. /\ s.safety.one_chain_round \in Nat /\ s.safety.last_voted_round \in Nat
  BY <1>1, Zenon DEF State, SafetyData
<1>4. s.current_round = round[s.hqc] + 1 \/ s.current_round = s.htc.round + 1
  BY <1>2, Zenon DEF Higher
<1>5. s.current_round \in Nat
  BY <1>1, Zenon DEF State
<1> QED BY <1>1, <1>2, <1>3, <1>4, <1>5, Zenon DEF InStep, can_sign_timeout, safe_to_timeout

LEMMA LocalTimeout ==
  ASSUME NEW L, Limit(L), NEW s, Good(s, L), NEW sync_only
  PROVE  LET t == local_timeout(s, sync_only)
         IN  /\ Good(t, L) /\ t.current_round = s.current_round
             /\ t.vote_sent = s.vote_sent
<1> DEFINE t == local_timeout(s, sync_only)
<1>1. s \in State(L) /\ InStep(s)
  BY Zenon DEF Good
<1>2. CASE s.timeout_sent = None /\ can_sign_timeout(s) /\ ~ sync_only
  <2> DEFINE sd == timed_out_data(s.safety, s.current_round)
  <2>1. t = [s EXCEPT !.safety = sd, !.timeout_sent = round[s.hqc]]
    BY <1>2, Zenon DEF local_timeout
  <2>2. /\ s.safety \in SafetyData /\ s.current_round \in Nat /\ s.hqc \in Block
        /\ round[s.hqc] \in Nat
    BY <1>1, BlockAssumption, Zenon DEF State
  <2>3. /\ s.safety.last_voted_round \in Nat /\ s.safety.highest_timeout_round \in Nat
    BY <2>2, Zenon DEF SafetyData
  <2>4. /\ Higher(s.current_round, s.safety.last_voted_round) = s.current_round
        /\ Higher(s.current_round, s.safety.highest_timeout_round) \in Nat
    BY <1>1, <2>2, <2>3 DEF Higher, InStep
  <2>5. /\ sd \in SafetyData
        /\ sd.last_voted_round = s.current_round
        /\ sd.one_chain_round = s.safety.one_chain_round
    BY <2>2, <2>4, Zenon DEF timed_out_data, SafetyData
  <2> HIDE DEF sd
  <2>6. /\ t \in State(L) /\ t.hqc = s.hqc /\ t.htc = s.htc /\ t.safety = sd
        /\ t.current_round = s.current_round /\ t.timeout_sent = round[s.hqc]
        /\ t.vote_sent = s.vote_sent
    BY <1>1, <2>1, <2>2, <2>5, Zenon DEF State
  <2>7. sync_info(t) = sync_info(s)
    BY <2>6, Zenon DEF sync_info
  <2>8. round[s.hqc] < s.current_round
    BY <1>1, OwnSyncInfo DEF InStep, Higher
  <2>9. s.current_round <= s.current_round
    BY <2>2
  <2>10. InStep(t)
    BY <1>1, <2>5, <2>6, <2>7, <2>8, <2>9, Zenon DEF InStep
  <2> QED BY <2>6, <2>10, Zenon DEF Good
<1>3. CASE ~ (s.timeout_sent = None /\ can_sign_timeout(s) /\ ~ sync_only)
  BY <1>3, Zenon DEF local_timeout
<1> QED BY <1>2, <1>3, Zenon

LEMMA TimeoutMessage ==
  ASSUME NEW L, Limit(L), NEW s, Good(s, L), NEW n \in Validator, NEW m \in timeout_msg(n, s)
  PROVE  Message(m, L)
<1>1. s \in State(L) /\ InStep(s)
  BY Zenon DEF Good
<1>2. /\ m.type = "timeout" /\ m.author = n /\ m.round = s.current_round
      /\ m.hqc_round = s.timeout_sent /\ m.sync = sync_info(s)
      /\ s.timeout_sent # None
  BY DEF timeout_msg
<1>3. m.round \in Nat /\ m.hqc_round \in Nat
  BY <1>1, <1>2, Zenon DEF State
<1>4. m.sync \in SyncInfo(L)
  BY <1>1, <1>2, OwnSyncInfo, Zenon
<1>5. message_round(m) = highest_round(m.sync) + 1
  BY <1>1, <1>2, Zenon DEF message_round, InStep
<1> QED BY <1>2, <1>3, <1>4, <1>5, Zenon DEF Message

(* Counting timeouts changes nothing else.                                 *)
LEMMA WithPending ==
  ASSUME NEW L, NEW s, Good(s, L), NEW pv \in PendingTimeouts
  PROVE  LET t == [s EXCEPT !.pending_votes = pv]
         IN  Good(t, L) /\ t.current_round = s.current_round
<1> DEFINE t == [s EXCEPT !.pending_votes = pv]
<1>1. s \in State(L) /\ InStep(s)
  BY Zenon DEF Good
<1>2. /\ t \in State(L) /\ t.hqc = s.hqc /\ t.htc = s.htc /\ t.safety = s.safety
      /\ t.current_round = s.current_round /\ t.timeout_sent = s.timeout_sent
  BY <1>1, Zenon DEF State
<1> HIDE DEF t
<1>3. sync_info(t) = sync_info(s)
  BY <1>2, Zenon DEF sync_info
<1>4. Good(t, L)
  BY <1>1, <1>2, <1>3, Zenon DEF InStep, Good
<1> QED BY <1>2, <1>4, Zenon DEF t

LEMMA CountTimeout ==
  ASSUME NEW L, NEW s, Good(s, L), NEW a \in Validator, NEW h \in Nat
  PROVE  LET t == insert_round_timeout(s, a, h)
         IN  /\ Good(t, L) /\ t.current_round = s.current_round
             /\ t.pending_votes.timeout_votes \in TimeoutVotes
<1> DEFINE old == s.pending_votes
           tv == IF old.timeout_votes = None
                 THEN Pending!new_timeout_votes(h) ELSE old.timeout_votes
           new == [hqc_round |-> IF h > tv.hqc_round THEN h ELSE tv.hqc_round,
                   rounds |-> [tv.rounds EXCEPT ![a] = IF @ = None THEN h ELSE @]]
           pv == Pending!add_timeout(old, a, h)
<1>1. s \in State(L)
  BY Zenon DEF Good
<1>2. old \in PendingTimeouts
  BY <1>1, Zenon DEF State
<1>3. tv \in TimeoutVotes
  <2>1. Pending!new_timeout_votes(h) \in TimeoutVotes
    BY Zenon DEF Pending!new_timeout_votes, TimeoutVotes
  <2>2. old.timeout_votes \in TimeoutVotes \cup {None}
    BY <1>2, Zenon DEF PendingTimeouts
  <2> QED BY <2>1, <2>2, Zenon
<1>4. new \in TimeoutVotes
  <2> HIDE DEF tv
  <2> QED BY <1>3, Zenon DEF TimeoutVotes
<1>5. pv = [old EXCEPT !.timeout_votes = new]
  BY Zenon DEF Pending!add_timeout
<1> HIDE DEF old, tv, new, pv
<1>6. pv \in PendingTimeouts /\ pv.timeout_votes = new
  BY <1>2, <1>4, <1>5, Zenon DEF PendingTimeouts
<1>7. insert_round_timeout(s, a, h) = [s EXCEPT !.pending_votes = pv]
  BY Zenon DEF insert_round_timeout, pv, old
<1>8. insert_round_timeout(s, a, h).pending_votes = pv
  BY <1>1, <1>7, Zenon DEF State
<1> QED BY <1>4, <1>6, <1>7, <1>8, WithPending

(* A TC formed of the timeouts counted is one of the current round.        *)
LEMMA FormTC ==
  ASSUME NEW L, Limit(L), NEW s, Good(s, L), s.current_round < L,
         s.pending_votes.timeout_votes \in TimeoutVotes
  PROVE  new_2chain_tc(s) \in Certs(L)
<1>1. s.current_round \in 0 .. L - 1
  BY DEF Good, State, Limit
<1>2. s.pending_votes.timeout_votes.hqc_round \in Nat
  BY Zenon DEF TimeoutVotes
<1>3. Pending!tc_verifies(s.pending_votes.timeout_votes) \in BOOLEAN
  BY Zenon DEF Pending!tc_verifies
<1> QED BY <1>1, <1>2, <1>3, Zenon DEF new_2chain_tc, Certs
LEMMA EchoPending ==
  ASSUME NEW pv \in PendingTimeouts
  PROVE  Pending!echo_if_minority(pv) \in PendingTimeouts
<1>1. [pv EXCEPT !.echo_timeout = TRUE] \in PendingTimeouts
  BY Zenon DEF PendingTimeouts
<1> QED BY <1>1, Zenon DEF Pending!echo_if_minority

-----------------------------------------------------------------------------
(* Voting.                                                                 *)

(* A vote moves what SafetyRules has seen up to the block's QC, which is   *)
(* not above the validator's, and what it has signed to the current round. *)
LEMMA VoteBlock ==
  ASSUME NEW L, Limit(L), NEW s, Good(s, L), NEW b \in Block,
         round[b] = s.current_round, round[parent[b]] <= round[s.hqc]
  PROVE  LET t == vote_block(s, b)
         IN  /\ Good(t, L) /\ t.current_round = s.current_round
             /\ t.safety.last_vote \in Block
             /\ round[t.safety.last_vote] = s.current_round
<1> DEFINE t == vote_block(s, b)
<1>1. s \in State(L) /\ InStep(s)
  BY Zenon DEF Good
<1>2. s.safety \in SafetyData
  BY <1>1, Zenon DEF State
<1>3. CASE already_voted(s.safety, round[b])
  <2>1. t = s
    BY <1>3, Zenon DEF vote_block
  <2>2. s.safety.last_vote \in Block /\ round[s.safety.last_vote] = round[b]
    BY <1>2, <1>3, Zenon DEF already_voted, SafetyData
  <2> QED BY <2>1, <2>2, Zenon
<1>4. CASE ~ already_voted(s.safety, round[b])
  <2> DEFINE sd == voted_data(s.safety, b)
  <2>1. t = [s EXCEPT !.safety = sd]
    BY <1>4, Zenon DEF vote_block
  <2>2. /\ parent[b] \in Block /\ round[b] \in Nat /\ round[parent[b]] \in Nat
        /\ parent[parent[b]] \in Block /\ round[parent[parent[b]]] \in Nat
        /\ s.hqc \in Block /\ round[s.hqc] \in Nat
    BY <1>1, BlockAssumption, Zenon DEF State
  <2>3. /\ s.safety.one_chain_round \in Nat /\ s.safety.preferred_round \in Nat
        /\ s.safety.one_chain_round <= round[s.hqc]
    BY <1>1, <1>2, Zenon DEF SafetyData, InStep
  <2>4. /\ Higher(round[parent[b]], s.safety.one_chain_round) \in Nat
        /\ Higher(round[parent[b]], s.safety.one_chain_round) <= round[s.hqc]
        /\ Higher(round[parent[parent[b]]], s.safety.preferred_round) \in Nat
    BY <2>2, <2>3, Zenon DEF Higher
  <2>5. /\ sd \in SafetyData
        /\ sd.last_vote = b /\ sd.last_voted_round = round[b]
        /\ sd.one_chain_round <= round[s.hqc]
    BY <1>2, <2>2, <2>4, Zenon DEF voted_data, observe_qc, SafetyData
  <2> HIDE DEF sd
  <2>6. /\ t \in State(L) /\ t.hqc = s.hqc /\ t.htc = s.htc /\ t.safety = sd
        /\ t.current_round = s.current_round /\ t.timeout_sent = s.timeout_sent
    BY <1>1, <2>1, <2>5, Zenon DEF State
  <2>7. sync_info(t) = sync_info(s)
    BY <2>6, Zenon DEF sync_info
  <2>8. s.current_round <= s.current_round
    BY <2>2
  <2>9. InStep(t)
    BY <1>1, <2>5, <2>6, <2>7, <2>8, Zenon DEF InStep
  <2> QED BY <2>5, <2>6, <2>9, Zenon DEF Good
<1> QED BY <1>3, <1>4, Zenon

LEMMA RecordVote ==
  ASSUME NEW L, NEW s, Good(s, L)
  PROVE  LET t == record_vote(s)
         IN  /\ Good(t, L) /\ t.current_round = s.current_round
             /\ t.vote_sent = s.safety.last_vote
<1> DEFINE t == record_vote(s)
<1>1. s \in State(L) /\ InStep(s)
  BY Zenon DEF Good
<1>2. s.safety.last_vote \in Block \cup {None}
  BY <1>1, Zenon DEF State, SafetyData
<1>3. /\ t \in State(L) /\ t.hqc = s.hqc /\ t.htc = s.htc /\ t.safety = s.safety
      /\ t.current_round = s.current_round /\ t.timeout_sent = s.timeout_sent
      /\ t.vote_sent = s.safety.last_vote
  BY <1>1, <1>2, Zenon DEF State, record_vote
<1> HIDE DEF t
<1>4. sync_info(t) = sync_info(s)
  BY <1>3, Zenon DEF sync_info
<1>5. Good(t, L)
  BY <1>1, <1>3, <1>4, Zenon DEF InStep, Good
<1> QED BY <1>3, <1>5, Zenon DEF t

LEMMA VoteMessage ==
  ASSUME NEW L, Limit(L), NEW s, Good(s, L), NEW n,
         s.vote_sent \in Block, round[s.vote_sent] = s.current_round,
         NEW m \in vote_msg(n, s)
  PROVE  Message(m, L)
<1>1. s \in State(L) /\ InStep(s)
  BY Zenon DEF Good
<1>2. m.type = "vote" /\ m.block = s.vote_sent /\ m.sync = sync_info(s)
  BY DEF vote_msg
<1>3. m.sync \in SyncInfo(L)
  BY <1>1, <1>2, OwnSyncInfo, Zenon
<1>4. message_round(m) = highest_round(m.sync) + 1
  BY <1>1, <1>2, Zenon DEF message_round, InStep
<1> QED BY <1>2, <1>3, <1>4, Zenon DEF Message

(* An order vote is for a block whose QC the validator holds or has        *)
(* surpassed.                                                              *)
LEMMA OrderVote ==
  ASSUME NEW L, Limit(L), NEW s, Good(s, L), NEW b \in Block, round[b] <= round[s.hqc]
  PROVE  LET t == order_vote(s, b)
         IN  Good(t, L) /\ t.current_round = s.current_round
<1> DEFINE t == order_vote(s, b)
<1>1. s \in State(L) /\ InStep(s)
  BY Zenon DEF Good
<1>2. CASE safe_for_order_vote(s.safety, b)
  <2> DEFINE sd == order_voted_data(s.safety, b)
  <2>1. t = [s EXCEPT !.safety = sd]
    BY <1>2, Zenon DEF order_vote
  <2>2. /\ parent[b] \in Block /\ round[b] \in Nat /\ round[parent[b]] \in Nat
        /\ s.hqc \in Block /\ round[s.hqc] \in Nat /\ s.safety \in SafetyData
    BY <1>1, BlockAssumption, Zenon DEF State
  <2>3. /\ s.safety.one_chain_round \in Nat /\ s.safety.preferred_round \in Nat
        /\ s.safety.one_chain_round <= round[s.hqc]
    BY <1>1, <2>2, Zenon DEF SafetyData, InStep
  <2>4. /\ Higher(round[b], s.safety.one_chain_round) \in Nat
        /\ Higher(round[b], s.safety.one_chain_round) <= round[s.hqc]
        /\ Higher(round[parent[b]], s.safety.preferred_round) \in Nat
    BY <2>2, <2>3, Zenon DEF Higher
  <2>5. /\ sd \in SafetyData
        /\ sd.last_voted_round = s.safety.last_voted_round
        /\ sd.one_chain_round <= round[s.hqc]
    BY <2>2, <2>4, Zenon DEF order_voted_data, observe_qc, SafetyData
  <2> HIDE DEF sd
  <2>6. /\ t \in State(L) /\ t.hqc = s.hqc /\ t.htc = s.htc /\ t.safety = sd
        /\ t.current_round = s.current_round /\ t.timeout_sent = s.timeout_sent
    BY <1>1, <2>1, <2>5, Zenon DEF State
  <2>7. sync_info(t) = sync_info(s)
    BY <2>6, Zenon DEF sync_info
  <2>8. InStep(t)
    BY <1>1, <2>5, <2>6, <2>7, Zenon DEF InStep
  <2> QED BY <2>6, <2>8, Zenon DEF Good
<1>3. CASE ~ safe_for_order_vote(s.safety, b)
  BY <1>3, Zenon DEF order_vote
<1> QED BY <1>2, <1>3, Zenon

-----------------------------------------------------------------------------
(* Restarts and proposals.                                                 *)

(* A restart begins the round the validator was in: it is the one after    *)
(* the highest certificate, and certificates are persisted.                *)
LEMMA JumpStart ==
  ASSUME NEW L, Limit(L), NEW s, Good(s, L)
  PROVE  Good(init(s), L) /\ init(s).current_round = s.current_round
<1> DEFINE t == init(s)
           vote == IF s.last_vote # None /\ round[s.last_vote] = highest_round(sync_info(s)) + 1
                   THEN s.last_vote ELSE None
<1>1. s \in State(L) /\ InStep(s)
  BY Zenon DEF Good
<1>2. t = [s EXCEPT !.current_round = highest_round(sync_info(s)) + 1,
                    !.pending_votes = NoTimeouts,
                    !.vote_sent = vote,
                    !.timeout_sent = None]
  BY Zenon DEF init, jump_start
<1>3. /\ highest_round(sync_info(s)) + 1 = s.current_round
      /\ s.current_round \in Nat
  BY <1>1, Zenon DEF InStep, State
<1>4. vote \in Block \cup {None}
  BY <1>1, Zenon DEF State
<1>5. NoTimeouts \in PendingTimeouts
  BY Zenon DEF NoTimeouts, PendingTimeouts
<1> HIDE DEF t, vote
<1>6. /\ t \in State(L) /\ t.hqc = s.hqc /\ t.htc = s.htc /\ t.safety = s.safety
      /\ t.current_round = s.current_round /\ t.timeout_sent = None
  BY <1>1, <1>2, <1>3, <1>4, <1>5, Zenon DEF State
<1>7. sync_info(t) = sync_info(s)
  BY <1>6, Zenon DEF sync_info
<1>8. Good(t, L)
  BY <1>1, <1>6, <1>7, Zenon DEF InStep, Good
<1> QED BY <1>6, <1>8, Zenon DEF t

LEMMA ProposalMessage ==
  ASSUME NEW L, Limit(L), NEW s, Good(s, L), NEW n, NEW m \in proposal(n, s)
  PROVE  Message(m, L)
<1>1. s \in State(L) /\ InStep(s)
  BY Zenon DEF Good
<1>2. PICK b \in Block : /\ round[b] = s.current_round /\ parent[b] = s.hqc
                         /\ m = [type |-> "proposal", block |-> b, sync |-> sync_info(s)]
  BY Zenon DEF proposal
<1>3. m.type = "proposal" /\ m.block = b /\ m.sync = sync_info(s)
  BY <1>2, Zenon
<1>4. m.sync \in SyncInfo(L) /\ parent[m.block] = m.sync.hqc
  BY <1>1, <1>2, <1>3, OwnSyncInfo, Zenon
<1>5. message_round(m) = highest_round(m.sync) + 1
  BY <1>1, <1>2, <1>3, Zenon DEF message_round, InStep
<1> QED BY <1>3, <1>4, <1>5, Zenon DEF Message
-----------------------------------------------------------------------------
(* One lemma for each way a handler ends, and one for each handler.        *)

NoRoundFalls ==
  \A n \in running : node'[n].current_round >= node[n].current_round

(* What the invariant says of the validator that takes a step.             *)
LEMMA Taker ==
  ASSUME ManagerInv, NEW n \in running
  PROVE  /\ n \in Validator /\ Limit(scenario.last_round)
         /\ Good(node[n], scenario.last_round)
         /\ node[n].current_round \in Nat
<1>1. scenario \in Scenario /\ node \in [Validator -> State(scenario.last_round)]
  BY Zenon DEF ManagerInv
<1>2. n \in Validator
  BY <1>1, ScenarioAssumption, Zenon DEF running
<1>3. Limit(scenario.last_round)
  BY <1>1, ScenarioAssumption, Zenon DEF Limit
<1>4. node[n] \in State(scenario.last_round) /\ InStep(node[n])
  BY <1>1, <1>2, Zenon DEF ManagerInv
<1> QED BY <1>2, <1>3, <1>4, Zenon DEF Good, State

LEMMA NodeKept ==
  ASSUME ManagerInv, NEW n \in running, NEW s, Good(s, scenario.last_round),
         s.current_round >= node[n].current_round,
         NEW sent, \A m \in sent : Message(m, scenario.last_round),
         node' = [node EXCEPT ![n] = s],
         network' = network \cup sent,
         scenario' = scenario, restarts' \in 0 .. scenario.restarts
  PROVE  ManagerInv' /\ NoRoundFalls
<1>1. n \in Validator /\ s \in State(scenario.last_round) /\ InStep(s)
  BY Taker, Zenon DEF Good
<1>2. /\ node \in [Validator -> State(scenario.last_round)]
      /\ \A k \in Validator : InStep(node[k])
      /\ \A m \in network : Message(m, scenario.last_round)
      /\ scenario \in Scenario
  BY Zenon DEF ManagerInv
<1>3. node' \in [Validator -> State(scenario.last_round)]
  BY <1>1, <1>2, Zenon
<1>4. \A k \in Validator : node'[k] = IF k = n THEN s ELSE node[k]
  BY <1>1, <1>2, Zenon
<1>5. \A k \in Validator : InStep(node'[k])
  BY <1>1, <1>2, <1>4, Zenon
<1>6. \A m \in network' : Message(m, scenario.last_round)
  BY <1>2, Zenon
<1>7. ManagerInv'
  <2>1. \A k \in Validator : InStep(node[k])'
    BY <1>5, Zenon DEF InStep, highest_round, sync_info
  <2>2. \A m \in network' : Message(m, scenario.last_round)'
    BY <1>6, Zenon
  <2> QED BY <1>2, <1>3, <2>1, <2>2, Zenon DEF ManagerInv
<1>8. ASSUME NEW k \in running PROVE node'[k].current_round >= node[k].current_round
  <2>1. k \in Validator /\ node[k].current_round \in Nat
    BY Taker, Zenon
  <2>2. node[k].current_round >= node[k].current_round
    BY <2>1
  <2> QED BY <1>4, <2>1, <2>2, Zenon
<1> QED BY <1>7, <1>8, Zenon DEF NoRoundFalls

LEMMA StepKept ==
  ASSUME ManagerInv, NEW n \in running, NEW s, Good(s, scenario.last_round),
         s.current_round >= node[n].current_round,
         NEW sent, \A m \in sent : Message(m, scenario.last_round),
         Step(n, s, sent)
  PROVE  ManagerInv' /\ NoRoundFalls
<1> DEFINE all == sent \cup new_round_event(n, node[n], s)
<1>1. \A m \in new_round_event(n, node[n], s) : m \in proposal(n, s)
  BY Zenon DEF new_round_event
<1>2. \A m \in all : Message(m, scenario.last_round)
  BY <1>1, Taker, ProposalMessage, Zenon
<1>3. /\ node' = [node EXCEPT ![n] = s] /\ network' = network \cup all
      /\ scenario' = scenario /\ restarts' \in 0 .. scenario.restarts
  BY Zenon DEF Step, ManagerInv
<1> HIDE DEF all
<1> QED BY <1>2, <1>3, NodeKept, Zenon

LEMMA RestartKept ==
  ASSUME ManagerInv, NEW n \in running, NEW s, Good(s, scenario.last_round),
         s.current_round >= node[n].current_round, Restart(n, s)
  PROVE  ManagerInv' /\ NoRoundFalls
<1>1. Good(init(s), scenario.last_round) /\ init(s).current_round = s.current_round
  BY Taker, JumpStart, Zenon
<1>2. \A m \in proposal(n, init(s)) : Message(m, scenario.last_round)
  BY <1>1, Taker, ProposalMessage, Zenon
<1>3. scenario.restarts \in Nat
  BY ScenarioAssumption, Zenon DEF ManagerInv
<1>4. restarts' \in 0 .. scenario.restarts
  BY <1>3 DEF Restart, ManagerInv
<1>5. /\ node' = [node EXCEPT ![n] = init(s)] /\ scenario' = scenario
      /\ network' = network \cup proposal(n, init(s))
  BY Zenon DEF Restart
<1> QED BY <1>1, <1>2, <1>4, <1>5, NodeKept, Zenon

(* What sync_up with the certificates of a message makes of the receiver.  *)
LEMMA Received ==
  ASSUME ManagerInv, NEW n \in running, NEW m \in network
  PROVE  LET s == sync_up(node[n], m.sync)
         IN  /\ m.sync \in SyncInfo(scenario.last_round)
             /\ Good(s, scenario.last_round)
             /\ s.current_round >= node[n].current_round
             /\ round[s.hqc] >= round[m.sync.hqc]
             /\ m.type = "proposal" => m.block \in Block /\ parent[m.block] = m.sync.hqc
             /\ m.type = "vote" => m.block \in Block
             /\ m.type = "timeout" => m.author \in Validator /\ m.hqc_round \in Nat
<1>1. Message(m, scenario.last_round)
  BY Zenon DEF ManagerInv
<1>2. m.sync \in SyncInfo(scenario.last_round)
  BY <1>1, Zenon DEF Message
<1>3. /\ m.type = "proposal" => m.block \in Block /\ parent[m.block] = m.sync.hqc
      /\ m.type = "vote" => m.block \in Block
      /\ m.type = "timeout" => m.author \in Validator /\ m.hqc_round \in Nat
  BY <1>1, Zenon DEF Message
<1> QED BY <1>2, <1>3, Taker, SyncUp, Zenon

LEMMA LocalTimeoutKept ==
  ASSUME ManagerInv, NEW n \in running, process_local_timeout(n)
  PROVE  ManagerInv' /\ NoRoundFalls
<1> DEFINE s == local_timeout(node[n], FALSE)
<1>1. Step(n, s, timeout_msg(n, s))
  BY Zenon DEF process_local_timeout
<1>2. Good(s, scenario.last_round) /\ s.current_round = node[n].current_round
  BY Taker, LocalTimeout, Zenon
<1> HIDE DEF s
<1>3. s.current_round >= node[n].current_round
  BY <1>2, Taker
<1>4. \A m \in timeout_msg(n, s) : Message(m, scenario.last_round)
  BY <1>2, Taker, TimeoutMessage, Zenon
<1> QED BY <1>1, <1>2, <1>3, <1>4, StepKept, Zenon

LEMMA NewTCKept ==
  ASSUME ManagerInv, NEW n \in running, NEW s, Good(s, scenario.last_round),
         s.current_round >= node[n].current_round,
         s.current_round < scenario.last_round,
         s.pending_votes.timeout_votes \in TimeoutVotes,
         NewTC(n, s)
  PROVE  ManagerInv' /\ NoRoundFalls
<1> DEFINE t == with_certs(s, s.hqc, new_2chain_tc(s))
<1>1. Step(n, t, {})
  BY Zenon DEF NewTC
<1>2. new_2chain_tc(s) \in Certs(scenario.last_round)
  BY Taker, FormTC, Zenon
<1>3. s.hqc \in Block /\ s.current_round \in Nat
  BY Zenon DEF Good, State
<1>4. Good(t, scenario.last_round) /\ t.current_round >= s.current_round
  BY <1>2, <1>3, Taker, WithCerts, Zenon
<1> HIDE DEF t
<1>5. t.current_round \in Nat
  BY <1>4, Zenon DEF Good, State
<1>6. t.current_round >= node[n].current_round
  BY <1>3, <1>4, <1>5, Taker
<1> QED BY <1>1, <1>4, <1>6, StepKept

LEMMA EchoTimeoutKept ==
  ASSUME ManagerInv, NEW n \in running, NEW s, Good(s, scenario.last_round),
         s.current_round >= node[n].current_round,
         NEW sync_only, EchoTimeout(n, s, sync_only)
  PROVE  ManagerInv' /\ NoRoundFalls
<1> DEFINE pv == Pending!echo_if_minority(s.pending_votes)
           echo == [s EXCEPT !.pending_votes = pv]
           t == local_timeout(echo, sync_only)
<1>1. \/ Step(n, t, timeout_msg(n, t))
      \/ Step(n, echo, {})
  BY Zenon DEF EchoTimeout
<1>2. s.pending_votes \in PendingTimeouts
  BY Zenon DEF Good, State
<1>3. pv \in PendingTimeouts
  BY <1>2, EchoPending, Zenon
<1> HIDE DEF pv
<1>4. Good(echo, scenario.last_round) /\ echo.current_round = s.current_round
  BY <1>3, WithPending, Zenon
<1> HIDE DEF echo
<1>5. Good(t, scenario.last_round) /\ t.current_round = s.current_round
  BY <1>4, Taker, LocalTimeout
<1> HIDE DEF t
<1>6. \A m \in timeout_msg(n, t) : Message(m, scenario.last_round)
  BY <1>5, Taker, TimeoutMessage, Zenon
<1>7. CASE Step(n, t, timeout_msg(n, t))
  BY <1>5, <1>6, <1>7, StepKept, Zenon
<1>8. CASE Step(n, echo, {})
  BY <1>4, <1>8, StepKept
<1> QED BY <1>1, <1>7, <1>8, Zenon
LEMMA RoundTimeoutKept ==
  ASSUME ManagerInv, NEW n \in running, NEW m \in network, NEW sync_only,
         process_round_timeout_msg(n, m, sync_only)
  PROVE  ManagerInv' /\ NoRoundFalls
<1> DEFINE s == sync_up(node[n], m.sync)
           t == insert_round_timeout(s, m.author, m.hqc_round)
<1>1. /\ Good(s, scenario.last_round)
      /\ s.current_round >= node[n].current_round
  BY Received, Zenon
<1>2. m.author \in Validator /\ m.hqc_round \in Nat
  BY Received, Zenon DEF process_round_timeout_msg
<1>3. \/ /\ m.round = s.current_round /\ m.round < scenario.last_round
         /\ NewTC(n, t) \/ EchoTimeout(n, t, sync_only)
      \/ Step(n, s, {})
  BY Zenon DEF process_round_timeout_msg
<1> HIDE DEF s
<1>4. /\ Good(t, scenario.last_round) /\ t.current_round = s.current_round
      /\ t.pending_votes.timeout_votes \in TimeoutVotes
  BY <1>1, <1>2, CountTimeout, Zenon
<1> HIDE DEF t
<1>5. CASE Step(n, s, {})
  BY <1>1, <1>5, StepKept
<1>6. CASE m.round = s.current_round /\ m.round < scenario.last_round /\ NewTC(n, t)
  BY <1>1, <1>4, <1>6, NewTCKept, Zenon
<1>7. CASE EchoTimeout(n, t, sync_only)
  BY <1>1, <1>4, <1>7, EchoTimeoutKept, Zenon
<1> QED BY <1>3, <1>5, <1>6, <1>7, Zenon

(* The state in which a validator votes for the block of a proposal.       *)
LEMMA Voting ==
  ASSUME ManagerInv, NEW n \in running, NEW m \in network, m.type = "proposal",
         round[m.block] = sync_up(node[n], m.sync).current_round
  PROVE  LET s == sync_up(node[n], m.sync)
             t == vote_block(s, m.block)
         IN  /\ Good(t, scenario.last_round)
             /\ t.current_round = s.current_round
             /\ t.current_round >= node[n].current_round
             /\ t.safety.last_vote \in Block
             /\ round[t.safety.last_vote] = t.current_round
<1> DEFINE s == sync_up(node[n], m.sync)
<1>1. /\ Good(s, scenario.last_round)
      /\ s.current_round >= node[n].current_round
      /\ round[s.hqc] >= round[m.sync.hqc]
      /\ m.block \in Block /\ parent[m.block] = m.sync.hqc
      /\ m.sync \in SyncInfo(scenario.last_round)
  BY Received, Zenon
<1>2. round[m.block] = s.current_round
  OBVIOUS
<1> HIDE DEF s
<1>3. /\ s.hqc \in Block /\ m.sync.hqc \in Block
  BY <1>1, Zenon DEF Good, State, SyncInfo
<1>4. round[parent[m.block]] <= round[s.hqc]
  BY <1>1, <1>3, BlockAssumption, Zenon
<1>5. /\ Good(vote_block(s, m.block), scenario.last_round)
      /\ vote_block(s, m.block).current_round = s.current_round
      /\ vote_block(s, m.block).safety.last_vote \in Block
      /\ round[vote_block(s, m.block).safety.last_vote] = s.current_round
  BY <1>1, <1>2, <1>4, Taker, VoteBlock, Zenon
<1> QED BY <1>1, <1>5, Zenon DEF s

LEMMA ProposalKept ==
  ASSUME ManagerInv, NEW n \in running, NEW m \in network, process_proposal_msg(n, m)
  PROVE  ManagerInv' /\ NoRoundFalls
<1> DEFINE s == sync_up(node[n], m.sync)
           v == vote_block(s, m.block)
           t == record_vote(v)
<1>1. /\ m.type = "proposal"
      /\ \/ Step(n, s, {})
         \/ round[m.block] = s.current_round /\ Step(n, t, vote_msg(n, t))
  BY Zenon DEF process_proposal_msg
<1>2. CASE Step(n, s, {})
  <2>1. Good(s, scenario.last_round) /\ s.current_round >= node[n].current_round
    BY Received, Zenon
  <2> HIDE DEF s
  <2> QED BY <1>2, <2>1, StepKept
<1>3. CASE round[m.block] = s.current_round /\ Step(n, t, vote_msg(n, t))
  <2>1. /\ Good(v, scenario.last_round)
        /\ v.current_round >= node[n].current_round
        /\ v.safety.last_vote \in Block
        /\ round[v.safety.last_vote] = v.current_round
    BY <1>1, <1>3, Voting, Zenon
  <2> HIDE DEF v
  <2>2. /\ Good(t, scenario.last_round) /\ t.current_round = v.current_round
        /\ t.vote_sent = v.safety.last_vote
    BY <2>1, RecordVote, Zenon
  <2>3. Step(n, t, vote_msg(n, t))
    BY <1>3, Zenon DEF v
  <2> HIDE DEF t
  <2>4. \A x \in vote_msg(n, t) : Message(x, scenario.last_round)
    BY <2>1, <2>2, Taker, VoteMessage, Zenon
  <2> QED BY <2>1, <2>2, <2>3, <2>4, StepKept, Zenon
<1> QED BY <1>1, <1>2, <1>3, Zenon

LEMMA VoteKept ==
  ASSUME ManagerInv, NEW n \in running, NEW m \in network, process_vote_msg(n, m)
  PROVE  ManagerInv' /\ NoRoundFalls
<1> DEFINE s == sync_up(node[n], m.sync)
           t == with_certs(s, m.block, s.htc)
           o == order_vote(t, m.block)
<1>1. /\ m.type = "vote"
      /\ Step(n, s, {}) \/ Step(n, o, {})
  BY Zenon DEF process_vote_msg
<1>2. /\ Good(s, scenario.last_round) /\ s.current_round >= node[n].current_round
      /\ m.block \in Block
  BY <1>1, Received, Zenon
<1> HIDE DEF s
<1>3. s.htc \in Certs(scenario.last_round) /\ s.current_round \in Nat /\ s.hqc \in Block
  BY <1>2, Zenon DEF Good, State
<1>4. /\ Good(t, scenario.last_round) /\ t.current_round >= s.current_round
      /\ round[t.hqc] >= round[m.block]
  BY <1>2, <1>3, Taker, WithCerts, Zenon
<1> HIDE DEF t
<1>5. t.current_round \in Nat /\ t.hqc \in Block
  BY <1>4, Zenon DEF Good, State
<1>6. round[m.block] <= round[t.hqc]
  BY <1>2, <1>4, <1>5, BlockAssumption, Zenon
<1>7. Good(o, scenario.last_round) /\ o.current_round = t.current_round
  BY <1>2, <1>4, <1>6, Taker, OrderVote, Zenon
<1> HIDE DEF o
<1>8. o.current_round >= node[n].current_round
  BY <1>2, <1>3, <1>4, <1>5, <1>7, Taker
<1>9. CASE Step(n, s, {})
  BY <1>2, <1>9, StepKept
<1>10. CASE Step(n, o, {})
  BY <1>7, <1>8, <1>10, StepKept
<1> QED BY <1>1, <1>9, <1>10, Zenon

LEMMA SyncInfoKept ==
  ASSUME ManagerInv, NEW n \in running, NEW a \in running, process_sync_info_msg(n, a)
  PROVE  ManagerInv' /\ NoRoundFalls
<1> DEFINE si == sync_info(node[a])
           s == sync_up(node[n], si)
<1>1. Step(n, s, {})
  BY Zenon DEF process_sync_info_msg
<1>2. si \in SyncInfo(scenario.last_round)
  BY Taker, OwnSyncInfo, Zenon DEF Good
<1> HIDE DEF si
<1>3. Good(s, scenario.last_round) /\ s.current_round >= node[n].current_round
  BY <1>2, Taker, SyncUp, Zenon
<1> HIDE DEF s
<1> QED BY <1>1, <1>3, StepKept

LEMMA AddCertsFailsKept ==
  ASSUME ManagerInv, NEW n \in running, NEW m \in network, add_certs_fails(n, m)
  PROVE  ManagerInv' /\ NoRoundFalls
<1> DEFINE s == with_certs(node[n], m.sync.hqc, node[n].htc)
<1>1. Step(n, s, {})
  BY Zenon DEF add_certs_fails
<1>2. m.sync.hqc \in Block /\ node[n].htc \in Certs(scenario.last_round)
  BY Received, Taker, Zenon DEF SyncInfo, Good, State
<1>3. Good(s, scenario.last_round) /\ s.current_round >= node[n].current_round
  BY <1>2, Taker, WithCerts, Zenon
<1> HIDE DEF s
<1> QED BY <1>1, <1>3, StepKept

LEMMA RestartsKept ==
  ASSUME ManagerInv, NEW n \in running, restart(n)
  PROVE  ManagerInv' /\ NoRoundFalls
<1>1. node[n].current_round >= node[n].current_round
  BY Taker
<1> QED BY <1>1, Taker, RestartKept, Zenon DEF restart

LEMMA StopWhileVotingKept ==
  ASSUME ManagerInv, NEW n \in running, NEW m \in network, stop_while_voting(n, m)
  PROVE  ManagerInv' /\ NoRoundFalls
<1> DEFINE v == vote_block(sync_up(node[n], m.sync), m.block)
<1>1. /\ m.type = "proposal"
      /\ round[m.block] = sync_up(node[n], m.sync).current_round
      /\ Restart(n, v)
  BY Zenon DEF stop_while_voting
<1>2. Good(v, scenario.last_round) /\ v.current_round >= node[n].current_round
  BY <1>1, Voting, Zenon
<1> HIDE DEF v
<1> QED BY <1>1, <1>2, RestartKept, Zenon
-----------------------------------------------------------------------------
(* The states the scenarios start in.                                      *)

LEMMA StartGood ==
  ASSUME NEW L, Limit(L)
  PROVE  Good(Start, L) /\ Start.current_round = 1 /\ Start.hqc = Genesis
<1>1. L \in Nat \ {0} /\ Genesis \in Block /\ round[Genesis] = 0
  BY BlockAssumption, WellFormedAssumption, Zenon DEF Limit
<1>2. NoCert \in Certs(L) /\ NoCert.round = 0
  <2>1. 0 \in 0 .. L - 1
    BY <1>1
  <2> QED BY <2>1, Zenon DEF NoCert, Certs
<1>3. /\ new_safety_data(1) \in SafetyData
      /\ new_safety_data(1).one_chain_round = 0
      /\ new_safety_data(1).last_voted_round = 0
  BY Zenon DEF new_safety_data, SafetyData
<1>4. NoTimeouts \in PendingTimeouts
  BY Zenon DEF NoTimeouts, PendingTimeouts
<1>5. /\ Start.hqc = Genesis /\ Start.htc = NoCert /\ Start.safety = new_safety_data(1)
      /\ Start.current_round = 1 /\ Start.timeout_sent = None
  BY Zenon DEF Start
<1>6. Start \in State(L)
  BY <1>1, <1>2, <1>3, <1>4, Zenon DEF Start, State
<1>7. highest_round(sync_info(Start)) = 0
  BY <1>1, <1>2, <1>5, <1>6, OwnSyncInfo, Zenon DEF Higher
<1>8. InStep(Start)
  BY <1>1, <1>3, <1>5, <1>7 DEF InStep
<1> QED BY <1>5, <1>6, <1>8, Zenon DEF Good

LEMMA TimedOutGood ==
  ASSUME NEW L, Limit(L), \E b \in Block : round[b] = 1 /\ parent[b] = Genesis
  PROVE  /\ Good(TimedOut, L) /\ TimedOut.vote_sent \in Block
         /\ round[TimedOut.vote_sent] = TimedOut.current_round
<1> DEFINE v == vote_block(Start, FirstBlock)
           s == record_vote(v)
<1>1. FirstBlock \in Block /\ round[FirstBlock] = 1 /\ parent[FirstBlock] = Genesis
  BY Zenon DEF FirstBlock
<1>2. Good(Start, L) /\ Start.current_round = 1 /\ Start.hqc = Genesis
  BY StartGood, Zenon
<1>3. round[parent[FirstBlock]] <= round[Start.hqc]
  BY <1>1, <1>2, BlockAssumption
<1>4. /\ Good(v, L) /\ v.current_round = 1
      /\ v.safety.last_vote \in Block /\ round[v.safety.last_vote] = 1
  BY <1>1, <1>2, <1>3, VoteBlock
<1>5. TimedOut = local_timeout(s, FALSE)
  BY Zenon DEF TimedOut
<1> HIDE DEF v
<1>6. Good(s, L) /\ s.current_round = 1 /\ s.vote_sent = v.safety.last_vote
  BY <1>4, RecordVote, Zenon
<1> HIDE DEF s
<1>7. Good(TimedOut, L) /\ TimedOut.current_round = 1 /\ TimedOut.vote_sent = s.vote_sent
  BY <1>5, <1>6, LocalTimeout, Zenon
<1> QED BY <1>4, <1>6, <1>7, Zenon

LEMMA InitKept == Init => ManagerInv
<1> SUFFICES ASSUME Init PROVE ManagerInv
  OBVIOUS
<1> DEFINE L == scenario.last_round
<1>1. /\ scenario \in Scenario /\ scenario.restarts \in Nat
      /\ restarts = scenario.restarts /\ Limit(L)
      /\ running \subseteq Validator
      /\ scenario.timed_out \subseteq running /\ scenario.ahead \subseteq scenario.timed_out
      /\ scenario.timed_out # {} => \E b \in Block : round[b] = 1 /\ parent[b] = Genesis
  BY ScenarioAssumption, Zenon DEF Init, Limit, running
<1> HIDE DEF L
<1>2. /\ Good(Start, L)
      /\ scenario.timed_out # {} => /\ Good(TimedOut, L)
                                    /\ TimedOut.vote_sent \in Block
                                    /\ round[TimedOut.vote_sent] = TimedOut.current_round
  BY <1>1, StartGood, TimedOutGood, Zenon
<1>3. \A n \in Validator : Good(node[n], L)
  <2> SUFFICES ASSUME NEW n \in Validator PROVE Good(node[n], L)
    OBVIOUS
  <2>1. CASE n \in scenario.ahead
    <3>1. Good(TimedOut, L) /\ \E b \in Block : round[b] = 1
      BY <1>1, <1>2, <2>1, Zenon
    <3>2. FirstTC \in Certs(L)
      <4>1. 1 \in 0 .. L - 1
        BY <1>1, <3>1 DEF Limit
      <4> QED BY <4>1 DEF FirstTC, Certs
    <3>3. Genesis \in Block
      BY BlockAssumption, Zenon
    <3>4. Good(Ahead, L)
      BY <1>1, <3>1, <3>2, <3>3, WithCerts, Zenon DEF Ahead
    <3> QED BY <2>1, <3>4, Zenon DEF Init
  <2>2. CASE n \in scenario.timed_out \ scenario.ahead
    BY <1>2, <2>2, Zenon DEF Init
  <2>3. CASE n \notin scenario.timed_out
    BY <1>1, <1>2, <2>3, Zenon DEF Init
  <2> QED BY <2>1, <2>2, <2>3, Zenon
<1>4. node \in [Validator -> State(L)] /\ \A n \in Validator : InStep(node[n])
  BY <1>3, Zenon DEF Init, Good
<1>5. ASSUME NEW m \in network PROVE Message(m, L)
  <2>1. PICK n \in running :
           \/ m \in proposal(n, Start)
           \/ scenario.timed_out # {} /\ m \in vote_msg(n, TimedOut)
           \/ scenario.timed_out # {} /\ m \in timeout_msg(n, TimedOut)
    <3> DEFINE proposals == UNION {proposal(n, Start) : n \in running}
               others == UNION {vote_msg(n, TimedOut) \cup timeout_msg(n, TimedOut) :
                                  n \in scenario.timed_out}
    <3>1. network = proposals \cup others
      BY Zenon DEF Init
    <3>2. CASE m \in proposals
      BY <3>2, Zenon
    <3>3. CASE m \in others
      BY <1>1, <3>3, Zenon
    <3>4. m \in proposals \/ m \in others
      <4> HIDE DEF proposals, others
      <4> QED BY <1>5, <3>1, Zenon
    <3> QED BY <3>2, <3>3, <3>4, Zenon
  <2>2. n \in Validator
    BY <1>1, Zenon
  <2>3. CASE m \in proposal(n, Start)
    BY <1>1, <1>2, <2>3, ProposalMessage, Zenon
  <2>4. CASE scenario.timed_out # {} /\ m \in vote_msg(n, TimedOut)
    BY <1>1, <1>2, <2>4, VoteMessage, Zenon
  <2>5. CASE scenario.timed_out # {} /\ m \in timeout_msg(n, TimedOut)
    BY <1>1, <1>2, <2>2, <2>5, TimeoutMessage, Zenon
  <2> QED BY <2>1, <2>3, <2>4, <2>5, Zenon
<1>6. restarts \in 0 .. scenario.restarts
  BY <1>1
<1> QED BY <1>1, <1>4, <1>5, <1>6, Zenon DEF ManagerInv, L

LEMMA NextKept == ManagerInv /\ Next => ManagerInv' /\ NoRoundFalls
<1> SUFFICES ASSUME ManagerInv, Next PROVE ManagerInv' /\ NoRoundFalls
  OBVIOUS
<1>1. PICK n \in running :
        \/ process_local_timeout(n)
        \/ \E m \in network : process_round_timeout_msg(n, m, FALSE)
        \/ \E m \in network : process_round_timeout_msg(n, m, TRUE)
        \/ \E m \in network : process_proposal_msg(n, m)
        \/ \E m \in network : process_vote_msg(n, m)
        \/ \E a \in running : process_sync_info_msg(n, a)
        \/ \E m \in network : add_certs_fails(n, m)
        \/ restart(n)
        \/ \E m \in network : stop_while_voting(n, m)
  BY Zenon DEF Next
<1>2. CASE process_local_timeout(n)
  BY <1>2, LocalTimeoutKept, Zenon
<1>3. CASE \E m \in network : process_round_timeout_msg(n, m, FALSE)
  BY <1>3, RoundTimeoutKept, Zenon
<1>4. CASE \E m \in network : process_round_timeout_msg(n, m, TRUE)
  BY <1>4, RoundTimeoutKept, Zenon
<1>5. CASE \E m \in network : process_proposal_msg(n, m)
  BY <1>5, ProposalKept, Zenon
<1>6. CASE \E m \in network : process_vote_msg(n, m)
  BY <1>6, VoteKept, Zenon
<1>7. CASE \E a \in running : process_sync_info_msg(n, a)
  BY <1>7, SyncInfoKept, Zenon
<1>8. CASE \E m \in network : add_certs_fails(n, m)
  BY <1>8, AddCertsFailsKept, Zenon
<1>9. CASE restart(n)
  BY <1>9, RestartsKept, Zenon
<1>10. CASE \E m \in network : stop_while_voting(n, m)
  BY <1>10, StopWhileVotingKept, Zenon
<1> QED BY <1>1, <1>2, <1>3, <1>4, <1>5, <1>6, <1>7, <1>8, <1>9, <1>10, Zenon

-----------------------------------------------------------------------------
(* Round, certificates, SafetyRules and messages stay in step through      *)
(* every handler, failing add_certs and restart of the RoundManagers.      *)
THEOREM ManagerInvariant == Spec => []ManagerInv
<1>1. ManagerInv /\ [Next]_vars => ManagerInv'
  <2> SUFFICES ASSUME ManagerInv, [Next]_vars PROVE ManagerInv'
    OBVIOUS
  <2>1. CASE Next
    BY <2>1, NextKept, Zenon
  <2>2. CASE UNCHANGED vars
    BY <2>2, Zenon DEF vars, ManagerInv, InStep, Message, State, SyncInfo, Certs,
                highest_round, sync_info, message_round
  <2> QED BY <2>1, <2>2, Zenon
<1> QED BY <1>1, InitKept, PTL DEF Spec

(* The validators' states have their types, and the current round is the   *)
(* one after the highest certificate held.  (process_certificates)         *)
THEOREM TypesKept == Spec => []TypeOK
<1>1. ManagerInv => TypeOK
  <2> SUFFICES ASSUME ManagerInv PROVE TypeOK
    OBVIOUS
  <2>1. scenario \in Scenario /\ restarts \in 0 .. scenario.restarts
    BY Zenon DEF ManagerInv
  <2>2. ASSUME NEW n \in Validator
        PROVE  LET s == node[n]
               IN  /\ s.hqc \in Block
                   /\ s.htc \in Certificate
                   /\ s.safety \in SafetyData
                   /\ s.current_round \in 1 .. scenario.last_round
                   /\ s.current_round = highest_round(sync_info(s)) + 1
                   /\ s.vote_sent \in Block \cup {None}
                   /\ s.timeout_sent \in 0 .. s.current_round - 1 \cup {None}
    <3> DEFINE s == node[n]
               L == scenario.last_round
    <3>1. s \in State(L) /\ InStep(s) /\ Limit(L)
      BY <2>1, ScenarioAssumption, Zenon DEF ManagerInv, Limit
    <3> HIDE DEF s, L
    <3>2. /\ s.hqc \in Block /\ s.htc \in Certs(L) /\ s.safety \in SafetyData
          /\ s.vote_sent \in Block \cup {None} /\ s.current_round \in Nat
          /\ s.timeout_sent \in Nat \cup {None}
      BY <3>1, Zenon DEF State
    <3>3. s.htc \in Certificate
      <4>1. 0 .. L - 1 \subseteq Nat
        BY <3>1 DEF Limit
      <4> QED BY <3>2, <4>1, Zenon DEF Certs, Certificate
    <3>4. /\ highest_round(sync_info(s)) \in Nat /\ highest_round(sync_info(s)) < L
          /\ L \in Nat
      BY <3>1, OwnSyncInfo, Zenon DEF Limit
    <3>5. s.current_round = highest_round(sync_info(s)) + 1
      BY <3>1, Zenon DEF InStep
    <3>6. s.current_round \in 1 .. L
      BY <3>4, <3>5
    <3>7. s.timeout_sent \in 0 .. s.current_round - 1 \cup {None}
      BY <3>1, <3>2 DEF InStep
    <3> QED BY <3>2, <3>3, <3>5, <3>6, <3>7, Zenon DEF s, L
  <2> QED BY <2>1, <2>2, Zenon DEF TypeOK
<1> QED BY <1>1, ManagerInvariant, PTL

(* A validator can always time out of the round it is in.  SafetyRules     *)
(* asks that the QC in the timeout is as high as any it has seen and that  *)
(* it has signed in no later round; whatever it saw or signed came after   *)
(* the certificates were inserted.  (process_local_timeout)                *)
THEOREM TimeoutNeverRefused == Spec => []CanTimeOut
<1>1. ManagerInv => CanTimeOut
  BY Taker, MaySignTimeout, Zenon DEF CanTimeOut
<1> QED BY <1>1, ManagerInvariant, PTL

(* The round never falls, not even over a restart.  (process_certificates, *)
(* RoundManager::init)                                                     *)
THEOREM RoundsGrow == Spec => RoundsNeverFall
<1>1. ManagerInv /\ [Next]_vars =>
        [\A n \in running : node'[n].current_round >= node[n].current_round]_vars
  BY NextKept, Zenon DEF NoRoundFalls
<1> QED BY <1>1, ManagerInvariant, PTL DEF Spec, RoundsNeverFall

(* Whoever syncs up to a message that is not stale is then in the round of *)
(* the message, so that ensure_round_and_sync_up does not fail with "After *)
(* sync, round {} doesn't match local {}" between validators that follow   *)
(* the protocol.                                                           *)
MessagesInStep ==
  \A n \in running, m \in network :
    NotStale(n, message_round(m), m.sync)
      => sync_up(node[n], m.sync).current_round = message_round(m)

THEOREM SyncedToMessage == Spec => []MessagesInStep
<1>1. ManagerInv => MessagesInStep
  <2> SUFFICES ASSUME ManagerInv, NEW n \in running, NEW m \in network,
                      message_round(m) >= node[n].current_round
               PROVE  sync_up(node[n], m.sync).current_round = message_round(m)
    BY Zenon DEF MessagesInStep, NotStale
  <2>1. /\ m.sync \in SyncInfo(scenario.last_round)
        /\ message_round(m) = highest_round(m.sync) + 1
    BY Zenon DEF ManagerInv, Message
  <2>2. sync_up(node[n], m.sync).current_round
          = Higher(node[n].current_round, message_round(m))
    BY <2>1, Taker, SyncUp
  <2>3. message_round(m) \in Nat
    BY <2>1, Taker, HighestRound
  <2> QED BY <2>2, <2>3, Taker DEF Higher
<1> QED BY <1>1, ManagerInvariant, PTL
=============================================================================
