------------------------- MODULE BufferManagerSteps -------------------------
(***************************************************************************)
(* The inductive invariant of the decoupled execution pipeline, and the    *)
(* steps that pop nothing off the buffer: the phases, the resets, the      *)
(* intake, and the answers that are ignored or change an item in its       *)
(* place.  BufferManagerProofs has the other steps and the theorems.       *)
(*                                                                         *)
(* PipelineInv is inductive.  The order of the chain through the queues    *)
(* makes the answers come in turn; so executed items are a prefix of the   *)
(* buffer, and what advance_head pops was executed.  Certificates follows  *)
(* each vote and proof to the block it decides.  The parts under Fresh     *)
(* hold until an answer of an earlier tree is taken for one of the present *)
(* tree, which buffer_manager.rs cannot tell apart, or the state sync      *)
(* after a reset fails; the others hold always.                            *)
(***************************************************************************)
EXTENDS BufferManager, TLAPS

(* The entries of the queues that belong to the present tree.              *)
Ours(e) == e.gen = gen

(* One queue, and one queue before another, in the order of the chain.     *)
Increasing(s) ==
  \A i, j \in DOMAIN s : i < j /\ Ours(s[i]) /\ Ours(s[j]) => s[i].last < s[j].first

Before(s, t) ==
  \A i \in DOMAIN s, j \in DOMAIN t : Ours(s[i]) /\ Ours(t[j]) => s[i].last < t[j].first

(* What the queues hold.                                                   *)
Entries == [first : Round, last : Round, gen : Nat]
Answers == [first : Round, last : Round, gen : Nat, ok : BOOLEAN]
Blocks == [round : Round, gen : Nat]
Requests == [blocks : SUBSET Blocks, target : Round, executed : BOOLEAN]
Votes == [Validator -> Kind \cup {"none"}]

(* The type of every variable.                                             *)
Types ==
  /\ buffer \in Seq(Item)
  /\ execution_root \in Round \cup {None} /\ signing_root \in Round \cup {None}
  /\ block_rx \in Seq(Entries) /\ schedule_rx \in Seq(Entries) /\ wait_tx \in Seq(Entries)
  /\ wait_rx \in Seq(Answers)
  /\ signing_tx \in Seq(Round) /\ signing_rx \in Seq([round : Round, ok : BOOLEAN])
  /\ persisting_tx \in Seq(Requests) /\ persisting_rx \in Seq(Blocks)
  /\ pending_commit_votes \in [Round -> Votes]
  /\ pending_commit_proofs \subseteq Round /\ pending_commit_blocks \subseteq Blocks
  /\ highest_committed_round \in 0..MaxRound /\ latest_round \in 0..MaxRound
  /\ mode \in {"run", "commits", "tasks", "stopped"} /\ reset_signal \in -1..MaxRound
  /\ gen \in Nat /\ next_round \in 1..(MaxRound + 1)
  /\ committed \in 0..MaxRound /\ finished \in 0..MaxRound /\ failed \in 1..(MaxRound + 1)
  /\ aborted \in 1..(MaxRound + 1) /\ latest_logical_time \in 0..MaxRound
  /\ scenario \in Scenario
  /\ own_votes \subseteq Round /\ acked \subseteq Validator \X Round /\ certified \subseteq Round
  /\ faults \in Nat /\ stale \in BOOLEAN

(* The blocks of one tree come in the order of the chain: handed to the    *)
(* persisting phase, in the buffer, on the way to it, still to be ordered. *)
Chain ==
  /\ \A i \in DOMAIN buffer : buffer[i].first <= buffer[i].last /\ buffer[i].last < next_round
  /\ \A i, j \in DOMAIN buffer : i < j => buffer[i].last < buffer[j].first
  /\ \A i \in DOMAIN block_rx : Ours(block_rx[i]) /\ block_rx[i].first <= block_rx[i].last
  /\ \A i \in DOMAIN buffer, j \in DOMAIN block_rx : buffer[i].last < block_rx[j].first
  /\ \A k \in DOMAIN persisting_tx :
       /\ persisting_tx[k].target < next_round
       /\ \A i \in DOMAIN buffer : persisting_tx[k].target < buffer[i].first
       /\ \A i \in DOMAIN block_rx : persisting_tx[k].target < block_rx[i].first
  /\ mode = "tasks" => /\ buffer = <<>> /\ execution_root = None /\ signing_root = None
                       /\ reset_signal > 0 => block_rx = <<>>

(* The queues to and from the execution keep the order of the chain.       *)
InLine ==
  /\ Increasing(block_rx) /\ Increasing(schedule_rx) /\ Increasing(wait_tx)
  /\ Increasing(wait_rx)
  /\ Before(wait_rx, wait_tx) /\ Before(wait_rx, schedule_rx) /\ Before(wait_rx, block_rx)
  /\ Before(wait_tx, schedule_rx) /\ Before(wait_tx, block_rx)
  /\ Before(schedule_rx, block_rx)

(* What is queued belongs to this tree or an earlier one, and an entry with *)
(* the last block of an item is about the blocks of that item.             *)
Queued(e) ==
  /\ e.gen <= gen /\ e.first <= e.last
  /\ Ours(e) => e.last < next_round
  /\ \A i \in DOMAIN buffer : Ours(e) /\ buffer[i].last = e.last => buffer[i].first = e.first

Spans ==
  /\ \A i \in DOMAIN block_rx : Queued(block_rx[i])
  /\ \A i \in DOMAIN schedule_rx : Queued(schedule_rx[i])
  /\ \A i \in DOMAIN wait_tx : Queued(wait_tx[i])
  /\ \A i \in DOMAIN wait_rx : Queued(wait_rx[i])

(* An ordered item waits for an answer, unless its execution failed.       *)
Waiting(item) ==
  \/ \E i \in DOMAIN schedule_rx : Ours(schedule_rx[i]) /\ schedule_rx[i].last = item.last
  \/ \E i \in DOMAIN wait_tx : Ours(wait_tx[i]) /\ wait_tx[i].last = item.last
  \/ \E i \in DOMAIN wait_rx : Ours(wait_rx[i]) /\ wait_rx[i].last = item.last
  \/ item.last >= failed

(* An ordered item of this tree is executed, queued for it, or has failed. *)
Awaited ==
  \A i \in DOMAIN buffer :
    buffer[i].stage = "ordered" => buffer[i].gen = gen /\ Waiting(buffer[i])

(* An answer about an item says whether that execution failed.             *)
Truthful ==
  \A i \in DOMAIN wait_rx : \A j \in DOMAIN buffer :
    Ours(wait_rx[i]) /\ wait_rx[i].last = buffer[j].last =>
      IF wait_rx[i].ok THEN wait_rx[i].last < failed ELSE wait_rx[i].last >= failed

Queues == InLine /\ Spans /\ Awaited /\ Truthful

(* A root is the first item of a stage.                                    *)
FirstOf(buf, root, stage) ==
  \/ root = None /\ \A i \in DOMAIN buf : buf[i].stage # stage
  \/ \E i \in DOMAIN buf : /\ buf[i].last = root /\ buf[i].stage = stage
                           /\ \A j \in DOMAIN buf : j < i => buf[j].stage # stage

(* The signing of an item is requested, or its answer has not been taken.  *)
SigningAsked(root) ==
  \/ \E i \in DOMAIN signing_tx : signing_tx[i] = root
  \/ \E i \in DOMAIN signing_rx : signing_rx[i].round = root

Roots ==
  mode = "run" => /\ FirstOf(buffer, execution_root, "ordered")
                  /\ ~ stale => /\ FirstOf(buffer, signing_root, "executed")
                                /\ signing_root # None => SigningAsked(signing_root)

(* Whose votes for a block were acknowledged, and what makes it decided.   *)
Certifiers(r) == {a \in Validator : <<a, r>> \in acked}
Decided(r) == r \in certified \/ Certifiers(r) \in Quorum

(* Votes count where they were acknowledged, and proofs come from outside. *)
Certificates ==
  /\ \A r \in Round : \A a \in Validator :
       pending_commit_votes[r][a] = "good" => <<a, r>> \in acked
  /\ \A i \in DOMAIN buffer :
       /\ \A a \in Validator : buffer[i].votes[a] = "good" => <<a, buffer[i].last>> \in acked
       /\ pending_commit_votes[buffer[i].last] = NoVotes
       /\ buffer[i].proof => buffer[i].last \in certified
  /\ pending_commit_proofs \subseteq certified
  /\ \A k \in DOMAIN persisting_tx : Decided(persisting_tx[k].target)
  /\ reset_signal > 0 => reset_signal \in certified

(* As long as no answer of an earlier tree was taken for one of this tree. *)
Executed(item) == item.stage # "ordered"

(* The chain was executed up to a round, which no queue can go back on.    *)
After(r, s) == \A i \in DOMAIN s : Ours(s[i]) => r < s[i].first

Done(r) == r < failed /\ After(r, wait_rx) /\ After(r, wait_tx) /\ After(r, schedule_rx)

(* The buffer lies above the ledger, its executed items first.             *)
InOrder ==
  /\ \A i \in DOMAIN buffer : buffer[i].gen = gen /\ committed < buffer[i].first
  /\ \A i, j \in DOMAIN buffer : i < j /\ Executed(buffer[j]) => Executed(buffer[i])
  /\ \A i \in DOMAIN buffer : Executed(buffer[i]) => Done(buffer[i].last)
  /\ \A i \in DOMAIN block_rx : committed < block_rx[i].first
  /\ committed < next_round

(* A reset aborts more than has failed only for a sync or to stop, and then *)
(* until the tree is rebuilt.                                              *)
Draining == mode \in {"tasks", "stopped"}
Unaborted == aborted >= failed \/ (Draining /\ reset_signal # 0)

(* Requests to the persisting phase can all be served, one after the other,*)
(* and reset() waits only for blocks in them.                              *)
Persisting ==
  /\ finished = committed /\ latest_logical_time <= committed /\ Unaborted
  /\ \A k \in DOMAIN persisting_tx :
       /\ persisting_tx[k].executed
       /\ Done(persisting_tx[k].target)
       /\ [round |-> persisting_tx[k].target, gen |-> gen] \in persisting_tx[k].blocks
       /\ persisting_tx[k].blocks \subseteq pending_commit_blocks
       /\ \A b \in persisting_tx[k].blocks :
            b.gen = gen /\ committed < b.round /\ b.round <= persisting_tx[k].target
  /\ \A k, l \in DOMAIN persisting_tx : k < l =>
       \A b \in persisting_tx[l].blocks : persisting_tx[k].target < b.round
  /\ \A b \in pending_commit_blocks :
       b.round <= committed \/ \E k \in DOMAIN persisting_tx : b \in persisting_tx[k].blocks
  /\ Draining => persisting_tx = <<>>
  /\ mode \in {"commits", "tasks"} /\ reset_signal = 0 =>
       /\ epoch_end # None
       /\ \/ committed >= epoch_end
          \/ \E k \in DOMAIN persisting_tx : persisting_tx[k].target >= epoch_end

Syncing == mode \in {"commits", "tasks"} /\ reset_signal > 0

(* Answers of the persisting phase trail the ledger, except during a sync. *)
Committed ==
  /\ \A i \in DOMAIN persisting_rx : persisting_rx[i].round <= committed /\ persisting_rx[i].gen <= gen
  /\ \A i, j \in DOMAIN persisting_rx : i < j => persisting_rx[i].round < persisting_rx[j].round
  /\ IF Syncing
     THEN highest_committed_round = reset_signal /\ latest_round = reset_signal
     ELSE /\ highest_committed_round <= committed
          /\ \A i \in DOMAIN persisting_rx : Ours(persisting_rx[i]) =>
               highest_committed_round < persisting_rx[i].round

(* The last round taken in is committed, or on its way.                    *)
Pressure ==
  mode = "run" /\ ~ EpochOver =>
    \/ latest_round <= highest_committed_round
    \/ \E i \in DOMAIN buffer : buffer[i].last >= latest_round
    \/ \E i \in DOMAIN persisting_tx : persisting_tx[i].target >= latest_round
    \/ \E i \in DOMAIN persisting_rx : persisting_rx[i].round >= latest_round

(* Where an acknowledged vote of a correct validator is.                   *)
VotesKept ==
  \A x \in acked : x[1] \in Honest =>
    \/ x[2] <= highest_committed_round \/ x[2] <= committed
    \/ \E i \in DOMAIN persisting_tx : persisting_tx[i].target >= x[2]
    \/ pending_commit_votes[x[2]][x[1]] = "good"
    \/ \E i \in DOMAIN buffer : buffer[i].last = x[2] /\ buffer[i].votes[x[1]] = "good"

Fresh == ~ stale => InOrder /\ Persisting /\ Committed /\ Pressure /\ VotesKept

(* The inductive invariant.                                                *)
PipelineInv == Types /\ Chain /\ Queues /\ Roots /\ Certificates /\ Fresh

(* Some numbers have a least one.  The lemmas that need it assume it; it   *)
(* is proved where they come together.                                     *)
NumbersOrdered == \A T \in SUBSET Nat : T # {} => \E x \in T : \A y \in T : x <= y

(* Most leaves are first-order facts; the others name their prover.        *)
USE Zenon

-----------------------------------------------------------------------------
(* Sequences.                                                              *)

(* The first element, and what is left without it.                         *)
LEMMA HeadTail ==
  ASSUME NEW S, NEW s \in Seq(S), s # <<>>
  PROVE  /\ 1 \in DOMAIN s /\ Head(s) = s[1] /\ Head(s) \in S
         /\ Tail(s) \in Seq(S)
         /\ \A i \in DOMAIN Tail(s) : i \in Nat /\ i + 1 \in DOMAIN s /\ Tail(s)[i] = s[i + 1]
         /\ \A i \in DOMAIN s : i = 1 \/ (i - 1 \in DOMAIN Tail(s) /\ Tail(s)[i - 1] = s[i])
BY SMT

(* An element is added at the end.                                         *)
LEMMA Appended ==
  ASSUME NEW S, NEW s \in Seq(S), NEW e \in S
  PROVE  /\ Append(s, e) \in Seq(S)
         /\ Len(s) + 1 \in DOMAIN Append(s, e) /\ Append(s, e)[Len(s) + 1] = e
         /\ \A i \in DOMAIN s : /\ i \in DOMAIN Append(s, e) /\ Append(s, e)[i] = s[i]
                               /\ i < Len(s) + 1
         /\ \A i \in DOMAIN Append(s, e) :
              \/ i \in DOMAIN s /\ Append(s, e)[i] = s[i]
              \/ i = Len(s) + 1 /\ Append(s, e)[i] = e
BY SMT

(* The greatest of bounded numbers is what Max chooses.                    *)
LEMMA Greatest ==
  ASSUME NumbersOrdered, NEW n \in Nat, NEW T, T \subseteq 0 .. n, T # {}
  PROVE  /\ Max(T) \in T
         /\ \A x \in T : x <= Max(T)
<1> DEFINE D == {n - x : x \in T}
<1>1. PICK d \in D : \A e \in D : d <= e
  <2>1. PICK x : x \in T
    BY SMT
  <2>2. D \subseteq Nat /\ n - x \in D
    BY <2>1, SMT
  <2> HIDE DEF D
  <2> QED BY <2>2 DEF NumbersOrdered
<1>2. PICK m \in T : d = n - m
  BY <1>1, SMT
<1>3. \A x \in T : m >= x
  BY <1>1, <1>2, SMT
<1> HIDE DEF D
<1> QED BY <1>3, <1>2 DEF Max

-----------------------------------------------------------------------------
(* Cursors.                                                                *)

(* The items of a buffer are told apart by their last block.               *)
Distinct(buf) ==
  /\ \A i \in DOMAIN buf : i \in Nat \ {0} /\ buf[i].last \in Round
  /\ \A i, j \in DOMAIN buf : buf[i].last = buf[j].last => i = j

(* find_elem_by_key finds the item by its last block.                      *)
LEMMA IndexOfLast ==
  ASSUME NEW buf, Distinct(buf), NEW k \in DOMAIN buf
  PROVE  IndexOf(buf, buf[k].last) = k
BY SMT DEF IndexOf, Distinct

(* The first item of a stage from a cursor on is the first of all, unless  *)
(* one before the cursor has that stage.                                   *)
LEMMA FirstFrom ==
  ASSUME NumbersOrdered, NEW S, NEW buf \in Seq(S), Distinct(buf), NEW stage, NEW cursor,
         \/ cursor = None
         \/ \E k \in DOMAIN buf : /\ cursor = buf[k].last
                                  /\ \A j \in DOMAIN buf : j < k => buf[j].stage # stage
  PROVE  FirstOf(buf, first_from(buf, cursor, stage), stage)
<1> DEFINE c == IF cursor = None THEN head_cursor(buf) ELSE cursor
           after == {i \in DOMAIN buf : /\ c \in Ids(buf) /\ i >= IndexOf(buf, c)
                                        /\ buf[i].stage = stage}
<1>1. CASE buf = <<>>
  <2>1. after = {}
    BY <1>1, SMT
  <2>2. first_from(buf, cursor, stage) = None
    BY <2>1 DEF first_from, find_elem_from
  <2> QED BY <1>1, <2>2, SMT DEF FirstOf
<1>2. CASE buf # <<>>
  <2>1. 1 \in DOMAIN buf /\ \A i \in DOMAIN buf : i \in Nat /\ i >= 1
    BY <1>2, SMT
  <2>2. PICK k \in DOMAIN buf : /\ c = buf[k].last
                                /\ \A j \in DOMAIN buf : j < k => buf[j].stage # stage
    <3>1. CASE cursor = None
      BY <3>1, <1>2, <2>1, SMT DEF head_cursor
    <3>2. CASE cursor # None
      BY <3>2
    <3> QED BY <3>1, <3>2, SMT
  <2> HIDE DEF c
  <2>3. c \in Ids(buf) /\ IndexOf(buf, c) = k
    BY <2>2, IndexOfLast DEF Ids
  <2>4. after = {i \in DOMAIN buf : i >= k /\ buf[i].stage = stage}
    BY <2>3, SMT
  <2>5. first_from(buf, cursor, stage) = IF after = {} THEN None ELSE buf[Min(after)].last
    BY DEF first_from, find_elem_from, c
  <2> HIDE DEF after
  <2>6. CASE after = {}
    <3>1. \A i \in DOMAIN buf : buf[i].stage # stage
      BY <2>1, <2>2, <2>4, <2>6, SMT
    <3> QED BY <3>1, <2>5, <2>6 DEF FirstOf
  <2>7. CASE after # {}
    <3>1. \E x \in after : \A y \in after : x <= y
      <4>1. after \subseteq Nat
        BY <2>1, <2>4, SMT
      <4> QED BY <4>1, <2>7 DEF NumbersOrdered
    <3>2. Min(after) \in after /\ \A y \in after : Min(after) <= y
      BY <3>1 DEF Min
    <3> DEFINE m == Min(after)
    <3> HIDE DEF m
    <3>3. m \in DOMAIN buf /\ buf[m].stage = stage
      BY <3>2, <2>4, SMT DEF m
    <3>4. ASSUME NEW j \in DOMAIN buf, j < m, buf[j].stage = stage
          PROVE  FALSE
      <4>1. j \in Nat /\ k \in Nat /\ m \in Nat /\ ~ (j < k)
        BY <2>1, <2>2, <3>3, <3>4, SMT
      <4>2. j \in after
        BY <4>1, <2>4, <3>4, SMT
      <4>3. m <= j
        BY <4>2, <3>2 DEF m
      <4> QED BY <4>1, <4>3, <3>4, SMT
    <3>5. first_from(buf, cursor, stage) = buf[m].last
      BY <2>5, <2>7 DEF m
    <3> QED BY <3>3, <3>4, <3>5 DEF FirstOf
  <2> QED BY <2>6, <2>7
<1> QED BY <1>1, <1>2

(* The items of the buffer are in order, hence told apart by last blocks.  *)
Sorted(buf) ==
  /\ \A i \in DOMAIN buf : buf[i].first <= buf[i].last
  /\ \A i, j \in DOMAIN buf : i < j => buf[i].last < buf[j].first

(* Items in the order of the chain are told apart by their last block.     *)
LEMMA SortedDistinct ==
  ASSUME NEW buf, DOMAIN buf \subseteq Nat \ {0}, Sorted(buf),
         \A i \in DOMAIN buf : buf[i].first \in Round /\ buf[i].last \in Round
  PROVE  Distinct(buf)
<1>1. \A i \in DOMAIN buf : buf[i].first \in Nat /\ buf[i].last \in Nat
  BY BoundAssumption, SMT DEF Round
<1>2. ASSUME NEW i \in DOMAIN buf, NEW j \in DOMAIN buf, i < j
      PROVE  buf[i].last < buf[j].last
  BY <1>1, <1>2, SMT DEF Sorted
<1>3. ASSUME NEW i \in DOMAIN buf, NEW j \in DOMAIN buf, buf[i].last = buf[j].last
      PROVE  i = j
  <2>1. ~ (i < j) /\ ~ (j < i)
    BY <1>1, <1>2, <1>3, SMT
  <2> QED BY <2>1, SMT
<1> QED BY <1>3, SMT DEF Distinct

(* The buffer is in the order of the chain.                                *)
LEMMA BufferSorted ==
  ASSUME Types, Chain
  PROVE  /\ Sorted(buffer) /\ Distinct(buffer)
         /\ DOMAIN buffer \subseteq Nat \ {0}
         /\ \A i \in DOMAIN buffer : /\ buffer[i] \in Item
                                     /\ buffer[i].first \in Nat /\ buffer[i].last \in Nat
                                     /\ buffer[i].first \in Round /\ buffer[i].last \in Round
<1>1. buffer \in Seq(Item)
  BY DEF Types
<1>2. /\ DOMAIN buffer \subseteq Nat \ {0}
      /\ \A i \in DOMAIN buffer : buffer[i] \in Item
  BY <1>1, SMT
<1>3. \A i \in DOMAIN buffer : /\ buffer[i].first \in Round /\ buffer[i].last \in Round
  BY <1>2 DEF Item
<1>4. \A i \in DOMAIN buffer : /\ buffer[i].first \in Nat /\ buffer[i].last \in Nat
  BY <1>3, BoundAssumption, SMT DEF Round
<1>5. Sorted(buffer)
  BY DEF Chain, Sorted
<1> QED BY <1>2, <1>3, <1>4, <1>5, SortedDistinct

-----------------------------------------------------------------------------
(* A part of the invariant holds as long as what it is about stays as it is.*)

(* Each part of the invariant depends on some of the variables only.       *)
LEMMA ChainSame ==
  ASSUME Chain, UNCHANGED <<buffer, next_round, block_rx, persisting_tx, gen, mode,
                            execution_root, signing_root, reset_signal>>
  PROVE  Chain'
BY DEF Chain, Ours

(* ... the order of the queues,                                            *)
LEMMA InLineSame ==
  ASSUME InLine, UNCHANGED <<block_rx, schedule_rx, wait_tx, wait_rx, gen>>
  PROVE  InLine'
BY DEF InLine, Increasing, Before, Ours

(* ... what is queued,                                                     *)
LEMMA SpansSame ==
  ASSUME Spans, UNCHANGED <<block_rx, schedule_rx, wait_tx, wait_rx, gen, buffer,
                            next_round>>
  PROVE  Spans'
BY DEF Spans, Queued, Ours

(* ... what ordered items wait for,                                        *)
LEMMA AwaitedSame ==
  ASSUME Awaited, UNCHANGED <<buffer, gen, schedule_rx, wait_tx, wait_rx, failed>>
  PROVE  Awaited'
BY DEF Awaited, Waiting, Ours

(* ... what the answers say,                                               *)
LEMMA TruthfulSame ==
  ASSUME Truthful, UNCHANGED <<wait_rx, buffer, gen, failed>>
  PROVE  Truthful'
BY DEF Truthful, Ours

(* ... the roots,                                                          *)
LEMMA RootsSame ==
  ASSUME Roots, UNCHANGED <<mode, buffer, execution_root, signing_root, stale,
                            signing_tx, signing_rx>>
  PROVE  Roots'
BY SMT DEF Roots, FirstOf, SigningAsked

(* ... the certificates,                                                   *)
LEMMA CertificatesSame ==
  ASSUME Certificates, UNCHANGED <<pending_commit_votes, acked, buffer, certified,
                                   pending_commit_proofs, persisting_tx, reset_signal>>
  PROVE  Certificates'
BY DEF Certificates, Decided, Certifiers

(* ... the order of the buffer,                                            *)
LEMMA InOrderSame ==
  ASSUME InOrder, UNCHANGED <<gen, buffer, committed, failed, wait_rx, wait_tx,
                              schedule_rx, block_rx, next_round>>
  PROVE  InOrder'
BY DEF InOrder, Executed, Done, After, Ours

(* ... the requests to the persisting phase,                               *)
LEMMA PersistingSame ==
  ASSUME Persisting, UNCHANGED <<finished, committed, persisting_tx,
                                 pending_commit_blocks, gen, failed, wait_rx, wait_tx,
                                 schedule_rx, mode, reset_signal, scenario, aborted,
                                 latest_logical_time>>
  PROVE  Persisting'
BY DEF Persisting, Done, After, Ours, epoch_end, Draining, Unaborted

(* ... the answers of the persisting phase,                                *)
LEMMA CommittedSame ==
  ASSUME Committed, UNCHANGED <<persisting_rx, committed, gen, mode, reset_signal,
                                highest_committed_round, latest_round>>
  PROVE  Committed'
BY DEF Committed, Syncing, Ours

(* ... the back pressure,                                                  *)
LEMMA PressureSame ==
  ASSUME Pressure, UNCHANGED <<mode, scenario, committed, latest_round,
                               highest_committed_round, buffer, persisting_tx,
                               persisting_rx>>
  PROVE  Pressure'
BY DEF Pressure, EpochOver, epoch_end

(* ... the acknowledged votes.                                             *)
LEMMA VotesKeptSame ==
  ASSUME VotesKept, UNCHANGED <<acked, highest_committed_round, committed,
                                persisting_tx, pending_commit_votes, buffer>>
  PROVE  VotesKept'
BY DEF VotesKept

-----------------------------------------------------------------------------
(* What the types say of the numbers that are compared.                    *)

(* The entries of the execution queues.                                    *)
LEMMA EntryTypes ==
  ASSUME Types
  PROVE  /\ \A i \in DOMAIN block_rx : /\ i \in Nat \ {0} /\ block_rx[i].gen \in Nat
              /\ block_rx[i].first \in Nat /\ block_rx[i].last \in Nat
         /\ \A i \in DOMAIN schedule_rx : /\ i \in Nat \ {0} /\ schedule_rx[i].gen \in Nat
              /\ schedule_rx[i].first \in Nat /\ schedule_rx[i].last \in Nat
         /\ \A i \in DOMAIN wait_tx : /\ i \in Nat \ {0} /\ wait_tx[i].gen \in Nat
              /\ wait_tx[i].first \in Nat /\ wait_tx[i].last \in Nat
         /\ \A i \in DOMAIN wait_rx : /\ i \in Nat \ {0} /\ wait_rx[i].gen \in Nat
              /\ wait_rx[i].first \in Nat /\ wait_rx[i].last \in Nat
<1>1. Round \subseteq Nat
  BY BoundAssumption, SMT DEF Round
<1>2. ASSUME NEW s \in Seq(Entries), NEW i \in DOMAIN s
      PROVE  i \in Nat \ {0} /\ s[i].gen \in Nat /\ s[i].first \in Nat /\ s[i].last \in Nat
  <2>1. i \in Nat \ {0} /\ s[i] \in Entries
    BY SMT
  <2> QED BY <2>1, <1>1 DEF Entries
<1>3. ASSUME NEW i \in DOMAIN wait_rx
      PROVE  /\ i \in Nat \ {0} /\ wait_rx[i].gen \in Nat
             /\ wait_rx[i].first \in Nat /\ wait_rx[i].last \in Nat
  <2>1. wait_rx \in Seq(Answers)
    BY DEF Types
  <2>2. i \in Nat \ {0} /\ wait_rx[i] \in Answers
    BY <2>1, SMT
  <2> QED BY <2>2, <1>1 DEF Answers
<1>4. block_rx \in Seq(Entries) /\ schedule_rx \in Seq(Entries) /\ wait_tx \in Seq(Entries)
  BY DEF Types
<1> QED BY <1>2, <1>3, <1>4

(* The requests to the persisting phase and its answers.                   *)
LEMMA RequestTypes ==
  ASSUME Types
  PROVE  /\ persisting_tx \in Seq(Requests) /\ persisting_rx \in Seq(Blocks)
         /\ \A k \in DOMAIN persisting_tx :
              /\ k \in Nat \ {0} /\ persisting_tx[k] \in Requests
              /\ persisting_tx[k].target \in Round /\ persisting_tx[k].target \in Nat
              /\ persisting_tx[k].blocks \subseteq Blocks
         /\ \A k \in DOMAIN persisting_rx :
              /\ k \in Nat \ {0} /\ persisting_rx[k].round \in Round
              /\ persisting_rx[k].round \in Nat /\ persisting_rx[k].gen \in Nat
         /\ \A b \in Blocks : b.round \in Round /\ b.round \in Nat /\ b.gen \in Nat
<1>1. Round \subseteq Nat
  BY BoundAssumption, SMT DEF Round
<1>2. \A b \in Blocks : b.round \in Round /\ b.round \in Nat /\ b.gen \in Nat
  BY <1>1 DEF Blocks
<1>3. persisting_tx \in Seq(Requests) /\ persisting_rx \in Seq(Blocks)
  BY DEF Types
<1>4. /\ \A k \in DOMAIN persisting_tx : k \in Nat \ {0} /\ persisting_tx[k] \in Requests
      /\ \A k \in DOMAIN persisting_rx : k \in Nat \ {0} /\ persisting_rx[k] \in Blocks
  BY <1>3, SMT
<1>5. \A k \in DOMAIN persisting_tx : /\ persisting_tx[k].target \in Round
                                      /\ persisting_tx[k].target \in Nat
                                      /\ persisting_tx[k].blocks \subseteq Blocks
  BY <1>1, <1>4 DEF Requests
<1> QED BY <1>2, <1>3, <1>4, <1>5

(* The numbers of the state.                                               *)
LEMMA NumberTypes ==
  ASSUME Types
  PROVE  /\ next_round \in Nat /\ committed \in Nat /\ finished \in Nat /\ failed \in Nat
         /\ gen \in Nat /\ highest_committed_round \in Nat /\ latest_round \in Nat
         /\ reset_signal \in Int /\ epoch_end \in Nat /\ faults \in Nat
         /\ scenario.rounds \in 1 .. MaxRound
         /\ aborted \in Nat /\ latest_logical_time \in Nat
<1>1. scenario \in [rounds : 1..MaxRound, epoch_end : 0..MaxRound,
                   voted : SUBSET (1..MaxRound), faults : Nat]
  BY QuorumAssumption DEF Types
<1>2. scenario.rounds \in 1 .. MaxRound /\ epoch_end \in 0 .. MaxRound
  BY <1>1 DEF epoch_end
<1> QED BY <1>2, BoundAssumption, SMT DEF Types

-----------------------------------------------------------------------------
(* The invariant holds at the start, and when nothing changes.             *)

(* BufferManager::new and the block tree it starts beside.                 *)
LEMMA InitInv ==
  ASSUME Init
  PROVE  PipelineInv
<1>1. /\ buffer = <<>> /\ execution_root = None /\ signing_root = None
      /\ block_rx = <<>> /\ schedule_rx = <<>> /\ wait_tx = <<>>
      /\ wait_rx = <<>> /\ signing_tx = <<>> /\ signing_rx = <<>>
      /\ persisting_tx = <<>> /\ persisting_rx = <<>>
      /\ pending_commit_votes = [r \in Round |-> NoVotes]
      /\ pending_commit_proofs = {} /\ pending_commit_blocks = {}
      /\ highest_committed_round = 0 /\ latest_round = 0
      /\ mode = "run" /\ reset_signal = 0
      /\ gen = 0 /\ next_round = 1 /\ committed = 0 /\ finished = 0
      /\ failed = MaxRound + 1 /\ aborted = MaxRound + 1 /\ latest_logical_time = 0
      /\ scenario \in Scenario
      /\ own_votes = {} /\ acked = {} /\ certified = {}
      /\ faults = 0 /\ stale = FALSE
  BY DEF Init
<1>2. /\ DOMAIN buffer = {} /\ DOMAIN block_rx = {} /\ DOMAIN schedule_rx = {}
      /\ DOMAIN wait_tx = {} /\ DOMAIN wait_rx = {}
      /\ DOMAIN persisting_tx = {} /\ DOMAIN persisting_rx = {}
  BY <1>1, SMT
<1>3. Types
  <2>1. /\ buffer \in Seq(Item) /\ block_rx \in Seq(Entries) /\ schedule_rx \in Seq(Entries)
        /\ wait_tx \in Seq(Entries) /\ wait_rx \in Seq(Answers)
        /\ signing_tx \in Seq(Round) /\ signing_rx \in Seq([round : Round, ok : BOOLEAN])
        /\ persisting_tx \in Seq(Requests) /\ persisting_rx \in Seq(Blocks)
    BY <1>1, SMT
  <2>2. pending_commit_votes \in [Round -> Votes]
    <3>1. NoVotes \in Votes
      BY SMT DEF NoVotes, Votes
    <3> QED BY <1>1, <3>1, SMT
  <2>3. /\ highest_committed_round \in 0..MaxRound /\ latest_round \in 0..MaxRound
        /\ reset_signal \in -1..MaxRound /\ gen \in Nat /\ next_round \in 1..(MaxRound + 1)
        /\ committed \in 0..MaxRound /\ finished \in 0..MaxRound /\ failed \in 1..(MaxRound + 1)
        /\ aborted \in 1..(MaxRound + 1) /\ latest_logical_time \in 0..MaxRound
        /\ faults \in Nat
    BY <1>1, BoundAssumption, SMT
  <2>4. /\ execution_root \in Round \cup {None} /\ signing_root \in Round \cup {None}
        /\ pending_commit_proofs \subseteq Round /\ pending_commit_blocks \subseteq Blocks
        /\ own_votes \subseteq Round /\ acked \subseteq Validator \X Round
        /\ certified \subseteq Round /\ stale \in BOOLEAN
        /\ mode \in {"run", "commits", "tasks", "stopped"}
    BY <1>1
  <2> QED BY <1>1, <2>1, <2>2, <2>3, <2>4 DEF Types
<1>4. Chain
  BY <1>1, <1>2, SMT DEF Chain
<1>5. Queues
  BY <1>2 DEF Queues, InLine, Increasing, Before, Spans, Awaited, Truthful
<1>6. Roots
  BY <1>1, <1>2 DEF Roots, FirstOf
<1>7. Certificates
  <2>1. ASSUME NEW r \in Round, NEW a \in Validator PROVE pending_commit_votes[r][a] # "good"
    BY <1>1, SMT DEF NoVotes
  <2>2. ~ (reset_signal > 0)
    BY <1>1, SMT
  <2> QED BY <1>1, <1>2, <2>1, <2>2 DEF Certificates
<1>8. Fresh
  <2>1. InOrder
    <3>1. committed < next_round
      BY <1>1, SMT
    <3> QED BY <1>2, <3>1 DEF InOrder
  <2>2. Persisting
    <3>1. ~ Draining /\ ~ (mode \in {"commits", "tasks"})
      BY <1>1, SMT DEF Draining
    <3>2. latest_logical_time <= committed /\ Unaborted
      BY <1>1, BoundAssumption, SMT DEF Unaborted
    <3> QED BY <1>1, <1>2, <3>1, <3>2 DEF Persisting
  <2>3. Committed
    <3>1. ~ Syncing /\ highest_committed_round <= committed
      BY <1>1, SMT DEF Syncing
    <3> QED BY <1>2, <3>1 DEF Committed
  <2>4. Pressure
    <3>1. latest_round <= highest_committed_round
      BY <1>1, SMT
    <3> QED BY <3>1 DEF Pressure
  <2>5. VotesKept
    BY <1>1 DEF VotesKept
  <2> QED BY <2>1, <2>2, <2>3, <2>4, <2>5 DEF Fresh
<1> QED BY <1>3, <1>4, <1>5, <1>6, <1>7, <1>8 DEF PipelineInv

(* A step that changes nothing.                                            *)
LEMMA Stuttering ==
  ASSUME PipelineInv, UNCHANGED vars
  PROVE  PipelineInv'
<1>1. /\ Types /\ Chain /\ InLine /\ Spans /\ Awaited /\ Truthful /\ Roots /\ Certificates
  BY DEF PipelineInv, Queues
<1>2. /\ UNCHANGED <<buffer, execution_root, signing_root, block_rx, schedule_rx,
                     wait_tx, wait_rx, signing_tx, signing_rx, persisting_tx,
                     persisting_rx, pending_commit_votes, pending_commit_proofs,
                     pending_commit_blocks, highest_committed_round, latest_round, mode,
                     reset_signal, gen, next_round, committed, finished, failed, aborted,
                     latest_logical_time, scenario, own_votes, acked, certified, faults, stale>>
  BY SMT DEF vars, roots, channels, pending, rounds, control, node, history
<1>3. Types'
  BY <1>1, <1>2 DEF Types
<1>4. Chain' /\ InLine' /\ Spans' /\ Awaited'
  BY <1>1, <1>2, ChainSame, InLineSame, SpansSame, AwaitedSame
<1>5. Truthful' /\ Roots' /\ Certificates'
  BY <1>1, <1>2, TruthfulSame, RootsSame, CertificatesSame
<1>6. ASSUME ~ stale'
      PROVE  InOrder' /\ Persisting' /\ Committed' /\ Pressure' /\ VotesKept'
  <2>1. InOrder /\ Persisting /\ Committed /\ Pressure /\ VotesKept
    BY <1>2, <1>6 DEF PipelineInv, Fresh
  <2>2. InOrder' /\ Persisting' /\ Committed'
    BY <1>2, <2>1, InOrderSame, PersistingSame, CommittedSame
  <2>3. Pressure' /\ VotesKept'
    BY <1>2, <2>1, PressureSame, VotesKeptSame
  <2> QED BY <2>2, <2>3
<1> QED BY <1>3, <1>4, <1>5, <1>6 DEF PipelineInv, Queues, Fresh

-----------------------------------------------------------------------------
(* The phases.                                                             *)

(* The signing phase answers a request.                                    *)
LEMMA SigningPhase ==
  ASSUME PipelineInv, NEW ok \in BOOLEAN, signing_phase(ok)
  PROVE  PipelineInv'
<1>1. /\ Types /\ Chain /\ InLine /\ Spans /\ Awaited /\ Truthful /\ Roots /\ Certificates
      /\ signing_tx # <<>> /\ signing_tx' = Tail(signing_tx)
      /\ signing_rx' = Append(signing_rx, [round |-> Head(signing_tx), ok |-> ok])
  BY DEF PipelineInv, Queues, signing_phase
<1>2. /\ UNCHANGED <<buffer, execution_root, signing_root, block_rx, schedule_rx,
                     wait_tx, wait_rx, persisting_tx, persisting_rx,
                     pending_commit_votes, pending_commit_proofs, pending_commit_blocks,
                     highest_committed_round, latest_round, mode, reset_signal, gen,
                     next_round, committed, finished, failed, aborted, latest_logical_time,
                     scenario, own_votes, acked, certified, faults, stale>>
  BY SMT DEF signing_phase, roots, pending, rounds, control, node, history
<1>3. /\ signing_tx \in Seq(Round) /\ signing_rx \in Seq([round : Round, ok : BOOLEAN])
  BY <1>1 DEF Types
<1> DEFINE answer == [round |-> Head(signing_tx), ok |-> ok]
<1>4. /\ 1 \in DOMAIN signing_tx /\ Head(signing_tx) = signing_tx[1]
      /\ Head(signing_tx) \in Round /\ signing_tx' \in Seq(Round)
      /\ \A i \in DOMAIN signing_tx : i = 1 \/ (i - 1 \in DOMAIN signing_tx'
                                                /\ signing_tx'[i - 1] = signing_tx[i])
  BY <1>1, <1>3, HeadTail, SMT
<1>5. answer \in [round : Round, ok : BOOLEAN] /\ answer.round = signing_tx[1]
  BY <1>4, SMT
<1>6. /\ signing_rx' \in Seq([round : Round, ok : BOOLEAN])
      /\ Len(signing_rx) + 1 \in DOMAIN signing_rx'
      /\ signing_rx'[Len(signing_rx) + 1] = answer
      /\ \A i \in DOMAIN signing_rx : i \in DOMAIN signing_rx' /\ signing_rx'[i] = signing_rx[i]
  <2> HIDE DEF answer
  <2>1. signing_rx' = Append(signing_rx, answer)
    BY <1>1, SMT DEF answer
  <2> QED BY <1>3, <1>5, <2>1, Appended, SMT
<1> HIDE DEF answer
<1>7. Types'
  BY <1>1, <1>2, <1>4, <1>6 DEF Types
<1>8. Chain' /\ InLine' /\ Spans' /\ Awaited' /\ Truthful' /\ Certificates'
  BY <1>1, <1>2, ChainSame, InLineSame, SpansSame, AwaitedSame, TruthfulSame,
     CertificatesSame
<1>9. Roots'
  <2>1. ASSUME SigningAsked(signing_root) PROVE SigningAsked(signing_root)'
    <3>1. CASE \E i \in DOMAIN signing_tx : signing_tx[i] = signing_root
      <4>1. PICK i \in DOMAIN signing_tx : signing_tx[i] = signing_root
        BY <3>1
      <4>2. CASE i = 1
        BY <1>2, <1>5, <1>6, <4>1, <4>2 DEF SigningAsked
      <4>3. CASE i # 1
        BY <1>2, <1>4, <4>1, <4>3 DEF SigningAsked
      <4> QED BY <4>2, <4>3
    <3>2. CASE \E i \in DOMAIN signing_rx : signing_rx[i].round = signing_root
      BY <1>2, <1>6, <3>2 DEF SigningAsked
    <3> QED BY <2>1, <3>1, <3>2 DEF SigningAsked
  <2>2. /\ FirstOf(buffer, execution_root, "ordered") => FirstOf(buffer, execution_root, "ordered")'
        /\ FirstOf(buffer, signing_root, "executed") => FirstOf(buffer, signing_root, "executed")'
    BY <1>2 DEF FirstOf
  <2> QED BY <1>1, <1>2, <2>1, <2>2 DEF Roots
<1>10. ASSUME ~ stale'
       PROVE  InOrder' /\ Persisting' /\ Committed' /\ Pressure' /\ VotesKept'
  <2>1. InOrder /\ Persisting /\ Committed /\ Pressure /\ VotesKept
    BY <1>2, <1>10 DEF PipelineInv, Fresh
  <2> QED BY <1>2, <2>1, InOrderSame, PersistingSame, CommittedSame, PressureSame,
             VotesKeptSame
<1> QED BY <1>7, <1>8, <1>9, <1>10 DEF PipelineInv, Queues, Fresh

(* The requests to the persisting phase, where only the queues change.     *)
LEMMA PersistingDone ==
  ASSUME Persisting, UNCHANGED <<finished, committed, persisting_tx,
                                 pending_commit_blocks, gen, mode, reset_signal,
                                 scenario, aborted, latest_logical_time>>,
         \A k \in DOMAIN persisting_tx : Done(persisting_tx[k].target)',
         UNCHANGED failed \/ Unaborted'
  PROVE  Persisting'
<1>1. epoch_end' = epoch_end
  BY DEF epoch_end
<1>2. \A k \in DOMAIN persisting_tx' : Done(persisting_tx[k].target)'
  OBVIOUS
<1>3. Unaborted'
  BY DEF Persisting, Unaborted, Draining
<1>4. Draining' <=> Draining
  BY DEF Draining
<1> QED BY <1>1, <1>2, <1>3, <1>4 DEF Persisting

(* The head of one queue is moved to the end of another.                   *)
Moved(s, t) ==
  /\ 1 \in DOMAIN s
  /\ \A i \in DOMAIN s' : 1 < i + 1 /\ i + 1 \in DOMAIN s /\ s'[i] = s[i + 1]
  /\ \A i, j \in DOMAIN s' : i < j => i + 1 < j + 1
  /\ \A i \in DOMAIN s : i = 1 \/ (i - 1 \in DOMAIN s' /\ s'[i - 1] = s[i])
  /\ Len(t) + 1 \in DOMAIN t'
  /\ \A i \in DOMAIN t : i \in DOMAIN t' /\ t'[i] = t[i] /\ i < Len(t) + 1 /\ ~ (Len(t) + 1 < i)
  /\ \A i \in DOMAIN t' : (i \in DOMAIN t /\ t'[i] = t[i]) \/ i = Len(t) + 1
  /\ ~ (Len(t) + 1 < Len(t) + 1)

(* process_execution_schedule_response: the blocks go to the wait phase.   *)
LEMMA ScheduleResponse ==
  ASSUME PipelineInv, process_execution_schedule_response
  PROVE  PipelineInv'
<1>1. /\ Types /\ Chain /\ InLine /\ Spans /\ Awaited /\ Truthful /\ Roots /\ Certificates
      /\ schedule_rx # <<>> /\ schedule_rx' = Tail(schedule_rx)
      /\ wait_tx' = Append(wait_tx, Head(schedule_rx))
  BY DEF PipelineInv, Queues, process_execution_schedule_response
<1>2. /\ UNCHANGED <<buffer, execution_root, signing_root, block_rx, wait_rx,
                     signing_tx, signing_rx, persisting_tx, persisting_rx,
                     pending_commit_votes, pending_commit_proofs, pending_commit_blocks,
                     highest_committed_round, latest_round, mode, reset_signal, gen,
                     next_round, committed, finished, failed, aborted, latest_logical_time,
                     scenario, own_votes, acked, certified, faults, stale>>
  BY SMT DEF process_execution_schedule_response, roots, pending, rounds, control, node, history
<1>3. schedule_rx \in Seq(Entries) /\ wait_tx \in Seq(Entries)
  BY <1>1 DEF Types
<1> DEFINE n == Len(wait_tx) + 1
           b == schedule_rx[1]
<1>4. /\ Moved(schedule_rx, wait_tx) /\ wait_tx'[n] = b
      /\ schedule_rx' \in Seq(Entries) /\ wait_tx' \in Seq(Entries)
  <2>1. Head(schedule_rx) = schedule_rx[1] /\ schedule_rx[1] \in Entries
    BY <1>1, <1>3, SMT
  <2>2. /\ wait_tx' = Append(wait_tx, schedule_rx[1])
    BY <1>1, <2>1
  <2>3. /\ 1 \in DOMAIN schedule_rx /\ schedule_rx' \in Seq(Entries)
        /\ \A i \in DOMAIN schedule_rx' : /\ 1 < i + 1 /\ i + 1 \in DOMAIN schedule_rx
                                          /\ schedule_rx'[i] = schedule_rx[i + 1]
        /\ \A i, j \in DOMAIN schedule_rx' : i < j => i + 1 < j + 1
        /\ \A i \in DOMAIN schedule_rx :
             i = 1 \/ (i - 1 \in DOMAIN schedule_rx' /\ schedule_rx'[i - 1] = schedule_rx[i])
    BY <1>1, <1>3, SMT
  <2>4. /\ n \in DOMAIN wait_tx' /\ wait_tx'[n] = b /\ wait_tx' \in Seq(Entries)
        /\ \A i \in DOMAIN wait_tx : /\ i \in DOMAIN wait_tx' /\ wait_tx'[i] = wait_tx[i]
                                     /\ i < n /\ ~ (n < i)
        /\ \A i \in DOMAIN wait_tx' : (i \in DOMAIN wait_tx /\ wait_tx'[i] = wait_tx[i]) \/ i = n
        /\ ~ (n < n)
    BY <1>3, <2>1, <2>2, SMT
  <2> QED BY <2>3, <2>4 DEF Moved
<1>5. /\ n \in DOMAIN wait_tx' /\ 1 \in DOMAIN schedule_rx
      /\ \A i \in DOMAIN schedule_rx' : /\ 1 < i + 1 /\ i + 1 \in DOMAIN schedule_rx
                                        /\ schedule_rx'[i] = schedule_rx[i + 1]
      /\ \A i, j \in DOMAIN schedule_rx' : i < j => i + 1 < j + 1
      /\ \A i \in DOMAIN wait_tx' : (i \in DOMAIN wait_tx /\ wait_tx'[i] = wait_tx[i]) \/ i = n
      /\ \A i \in DOMAIN wait_tx : i \in DOMAIN wait_tx' /\ wait_tx'[i] = wait_tx[i] /\ ~ (n < i)
      /\ ~ (n < n)
  BY <1>4 DEF Moved
<1> HIDE DEF n, b
<1>6. Types'
  BY <1>1, <1>2, <1>4 DEF Types
<1>7. Chain' /\ Truthful' /\ Roots' /\ Certificates'
  BY <1>1, <1>2, ChainSame, TruthfulSame, RootsSame, CertificatesSame
<1>8. InLine'
  <2>1. Increasing(block_rx)' /\ Increasing(wait_rx)' /\ Before(wait_rx, block_rx)'
    BY <1>1, <1>2 DEF InLine, Increasing, Before, Ours
  <2> /\ Increasing(schedule_rx) /\ Increasing(wait_tx) /\ Before(schedule_rx, block_rx)
      /\ Before(wait_rx, wait_tx) /\ Before(wait_rx, schedule_rx)
      /\ Before(wait_tx, schedule_rx) /\ Before(wait_tx, block_rx)
    BY <1>1 DEF InLine
  <2>a. Increasing(schedule_rx)'
    <3>1. ASSUME NEW i \in DOMAIN schedule_rx', NEW j \in DOMAIN schedule_rx', i < j,
                 Ours(schedule_rx'[i]), Ours(schedule_rx'[j])
          PROVE  schedule_rx'[i].last < schedule_rx'[j].first
      <4>1. /\ i + 1 \in DOMAIN schedule_rx /\ j + 1 \in DOMAIN schedule_rx /\ i + 1 < j + 1
            /\ schedule_rx'[i] = schedule_rx[i + 1] /\ schedule_rx'[j] = schedule_rx[j + 1]
        BY <1>5, <3>1
      <4> QED BY <3>1, <4>1 DEF Increasing
    <3> QED BY <1>2, <3>1 DEF Increasing, Ours
  <2>b. Before(wait_rx, schedule_rx)'
    <3>1. \A i \in DOMAIN wait_rx, j \in DOMAIN schedule_rx' :
             Ours(wait_rx[i]) /\ Ours(schedule_rx'[j]) => wait_rx[i].last < schedule_rx'[j].first
      BY <1>5 DEF Before
    <3> QED BY <1>2, <3>1 DEF Before, Ours
  <2>c. Before(schedule_rx, block_rx)'
    <3>1. \A i \in DOMAIN schedule_rx', j \in DOMAIN block_rx :
             Ours(schedule_rx'[i]) /\ Ours(block_rx[j]) => schedule_rx'[i].last < block_rx[j].first
      BY <1>5 DEF Before
    <3> QED BY <1>2, <3>1 DEF Before, Ours
  <2>2. Increasing(schedule_rx)' /\ Before(wait_rx, schedule_rx)' /\ Before(schedule_rx, block_rx)'
    BY <2>a, <2>b, <2>c
  <2>3. Increasing(wait_tx)'
    <3>1. \A i, j \in DOMAIN wait_tx' : i < j => i \in DOMAIN wait_tx /\ wait_tx'[i] = wait_tx[i]
      BY <1>5
    <3>2. \A i \in DOMAIN wait_tx : Ours(wait_tx[i]) /\ Ours(b) => wait_tx[i].last < b.first
      BY <1>5 DEF Before, b
    <3>3. \A i, j \in DOMAIN wait_tx' : i < j /\
             Ours(wait_tx'[i]) /\ Ours(wait_tx'[j]) => wait_tx'[i].last < wait_tx'[j].first
      BY <1>4, <1>5, <3>1, <3>2 DEF Increasing
    <3> QED BY <1>2, <3>3 DEF Increasing, Ours
  <2>4. Before(wait_rx, wait_tx)' /\ Before(wait_tx, block_rx)'
    <3>1. \A i \in DOMAIN wait_rx : Ours(wait_rx[i]) /\ Ours(b) => wait_rx[i].last < b.first
      BY <1>5 DEF Before, b
    <3>2. \A i \in DOMAIN block_rx : Ours(b) /\ Ours(block_rx[i]) => b.last < block_rx[i].first
      BY <1>5 DEF Before, b
    <3>3. \A i \in DOMAIN wait_rx, j \in DOMAIN wait_tx' :
             Ours(wait_rx[i]) /\ Ours(wait_tx'[j]) => wait_rx[i].last < wait_tx'[j].first
      BY <1>4, <1>5, <3>1 DEF Before
    <3>4. \A i \in DOMAIN wait_tx', j \in DOMAIN block_rx :
             Ours(wait_tx'[i]) /\ Ours(block_rx[j]) => wait_tx'[i].last < block_rx[j].first
      BY <1>4, <1>5, <3>2 DEF Before
    <3> QED BY <1>2, <3>3, <3>4 DEF Before, Ours
  <2>5. Before(wait_tx, schedule_rx)'
    <3>1. \A i \in DOMAIN schedule_rx' :
            Ours(b) /\ Ours(schedule_rx'[i]) => b.last < schedule_rx'[i].first
      BY <1>5 DEF Increasing, b
    <3>2. \A j \in DOMAIN wait_tx : \A i \in DOMAIN schedule_rx' :
            Ours(wait_tx[j]) /\ Ours(schedule_rx'[i]) => wait_tx[j].last < schedule_rx'[i].first
      BY <1>5 DEF Before
    <3>3. \A j \in DOMAIN wait_tx' : \A i \in DOMAIN schedule_rx' :
            Ours(wait_tx'[j]) /\ Ours(schedule_rx'[i]) => wait_tx'[j].last < schedule_rx'[i].first
      BY <1>4, <1>5, <3>1, <3>2
    <3> QED BY <1>2, <3>3 DEF Before, Ours
  <2> QED BY <2>1, <2>2, <2>3, <2>4, <2>5 DEF InLine
<1>9. Spans'
  <2>1. Queued(b)
    BY <1>1, <1>5 DEF Spans, b
  <2>2. \A e : Queued(e) => Queued(e)'
    BY <1>2 DEF Queued, Ours
  <2>3. /\ \A i \in DOMAIN block_rx' : Queued(block_rx'[i])
        /\ \A i \in DOMAIN wait_rx' : Queued(wait_rx'[i])
        /\ \A i \in DOMAIN schedule_rx' : Queued(schedule_rx'[i])
        /\ \A i \in DOMAIN wait_tx' : Queued(wait_tx'[i])
    BY <1>1, <1>2, <1>4, <1>5, <2>1 DEF Spans
  <2> QED BY <1>2, <2>3 DEF Spans, Queued, Ours
<1>10. Awaited'
  <2>1. ASSUME NEW i \in DOMAIN buffer, Waiting(buffer[i]) PROVE Waiting(buffer[i])'
    <3>1. CASE \E j \in DOMAIN schedule_rx : /\ Ours(schedule_rx[j])
                                             /\ schedule_rx[j].last = buffer[i].last
      <4>1. PICK j \in DOMAIN schedule_rx : Ours(schedule_rx[j]) /\ schedule_rx[j].last = buffer[i].last
        BY <3>1
      <4>2. CASE j = 1
        BY <1>2, <1>4, <1>5, <4>1, <4>2 DEF Waiting, Ours, b
      <4>3. CASE j # 1
        <5>1. j - 1 \in DOMAIN schedule_rx' /\ schedule_rx'[j - 1] = schedule_rx[j]
          BY <1>4, <4>3 DEF Moved
        <5> QED BY <1>2, <4>1, <5>1 DEF Waiting, Ours
      <4> QED BY <4>2, <4>3
    <3>2. CASE ~ \E j \in DOMAIN schedule_rx : /\ Ours(schedule_rx[j])
                                               /\ schedule_rx[j].last = buffer[i].last
      BY <1>2, <1>5, <2>1, <3>2, ZenonT(30) DEF Waiting, Ours
    <3> QED BY <3>1, <3>2
  <2> QED BY <1>1, <1>2, <2>1 DEF Awaited
<1>11. ASSUME NEW r, Done(r) PROVE Done(r)'
  <2>1. /\ \A i \in DOMAIN schedule_rx' : Ours(schedule_rx'[i]) => r < schedule_rx'[i].first
        /\ Ours(b) => r < b.first
    BY <1>5, <1>11 DEF Done, After, b
  <2>2. \A i \in DOMAIN wait_tx' : Ours(wait_tx'[i]) => r < wait_tx'[i].first
    BY <1>4, <1>5, <1>11, <2>1 DEF Done, After
  <2> QED BY <1>2, <1>11, <2>1, <2>2 DEF Done, After, Ours
<1>12. ASSUME ~ stale'
       PROVE  InOrder' /\ Persisting' /\ Committed' /\ Pressure' /\ VotesKept'
  <2>1. InOrder /\ Persisting /\ Committed /\ Pressure /\ VotesKept
    BY <1>2, <1>12 DEF PipelineInv, Fresh
  <2>2. Committed' /\ Pressure' /\ VotesKept'
    BY <1>2, <2>1, CommittedSame, PressureSame, VotesKeptSame
  <2>3. InOrder'
    BY <1>2, <1>11, <2>1 DEF InOrder
  <2>4. Persisting'
    <3>1. \A k \in DOMAIN persisting_tx : Done(persisting_tx[k].target)'
      BY <1>2, <1>11, <2>1 DEF Persisting
    <3> QED BY <1>2, <2>1, <3>1, PersistingDone
  <2> QED BY <2>2, <2>3, <2>4
<1> QED BY <1>6, <1>7, <1>8, <1>9, <1>10, <1>12 DEF PipelineInv, Queues, Fresh

(* The execution wait phase answers: it fails where the chain failed.      *)
LEMMA ExecutionWaitPhase ==
  ASSUME PipelineInv, NEW ok \in BOOLEAN, execution_wait_phase(ok)
  PROVE  PipelineInv'
<1> DEFINE n == Len(wait_rx) + 1
           b == wait_tx[1]
           answer == [first |-> b.first, last |-> b.last, gen |-> b.gen, ok |-> ok]
<1>1. /\ Types /\ Chain /\ InLine /\ Spans /\ Awaited /\ Truthful /\ Roots /\ Certificates
      /\ wait_tx # <<>> /\ wait_tx' = Tail(wait_tx)
      /\ wait_rx' = Append(wait_rx, [first |-> Head(wait_tx).first, last |-> Head(wait_tx).last,
                                     gen |-> Head(wait_tx).gen, ok |-> ok])
      /\ IF ok THEN CanSucceed(Head(wait_tx)) ELSE MustFail(Head(wait_tx))
  BY DEF PipelineInv, Queues, execution_wait_phase
<1>2. /\ UNCHANGED <<buffer, execution_root, signing_root, block_rx, schedule_rx,
                     signing_tx, signing_rx, persisting_tx, persisting_rx,
                     pending_commit_votes, pending_commit_proofs, pending_commit_blocks,
                     highest_committed_round, latest_round, mode, reset_signal, gen,
                     next_round, committed, finished, failed, aborted, latest_logical_time,
                     scenario, own_votes, acked, certified, faults, stale>>
  BY SMT DEF execution_wait_phase, roots, pending, rounds, control, node, history
<1>3. wait_tx \in Seq(Entries) /\ wait_rx \in Seq(Answers)
  BY <1>1 DEF Types
<1>4. /\ Moved(wait_tx, wait_rx) /\ wait_rx'[n] = answer
      /\ wait_tx' \in Seq(Entries) /\ wait_rx' \in Seq(Answers)
      /\ IF ok THEN CanSucceed(b) ELSE MustFail(b)
  <2>1. Head(wait_tx) = b /\ b \in Entries
    BY <1>1, <1>3, SMT
  <2>2. answer \in Answers
    BY <2>1, SMT DEF Entries, Answers
  <2>3. /\ wait_rx' = Append(wait_rx, answer)
        /\ IF ok THEN CanSucceed(b) ELSE MustFail(b)
    BY <1>1, <2>1
  <2> HIDE DEF answer
  <2>4. /\ 1 \in DOMAIN wait_tx /\ wait_tx' \in Seq(Entries)
        /\ \A i \in DOMAIN wait_tx' : /\ 1 < i + 1 /\ i + 1 \in DOMAIN wait_tx
                                      /\ wait_tx'[i] = wait_tx[i + 1]
        /\ \A i, j \in DOMAIN wait_tx' : i < j => i + 1 < j + 1
        /\ \A i \in DOMAIN wait_tx :
             i = 1 \/ (i - 1 \in DOMAIN wait_tx' /\ wait_tx'[i - 1] = wait_tx[i])
    BY <1>1, <1>3, SMT
  <2>5. /\ n \in DOMAIN wait_rx' /\ wait_rx'[n] = answer /\ wait_rx' \in Seq(Answers)
        /\ \A i \in DOMAIN wait_rx : /\ i \in DOMAIN wait_rx' /\ wait_rx'[i] = wait_rx[i]
                                     /\ i < n /\ ~ (n < i)
        /\ \A i \in DOMAIN wait_rx' : (i \in DOMAIN wait_rx /\ wait_rx'[i] = wait_rx[i]) \/ i = n
        /\ ~ (n < n)
    BY <1>3, <2>2, <2>3, SMT
  <2> QED BY <2>3, <2>4, <2>5 DEF Moved
<1>5. /\ n \in DOMAIN wait_rx' /\ 1 \in DOMAIN wait_tx
      /\ \A i \in DOMAIN wait_tx' : /\ 1 < i + 1 /\ i + 1 \in DOMAIN wait_tx
                                    /\ wait_tx'[i] = wait_tx[i + 1]
      /\ \A i, j \in DOMAIN wait_tx' : i < j => i + 1 < j + 1
      /\ \A i \in DOMAIN wait_rx' : (i \in DOMAIN wait_rx /\ wait_rx'[i] = wait_rx[i]) \/ i = n
      /\ \A i \in DOMAIN wait_rx : i \in DOMAIN wait_rx' /\ wait_rx'[i] = wait_rx[i] /\ ~ (n < i)
      /\ ~ (n < n)
  BY <1>4 DEF Moved
<1>6. /\ wait_rx'[n].first = b.first /\ wait_rx'[n].last = b.last /\ wait_rx'[n].gen = b.gen
      /\ wait_rx'[n].ok = ok
  BY <1>4, SMT
<1> HIDE DEF n, b, answer
<1>a. Ours(wait_rx'[n]) <=> Ours(b)
  BY <1>6 DEF Ours
<1>7. Types'
  BY <1>1, <1>2, <1>4 DEF Types
<1>8. Chain' /\ Roots' /\ Certificates'
  BY <1>1, <1>2, ChainSame, RootsSame, CertificatesSame
<1>9. InLine'
  <2> /\ Increasing(wait_tx) /\ Increasing(wait_rx) /\ Before(wait_rx, wait_tx)
      /\ Before(wait_rx, schedule_rx) /\ Before(wait_rx, block_rx)
      /\ Before(wait_tx, schedule_rx) /\ Before(wait_tx, block_rx)
    BY <1>1 DEF InLine
  <2>1. Increasing(block_rx)' /\ Increasing(schedule_rx)' /\ Before(schedule_rx, block_rx)'
    BY <1>1, <1>2 DEF InLine, Increasing, Before, Ours
  <2>2. Increasing(wait_tx)'
    <3>1. ASSUME NEW i \in DOMAIN wait_tx', NEW j \in DOMAIN wait_tx', i < j,
                 Ours(wait_tx'[i]), Ours(wait_tx'[j])
          PROVE  wait_tx'[i].last < wait_tx'[j].first
      <4>1. /\ i + 1 \in DOMAIN wait_tx /\ j + 1 \in DOMAIN wait_tx /\ i + 1 < j + 1
            /\ wait_tx'[i] = wait_tx[i + 1] /\ wait_tx'[j] = wait_tx[j + 1]
        BY <1>5, <3>1
      <4> QED BY <3>1, <4>1 DEF Increasing
    <3> QED BY <1>2, <3>1 DEF Increasing, Ours
  <2>3. Before(wait_tx, schedule_rx)'
    <3>1. \A i \in DOMAIN wait_tx', j \in DOMAIN schedule_rx :
             Ours(wait_tx'[i]) /\ Ours(schedule_rx[j]) => wait_tx'[i].last < schedule_rx[j].first
      BY <1>5, ZenonT(30) DEF Before
    <3> QED BY <1>2, <3>1 DEF Before, Ours
  <2>4. Before(wait_tx, block_rx)'
    <3>1. \A i \in DOMAIN wait_tx', j \in DOMAIN block_rx :
             Ours(wait_tx'[i]) /\ Ours(block_rx[j]) => wait_tx'[i].last < block_rx[j].first
      BY <1>5 DEF Before
    <3> QED BY <1>2, <3>1 DEF Before, Ours
  <2>5. Increasing(wait_rx)'
    <3>1. \A i, j \in DOMAIN wait_rx' : i < j => i \in DOMAIN wait_rx /\ wait_rx'[i] = wait_rx[i]
      BY <1>5
    <3>2. \A i \in DOMAIN wait_rx : Ours(wait_rx[i]) /\ Ours(b) => wait_rx[i].last < b.first
      BY <1>5 DEF Before, b
    <3>3. ASSUME NEW i \in DOMAIN wait_rx', NEW j \in DOMAIN wait_rx', i < j,
                 Ours(wait_rx'[i]), Ours(wait_rx'[j])
          PROVE  wait_rx'[i].last < wait_rx'[j].first
      <4>1. i \in DOMAIN wait_rx /\ wait_rx'[i] = wait_rx[i]
        BY <3>1, <3>3
      <4>2. CASE j = n
        BY <1>6, <1>a, <3>2, <3>3, <4>1, <4>2
      <4>3. CASE j \in DOMAIN wait_rx /\ wait_rx'[j] = wait_rx[j]
        BY <3>3, <4>1, <4>3 DEF Increasing
      <4> QED BY <1>5, <4>2, <4>3
    <3> QED BY <1>2, <3>3 DEF Increasing, Ours
  <2>6. Before(wait_rx, schedule_rx)' /\ Before(wait_rx, block_rx)'
    <3>1. /\ \A i \in DOMAIN schedule_rx : Ours(b) /\ Ours(schedule_rx[i]) => b.last < schedule_rx[i].first
          /\ \A i \in DOMAIN block_rx : Ours(b) /\ Ours(block_rx[i]) => b.last < block_rx[i].first
      BY <1>5 DEF Before, b
    <3>2. \A i \in DOMAIN wait_rx', j \in DOMAIN schedule_rx :
             Ours(wait_rx'[i]) /\ Ours(schedule_rx[j]) => wait_rx'[i].last < schedule_rx[j].first
      BY <1>5, <1>6, <1>a, <3>1 DEF Before
    <3>3. \A i \in DOMAIN wait_rx', j \in DOMAIN block_rx :
             Ours(wait_rx'[i]) /\ Ours(block_rx[j]) => wait_rx'[i].last < block_rx[j].first
      BY <1>5, <1>6, <1>a, <3>1 DEF Before
    <3> QED BY <1>2, <3>2, <3>3 DEF Before, Ours
  <2>7. Before(wait_rx, wait_tx)'
    <3>1. \A i \in DOMAIN wait_tx' :
            Ours(b) /\ Ours(wait_tx'[i]) => b.last < wait_tx'[i].first
      BY <1>5 DEF Increasing, b
    <3>2. \A j \in DOMAIN wait_rx : \A i \in DOMAIN wait_tx' :
            Ours(wait_rx[j]) /\ Ours(wait_tx'[i]) => wait_rx[j].last < wait_tx'[i].first
      BY <1>5 DEF Before
    <3>3. \A j \in DOMAIN wait_rx' : \A i \in DOMAIN wait_tx' :
            Ours(wait_rx'[j]) /\ Ours(wait_tx'[i]) => wait_rx'[j].last < wait_tx'[i].first
      BY <1>5, <1>6, <1>a, <3>1, <3>2
    <3> QED BY <1>2, <3>3 DEF Before, Ours
  <2> QED BY <2>1, <2>2, <2>3, <2>4, <2>5, <2>6, <2>7 DEF InLine
<1>10. Spans'
  <2>1. Queued(b)
    BY <1>1, <1>5 DEF Spans, b
  <2>2. Queued(wait_rx'[n])
    BY <1>6, <2>1 DEF Queued, Ours
  <2>3. /\ \A i \in DOMAIN block_rx' : Queued(block_rx'[i])
        /\ \A i \in DOMAIN wait_rx' : Queued(wait_rx'[i])
        /\ \A i \in DOMAIN schedule_rx' : Queued(schedule_rx'[i])
        /\ \A i \in DOMAIN wait_tx' : Queued(wait_tx'[i])
    BY <1>1, <1>2, <1>5, <2>2 DEF Spans
  <2> QED BY <1>2, <2>3, ZenonT(30) DEF Spans, Queued, Ours
<1>11. Awaited'
  <2>1. ASSUME NEW i \in DOMAIN buffer, Waiting(buffer[i]) PROVE Waiting(buffer[i])'
    <3>1. CASE \E j \in DOMAIN wait_tx : Ours(wait_tx[j]) /\ wait_tx[j].last = buffer[i].last
      <4>1. PICK j \in DOMAIN wait_tx : Ours(wait_tx[j]) /\ wait_tx[j].last = buffer[i].last
        BY <3>1
      <4>2. CASE j = 1
        BY <1>2, <1>5, <1>6, <4>1, <4>2 DEF Waiting, Ours, b
      <4>3. CASE j # 1
        <5>1. j - 1 \in DOMAIN wait_tx' /\ wait_tx'[j - 1] = wait_tx[j]
          BY <1>4, <4>3 DEF Moved
        <5> QED BY <1>2, <4>1, <5>1 DEF Waiting, Ours
      <4> QED BY <4>2, <4>3
    <3>2. CASE \E j \in DOMAIN wait_rx : Ours(wait_rx[j]) /\ wait_rx[j].last = buffer[i].last
      <4>1. PICK j \in DOMAIN wait_rx : Ours(wait_rx[j]) /\ wait_rx[j].last = buffer[i].last
        BY <3>2
      <4> QED BY <1>2, <1>5, <4>1 DEF Waiting, Ours
    <3>3. CASE \/ \E j \in DOMAIN schedule_rx : /\ Ours(schedule_rx[j])
                                                 /\ schedule_rx[j].last = buffer[i].last
               \/ buffer[i].last >= failed
      BY <1>2, <3>3 DEF Waiting, Ours
    <3> QED BY <2>1, <3>1, <3>2, <3>3 DEF Waiting
  <2> QED BY <1>1, <1>2, <2>1 DEF Awaited
<1>12. Truthful'
  <2>1. ASSUME NEW j \in DOMAIN buffer, Ours(wait_rx'[n]), wait_rx'[n].last = buffer[j].last
        PROVE  IF wait_rx'[n].ok THEN wait_rx'[n].last < failed ELSE wait_rx'[n].last >= failed
    <3>1. ~ Aborting
      BY <1>1, <2>1, SMT DEF Chain, Aborting
    <3> QED BY <1>4, <1>6, <1>a, <2>1, <3>1 DEF CanSucceed, MustFail, Ours
  <2>2. \A i \in DOMAIN wait_rx' : \A j \in DOMAIN buffer :
          Ours(wait_rx'[i]) /\ wait_rx'[i].last = buffer[j].last =>
            IF wait_rx'[i].ok THEN wait_rx'[i].last < failed ELSE wait_rx'[i].last >= failed
    BY <1>1, <1>5, <2>1 DEF Truthful
  <2> QED BY <1>2, <2>2 DEF Truthful, Ours
<1>13. ASSUME NEW r, Done(r) PROVE Done(r)'
  <2>1. /\ \A i \in DOMAIN wait_tx' : Ours(wait_tx'[i]) => r < wait_tx'[i].first
        /\ Ours(b) => r < b.first
    BY <1>5, <1>13 DEF Done, After, b
  <2>2. \A i \in DOMAIN wait_rx' : Ours(wait_rx'[i]) => r < wait_rx'[i].first
    BY <1>5, <1>6, <1>a, <1>13, <2>1 DEF Done, After
  <2> QED BY <1>2, <1>13, <2>1, <2>2 DEF Done, After, Ours
<1>14. ASSUME ~ stale'
       PROVE  InOrder' /\ Persisting' /\ Committed' /\ Pressure' /\ VotesKept'
  <2>1. InOrder /\ Persisting /\ Committed /\ Pressure /\ VotesKept
    BY <1>2, <1>14 DEF PipelineInv, Fresh
  <2>2. Committed' /\ Pressure' /\ VotesKept'
    BY <1>2, <2>1, CommittedSame, PressureSame, VotesKeptSame
  <2>3. InOrder'
    BY <1>2, <1>13, <2>1 DEF InOrder
  <2>4. Persisting'
    <3>1. \A k \in DOMAIN persisting_tx : Done(persisting_tx[k].target)'
      BY <1>2, <1>13, <2>1 DEF Persisting
    <3> QED BY <1>2, <2>1, <3>1, PersistingDone
  <2> QED BY <2>2, <2>3, <2>4
<1> QED BY <1>7, <1>8, <1>9, <1>10, <1>11, <1>12, <1>14 DEF PipelineInv, Queues, Fresh

(* An execution fails: every answer before it is for blocks before it.     *)
LEMMA ExecutionFails ==
  ASSUME PipelineInv, NEW r \in Round, execution_fails(r)
  PROVE  PipelineInv'
<1>1. /\ Types /\ Chain /\ InLine /\ Spans /\ Awaited /\ Truthful /\ Roots /\ Certificates
      /\ failed > MaxRound /\ wait_tx # <<>> /\ Head(wait_tx).gen = gen
      /\ r \in Head(wait_tx).first..Head(wait_tx).last /\ failed' = r
      /\ faults' = faults \/ faults' = faults + 1
  BY DEF PipelineInv, Queues, execution_fails
<1>2. /\ UNCHANGED <<buffer, execution_root, signing_root, block_rx, schedule_rx,
                     wait_tx, wait_rx, signing_tx, signing_rx, persisting_tx,
                     persisting_rx, pending_commit_votes, pending_commit_proofs,
                     pending_commit_blocks, highest_committed_round, latest_round, mode,
                     reset_signal, gen, next_round, committed, finished, aborted,
                     latest_logical_time, scenario, own_votes, acked, certified, stale>>
  BY SMT DEF execution_fails, roots, channels, pending, rounds, control
<1>3. /\ 1 \in DOMAIN wait_tx /\ Ours(wait_tx[1]) /\ wait_tx[1].first <= r
      /\ wait_tx[1].first \in Nat /\ r \in Nat /\ r \in 1..(MaxRound + 1) /\ faults' \in Nat
  <2>1. wait_tx \in Seq(Entries) /\ faults \in Nat
    BY <1>1 DEF Types
  <2>2. 1 \in DOMAIN wait_tx /\ Head(wait_tx) = wait_tx[1]
    BY <1>1, <2>1, SMT
  <2>3. wait_tx[1].first \in Nat /\ wait_tx[1].last \in Nat
    BY <1>1, <2>2, EntryTypes
  <2>4. r \in wait_tx[1].first..wait_tx[1].last
    BY <1>1, <2>2
  <2> QED BY <1>1, <2>1, <2>2, <2>3, <2>4, BoundAssumption, SMT DEF Round, Ours
<1>4. Types'
  BY <1>1, <1>2, <1>3 DEF Types
<1>5. Chain' /\ InLine' /\ Spans' /\ Roots' /\ Certificates'
  BY <1>1, <1>2, ChainSame, InLineSame, SpansSame, RootsSame, CertificatesSame
<1>6. \A i \in DOMAIN buffer : ~ (buffer[i].last >= failed)
  <2>1. \A i \in DOMAIN buffer : buffer[i].last \in Round
    BY <1>1, BufferSorted
  <2>2. failed \in Nat
    BY <1>1, NumberTypes
  <2> QED BY <1>1, <2>1, <2>2, BoundAssumption, SMT DEF Round
<1>7. Awaited'
  <2>1. \A i \in DOMAIN buffer : Waiting(buffer[i]) => Waiting(buffer[i])'
    BY <1>2, <1>6 DEF Waiting, Ours
  <2> QED BY <1>1, <1>2, <2>1 DEF Awaited
<1>8. Truthful'
  <2>1. ASSUME NEW i \in DOMAIN wait_rx, NEW j \in DOMAIN buffer,
               Ours(wait_rx[i]), wait_rx[i].last = buffer[j].last
        PROVE  wait_rx[i].ok /\ wait_rx[i].last < r
    <3>1. wait_rx[i].ok
      BY <1>1, <1>6, <2>1 DEF Truthful
    <3>2. wait_rx[i].last < wait_tx[1].first
      BY <1>1, <1>3, <2>1 DEF InLine, Before
    <3>3. wait_rx[i].last \in Nat
      BY <1>1, EntryTypes
    <3> QED BY <1>3, <3>1, <3>2, <3>3, SMT
  <2> QED BY <1>1, <1>2, <2>1 DEF Truthful, Ours
<1>9. ASSUME NEW d \in Nat, Done(d) PROVE Done(d)'
  <2>1. d < r
    <3>1. d < wait_tx[1].first
      BY <1>3, <1>9 DEF Done, After
    <3> QED BY <1>3, <1>9, <3>1, SMT
  <2> QED BY <1>1, <1>2, <1>9, <2>1 DEF Done, After, Ours
<1>10. ASSUME ~ stale'
       PROVE  InOrder' /\ Persisting' /\ Committed' /\ Pressure' /\ VotesKept'
  <2>1. InOrder /\ Persisting /\ Committed /\ Pressure /\ VotesKept
    BY <1>2, <1>10 DEF PipelineInv, Fresh
  <2>2. Committed' /\ Pressure' /\ VotesKept'
    BY <1>2, <2>1, CommittedSame, PressureSame, VotesKeptSame
  <2>3. InOrder'
    <3>1. \A i \in DOMAIN buffer : Executed(buffer[i]) => Done(buffer[i].last)'
      BY <1>1, <1>2, <1>9, <2>1, BufferSorted DEF InOrder
    <3> QED BY <1>2, <2>1, <3>1 DEF InOrder
  <2>4. Persisting'
    <3>1. \A k \in DOMAIN persisting_tx : Done(persisting_tx[k].target)'
      BY <1>1, <1>2, <1>9, <2>1, RequestTypes DEF Persisting
    <3>2. Unaborted'
      <4>1. aborted >= failed => aborted >= r
        BY <1>1, <1>3, NumberTypes, BoundAssumption, SMT DEF Round
      <4> QED BY <1>1, <1>2, <2>1, <4>1 DEF Persisting, Unaborted, Draining
    <3> QED BY <1>2, <2>1, <3>1, <3>2, PersistingDone
  <2> QED BY <2>2, <2>3, <2>4
<1> QED BY <1>4, <1>5, <1>7, <1>8, <1>10 DEF PipelineInv, Queues, Fresh

-----------------------------------------------------------------------------
(* The block store and the ledger.                                         *)

(* The block store sends the next blocks of the chain.                     *)
LEMMA FinalizeOrder ==
  ASSUME PipelineInv, NEW k \in 1..MaxBatch, finalize_order(k)
  PROVE  PipelineInv'
<1> DEFINE n == Len(block_rx) + 1
<1>b. PICK b : b = [first |-> next_round, last |-> next_round + k - 1, gen |-> gen]
  OBVIOUS
<1>1. /\ Types /\ Chain /\ InLine /\ Spans /\ Awaited /\ Truthful /\ Roots /\ Certificates
      /\ mode = "tasks" => ~ (reset_signal > 0)
      /\ next_round + k - 1 <= scenario.rounds
      /\ block_rx' = Append(block_rx, b) /\ next_round' = next_round + k
  <2>1. mode = "run" \/ (mode \in {"commits", "tasks"} /\ reset_signal = 0)
    BY DEF finalize_order
  <2>2. mode = "tasks" => ~ (reset_signal > 0)
    BY <2>1, SMT
  <2> QED BY <1>b, <2>2 DEF PipelineInv, Queues, finalize_order
<1>2. /\ UNCHANGED <<buffer, execution_root, signing_root, schedule_rx, wait_tx,
                     wait_rx, signing_tx, signing_rx, persisting_tx, persisting_rx,
                     pending_commit_votes, pending_commit_proofs, pending_commit_blocks,
                     highest_committed_round, latest_round, mode, reset_signal, gen,
                     committed, finished, failed, aborted, latest_logical_time,
                     scenario, own_votes, acked, certified,
                     faults, stale>>
  BY SMT DEF finalize_order, roots, channels, pending, rounds, control, history
<1>3. /\ block_rx \in Seq(Entries) /\ gen \in Nat /\ next_round \in 1..(MaxRound + 1)
      /\ next_round \in Nat
  BY <1>1, NumberTypes DEF Types
<1>4. /\ next_round \in Round /\ next_round + k - 1 \in Round /\ next_round <= next_round + k - 1
      /\ next_round' \in 1..(MaxRound + 1) /\ next_round + k - 1 < next_round'
      /\ next_round' \in Nat /\ next_round < next_round'
  <2>1. scenario.rounds \in 1..MaxRound
    BY <1>1, NumberTypes
  <2> QED BY <1>1, <1>3, <2>1, BoundAssumption, SMT DEF Round
<1>5. /\ b \in Entries /\ b.first = next_round /\ b.last = next_round + k - 1 /\ b.gen = gen
  BY <1>b, <1>3, <1>4, SMT DEF Entries
<1>6. /\ block_rx' \in Seq(Entries) /\ n \in DOMAIN block_rx' /\ block_rx'[n] = b
      /\ \A i \in DOMAIN block_rx' : (i \in DOMAIN block_rx /\ block_rx'[i] = block_rx[i]) \/ i = n
      /\ \A i \in DOMAIN block_rx : ~ (n < i)
      /\ ~ (n < n)
  BY <1>1, <1>3, <1>5, SMTT(30)
<1> HIDE DEF n
<1>7. Types'
  BY <1>1, <1>2, <1>4, <1>6 DEF Types
<1>8. \A x \in Nat : x < next_round => x < next_round'
  BY <1>3, <1>4, SMT
<1>9. Chain'
  <2>1. \A i \in DOMAIN buffer : buffer[i].last < next_round /\ buffer[i].last < next_round'
    BY <1>1, <1>8, BufferSorted DEF Chain
  <2>2. \A l \in DOMAIN persisting_tx : /\ persisting_tx[l].target < next_round
                                        /\ persisting_tx[l].target < next_round'
    BY <1>1, <1>8, RequestTypes DEF Chain
  <2>3. \A i \in DOMAIN block_rx' : Ours(block_rx'[i]) /\ block_rx'[i].first <= block_rx'[i].last
    BY <1>1, <1>4, <1>5, <1>6 DEF Chain, Ours
  <2>4. \A i \in DOMAIN buffer, j \in DOMAIN block_rx' : buffer[i].last < block_rx'[j].first
    BY <1>1, <1>5, <1>6, <2>1 DEF Chain
  <2>5. \A l \in DOMAIN persisting_tx, j \in DOMAIN block_rx' :
          persisting_tx[l].target < block_rx'[j].first
    BY <1>1, <1>5, <1>6, <2>2 DEF Chain
  <2> QED BY <1>1, <1>2, <2>1, <2>2, <2>3, <2>4, <2>5 DEF Chain, Ours
<1>10. InLine'
  <2>1. /\ \A i \in DOMAIN block_rx : Ours(block_rx[i]) => block_rx[i].last < b.first
        /\ \A i \in DOMAIN schedule_rx : Ours(schedule_rx[i]) => schedule_rx[i].last < b.first
        /\ \A i \in DOMAIN wait_tx : Ours(wait_tx[i]) => wait_tx[i].last < b.first
        /\ \A i \in DOMAIN wait_rx : Ours(wait_rx[i]) => wait_rx[i].last < b.first
    BY <1>1, <1>5 DEF Spans, Queued
  <2>2. /\ Increasing(schedule_rx)' /\ Increasing(wait_tx)' /\ Increasing(wait_rx)'
        /\ Before(wait_rx, wait_tx)' /\ Before(wait_rx, schedule_rx)'
        /\ Before(wait_tx, schedule_rx)'
    BY <1>1, <1>2 DEF InLine, Increasing, Before, Ours
  <2> /\ Increasing(block_rx) /\ Before(wait_rx, block_rx) /\ Before(wait_tx, block_rx)
      /\ Before(schedule_rx, block_rx)
    BY <1>1 DEF InLine
  <2>3. Increasing(block_rx)'
    <3>1. \A i, j \in DOMAIN block_rx' : i < j /\
             Ours(block_rx'[i]) /\ Ours(block_rx'[j]) => block_rx'[i].last < block_rx'[j].first
      <4>1. \A i, j \in DOMAIN block_rx' : i < j => i \in DOMAIN block_rx /\ block_rx'[i] = block_rx[i]
        BY <1>6
      <4> QED BY <1>6, <2>1, <4>1 DEF Increasing
    <3> QED BY <1>2, <3>1 DEF Increasing, Ours
  <2>4. Before(wait_rx, block_rx)'
    <3>1. \A i \in DOMAIN wait_rx, j \in DOMAIN block_rx' :
             Ours(wait_rx[i]) /\ Ours(block_rx'[j]) => wait_rx[i].last < block_rx'[j].first
      BY <1>6, <2>1 DEF Before
    <3> QED BY <1>2, <3>1 DEF Before, Ours
  <2>5. Before(wait_tx, block_rx)'
    <3>1. \A i \in DOMAIN wait_tx, j \in DOMAIN block_rx' :
             Ours(wait_tx[i]) /\ Ours(block_rx'[j]) => wait_tx[i].last < block_rx'[j].first
      BY <1>6, <2>1 DEF Before
    <3> QED BY <1>2, <3>1 DEF Before, Ours
  <2>6. Before(schedule_rx, block_rx)'
    <3>1. \A i \in DOMAIN schedule_rx, j \in DOMAIN block_rx' :
             Ours(schedule_rx[i]) /\ Ours(block_rx'[j]) => schedule_rx[i].last < block_rx'[j].first
      BY <1>6, <2>1 DEF Before
    <3> QED BY <1>2, <3>1 DEF Before, Ours
  <2> QED BY <2>2, <2>3, <2>4, <2>5, <2>6 DEF InLine
<1>11. Spans'
  <2>1. ASSUME NEW e, e.last \in Nat, Queued(e) PROVE Queued(e)'
    BY <1>2, <1>8, <2>1 DEF Queued, Ours
  <2>2. Queued(b)'
    <3>1. \A i \in DOMAIN buffer : buffer[i].last # b.last
      <4>1. \A i \in DOMAIN buffer : buffer[i].last < next_round /\ buffer[i].last \in Nat
        BY <1>1, BufferSorted DEF Chain
      <4> QED BY <1>3, <1>5, <4>1, SMT
    <3>2. b.gen <= gen /\ b.first <= b.last /\ b.last < next_round'
      BY <1>3, <1>4, <1>5, SMT
    <3> QED BY <1>2, <3>1, <3>2 DEF Queued, Ours
  <2>3. \A i \in DOMAIN block_rx' : Queued(block_rx[i])'
    BY <1>1, <1>6, <2>1, <2>2, EntryTypes DEF Spans
  <2>4. \A i \in DOMAIN schedule_rx' : Queued(schedule_rx[i])'
    BY <1>1, <1>2, <2>1, EntryTypes DEF Spans
  <2>5. \A i \in DOMAIN wait_tx' : Queued(wait_tx[i])'
    BY <1>1, <1>2, <2>1, EntryTypes DEF Spans
  <2>6. \A i \in DOMAIN wait_rx' : Queued(wait_rx[i])'
    BY <1>1, <1>2, <2>1, EntryTypes DEF Spans
  <2> QED BY <2>3, <2>4, <2>5, <2>6 DEF Spans
<1>12. Awaited' /\ Truthful' /\ Roots' /\ Certificates'
  BY <1>1, <1>2, AwaitedSame, TruthfulSame, RootsSame, CertificatesSame
<1>13. ASSUME ~ stale'
       PROVE  InOrder' /\ Persisting' /\ Committed' /\ Pressure' /\ VotesKept'
  <2>1. InOrder /\ Persisting /\ Committed /\ Pressure /\ VotesKept
    BY <1>2, <1>13 DEF PipelineInv, Fresh
  <2>2. Persisting' /\ Committed' /\ Pressure' /\ VotesKept'
    BY <1>2, <2>1, PersistingSame, CommittedSame, PressureSame, VotesKeptSame
  <2>3. InOrder'
    <3>1. committed < next_round /\ committed < next_round'
      BY <1>1, <1>8, <2>1, NumberTypes DEF InOrder
    <3>2. \A i \in DOMAIN block_rx' : committed < block_rx'[i].first
      BY <1>5, <1>6, <2>1, <3>1 DEF InOrder
    <3>3. \A i \in DOMAIN buffer : Executed(buffer[i]) => Done(buffer[i].last)'
      BY <1>2, <2>1 DEF InOrder, Done, After, Ours
    <3> QED BY <1>2, <2>1, <3>1, <3>2, <3>3 DEF InOrder
  <2> QED BY <2>2, <2>3
<1> QED BY <1>7, <1>9, <1>10, <1>11, <1>12, <1>13 DEF PipelineInv, Queues, Fresh

(* What is written to the ledger.                                          *)
LEMMA MaxOfTwo ==
  ASSUME NEW x \in 0..MaxRound, NEW y \in 0..MaxRound
  PROVE  Max({x, y}) = IF x < y THEN y ELSE x
<1>1. x \in Nat /\ y \in Nat
  BY BoundAssumption, SMT
<1> DEFINE m == CHOOSE z \in {x, y} : \A w \in {x, y} : z >= w
<1>2. \E z \in {x, y} : \A w \in {x, y} : z >= w
  BY <1>1, SMT
<1>3. m \in {x, y} /\ \A w \in {x, y} : m >= w
  BY <1>2
<1> HIDE DEF m
<1>4. m = IF x < y THEN y ELSE x
  BY <1>1, <1>3, SMT
<1> QED BY <1>4 DEF m, Max

(* The head of the requests, and what is left.                             *)
LEMMA RequestTaken ==
  ASSUME Types, persisting_tx # <<>>, persisting_tx' = Tail(persisting_tx)
  PROVE  /\ 1 \in DOMAIN persisting_tx /\ Head(persisting_tx) = persisting_tx[1]
         /\ persisting_tx' \in Seq(Requests)
         /\ \A i \in DOMAIN persisting_tx' : /\ i + 1 \in DOMAIN persisting_tx /\ 1 < i + 1
                                             /\ persisting_tx'[i] = persisting_tx[i + 1]
         /\ \A i, j \in DOMAIN persisting_tx' : i < j => i + 1 < j + 1
         /\ \A i \in DOMAIN persisting_tx :
              i = 1 \/ (i - 1 \in DOMAIN persisting_tx' /\ persisting_tx'[i - 1] = persisting_tx[i])
<1>1. persisting_tx \in Seq(Requests)
  BY RequestTypes
<1> QED BY <1>1, SMT

(* What the persisting phase writes to the ledger.                         *)
LEMMA PersistingWrites ==
  ASSUME NumbersOrdered, Types, persisting_phase
  PROVE  /\ finished' \in 0..MaxRound /\ committed' \in 0..MaxRound
         /\ \/ committed' = committed
            \/ committed' = persisting_tx[1].target /\ committed < committed'
         /\ Persisting /\ Chain => /\ finished' = persisting_tx[1].target
                                   /\ committed' = persisting_tx[1].target
                                   /\ committed < committed'
<1>1. persisting_tx # <<>> /\ persisting_tx' = Tail(persisting_tx)
  BY DEF persisting_phase
<1>2. 1 \in DOMAIN persisting_tx /\ Head(persisting_tx) = persisting_tx[1]
  BY <1>1, RequestTaken
<1>3. PICK live : live = {b.round : b \in Live(persisting_tx[1])}
  OBVIOUS
<1>4. PICK t : t = persisting_tx[1].target
  BY SMT
<1>5. /\ finished' = Max(live \cup {finished})
      /\ committed' = IF t \in live THEN Max({committed, t}) ELSE committed
  BY <1>2, <1>3, <1>4 DEF persisting_phase
<1>6. /\ t \in Round /\ t \in 0..MaxRound /\ t \in Nat /\ live \subseteq 0..MaxRound
      /\ finished \in 0..MaxRound /\ committed \in 0..MaxRound
      /\ finished \in Nat /\ committed \in Nat
  <2>1. \A b \in persisting_tx[1].blocks : b.round \in Round
    BY <1>2, RequestTypes
  <2>2. live \subseteq Round
    BY <1>3, <2>1 DEF Live
  <2>3. t \in Round
    BY <1>2, <1>4, RequestTypes
  <2>4. finished \in 0..MaxRound /\ committed \in 0..MaxRound
    BY DEF Types
  <2> QED BY <2>2, <2>3, <2>4, BoundAssumption, SMT DEF Round
<1>7. Max({committed, t}) = IF committed < t THEN t ELSE committed
  BY <1>6, MaxOfTwo
<1>8. committed' \in 0..MaxRound /\ (committed' = committed \/ (committed' = t /\ committed < committed'))
  BY <1>5, <1>6, <1>7, SMT
<1>9. PICK f : f = finished'
  BY SMT
<1>10. /\ f \in live \cup {finished} /\ \A x \in live \cup {finished} : x <= f
       /\ f \in 0..MaxRound
  <2>1. live \cup {finished} \subseteq 0..MaxRound /\ live \cup {finished} # {} /\ MaxRound \in Nat
    BY <1>6, BoundAssumption, SMT
  <2>2. /\ Max(live \cup {finished}) \in live \cup {finished}
        /\ \A x \in live \cup {finished} : x <= Max(live \cup {finished})
    BY <2>1, Greatest
  <2> QED BY <1>5, <1>9, <2>1, <2>2
<1>11. ASSUME Persisting, Chain
       PROVE  f = t /\ committed' = t /\ committed < committed'
  <2>1. /\ [round |-> t, gen |-> gen] \in persisting_tx[1].blocks
        /\ finished = committed /\ t < failed /\ aborted >= failed
        /\ \A b \in persisting_tx[1].blocks : committed < b.round /\ b.round <= t
    BY <1>1, <1>2, <1>4, <1>11 DEF Persisting, Done, Unaborted
  <2>2. t \in live
    <3>1. [round |-> t, gen |-> gen].round = t /\ [round |-> t, gen |-> gen].gen = gen
      BY SMT
    <3>2. ~ (t >= failed) /\ ~ (t >= aborted)
      BY <1>6, <2>1, NumberTypes, SMT
    <3>3. [round |-> t, gen |-> gen] \in Live(persisting_tx[1])
      BY <2>1, <3>1, <3>2 DEF Live, CommitFails
    <3> QED BY <1>3, <3>1, <3>3
  <2>3. \A x \in live : committed < x /\ x <= t
    BY <1>3, <2>1 DEF Live
  <2> QED BY <1>5, <1>6, <1>7, <1>10, <2>1, <2>2, <2>3, SMT
<1> QED BY <1>4, <1>8, <1>9, <1>10, <1>11

(* The persisting phase serves a request.                                  *)
LEMMA PersistingPhase ==
  ASSUME NumbersOrdered, PipelineInv, persisting_phase
  PROVE  PipelineInv'
<1> DEFINE n == Len(persisting_rx) + 1
<1>1. /\ Types /\ Chain /\ InLine /\ Spans /\ Awaited /\ Truthful /\ Roots /\ Certificates
      /\ persisting_tx # <<>> /\ persisting_tx' = Tail(persisting_tx)
      /\ persisting_rx' = Append(persisting_rx, [round |-> Head(persisting_tx).target, gen |-> gen])
  BY DEF PipelineInv, Queues, persisting_phase
<1>2. /\ UNCHANGED <<buffer, execution_root, signing_root, block_rx, schedule_rx,
                     wait_tx, wait_rx, signing_tx, signing_rx, pending_commit_votes,
                     pending_commit_proofs, pending_commit_blocks,
                     highest_committed_round, latest_round, mode, reset_signal, gen,
                     next_round, failed, aborted, latest_logical_time, scenario, own_votes,
                     acked, certified, faults, stale>>
  BY SMT DEF persisting_phase, roots, pending, rounds, control, history
<1>3. /\ 1 \in DOMAIN persisting_tx /\ Head(persisting_tx) = persisting_tx[1]
      /\ persisting_tx' \in Seq(Requests)
      /\ \A i \in DOMAIN persisting_tx' : /\ i + 1 \in DOMAIN persisting_tx /\ 1 < i + 1
                                          /\ persisting_tx'[i] = persisting_tx[i + 1]
      /\ \A i, j \in DOMAIN persisting_tx' : i < j => i + 1 < j + 1
      /\ \A i \in DOMAIN persisting_tx :
           i = 1 \/ (i - 1 \in DOMAIN persisting_tx' /\ persisting_tx'[i - 1] = persisting_tx[i])
  BY <1>1, RequestTaken
<1>4. PICK t : t = persisting_tx[1].target
  BY SMT
<1>5. /\ t \in Round /\ t \in Nat /\ committed \in Nat /\ gen \in Nat
      /\ highest_committed_round \in Nat /\ latest_round \in Nat /\ epoch_end \in Nat
      /\ epoch_end' = epoch_end
  BY <1>1, <1>2, <1>3, <1>4, RequestTypes, NumberTypes DEF epoch_end
<1>6. /\ persisting_rx' \in Seq(Blocks) /\ n \in DOMAIN persisting_rx'
      /\ persisting_rx'[n].round = t /\ persisting_rx'[n].gen = gen
      /\ \A i \in DOMAIN persisting_rx : /\ i \in DOMAIN persisting_rx'
                                         /\ persisting_rx'[i] = persisting_rx[i] /\ ~ (n < i)
      /\ \A i \in DOMAIN persisting_rx' :
           (i \in DOMAIN persisting_rx /\ persisting_rx'[i] = persisting_rx[i]) \/ i = n
      /\ ~ (n < n)
  <2>1. persisting_rx \in Seq(Blocks)
    BY <1>1, RequestTypes
  <2>2. PICK a : a = [round |-> t, gen |-> gen]
    OBVIOUS
  <2>3. a \in Blocks /\ a.round = t /\ a.gen = gen
    BY <1>5, <2>2, SMT DEF Blocks
  <2>4. persisting_rx' = Append(persisting_rx, a)
    BY <1>1, <1>3, <1>4, <2>2
  <2>5. /\ persisting_rx' \in Seq(Blocks) /\ n \in DOMAIN persisting_rx' /\ persisting_rx'[n] = a
        /\ \A i \in DOMAIN persisting_rx : /\ i \in DOMAIN persisting_rx'
                                           /\ persisting_rx'[i] = persisting_rx[i] /\ ~ (n < i)
        /\ \A i \in DOMAIN persisting_rx' :
             (i \in DOMAIN persisting_rx /\ persisting_rx'[i] = persisting_rx[i]) \/ i = n
        /\ ~ (n < n)
    BY <2>1, <2>3, <2>4, SMT
  <2> QED BY <2>3, <2>5
<1> HIDE DEF n
<1>7. /\ finished' \in 0..MaxRound /\ committed' \in 0..MaxRound
      /\ Persisting => finished' = t /\ committed' = t /\ committed < t
  BY <1>1, <1>4, PersistingWrites
<1>8. Types'
  BY <1>1, <1>2, <1>3, <1>6, <1>7 DEF Types
<1>9. InLine' /\ Spans' /\ Awaited' /\ Truthful' /\ Roots'
  BY <1>1, <1>2, InLineSame, SpansSame, AwaitedSame, TruthfulSame, RootsSame
<1>10. Chain'
  <2>1. \A k \in DOMAIN persisting_tx' :
          /\ persisting_tx'[k].target < next_round
          /\ \A i \in DOMAIN buffer : persisting_tx'[k].target < buffer[i].first
          /\ \A i \in DOMAIN block_rx : persisting_tx'[k].target < block_rx[i].first
    BY <1>1, <1>3 DEF Chain
  <2> QED BY <1>1, <1>2, <2>1 DEF Chain, Ours
<1>11. Certificates'
  <2>1. \A k \in DOMAIN persisting_tx' : Decided(persisting_tx'[k].target)
    BY <1>1, <1>3 DEF Certificates
  <2>2. \A k \in DOMAIN persisting_tx' : Decided(persisting_tx[k].target)'
    BY <1>2, <2>1 DEF Decided, Certifiers
  <2> QED BY <1>1, <1>2, <2>2 DEF Certificates
<1>12. ASSUME ~ stale'
       PROVE  InOrder' /\ Persisting' /\ Committed' /\ Pressure' /\ VotesKept'
  <2>1. InOrder /\ Persisting /\ Committed /\ Pressure /\ VotesKept
    BY <1>2, <1>12 DEF PipelineInv, Fresh
  <2>2. finished' = t /\ committed' = t /\ committed < t
    BY <1>7, <2>1
  <2>3. InOrder'
    <3>1. /\ \A i \in DOMAIN buffer : t < buffer[i].first
          /\ \A i \in DOMAIN block_rx : t < block_rx[i].first
          /\ t < next_round
      BY <1>1, <1>3, <1>4 DEF Chain
    <3>2. \A i \in DOMAIN buffer : Executed(buffer[i]) => Done(buffer[i].last)'
      BY <1>2, <2>1 DEF InOrder, Done, After, Ours
    <3> QED BY <1>2, <2>1, <2>2, <3>1, <3>2 DEF InOrder
  <2>4. Persisting'
    <3>1. ASSUME NEW k \in DOMAIN persisting_tx'
          PROVE  /\ persisting_tx'[k].executed
                 /\ Done(persisting_tx[k].target)'
                 /\ [round |-> persisting_tx'[k].target, gen |-> gen] \in persisting_tx'[k].blocks
                 /\ persisting_tx'[k].blocks \subseteq pending_commit_blocks
                 /\ \A b \in persisting_tx'[k].blocks :
                      b.gen = gen /\ t < b.round /\ b.round <= persisting_tx'[k].target
      <4>1. k + 1 \in DOMAIN persisting_tx /\ 1 < k + 1 /\ persisting_tx'[k] = persisting_tx[k + 1]
        BY <1>3
      <4>2. Done(persisting_tx[k + 1].target)
        BY <2>1, <4>1 DEF Persisting
      <4>3. Done(persisting_tx[k].target)'
        BY <1>2, <4>1, <4>2 DEF Done, After, Ours
      <4>4. \A b \in persisting_tx[k + 1].blocks : t < b.round
        BY <1>3, <1>4, <2>1, <4>1 DEF Persisting
      <4> QED BY <2>1, <4>1, <4>3, <4>4 DEF Persisting
    <3>2. ASSUME NEW k \in DOMAIN persisting_tx', NEW l \in DOMAIN persisting_tx', k < l,
                 NEW b \in persisting_tx'[l].blocks
          PROVE  persisting_tx'[k].target < b.round
      <4>1. /\ k + 1 \in DOMAIN persisting_tx /\ l + 1 \in DOMAIN persisting_tx /\ k + 1 < l + 1
            /\ persisting_tx'[k] = persisting_tx[k + 1] /\ persisting_tx'[l] = persisting_tx[l + 1]
        BY <1>3, <3>2
      <4> QED BY <2>1, <3>2, <4>1 DEF Persisting
    <3>3. ASSUME NEW b \in pending_commit_blocks
          PROVE  b.round <= t \/ \E k \in DOMAIN persisting_tx' : b \in persisting_tx'[k].blocks
      <4>1. b.round \in Nat
        <5>1. b \in Blocks
          BY <1>1 DEF Types
        <5> QED BY <1>1, <5>1, RequestTypes
      <4>2. CASE b.round <= committed
        BY <1>5, <2>2, <4>1, <4>2, SMT
      <4>3. CASE \E k \in DOMAIN persisting_tx : b \in persisting_tx[k].blocks
        <5>1. PICK k \in DOMAIN persisting_tx : b \in persisting_tx[k].blocks
          BY <4>3
        <5>2. CASE k = 1
          BY <1>4, <2>1, <5>1, <5>2 DEF Persisting
        <5>3. CASE k # 1
          BY <1>3, <5>1, <5>3
        <5> QED BY <5>2, <5>3
      <4> QED BY <2>1, <4>2, <4>3 DEF Persisting
    <3>4. ~ Draining' /\ latest_logical_time <= t /\ Unaborted'
      <4>1. ~ Draining /\ latest_logical_time <= committed /\ Unaborted
        BY <1>1, <2>1 DEF Persisting
      <4>2. latest_logical_time <= t
        BY <1>1, <1>5, <2>2, <4>1, NumberTypes, SMT
      <4> QED BY <1>2, <4>1, <4>2 DEF Draining, Unaborted
    <3>5. ASSUME mode \in {"commits", "tasks"}, reset_signal = 0
          PROVE  /\ epoch_end # None
                 /\ \/ t >= epoch_end
                    \/ \E k \in DOMAIN persisting_tx' : persisting_tx'[k].target >= epoch_end
      <4>1. /\ epoch_end # None
            /\ \/ committed >= epoch_end
               \/ \E k \in DOMAIN persisting_tx : persisting_tx[k].target >= epoch_end
        BY <2>1, <3>5 DEF Persisting
      <4>2. CASE committed >= epoch_end
        BY <1>5, <2>2, <4>1, <4>2, SMT
      <4>3. CASE \E k \in DOMAIN persisting_tx : persisting_tx[k].target >= epoch_end
        BY <1>3, <1>4, <4>1, <4>3
      <4> QED BY <4>1, <4>2, <4>3
    <3> QED BY <1>2, <1>5, <2>2, <3>1, <3>2, <3>3, <3>4, <3>5 DEF Persisting
  <2>5. Committed'
    <3>1. ASSUME NEW i \in DOMAIN persisting_rx
          PROVE  /\ persisting_rx[i].round <= committed /\ persisting_rx[i].round <= t
                 /\ persisting_rx[i].round < t /\ persisting_rx[i].gen <= gen
      <4>1. persisting_rx[i].round <= committed /\ persisting_rx[i].gen <= gen
        BY <2>1 DEF Committed
      <4>2. persisting_rx[i].round \in Nat
        BY <1>1, RequestTypes
      <4> QED BY <1>5, <2>2, <4>1, <4>2, SMT
    <3>2. t <= t /\ gen <= gen
      BY <1>5, SMT
    <3>3. \A i \in DOMAIN persisting_rx' : /\ persisting_rx'[i].round <= t
                                           /\ persisting_rx'[i].gen <= gen
      BY <1>6, <3>1, <3>2
    <3>4. ASSUME NEW i \in DOMAIN persisting_rx', NEW j \in DOMAIN persisting_rx', i < j
          PROVE  persisting_rx'[i].round < persisting_rx'[j].round
      <4>1. i \in DOMAIN persisting_rx /\ persisting_rx'[i] = persisting_rx[i]
        BY <1>6, <3>4
      <4>2. CASE j = n
        BY <1>6, <3>1, <4>1, <4>2
      <4>3. CASE j \in DOMAIN persisting_rx /\ persisting_rx'[j] = persisting_rx[j]
        BY <2>1, <3>4, <4>1, <4>3 DEF Committed
      <4> QED BY <1>6, <4>2, <4>3
    <3>5. Syncing' <=> Syncing
      BY <1>2 DEF Syncing
    <3>6. ASSUME ~ Syncing
          PROVE  /\ highest_committed_round <= t
                 /\ \A i \in DOMAIN persisting_rx' : persisting_rx'[i].gen = gen =>
                      highest_committed_round < persisting_rx'[i].round
      <4>1. highest_committed_round <= committed
        BY <2>1, <3>6 DEF Committed
      <4>2. highest_committed_round <= t /\ highest_committed_round < t
        BY <1>5, <2>2, <4>1, SMT
      <4>3. \A i \in DOMAIN persisting_rx : Ours(persisting_rx[i]) =>
              highest_committed_round < persisting_rx[i].round
        BY <2>1, <3>6 DEF Committed
      <4> QED BY <1>6, <4>2, <4>3 DEF Ours
    <3>7. Syncing => highest_committed_round = reset_signal /\ latest_round = reset_signal
      BY <2>1 DEF Committed
    <3> QED BY <1>2, <2>2, <3>3, <3>4, <3>5, <3>6, <3>7 DEF Committed, Ours
  <2>6. Pressure'
    <3>1. EpochOver => EpochOver'
      <4>1. committed >= epoch_end => t >= epoch_end
        BY <1>5, <2>2, SMT
      <4> QED BY <1>5, <2>2, <4>1 DEF EpochOver
    <3>2. CASE \E i \in DOMAIN persisting_tx : persisting_tx[i].target >= latest_round
      <4>1. PICK i \in DOMAIN persisting_tx : persisting_tx[i].target >= latest_round
        BY <3>2
      <4>2. CASE i = 1
        BY <1>2, <1>4, <1>6, <4>1, <4>2 DEF Pressure
      <4>3. CASE i # 1
        BY <1>2, <1>3, <4>1, <4>3 DEF Pressure
      <4> QED BY <4>2, <4>3
    <3>3. CASE \E i \in DOMAIN persisting_rx : persisting_rx[i].round >= latest_round
      BY <1>2, <1>6, <3>3 DEF Pressure
    <3> QED BY <1>2, <2>1, <3>1, <3>2, <3>3 DEF Pressure
  <2>7. VotesKept'
    <3>1. ASSUME NEW x \in acked, x[1] \in Honest
          PROVE  \/ x[2] <= highest_committed_round \/ x[2] <= t
                 \/ \E i \in DOMAIN persisting_tx' : persisting_tx'[i].target >= x[2]
                 \/ pending_commit_votes[x[2]][x[1]] = "good"
                 \/ \E i \in DOMAIN buffer : buffer[i].last = x[2] /\ buffer[i].votes[x[1]] = "good"
      <4>1. x[2] \in Nat
        <5>1. x \in Validator \X Round
          BY <1>1 DEF Types
        <5> QED BY <5>1, BoundAssumption, SMT DEF Round
      <4>2. x[2] <= committed => x[2] <= t
        BY <1>5, <2>2, <4>1, SMT
      <4>3. t >= x[2] => x[2] <= t
        BY <1>5, <4>1, SMT
      <4>4. ASSUME NEW i \in DOMAIN persisting_tx, persisting_tx[i].target >= x[2]
            PROVE  x[2] <= t \/ \E j \in DOMAIN persisting_tx' : persisting_tx'[j].target >= x[2]
        BY <1>3, <1>4, <4>3, <4>4
      <4> QED BY <2>1, <3>1, <4>2, <4>4 DEF VotesKept
    <3> QED BY <1>2, <2>2, <3>1 DEF VotesKept
  <2> QED BY <2>3, <2>4, <2>5, <2>6, <2>7
<1> QED BY <1>8, <1>9, <1>10, <1>11, <1>12 DEF PipelineInv, Queues, Fresh

(* process_persisting_response: only votes of committed rounds are dropped.*)
LEMMA PersistingResponse ==
  ASSUME PipelineInv, process_persisting_response
  PROVE  PipelineInv'
<1>1. /\ Types /\ Chain /\ InLine /\ Spans /\ Awaited /\ Truthful /\ Roots /\ Certificates
      /\ mode = "run" /\ persisting_rx # <<>> /\ persisting_rx' = Tail(persisting_rx)
      /\ highest_committed_round' = Head(persisting_rx).round
      /\ pending_commit_votes' = [r \in Round |-> IF r > Head(persisting_rx).round
                                                  THEN pending_commit_votes[r] ELSE NoVotes]
      /\ pending_commit_blocks' = {b \in pending_commit_blocks : b.round > Head(persisting_rx).round}
      /\ stale' = (stale \/ /\ Head(persisting_rx).gen # gen
                            /\ Head(persisting_rx).round < highest_committed_round)
  BY DEF PipelineInv, Queues, process_persisting_response
<1>2. /\ UNCHANGED <<buffer, execution_root, signing_root, block_rx, schedule_rx,
                     wait_tx, wait_rx, signing_tx, signing_rx, persisting_tx,
                     pending_commit_proofs, latest_round, mode, reset_signal, gen,
                     next_round, committed, finished, failed, aborted, latest_logical_time,
                     scenario, own_votes, acked, certified, faults>>
  BY SMT DEF process_persisting_response, roots, control, node
<1>3. /\ persisting_rx \in Seq(Blocks) /\ persisting_rx' \in Seq(Blocks)
      /\ 1 \in DOMAIN persisting_rx /\ Head(persisting_rx) = persisting_rx[1]
      /\ \A i \in DOMAIN persisting_rx' : /\ i + 1 \in DOMAIN persisting_rx /\ 1 < i + 1
                                          /\ persisting_rx'[i] = persisting_rx[i + 1]
      /\ \A i, j \in DOMAIN persisting_rx' : i < j => i + 1 < j + 1
      /\ \A i \in DOMAIN persisting_rx :
           i = 1 \/ (i - 1 \in DOMAIN persisting_rx' /\ persisting_rx'[i - 1] = persisting_rx[i])
  <2>1. persisting_rx \in Seq(Blocks)
    BY <1>1, RequestTypes
  <2> QED BY <1>1, <2>1, SMT
<1>4. PICK h : h = persisting_rx[1].round
  BY SMT
<1>5. /\ h \in Round /\ h \in Nat /\ h \in 0..MaxRound /\ highest_committed_round' = h
      /\ pending_commit_votes' = [r \in Round |-> IF r > h THEN pending_commit_votes[r] ELSE NoVotes]
      /\ pending_commit_blocks' = {b \in pending_commit_blocks : b.round > h}
      /\ stale' \in BOOLEAN
      /\ ~ stale' => ~ stale /\ (Ours(persisting_rx[1]) \/ ~ (h < highest_committed_round))
  <2>1. h \in Round /\ h \in Nat
    BY <1>1, <1>3, <1>4, RequestTypes
  <2>2. h \in 0..MaxRound
    BY <2>1, BoundAssumption, SMT DEF Round
  <2>3. stale \in BOOLEAN
    BY <1>1 DEF Types
  <2>4. stale' = (stale \/ (persisting_rx[1].gen # gen /\ h < highest_committed_round))
    BY <1>1, <1>3, <1>4
  <2>5. /\ stale' \in BOOLEAN
        /\ ~ stale' => ~ stale /\ (Ours(persisting_rx[1]) \/ ~ (h < highest_committed_round))
    BY <2>3, <2>4 DEF Ours
  <2> QED BY <1>1, <1>3, <1>4, <2>1, <2>2, <2>5
<1>6. /\ pending_commit_votes' \in [Round -> Votes]
      /\ \A r \in Round : r > h => pending_commit_votes'[r] = pending_commit_votes[r]
      /\ \A r \in Round : pending_commit_votes'[r] = pending_commit_votes[r]
                          \/ pending_commit_votes'[r] = NoVotes
  <2>1. pending_commit_votes \in [Round -> Votes]
    BY <1>1 DEF Types
  <2>2. NoVotes \in Votes
    BY SMT DEF NoVotes, Votes
  <2> QED BY <1>5, <2>1, <2>2, SMT
<1>7. Types'
  <2>1. pending_commit_blocks' \subseteq Blocks
    BY <1>1, <1>5 DEF Types
  <2> QED BY <1>1, <1>2, <1>3, <1>5, <1>6, <2>1 DEF Types
<1>8. Chain' /\ InLine' /\ Spans' /\ Awaited' /\ Truthful'
  BY <1>1, <1>2, ChainSame, InLineSame, SpansSame, AwaitedSame, TruthfulSame
<1>9. Roots'
  <2>1. /\ FirstOf(buffer, execution_root, "ordered") => FirstOf(buffer, execution_root, "ordered")'
        /\ FirstOf(buffer, signing_root, "executed") => FirstOf(buffer, signing_root, "executed")'
        /\ SigningAsked(signing_root) => SigningAsked(signing_root)'
    BY <1>2 DEF FirstOf, SigningAsked
  <2> QED BY <1>1, <1>2, <1>5, <2>1 DEF Roots
<1>10. Certificates'
  <2>1. \A a \in Validator : NoVotes[a] # "good"
    BY SMT DEF NoVotes
  <2>2. \A r \in Round : \A a \in Validator :
          pending_commit_votes'[r][a] = "good" => <<a, r>> \in acked'
    BY <1>1, <1>2, <1>6, <2>1 DEF Certificates
  <2>3. \A i \in DOMAIN buffer : pending_commit_votes'[buffer[i].last] = NoVotes
    BY <1>1, <1>6, BufferSorted DEF Certificates
  <2> QED BY <1>1, <1>2, <2>2, <2>3 DEF Certificates, Decided, Certifiers
<1>11. ASSUME ~ stale'
       PROVE  InOrder' /\ Persisting' /\ Committed' /\ Pressure' /\ VotesKept'
  <2>1. InOrder /\ Persisting /\ Committed /\ Pressure /\ VotesKept
    BY <1>5, <1>11 DEF PipelineInv, Fresh
  <2>2. InOrder'
    BY <1>2, <2>1, InOrderSame
  <2>3. /\ ~ Syncing /\ ~ Syncing'
    BY <1>1, <1>2, SMT DEF Syncing
  <2>4. /\ h <= committed /\ committed \in Nat /\ highest_committed_round \in Nat
        /\ latest_round \in Nat /\ highest_committed_round <= h
    <3>1. h <= committed
      BY <1>3, <1>4, <2>1 DEF Committed
    <3>2. committed \in Nat /\ highest_committed_round \in Nat /\ latest_round \in Nat
      BY <1>1, NumberTypes
    <3>3. Ours(persisting_rx[1]) => highest_committed_round < h
      BY <1>3, <1>4, <2>1, <2>3 DEF Committed
    <3> QED BY <1>5, <1>11, <3>1, <3>2, <3>3, SMT
  <2>5. Persisting'
    <3>1. \A k \in DOMAIN persisting_tx : persisting_tx[k].blocks \subseteq pending_commit_blocks'
      <4>1. ASSUME NEW k \in DOMAIN persisting_tx, NEW b \in persisting_tx[k].blocks
            PROVE  b \in pending_commit_blocks'
        <5>1. b \in pending_commit_blocks /\ committed < b.round
          BY <2>1 DEF Persisting
        <5>2. b.round \in Nat
          BY <1>1, RequestTypes
        <5>3. b.round > h
          BY <1>5, <2>4, <5>1, <5>2, SMT
        <5> QED BY <1>5, <5>1, <5>3
      <4> QED BY <4>1
    <3>2. pending_commit_blocks' \subseteq pending_commit_blocks
      BY <1>5
    <3>3. \A k \in DOMAIN persisting_tx : Done(persisting_tx[k].target)'
      BY <1>2, <2>1 DEF Persisting, Done, After, Ours
    <3>4. epoch_end' = epoch_end
      BY <1>2 DEF epoch_end
    <3>5. Unaborted' /\ (Draining' <=> Draining)
      BY <1>2, <2>1 DEF Persisting, Unaborted, Draining
    <3> QED BY <1>2, <2>1, <3>1, <3>2, <3>3, <3>4, <3>5 DEF Persisting
  <2>6. Committed'
    <3>1. /\ \A i \in DOMAIN persisting_rx' :
               /\ persisting_rx'[i].round <= committed /\ persisting_rx'[i].gen <= gen
               /\ h < persisting_rx'[i].round
      BY <1>3, <1>4, <2>1 DEF Committed
    <3>2. ASSUME NEW i \in DOMAIN persisting_rx', NEW j \in DOMAIN persisting_rx', i < j
          PROVE  persisting_rx'[i].round < persisting_rx'[j].round
      <4>1. /\ i + 1 \in DOMAIN persisting_rx /\ j + 1 \in DOMAIN persisting_rx /\ i + 1 < j + 1
            /\ persisting_rx'[i] = persisting_rx[i + 1] /\ persisting_rx'[j] = persisting_rx[j + 1]
        BY <1>3, <3>2
      <4> QED BY <2>1, <4>1 DEF Committed
    <3> QED BY <1>2, <1>5, <2>3, <2>4, <3>1, <3>2 DEF Committed
  <2>7. Pressure'
    <3>1. EpochOver' <=> EpochOver
      BY <1>2 DEF EpochOver, epoch_end
    <3>2. CASE latest_round <= highest_committed_round
      <4>1. latest_round <= h
        BY <1>5, <2>4, <3>2, SMTT(30)
      <4> QED BY <1>2, <1>5, <4>1 DEF Pressure
    <3>3. CASE \E i \in DOMAIN persisting_rx : persisting_rx[i].round >= latest_round
      <4>1. PICK i \in DOMAIN persisting_rx : persisting_rx[i].round >= latest_round
        BY <3>3
      <4>2. CASE i = 1
        <5>1. latest_round <= h
          BY <1>4, <1>5, <2>4, <4>1, <4>2, SMT
        <5> QED BY <1>2, <1>5, <5>1 DEF Pressure
      <4>3. CASE i # 1
        BY <1>2, <1>3, <4>1, <4>3 DEF Pressure
      <4> QED BY <4>2, <4>3
    <3> QED BY <1>2, <2>1, <3>1, <3>2, <3>3 DEF Pressure
  <2>8. VotesKept'
    <3>1. ASSUME NEW x \in acked, x[1] \in Honest
          PROVE  \/ x[2] <= h \/ x[2] <= committed
                 \/ \E i \in DOMAIN persisting_tx : persisting_tx[i].target >= x[2]
                 \/ pending_commit_votes'[x[2]][x[1]] = "good"
                 \/ \E i \in DOMAIN buffer : buffer[i].last = x[2] /\ buffer[i].votes[x[1]] = "good"
      <4>1. x[2] \in Round /\ x[2] \in Nat
        <5>1. x \in Validator \X Round
          BY <1>1 DEF Types
        <5> QED BY <5>1, BoundAssumption, SMT DEF Round
      <4>2. CASE x[2] > h
        <5>1. pending_commit_votes'[x[2]] = pending_commit_votes[x[2]]
          BY <1>6, <4>1, <4>2
        <5>2. ~ (x[2] <= highest_committed_round)
          BY <1>5, <2>4, <4>1, <4>2, SMT
        <5> QED BY <2>1, <3>1, <5>1, <5>2 DEF VotesKept
      <4>3. CASE ~ (x[2] > h)
        BY <1>5, <4>1, <4>3, SMT
      <4> QED BY <4>2, <4>3
    <3> QED BY <1>2, <1>5, <3>1 DEF VotesKept
  <2> QED BY <2>2, <2>5, <2>6, <2>7, <2>8
<1> QED BY <1>7, <1>8, <1>9, <1>10, <1>11 DEF PipelineInv, Queues, Fresh

-----------------------------------------------------------------------------
(* reset() and its acknowledgement.                                        *)

(* process_reset_request with Stop.                                        *)
LEMMA StopRequest ==
  ASSUME PipelineInv, process_stop_request
  PROVE  PipelineInv'
<1>1. /\ Types /\ Chain /\ InLine /\ Spans /\ Awaited /\ Truthful /\ Certificates
      /\ mode = "run" /\ mode' = "commits" /\ reset_signal' = -1
  BY DEF PipelineInv, Queues, process_stop_request
<1>2. /\ UNCHANGED <<buffer, execution_root, signing_root, block_rx, schedule_rx,
                     wait_tx, wait_rx, signing_tx, signing_rx, persisting_tx,
                     persisting_rx, pending_commit_votes, pending_commit_proofs,
                     pending_commit_blocks, highest_committed_round, latest_round, gen,
                     next_round, committed, finished, failed, aborted, latest_logical_time,
                     scenario, own_votes, acked, certified, faults, stale>>
  BY SMT DEF process_stop_request, roots, channels, pending, rounds, node, history
<1>3. /\ ~ (reset_signal' > 0) /\ reset_signal' # 0 /\ reset_signal' \in -1..MaxRound
      /\ mode' # "tasks" /\ mode' # "run" /\ mode' \in {"run", "commits", "tasks", "stopped"}
      /\ ~ Syncing' /\ ~ Syncing
  BY <1>1, BoundAssumption, SMT DEF Syncing
<1>4. Types'
  BY <1>1, <1>2, <1>3 DEF Types
<1>5. InLine' /\ Spans' /\ Awaited' /\ Truthful'
  BY <1>1, <1>2, InLineSame, SpansSame, AwaitedSame, TruthfulSame
<1>6. Chain' /\ Roots'
  BY <1>1, <1>2, <1>3 DEF Chain, Roots, Ours
<1>7. Certificates'
  BY <1>1, <1>2, <1>3 DEF Certificates, Decided, Certifiers
<1>8. ASSUME ~ stale'
      PROVE  InOrder' /\ Persisting' /\ Committed' /\ Pressure' /\ VotesKept'
  <2>1. InOrder /\ Persisting /\ Committed /\ VotesKept
    BY <1>2, <1>8 DEF PipelineInv, Fresh
  <2>2. InOrder' /\ VotesKept'
    BY <1>2, <2>1, InOrderSame, VotesKeptSame
  <2>3. Persisting'
    <3>1. ~ Draining' /\ ~ Draining
      BY <1>1, SMT DEF Draining
    <3>2. Unaborted'
      BY <1>2, <2>1, <3>1 DEF Persisting, Unaborted
    <3> QED BY <1>2, <1>3, <2>1, <3>1, <3>2 DEF Persisting, Done, After, Ours
  <2>4. Committed'
    BY <1>2, <1>3, <2>1 DEF Committed, Ours
  <2>5. Pressure'
    BY <1>3 DEF Pressure
  <2> QED BY <2>2, <2>3, <2>4, <2>5
<1> QED BY <1>4, <1>5, <1>6, <1>7, <1>8 DEF PipelineInv, Queues, Fresh

(* process_reset_request with TargetRound.                                 *)
LEMMA ResetRequest ==
  ASSUME PipelineInv, NEW r \in Round, process_reset_request(r)
  PROVE  PipelineInv'
<1>1. /\ Types /\ Chain /\ InLine /\ Spans /\ Awaited /\ Truthful /\ Certificates
      /\ mode = "run" /\ mode' = "commits" /\ reset_signal' = r /\ r > committed
      /\ highest_committed_round' = r /\ latest_round' = r
      /\ pending_commit_proofs' = ProofsAfter(r) /\ certified' = certified \cup {r}
      /\ faults' = faults + 1
  BY DEF PipelineInv, Queues, process_reset_request
<1>2. /\ UNCHANGED <<buffer, execution_root, signing_root, block_rx, schedule_rx,
                     wait_tx, wait_rx, signing_tx, signing_rx, persisting_tx,
                     persisting_rx, pending_commit_votes, pending_commit_blocks, gen,
                     next_round, committed, finished, failed, aborted, latest_logical_time,
                     scenario, own_votes, acked, stale>>
  BY SMT DEF process_reset_request, roots, channels, node
<1>3. /\ r \in Nat /\ r > 0 /\ r \in 0..MaxRound /\ r \in -1..MaxRound
  BY BoundAssumption, SMT DEF Round
<1>4. /\ mode' # "tasks" /\ mode' # "run" /\ mode' \in {"run", "commits", "tasks", "stopped"}
      /\ ~ Syncing /\ Syncing'
      /\ reset_signal' # 0
  BY <1>1, <1>3, SMT DEF Syncing
<1>5. Types'
  <2>1. faults' \in Nat
    BY <1>1, SMT DEF Types
  <2>2. pending_commit_proofs' \subseteq Round /\ certified' \subseteq Round
    BY <1>1 DEF Types, ProofsAfter
  <2> QED BY <1>1, <1>2, <1>3, <1>4, <2>1, <2>2 DEF Types
<1>6. InLine' /\ Spans' /\ Awaited' /\ Truthful'
  BY <1>1, <1>2, InLineSame, SpansSame, AwaitedSame, TruthfulSame
<1>7. Chain' /\ Roots'
  BY <1>1, <1>2, <1>4 DEF Chain, Roots, Ours
<1>8. Certificates'
  <2>1. \A k \in DOMAIN persisting_tx' : Decided(persisting_tx[k].target)'
    BY <1>1, <1>2 DEF Certificates, Decided, Certifiers
  <2>2. pending_commit_proofs' \subseteq certified'
    BY <1>1 DEF Certificates, ProofsAfter
  <2> QED BY <1>1, <1>2, <2>1, <2>2 DEF Certificates
<1>9. ASSUME ~ stale'
      PROVE  InOrder' /\ Persisting' /\ Committed' /\ Pressure' /\ VotesKept'
  <2>1. InOrder /\ Persisting /\ Committed /\ VotesKept
    BY <1>2, <1>9 DEF PipelineInv, Fresh
  <2>2. InOrder'
    BY <1>2, <2>1, InOrderSame
  <2>3. Persisting'
    <3>1. ~ Draining' /\ ~ Draining
      BY <1>1, SMT DEF Draining
    <3>2. Unaborted'
      BY <1>2, <2>1, <3>1 DEF Persisting, Unaborted
    <3> QED BY <1>2, <1>4, <2>1, <3>1, <3>2 DEF Persisting, Done, After, Ours
  <2>4. Committed'
    BY <1>1, <1>2, <1>4, <2>1 DEF Committed
  <2>5. Pressure'
    BY <1>4 DEF Pressure
  <2>6. VotesKept'
    <3>1. ASSUME NEW x \in acked, x[2] <= highest_committed_round
          PROVE  x[2] <= highest_committed_round'
      <4>1. highest_committed_round <= committed
        BY <1>4, <2>1 DEF Committed
      <4>2. highest_committed_round \in Nat /\ committed \in Nat
        BY <1>1, NumberTypes
      <4>3. x[2] \in Nat
        <5>1. x \in Validator \X Round
          BY <1>1 DEF Types
        <5> QED BY <5>1, BoundAssumption, SMT DEF Round
      <4> QED BY <1>1, <1>3, <3>1, <4>1, <4>2, <4>3, SMT
    <3> QED BY <1>2, <2>1, <3>1 DEF VotesKept
  <2> QED BY <2>2, <2>3, <2>4, <2>5, <2>6
<1> QED BY <1>5, <1>6, <1>7, <1>8, <1>9 DEF PipelineInv, Queues, Fresh

(* reset() empties the buffer once the pending blocks are committed: no    *)
(* request is then left.                                                   *)
LEMMA ResetBuffer ==
  ASSUME PipelineInv, reset_buffer
  PROVE  PipelineInv'
<1>1. /\ Types /\ Chain /\ InLine /\ Spans /\ Awaited /\ Truthful /\ Roots /\ Certificates
      /\ mode = "commits" /\ CommitsFinished /\ buffer' = <<>> /\ block_rx' = <<>>
      /\ execution_root' = None /\ signing_root' = None /\ pending_commit_blocks' = {}
      /\ mode' = "tasks" /\ aborted' = IF finished < aborted THEN finished + 1 ELSE aborted
      /\ failed' = IF reset_signal = 0 /\ finished < failed THEN finished + 1 ELSE failed
      /\ acked' = {x \in acked : x[2] \notin Ids(buffer)}
  BY DEF PipelineInv, Queues, reset_buffer
<1>2. /\ UNCHANGED <<schedule_rx, wait_tx, wait_rx, signing_tx, signing_rx,
                     persisting_tx, persisting_rx, pending_commit_votes,
                     pending_commit_proofs, highest_committed_round, latest_round,
                     reset_signal, gen, next_round, committed, finished,
                     latest_logical_time, scenario, own_votes, certified, faults, stale>>
  BY SMT DEF reset_buffer, channels, rounds
<1>3. /\ DOMAIN buffer' = {} /\ DOMAIN block_rx' = {} /\ buffer' \in Seq(Item)
      /\ block_rx' \in Seq(Entries)
  BY <1>1, SMT
<1>4. mode' # "run" /\ mode' \in {"run", "commits", "tasks", "stopped"}
  BY <1>1, SMT
<1>5. Types'
  <2>1. failed' \in 1..(MaxRound + 1) /\ aborted' \in 1..(MaxRound + 1)
    <3>1. /\ failed \in 1..(MaxRound + 1) /\ aborted \in 1..(MaxRound + 1)
          /\ finished \in 0..MaxRound
      BY <1>1 DEF Types
    <3> QED BY <1>1, <3>1, BoundAssumption, SMT
  <2>2. acked' \subseteq Validator \X Round
    BY <1>1 DEF Types
  <2>3. pending_commit_blocks' \subseteq Blocks
    BY <1>1
  <2>4. execution_root' \in Round \cup {None} /\ signing_root' \in Round \cup {None}
    BY <1>1
  <2> QED BY <1>1, <1>2, <1>3, <1>4, <2>1, <2>2, <2>3, <2>4 DEF Types
<1>6. Chain'
  BY <1>1, <1>2, <1>3 DEF Chain
<1>7. InLine' /\ Spans'
  <2>1. Increasing(block_rx)' /\ Before(wait_rx, block_rx)' /\ Before(wait_tx, block_rx)'
        /\ Before(schedule_rx, block_rx)'
    BY <1>3 DEF Increasing, Before
  <2>2. /\ Increasing(schedule_rx)' /\ Increasing(wait_tx)' /\ Increasing(wait_rx)'
        /\ Before(wait_rx, wait_tx)' /\ Before(wait_rx, schedule_rx)'
        /\ Before(wait_tx, schedule_rx)'
    BY <1>1, <1>2 DEF InLine, Increasing, Before, Ours
  <2>3. Spans'
    BY <1>1, <1>2, <1>3 DEF Spans, Queued, Ours
  <2> QED BY <2>1, <2>2, <2>3 DEF InLine
<1>8. Awaited' /\ Truthful' /\ Roots'
  BY <1>3, <1>4 DEF Awaited, Truthful, Roots
<1>9. Certificates'
  <2>1. ASSUME NEW r \in Round, NEW a \in Validator, pending_commit_votes[r][a] = "good"
        PROVE  <<a, r>> \in acked'
    <3>1. <<a, r>> \in acked
      BY <1>1, <2>1 DEF Certificates
    <3>2. NoVotes[a] # "good"
      BY SMT DEF NoVotes
    <3>3. r \notin Ids(buffer)
      BY <1>1, <2>1, <3>2 DEF Certificates, Ids
    <3>4. <<a, r>>[2] = r
      BY SMT
    <3> QED BY <1>1, <3>1, <3>3, <3>4
  <2>2. ASSUME NEW k \in DOMAIN persisting_tx PROVE Decided(persisting_tx[k].target)'
    <3>1. PICK t : t = persisting_tx[k].target
      BY SMT
    <3>2. Decided(t)
      BY <1>1, <3>1 DEF Certificates
    <3>3. t \notin Ids(buffer)
      <4>1. ASSUME NEW i \in DOMAIN buffer PROVE buffer[i].last # t
        <5>1. /\ t < buffer[i].first /\ buffer[i].first <= buffer[i].last /\ t \in Nat
              /\ buffer[i].first \in Nat /\ buffer[i].last \in Nat
          BY <1>1, <3>1, BufferSorted, RequestTypes DEF Chain
        <5> QED BY <5>1, SMT
      <4> QED BY <4>1 DEF Ids
    <3>4. Certifiers(t)' = Certifiers(t)
      <4>1. \A a \in Validator : <<a, t>>[2] = t
        BY SMT
      <4> QED BY <1>1, <3>3, <4>1 DEF Certifiers
    <3>5. Decided(t)'
      BY <1>2, <3>2, <3>4 DEF Decided
    <3> QED BY <1>2, <3>1, <3>5
  <2>3. \A k \in DOMAIN persisting_tx' : Decided(persisting_tx[k].target)'
    BY <1>2, <2>2
  <2> QED BY <1>1, <1>2, <1>3, <2>1, <2>3 DEF Certificates
<1>10. ASSUME ~ stale'
       PROVE  InOrder' /\ Persisting' /\ Committed' /\ Pressure' /\ VotesKept'
  <2>1. InOrder /\ Persisting /\ Committed /\ Pressure /\ VotesKept
    BY <1>2, <1>10 DEF PipelineInv, Fresh
  <2>2. InOrder'
    BY <1>2, <1>3, <2>1 DEF InOrder
  <2>3. ASSUME NEW k \in DOMAIN persisting_tx PROVE FALSE
    <3>1. PICK t : t = persisting_tx[k].target
      BY SMT
    <3>2. PICK b : b = [round |-> t, gen |-> gen]
      OBVIOUS
    <3>3. b.round = t /\ b.gen = gen
      BY <3>2, SMT
    <3>4. /\ b \in persisting_tx[k].blocks /\ t < failed /\ finished = committed
          /\ aborted >= failed
      <4>1. ~ Draining
        BY <1>1, SMT DEF Draining
      <4> QED BY <2>1, <3>1, <3>2, <4>1 DEF Persisting, Done, Unaborted
    <3>5. b \in pending_commit_blocks /\ committed < b.round
      BY <2>1, <3>4 DEF Persisting
    <3>6. b.round <= finished \/ b.round >= failed \/ b.round >= aborted
      BY <1>1, <3>3, <3>5 DEF CommitsFinished, CommitFails
    <3>7. t \in Nat /\ failed \in Nat /\ aborted \in Nat /\ committed \in Nat
      BY <1>1, <3>1, RequestTypes, NumberTypes
    <3> QED BY <3>3, <3>4, <3>5, <3>6, <3>7, SMT
  <2>4. persisting_tx = <<>>
    <3>1. persisting_tx \in Seq(Requests) /\ DOMAIN persisting_tx = {}
      BY <1>1, <2>3, RequestTypes
    <3> QED BY <3>1, SMT
  <2>5. Persisting'
    <3>1. epoch_end' = epoch_end
      BY <1>2 DEF epoch_end
    <3>2. reset_signal = 0 => epoch_end # None /\ committed >= epoch_end
      BY <1>1, <2>1, <2>3 DEF Persisting
    <3>3. DOMAIN persisting_tx' = {} /\ persisting_tx' = <<>> /\ finished' = committed'
      BY <1>2, <2>1, <2>3, <2>4 DEF Persisting
    <3>4. Unaborted'
      <4>1. Draining' /\ ~ Draining
        BY <1>1, SMT DEF Draining
      <4>2. aborted >= failed
        BY <2>1, <4>1 DEF Persisting, Unaborted
      <4>3. CASE reset_signal # 0
        BY <1>2, <4>1, <4>3 DEF Unaborted
      <4>4. CASE reset_signal = 0
        <5>1. aborted \in Nat /\ failed \in Nat /\ finished \in Nat
          BY <1>1, NumberTypes
        <5>2. aborted' >= failed'
          BY <1>1, <4>2, <4>4, <5>1, SMT
        <5> QED BY <5>2 DEF Unaborted
      <4> QED BY <4>3, <4>4
    <3>5. latest_logical_time' <= committed'
      BY <1>2, <2>1 DEF Persisting
    <3> QED BY <1>1, <1>2, <3>1, <3>2, <3>3, <3>4, <3>5 DEF Persisting
  <2>6. Committed'
    <3>1. Syncing' <=> Syncing
      BY <1>1, <1>2 DEF Syncing
    <3> QED BY <1>2, <2>1, <3>1 DEF Committed, Ours
  <2>7. Pressure'
    BY <1>4 DEF Pressure
  <2>8. VotesKept'
    <3>1. \A x \in acked' : x \in acked /\ \A i \in DOMAIN buffer : buffer[i].last # x[2]
      BY <1>1 DEF Ids
    <3> QED BY <1>2, <2>1, <3>1 DEF VotesKept
  <2> QED BY <2>2, <2>5, <2>6, <2>7, <2>8
<1> QED BY <1>5, <1>6, <1>7, <1>8, <1>9, <1>10 DEF PipelineInv, Queues, Fresh

(* When a reset is acknowledged every phase is idle.                       *)
LEMMA Idle ==
  ASSUME Types, Chain, reset_ack
  PROVE  /\ wait_tx = <<>> /\ signing_tx = <<>> /\ persisting_tx = <<>> /\ buffer = <<>>
         /\ execution_root = None /\ signing_root = None
         /\ reset_signal > 0 => block_rx = <<>>
<1>1. mode = "tasks" /\ Len(wait_tx) + Len(signing_tx) + Len(persisting_tx) = 0
  BY DEF reset_ack, ongoing_tasks
<1>2. wait_tx \in Seq(Entries) /\ signing_tx \in Seq(Round) /\ persisting_tx \in Seq(Requests)
  BY DEF Types
<1>3. Len(wait_tx) = 0 /\ Len(signing_tx) = 0 /\ Len(persisting_tx) = 0
  BY <1>1, <1>2, SMT
<1> QED BY <1>1, <1>2, <1>3, SMT DEF Chain

(* A state sync moves the ledger to its target, unless it tried before.    *)
LEMMA SyncedTo ==
  ASSUME Types, sync_to_target, reset_signal > 0
  PROVE  /\ committed' \in 0..MaxRound /\ finished' = committed' /\ next_round' = committed' + 1
         /\ committed <= committed'
         /\ committed' = committed \/ (committed' = reset_signal /\ committed < committed')
         /\ gen' = gen + 1 /\ failed' = MaxRound + 1 /\ aborted' = MaxRound + 1
         /\ latest_logical_time' \in 0..MaxRound /\ stale' = stale
         /\ latest_logical_time <= committed =>
              reset_signal <= committed' /\ latest_logical_time' <= committed'
<1>1. PICK base \in 0..MaxRound :
        /\ \/ /\ latest_logical_time >= reset_signal /\ base = committed
              /\ latest_logical_time' = latest_logical_time
           \/ /\ latest_logical_time < reset_signal /\ reset_signal >= committed
              /\ base = reset_signal /\ latest_logical_time' = reset_signal
        /\ gen' = gen + 1 /\ committed' = base /\ finished' = base /\ next_round' = base + 1
        /\ failed' = MaxRound + 1 /\ aborted' = MaxRound + 1 /\ stale' = stale
  BY DEF sync_to_target
<1>2. committed \in Nat /\ latest_logical_time \in 0..MaxRound /\ reset_signal \in Int
  BY NumberTypes DEF Types
<1>3. /\ latest_logical_time' \in 0..MaxRound /\ committed <= base
      /\ base = committed \/ (base = reset_signal /\ committed < base)
      /\ latest_logical_time <= committed =>
           reset_signal <= base /\ latest_logical_time' <= base
  BY <1>1, <1>2, BoundAssumption, SMT
<1> QED BY <1>1, <1>3

(* The reset is acknowledged, and the next tree starts unless a sync fails.*)
LEMMA ResetAck ==
  ASSUME PipelineInv, reset_ack
  PROVE  PipelineInv'
<1>1. /\ Types /\ Chain /\ InLine /\ Spans /\ Awaited /\ Truthful /\ Roots /\ Certificates
      /\ mode = "tasks" /\ mode' = IF reset_signal = -1 THEN "stopped" ELSE "run"
  BY DEF PipelineInv, Queues, reset_ack
<1>2. /\ UNCHANGED <<buffer, execution_root, signing_root, block_rx, schedule_rx,
                     wait_tx, wait_rx, signing_tx, signing_rx, persisting_tx,
                     persisting_rx, pending_commit_votes, pending_commit_proofs,
                     pending_commit_blocks, highest_committed_round, latest_round,
                     reset_signal, scenario, own_votes, acked, certified, faults>>
  BY SMT DEF reset_ack, roots, channels, pending, rounds, history
<1>3. /\ buffer = <<>> /\ persisting_tx = <<>> /\ execution_root = None /\ signing_root = None
      /\ reset_signal > 0 => block_rx = <<>>
  BY <1>1, Idle
<1>4. DOMAIN buffer = {} /\ DOMAIN persisting_tx = {}
  BY <1>3, SMT
<1>5. /\ mode' # "tasks" /\ mode' # "commits" /\ mode' \in {"run", "commits", "tasks", "stopped"}
      /\ ~ Syncing' /\ (reset_signal > 0 => Syncing)
  BY <1>1, <1>2, SMT DEF Syncing
<1>6. Certificates'
  BY <1>1, <1>2, CertificatesSame
<1>7. Roots'
  <2>1. FirstOf(buffer, execution_root, "ordered")' /\ FirstOf(buffer, signing_root, "executed")'
    BY <1>2, <1>3, <1>4 DEF FirstOf
  <2>2. signing_root' = None
    BY <1>2, <1>3
  <2> QED BY <2>1, <2>2 DEF Roots
<1>8. Awaited' /\ Truthful'
  BY <1>2, <1>4 DEF Awaited, Truthful
<1>9. /\ gen \in Nat /\ next_round \in Nat /\ committed \in Nat
      /\ reset_signal \in Int /\ epoch_end \in Nat /\ epoch_end' = epoch_end
  BY <1>1, <1>2, NumberTypes DEF epoch_end
<1>10. CASE reset_signal > 0 /\ sync_to_target
  <2>1. /\ committed' \in 0..MaxRound /\ finished' = committed' /\ next_round' = committed' + 1
        /\ committed <= committed' /\ gen' = gen + 1
        /\ failed' = MaxRound + 1 /\ aborted' = MaxRound + 1
        /\ latest_logical_time' \in 0..MaxRound /\ stale' = stale
        /\ latest_logical_time <= committed =>
             reset_signal <= committed' /\ latest_logical_time' <= committed'
    BY <1>1, <1>10, SyncedTo
  <2>2. /\ next_round' \in 1..(MaxRound + 1) /\ gen' \in Nat /\ failed' \in 1..(MaxRound + 1)
        /\ aborted' \in 1..(MaxRound + 1) /\ aborted' >= failed'
        /\ committed' < next_round' /\ finished' \in 0..MaxRound /\ committed' \in Nat
        /\ \A g \in Nat : g <= gen => g <= gen' /\ g # gen'
    <3> DEFINE c == committed'
    <3>0. /\ c \in 0..MaxRound /\ next_round' = c + 1 /\ finished' = c
          /\ failed' = MaxRound + 1 /\ aborted' = MaxRound + 1 /\ MaxRound \in Nat
      BY <2>1, BoundAssumption
    <3> HIDE DEF c
    <3>1. /\ next_round' \in 1..(MaxRound + 1) /\ failed' \in 1..(MaxRound + 1)
          /\ aborted' \in 1..(MaxRound + 1) /\ aborted' >= failed'
      BY <3>0, SMT
    <3>2. c < next_round' /\ finished' \in 0..MaxRound /\ c \in Nat
      BY <3>0, SMT
    <3>3. gen' \in Nat /\ \A g \in Nat : g <= gen => g <= gen' /\ g # gen'
      BY <1>9, <2>1, SMT
    <3> QED BY <3>1, <3>2, <3>3 DEF c
  <2>3. Types'
    BY <1>1, <1>2, <1>5, <2>1, <2>2 DEF Types
  <2>4. DOMAIN block_rx = {}
    BY <1>3, <1>10, SMT
  <2>5. Chain'
    BY <1>2, <1>4, <1>5, <2>4 DEF Chain
  <2>6. /\ \A i \in DOMAIN schedule_rx' : schedule_rx'[i].gen <= gen' /\ schedule_rx'[i].gen # gen'
        /\ \A i \in DOMAIN wait_tx' : wait_tx'[i].gen <= gen' /\ wait_tx'[i].gen # gen'
        /\ \A i \in DOMAIN wait_rx' : wait_rx'[i].gen <= gen' /\ wait_rx'[i].gen # gen'
        /\ DOMAIN block_rx' = {}
    BY <1>1, <1>2, <2>2, <2>4, EntryTypes DEF Spans, Queued
  <2>7. InLine'
    BY <2>6 DEF InLine, Increasing, Before, Ours
  <2>8. Spans'
    BY <1>1, <1>2, <2>6 DEF Spans, Queued, Ours
  <2>9. ASSUME ~ stale'
        PROVE  InOrder' /\ Persisting' /\ Committed' /\ Pressure' /\ VotesKept'
    <3>1. InOrder /\ Persisting /\ Committed /\ Pressure /\ VotesKept
      BY <2>1, <2>9 DEF PipelineInv, Fresh
    <3>2. \A x \in Nat : x <= committed => x <= committed'
      BY <1>9, <2>1, <2>2, SMT
    <3>3. InOrder'
      BY <1>2, <1>4, <2>2, <2>4 DEF InOrder
    <3>4. Persisting'
      <4>1. \A b \in pending_commit_blocks : b.round <= committed'
        <5>1. \A b \in pending_commit_blocks : b.round <= committed
          BY <1>4, <3>1 DEF Persisting
        <5>2. pending_commit_blocks \subseteq Blocks
          BY <1>1 DEF Types
        <5> QED BY <1>1, <3>2, <5>1, <5>2, RequestTypes
      <4>2. ~ (mode' \in {"commits", "tasks"})
        BY <1>5, SMT
      <4>3. latest_logical_time' <= committed' /\ Unaborted'
        BY <2>1, <2>2, <3>1 DEF Persisting, Unaborted
      <4> QED BY <1>2, <1>3, <1>4, <2>1, <4>1, <4>2, <4>3 DEF Persisting
    <3>5. /\ highest_committed_round = reset_signal /\ latest_round = reset_signal
          /\ reset_signal <= committed'
      BY <1>5, <1>10, <2>1, <3>1 DEF Committed, Persisting
    <3>6. Committed'
      <4>1. \A i \in DOMAIN persisting_rx :
              /\ persisting_rx[i].round <= committed' /\ persisting_rx[i].gen <= gen'
              /\ persisting_rx[i].gen # gen'
        BY <1>1, <2>2, <3>1, <3>2, RequestTypes DEF Committed
      <4> QED BY <1>2, <1>5, <2>1, <3>1, <3>5, <4>1 DEF Committed, Ours
    <3>7. Pressure'
      <4>1. latest_round' <= highest_committed_round'
        BY <1>2, <1>9, <3>5, SMT
      <4> QED BY <4>1 DEF Pressure
    <3>8. VotesKept'
      <4>1. \A x \in acked : x[2] <= committed => x[2] <= committed'
        <5>1. \A x \in acked : x[2] \in Nat
          <6>1. acked \subseteq Validator \X Round
            BY <1>1 DEF Types
          <6> QED BY <6>1, BoundAssumption, SMT DEF Round
        <5> QED BY <3>2, <5>1
      <4> QED BY <1>2, <3>1, <4>1 DEF VotesKept
    <3> QED BY <3>3, <3>4, <3>6, <3>7, <3>8
  <2> QED BY <1>6, <1>7, <1>8, <2>3, <2>5, <2>7, <2>8, <2>9 DEF PipelineInv, Queues, Fresh
<1>11. CASE ~ (reset_signal > 0 /\ sync_to_target)
  <2>1. /\ UNCHANGED <<gen, committed, finished, next_round, failed, aborted>>
        /\ latest_logical_time' \in 0..MaxRound /\ stale' \in BOOLEAN
        /\ ~ stale' => /\ ~ stale /\ ~ (reset_signal > 0)
                       /\ latest_logical_time' = latest_logical_time
    <3>1. latest_logical_time \in 0..MaxRound /\ stale \in BOOLEAN
      BY <1>1 DEF Types
    <3>2. CASE reset_signal > 0 /\ sync_fails
      <4>1. /\ UNCHANGED <<gen, committed, finished, next_round, failed, aborted>>
            /\ latest_logical_time' = reset_signal /\ stale' = TRUE
        BY <3>2, SMT DEF sync_fails
      <4>2. reset_signal \in 0..MaxRound
        <5>1. reset_signal \in -1..MaxRound
          BY <1>1 DEF Types
        <5> QED BY <3>2, <5>1, BoundAssumption, SMT
      <4> QED BY <4>1, <4>2
    <3>3. CASE ~ (reset_signal > 0 /\ sync_fails)
      <4>1. /\ reset_signal <= 0
            /\ UNCHANGED <<gen, committed, finished, next_round, failed, aborted>>
            /\ latest_logical_time' = latest_logical_time /\ stale' = stale
        BY <1>11, <3>3, SMT DEF reset_ack
      <4>2. ~ (reset_signal > 0)
        BY <1>9, <4>1, SMT
      <4> QED BY <3>1, <4>1, <4>2
    <3> QED BY <3>2, <3>3
  <2>2. Types'
    BY <1>1, <1>2, <1>5, <2>1 DEF Types
  <2>3. Chain'
    BY <1>1, <1>2, <1>5, <2>1 DEF Chain, Ours
  <2>4. InLine' /\ Spans'
    BY <1>1, <1>2, <2>1, InLineSame, SpansSame
  <2>5. ASSUME ~ stale'
        PROVE  InOrder' /\ Persisting' /\ Committed' /\ Pressure' /\ VotesKept'
    <3>1. InOrder /\ Persisting /\ Committed /\ Pressure /\ VotesKept
      BY <2>1, <2>5 DEF PipelineInv, Fresh
    <3>2. InOrder' /\ VotesKept'
      BY <1>2, <2>1, <3>1, InOrderSame, VotesKeptSame
    <3>3. Persisting'
      <4>1. ~ (mode' \in {"commits", "tasks"})
        BY <1>5, SMT
      <4>2. Unaborted'
        <5>1. CASE aborted >= failed
          BY <2>1, <5>1 DEF Unaborted
        <5>2. CASE reset_signal # 0
          <6>1. mode' = "stopped"
            <7>1. reset_signal \in -1..MaxRound
              BY <1>1 DEF Types
            <7> QED BY <1>1, <2>1, <2>5, <5>2, <7>1, BoundAssumption, SMT
          <6> QED BY <1>2, <5>2, <6>1, SMT DEF Unaborted, Draining
        <5> QED BY <3>1, <5>1, <5>2 DEF Persisting, Unaborted
      <4>3. latest_logical_time' <= committed'
        BY <2>1, <2>5, <3>1 DEF Persisting
      <4> QED BY <1>2, <1>3, <1>4, <2>1, <3>1, <4>1, <4>2, <4>3 DEF Persisting
    <3>4. Committed'
      <4>1. ~ Syncing
        BY <2>1, <2>5 DEF Syncing
      <4> QED BY <1>2, <1>5, <2>1, <3>1, <4>1 DEF Committed, Ours
    <3>5. Pressure'
      <4>1. ASSUME mode' = "run" PROVE EpochOver'
        <5>1. reset_signal = 0
          <6>1. reset_signal \in -1..MaxRound
            BY <1>1 DEF Types
          <6> QED BY <1>1, <2>1, <2>5, <4>1, <6>1, BoundAssumption, SMT
        <5>2. epoch_end # None /\ committed >= epoch_end
          BY <1>1, <1>4, <3>1, <5>1 DEF Persisting
        <5> QED BY <1>9, <2>1, <5>2 DEF EpochOver
      <4> QED BY <4>1 DEF Pressure
    <3> QED BY <3>2, <3>3, <3>4, <3>5
  <2> QED BY <1>6, <1>7, <1>8, <2>2, <2>3, <2>4, <2>5 DEF PipelineInv, Queues, Fresh
<1> QED BY <1>10, <1>11

-----------------------------------------------------------------------------
(* Votes for blocks to come.                                               *)

(* What a vote is; only faulty validators send others than good ones.      *)
LEMMA VoteFacts ==
  ASSUME NEW v \in Vote
  PROVE  /\ v.author \in Validator /\ v.round \in Round /\ v.kind \in Kind
         /\ v.author \in Honest => v.kind = "good"
<1>1. CASE v \in [author : Honest, round : Round, kind : {"good"}]
  BY <1>1, SMT DEF Honest, Kind
<1>2. CASE v \in FaultyVote
  BY <1>2, QuorumAssumption, SMT DEF Honest, Kind, Round
<1> QED BY <1>1, <1>2 DEF Vote

(* What is decided stays decided.                                          *)
LEMMA DecidedKept ==
  ASSUME NEW r, Decided(r), acked \subseteq acked', certified \subseteq certified'
  PROVE  Decided(r)'
<1>1. Certifiers(r) \subseteq Certifiers(r)' /\ Certifiers(r)' \subseteq Validator
  BY DEF Certifiers
<1> QED BY <1>1, QuorumAssumption DEF Decided

(* try_add_pending_commit_vote: the vote is cached for a block to come.    *)
LEMMA PendingVote ==
  ASSUME PipelineInv, NEW v \in Vote, try_add_pending_commit_vote(v)
  PROVE  PipelineInv'
<1>1. /\ Types /\ Chain /\ InLine /\ Spans /\ Awaited /\ Truthful /\ Roots /\ Certificates
      /\ mode = "run"
      /\ pending_commit_votes' = [pending_commit_votes EXCEPT ![v.round][v.author] = v.kind]
      /\ acked' = IF v.kind = "good" THEN acked \cup {<<v.author, v.round>>} ELSE acked
      /\ \A i \in DOMAIN buffer : buffer[i].last # v.round
  BY DEF PipelineInv, Queues, try_add_pending_commit_vote, Acked, Ids
<1>2. /\ v.author \in Validator /\ v.round \in Round /\ v.kind \in Kind
      /\ v.author \in Honest => v.kind = "good"
  BY VoteFacts
<1>3. /\ UNCHANGED <<buffer, execution_root, signing_root, block_rx, schedule_rx,
                     wait_tx, wait_rx, signing_tx, signing_rx, persisting_tx,
                     persisting_rx, pending_commit_proofs, pending_commit_blocks,
                     highest_committed_round, latest_round, mode, reset_signal, gen,
                     next_round, committed, finished, failed, aborted, latest_logical_time,
                     scenario, own_votes,
                     certified, faults, stale>>
  BY SMT DEF try_add_pending_commit_vote, roots, channels, rounds, control, node
<1>4. pending_commit_votes \in [Round -> Votes]
  BY <1>1 DEF Types
<1>5. /\ pending_commit_votes' \in [Round -> Votes]
      /\ \A r \in Round : r # v.round => pending_commit_votes'[r] = pending_commit_votes[r]
      /\ \A a \in Validator : pending_commit_votes'[v.round][a]
           = IF a = v.author THEN v.kind ELSE pending_commit_votes[v.round][a]
  BY <1>1, <1>2, <1>4, SMT DEF Votes
<1>6. acked \subseteq acked' /\ acked' \subseteq Validator \X Round
  BY <1>1, <1>2, SMTT(30) DEF Types
<1>7. Types'
  BY <1>1, <1>3, <1>5, <1>6 DEF Types
<1>8. Chain' /\ InLine' /\ Spans' /\ Awaited' /\ Truthful' /\ Roots'
  BY <1>1, <1>3, ChainSame, InLineSame, SpansSame, AwaitedSame, TruthfulSame, RootsSame
<1>9. Certificates'
  <2>1. ASSUME NEW r \in Round, NEW a \in Validator, pending_commit_votes'[r][a] = "good"
        PROVE  <<a, r>> \in acked'
    <3>1. CASE r = v.round /\ a = v.author
      BY <1>1, <1>5, <2>1, <3>1, SMT
    <3>2. CASE ~ (r = v.round /\ a = v.author)
      <4>1. pending_commit_votes[r][a] = "good"
        BY <1>5, <2>1, <3>2, SMT
      <4> QED BY <1>1, <1>6, <4>1 DEF Certificates
    <3> QED BY <3>1, <3>2
  <2>2. \A i \in DOMAIN buffer' :
          /\ \A a \in Validator : buffer'[i].votes[a] = "good" => <<a, buffer'[i].last>> \in acked'
          /\ pending_commit_votes'[buffer'[i].last] = NoVotes
          /\ buffer'[i].proof => buffer'[i].last \in certified'
    BY <1>1, <1>3, <1>5, <1>6, BufferSorted DEF Certificates
  <2>3. \A k \in DOMAIN persisting_tx' : Decided(persisting_tx[k].target)'
    BY <1>1, <1>3, <1>6, DecidedKept DEF Certificates
  <2> QED BY <1>1, <1>3, <2>1, <2>2, <2>3 DEF Certificates
<1>10. ASSUME ~ stale'
       PROVE  InOrder' /\ Persisting' /\ Committed' /\ Pressure' /\ VotesKept'
  <2>1. InOrder /\ Persisting /\ Committed /\ Pressure /\ VotesKept
    BY <1>3, <1>10 DEF PipelineInv, Fresh
  <2>2. InOrder' /\ Persisting' /\ Committed' /\ Pressure'
    BY <1>3, <2>1, InOrderSame, PersistingSame, CommittedSame, PressureSame
  <2>3. ASSUME NEW x \in acked', x[1] \in Honest
        PROVE  \/ x[2] <= highest_committed_round' \/ x[2] <= committed'
               \/ \E i \in DOMAIN persisting_tx' : persisting_tx'[i].target >= x[2]
               \/ pending_commit_votes'[x[2]][x[1]] = "good"
               \/ \E i \in DOMAIN buffer' : buffer'[i].last = x[2] /\ buffer'[i].votes[x[1]] = "good"
    <3>1. x[1] \in Validator /\ x[2] \in Round
      BY <1>6, <2>3, SMT
    <3>2. CASE x[1] = v.author /\ x[2] = v.round
      <4>1. pending_commit_votes'[x[2]][x[1]] = "good"
        BY <1>2, <1>5, <2>3, <3>2
      <4> QED BY <4>1
    <3>3. CASE ~ (x[1] = v.author /\ x[2] = v.round)
      <4>1. x \in acked
        BY <1>1, <2>3, <3>3, SMT
      <4>2. pending_commit_votes'[x[2]][x[1]] = pending_commit_votes[x[2]][x[1]]
        BY <1>5, <3>1, <3>3
      <4> QED BY <1>3, <2>1, <2>3, <4>1, <4>2 DEF VotesKept
    <3> QED BY <3>2, <3>3
  <2>4. VotesKept'
    BY <2>3 DEF VotesKept
  <2> QED BY <2>2, <2>4
<1> QED BY <1>7, <1>8, <1>9, <1>10 DEF PipelineInv, Queues, Fresh

-----------------------------------------------------------------------------
(* The roots are advanced.                                                 *)

(* A cursor is the round of an item, or None.                              *)
LEMMA FirstFromType ==
  ASSUME NumbersOrdered, NEW buf \in Seq(Item), NEW cursor, NEW stage
  PROVE  first_from(buf, cursor, stage) \in Round \cup {None}
<1> DEFINE c == IF cursor = None THEN head_cursor(buf) ELSE cursor
           after == {i \in DOMAIN buf : /\ c \in Ids(buf) /\ i >= IndexOf(buf, c)
                                        /\ buf[i].stage = stage}
<1>1. first_from(buf, cursor, stage) = IF after = {} THEN None ELSE buf[Min(after)].last
  BY DEF first_from, find_elem_from
<1>2. after \subseteq DOMAIN buf /\ after \subseteq Nat
  BY SMT
<1> HIDE DEF after
<1>3. CASE after # {}
  <2>1. \E x \in after : \A y \in after : x <= y
    BY <1>2, <1>3 DEF NumbersOrdered
  <2>2. Min(after) \in after
    BY <2>1 DEF Min
  <2>3. buf[Min(after)] \in Item
    BY <2>2, <1>2, SMT
  <2> QED BY <2>3, <1>1, <1>3 DEF Item
<1> QED BY <1>1, <1>3

(* The signing root is right.                                              *)
SigningOK ==
  FirstOf(buffer, signing_root, "executed") /\ (signing_root # None => SigningAsked(signing_root))

(* advance_signing_root requests the signing of the root it sets.          *)
SigningRequested ==
  /\ signing_root' \in Round \cup {None} /\ signing_tx' \in Seq(Round)
  /\ signing_root' # None => \E i \in DOMAIN signing_tx' : signing_tx'[i] = signing_root'

(* ... whatever cursor it starts from.                                     *)
LEMMA SigningAdvanced ==
  ASSUME NumbersOrdered, Types, NEW buf \in Seq(Item), NEW cursor, advance_signing_root(buf, cursor)
  PROVE  SigningRequested /\ signing_root' = first_from(buf, cursor, "executed")
<1>1. /\ signing_root' = first_from(buf, cursor, "executed")
      /\ signing_tx' = IF signing_root' = None THEN signing_tx
                                               ELSE Append(signing_tx, signing_root')
  BY DEF advance_signing_root
<1>2. signing_root' \in Round \cup {None} /\ signing_tx \in Seq(Round)
  BY <1>1, FirstFromType DEF Types
<1>3. CASE signing_root' = None
  BY <1>1, <1>2, <1>3 DEF SigningRequested
<1>4. CASE signing_root' # None
  <2>1. signing_root' \in Round
    BY <1>2, <1>4
  <2>2. signing_tx' = Append(signing_tx, signing_root')
    BY <1>1, <1>4
  <2>3. /\ Len(signing_tx) + 1 \in DOMAIN signing_tx' /\ signing_tx' \in Seq(Round)
        /\ signing_tx'[Len(signing_tx) + 1] = signing_root'
    BY <1>2, <2>1, <2>2, SMT
  <2>4. \E i \in DOMAIN signing_tx' : signing_tx'[i] = signing_root'
    BY <2>3
  <2> QED BY <1>1, <1>2, <2>3, <2>4, SMT DEF SigningRequested
<1> QED BY <1>1, <1>3, <1>4

(* A cursor from which the first item of a stage is the first of all.      *)
Leads(buf, cursor, stage) ==
  \/ cursor = None
  \/ \E k \in DOMAIN buf : /\ cursor = buf[k].last
                           /\ \A j \in DOMAIN buf : j < k => buf[j].stage # stage

(* The first item of a stage has none of that stage before it.             *)
LEMMA RootLeads ==
  ASSUME NEW buf, NEW root, NEW stage, FirstOf(buf, root, stage)
  PROVE  Leads(buf, root, stage)
BY DEF Leads, FirstOf

(* advance_signing_root from a cursor with no executed item before it.     *)
LEMMA SigningFirst ==
  ASSUME NumbersOrdered, Types, NEW buf \in Seq(Item), Distinct(buf), NEW cursor,
         advance_signing_root(buf, cursor), buffer' = buf, Leads(buf, cursor, "executed")
  PROVE  SigningOK'
<1>1. SigningRequested /\ signing_root' = first_from(buf, cursor, "executed")
  BY SigningAdvanced
<1>2. FirstOf(buf, first_from(buf, cursor, "executed"), "executed")
  BY FirstFrom DEF Leads
<1> QED BY <1>1, <1>2 DEF SigningOK, SigningAsked, SigningRequested, FirstOf

(* With "signing_root = None", as after an answer of the execution.        *)
LEMMA SigningFilled ==
  ASSUME NumbersOrdered, Types, NEW buf \in Seq(Item), Distinct(buf), buffer' = buf,
         signing_rx' = signing_rx,
         IF signing_root = None THEN advance_signing_root(buf, None)
                                ELSE signing_root_as(signing_root)
  PROVE  /\ signing_root' \in Round \cup {None} /\ signing_tx' \in Seq(Round)
         /\ (/\ signing_root # None => /\ FirstOf(buf, signing_root, "executed")
                                       /\ SigningAsked(signing_root)) => SigningOK'
<1>1. CASE signing_root = None
  <2>1. advance_signing_root(buf, None) /\ Leads(buf, None, "executed")
    BY <1>1 DEF Leads
  <2> QED BY <2>1, SigningAdvanced, SigningFirst DEF SigningRequested
<1>2. CASE signing_root # None
  <2>1. UNCHANGED <<signing_root, signing_tx>>
    BY <1>2 DEF signing_root_as
  <2>2. signing_root' \in Round \cup {None} /\ signing_tx' \in Seq(Round)
    BY <2>1 DEF Types
  <2> QED BY <1>2, <2>1, <2>2 DEF SigningOK, SigningAsked, FirstOf
<1> QED BY <1>1, <1>2

-----------------------------------------------------------------------------
(* process_ordered_blocks: the next blocks of the chain enter the buffer.  *)

(* The fields of an item.                                                  *)
LEMMA ItemFields ==
  ASSUME NEW item \in Item
  PROVE  /\ item.first \in Round /\ item.last \in Round /\ item.gen \in Nat
         /\ item.stage \in {"ordered", "executed", "signed"}
         /\ item.votes \in Votes /\ item.proof \in BOOLEAN
         /\ item = [first |-> item.first, last |-> item.last, gen |-> item.gen,
                    stage |-> item.stage, votes |-> item.votes, proof |-> item.proof]
BY DEF Item, Votes

(* What is appended to the buffer.                                         *)
Entered(item, b) ==
  /\ item \in Item /\ item.first = b.first /\ item.last = b.last /\ item.gen = b.gen
  /\ item.stage = "ordered" /\ item.proof = FALSE
  /\ item.votes = pending_commit_votes[b.last]

(* new_ordered with the votes that came before the block.                  *)
LEMMA OrderedItem ==
  ASSUME Types, NEW b \in Entries, NEW item,
         item = new_ordered(b, pending_commit_votes[b.last])
  PROVE  Entered(item, b)
<1>1. b.first \in Round /\ b.last \in Round /\ b.gen \in Nat
  BY SMT DEF Entries
<1>2. pending_commit_votes[b.last] \in Votes
  <2>1. pending_commit_votes \in [Round -> Votes]
    BY DEF Types
  <2> QED BY <1>1, <2>1, SMT
<1> QED BY <1>1, <1>2, SMT DEF Entered, new_ordered, Item, Votes

(* process_ordered_blocks keeps the invariant.                             *)
LEMMA OrderedBlocks ==
  ASSUME NumbersOrdered, PipelineInv, process_ordered_blocks
  PROVE  PipelineInv'
<1>b. PICK b : b = Head(block_rx)
  OBVIOUS
<1>c. PICK item : item = new_ordered(b, pending_commit_votes[b.last])
  OBVIOUS
<1>1. /\ Types /\ Chain /\ InLine /\ Spans /\ Awaited /\ Truthful /\ Roots /\ Certificates
      /\ mode = "run" /\ block_rx # <<>>
      /\ buffer' = Append(buffer, item)
      /\ schedule_rx' = Append(schedule_rx, b) /\ block_rx' = Tail(block_rx)
      /\ pending_commit_votes' = [pending_commit_votes EXCEPT ![b.last] = NoVotes]
      /\ latest_round' = b.last
      /\ IF execution_root = None THEN advance_execution_root(buffer', None)
                                  ELSE UNCHANGED execution_root
  BY <1>b, <1>c DEF PipelineInv, Queues, process_ordered_blocks
<1>2. /\ UNCHANGED <<signing_root, wait_tx, wait_rx, signing_tx, signing_rx,
                     persisting_tx, persisting_rx, pending_commit_proofs,
                     pending_commit_blocks, highest_committed_round, mode, reset_signal,
                     gen, next_round, committed, finished, failed, aborted, latest_logical_time,
                     scenario, own_votes, acked, certified, faults, stale>>
  BY SMT DEF process_ordered_blocks, control, node, history
<1>3. /\ block_rx \in Seq(Entries) /\ schedule_rx \in Seq(Entries) /\ buffer \in Seq(Item)
      /\ pending_commit_votes \in [Round -> Votes]
  BY <1>1 DEF Types
<1> DEFINE n == Len(schedule_rx) + 1
           m == Len(buffer) + 1
<1>4. /\ b \in Entries /\ b = block_rx[1] /\ 1 \in DOMAIN block_rx
      /\ block_rx' \in Seq(Entries)
      /\ \A i \in DOMAIN block_rx' : /\ 1 < i + 1 /\ i + 1 \in DOMAIN block_rx
                                     /\ block_rx'[i] = block_rx[i + 1]
      /\ \A i, j \in DOMAIN block_rx' : i < j => i + 1 < j + 1
  <2>1. b \in Entries /\ b = block_rx[1] /\ 1 \in DOMAIN block_rx /\ block_rx' \in Seq(Entries)
    BY <1>b, <1>1, <1>3, HeadTail
  <2> QED BY <1>1, <1>3, <2>1, SMTT(30)
<1>5. /\ b.first \in Round /\ b.last \in Round /\ b.first \in Nat /\ b.last \in Nat
      /\ b.last \in 0..MaxRound
  BY <1>4, BoundAssumption, SMT DEF Entries, Round
<1>6. /\ n \in DOMAIN schedule_rx' /\ schedule_rx'[n] = b /\ schedule_rx' \in Seq(Entries)
      /\ \A i \in DOMAIN schedule_rx : /\ i \in DOMAIN schedule_rx' /\ ~ (n < i)
                                       /\ schedule_rx'[i] = schedule_rx[i]
      /\ \A i \in DOMAIN schedule_rx' :
           (i \in DOMAIN schedule_rx /\ schedule_rx'[i] = schedule_rx[i]) \/ i = n
      /\ ~ (n < n)
  BY <1>1, <1>3, <1>4, SMT
<1>7. /\ item \in Item /\ item.first = b.first /\ item.last = b.last /\ item.gen = b.gen
      /\ item.stage = "ordered" /\ item.proof = FALSE
      /\ item.votes = pending_commit_votes[b.last]
  BY <1>c, <1>1, <1>4, OrderedItem DEF Entered
<1>8. /\ m \in DOMAIN buffer' /\ buffer'[m] = item /\ buffer' \in Seq(Item)
      /\ \A i \in DOMAIN buffer : i \in DOMAIN buffer' /\ ~ (m < i) /\ buffer'[i] = buffer[i]
      /\ \A i \in DOMAIN buffer' : (i \in DOMAIN buffer /\ buffer'[i] = buffer[i]) \/ i = m
      /\ ~ (m < m)
  BY <1>1, <1>3, <1>7, SMT
<1> HIDE DEF n, m
<1>9. /\ pending_commit_votes' \in [Round -> Votes]
      /\ pending_commit_votes'[b.last] = NoVotes
      /\ \A r \in Round : r # b.last => pending_commit_votes'[r] = pending_commit_votes[r]
  <2>1. NoVotes \in Votes
    BY SMT DEF NoVotes, Votes
  <2> QED BY <1>1, <1>3, <1>5, <2>1, SMT
<1>10. /\ Ours(b) /\ b.gen = gen /\ b.first <= b.last /\ b.last < next_round /\ Queued(b)
  BY <1>1, <1>4 DEF Chain, Spans, Queued, Ours
<1>11. /\ \A i \in DOMAIN buffer : buffer[i].last < b.first
       /\ \A k \in DOMAIN persisting_tx : persisting_tx[k].target < b.first
       /\ \A i \in DOMAIN wait_rx : Ours(wait_rx[i]) => wait_rx[i].last < b.first
       /\ \A i \in DOMAIN wait_tx : Ours(wait_tx[i]) => wait_tx[i].last < b.first
       /\ \A i \in DOMAIN schedule_rx : Ours(schedule_rx[i]) => schedule_rx[i].last < b.first
  <2>1. /\ \A i \in DOMAIN buffer : buffer[i].last < b.first
        /\ \A k \in DOMAIN persisting_tx : persisting_tx[k].target < b.first
    BY <1>1, <1>4 DEF Chain
  <2>2. /\ \A i \in DOMAIN wait_rx : Ours(wait_rx[i]) => wait_rx[i].last < b.first
        /\ \A i \in DOMAIN wait_tx : Ours(wait_tx[i]) => wait_tx[i].last < b.first
        /\ \A i \in DOMAIN schedule_rx : Ours(schedule_rx[i]) => schedule_rx[i].last < b.first
    BY <1>1, <1>4, <1>10 DEF InLine, Before
  <2> QED BY <2>1, <2>2
<1>12. \A i \in DOMAIN block_rx' : /\ Ours(block_rx'[i]) /\ b.last < block_rx'[i].first
                                   /\ block_rx'[i].first <= block_rx'[i].last
                                   /\ Queued(block_rx'[i])
  <2>1. \A i \in DOMAIN block_rx : /\ Ours(block_rx[i]) /\ block_rx[i].first <= block_rx[i].last
                                   /\ Queued(block_rx[i])
    BY <1>1 DEF Chain, Spans
  <2>2. \A i \in DOMAIN block_rx : 1 < i => b.last < block_rx[i].first
    BY <1>1, <1>4, <1>10, <2>1 DEF InLine, Increasing
  <2> QED BY <1>4, <2>1, <2>2
<1>d. Chain /\ Truthful /\ Certificates
  BY <1>1
<1>13. Chain'
  <2>1. \A i \in DOMAIN buffer' : buffer'[i].first <= buffer'[i].last /\ buffer'[i].last < next_round
    BY <1>d, <1>7, <1>8, <1>10 DEF Chain
  <2>2. \A i, j \in DOMAIN buffer' : i < j => buffer'[i].last < buffer'[j].first
    <3>1. \A i, j \in DOMAIN buffer' : i < j => i \in DOMAIN buffer /\ buffer'[i] = buffer[i]
      BY <1>8
    <3>2. ASSUME NEW i \in DOMAIN buffer', NEW j \in DOMAIN buffer', i < j
          PROVE  buffer'[i].last < buffer'[j].first
      <4>1. i \in DOMAIN buffer /\ buffer'[i] = buffer[i]
        BY <3>1, <3>2
      <4>2. CASE j = m
        BY <1>7, <1>8, <1>11, <4>1, <4>2
      <4>3. CASE j \in DOMAIN buffer /\ buffer'[j] = buffer[j]
        BY <1>d, <3>2, <4>1, <4>3 DEF Chain
      <4> QED BY <1>8, <4>2, <4>3
    <3> QED BY <3>2
  <2>3. ASSUME NEW i \in DOMAIN buffer', NEW j \in DOMAIN block_rx'
        PROVE  buffer'[i].last < block_rx'[j].first
    <3>1. CASE i = m
      BY <1>7, <1>8, <1>12, <3>1
    <3>2. CASE i \in DOMAIN buffer /\ buffer'[i] = buffer[i]
      <4>1. j + 1 \in DOMAIN block_rx /\ block_rx'[j] = block_rx[j + 1]
        BY <1>4
      <4> QED BY <1>d, <3>2, <4>1 DEF Chain
    <3> QED BY <1>8, <3>1, <3>2
  <2>4. \A k \in DOMAIN persisting_tx :
          /\ persisting_tx[k].target < next_round
          /\ \A i \in DOMAIN buffer' : persisting_tx[k].target < buffer'[i].first
          /\ \A i \in DOMAIN block_rx' : persisting_tx[k].target < block_rx'[i].first
    <3>1. \A k \in DOMAIN persisting_tx :
            /\ persisting_tx[k].target < next_round
            /\ \A i \in DOMAIN buffer : persisting_tx[k].target < buffer[i].first
            /\ \A i \in DOMAIN block_rx : persisting_tx[k].target < block_rx[i].first
      BY <1>d DEF Chain
    <3>2. \A k \in DOMAIN persisting_tx :
            \A i \in DOMAIN buffer' : persisting_tx[k].target < buffer'[i].first
      BY <1>7, <1>8, <1>11, <3>1
    <3>3. \A k \in DOMAIN persisting_tx :
            \A i \in DOMAIN block_rx' : persisting_tx[k].target < block_rx'[i].first
      BY <1>4, <3>1
    <3> QED BY <3>1, <3>2, <3>3
  <2>5. mode' # "tasks"
    BY <1>1, <1>2, SMT
  <2> QED BY <1>2, <1>12, <2>1, <2>2, <2>3, <2>4, <2>5 DEF Chain, Ours
<1>14. /\ \A i \in DOMAIN buffer' : buffer'[i].last \in Round /\ i \in Nat \ {0}
       /\ Distinct(buffer')
  <2>0. buffer' \in Seq(Item)
    BY <1>8
  <2>1. DOMAIN buffer' \subseteq Nat \ {0}
    BY <2>0, SMT
  <2>2. \A i \in DOMAIN buffer' : buffer'[i].first \in Round /\ buffer'[i].last \in Round
    <3>1. \A i \in DOMAIN buffer' : buffer'[i] \in Item
      BY <2>0, SMT
    <3> QED BY <3>1, ItemFields
  <2>3. Sorted(buffer')
    BY <1>13 DEF Sorted, Chain
  <2>4. Distinct(buffer')
    BY <2>1, <2>2, <2>3, SortedDistinct
  <2> QED BY <2>1, <2>2, <2>4
<1>15. execution_root' \in Round \cup {None} /\ FirstOf(buffer', execution_root', "ordered")
  <2>1. FirstOf(buffer, execution_root, "ordered")
    BY <1>1 DEF Roots
  <2>2. CASE execution_root = None
    <3>1. execution_root' = first_from(buffer', None, "ordered")
      BY <1>1, <2>2 DEF advance_execution_root
    <3>2. FirstOf(buffer', first_from(buffer', None, "ordered"), "ordered")
      BY <1>8, <1>14, FirstFrom
    <3> QED BY <1>8, <3>1, <3>2, FirstFromType
  <2>3. CASE execution_root # None
    <3>1. PICK e \in DOMAIN buffer : /\ buffer[e].last = execution_root
                                     /\ buffer[e].stage = "ordered"
                                     /\ \A j \in DOMAIN buffer : j < e => buffer[j].stage # "ordered"
      BY <2>1, <2>3 DEF FirstOf
    <3>2. \A j \in DOMAIN buffer' : j < e => j \in DOMAIN buffer /\ buffer'[j] = buffer[j]
      BY <1>8
    <3>3. /\ e \in DOMAIN buffer' /\ buffer'[e] = buffer[e]
          /\ \A j \in DOMAIN buffer' : j < e => buffer'[j].stage # "ordered"
      BY <1>8, <3>1, <3>2
    <3>4. FirstOf(buffer', execution_root, "ordered")
      BY <3>1, <3>3 DEF FirstOf
    <3>5. execution_root' = execution_root /\ execution_root \in Round \cup {None}
      BY <1>1, <2>3 DEF Types
    <3> QED BY <3>4, <3>5
  <2> QED BY <2>2, <2>3
<1>16. Roots'
  <2>1. ASSUME ~ stale PROVE FirstOf(buffer', signing_root, "executed")
    <3>1. FirstOf(buffer, signing_root, "executed")
      BY <1>1, <2>1 DEF Roots
    <3>2. item.stage # "executed"
      BY <1>7, SMT
    <3>3. CASE \A i \in DOMAIN buffer : buffer[i].stage # "executed"
      BY <1>8, <3>1, <3>2, <3>3 DEF FirstOf
    <3>4. ASSUME NEW e \in DOMAIN buffer, buffer[e].last = signing_root,
                 buffer[e].stage = "executed",
                 \A j \in DOMAIN buffer : j < e => buffer[j].stage # "executed"
          PROVE  FirstOf(buffer', signing_root, "executed")
      <4>1. \A j \in DOMAIN buffer' : j < e => j \in DOMAIN buffer /\ buffer'[j] = buffer[j]
        BY <1>8
      <4>2. /\ e \in DOMAIN buffer' /\ buffer'[e] = buffer[e]
            /\ \A j \in DOMAIN buffer' : j < e => buffer'[j].stage # "executed"
        BY <1>8, <3>4, <4>1
      <4> QED BY <3>4, <4>2 DEF FirstOf
    <3> QED BY <3>1, <3>3, <3>4 DEF FirstOf
  <2>2. ~ stale => (signing_root # None => SigningAsked(signing_root))
    BY <1>1 DEF Roots
  <2> QED BY <1>2, <1>15, <2>1, <2>2 DEF Roots, SigningAsked
<1>17. Types'
  BY <1>1, <1>2, <1>4, <1>5, <1>6, <1>8, <1>9, <1>15 DEF Types
<1>18. InLine'
  <2>1. Increasing(wait_tx)' /\ Increasing(wait_rx)' /\ Before(wait_rx, wait_tx)'
    BY <1>1, <1>2 DEF InLine, Increasing, Before, Ours
  <2> /\ Increasing(block_rx) /\ Increasing(schedule_rx) /\ Before(wait_rx, block_rx)
      /\ Before(wait_rx, schedule_rx) /\ Before(wait_tx, block_rx)
      /\ Before(wait_tx, schedule_rx) /\ Before(schedule_rx, block_rx)
    BY <1>1 DEF InLine
  <2>2. Increasing(block_rx)'
    <3>1. ASSUME NEW i \in DOMAIN block_rx', NEW j \in DOMAIN block_rx', i < j,
                 Ours(block_rx'[i]), Ours(block_rx'[j])
          PROVE  block_rx'[i].last < block_rx'[j].first
      <4>1. /\ i + 1 \in DOMAIN block_rx /\ j + 1 \in DOMAIN block_rx /\ i + 1 < j + 1
            /\ block_rx'[i] = block_rx[i + 1] /\ block_rx'[j] = block_rx[j + 1]
        BY <1>4, <3>1
      <4> QED BY <3>1, <4>1 DEF Increasing
    <3> QED BY <1>2, <3>1 DEF Increasing, Ours
  <2>3. Before(wait_rx, block_rx)' /\ Before(wait_tx, block_rx)'
    <3>1. \A i \in DOMAIN wait_rx, j \in DOMAIN block_rx' :
             Ours(wait_rx[i]) /\ Ours(block_rx'[j]) => wait_rx[i].last < block_rx'[j].first
      BY <1>4 DEF Before
    <3>2. \A i \in DOMAIN wait_tx, j \in DOMAIN block_rx' :
             Ours(wait_tx[i]) /\ Ours(block_rx'[j]) => wait_tx[i].last < block_rx'[j].first
      BY <1>4 DEF Before
    <3> QED BY <1>2, <3>1, <3>2 DEF Before, Ours
  <2>4. Before(wait_rx, schedule_rx)' /\ Before(wait_tx, schedule_rx)'
    <3>1. \A i \in DOMAIN wait_rx, j \in DOMAIN schedule_rx' :
             Ours(wait_rx[i]) /\ Ours(schedule_rx'[j]) => wait_rx[i].last < schedule_rx'[j].first
      BY <1>6, <1>11 DEF Before
    <3>2. \A i \in DOMAIN wait_tx, j \in DOMAIN schedule_rx' :
             Ours(wait_tx[i]) /\ Ours(schedule_rx'[j]) => wait_tx[i].last < schedule_rx'[j].first
      BY <1>6, <1>11 DEF Before
    <3> QED BY <1>2, <3>1, <3>2 DEF Before, Ours
  <2>5. Increasing(schedule_rx)'
    <3>1. \A i, j \in DOMAIN schedule_rx' : i < j =>
             i \in DOMAIN schedule_rx /\ schedule_rx'[i] = schedule_rx[i]
      BY <1>6
    <3>2. \A i, j \in DOMAIN schedule_rx' : i < j /\
             Ours(schedule_rx'[i]) /\ Ours(schedule_rx'[j]) =>
               schedule_rx'[i].last < schedule_rx'[j].first
      BY <1>6, <1>11, <3>1 DEF Increasing
    <3> QED BY <1>2, <3>2 DEF Increasing, Ours
  <2>6. Before(schedule_rx, block_rx)'
    <3>1. \A i \in DOMAIN schedule_rx, j \in DOMAIN block_rx' :
             Ours(schedule_rx[i]) /\ Ours(block_rx'[j]) => schedule_rx[i].last < block_rx'[j].first
      BY <1>4 DEF Before
    <3>2. \A i \in DOMAIN schedule_rx', j \in DOMAIN block_rx' :
             Ours(schedule_rx'[i]) /\ Ours(block_rx'[j]) =>
               schedule_rx'[i].last < block_rx'[j].first
      BY <1>6, <1>12, <3>1
    <3> QED BY <1>2, <3>2 DEF Before, Ours
  <2> QED BY <2>1, <2>2, <2>3, <2>4, <2>5, <2>6 DEF InLine
<1>19. Spans'
  <2>1. ASSUME NEW e, Queued(e), Ours(e) /\ e.last = b.last => e.first = b.first
        PROVE  Queued(e)'
    BY <1>2, <1>7, <1>8, <2>1 DEF Queued, Ours
  <2>2. ASSUME NEW e, e.last \in Nat, e.last < b.first PROVE e.last # b.last
    BY <1>5, <1>10, <2>2, SMT
  <2>3. Queued(b)'
    BY <1>10, <2>1
  <2>4. \A i \in DOMAIN block_rx' : Queued(block_rx[i])'
    <3>1. ASSUME NEW i \in DOMAIN block_rx' PROVE block_rx'[i].last # b.last
      <4>1. block_rx'[i].first \in Nat /\ block_rx'[i].last \in Nat
        BY <1>1, <1>4, EntryTypes
      <4> QED BY <1>5, <1>12, <4>1, SMT
    <3> QED BY <1>12, <2>1, <3>1
  <2>6. \A i \in DOMAIN schedule_rx' : Queued(schedule_rx[i])'
    <3>1. ASSUME NEW i \in DOMAIN schedule_rx'
          PROVE  /\ Queued(schedule_rx'[i])
                 /\ Ours(schedule_rx'[i]) /\ schedule_rx'[i].last = b.last =>
                      schedule_rx'[i].first = b.first
      BY <1>1, <1>6, <1>10, <1>11, <2>2, EntryTypes DEF Spans
    <3> QED BY <2>1, <3>1
  <2>7. \A i \in DOMAIN wait_tx' : Queued(wait_tx[i])'
    <3>1. \A i \in DOMAIN wait_tx : /\ Queued(wait_tx[i])
                                    /\ Ours(wait_tx[i]) => wait_tx[i].last # b.last
      BY <1>1, <1>11, <2>2, EntryTypes DEF Spans
    <3> QED BY <1>2, <2>1, <3>1
  <2>8. \A i \in DOMAIN wait_rx' : Queued(wait_rx[i])'
    <3>1. \A i \in DOMAIN wait_rx : /\ Queued(wait_rx[i])
                                    /\ Ours(wait_rx[i]) => wait_rx[i].last # b.last
      BY <1>1, <1>11, <2>2, EntryTypes DEF Spans
    <3> QED BY <1>2, <2>1, <3>1
  <2> QED BY <2>4, <2>6, <2>7, <2>8 DEF Spans
<1>20. Awaited'
  <2>1. ASSUME NEW x, Waiting(x) PROVE Waiting(x)'
    BY <1>2, <1>6, <2>1 DEF Waiting, Ours
  <2>2. Waiting(item)'
    BY <1>2, <1>6, <1>7, <1>10 DEF Waiting, Ours
  <2>3. \A i \in DOMAIN buffer' : buffer'[i].stage = "ordered" =>
          buffer'[i].gen = gen /\ Waiting(buffer[i])'
    BY <1>1, <1>7, <1>8, <1>10, <2>1, <2>2 DEF Awaited
  <2> QED BY <1>2, <2>3 DEF Awaited
<1>21. Truthful'
  <2>1. \A i \in DOMAIN wait_rx : Ours(wait_rx[i]) => wait_rx[i].last # b.last
    <3>1. \A i \in DOMAIN wait_rx : wait_rx[i].last \in Nat
      BY <1>1, EntryTypes
    <3> QED BY <1>5, <1>10, <1>11, <3>1, SMT
  <2>2. ASSUME NEW i \in DOMAIN wait_rx, NEW j \in DOMAIN buffer', Ours(wait_rx[i]),
               wait_rx[i].last = buffer'[j].last
        PROVE  IF wait_rx[i].ok THEN wait_rx[i].last < failed ELSE wait_rx[i].last >= failed
    <3>1. j # m
      BY <1>7, <1>8, <2>1, <2>2
    <3>2. j \in DOMAIN buffer /\ buffer'[j] = buffer[j]
      BY <1>8, <3>1
    <3> QED BY <1>d, <2>2, <3>2 DEF Truthful
  <2> QED BY <1>2, <2>2 DEF Truthful, Ours
<1>22. Certificates'
  <2>1. \A a \in Validator : NoVotes[a] # "good"
    BY SMT DEF NoVotes
  <2>2. ASSUME NEW r \in Round, NEW a \in Validator, pending_commit_votes'[r][a] = "good"
        PROVE  <<a, r>> \in acked
    BY <1>1, <1>9, <2>1, <2>2 DEF Certificates
  <2>3. ASSUME NEW i \in DOMAIN buffer'
        PROVE  /\ \A a \in Validator : buffer'[i].votes[a] = "good" => <<a, buffer'[i].last>> \in acked
               /\ pending_commit_votes'[buffer'[i].last] = NoVotes
               /\ buffer'[i].proof => buffer'[i].last \in certified
    <3>1. CASE i = m
      <4>1. \A a \in Validator : pending_commit_votes[b.last][a] = "good" => <<a, b.last>> \in acked
        BY <1>d, <1>5 DEF Certificates
      <4> QED BY <1>7, <1>8, <1>9, <3>1, <4>1
    <3>2. CASE i \in DOMAIN buffer /\ buffer'[i] = buffer[i]
      BY <1>d, <1>9, <1>14, <3>2 DEF Certificates
    <3> QED BY <1>8, <3>1, <3>2
  <2>4. \A k \in DOMAIN persisting_tx' : Decided(persisting_tx[k].target)'
    BY <1>1, <1>2 DEF Certificates, Decided, Certifiers
  <2> QED BY <1>1, <1>2, <2>2, <2>3, <2>4 DEF Certificates
<1>23. ASSUME NEW r, Done(r), r < b.first PROVE Done(r)'
  <2>1. \A i \in DOMAIN schedule_rx' : Ours(schedule_rx'[i]) => r < schedule_rx'[i].first
    BY <1>6, <1>23 DEF Done, After
  <2> QED BY <1>2, <1>23, <2>1 DEF Done, After, Ours
<1>24. ASSUME ~ stale'
       PROVE  InOrder' /\ Persisting' /\ Committed' /\ Pressure' /\ VotesKept'
  <2>1. InOrder /\ Persisting /\ Committed /\ Pressure /\ VotesKept
    BY <1>2, <1>24 DEF PipelineInv, Fresh
  <2>2. InOrder'
    <3>1. \A i \in DOMAIN buffer' : buffer'[i].gen = gen /\ committed < buffer'[i].first
      BY <1>4, <1>7, <1>8, <1>10, <2>1 DEF InOrder
    <3>2. ~ Executed(item)
      BY <1>7 DEF Executed
    <3>3. \A i, j \in DOMAIN buffer' : i < j /\ Executed(buffer'[j]) => Executed(buffer'[i])
      <4>1. \A i, j \in DOMAIN buffer' : i < j => i \in DOMAIN buffer /\ buffer'[i] = buffer[i]
        BY <1>8
      <4> QED BY <1>8, <2>1, <3>2, <4>1 DEF InOrder
    <3>4. \A i \in DOMAIN buffer' : Executed(buffer'[i]) => Done(buffer[i].last)'
      BY <1>8, <1>11, <1>23, <2>1, <3>2 DEF InOrder
    <3>5. \A i \in DOMAIN block_rx' : committed < block_rx'[i].first
      BY <1>4, <2>1 DEF InOrder
    <3> QED BY <1>2, <2>1, <3>1, <3>3, <3>4, <3>5 DEF InOrder, Executed
  <2>3. Persisting'
    <3>1. \A k \in DOMAIN persisting_tx : Done(persisting_tx[k].target)'
      BY <1>2, <1>11, <1>23, <2>1 DEF Persisting
    <3> QED BY <1>2, <2>1, <3>1, PersistingDone
  <2>4. Committed'
    <3>1. ~ Syncing /\ ~ Syncing'
      BY <1>1, <1>2, SMT DEF Syncing
    <3> QED BY <1>2, <2>1, <3>1 DEF Committed, Ours
  <2>5. Pressure'
    <3>1. item.last >= latest_round'
      BY <1>1, <1>5, <1>7, SMT
    <3> QED BY <1>8, <3>1 DEF Pressure
  <2>6. VotesKept'
    <3>1. ASSUME NEW x \in acked, pending_commit_votes[x[2]][x[1]] = "good"
          PROVE  \/ pending_commit_votes'[x[2]][x[1]] = "good"
                 \/ \E i \in DOMAIN buffer' : buffer'[i].last = x[2] /\ buffer'[i].votes[x[1]] = "good"
      <4>1. x[2] \in Round
        <5>1. x \in Validator \X Round
          BY <1>1 DEF Types
        <5> QED BY <5>1, SMT
      <4>2. CASE x[2] = b.last
        <5>1. item.last = x[2] /\ item.votes[x[1]] = "good"
          BY <1>7, <3>1, <4>2
        <5>2. m \in DOMAIN buffer' /\ buffer'[m] = item
          BY <1>8
        <5> QED BY <5>1, <5>2
      <4>3. CASE x[2] # b.last
        BY <1>9, <3>1, <4>1, <4>3
      <4> QED BY <4>2, <4>3
    <3>2. \A x \in acked : (\E i \in DOMAIN buffer : buffer[i].last = x[2] /\ buffer[i].votes[x[1]] = "good")
            => \E i \in DOMAIN buffer' : buffer'[i].last = x[2] /\ buffer'[i].votes[x[1]] = "good"
      BY <1>8
    <3> QED BY <1>2, <2>1, <3>1, <3>2 DEF VotesKept
  <2> QED BY <2>2, <2>3, <2>4, <2>5, <2>6
<1> QED BY <1>13, <1>16, <1>17, <1>18, <1>19, <1>20, <1>21, <1>22, <1>24 DEF PipelineInv, Queues, Fresh

-----------------------------------------------------------------------------
(* The answers of the execution.                                           *)

(* The first k elements, and what is left without them.                    *)
IsPrefix(t, s, k) == DOMAIN t = 1 .. k /\ \A i \in 1 .. k : i \in DOMAIN s /\ t[i] = s[i]

IsSuffix(t, s, k) ==
  /\ \A i \in DOMAIN t : i \in Nat /\ i + k \in DOMAIN s /\ t[i] = s[i + k]
  /\ \A i \in DOMAIN s : i > k => i - k \in DOMAIN t /\ t[i - k] = s[i]

(* What was executed stays executed when an answer is taken.               *)
LEMMA DoneKept ==
  ASSUME NEW r, Done(r), NEW d \in Nat, IsSuffix(wait_rx', wait_rx, d),
         UNCHANGED <<gen, failed, schedule_rx, wait_tx>>
  PROVE  Done(r)'
<1>1. After(r, wait_rx)'
  <2>1. SUFFICES ASSUME NEW i \in DOMAIN wait_rx', (Ours(wait_rx[i]))'
                 PROVE  r < wait_rx'[i].first
    BY DEF After
  <2>2. i + d \in DOMAIN wait_rx /\ wait_rx'[i] = wait_rx[i + d]
    BY DEF IsSuffix
  <2> QED BY <2>1, <2>2 DEF Done, After, Ours
<1>2. After(r, wait_tx)' /\ After(r, schedule_rx)'
  BY DEF Done, After, Ours
<1> QED BY <1>1, <1>2 DEF Done

(* A sequence is its own suffix, and so is its tail.                       *)
LEMMA Suffixes ==
  ASSUME NEW S, NEW s \in Seq(S)
  PROVE  /\ IsSuffix(s, s, 0)
         /\ s # <<>> => IsSuffix(Tail(s), s, 1)
<1>1. IsSuffix(s, s, 0)
  BY SMT DEF IsSuffix
<1>2. ASSUME s # <<>> PROVE IsSuffix(Tail(s), s, 1)
  BY <1>2, SMT DEF IsSuffix
<1> QED BY <1>1, <1>2, SMT

(* What the head of the answers is, and what is left.                      *)
LEMMA AnswerTaken ==
  ASSUME Types, wait_rx # <<>>, wait_rx' = Tail(wait_rx)
  PROVE  /\ 1 \in DOMAIN wait_rx /\ Head(wait_rx) = wait_rx[1] /\ wait_rx[1] \in Answers
         /\ wait_rx[1].gen \in Nat
         /\ wait_rx' \in Seq(Answers) /\ IsSuffix(wait_rx', wait_rx, 1)
         /\ \A l \in DOMAIN wait_rx : l <= 1 => l = 1
<1>1. wait_rx \in Seq(Answers)
  BY DEF Types
<1>2. /\ 1 \in DOMAIN wait_rx /\ Head(wait_rx) = wait_rx[1] /\ wait_rx[1] \in Answers
      /\ wait_rx' \in Seq(Answers)
      /\ \A l \in DOMAIN wait_rx : l <= 1 => l = 1
  BY <1>1, SMT
<1>3. IsSuffix(wait_rx', wait_rx, 1)
  BY <1>1, Suffixes
<1> QED BY <1>2, <1>3 DEF Answers

(* The items before the one an answer of this tree is for are executed.    *)
LEMMA AnswerInTurn ==
  ASSUME Types, Chain, Queues, wait_rx # <<>>, NEW k \in DOMAIN buffer,
         buffer[k].last = wait_rx[1].last, Ours(wait_rx[1]), wait_rx[1].ok,
         NEW j \in DOMAIN buffer, j < k
  PROVE  Executed(buffer[j])
<1>1. SUFFICES ASSUME buffer[j].stage = "ordered" PROVE FALSE
  BY DEF Executed
<1>2. 1 \in DOMAIN wait_rx
  <2>1. wait_rx \in Seq(Answers)
    BY DEF Types
  <2> QED BY <2>1, SMT
<1>3. Waiting(buffer[j])
  BY <1>1 DEF Queues, Awaited
<1>4. /\ buffer[j].last < buffer[k].first /\ buffer[k].first <= buffer[k].last
      /\ buffer[j].last \in Nat /\ buffer[k].first \in Nat /\ buffer[k].last \in Nat
      /\ failed \in Nat
  BY BufferSorted, NumberTypes DEF Chain
<1>5. buffer[k].last < failed
  BY <1>2 DEF Queues, Truthful
<1>6. buffer[j].last < buffer[k].last
  BY <1>4, SMT
<1>7. ASSUME NEW e, Queued(e), e.first \in Nat, e.last \in Nat, buffer[k].last < e.first,
             e.last = buffer[j].last
      PROVE  FALSE
  <2>1. e.first <= e.last
    BY <1>7 DEF Queued
  <2> QED BY <2>1, <1>4, <1>6, <1>7, SMT
<1>8. CASE \E i \in DOMAIN schedule_rx : Ours(schedule_rx[i]) /\ schedule_rx[i].last = buffer[j].last
  <2>1. PICK i \in DOMAIN schedule_rx : Ours(schedule_rx[i]) /\ schedule_rx[i].last = buffer[j].last
    BY <1>8
  <2>2. wait_rx[1].last < schedule_rx[i].first
    BY <1>2, <2>1 DEF Queues, InLine, Before
  <2>3. Queued(schedule_rx[i]) /\ schedule_rx[i].first \in Nat /\ schedule_rx[i].last \in Nat
    BY EntryTypes DEF Queues, Spans
  <2> QED BY <2>1, <2>2, <2>3, <1>7
<1>9. CASE \E i \in DOMAIN wait_tx : Ours(wait_tx[i]) /\ wait_tx[i].last = buffer[j].last
  <2>1. PICK i \in DOMAIN wait_tx : Ours(wait_tx[i]) /\ wait_tx[i].last = buffer[j].last
    BY <1>9
  <2>2. wait_rx[1].last < wait_tx[i].first
    BY <1>2, <2>1 DEF Queues, InLine, Before
  <2>3. Queued(wait_tx[i]) /\ wait_tx[i].first \in Nat /\ wait_tx[i].last \in Nat
    BY EntryTypes DEF Queues, Spans
  <2> QED BY <2>1, <2>2, <2>3, <1>7
<1>10. CASE \E i \in DOMAIN wait_rx : Ours(wait_rx[i]) /\ wait_rx[i].last = buffer[j].last
  <2>1. PICK i \in DOMAIN wait_rx : Ours(wait_rx[i]) /\ wait_rx[i].last = buffer[j].last
    BY <1>10
  <2>2. i # 1
    BY <2>1, <1>4, <1>6, SMT
  <2>3. 1 < i
    BY <2>2, EntryTypes, SMT
  <2>4. wait_rx[1].last < wait_rx[i].first
    BY <1>2, <2>1, <2>3 DEF Queues, InLine, Increasing
  <2>5. Queued(wait_rx[i]) /\ wait_rx[i].first \in Nat /\ wait_rx[i].last \in Nat
    BY EntryTypes DEF Queues, Spans
  <2> QED BY <2>1, <2>4, <2>5, <1>7
<1>11. CASE buffer[j].last >= failed
  BY <1>11, <1>4, <1>5, <1>6, SMT
<1> QED BY <1>3, <1>8, <1>9, <1>10, <1>11 DEF Waiting

(* The answer of this tree that advance_to_executed_or_aggregated is given  *)
(* is for an ordered item and for the blocks of that item.                 *)
LEMMA AnswerFits ==
  ASSUME Types, Chain, Queues, Roots, mode = "run", wait_rx # <<>>,
         NEW k \in DOMAIN buffer,
         buffer[k].last = wait_rx[1].last, Ours(wait_rx[1]), wait_rx[1].ok,
         ExecutedCursor(wait_rx[1]) # None
  PROVE  buffer[k].stage = "ordered" /\ buffer[k].first = wait_rx[1].first
<1>1. /\ execution_root \in Ids(buffer)
      /\ IndexOf(buffer, buffer[k].last) >= IndexOf(buffer, execution_root)
  BY DEF ExecutedCursor, find_elem_by_key
<1>2. FirstOf(buffer, execution_root, "ordered") /\ execution_root # None
  <2>1. \A i \in DOMAIN buffer : buffer[i].last # None
    BY BufferSorted, SMT DEF Round, None
  <2> QED BY <1>1, <2>1 DEF Roots, Ids
<1>3. PICK e \in DOMAIN buffer : buffer[e].last = execution_root /\ buffer[e].stage = "ordered"
  BY <1>2 DEF FirstOf
<1>4. IndexOf(buffer, buffer[k].last) = k /\ IndexOf(buffer, buffer[e].last) = e
  BY BufferSorted, IndexOfLast
<1>5. ~ (e < k)
  BY <1>3, AnswerInTurn DEF Executed
<1>6. e = k
  BY <1>1, <1>3, <1>4, <1>5, BufferSorted, SMT
<1>7. 1 \in DOMAIN wait_rx
  <2>1. wait_rx \in Seq(Answers)
    BY DEF Types
  <2> QED BY <2>1, SMT
<1>8. buffer[k].first = wait_rx[1].first
  BY <1>7 DEF Queues, Spans, Queued
<1> QED BY <1>3, <1>6, <1>8

(* Everything up to the item of an answer of this tree is done, once the    *)
(* answer is taken.                                                        *)
LEMMA AnswerDone ==
  ASSUME Types, Queues, wait_rx # <<>>, wait_rx' = Tail(wait_rx), NEW k \in DOMAIN buffer,
         NEW r, r = buffer[k].last, r = wait_rx[1].last, Ours(wait_rx[1]), wait_rx[1].ok,
         UNCHANGED <<gen, failed, schedule_rx, wait_tx>>
  PROVE  Done(r)'
<1>1. 1 \in DOMAIN wait_rx /\ IsSuffix(wait_rx', wait_rx, 1)
  BY AnswerTaken
<1>2. r < failed
  BY <1>1 DEF Queues, Truthful
<1>3. After(r, wait_rx)'
  <2>1. SUFFICES ASSUME NEW i \in DOMAIN wait_rx', (Ours(wait_rx[i]))'
                 PROVE  r < wait_rx'[i].first
    BY DEF After
  <2>2. i \in Nat \ {0} /\ i + 1 \in DOMAIN wait_rx /\ wait_rx'[i] = wait_rx[i + 1]
    <3>1. wait_rx' \in Seq(Answers)
      BY AnswerTaken
    <3>2. i \in Nat \ {0}
      BY <3>1, SMT
    <3> QED BY <1>1, <3>2 DEF IsSuffix
  <2>3. 1 < i + 1
    BY <2>2, SMT
  <2>4. Ours(wait_rx[i + 1])
    BY <2>1, <2>2 DEF Ours
  <2> QED BY <1>1, <2>2, <2>3, <2>4 DEF Queues, InLine, Increasing
<1>4. After(r, wait_tx)' /\ After(r, schedule_rx)'
  BY <1>1 DEF Queues, InLine, Before, After, Ours
<1> QED BY <1>2, <1>3, <1>4 DEF Done

(* The buffer after a step holds the items of before from one on.          *)
Within(k) ==
  \A i \in DOMAIN buffer' : /\ i \in Nat \ {0} /\ i + k \in DOMAIN buffer
                            /\ buffer'[i].first = buffer[i + k].first
                            /\ buffer'[i].last = buffer[i + k].last

(* The answers are taken one after the other, the oldest first.            *)
LEMMA InLineAnswered ==
  ASSUME Types, InLine, NEW d \in Nat, IsSuffix(wait_rx', wait_rx, d), UNCHANGED <<gen,
                                                                                   block_rx,
                                                                                   schedule_rx,
                                                                                   wait_tx>>
  PROVE  InLine'
<1>1. /\ Increasing(block_rx)' /\ Increasing(schedule_rx)' /\ Increasing(wait_tx)'
      /\ Before(wait_tx, schedule_rx)' /\ Before(wait_tx, block_rx)'
      /\ Before(schedule_rx, block_rx)'
  BY DEF InLine, Increasing, Before, Ours
<1>2. Increasing(wait_rx)'
  <2>1. SUFFICES ASSUME NEW i \in DOMAIN wait_rx', NEW j \in DOMAIN wait_rx', i < j,
                        (Ours(wait_rx[i]))', (Ours(wait_rx[j]))'
                 PROVE  wait_rx'[i].last < wait_rx'[j].first
    BY DEF Increasing
  <2>2. /\ i \in Nat /\ i + d \in DOMAIN wait_rx /\ wait_rx'[i] = wait_rx[i + d]
        /\ j \in Nat /\ j + d \in DOMAIN wait_rx /\ wait_rx'[j] = wait_rx[j + d]
    BY DEF IsSuffix
  <2>3. i + d < j + d
    BY <2>1, <2>2, SMT
  <2>4. Ours(wait_rx[i + d]) /\ Ours(wait_rx[j + d])
    BY <2>1, <2>2 DEF Ours
  <2> QED BY <2>2, <2>3, <2>4 DEF InLine, Increasing
<1>3. ASSUME NEW s, Before(wait_rx, s) PROVE Before(wait_rx, s)'
  <2>1. SUFFICES ASSUME NEW i \in DOMAIN wait_rx', NEW j \in DOMAIN s,
                        (Ours(wait_rx[i]))', Ours(s[j])'
                 PROVE  wait_rx'[i].last < s[j].first
    BY DEF Before
  <2>2. i + d \in DOMAIN wait_rx /\ wait_rx'[i] = wait_rx[i + d]
    BY DEF IsSuffix
  <2>3. Ours(wait_rx[i + d]) /\ Ours(s[j])
    BY <2>1, <2>2 DEF Ours
  <2> QED BY <1>3, <2>2, <2>3 DEF Before
<1> QED BY <1>1, <1>3, <1>2 DEF InLine

(* ... and what is queued about the blocks of the items left.              *)
LEMMA SpansWithin ==
  ASSUME Spans, NEW k \in Nat, Within(k), NEW d \in Nat, IsSuffix(wait_rx', wait_rx, d),
         UNCHANGED <<gen, next_round, block_rx, schedule_rx, wait_tx>>
  PROVE  Spans'
<1>1. ASSUME NEW e, Queued(e) PROVE Queued(e)'
  BY <1>1 DEF Queued, Ours, Within
<1> QED BY <1>1 DEF Spans, IsSuffix

(* ... and what the answers say.                                           *)
LEMMA TruthfulWithin ==
  ASSUME Truthful, NEW k \in Nat, Within(k), NEW d \in Nat, IsSuffix(wait_rx', wait_rx, d),
         UNCHANGED <<gen, failed>>
  PROVE  Truthful'
<1>1. SUFFICES ASSUME NEW i \in DOMAIN wait_rx', NEW j \in DOMAIN buffer',
                      (Ours(wait_rx[i]))', wait_rx'[i].last = buffer'[j].last
               PROVE  IF wait_rx'[i].ok THEN wait_rx'[i].last < failed'
                                        ELSE wait_rx'[i].last >= failed'
  BY DEF Truthful
<1>2. /\ i + d \in DOMAIN wait_rx /\ wait_rx'[i] = wait_rx[i + d]
      /\ j + k \in DOMAIN buffer /\ buffer'[j].last = buffer[j + k].last
  BY DEF Within, IsSuffix
<1>3. Ours(wait_rx[i + d]) /\ wait_rx[i + d].last = buffer[j + k].last
  BY <1>1, <1>2 DEF Ours
<1> QED BY <1>2, <1>3 DEF Truthful

(* An answer for no item, or an error: the item it is for, if any, has     *)
(* failed for good, and the roots are where they were.                     *)
LEMMA IgnoredResponse ==
  ASSUME NumbersOrdered, PipelineInv, ignore_execution_response
  PROVE  PipelineInv'
<1>1. /\ Types /\ Chain /\ InLine /\ Spans /\ Awaited /\ Truthful /\ Roots /\ Certificates
      /\ mode = "run" /\ wait_rx # <<>> /\ wait_rx' = Tail(wait_rx)
      /\ ExecutedCursor(Head(wait_rx)) = None \/ ~ Head(wait_rx).ok
      /\ advance_execution_root(buffer, execution_root)
      /\ IF signing_root = None THEN advance_signing_root(buffer, None)
                                ELSE signing_root_as(signing_root)
  BY DEF PipelineInv, Queues, ignore_execution_response
<1>2. /\ UNCHANGED <<buffer, block_rx, schedule_rx, wait_tx, signing_rx, persisting_tx,
                     persisting_rx, pending_commit_votes, pending_commit_proofs,
                     pending_commit_blocks, highest_committed_round, latest_round, mode,
                     reset_signal, gen, next_round, committed, finished, failed, aborted,
                     latest_logical_time, scenario, own_votes, acked, certified, faults, stale>>
  BY SMT DEF ignore_execution_response, pending, rounds, control, node, history
<1>3. /\ 1 \in DOMAIN wait_rx /\ Head(wait_rx) = wait_rx[1]
      /\ wait_rx' \in Seq(Answers) /\ IsSuffix(wait_rx', wait_rx, 1)
  BY <1>1, AnswerTaken
<1>4. buffer \in Seq(Item) /\ Distinct(buffer) /\ 1 \in Nat /\ 0 \in Nat
  BY <1>1, BufferSorted DEF Types
<1>5. Within(0)
  <2>1. \A i \in DOMAIN buffer : i \in Nat \ {0} /\ i + 0 = i
    BY <1>4, SMT
  <2> QED BY <1>2, <2>1 DEF Within
<1>6. FirstOf(buffer, execution_root, "ordered")
  BY <1>1 DEF Roots
<1>7. execution_root' \in Round \cup {None} /\ FirstOf(buffer', execution_root', "ordered")
  <2>1. execution_root' = first_from(buffer, execution_root, "ordered")
    BY <1>1 DEF advance_execution_root
  <2>2. Leads(buffer, execution_root, "ordered")
    BY <1>6, RootLeads
  <2>3. FirstOf(buffer, first_from(buffer, execution_root, "ordered"), "ordered")
    BY <1>4, <2>2, FirstFrom DEF Leads
  <2> QED BY <1>2, <1>4, <2>1, <2>3, FirstFromType
<1>8. /\ signing_root' \in Round \cup {None} /\ signing_tx' \in Seq(Round)
      /\ ~ stale => SigningOK'
  <2>1. ~ stale => (signing_root # None => /\ FirstOf(buffer, signing_root, "executed")
                                           /\ SigningAsked(signing_root))
    BY <1>1 DEF Roots
  <2> QED BY <1>1, <1>2, <1>4, <2>1, SigningFilled
<1>9. Roots'
  BY <1>2, <1>7, <1>8 DEF Roots, SigningOK
<1>10. Types'
  BY <1>1, <1>2, <1>3, <1>7, <1>8 DEF Types
<1>11. Chain'
  <2>1. mode' # "tasks"
    BY <1>1, <1>2, SMT
  <2> QED BY <1>1, <1>2, <2>1 DEF Chain, Ours
<1>12. InLine' /\ Spans' /\ Truthful'
  BY <1>1, <1>2, <1>3, <1>4, <1>5, InLineAnswered, SpansWithin, TruthfulWithin
<1>13. Certificates'
  BY <1>1, <1>2, CertificatesSame
<1>14. Awaited'
  <2>1. ASSUME NEW i \in DOMAIN buffer, buffer[i].stage = "ordered",
               Ours(wait_rx[1]), wait_rx[1].last = buffer[i].last
        PROVE  buffer[i].last >= failed
    <3>1. ASSUME wait_rx[1].ok PROVE FALSE
      <4>1. PICK e \in DOMAIN buffer :
              /\ buffer[e].last = execution_root
              /\ \A j \in DOMAIN buffer : j < e => buffer[j].stage # "ordered"
        BY <1>6, <2>1 DEF FirstOf
      <4>2. IndexOf(buffer, buffer[i].last) = i /\ IndexOf(buffer, buffer[e].last) = e
        BY <1>4, IndexOfLast
      <4>3. i >= e
        <5>1. ~ (i < e) /\ i \in Nat /\ e \in Nat
          BY <1>1, <2>1, <4>1, BufferSorted
        <5> QED BY <5>1, SMT
      <4>4. ExecutedCursor(wait_rx[1]) = buffer[i].last
        BY <2>1, <4>1, <4>2, <4>3 DEF ExecutedCursor, find_elem_by_key, Ids
      <4>5. buffer[i].last # None
        <5>1. buffer[i].last \in Round
          BY <1>1, BufferSorted
        <5> QED BY <5>1, SMT DEF Round, None
      <4> QED BY <1>1, <1>3, <3>1, <4>4, <4>5
    <3> QED BY <1>1, <1>3, <2>1, <3>1 DEF Truthful
  <2>2. ASSUME NEW i \in DOMAIN buffer, buffer[i].stage = "ordered", Waiting(buffer[i])
        PROVE  Waiting(buffer[i])'
    <3>1. CASE \E j \in DOMAIN wait_rx : Ours(wait_rx[j]) /\ wait_rx[j].last = buffer[i].last
      <4>1. PICK j \in DOMAIN wait_rx : Ours(wait_rx[j]) /\ wait_rx[j].last = buffer[i].last
        BY <3>1
      <4>2. CASE j = 1
        BY <1>2, <2>1, <2>2, <4>1, <4>2 DEF Waiting
      <4>3. CASE j # 1
        <5>1. j > 1
          BY <1>1, <4>3, EntryTypes, SMT
        <5>2. j - 1 \in DOMAIN wait_rx' /\ wait_rx'[j - 1] = wait_rx[j]
          BY <1>3, <5>1 DEF IsSuffix
        <5> QED BY <1>2, <4>1, <5>2 DEF Waiting, Ours
      <4> QED BY <4>2, <4>3
    <3>2. CASE ~ \E j \in DOMAIN wait_rx : Ours(wait_rx[j]) /\ wait_rx[j].last = buffer[i].last
      BY <1>2, <2>2, <3>2 DEF Waiting, Ours
    <3> QED BY <3>1, <3>2
  <2> QED BY <1>1, <1>2, <2>2 DEF Awaited
<1>15. ASSUME NEW r, Done(r) PROVE Done(r)'
  BY <1>2, <1>3, <1>4, <1>15, DoneKept
<1>16. ASSUME ~ stale'
       PROVE  InOrder' /\ Persisting' /\ Committed' /\ Pressure' /\ VotesKept'
  <2>1. InOrder /\ Persisting /\ Committed /\ Pressure /\ VotesKept
    BY <1>2, <1>16 DEF PipelineInv, Fresh
  <2>2. Committed' /\ Pressure' /\ VotesKept'
    BY <1>2, <2>1, CommittedSame, PressureSame, VotesKeptSame
  <2>3. InOrder'
    BY <1>2, <1>15, <2>1 DEF InOrder
  <2>4. Persisting'
    <3>1. \A k \in DOMAIN persisting_tx : Done(persisting_tx[k].target)'
      BY <1>2, <1>15, <2>1 DEF Persisting
    <3> QED BY <1>2, <2>1, <3>1, PersistingDone
  <2> QED BY <2>2, <2>3, <2>4
<1> QED BY <1>9, <1>10, <1>11, <1>12, <1>13, <1>14, <1>16 DEF PipelineInv, Queues, Fresh

-----------------------------------------------------------------------------
(* An item is changed in its place.                                        *)

(* Popping items or changing them in place keeps the order of the chain.   *)
LEMMA ChainWithin ==
  ASSUME Types, Types', Chain, NEW k \in Nat, Within(k), mode' # "tasks",
         UNCHANGED <<next_round, block_rx, gen>>,
         \A l \in DOMAIN persisting_tx' :
           \/ l \in DOMAIN persisting_tx /\ persisting_tx'[l] = persisting_tx[l]
           \/ k \in DOMAIN buffer /\ persisting_tx'[l].target = buffer[k].last
  PROVE  Chain'
<1>1. \A i \in DOMAIN buffer' : /\ buffer'[i].first <= buffer'[i].last
                                /\ buffer'[i].last < next_round'
  BY DEF Chain, Within
<1>2. ASSUME NEW i \in DOMAIN buffer', NEW j \in DOMAIN buffer', i < j
      PROVE  buffer'[i].last < buffer'[j].first
  <2>1. /\ i \in Nat /\ i + k \in DOMAIN buffer /\ buffer'[i].last = buffer[i + k].last
        /\ j \in Nat /\ j + k \in DOMAIN buffer /\ buffer'[j].first = buffer[j + k].first
    BY SMT DEF Within
  <2>2. i + k < j + k
    BY <2>1, <1>2, SMT
  <2> QED BY <2>1, <2>2 DEF Chain
<1>3. \A i \in DOMAIN block_rx' : (Ours(block_rx[i]))' /\ block_rx'[i].first <= block_rx'[i].last
  BY DEF Chain, Ours
<1>4. \A i \in DOMAIN buffer', j \in DOMAIN block_rx' : buffer'[i].last < block_rx'[j].first
  BY DEF Chain, Within
<1>5. ASSUME NEW l \in DOMAIN persisting_tx'
      PROVE  /\ persisting_tx'[l].target < next_round'
             /\ \A i \in DOMAIN buffer' : persisting_tx'[l].target < buffer'[i].first
             /\ \A i \in DOMAIN block_rx' : persisting_tx'[l].target < block_rx'[i].first
  <2>1. CASE l \in DOMAIN persisting_tx /\ persisting_tx'[l] = persisting_tx[l]
    BY <2>1 DEF Chain, Within
  <2>2. CASE k \in DOMAIN buffer /\ persisting_tx'[l].target = buffer[k].last
    <3>1. ASSUME NEW i \in DOMAIN buffer' PROVE persisting_tx'[l].target < buffer'[i].first
      <4>1. i + k \in DOMAIN buffer /\ buffer'[i].first = buffer[i + k].first /\ k < i + k
        BY SMT DEF Within
      <4> QED BY <4>1, <2>2 DEF Chain
    <3> QED BY <3>1, <2>2 DEF Chain
  <2> QED BY <2>1, <2>2
<1> QED BY <1>1, <1>2, <1>3, <1>4, <1>5 DEF Chain

(* Items left ordered still wait for their answer.                         *)
LEMMA AwaitedWithin ==
  ASSUME Awaited, NEW d \in Nat, IsSuffix(wait_rx', wait_rx, d), Types,
         UNCHANGED <<gen, failed, schedule_rx, wait_tx>>,
         \A i \in DOMAIN buffer' : buffer'[i].stage = "ordered" =>
           \E j \in DOMAIN buffer :
             /\ buffer[j].stage = "ordered" /\ buffer[j].last = buffer'[i].last
             /\ buffer[j].gen = buffer'[i].gen
             /\ \A l \in DOMAIN wait_rx : l <= d => wait_rx[l].last # buffer[j].last
  PROVE  Awaited'
<1>1. SUFFICES ASSUME NEW i \in DOMAIN buffer', buffer'[i].stage = "ordered"
               PROVE  buffer'[i].gen = gen' /\ Waiting(buffer[i])'
  BY DEF Awaited
<1>2. PICK j \in DOMAIN buffer :
             /\ buffer[j].stage = "ordered" /\ buffer[j].last = buffer'[i].last
             /\ buffer[j].gen = buffer'[i].gen
             /\ \A l \in DOMAIN wait_rx : l <= d => wait_rx[l].last # buffer[j].last
  BY <1>1
<1>3. buffer[j].gen = gen /\ Waiting(buffer[j])
  BY <1>2 DEF Awaited
<1>4. ASSUME NEW l \in DOMAIN wait_rx, Ours(wait_rx[l]), wait_rx[l].last = buffer[j].last
      PROVE  \E m \in DOMAIN wait_rx' : (Ours(wait_rx[m]))' /\ wait_rx'[m].last = buffer[j].last
  <2>1. l \in Nat /\ ~ (l <= d)
    BY <1>2, <1>4, EntryTypes
  <2>2. l > d
    BY <2>1, SMT
  <2>3. l - d \in DOMAIN wait_rx' /\ wait_rx'[l - d] = wait_rx[l]
    BY <2>2 DEF IsSuffix
  <2> QED BY <2>3, <1>4 DEF Ours
<1>5. Waiting(buffer[i])'
  BY <1>2, <1>3, <1>4 DEF Waiting, Ours
<1> QED BY <1>2, <1>3, <1>5

(* One item of the buffer is replaced in place, and what else may change.  *)
Changed(item, k) ==
  /\ buffer' = [buffer EXCEPT ![k] = item] /\ item \in Item
  /\ item.first = buffer[k].first /\ item.last = buffer[k].last

AroundChanged(item, k, d) ==
  /\ UNCHANGED <<block_rx, schedule_rx, wait_tx, persisting_tx, persisting_rx,
                 pending_commit_votes, pending_commit_blocks, highest_committed_round,
                 latest_round, mode, reset_signal, gen, next_round, committed, finished,
                 failed, aborted, latest_logical_time, scenario, faults>>
  /\ execution_root' \in Round \cup {None} /\ signing_root' \in Round \cup {None}
  /\ signing_tx' \in Seq(Round) /\ signing_rx' \in Seq([round : Round, ok : BOOLEAN])
  /\ own_votes' \subseteq Round
  /\ wait_rx' \in Seq(Answers) /\ IsSuffix(wait_rx', wait_rx, d)
  /\ \A l \in DOMAIN wait_rx : l <= d => wait_rx[l].last = buffer[k].last
  /\ acked \subseteq acked' /\ acked' \subseteq Validator \X Round
  /\ \A x \in acked' : x \in acked \/ (x[2] = buffer[k].last /\ item.votes[x[1]] = "good")
  /\ certified \subseteq certified' /\ certified' \subseteq Round
  /\ pending_commit_proofs' \subseteq certified'
  /\ stale' \in BOOLEAN /\ (stale => stale')
  /\ \A a \in Validator : item.votes[a] = "good" => <<a, item.last>> \in acked'
  /\ \A a \in Honest : buffer[k].votes[a] = "good" => item.votes[a] = "good"
  /\ item.proof => item.last \in certified'
  /\ item.stage = "ordered" =>
       buffer[k].stage = "ordered" /\ item.gen = buffer[k].gen /\ d = 0
  /\ ~ stale' => /\ item.gen = gen
                 /\ Executed(buffer[k]) => Executed(item)
                 /\ Executed(item) => /\ Done(item.last)'
                                      /\ \A i \in DOMAIN buffer : i < k => Executed(buffer[i])

(* The buffer with one item replaced.                                      *)
LEMMA ChangedItems ==
  ASSUME Types, NEW k \in DOMAIN buffer, NEW item, Changed(item, k)
  PROVE  /\ buffer' \in Seq(Item) /\ DOMAIN buffer' = DOMAIN buffer
         /\ \A i \in DOMAIN buffer : buffer'[i] = IF i = k THEN item ELSE buffer[i]
         /\ Within(0)
<1>1. buffer \in Seq(Item) /\ item \in Item /\ buffer' = [buffer EXCEPT ![k] = item]
  BY DEF Types, Changed
<1>2. /\ buffer' \in Seq(Item) /\ DOMAIN buffer' = DOMAIN buffer
      /\ \A i \in DOMAIN buffer : buffer'[i] = IF i = k THEN item ELSE buffer[i]
  BY <1>1, SMT
<1>3. ASSUME NEW i \in DOMAIN buffer'
      PROVE  /\ i \in Nat \ {0} /\ i + 0 \in DOMAIN buffer
             /\ buffer'[i].first = buffer[i + 0].first
             /\ buffer'[i].last = buffer[i + 0].last
  <2>1. i \in Nat \ {0} /\ i + 0 = i
    BY <1>2, SMT
  <2>2. buffer'[i].first = buffer[i].first /\ buffer'[i].last = buffer[i].last
    BY <1>2 DEF Changed
  <2> QED BY <2>1, <2>2, <1>2
<1> QED BY <1>2, <1>3 DEF Within

(* The order and the certificates after an item is replaced.               *)
LEMMA ChangedCore ==
  ASSUME PipelineInv, mode = "run", NEW k \in DOMAIN buffer, NEW item, Changed(item, k),
         NEW d \in Nat, AroundChanged(item, k, d)
  PROVE  Types' /\ Chain' /\ Queues' /\ Certificates'
<1>1. Types /\ Chain /\ InLine /\ Spans /\ Awaited /\ Truthful /\ Certificates
  BY DEF PipelineInv, Queues
<1>2. /\ buffer' \in Seq(Item) /\ DOMAIN buffer' = DOMAIN buffer
      /\ \A i \in DOMAIN buffer : buffer'[i] = IF i = k THEN item ELSE buffer[i]
      /\ Within(0)
  BY <1>1, ChangedItems
<1>3. Types'
  <2>1. pending_commit_proofs' \subseteq Round
    BY DEF AroundChanged
  <2> QED BY <1>1, <1>2, <2>1 DEF Types, AroundChanged
<1>4. Chain'
  <2>1. mode' # "tasks" /\ 0 \in Nat
    BY SMT DEF AroundChanged
  <2>2. \A l \in DOMAIN persisting_tx' :
          l \in DOMAIN persisting_tx /\ persisting_tx'[l] = persisting_tx[l]
    BY DEF AroundChanged
  <2> QED BY <1>1, <1>2, <1>3, <2>1, <2>2, ChainWithin, ZenonT(30) DEF AroundChanged
<1>5. InLine'
  BY <1>1, InLineAnswered DEF AroundChanged
<1>6. Spans' /\ Truthful'
  <2>1. 0 \in Nat
    BY SMT
  <2>2. Spans'
    BY <1>1, <1>2, <2>1, SpansWithin DEF AroundChanged
  <2>3. Truthful'
    BY <1>1, <1>2, <2>1, TruthfulWithin DEF AroundChanged
  <2> QED BY <2>2, <2>3, SMT
<1>7. Awaited'
  <2>1. ASSUME NEW i \in DOMAIN buffer', buffer'[i].stage = "ordered"
        PROVE  \E j \in DOMAIN buffer :
                 /\ buffer[j].stage = "ordered" /\ buffer[j].last = buffer'[i].last
                 /\ buffer[j].gen = buffer'[i].gen
                 /\ \A l \in DOMAIN wait_rx : l <= d => wait_rx[l].last # buffer[j].last
    <3>1. CASE i = k
      <4>1. /\ buffer'[i] = item /\ item.stage = "ordered"
            /\ buffer[k].stage = "ordered" /\ item.gen = buffer[k].gen /\ d = 0
        BY <1>2, <2>1, <3>1 DEF AroundChanged
      <4>2. \A l \in DOMAIN wait_rx : ~ (l <= d)
        BY <4>1, <1>1, EntryTypes, SMT
      <4> QED BY <4>1, <4>2 DEF Changed
    <3>2. CASE i # k
      <4>1. i \in DOMAIN buffer /\ buffer'[i] = buffer[i]
        BY <1>2, <3>2
      <4>2. buffer[i].last # buffer[k].last
        BY <4>1, <3>2, <1>1, BufferSorted DEF Distinct
      <4> QED BY <4>1, <4>2, <2>1 DEF AroundChanged
    <3> QED BY <3>1, <3>2
  <2> QED BY <2>1, <1>1, AwaitedWithin, ZenonT(30) DEF AroundChanged
<1>8. Certificates'
  <2>1. \A r \in Round : \A a \in Validator :
          pending_commit_votes'[r][a] = "good" => <<a, r>> \in acked'
    BY <1>1 DEF Certificates, AroundChanged
  <2>2. ASSUME NEW i \in DOMAIN buffer'
        PROVE  /\ \A a \in Validator :
                    buffer'[i].votes[a] = "good" => <<a, buffer'[i].last>> \in acked'
               /\ pending_commit_votes'[buffer'[i].last] = NoVotes'
               /\ buffer'[i].proof => buffer'[i].last \in certified'
    <3>1. i \in DOMAIN buffer /\ buffer'[i].last = buffer[i].last
      BY <1>2 DEF Changed
    <3>2. pending_commit_votes'[buffer'[i].last] = NoVotes'
      BY <1>1, <3>1 DEF Certificates, AroundChanged, NoVotes
    <3>3. CASE i = k
      BY <3>2, <3>3, <1>2 DEF AroundChanged
    <3>4. CASE i # k
      <4>1. buffer'[i] = buffer[i]
        BY <3>1, <3>4, <1>2
      <4> QED BY <4>1, <3>1, <3>2, <1>1 DEF Certificates, AroundChanged
    <3> QED BY <3>3, <3>4
  <2>3. ASSUME NEW l \in DOMAIN persisting_tx' PROVE Decided(persisting_tx[l].target)'
    <3>1. persisting_tx' = persisting_tx /\ Decided(persisting_tx[l].target)
      BY <1>1, <2>3 DEF Certificates, AroundChanged
    <3>2. ASSUME NEW r, Decided(r) PROVE Decided(r)'
      <4>1. Certifiers(r) \subseteq Certifiers(r)' /\ Certifiers(r)' \subseteq Validator
        BY DEF Certifiers, AroundChanged
      <4> QED BY <3>2, <4>1, QuorumAssumption DEF Decided, AroundChanged
    <3> QED BY <3>1, <3>2 DEF Decided, Certifiers
  <2>4. reset_signal' > 0 => reset_signal' \in certified'
    BY <1>1 DEF Certificates, AroundChanged
  <2> QED BY <2>1, <2>2, <2>3, <2>4 DEF Certificates, AroundChanged
<1> QED BY <1>3, <1>4, <1>5, <1>6, <1>7, <1>8 DEF Queues

(* Replacing an item in place keeps the invariant, if the roots are right. *)
LEMMA ChangedInv ==
  ASSUME PipelineInv, mode = "run", NEW k \in DOMAIN buffer, NEW item, Changed(item, k),
         NEW d \in Nat, AroundChanged(item, k, d), Roots'
  PROVE  PipelineInv'
<1>1. Types' /\ Chain' /\ Queues' /\ Certificates'
  BY ChangedCore
<1>2. Types /\ Chain
  BY DEF PipelineInv
<1>3. /\ DOMAIN buffer' = DOMAIN buffer
      /\ \A i \in DOMAIN buffer : buffer'[i] = IF i = k THEN item ELSE buffer[i]
  BY <1>2, ChangedItems
<1>4. \A i \in DOMAIN buffer : buffer'[i].first = buffer[i].first /\ buffer'[i].last = buffer[i].last
  BY <1>3 DEF Changed
<1>5. ASSUME NEW r, Done(r) PROVE Done(r)'
  BY <1>5, DoneKept DEF AroundChanged
<1>6. ASSUME ~ stale'
      PROVE  InOrder' /\ Persisting' /\ Committed' /\ Pressure' /\ VotesKept'
  <2>1. InOrder /\ Persisting /\ Committed /\ Pressure /\ VotesKept
    BY <1>6 DEF PipelineInv, Fresh, AroundChanged
  <2>2. InOrder'
    <3>1. \A i \in DOMAIN buffer' : buffer'[i].gen = gen' /\ committed' < buffer'[i].first
      BY <1>3, <1>4, <1>6, <2>1 DEF InOrder, AroundChanged
    <3>2. ASSUME NEW i \in DOMAIN buffer', NEW j \in DOMAIN buffer', i < j, Executed(buffer'[j])
          PROVE  Executed(buffer'[i])
      <4>1. i \in DOMAIN buffer /\ j \in DOMAIN buffer
        BY <1>3
      <4>2. Executed(buffer[i])
        <5>1. CASE j = k
          BY <5>1, <4>1, <3>2, <1>3, <1>6 DEF AroundChanged
        <5>2. CASE j # k
          BY <5>2, <4>1, <3>2, <1>3, <2>1 DEF InOrder
        <5> QED BY <5>1, <5>2, SMT
      <4> QED BY <4>1, <4>2, <1>3, <1>6 DEF AroundChanged
    <3>3. ASSUME NEW i \in DOMAIN buffer', Executed(buffer'[i])
          PROVE  Done(buffer[i].last)'
      <4>1. i \in DOMAIN buffer /\ buffer'[i].last = buffer[i].last
        BY <1>3, <1>4
      <4>2. ASSUME NEW r, Done(r)', r = buffer'[i].last PROVE Done(buffer[i].last)'
        BY <4>2 DEF Done, After, Ours
      <4>3. CASE i = k
        <5>1. Done(item.last)' /\ item.last = buffer'[i].last
          BY <4>3, <4>1, <3>3, <1>3, <1>6 DEF AroundChanged
        <5> QED BY <5>1, <4>2
      <4>4. CASE i # k
        <5>1. Done(buffer[i].last)
          BY <4>4, <4>1, <3>3, <1>3, <2>1 DEF InOrder
        <5> QED BY <5>1, <1>5, <4>1, <4>2
      <4> QED BY <4>3, <4>4, SMT
    <3>4. /\ \A i \in DOMAIN block_rx' : committed' < block_rx'[i].first
          /\ committed' < next_round'
      BY <2>1 DEF InOrder, AroundChanged
    <3> QED BY <3>1, <3>2, <3>3, <3>4 DEF InOrder, Executed
  <2>3. Persisting'
    <3>1. /\ UNCHANGED <<persisting_tx, pending_commit_blocks, finished, committed, gen,
                         mode, reset_signal, epoch_end, latest_logical_time>>
          /\ Unaborted' /\ (Draining' <=> Draining)
      BY <2>1 DEF AroundChanged, epoch_end, Persisting, Unaborted, Draining
    <3>2. ASSUME NEW l \in DOMAIN persisting_tx PROVE Done(persisting_tx[l].target)'
      <4>1. Done(persisting_tx[l].target)
        BY <2>1 DEF Persisting
      <4> QED BY <4>1, <3>1, <1>5 DEF Done, After, Ours
    <3> QED BY <2>1, <3>1, <3>2 DEF Persisting
  <2>4. Committed'
    BY <2>1, CommittedSame DEF AroundChanged
  <2>5. Pressure'
    BY <2>1, <1>3, <1>4 DEF Pressure, EpochOver, epoch_end, AroundChanged
  <2>6. VotesKept'
    <3>1. SUFFICES ASSUME NEW x \in acked', x[1] \in Honest'
                   PROVE  \/ x[2] <= highest_committed_round' \/ x[2] <= committed'
                          \/ \E i \in DOMAIN persisting_tx' : persisting_tx'[i].target >= x[2]
                          \/ pending_commit_votes'[x[2]][x[1]] = "good"
                          \/ \E i \in DOMAIN buffer' : /\ buffer'[i].last = x[2]
                                                       /\ buffer'[i].votes[x[1]] = "good"
      BY DEF VotesKept
    <3>2. CASE x[2] = buffer[k].last /\ item.votes[x[1]] = "good"
      BY <3>2, <1>3, <1>4
    <3>3. CASE x \in acked
      <4>1. /\ UNCHANGED <<highest_committed_round, committed, pending_commit_votes,
                           persisting_tx>>
            /\ x[1] \in Honest
        BY <3>1 DEF AroundChanged, Honest
      <4>2. ASSUME NEW i \in DOMAIN buffer, buffer[i].votes[x[1]] = "good"
            PROVE  buffer'[i].votes[x[1]] = "good"
        BY <4>1, <4>2, <1>3 DEF AroundChanged
      <4> QED BY <2>1, <3>3, <4>1, <4>2, <1>3, <1>4 DEF VotesKept
    <3> QED BY <3>1, <3>2, <3>3 DEF AroundChanged
  <2> QED BY <2>2, <2>3, <2>4, <2>5, <2>6
<1> QED BY <1>1, <1>6 DEF PipelineInv, Fresh

(* An item changed in place keeps its stage: so the roots stay.            *)
LEMMA RootsStages ==
  ASSUME Types, Roots, NEW k \in DOMAIN buffer, NEW item, Changed(item, k),
         item.stage = buffer[k].stage, UNCHANGED <<mode, execution_root, signing_root,
                                                   stale, signing_tx, signing_rx>>
  PROVE  Roots'
<1>1. DOMAIN buffer' = DOMAIN buffer
  BY ChangedItems
<1>2. \A i \in DOMAIN buffer : /\ buffer'[i].last = buffer[i].last
                               /\ buffer'[i].stage = buffer[i].stage
  BY ChangedItems DEF Changed
<1>3. ASSUME NEW root, NEW stage, FirstOf(buffer, root, stage) PROVE FirstOf(buffer', root, stage)
  BY <1>1, <1>2, <1>3 DEF FirstOf
<1>4. mode = "run" => FirstOf(buffer', execution_root, "ordered")
  BY <1>3 DEF Roots
<1>5. mode = "run" /\ ~ stale => FirstOf(buffer', signing_root, "executed")
  BY <1>3 DEF Roots
<1> QED BY <1>4, <1>5 DEF Roots, SigningAsked

(* An executed item of this tree stays done when nothing is answered.      *)
LEMMA StaysDone ==
  ASSUME Types, InOrder, NEW k \in DOMAIN buffer, Executed(buffer[k]),
         UNCHANGED <<wait_rx, gen, failed, schedule_rx, wait_tx>>,
         NEW item, item.last = buffer[k].last
  PROVE  /\ Done(item.last)'
         /\ \A i \in DOMAIN buffer : i < k => Executed(buffer[i])
<1>1. PICK r : r = item.last
  BY SMT
<1>2. Done(r)
  BY <1>1 DEF InOrder
<1>3. Done(r)'
  BY <1>2 DEF Done, After, Ours
<1> QED BY <1>1, <1>3 DEF InOrder

(* Nothing is taken from the answers of the execution.                     *)
LEMMA NothingAnswered ==
  ASSUME Types, wait_rx' = wait_rx
  PROVE  /\ wait_rx' \in Seq(Answers) /\ IsSuffix(wait_rx', wait_rx, 0) /\ 0 \in Nat
         /\ \A l \in DOMAIN wait_rx : ~ (l <= 0)
<1>1. wait_rx \in Seq(Answers)
  BY DEF Types
<1>2. \A l \in DOMAIN wait_rx : ~ (l <= 0)
  BY <1>1, SMT
<1>3. IsSuffix(wait_rx, wait_rx, 0)
  BY <1>1, Suffixes
<1>4. 0 \in Nat
  BY SMT
<1> QED BY <1>1, <1>2, <1>3, <1>4

(* process_signing_response: the item is signed, or the root only advanced. *)
LEMMA SigningResponse ==
  ASSUME NumbersOrdered, PipelineInv, process_signing_response
  PROVE  PipelineInv'
<1>1. /\ Types /\ Chain /\ InLine /\ Spans /\ Awaited /\ Truthful /\ Roots /\ Certificates
      /\ mode = "run" /\ signing_rx # <<>> /\ signing_rx' = Tail(signing_rx)
  BY DEF PipelineInv, Queues, process_signing_response
<1>2. /\ UNCHANGED <<execution_root, block_rx, schedule_rx, wait_tx, wait_rx,
                     persisting_tx, persisting_rx, pending_commit_votes,
                     pending_commit_proofs, pending_commit_blocks,
                     highest_committed_round, latest_round, mode, reset_signal, gen,
                     next_round, committed, finished, failed, aborted, latest_logical_time,
                     scenario, acked,
                     certified, faults, stale>>
  BY SMT DEF process_signing_response, pending, rounds, control, node
<1>3. /\ signing_rx' \in Seq([round : Round, ok : BOOLEAN]) /\ Head(signing_rx).round \in Round
  <2>1. signing_rx \in Seq([round : Round, ok : BOOLEAN])
    BY <1>1 DEF Types
  <2>2. /\ Head(signing_rx) \in [round : Round, ok : BOOLEAN]
        /\ Tail(signing_rx) \in Seq([round : Round, ok : BOOLEAN])
    BY <1>1, <2>1, HeadTail
  <2>3. Head(signing_rx).round \in Round
    BY <2>2, SMT
  <2> QED BY <1>1, <2>2, <2>3
<1>4. PICK resp \in {Head(signing_rx)} :
        \E signs \in {/\ resp.ok
                      /\ find_elem_by_key(buffer, signing_root, resp.round) # None
                      /\ buffer[IndexOf(buffer, resp.round)].stage = "executed"} :
        \E buf \in {IF signs
                    THEN [buffer EXCEPT ![IndexOf(buffer, resp.round)].stage = "signed"]
                    ELSE buffer} :
         /\ buffer' = buf
         /\ own_votes' = IF signs THEN own_votes \cup {resp.round} ELSE own_votes
         /\ advance_signing_root(buf, signing_root)
  BY DEF process_signing_response
<1>5. PICK signs \in {/\ resp.ok
                      /\ find_elem_by_key(buffer, signing_root, resp.round) # None
                      /\ buffer[IndexOf(buffer, resp.round)].stage = "executed"} :
        \E buf \in {IF signs
                    THEN [buffer EXCEPT ![IndexOf(buffer, resp.round)].stage = "signed"]
                    ELSE buffer} :
         /\ buffer' = buf
         /\ own_votes' = IF signs THEN own_votes \cup {resp.round} ELSE own_votes
         /\ advance_signing_root(buf, signing_root)
  BY <1>4
<1>6. PICK buf : /\ buf = IF signs
                          THEN [buffer EXCEPT ![IndexOf(buffer, resp.round)].stage = "signed"]
                          ELSE buffer
                 /\ buffer' = buf
                 /\ own_votes' = IF signs THEN own_votes \cup {resp.round} ELSE own_votes
                 /\ advance_signing_root(buf, signing_root)
  BY <1>5
<1>7. own_votes' \subseteq Round
  <2>1. resp.round \in Round /\ own_votes \subseteq Round
    BY <1>1, <1>3, <1>4 DEF Types
  <2> QED BY <1>6, <2>1
<1>8. Distinct(buffer) /\ buffer \in Seq(Item)
  BY <1>1, BufferSorted DEF Types
<1>9. FirstOf(buffer, execution_root, "ordered")
  BY <1>1 DEF Roots
<1>10. ~ stale => Leads(buffer, signing_root, "executed")
  BY <1>1, RootLeads DEF Roots
<1>11. CASE signs
  <2>1. /\ find_elem_by_key(buffer, signing_root, resp.round) # None
        /\ buffer[IndexOf(buffer, resp.round)].stage = "executed"
    BY <1>5, <1>11
  <2>2. PICK k \in DOMAIN buffer : buffer[k].last = resp.round
    BY <2>1 DEF find_elem_by_key, Ids
  <2>3. IndexOf(buffer, resp.round) = k /\ buffer[k] \in Item
    BY <1>1, <1>8, <2>2, IndexOfLast, BufferSorted
  <2>4. PICK item : item = [buffer[k] EXCEPT !.stage = "signed"]
    OBVIOUS
  <2>5. buf = [buffer EXCEPT ![k].stage = "signed"]
    BY <1>6, <1>11, <2>3
  <2>6. buf = [buffer EXCEPT ![k] = item]
    BY <1>8, <2>4, <2>5, SMT
  <2>7. /\ item \in Item /\ item.first = buffer[k].first /\ item.last = buffer[k].last
        /\ item.gen = buffer[k].gen /\ item.votes = buffer[k].votes
        /\ item.proof = buffer[k].proof /\ item.stage = "signed"
    BY <2>3, <2>4, SMT DEF Item
  <2>8. Changed(item, k)
    BY <1>6, <2>6, <2>7 DEF Changed
  <2>9. /\ buf \in Seq(Item) /\ DOMAIN buf = DOMAIN buffer
        /\ \A i \in DOMAIN buffer : buf[i] = IF i = k THEN item ELSE buffer[i]
    BY <1>1, <1>6, <2>8, ChangedItems
  <2>10. buffer[k].stage = "executed"
    BY <2>1, <2>3
  <2>11. \A i \in DOMAIN buffer :
           /\ buf[i].last = buffer[i].last
           /\ buf[i].stage = "ordered" <=> buffer[i].stage = "ordered"
           /\ buffer[i].stage # "executed" => buf[i].stage # "executed"
    BY <2>7, <2>9, <2>10, SMT
  <2>12. Distinct(buf)
    BY <1>8, <2>9, <2>11 DEF Distinct
  <2>13. FirstOf(buf, execution_root, "ordered")
    BY <1>9, <2>9, <2>11 DEF FirstOf
  <2>14. ~ stale => Leads(buf, signing_root, "executed")
    BY <1>10, <2>9, <2>11 DEF Leads
  <2>15. ~ stale => SigningOK'
    BY <1>1, <1>6, <2>9, <2>12, <2>14, SigningFirst
  <2>16. Roots'
    BY <1>2, <1>6, <2>13, <2>15 DEF Roots, SigningOK
  <2>17. signing_root' \in Round \cup {None} /\ signing_tx' \in Seq(Round)
    BY <1>1, <1>6, <2>9, SigningAdvanced DEF SigningRequested
  <2>18. /\ wait_rx' \in Seq(Answers) /\ IsSuffix(wait_rx', wait_rx, 0) /\ 0 \in Nat
         /\ \A l \in DOMAIN wait_rx : ~ (l <= 0)
    BY <1>1, <1>2, NothingAnswered
  <2>19. AroundChanged(item, k, 0)
    <3>1. /\ execution_root' \in Round \cup {None} /\ stale' \in BOOLEAN /\ (stale => stale')
          /\ acked \subseteq acked' /\ acked' \subseteq Validator \X Round
          /\ \A x \in acked' : x \in acked
          /\ certified \subseteq certified' /\ certified' \subseteq Round
          /\ pending_commit_proofs' \subseteq certified'
      BY <1>1, <1>2 DEF Types, Certificates
    <3>2. \A a \in Validator : item.votes[a] = "good" => <<a, item.last>> \in acked'
      BY <1>1, <1>2, <2>7 DEF Certificates
    <3>3. item.proof => item.last \in certified'
      BY <1>1, <1>2, <2>7 DEF Certificates
    <3>4. item.stage # "ordered" /\ Executed(item) /\ Executed(buffer[k])
      BY <2>7, <2>10, SMT DEF Executed
    <3>5. ASSUME ~ stale'
          PROVE  /\ item.gen = gen /\ Done(item.last)'
                 /\ \A i \in DOMAIN buffer : i < k => Executed(buffer[i])
      <4>1. InOrder
        BY <1>2, <3>5 DEF PipelineInv, Fresh
      <4> QED BY <1>1, <1>2, <2>7, <3>4, <4>1, StaysDone DEF InOrder
    <3> QED BY <1>2, <1>3, <1>7, <2>7, <2>17, <2>18, <3>1, <3>2, <3>3, <3>4, <3>5 DEF AroundChanged
  <2> QED BY <1>1, <2>8, <2>16, <2>18, <2>19, ChangedInv
<1>12. CASE ~ signs
  <2>1. UNCHANGED <<buffer, own_votes>> /\ advance_signing_root(buffer, signing_root)
    BY <1>6, <1>12
  <2>2. ~ stale => SigningOK'
    BY <1>1, <1>8, <1>10, <2>1, SigningFirst
  <2>3. Roots'
    BY <1>2, <1>9, <2>1, <2>2 DEF Roots, SigningOK
  <2>4. signing_root' \in Round \cup {None} /\ signing_tx' \in Seq(Round)
    BY <1>1, <1>8, <2>1, SigningAdvanced DEF SigningRequested
  <2>5. Types'
    BY <1>1, <1>2, <1>3, <2>1, <2>4, ZenonT(30) DEF Types
  <2>6. mode' # "tasks"
    BY <1>1, <1>2
  <2>7. Chain'
    BY <1>1, <1>2, <2>1, <2>6 DEF Chain, Ours
  <2>8. InLine' /\ Spans' /\ Awaited' /\ Truthful' /\ Certificates'
    BY <1>1, <1>2, <2>1, InLineSame, SpansSame, AwaitedSame, TruthfulSame,
       CertificatesSame
  <2>9. ASSUME ~ stale'
        PROVE  InOrder' /\ Persisting' /\ Committed' /\ Pressure' /\ VotesKept'
    <3>1. InOrder /\ Persisting /\ Committed /\ Pressure /\ VotesKept
      BY <1>2, <2>9 DEF PipelineInv, Fresh
    <3>2. InOrder' /\ Persisting' /\ Committed'
      BY <1>2, <2>1, <3>1, InOrderSame, PersistingSame, CommittedSame
    <3>3. Pressure' /\ VotesKept'
      BY <1>2, <2>1, <3>1, PressureSame, VotesKeptSame
    <3> QED BY <3>2, <3>3
  <2> QED BY <2>3, <2>5, <2>7, <2>8, <2>9 DEF PipelineInv, Queues, Fresh
<1> QED BY <1>11, <1>12
=============================================================================
