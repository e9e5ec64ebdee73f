------------------------ MODULE BufferManagerProofs ------------------------
(***************************************************************************)
(* The decoupled execution pipeline keeps its roots, its votes and the     *)
(* order of the chain, for every set of validators and quorums, every      *)
(* length of the chain, backlog and cache, and any number of state syncs,  *)
(* failures and faulty votes.                                              *)
(*                                                                         *)
(* Here are the steps that may pop the head of the buffer; with those of   *)
(* BufferManagerSteps they give the theorems.                              *)
(***************************************************************************)
EXTENDS BufferManagerSteps, TLAPS

(* Most leaves are first-order facts; the others name their prover.        *)
USE Zenon

-----------------------------------------------------------------------------
(* advance_head and what its callers do to the roots.                      *)

(* SubSeq from the first element.                                          *)
LEMMA Prefix ==
  ASSUME NEW S, NEW s \in Seq(S), NEW k \in DOMAIN s
  PROVE  IsPrefix(SubSeq(s, 1, k), s, k)
BY SMT DEF IsPrefix

(* SubSeq to the last element.                                             *)
LEMMA Suffix ==
  ASSUME NEW S, NEW s \in Seq(S), NEW k \in DOMAIN s
  PROVE  /\ SubSeq(s, k + 1, Len(s)) \in Seq(S)
         /\ IsSuffix(SubSeq(s, k + 1, Len(s)), s, k)
BY SMTT(30) DEF IsSuffix

(* The items up to the one that is aggregated are taken off the buffer.    *)
IsPopped(popped, item, k) ==
  /\ DOMAIN popped = 1 .. k
  /\ \A i \in 1 .. k : i \in DOMAIN buffer /\ popped[i] = IF i = k THEN item ELSE buffer[i]

(* advance_head pops the items up to the aggregated one.                   *)
LEMMA PopItems ==
  ASSUME Types, Chain, NEW k \in DOMAIN buffer,
         NEW item, item.first = buffer[k].first, item.last = buffer[k].last,
         NEW buf, buf = [buffer EXCEPT ![k] = item],
         NEW rest, rest = Rest(buf, item.last),
         NEW popped, popped = Popped(buf, item.last)
  PROVE  /\ rest \in Seq(Item) /\ IsSuffix(rest, buffer, k)
         /\ IsPopped(popped, item, k)
<1> DEFINE S == Item \cup {item}
<1>1. buffer \in Seq(Item) /\ buffer \in Seq(S) /\ Distinct(buffer)
      /\ DOMAIN buffer \subseteq Nat \ {0}
  <2>1. buffer \in Seq(Item)
    BY DEF Types
  <2>2. buffer \in Seq(S)
    BY <2>1, SMT
  <2> QED BY <2>1, <2>2, BufferSorted
<1>2. /\ buf \in Seq(S) /\ DOMAIN buf = DOMAIN buffer /\ Len(buf) = Len(buffer)
      /\ \A i \in DOMAIN buf : buf[i] = IF i = k THEN item ELSE buffer[i]
  <2>1. item \in S
    BY SMT
  <2> HIDE DEF S
  <2> QED BY <1>1, <2>1, SMT
<1> HIDE DEF S
<1>3. IndexOf(buf, item.last) = k
  <2>1. \A i \in DOMAIN buf : buf[i].last = buffer[i].last
    BY <1>2
  <2>2. Distinct(buf)
    BY <1>1, <1>2, <2>1, SMT DEF Distinct
  <2> QED BY <1>2, <2>1, <2>2, IndexOfLast
<1>4. /\ rest = SubSeq(buf, k + 1, Len(buf))
      /\ popped = SubSeq(buf, 1, k)
  BY <1>3 DEF Rest, Popped
<1>5. SubSeq(buf, k + 1, Len(buf)) = SubSeq(buffer, k + 1, Len(buffer))
  <2>1. k \in Nat
    BY <1>1, SMT
  <2> QED BY <1>1, <1>2, <2>1, SMT
<1>6. IsPrefix(popped, buf, k)
  <2>1. k \in DOMAIN buf
    BY <1>2
  <2> QED BY <2>1, <1>2, <1>4, Prefix
<1>7. IsPopped(popped, item, k)
  BY <1>2, <1>6 DEF IsPopped, IsPrefix
<1>8. rest = SubSeq(buffer, k + 1, Len(buffer))
  BY <1>4, <1>5
<1> QED BY <1>1, <1>7, <1>8, Suffix

(* A root that was not taken off stays the first of its stage.             *)
LEMMA RootKept ==
  ASSUME NEW buf, NEW rest, NEW k \in Nat, DOMAIN buf \subseteq Nat,
         IsSuffix(rest, buf, k),
         NEW root, NEW stage, FirstOf(buf, root, stage), root # None,
         \A i \in DOMAIN buf : i <= k => buf[i].last # root
  PROVE  FirstOf(rest, root, stage)
<1>1. PICK i \in DOMAIN buf : /\ buf[i].last = root /\ buf[i].stage = stage
                              /\ \A j \in DOMAIN buf : j < i => buf[j].stage # stage
  BY DEF FirstOf
<1>2. i > k /\ i \in Nat
  BY <1>1, SMT
<1>3. i - k \in DOMAIN rest /\ rest[i - k] = buf[i]
  BY <1>2 DEF IsSuffix
<1>4. ASSUME NEW j \in DOMAIN rest, j < i - k
      PROVE  rest[j].stage # stage
  <2>1. j + k \in DOMAIN buf /\ rest[j] = buf[j + k] /\ j \in Nat
    BY DEF IsSuffix
  <2>2. j + k < i
    BY <2>1, <1>2, <1>4, SMT
  <2> QED BY <2>1, <2>2, <1>1
<1> QED BY <1>1, <1>3, <1>4 DEF FirstOf

(* The blocks of the items that are taken off.                             *)
LEMMA PopBlocks ==
  ASSUME Types, Chain, NEW k \in DOMAIN buffer,
         NEW item, item.first = buffer[k].first, item.last = buffer[k].last,
         item.gen \in Nat,
         NEW popped, IsPopped(popped, item, k)
  PROVE  /\ BlocksOf(popped) \subseteq Blocks
         /\ \A b \in BlocksOf(popped) : \E i \in 1 .. k :
              /\ buffer[i].first <= b.round /\ b.round <= buffer[i].last
              /\ b.gen = popped[i].gen
         /\ [round |-> item.last, gen |-> item.gen] \in BlocksOf(popped)
<1>1. \A i \in 1 .. k : /\ popped[i].first = buffer[i].first
                        /\ popped[i].last = buffer[i].last /\ popped[i].gen \in Nat
                        /\ popped[i].first \in Round /\ popped[i].last \in Round
  <2>1. TAKE i \in 1 .. k
  <2>2. buffer[i] \in Item /\ buffer[i].gen \in Nat
        /\ buffer[i].first \in Round /\ buffer[i].last \in Round
    BY BufferSorted DEF Item, IsPopped
  <2> QED BY <2>2 DEF IsPopped
<1>2. ASSUME NEW b \in BlocksOf(popped)
      PROVE  /\ b \in Blocks
             /\ \E i \in 1 .. k : /\ buffer[i].first <= b.round /\ b.round <= buffer[i].last
                                  /\ b.gen = popped[i].gen
  <2>1. PICK i \in 1 .. k : \E r \in popped[i].first .. popped[i].last :
                              b = [round |-> r, gen |-> popped[i].gen]
    BY SMT DEF BlocksOf, IsPopped
  <2>2. PICK r \in popped[i].first .. popped[i].last : b = [round |-> r, gen |-> popped[i].gen]
    BY <2>1
  <2>3. r \in Round /\ popped[i].first <= r /\ r <= popped[i].last
    BY <1>1, <2>2, BoundAssumption, SMTT(30) DEF Round
  <2>4. b.round = r /\ b.gen = popped[i].gen
    BY <2>2
  <2>5. b \in Blocks
    BY <2>2, <2>3, <1>1 DEF Blocks
  <2> QED BY <2>3, <2>4, <2>5, <1>1
<1>3. [round |-> item.last, gen |-> item.gen] \in BlocksOf(popped)
  <2>1. k \in 1 .. k
    BY BufferSorted, SMT
  <2>2. popped[k] = item /\ k \in DOMAIN popped
    BY <2>1 DEF IsPopped
  <2>3. item.last \in item.first .. item.last
    <3>1. buffer[k].first \in Nat /\ buffer[k].last \in Nat /\ buffer[k].first <= buffer[k].last
      BY BufferSorted DEF Sorted
    <3> QED BY <3>1, SMT
  <2>4. [round |-> item.last, gen |-> item.gen] \in
          {[round |-> r, gen |-> popped[k].gen] : r \in popped[k].first .. popped[k].last}
    BY <2>2, <2>3, SMT
  <2> DEFINE Of(i) == {[round |-> r, gen |-> popped[i].gen] :
                         r \in popped[i].first .. popped[i].last}
  <2>5. [round |-> item.last, gen |-> item.gen] \in Of(k)
    BY <2>4
  <2>6. BlocksOf(popped) = UNION {Of(i) : i \in DOMAIN popped}
    BY DEF BlocksOf
  <2> HIDE DEF Of
  <2>7. Of(k) \in {Of(i) : i \in DOMAIN popped}
    BY <2>2
  <2> QED BY <2>5, <2>6, <2>7, ZenonT(30)
<1> QED BY <1>2, <1>3

(* The request made of the items up to the k-th, which became "item".      *)
Handed(req, item, k) ==
  /\ req \in Requests /\ req.target = buffer[k].last
  /\ \A b \in req.blocks : \E i \in 1 .. k :
       /\ i \in DOMAIN buffer
       /\ buffer[i].first <= b.round /\ b.round <= buffer[i].last
       /\ b.gen = IF i = k THEN item.gen ELSE buffer[i].gen
  /\ [round |-> buffer[k].last, gen |-> item.gen] \in req.blocks
  /\ (\A i \in DOMAIN buffer : i < k => Executed(buffer[i])) => req.executed

(* The request is queued, and its blocks are pending.                      *)
Added(req) ==
  /\ persisting_tx' = Append(persisting_tx, req)
  /\ pending_commit_blocks' =
       {b \in pending_commit_blocks : \A c \in req.blocks : c.round # b.round} \cup req.blocks

(* All that advance_head_and_roots does, for an item that is aggregated.   *)
Taken(item, k) ==
  /\ buffer' \in Seq(Item) /\ IsSuffix(buffer', buffer, k)
  /\ \E req : Handed(req, item, k) /\ Added(req)
  /\ \/ mode' = "commits" /\ reset_signal' = 0 /\ ends_epoch(buffer[k].last)
     \/ UNCHANGED <<mode, reset_signal>>
  /\ execution_root' \in Round \cup {None} /\ signing_root' \in Round \cup {None}
  /\ signing_tx' \in Seq(Round)
  /\ mode' = "run" => FirstOf(buffer', execution_root', "ordered")
  /\ mode' = "run" /\ SigningOK => SigningOK'

(* The request that advance_head makes of the popped items.                *)
LEMMA RequestHanded ==
  ASSUME Types, Chain, NEW k \in DOMAIN buffer,
         NEW item, item.first = buffer[k].first, item.last = buffer[k].last,
         item.gen \in Nat, item.stage = "aggregated",
         NEW popped, IsPopped(popped, item, k),
         NEW req, req = [blocks |-> BlocksOf(popped), target |-> item.last,
                         executed |-> \A i \in DOMAIN popped : popped[i].stage # "ordered"]
  PROVE  Handed(req, item, k)
<1>1. /\ BlocksOf(popped) \subseteq Blocks
      /\ \A b \in BlocksOf(popped) : \E i \in 1 .. k :
           /\ buffer[i].first <= b.round /\ b.round <= buffer[i].last
           /\ b.gen = popped[i].gen
      /\ [round |-> item.last, gen |-> item.gen] \in BlocksOf(popped)
  BY PopBlocks
<1>2. /\ req.blocks = BlocksOf(popped) /\ req.target = item.last
      /\ req.executed = \A i \in DOMAIN popped : popped[i].stage # "ordered"
  OBVIOUS
<1>3. req \in Requests
  <2>1. item.last \in Round
    BY BufferSorted
  <2> QED BY <1>1, <2>1 DEF Requests
<1>4. ASSUME NEW b \in req.blocks
      PROVE  \E i \in 1 .. k : /\ i \in DOMAIN buffer
                               /\ buffer[i].first <= b.round /\ b.round <= buffer[i].last
                               /\ b.gen = IF i = k THEN item.gen ELSE buffer[i].gen
  <2>1. PICK i \in 1 .. k : /\ buffer[i].first <= b.round /\ b.round <= buffer[i].last
                            /\ b.gen = popped[i].gen
    BY <1>1, <1>2, <1>4
  <2>2. i \in DOMAIN buffer /\ popped[i] = IF i = k THEN item ELSE buffer[i]
    BY DEF IsPopped
  <2>3. b.gen = IF i = k THEN item.gen ELSE buffer[i].gen
    BY <2>1, <2>2
  <2> QED BY <2>1, <2>2, <2>3
<1>5. ASSUME \A i \in DOMAIN buffer : i < k => Executed(buffer[i])
      PROVE  req.executed
  <2>1. ASSUME NEW i \in DOMAIN popped PROVE popped[i].stage # "ordered"
    <3>1. i \in 1 .. k /\ i \in DOMAIN buffer /\ popped[i] = IF i = k THEN item ELSE buffer[i]
      BY <2>1 DEF IsPopped
    <3>2. CASE i = k
      BY <3>1, <3>2, SMT
    <3>3. CASE i # k
      <4>1. k \in Nat
        BY BufferSorted
      <4>2. i < k
        BY <3>1, <3>3, <4>1, SMT
      <4> QED BY <4>2, <3>1, <3>3, <1>5, ZenonT(30) DEF Executed
    <3> QED BY <3>2, <3>3, SMT
  <2> QED BY <2>1, <1>2
<1> QED BY <1>1, <1>2, <1>3, <1>4, <1>5 DEF Handed

(* advance_head_and_roots pops a prefix and leaves both roots right.       *)
LEMMA PopTaken ==
  ASSUME NumbersOrdered, Types, Chain, Roots, mode = "run", signing_rx' = signing_rx,
         NEW k \in DOMAIN buffer,
         NEW item, item.first = buffer[k].first, item.last = buffer[k].last,
         item.gen \in Nat, item.stage = "aggregated",
         NEW buf, buf = [buffer EXCEPT ![k] = item],
         advance_head_and_roots(buf, item.last)
  PROVE  Taken(item, k)
<1> DEFINE rest == Rest(buf, item.last)
           popped == Popped(buf, item.last)
           e == Unless(execution_root, popped)
           s == Unless(signing_root, popped)
           req == [blocks |-> BlocksOf(popped), target |-> item.last,
                   executed |-> \A i \in DOMAIN popped : popped[i].stage # "ordered"]
<1>1. /\ advance_head(buf, item.last)
      /\ IF e = None /\ ~ ends_epoch(item.last) THEN advance_execution_root(rest, None)
                                               ELSE execution_root' = e
      /\ IF s = None /\ ~ ends_epoch(item.last) THEN advance_signing_root(rest, None)
                                               ELSE signing_root_as(s)
  BY DEF advance_head_and_roots
<1>2. /\ buffer' = rest
      /\ persisting_tx' = Append(persisting_tx, req)
      /\ pending_commit_blocks' =
           {b \in pending_commit_blocks : \A c \in BlocksOf(popped) : c.round # b.round}
             \cup BlocksOf(popped)
      /\ IF ends_epoch(item.last) THEN mode' = "commits" /\ reset_signal' = 0
                                  ELSE UNCHANGED <<mode, reset_signal>>
  BY <1>1, SMT DEF advance_head, control
<1>3. /\ rest \in Seq(Item) /\ IsSuffix(rest, buffer, k) /\ IsPopped(popped, item, k)
  BY PopItems
<1>4. Handed(req, item, k) /\ req.blocks = BlocksOf(popped)
  <2> HIDE DEF popped
  <2> QED BY <1>3, RequestHanded
<1> HIDE DEF rest, popped, req
<1>5. Added(req)
  BY <1>2, <1>4 DEF Added
<1>6. ASSUME NEW root, NEW stage, FirstOf(buffer, root, stage), Unless(root, popped) # None
      PROVE  Unless(root, popped) = root /\ FirstOf(rest, root, stage)
  <2>1. root \notin Ids(popped) /\ Unless(root, popped) = root
    BY <1>6 DEF Unless
  <2>2. ASSUME NEW i \in DOMAIN buffer, i <= k PROVE buffer[i].last # root
    <3>1. i \in 1 .. k
      BY <2>2, BufferSorted, SMT
    <3>2. popped[i].last = buffer[i].last /\ i \in DOMAIN popped
      BY <3>1, <1>3 DEF IsPopped
    <3> QED BY <3>2, <2>1 DEF Ids
  <2>3. k \in Nat /\ DOMAIN buffer \subseteq Nat
    BY BufferSorted, SMT
  <2> QED BY <2>1, <2>2, <2>3, <1>3, <1>6, RootKept
<1>7. Distinct(rest)
  <2>1. ASSUME NEW i \in DOMAIN rest
        PROVE  i \in Nat \ {0} /\ rest[i].last \in Round
    <3>1. i \in Nat \ {0} /\ rest[i] \in Item
      BY <1>3, SMTT(30)
    <3> QED BY <3>1 DEF Item
  <2>2. ASSUME NEW i \in DOMAIN rest, NEW j \in DOMAIN rest, rest[i].last = rest[j].last
        PROVE  i = j
    <3>1. /\ i \in Nat /\ i + k \in DOMAIN buffer /\ rest[i] = buffer[i + k]
          /\ j \in Nat /\ j + k \in DOMAIN buffer /\ rest[j] = buffer[j + k]
      BY <1>3 DEF IsSuffix
    <3>2. i + k = j + k
      BY <3>1, <2>2, BufferSorted DEF Distinct
    <3>3. k \in Nat
      BY BufferSorted, SMT
    <3> QED BY <3>1, <3>2, <3>3, SMTT(30)
  <2> QED BY <2>1, <2>2 DEF Distinct
<1>8. ASSUME NEW stage
      PROVE  /\ FirstOf(rest, first_from(rest, None, stage), stage)
             /\ first_from(rest, None, stage) \in Round \cup {None}
  <2>1. FirstOf(rest, first_from(rest, None, stage), stage)
    BY <1>3, <1>7, FirstFrom
  <2>2. \A i \in DOMAIN rest : rest[i].last \in Round
    BY <1>7 DEF Distinct
  <2> QED BY <2>1, <2>2 DEF FirstOf
<1>9. ASSUME NEW root \in Round \cup {None} PROVE Unless(root, popped) \in Round \cup {None}
  BY DEF Unless
<1>10. /\ execution_root' \in Round \cup {None}
       /\ mode' = "run" => FirstOf(buffer', execution_root', "ordered")
  <2>1. FirstOf(buffer, execution_root, "ordered") /\ execution_root \in Round \cup {None}
    BY DEF Roots, Types
  <2>2. mode' = "run" => ~ ends_epoch(item.last)
    BY <1>2, SMT
  <2>3. CASE e = None /\ ~ ends_epoch(item.last)
    <3>1. execution_root' = first_from(rest, None, "ordered")
      BY <2>3, <1>1 DEF advance_execution_root
    <3> QED BY <3>1, <1>2, <1>8
  <2>4. CASE ~ (e = None /\ ~ ends_epoch(item.last))
    <3>1. execution_root' = e
      BY <2>4, <1>1
    <3>2. e \in Round \cup {None}
      BY <1>9, <2>1
    <3>3. mode' = "run" => FirstOf(buffer', execution_root', "ordered")
      BY <3>1, <2>1, <2>2, <2>4, <1>2, <1>6
    <3> QED BY <3>1, <3>2, <3>3
  <2> QED BY <2>3, <2>4
<1>11. /\ signing_root' \in Round \cup {None} /\ signing_tx' \in Seq(Round)
       /\ mode' = "run" /\ SigningOK => SigningOK'
  <2>1. signing_root \in Round \cup {None} /\ signing_tx \in Seq(Round)
    BY DEF Types
  <2>2. mode' = "run" => ~ ends_epoch(item.last)
    BY <1>2, SMT
  <2>3. CASE s = None /\ ~ ends_epoch(item.last)
    <3>1. /\ signing_root' = first_from(rest, None, "executed")
          /\ signing_tx' = IF signing_root' = None THEN signing_tx
                                                   ELSE Append(signing_tx, signing_root')
      BY <2>3, <1>1 DEF advance_signing_root
    <3>2. signing_root' \in Round \cup {None} /\ FirstOf(buffer', signing_root', "executed")
      BY <3>1, <1>2, <1>8
    <3>3. CASE signing_root' = None
      BY <3>1, <3>2, <3>3, <2>1 DEF SigningOK
    <3>4. CASE signing_root' # None
      <4>1. signing_root' \in Round
        BY <3>2, <3>4
      <4>2. signing_tx' \in Seq(Round) /\ \E i \in DOMAIN signing_tx' : signing_tx'[i] = signing_root'
        <5>1. signing_tx' = Append(signing_tx, signing_root')
          BY <3>1, <3>4
        <5>2. Len(signing_tx) + 1 \in DOMAIN signing_tx' /\ signing_tx'[Len(signing_tx) + 1] = signing_root'
              /\ signing_tx' \in Seq(Round)
          BY <5>1, <4>1, <2>1, SMT
        <5> QED BY <5>2
      <4> QED BY <4>2, <3>2 DEF SigningOK, SigningAsked
    <3> QED BY <3>3, <3>4
  <2>4. CASE ~ (s = None /\ ~ ends_epoch(item.last))
    <3>1. signing_root' = s /\ signing_tx' = signing_tx
      BY <2>4, <1>1 DEF signing_root_as
    <3>2. s \in Round \cup {None}
      BY <1>9, <2>1
    <3>3. ASSUME mode' = "run", SigningOK PROVE SigningOK'
      <4>1. signing_root' = signing_root /\ FirstOf(buffer', signing_root', "executed")
        BY <3>1, <3>3, <2>2, <2>4, <1>2, <1>6 DEF SigningOK
      <4> QED BY <4>1, <3>1, <3>3 DEF SigningOK, SigningAsked
    <3> QED BY <3>1, <3>2, <3>3, <2>1
  <2> QED BY <2>3, <2>4
<1>12. \/ mode' = "commits" /\ reset_signal' = 0 /\ ends_epoch(buffer[k].last)
       \/ UNCHANGED <<mode, reset_signal>>
  BY <1>2
<1>13. buffer' \in Seq(Item) /\ IsSuffix(buffer', buffer, k)
  BY <1>2, <1>3
<1>14. \E r : Handed(r, item, k) /\ Added(r)
  BY <1>4, <1>5
<1> QED BY <1>10, <1>11, <1>12, <1>13, <1>14 DEF Taken

-----------------------------------------------------------------------------
(* The buffer loses its first k items.                                     *)

(* The rest of a buffer is within it.                                      *)
LEMMA SuffixWithin ==
  ASSUME NEW k, buffer' \in Seq(Item), IsSuffix(buffer', buffer, k)
  PROVE  Within(k)
<1>1. \A i \in DOMAIN buffer' : i \in Nat \ {0}
  BY SMT
<1> QED BY <1>1 DEF Within, IsSuffix

(* A request is added.                                                     *)
LEMMA RequestAdded ==
  ASSUME Types, NEW req \in Requests, Added(req)
  PROVE  /\ persisting_tx' \in Seq(Requests)
         /\ Len(persisting_tx) + 1 \in DOMAIN persisting_tx'
         /\ persisting_tx'[Len(persisting_tx) + 1] = req
         /\ \A l \in DOMAIN persisting_tx : /\ l \in DOMAIN persisting_tx'
                                            /\ persisting_tx'[l] = persisting_tx[l]
         /\ \A l \in DOMAIN persisting_tx' :
              \/ l \in DOMAIN persisting_tx /\ persisting_tx'[l] = persisting_tx[l]
              \/ l = Len(persisting_tx) + 1 /\ persisting_tx'[l] = req
         /\ \A l \in DOMAIN persisting_tx : l < Len(persisting_tx) + 1
         /\ pending_commit_blocks' \subseteq Blocks
<1>1. persisting_tx \in Seq(Requests)
  BY DEF Types
<1>2. persisting_tx' = Append(persisting_tx, req)
  BY DEF Added
<1>3. pending_commit_blocks' \subseteq Blocks
  BY DEF Types, Requests, Added
<1> QED BY <1>1, <1>2, <1>3, SMT

(* What no caller of advance_head changes, and the most that each of them   *)
(* changes besides: an answer for the item is taken, votes for its block   *)
(* are acknowledged, a proof for its block arrives.                        *)
AroundTaken(item, k, d) ==
  /\ UNCHANGED <<block_rx, schedule_rx, wait_tx, signing_rx, persisting_rx,
                 pending_commit_votes, highest_committed_round, latest_round, gen,
                 next_round, committed, finished, failed, aborted, latest_logical_time,
                 scenario, faults, own_votes>>
  /\ wait_rx' \in Seq(Answers) /\ IsSuffix(wait_rx', wait_rx, d)
  /\ \A l \in DOMAIN wait_rx : l <= d => wait_rx[l].last = buffer[k].last
  /\ acked \subseteq acked' /\ acked' \subseteq Validator \X Round
  /\ \A x \in acked' : x \in acked \/ x[2] = buffer[k].last
  /\ certified \subseteq certified' /\ certified' \subseteq Round
  /\ pending_commit_proofs' \subseteq certified'
  /\ stale' \in BOOLEAN /\ (stale => stale')
  /\ item.last = buffer[k].last /\ Decided(item.last)'
  /\ ~ stale' => /\ item.gen = gen /\ Done(item.last)'
                 /\ \A i \in DOMAIN buffer : i < k => Executed(buffer[i])

(* The types after advance_head.                                           *)
LEMMA TakenTypes ==
  ASSUME Types, mode = "run", NEW k \in DOMAIN buffer, NEW item, Taken(item, k),
         NEW d \in Nat, AroundTaken(item, k, d)
  PROVE  Types'
<1>1. PICK req : Handed(req, item, k) /\ Added(req)
  BY DEF Taken
<1>2. req \in Requests
  BY <1>1 DEF Handed
<1>3. persisting_tx' \in Seq(Requests) /\ pending_commit_blocks' \subseteq Blocks
  BY <1>1, <1>2, RequestAdded
<1>4. mode' \in {"run", "commits", "tasks", "stopped"} /\ reset_signal' \in -1..MaxRound
  <2>1. reset_signal \in -1..MaxRound /\ 0 \in -1..MaxRound
    BY BoundAssumption, SMT DEF Types
  <2> QED BY <2>1 DEF Taken
<1>5. pending_commit_proofs' \subseteq Round
  BY DEF AroundTaken
<1>6. /\ buffer' \in Seq(Item) /\ execution_root' \in Round \cup {None}
      /\ signing_root' \in Round \cup {None} /\ signing_tx' \in Seq(Round)
  BY DEF Taken
<1> QED BY <1>3, <1>4, <1>5, <1>6 DEF Types, AroundTaken

(* The order, the roots and the certificates after advance_head.           *)
LEMMA TakenCore ==
  ASSUME PipelineInv, mode = "run", NEW k \in DOMAIN buffer, NEW item, Taken(item, k),
         NEW d \in Nat, AroundTaken(item, k, d)
  PROVE  Types' /\ Chain' /\ Queues' /\ Roots' /\ Certificates'
<1>1. Types /\ Chain /\ InLine /\ Spans /\ Awaited /\ Truthful /\ Roots /\ Certificates
  BY DEF PipelineInv, Queues
<1>2. Types'
  BY <1>1, TakenTypes
<1>3. PICK req : Handed(req, item, k) /\ Added(req)
  BY DEF Taken
<1>4. req \in Requests /\ req.target = buffer[k].last
  BY <1>3 DEF Handed
<1>5. /\ k \in Nat \ {0} /\ DOMAIN buffer \subseteq Nat \ {0} /\ Distinct(buffer)
  BY <1>1, BufferSorted
<1>6. IsSuffix(buffer', buffer, k) /\ Within(k)
  BY SuffixWithin DEF Taken
<1>7. \A l \in DOMAIN persisting_tx' :
        \/ l \in DOMAIN persisting_tx /\ persisting_tx'[l] = persisting_tx[l]
        \/ persisting_tx'[l].target = buffer[k].last
  BY <1>1, <1>3, <1>4, RequestAdded
<1>8. Chain'
  <2>1. mode' # "tasks"
    BY SMT DEF Taken
  <2> QED BY <1>1, <1>2, <1>5, <1>6, <1>7, <2>1, ChainWithin DEF AroundTaken
<1>9. InLine'
  BY <1>1, InLineAnswered DEF AroundTaken
<1>10. Spans'
  BY <1>1, <1>5, <1>6, SpansWithin DEF AroundTaken
<1>11. Truthful'
  BY <1>1, <1>5, <1>6, TruthfulWithin DEF AroundTaken
<1>12. Awaited'
  <2>1. ASSUME NEW i \in DOMAIN buffer', buffer'[i].stage = "ordered"
        PROVE  \E j \in DOMAIN buffer :
                 /\ buffer[j].stage = "ordered" /\ buffer[j].last = buffer'[i].last
                 /\ buffer[j].gen = buffer'[i].gen
                 /\ \A l \in DOMAIN wait_rx : l <= d => wait_rx[l].last # buffer[j].last
    <3>1. i \in Nat \ {0} /\ i + k \in DOMAIN buffer /\ buffer'[i] = buffer[i + k]
      BY <1>6 DEF IsSuffix, Within
    <3>2. i + k # k
      BY <3>1, <1>5, SMT
    <3>3. buffer[i + k].last # buffer[k].last
      BY <3>1, <3>2, <1>5 DEF Distinct
    <3> QED BY <2>1, <3>1, <3>3 DEF AroundTaken
  <2> QED BY <2>1, <1>1, AwaitedWithin DEF AroundTaken
<1>13. Roots'
  <2>1. ASSUME mode' = "run", ~ stale' PROVE SigningOK'
    <3>1. ~ stale
      BY <2>1 DEF AroundTaken
    <3>2. SigningOK
      BY <3>1, <1>1 DEF Roots, SigningOK
    <3> QED BY <3>2, <2>1 DEF Taken
  <2>2. mode' = "run" => FirstOf(buffer', execution_root', "ordered")
    BY DEF Taken
  <2> QED BY <2>1, <2>2 DEF Roots, SigningOK
<1>14. Certificates'
  <2>1. \A r : Decided(r) => Decided(r)'
    <3>1. ASSUME NEW r, Decided(r) PROVE Decided(r)'
      <4>1. Certifiers(r) \subseteq Certifiers(r)' /\ Certifiers(r)' \subseteq Validator
        BY DEF Certifiers, AroundTaken
      <4>2. CASE r \in certified
        BY <4>2 DEF Decided, AroundTaken
      <4>3. CASE Certifiers(r) \in Quorum
        BY <4>1, <4>3, QuorumAssumption DEF Decided
      <4> QED BY <3>1, <4>2, <4>3 DEF Decided
    <3> QED BY <3>1, SMT
  <2>2. \A r \in Round : \A a \in Validator :
          pending_commit_votes'[r][a] = "good" => <<a, r>> \in acked'
    BY <1>1 DEF Certificates, AroundTaken
  <2>3. ASSUME NEW i \in DOMAIN buffer'
        PROVE  /\ \A a \in Validator :
                    buffer'[i].votes[a] = "good" => <<a, buffer'[i].last>> \in acked'
               /\ pending_commit_votes'[buffer'[i].last] = NoVotes'
               /\ buffer'[i].proof => buffer'[i].last \in certified'
    <3>1. i + k \in DOMAIN buffer /\ buffer'[i] = buffer[i + k]
      BY <1>6 DEF IsSuffix
    <3>2. pending_commit_votes'[buffer'[i].last] = NoVotes'
      BY <1>1, <3>1 DEF Certificates, AroundTaken, NoVotes
    <3> QED BY <1>1, <3>1, <3>2 DEF Certificates, AroundTaken
  <2>4. ASSUME NEW l \in DOMAIN persisting_tx' PROVE Decided(persisting_tx[l].target)'
    <3>1. CASE l \in DOMAIN persisting_tx /\ persisting_tx'[l] = persisting_tx[l]
      <4>1. Decided(persisting_tx[l].target)
        BY <1>1, <3>1 DEF Certificates
      <4> QED BY <4>1, <2>1, <3>1 DEF Decided, Certifiers
    <3>2. CASE persisting_tx'[l].target = buffer[k].last
      <4>1. Decided(item.last)' /\ item.last = buffer[k].last
        BY DEF AroundTaken
      <4> QED BY <3>2, <4>1 DEF Decided, Certifiers
    <3> QED BY <1>7, <3>1, <3>2
  <2>5. reset_signal' > 0 => reset_signal' \in certified'
    <3>1. CASE reset_signal' = 0
      BY <3>1, SMT
    <3>2. CASE reset_signal' = reset_signal
      BY <1>1, <3>2 DEF Certificates, AroundTaken
    <3> QED BY <3>1, <3>2 DEF Taken
  <2> QED BY <2>2, <2>3, <2>4, <2>5 DEF Certificates, AroundTaken
<1> QED BY <1>2, <1>8, <1>9, <1>10, <1>11, <1>12, <1>13, <1>14 DEF Queues

(* What is left in the buffer after advance_head is in order.              *)
LEMMA TakenInOrder ==
  ASSUME Types, Chain, InOrder, NEW k \in DOMAIN buffer, NEW item, Taken(item, k),
         NEW d \in Nat, AroundTaken(item, k, d)
  PROVE  InOrder'
<1>1. k \in Nat
  BY BufferSorted, SMT
<1>2. \A i \in DOMAIN buffer' : i \in Nat /\ i + k \in DOMAIN buffer /\ buffer'[i] = buffer[i + k]
  BY DEF Taken, IsSuffix
<1>3. \A i \in DOMAIN buffer' : buffer'[i].gen = gen' /\ committed' < buffer'[i].first
  BY <1>2 DEF InOrder, AroundTaken
<1>4. ASSUME NEW i \in DOMAIN buffer', NEW j \in DOMAIN buffer', i < j, Executed(buffer'[j])
      PROVE  Executed(buffer'[i])
  <2>1. i + k < j + k
    BY <1>1, <1>2, <1>4, SMTT(30)
  <2> QED BY <2>1, <1>2, <1>4 DEF InOrder
<1>5. ASSUME NEW i \in DOMAIN buffer', Executed(buffer'[i])
      PROVE  Done(buffer[i].last)'
  <2>1. Done(buffer[i + k].last)
    BY <1>2, <1>5 DEF InOrder
  <2>2. ASSUME NEW r, Done(r) PROVE Done(r)'
    BY <2>2, DoneKept DEF AroundTaken
  <2> QED BY <2>1, <2>2, <1>2 DEF Done, After, Ours
<1>6. /\ \A i \in DOMAIN block_rx' : committed' < block_rx'[i].first
      /\ committed' < next_round'
  BY DEF InOrder, AroundTaken
<1> QED BY <1>3, <1>4, <1>5, <1>6 DEF InOrder, Executed

(* The request of advance_head can be served after those before it.        *)
LEMMA TakenPersisting ==
  ASSUME Types, Types', Chain, InOrder, Persisting, mode = "run", ~ stale',
         NEW k \in DOMAIN buffer, NEW item, Taken(item, k),
         NEW d \in Nat, AroundTaken(item, k, d)
  PROVE  Persisting'
<1>1. PICK req : Handed(req, item, k) /\ Added(req)
  BY DEF Taken
<1> DEFINE n == Len(persisting_tx) + 1
<1>2. /\ n \in DOMAIN persisting_tx' /\ persisting_tx'[n] = req
      /\ \A l \in DOMAIN persisting_tx : /\ l \in DOMAIN persisting_tx' /\ l < n
                                         /\ persisting_tx'[l] = persisting_tx[l]
      /\ \A l \in DOMAIN persisting_tx' :
           \/ l \in DOMAIN persisting_tx /\ persisting_tx'[l] = persisting_tx[l]
           \/ l = n /\ persisting_tx'[l] = req
  <2>1. req \in Requests
    BY <1>1 DEF Handed
  <2> QED BY <1>1, <2>1, RequestAdded
<1>3. n \in Nat /\ \A l \in DOMAIN persisting_tx' : l \in Nat
  <2>1. n \in Nat
    BY RequestTypes, SMTT(30)
  <2>2. persisting_tx' \in Seq(Requests)
    BY DEF Types
  <2> QED BY <2>1, <2>2, SMTT(30)
<1> HIDE DEF n
<1>4. /\ req.target = buffer[k].last /\ req.executed /\ req.blocks \subseteq Blocks
      /\ [round |-> req.target, gen |-> gen] \in req.blocks
  <2>1. item.gen = gen /\ \A i \in DOMAIN buffer : i < k => Executed(buffer[i])
    BY DEF AroundTaken
  <2> QED BY <1>1, <2>1 DEF Handed, Requests
<1>5. ASSUME NEW b \in req.blocks
      PROVE  /\ b.gen = gen /\ committed < b.round /\ b.round <= req.target
             /\ \A l \in DOMAIN persisting_tx : persisting_tx[l].target < b.round
  <2>1. PICK i \in 1 .. k : /\ i \in DOMAIN buffer
                            /\ buffer[i].first <= b.round /\ b.round <= buffer[i].last
                            /\ b.gen = IF i = k THEN item.gen ELSE buffer[i].gen
    BY <1>1, <1>5 DEF Handed
  <2>2. b.gen = gen
    BY <2>1 DEF AroundTaken, InOrder
  <2>3. /\ committed < buffer[i].first
        /\ \A l \in DOMAIN persisting_tx : persisting_tx[l].target < buffer[i].first
    BY <2>1, ZenonT(30) DEF InOrder, Chain
  <2>4. buffer[i].last <= buffer[k].last
    <3>1. CASE i = k
      BY <3>1, BufferSorted, SMTT(30)
    <3>2. CASE i # k
      <4>1. i < k
        BY <3>2, <2>1, BufferSorted, SMTT(30)
      <4>2. buffer[i].last < buffer[k].first /\ buffer[k].first <= buffer[k].last
        BY <4>1, <2>1 DEF Chain
      <4> QED BY <4>2, <2>1, BufferSorted, SMTT(30)
    <3> QED BY <3>1, <3>2
  <2>5. /\ buffer[i].first \in Nat /\ buffer[i].last \in Nat /\ buffer[k].last \in Nat
        /\ b.round \in Nat /\ committed \in Nat
        /\ \A l \in DOMAIN persisting_tx : persisting_tx[l].target \in Nat
    <3>1. b \in Blocks
      BY <1>4, <1>5, ZenonT(30)
    <3> QED BY <2>1, <3>1, BufferSorted, RequestTypes, NumberTypes
  <2>6. committed < b.round /\ b.round <= req.target
    <3>1. /\ buffer[i].first <= b.round /\ b.round <= buffer[i].last
          /\ req.target = buffer[k].last
      BY <1>4, <2>1
    <3>2. committed < buffer[i].first
      BY <2>3
    <3>3. /\ buffer[i].first \in Nat /\ buffer[i].last \in Nat /\ buffer[k].last \in Nat
          /\ b.round \in Nat /\ committed \in Nat
      BY <2>5
    <3> QED BY <2>4, <3>1, <3>2, <3>3, SMT
  <2>7. ASSUME NEW l \in DOMAIN persisting_tx PROVE persisting_tx[l].target < b.round
    <3>1. /\ buffer[i].first <= b.round /\ persisting_tx[l].target < buffer[i].first
          /\ buffer[i].first \in Nat /\ b.round \in Nat /\ persisting_tx[l].target \in Nat
      BY <2>1, <2>3, <2>5, <2>7
    <3> QED BY <3>1, SMT
  <2> QED BY <2>2, <2>6, <2>7
<1>6. pending_commit_blocks' =
        {b \in pending_commit_blocks : \A c \in req.blocks : c.round # b.round} \cup req.blocks
  BY <1>1 DEF Added
<1>7. ASSUME NEW l \in DOMAIN persisting_tx
      PROVE  persisting_tx[l].blocks \subseteq pending_commit_blocks'
  <2>1. ASSUME NEW b \in persisting_tx[l].blocks, NEW c \in req.blocks
        PROVE  c.round # b.round
    <3>1. b.round <= persisting_tx[l].target /\ persisting_tx[l].target < c.round
      BY <2>1, <1>5 DEF Persisting
    <3>2. b \in Blocks /\ c \in Blocks
      BY <2>1, <1>4, RequestTypes
    <3>3. b.round \in Nat /\ c.round \in Nat /\ persisting_tx[l].target \in Nat
      BY <3>2, RequestTypes
    <3> QED BY <3>1, <3>3, SMT
  <2>2. persisting_tx[l].blocks \subseteq pending_commit_blocks
    BY DEF Persisting
  <2> QED BY <2>1, <2>2, <1>6
<1>8. ASSUME NEW r, Done(r) PROVE Done(r)'
  BY <1>8, DoneKept DEF AroundTaken
<1>9. ASSUME NEW l \in DOMAIN persisting_tx'
      PROVE  /\ persisting_tx'[l].executed
             /\ Done(persisting_tx[l].target)'
             /\ [round |-> persisting_tx'[l].target, gen |-> gen'] \in persisting_tx'[l].blocks
             /\ persisting_tx'[l].blocks \subseteq pending_commit_blocks'
             /\ \A b \in persisting_tx'[l].blocks :
                  b.gen = gen' /\ committed' < b.round /\ b.round <= persisting_tx'[l].target
  <2>1. UNCHANGED <<gen, committed>>
    BY DEF AroundTaken
  <2>2. CASE l \in DOMAIN persisting_tx /\ persisting_tx'[l] = persisting_tx[l]
    <3>1. /\ persisting_tx[l].executed
          /\ Done(persisting_tx[l].target)
          /\ [round |-> persisting_tx[l].target, gen |-> gen] \in persisting_tx[l].blocks
          /\ \A b \in persisting_tx[l].blocks :
                  b.gen = gen /\ committed < b.round /\ b.round <= persisting_tx[l].target
      BY <2>2 DEF Persisting
    <3>2. Done(persisting_tx[l].target)'
      BY <2>2, <3>1, <1>8 DEF Done, After, Ours
    <3> QED BY <2>1, <2>2, <3>1, <3>2, <1>7
  <2>3. CASE l = n /\ persisting_tx'[l] = req
    <3>1. Done(item.last)' /\ item.last = buffer[k].last
      BY DEF AroundTaken
    <3>2. Done(persisting_tx[l].target)'
      BY <2>3, <3>1, <1>4 DEF Done, After, Ours
    <3>3. req.blocks \subseteq pending_commit_blocks'
      BY <1>6
    <3> QED BY <2>1, <2>3, <3>2, <3>3, <1>4, <1>5
  <2> QED BY <2>2, <2>3, <1>2
<1>10. ASSUME NEW m \in DOMAIN persisting_tx', NEW l \in DOMAIN persisting_tx', m < l,
              NEW b \in persisting_tx'[l].blocks
       PROVE  persisting_tx'[m].target < b.round
  <2>1. CASE m \in DOMAIN persisting_tx /\ l \in DOMAIN persisting_tx
    BY <2>1, <1>2, <1>10 DEF Persisting
  <2>2. CASE m \in DOMAIN persisting_tx /\ l = n
    BY <2>2, <1>2, <1>5, <1>10
  <2>3. CASE m = n
    <3>1. l \in DOMAIN persisting_tx => l < n
      BY <1>2
    <3> QED BY <2>3, <3>1, <1>2, <1>3, <1>10, SMTT(30)
  <2> QED BY <2>1, <2>2, <2>3, <1>2
<1>11. ASSUME NEW b \in pending_commit_blocks'
       PROVE  \/ b.round <= committed'
              \/ \E l \in DOMAIN persisting_tx' : b \in persisting_tx'[l].blocks
  <2>1. committed' = committed
    BY DEF AroundTaken
  <2>2. CASE b \in req.blocks
    BY <2>2, <1>2
  <2>3. CASE b \in pending_commit_blocks
    BY <2>1, <2>3, <1>2 DEF Persisting
  <2> QED BY <2>2, <2>3, <1>6, <1>11
<1>12. finished' = committed' /\ latest_logical_time' <= committed'
  BY DEF Persisting, AroundTaken
<1>13. mode' = "run" \/ (mode' = "commits" /\ ends_epoch(req.target))
  BY <1>4 DEF Taken
<1>14. ~ Draining' /\ Unaborted'
  <2>1. ~ Draining' /\ ~ Draining
    BY <1>13, SMT DEF Draining
  <2> QED BY <2>1 DEF Persisting, Unaborted, AroundTaken
<1>15. mode' \in {"commits", "tasks"} /\ reset_signal' = 0 =>
         /\ epoch_end' # None
         /\ \E l \in DOMAIN persisting_tx' : persisting_tx'[l].target >= epoch_end'
  <2>1. epoch_end' = epoch_end
    BY DEF epoch_end, AroundTaken
  <2>2. mode' = "run" => mode' \notin {"commits", "tasks"}
    BY SMT
  <2> QED BY <2>1, <2>2, <1>2, <1>13 DEF ends_epoch, None
<1> QED BY <1>9, <1>10, <1>11, <1>12, <1>14, <1>15 DEF Persisting, None

(* advance_head keeps the invariant, whichever branch calls it, when the   *)
(* item is decided and all before it executed.                             *)
LEMMA TakenInv ==
  ASSUME PipelineInv, mode = "run", NEW k \in DOMAIN buffer, NEW item, Taken(item, k),
         NEW d \in Nat, AroundTaken(item, k, d)
  PROVE  PipelineInv'
<1>1. Types' /\ Chain' /\ Queues' /\ Roots' /\ Certificates'
  BY TakenCore
<1>2. Types /\ Chain
  BY DEF PipelineInv
<1>3. ASSUME ~ stale'
      PROVE  InOrder' /\ Persisting' /\ Committed' /\ Pressure' /\ VotesKept'
  <2>1. InOrder /\ Persisting /\ Committed /\ Pressure /\ VotesKept
    BY <1>3 DEF PipelineInv, Fresh, AroundTaken
  <2>2. InOrder'
    BY <1>2, <2>1, TakenInOrder
  <2>3. Persisting'
    BY <1>1, <1>2, <1>3, <2>1, TakenPersisting
  <2>4. mode' # "tasks" /\ (mode' = "commits" => reset_signal' = 0)
    BY SMT DEF Taken
  <2>5. ~ Syncing' /\ ~ Syncing
    BY <2>4, SMT DEF Syncing
  <2>6. Committed'
    BY <2>1, <2>5 DEF Committed, AroundTaken, Ours
  <2>7. PICK req : Handed(req, item, k) /\ Added(req)
    BY DEF Taken
  <2>8. /\ \E l \in DOMAIN persisting_tx' : persisting_tx'[l].target = buffer[k].last
        /\ \A l \in DOMAIN persisting_tx : \E m \in DOMAIN persisting_tx' :
             persisting_tx'[m].target = persisting_tx[l].target
    <3>1. req \in Requests /\ req.target = buffer[k].last
      BY <2>7 DEF Handed
    <3> QED BY <1>2, <2>7, <3>1, RequestAdded
  <2>9. ASSUME NEW i \in DOMAIN buffer
        PROVE  \/ i \in Nat /\ i - k \in DOMAIN buffer' /\ buffer'[i - k] = buffer[i]
               \/ \A r \in Nat : r <= buffer[i].last =>
                    \E l \in DOMAIN persisting_tx' : persisting_tx'[l].target >= r
    <3>1. i \in Nat /\ k \in Nat
      BY <1>2, BufferSorted, SMT
    <3>2. CASE i > k
      BY <3>1, <3>2 DEF Taken, IsSuffix
    <3>3. CASE i <= k
      <4>1. buffer[i].last <= buffer[k].last
        <5>1. CASE i = k
          BY <5>1, <1>2, BufferSorted, SMTT(30)
        <5>2. CASE i < k
          <6>1. buffer[i].last < buffer[k].first /\ buffer[k].first <= buffer[k].last
            BY <5>2, <1>2 DEF Chain
          <6> QED BY <6>1, <1>2, BufferSorted, SMT
        <5> QED BY <3>1, <3>3, <5>1, <5>2, SMTT(30)
      <4>2. \A r \in Nat : r <= buffer[i].last => buffer[k].last >= r
        BY <4>1, <1>2, BufferSorted, SMTT(30)
      <4> QED BY <4>2, <2>8, ZenonT(30)
    <3> QED BY <3>1, <3>2, <3>3, SMTT(30)
  <2>10. Pressure'
    <3>1. SUFFICES ASSUME mode' = "run", ~ EpochOver',
                          ~ latest_round' <= highest_committed_round',
                          ~ \E i \in DOMAIN persisting_rx' :
                              persisting_rx'[i].round >= latest_round'
                   PROVE  \/ \E i \in DOMAIN buffer' : buffer'[i].last >= latest_round'
                          \/ \E i \in DOMAIN persisting_tx' :
                               persisting_tx'[i].target >= latest_round'
      BY DEF Pressure
    <3>2. /\ ~ EpochOver /\ latest_round' = latest_round
          /\ ~ latest_round <= highest_committed_round
          /\ ~ \E i \in DOMAIN persisting_rx : persisting_rx[i].round >= latest_round
      BY <3>1 DEF AroundTaken, EpochOver, epoch_end
    <3>3. \/ \E i \in DOMAIN buffer : buffer[i].last >= latest_round
          \/ \E i \in DOMAIN persisting_tx : persisting_tx[i].target >= latest_round
      BY <3>2, <2>1 DEF Pressure
    <3>4. CASE \E i \in DOMAIN persisting_tx : persisting_tx[i].target >= latest_round
      BY <3>2, <3>4, <2>8
    <3>5. CASE \E i \in DOMAIN buffer : buffer[i].last >= latest_round
      <4>1. PICK i \in DOMAIN buffer : buffer[i].last >= latest_round
        BY <3>5
      <4>2. latest_round \in Nat /\ latest_round <= buffer[i].last
        BY <4>1, <1>2, NumberTypes, BufferSorted
      <4> QED BY <4>1, <4>2, <3>2, <2>9
    <3> QED BY <3>3, <3>4, <3>5
  <2>11. VotesKept'
    <3>1. SUFFICES ASSUME NEW x \in acked', x[1] \in Honest'
                   PROVE  \/ x[2] <= highest_committed_round' \/ x[2] <= committed'
                          \/ \E i \in DOMAIN persisting_tx' : persisting_tx'[i].target >= x[2]
                          \/ pending_commit_votes'[x[2]][x[1]] = "good"
                          \/ \E i \in DOMAIN buffer' : /\ buffer'[i].last = x[2]
                                                       /\ buffer'[i].votes[x[1]] = "good"
      BY DEF VotesKept
    <3>2. x[2] \in Nat
      <4>1. x \in Validator \X Round
        BY <3>1 DEF AroundTaken
      <4> QED BY <4>1, BoundAssumption, SMT DEF Round
    <3>3. CASE x[2] = buffer[k].last
      <4>1. buffer[k].last >= x[2]
        BY <3>2, <3>3, SMT
      <4> QED BY <4>1, <2>8
    <3>4. CASE x \in acked
      <4>1. /\ UNCHANGED <<highest_committed_round, committed, pending_commit_votes>>
        BY DEF AroundTaken
      <4>2. \/ x[2] <= highest_committed_round \/ x[2] <= committed
            \/ \E i \in DOMAIN persisting_tx : persisting_tx[i].target >= x[2]
            \/ pending_commit_votes[x[2]][x[1]] = "good"
            \/ \E i \in DOMAIN buffer : buffer[i].last = x[2] /\ buffer[i].votes[x[1]] = "good"
        BY <2>1, <3>1, <3>4 DEF VotesKept, Honest
      <4>3. CASE \E i \in DOMAIN buffer : buffer[i].last = x[2] /\ buffer[i].votes[x[1]] = "good"
        <5>1. PICK i \in DOMAIN buffer : buffer[i].last = x[2] /\ buffer[i].votes[x[1]] = "good"
          BY <4>3
        <5>2. x[2] <= buffer[i].last
          BY <5>1, <3>2, SMTT(30)
        <5> QED BY <5>1, <5>2, <3>2, <2>9
      <4>4. CASE \E i \in DOMAIN persisting_tx : persisting_tx[i].target >= x[2]
        BY <4>4, <2>8
      <4> QED BY <4>1, <4>2, <4>3, <4>4
    <3> QED BY <3>1, <3>3, <3>4 DEF AroundTaken
  <2> QED BY <2>2, <2>3, <2>6, <2>10, <2>11
<1> QED BY <1>1, <1>3 DEF PipelineInv, Fresh

-----------------------------------------------------------------------------
(* buffer_item.rs.                                                         *)

(* An executed item keeps the valid votes, and is aggregated only with a   *)
(* quorum of them or with a proof.                                         *)
Advanced(new, item, g) ==
  /\ new.first = item.first /\ new.last = item.last /\ new.gen = g
  /\ new.proof = item.proof
  /\ \A a \in Validator : new.votes[a] = "good" <=> item.votes[a] = "good"
  /\ \/ new.stage = "executed" /\ new \in Item
     \/ new.stage = "aggregated" /\ (item.proof \/ Good(item.votes) \in Quorum)
  /\ [new EXCEPT !.stage = "aggregated"].first = item.first
  /\ [new EXCEPT !.stage = "aggregated"].last = item.last
  /\ [new EXCEPT !.stage = "aggregated"].gen = g
  /\ [new EXCEPT !.stage = "aggregated"].stage = "aggregated"

(* advance_to_executed_or_aggregated keeps the blocks and the good votes of*)
(* the item.                                                               *)
LEMMA AdvancedItem ==
  ASSUME NEW item \in Item, NEW g \in Nat
  PROVE  Advanced(advance_to_executed_or_aggregated(item, g), item, g)
<1> DEFINE votes == create_signature_aggregator(item.votes)
           moved == [item EXCEPT !.gen = g]
           new == advance_to_executed_or_aggregated(item, g)
<1>1. /\ item.first \in Round /\ item.last \in Round /\ item.gen \in Nat
      /\ item.stage \in {"ordered", "executed", "signed"}
      /\ item.votes \in Votes /\ item.proof \in BOOLEAN
      /\ item = [first |-> item.first, last |-> item.last, gen |-> item.gen,
                 stage |-> item.stage, votes |-> item.votes, proof |-> item.proof]
  BY ItemFields
<1>2. /\ votes \in Votes
      /\ \A a \in Validator : votes[a] = "good" <=> item.votes[a] = "good"
  BY <1>1, SMT DEF create_signature_aggregator, Votes, Kind
<1>3. Good(votes) = Good(item.votes)
  BY <1>2 DEF Good
<1>4. /\ Filtered(votes) \in Votes
      /\ \A a \in Validator : Filtered(votes)[a] = "good" <=> votes[a] = "good"
  <2> HIDE DEF votes
  <2> QED BY <1>2, SMT DEF Filtered, Votes, Kind
<1> HIDE DEF votes
<1>5. moved = [first |-> item.first, last |-> item.last, gen |-> g,
               stage |-> item.stage, votes |-> item.votes, proof |-> item.proof]
  BY <1>1, SMT
<1> HIDE DEF moved
<1>6. new = IF item.proof \/ Aggregates(votes)
            THEN [moved EXCEPT !.stage = "aggregated"]
            ELSE [moved EXCEPT !.stage = "executed", !.votes = Filtered(votes)]
  BY DEF advance_to_executed_or_aggregated, votes, moved
<1> SUFFICES Advanced(new, item, g)
  BY SMT
<1> HIDE DEF new
<1>7. CASE item.proof \/ Aggregates(votes)
  <2>1. new = [first |-> item.first, last |-> item.last, gen |-> g,
               stage |-> "aggregated", votes |-> item.votes, proof |-> item.proof]
    BY <1>5, <1>6, <1>7
  <2>2. item.proof \/ Good(item.votes) \in Quorum
    BY <1>3, <1>7 DEF Aggregates, EnoughPower
  <2> QED BY <2>1, <2>2, SMT DEF Advanced
<1>8. CASE ~ (item.proof \/ Aggregates(votes))
  <2>1. new = [first |-> item.first, last |-> item.last, gen |-> g,
               stage |-> "executed", votes |-> Filtered(votes), proof |-> item.proof]
    BY <1>5, <1>6, <1>8
  <2>2. new \in Item
    BY <2>1, <1>1, <1>4, SMT DEF Item, Votes
  <2> QED BY <2>1, <2>2, <1>2, <1>4 DEF Advanced
<1> QED BY <1>7, <1>8

(* A proof aggregates an item that is executed, and waits in one that is not. *)
Proved(new, item) ==
  /\ new.first = item.first /\ new.last = item.last /\ new.gen = item.gen
  /\ new.votes = item.votes
  /\ item.stage = "ordered" => new.stage = "ordered" /\ new \in Item
  /\ item.stage # "ordered" => new.stage = "aggregated"

(* try_advance_to_aggregated_with_ledger_info aggregates executed items.   *)
LEMMA ProvedItem ==
  ASSUME NEW item \in Item, NEW new, new = try_advance_to_aggregated_with_ledger_info(item)
  PROVE  Proved(new, item)
<1>1. /\ item.first \in Round /\ item.last \in Round /\ item.gen \in Nat
      /\ item.stage \in {"ordered", "executed", "signed"}
      /\ item.votes \in Votes /\ item.proof \in BOOLEAN
      /\ item = [first |-> item.first, last |-> item.last, gen |-> item.gen,
                 stage |-> item.stage, votes |-> item.votes, proof |-> item.proof]
  BY ItemFields
<1>2. CASE item.stage = "ordered"
  <2>1. new = [first |-> item.first, last |-> item.last, gen |-> item.gen,
               stage |-> item.stage, votes |-> item.votes, proof |-> TRUE]
    BY <1>1, <1>2 DEF try_advance_to_aggregated_with_ledger_info
  <2>2. new \in Item
    BY <2>1, <1>1, SMT DEF Item, Votes
  <2> QED BY <2>1, <2>2, <1>2, SMTT(30) DEF Proved
<1>3. CASE item.stage # "ordered"
  <2>1. new = [first |-> item.first, last |-> item.last, gen |-> item.gen,
               stage |-> "aggregated", votes |-> item.votes, proof |-> item.proof]
    BY <1>1, <1>3, SMT DEF try_advance_to_aggregated_with_ledger_info
  <2> QED BY <2>1, <1>3, SMT DEF Proved
<1> QED BY <1>2, <1>3

(* A vote changes what its author voted, and may aggregate the item.       *)
Voted(new, item, a, kind) ==
  /\ new.first = item.first /\ new.last = item.last /\ new.gen = item.gen
  /\ new.proof = item.proof
  /\ \A b \in Validator :
       new.votes[b] = "good" <=> IF b = a THEN kind = "good" ELSE item.votes[b] = "good"
  /\ \/ new.stage = item.stage /\ new \in Item
     \/ new.stage = "aggregated" /\ item.stage # "ordered" /\ Good(new.votes) \in Quorum

(* add_signature_if_matched and try_advance_to_aggregated: only a quorum of*)
(* good votes aggregates.                                                  *)
LEMMA VotedItem ==
  ASSUME NEW item \in Item, NEW a \in Validator, NEW kind \in Kind,
         NEW new, new = try_advance_to_aggregated([item EXCEPT !.votes[a] = kind])
  PROVE  Voted(new, item, a, kind)
<1>1. /\ item.first \in Round /\ item.last \in Round /\ item.gen \in Nat
      /\ item.stage \in {"ordered", "executed", "signed"}
      /\ item.votes \in Votes /\ item.proof \in BOOLEAN
      /\ item = [first |-> item.first, last |-> item.last, gen |-> item.gen,
                 stage |-> item.stage, votes |-> item.votes, proof |-> item.proof]
  BY ItemFields
<1> DEFINE votes == [item.votes EXCEPT ![a] = kind]
           voted == [item EXCEPT !.votes[a] = kind]
<1>2. /\ votes \in Votes
      /\ \A b \in Validator :
           votes[b] = "good" <=> IF b = a THEN kind = "good" ELSE item.votes[b] = "good"
  BY <1>1, SMT DEF Votes
<1>3. voted = [first |-> item.first, last |-> item.last, gen |-> item.gen,
               stage |-> item.stage, votes |-> votes, proof |-> item.proof]
  BY <1>1, SMT
<1> HIDE DEF votes
<1>4. /\ Filtered(votes) \in Votes
      /\ \A b \in Validator : Filtered(votes)[b] = "good" <=> votes[b] = "good"
  BY <1>2, SMT DEF Filtered, Votes, Kind
<1>5. new = try_advance_to_aggregated(voted)
  BY SMT
<1> HIDE DEF voted
<1>6. voted.stage = item.stage /\ voted.votes = votes
  BY <1>3, SMT
<1>7. voted \in Item
  BY <1>1, <1>2, <1>3 DEF Item, Votes
<1>8. CASE item.stage = "ordered"
  <2>1. new = voted
    BY <1>5, <1>6, <1>8 DEF try_advance_to_aggregated
  <2> QED BY <2>1, <1>2, <1>3, <1>7, SMTT(30) DEF Voted
<1>9. CASE item.stage # "ordered" /\ Aggregates(votes)
  <2>1. new = [voted EXCEPT !.stage = "aggregated"]
    BY <1>5, <1>6, <1>9 DEF try_advance_to_aggregated
  <2>2. new = [first |-> item.first, last |-> item.last, gen |-> item.gen,
               stage |-> "aggregated", votes |-> votes, proof |-> item.proof]
    BY <2>1, <1>3, SMT
  <2>3. Good(votes) \in Quorum
    BY <1>9 DEF Aggregates, EnoughPower
  <2> QED BY <2>2, <2>3, <1>2, <1>9, SMTT(30) DEF Voted
<1>10. CASE item.stage = "signed" /\ ~ Aggregates(votes)
  <2>1. new = voted
    BY <1>5, <1>6, <1>10 DEF try_advance_to_aggregated
  <2> QED BY <2>1, <1>2, <1>3, <1>7, SMT DEF Voted
<1>11. CASE item.stage = "executed" /\ ~ Aggregates(votes)
  <2>1. new = [voted EXCEPT !.votes = Filtered(votes)]
    BY <1>5, <1>6, <1>11 DEF try_advance_to_aggregated
  <2>2. new = [first |-> item.first, last |-> item.last, gen |-> item.gen,
               stage |-> item.stage, votes |-> Filtered(votes), proof |-> item.proof]
    BY <2>1, <1>3
  <2>3. new \in Item
    BY <2>2, <1>1, <1>4, SMTT(30) DEF Item, Votes
  <2> QED BY <2>2, <2>3, <1>2, <1>4, SMTT(30) DEF Voted
<1> QED BY <1>1, <1>8, <1>9, <1>10, <1>11

-----------------------------------------------------------------------------
(* Answers, votes and decisions that change one item of the buffer, or hand*)
(* its prefix to the persisting phase.                                     *)

(* process_execution_response keeps the invariant.                         *)
LEMMA ExecutionResponse ==
  ASSUME NumbersOrdered, PipelineInv, process_execution_response
  PROVE  PipelineInv'
<1>1. /\ Types /\ Chain /\ Queues /\ Roots /\ Certificates
      /\ mode = "run" /\ wait_rx # <<>> /\ wait_rx' = Tail(wait_rx)
  BY DEF PipelineInv, process_execution_response
<1>2. /\ 1 \in DOMAIN wait_rx /\ Head(wait_rx) = wait_rx[1] /\ wait_rx[1].gen \in Nat
      /\ wait_rx' \in Seq(Answers) /\ IsSuffix(wait_rx', wait_rx, 1)
      /\ \A l \in DOMAIN wait_rx : l <= 1 => l = 1
  BY <1>1, AnswerTaken
<1>3. ExecutedCursor(wait_rx[1]) # None /\ wait_rx[1].ok
  BY <1>2 DEF process_execution_response
<1>4. /\ UNCHANGED <<block_rx, schedule_rx, wait_tx, signing_rx, persisting_rx,
                     pending_commit_votes, highest_committed_round, latest_round, gen,
                     next_round, committed, finished, failed, aborted, latest_logical_time,
                     scenario, faults,
                     own_votes, acked, certified>>
  BY SMT DEF process_execution_response, rounds, node
<1>5. PICK resp \in {Head(wait_rx)}, k \in DOMAIN buffer :
        \E executed \in {advance_to_executed_or_aggregated(buffer[k], resp.gen)} :
        \E item \in {IF executed.stage # "aggregated" /\ DrainsOwn(resp.last)
                     THEN try_advance_to_aggregated_with_ledger_info(executed) ELSE executed} :
        \E buf \in {[buffer EXCEPT ![k] = item]} :
         /\ buffer[k].last = resp.last
         /\ pending_commit_proofs' = ProofsAfter(resp.last)
         /\ stale' = (stale \/ resp.gen # buffer[k].gen)
         /\ IF item.stage = "aggregated"
            THEN advance_head_and_roots(buf, resp.last)
            ELSE /\ buffer' = buf
                 /\ advance_execution_root(buf, execution_root)
                 /\ IF signing_root = None THEN advance_signing_root(buf, None)
                                           ELSE signing_root_as(signing_root)
                 /\ UNCHANGED <<persisting_tx, pending_commit_blocks, control>>
  BY DEF process_execution_response
<1>e. PICK executed \in {advance_to_executed_or_aggregated(buffer[k], resp.gen)} :
        \E item \in {IF executed.stage # "aggregated" /\ DrainsOwn(resp.last)
                     THEN try_advance_to_aggregated_with_ledger_info(executed) ELSE executed} :
        \E buf \in {[buffer EXCEPT ![k] = item]} :
         /\ buffer[k].last = resp.last
         /\ pending_commit_proofs' = ProofsAfter(resp.last)
         /\ stale' = (stale \/ resp.gen # buffer[k].gen)
         /\ IF item.stage = "aggregated"
            THEN advance_head_and_roots(buf, resp.last)
            ELSE /\ buffer' = buf
                 /\ advance_execution_root(buf, execution_root)
                 /\ IF signing_root = None THEN advance_signing_root(buf, None)
                                           ELSE signing_root_as(signing_root)
                 /\ UNCHANGED <<persisting_tx, pending_commit_blocks, control>>
  BY <1>5
<1>f. PICK item \in {IF executed.stage # "aggregated" /\ DrainsOwn(resp.last)
                     THEN try_advance_to_aggregated_with_ledger_info(executed) ELSE executed} :
        \E buf \in {[buffer EXCEPT ![k] = item]} :
         /\ buffer[k].last = resp.last
         /\ pending_commit_proofs' = ProofsAfter(resp.last)
         /\ stale' = (stale \/ resp.gen # buffer[k].gen)
         /\ IF item.stage = "aggregated"
            THEN advance_head_and_roots(buf, resp.last)
            ELSE /\ buffer' = buf
                 /\ advance_execution_root(buf, execution_root)
                 /\ IF signing_root = None THEN advance_signing_root(buf, None)
                                           ELSE signing_root_as(signing_root)
                 /\ UNCHANGED <<persisting_tx, pending_commit_blocks, control>>
  BY <1>e
<1>6. PICK buf \in {[buffer EXCEPT ![k] = item]} :
         /\ buffer[k].last = resp.last
         /\ pending_commit_proofs' = ProofsAfter(resp.last)
         /\ stale' = (stale \/ resp.gen # buffer[k].gen)
         /\ IF item.stage = "aggregated"
            THEN advance_head_and_roots(buf, resp.last)
            ELSE /\ buffer' = buf
                 /\ advance_execution_root(buf, execution_root)
                 /\ IF signing_root = None THEN advance_signing_root(buf, None)
                                           ELSE signing_root_as(signing_root)
                 /\ UNCHANGED <<persisting_tx, pending_commit_blocks, control>>
  BY <1>f
<1>7. /\ resp = wait_rx[1] /\ resp.gen \in Nat /\ buffer[k].last = resp.last
      /\ pending_commit_proofs' = ProofsAfter(resp.last)
      /\ stale' = (stale \/ resp.gen # buffer[k].gen)
      /\ buf = [buffer EXCEPT ![k] = item]
  BY <1>2, <1>6
<1>8. buffer[k] \in Item /\ buffer[k].votes \in Votes /\ buffer[k].stage # "aggregated"
  <2>1. buffer[k] \in Item
    BY <1>1, BufferSorted
  <2> QED BY <2>1, ItemFields, SMT
<1>9. /\ item.first = buffer[k].first /\ item.last = buffer[k].last /\ item.gen = resp.gen
      /\ \/ /\ item.stage = "executed" /\ item \in Item /\ item.proof = buffer[k].proof
            /\ \A a \in Validator : item.votes[a] = "good" <=> buffer[k].votes[a] = "good"
         \/ /\ item.stage = "aggregated"
            /\ \/ buffer[k].proof \/ Good(buffer[k].votes) \in Quorum
               \/ resp.last \in pending_commit_proofs
  <2>1. Advanced(executed, buffer[k], resp.gen)
    BY <1>7, <1>8, AdvancedItem
  <2>2. CASE executed.stage # "aggregated" /\ DrainsOwn(resp.last)
    <3>1. executed.stage # "ordered"
      BY <2>1, <2>2 DEF Advanced
    <3>2. item = [executed EXCEPT !.stage = "aggregated"]
      BY <2>2, <3>1 DEF try_advance_to_aggregated_with_ledger_info
    <3> QED BY <2>1, <2>2, <3>2 DEF DrainsOwn, Advanced
  <2>3. CASE ~ (executed.stage # "aggregated" /\ DrainsOwn(resp.last))
    <3>1. item = executed
      BY <2>3
    <3> QED BY <2>1, <3>1 DEF Advanced
  <2> QED BY <2>2, <2>3
<1>10. ASSUME ~ stale'
       PROVE  /\ ~ stale /\ item.gen = gen /\ buffer[k].stage = "ordered"
              /\ Done(item.last)'
              /\ \A i \in DOMAIN buffer : i < k => Executed(buffer[i])
  <2>1. ~ stale /\ resp.gen = buffer[k].gen
    BY <1>7, <1>10
  <2>2. buffer[k].gen = gen
    BY <2>1 DEF PipelineInv, Fresh, InOrder
  <2>3. Ours(wait_rx[1])
    BY <1>7, <2>1, <2>2 DEF Ours
  <2>4. buffer[k].stage = "ordered"
    BY <1>1, <1>3, <1>7, <2>3, AnswerFits
  <2>5. \A i \in DOMAIN buffer : i < k => Executed(buffer[i])
    BY <1>1, <1>3, <1>7, <2>3, AnswerInTurn
  <2>6. Done(item.last)'
    BY <1>1, <1>3, <1>4, <1>7, <1>9, <2>3, AnswerDone
  <2> QED BY <1>9, <2>1, <2>2, <2>4, <2>5, <2>6
<1>11. /\ stale' \in BOOLEAN /\ (stale => stale')
       /\ pending_commit_proofs' \subseteq certified'
       /\ acked \subseteq acked' /\ acked' \subseteq Validator \X Round
       /\ certified \subseteq certified' /\ certified' \subseteq Round
       /\ \A l \in DOMAIN wait_rx : l <= 1 => wait_rx[l].last = buffer[k].last
  <2>1. stale' \in BOOLEAN /\ (stale => stale')
    BY <1>1, <1>7, SMT DEF Types
  <2>2. pending_commit_proofs' \subseteq certified'
    BY <1>1, <1>4, <1>7 DEF Certificates, ProofsAfter
  <2>3. \A l \in DOMAIN wait_rx : l <= 1 => wait_rx[l].last = buffer[k].last
    BY <1>2, <1>7
  <2> QED BY <1>1, <1>4, <2>1, <2>2, <2>3 DEF Types
<1>12. 1 \in Nat
  BY SMT
<1>13. CASE item.stage = "aggregated"
  <2>1. advance_head_and_roots([buffer EXCEPT ![k] = item], item.last)
    BY <1>6, <1>7, <1>9, <1>13
  <2>2. item.gen \in Nat
    BY <1>7, <1>9
  <2>3. Taken(item, k)
    BY <1>1, <1>4, <1>9, <1>13, <2>1, <2>2, PopTaken
  <2>4. Decided(item.last)'
    <3>1. CASE Good(buffer[k].votes) \in Quorum
      <4>1. Good(buffer[k].votes) \subseteq Certifiers(item.last)'
        BY <1>1, <1>4, <1>9 DEF Good, Certifiers, Certificates
      <4>2. Certifiers(item.last)' \subseteq Validator
        BY DEF Certifiers
      <4> QED BY <3>1, <4>1, <4>2, QuorumAssumption DEF Decided
    <3>2. CASE buffer[k].proof
      BY <1>1, <1>4, <1>9, <3>2 DEF Certificates, Decided
    <3>3. CASE resp.last \in pending_commit_proofs
      BY <1>1, <1>4, <1>7, <1>9, <3>3 DEF Certificates, Decided
    <3>4. item.stage # "executed"
      BY <1>13, SMT
    <3> QED BY <1>9, <3>1, <3>2, <3>3, <3>4
  <2>5. AroundTaken(item, k, 1)
    BY <1>2, <1>4, <1>9, <1>10, <1>11, <2>4 DEF AroundTaken
  <2> QED BY <1>1, <1>12, <2>3, <2>5, TakenInv
<1>14. CASE item.stage = "executed"
  <2>1. /\ item \in Item /\ item.proof = buffer[k].proof
        /\ \A a \in Validator : item.votes[a] = "good" <=> buffer[k].votes[a] = "good"
    BY <1>9, <1>14
  <2>2. /\ buffer' = buf
        /\ advance_execution_root(buf, execution_root)
        /\ IF signing_root = None THEN advance_signing_root(buf, None)
                                  ELSE signing_root_as(signing_root)
        /\ UNCHANGED <<persisting_tx, pending_commit_blocks, mode, reset_signal>>
    BY <1>6, <1>14 DEF control
  <2>3. Changed(item, k)
    BY <1>9, <2>1, <2>2 DEF Changed
  <2>4. /\ buf \in Seq(Item) /\ DOMAIN buf = DOMAIN buffer
        /\ \A i \in DOMAIN buffer : buf[i] = IF i = k THEN item ELSE buffer[i]
    BY <1>1, <2>2, <2>3, ChangedItems
  <2>5. Distinct(buf)
    <3>1. \A i \in DOMAIN buffer : buf[i].last = buffer[i].last
      BY <2>4, <1>9
    <3>2. Distinct(buffer)
      BY <1>1, BufferSorted
    <3> QED BY <2>4, <3>1, <3>2, SMTT(30) DEF Distinct
  <2>6. FirstOf(buffer, execution_root, "ordered")
    BY <1>1 DEF Roots
  <2>7. execution_root' \in Round \cup {None} /\ FirstOf(buffer', execution_root', "ordered")
    <3>1. \A i \in DOMAIN buf : buf[i].last = buffer[i].last
                                 /\ (buffer[i].stage # "ordered" => buf[i].stage # "ordered")
      BY <2>4, <1>9, <1>14
    <3>2. Leads(buf, execution_root, "ordered")
      BY <2>4, <2>6, <3>1 DEF Leads, FirstOf
    <3>3. execution_root' = first_from(buf, execution_root, "ordered")
      BY <2>2 DEF advance_execution_root
    <3>4. FirstOf(buf, first_from(buf, execution_root, "ordered"), "ordered")
      BY <2>4, <2>5, <3>2, FirstFrom DEF Leads
    <3> QED BY <2>2, <2>4, <3>3, <3>4, FirstFromType
  <2>8. /\ signing_root' \in Round \cup {None} /\ signing_tx' \in Seq(Round)
        /\ (/\ signing_root # None => /\ FirstOf(buf, signing_root, "executed")
                                      /\ SigningAsked(signing_root)) => SigningOK'
    BY <1>1, <1>4, <2>2, <2>4, <2>5, SigningFilled
  <2>9. ASSUME ~ stale' PROVE SigningOK'
    <3>1. ASSUME signing_root # None
          PROVE  FirstOf(buf, signing_root, "executed") /\ SigningAsked(signing_root)
      <4>1. FirstOf(buffer, signing_root, "executed") /\ SigningAsked(signing_root)
        BY <1>1, <1>10, <2>9, <3>1 DEF Roots
      <4>2. PICK s \in DOMAIN buffer :
              /\ buffer[s].last = signing_root /\ buffer[s].stage = "executed"
              /\ \A j \in DOMAIN buffer : j < s => buffer[j].stage # "executed"
        BY <3>1, <4>1 DEF FirstOf
      <4>3. s # k /\ ~ (k < s)
        <5>1. s # k
          BY <4>2, <1>10, <2>9
        <5>2. Executed(buffer[s]) /\ ~ Executed(buffer[k])
          BY <4>2, <1>10, <2>9 DEF Executed
        <5>3. InOrder
          BY <1>10, <2>9 DEF PipelineInv, Fresh
        <5> QED BY <5>1, <5>2, <5>3 DEF InOrder
      <4>4. buf[s] = buffer[s] /\ \A j \in DOMAIN buf : j < s => buf[j] = buffer[j]
        BY <2>4, <4>3
      <4>5. FirstOf(buf, signing_root, "executed")
        <5>1. s \in DOMAIN buf /\ \A j \in DOMAIN buf : j < s => buf[j].stage # "executed"
          BY <2>4, <4>2, <4>4
        <5>2. buf[s].last = signing_root /\ buf[s].stage = "executed"
          BY <4>2, <4>4
        <5> QED BY <5>1, <5>2 DEF FirstOf
      <4> QED BY <4>1, <4>5
    <3> QED BY <2>8, <3>1
  <2>10. Roots'
    BY <2>7, <2>9 DEF Roots, SigningOK
  <2>11. AroundChanged(item, k, 1)
    <3>1. item.stage # "ordered"
      BY <1>14
    <3>2. \A a \in Validator : item.votes[a] = "good" => <<a, item.last>> \in acked'
      BY <1>1, <1>4, <1>9, <2>1 DEF Certificates
    <3>3. \A a \in Honest : buffer[k].votes[a] = "good" => item.votes[a] = "good"
      BY <2>1 DEF Honest
    <3>4. item.proof => item.last \in certified'
      BY <1>1, <1>4, <1>9, <2>1 DEF Certificates
    <3>5. own_votes' \subseteq Round /\ signing_rx' \in Seq([round : Round, ok : BOOLEAN])
      BY <1>1, <1>4 DEF Types
    <3>6. Executed(item)
      BY <3>1 DEF Executed
    <3>7. \A x \in acked' : x \in acked
      BY <1>4
    <3> QED BY <1>2, <1>4, <1>10, <1>11, <2>2, <2>7, <2>8, <3>1, <3>2, <3>3, <3>4, <3>5,
              <3>6, <3>7 DEF AroundChanged
  <2> QED BY <1>1, <1>12, <2>3, <2>10, <2>11, ChangedInv
<1> QED BY <1>9, <1>13, <1>14

(* process_commit_message with a vote for an item of the buffer.           *)
LEMMA CommitVote ==
  ASSUME NumbersOrdered, PipelineInv, NEW v \in Vote, process_commit_vote(v)
  PROVE  PipelineInv'
<1>1. Types /\ Chain /\ Queues /\ Roots /\ Certificates /\ mode = "run"
  BY DEF PipelineInv, process_commit_vote
<1>2. /\ UNCHANGED <<block_rx, schedule_rx, wait_tx, wait_rx, signing_rx, persisting_rx,
                     pending_commit_votes, pending_commit_proofs,
                     highest_committed_round, latest_round, gen, next_round, committed,
                     finished, failed, aborted, latest_logical_time,
                     scenario, faults, own_votes, certified, stale>>
  BY SMT DEF process_commit_vote, rounds, node
<1>3. PICK k \in {j \in DOMAIN buffer : buffer[j].last = v.round} :
        \E item \in {IF signature_matches(buffer[k], v.kind)
                     THEN try_advance_to_aggregated([buffer[k] EXCEPT !.votes[v.author] = v.kind])
                     ELSE buffer[k]} :
        \E buf \in {[buffer EXCEPT ![k] = item]} :
         /\ IF signature_matches(buffer[k], v.kind) THEN Acked(v) ELSE UNCHANGED acked
         /\ IF item.stage = "aggregated"
            THEN advance_head_and_roots(buf, v.round)
            ELSE /\ buffer' = buf
                 /\ UNCHANGED <<roots, signing_tx, persisting_tx,
                                pending_commit_blocks, control>>
  BY DEF process_commit_vote
<1>4. PICK item \in {IF signature_matches(buffer[k], v.kind)
                     THEN try_advance_to_aggregated([buffer[k] EXCEPT !.votes[v.author] = v.kind])
                     ELSE buffer[k]} :
        \E buf \in {[buffer EXCEPT ![k] = item]} :
         /\ IF signature_matches(buffer[k], v.kind) THEN Acked(v) ELSE UNCHANGED acked
         /\ IF item.stage = "aggregated"
            THEN advance_head_and_roots(buf, v.round)
            ELSE /\ buffer' = buf
                 /\ UNCHANGED <<roots, signing_tx, persisting_tx,
                                pending_commit_blocks, control>>
  BY <1>3
<1>5. /\ IF signature_matches(buffer[k], v.kind) THEN Acked(v) ELSE UNCHANGED acked
      /\ IF item.stage = "aggregated"
         THEN advance_head_and_roots([buffer EXCEPT ![k] = item], v.round)
         ELSE /\ buffer' = [buffer EXCEPT ![k] = item]
              /\ UNCHANGED <<roots, signing_tx, persisting_tx, pending_commit_blocks, control>>
  BY <1>4
<1>6. k \in DOMAIN buffer /\ buffer[k].last = v.round /\ buffer[k] \in Item
  BY <1>1, <1>3, BufferSorted
<1>7. buffer[k].stage # "aggregated" /\ buffer[k].gen \in Nat
  BY <1>6, ItemFields
<1>8. /\ v.author \in Validator /\ v.round \in Round /\ v.kind \in Kind
      /\ v.author \in Honest => v.kind = "good"
  BY VoteFacts
<1>9. ASSUME item.stage # "aggregated"
      PROVE  /\ buffer' = [buffer EXCEPT ![k] = item]
             /\ UNCHANGED <<execution_root, signing_root, signing_tx, persisting_tx,
                            pending_commit_blocks, mode, reset_signal>>
  BY <1>5, <1>9 DEF roots, control
<1>10. CASE ~ signature_matches(buffer[k], v.kind)
  <2>1. item = buffer[k] /\ acked' = acked
    BY <1>4, <1>5, <1>10
  <2>2. buffer' = buffer
    <3>1. buffer' = [buffer EXCEPT ![k] = buffer[k]]
      BY <1>7, <1>9, <2>1
    <3>2. buffer \in Seq(Item)
      BY <1>1 DEF Types
    <3> QED BY <1>6, <3>1, <3>2, SMTT(30)
  <2>3. UNCHANGED vars
    BY <1>2, <1>7, <1>9, <2>1, <2>2 DEF vars, roots, channels, pending, rounds, control, node, history
  <2> QED BY <2>3, Stuttering
<1>11. CASE signature_matches(buffer[k], v.kind)
  <2>1. Voted(item, buffer[k], v.author, v.kind)
    BY <1>4, <1>6, <1>8, <1>11, VotedItem
  <2>2. /\ acked \subseteq acked' /\ acked' \subseteq Validator \X Round
        /\ \A x \in acked' : \/ x \in acked
                             \/ x[2] = buffer[k].last /\ x[1] = v.author /\ v.kind = "good"
        /\ v.kind = "good" => <<v.author, buffer[k].last>> \in acked'
    <3>1. acked' = IF v.kind = "good" THEN acked \cup {<<v.author, v.round>>} ELSE acked
      BY <1>5, <1>11 DEF Acked
    <3>2. acked \subseteq Validator \X Round
      BY <1>1 DEF Types
    <3>3. <<v.author, v.round>> \in Validator \X Round
      BY <1>8, SMT
    <3>4. <<v.author, v.round>>[1] = v.author /\ <<v.author, v.round>>[2] = v.round
      BY SMT
    <3>5. CASE v.kind = "good"
      BY <1>6, <3>1, <3>2, <3>3, <3>4, <3>5
    <3>6. CASE v.kind # "good"
      BY <3>1, <3>2, <3>6
    <3> QED BY <3>5, <3>6
  <2>3. /\ item.first = buffer[k].first /\ item.last = buffer[k].last
        /\ item.gen = buffer[k].gen /\ item.proof = buffer[k].proof
        /\ \A b \in Validator :
             item.votes[b] = "good" <=> IF b = v.author THEN v.kind = "good"
                                        ELSE buffer[k].votes[b] = "good"
        /\ \/ item.stage = buffer[k].stage /\ item \in Item
           \/ item.stage = "aggregated" /\ Executed(buffer[k]) /\ Good(item.votes) \in Quorum
    BY <2>1 DEF Voted, Executed
  <2>4. \A a \in Validator : item.votes[a] = "good" => <<a, item.last>> \in acked'
    BY <1>1, <1>6, <2>2, <2>3 DEF Certificates
  <2>5. /\ wait_rx' \in Seq(Answers) /\ IsSuffix(wait_rx', wait_rx, 0) /\ 0 \in Nat
        /\ \A l \in DOMAIN wait_rx : ~ (l <= 0)
    BY <1>1, <1>2, NothingAnswered
  <2>6. /\ stale' \in BOOLEAN /\ certified' \subseteq Round /\ certified \subseteq certified'
        /\ pending_commit_proofs' \subseteq certified' /\ (stale => stale')
    BY <1>1, <1>2 DEF Types, Certificates
  <2>7. ASSUME ~ stale'
        PROVE  /\ item.gen = gen
               /\ Executed(buffer[k]) => /\ Done(item.last)'
                                         /\ \A i \in DOMAIN buffer : i < k => Executed(buffer[i])
    <3>1. InOrder
      BY <1>2, <2>7 DEF PipelineInv, Fresh
    <3> QED BY <1>1, <1>2, <1>6, <2>3, <3>1, StaysDone DEF InOrder
  <2>8. CASE item.stage = "aggregated"
    <3>1. advance_head_and_roots([buffer EXCEPT ![k] = item], item.last) /\ item.gen \in Nat
      BY <1>5, <1>6, <1>7, <2>3, <2>8
    <3>2. Taken(item, k)
      BY <1>1, <1>2, <1>6, <2>3, <2>8, <3>1, PopTaken
    <3>3. Executed(buffer[k]) /\ Good(item.votes) \in Quorum
      BY <1>7, <2>3, <2>8
    <3>4. Decided(item.last)'
      <4>1. Good(item.votes) \subseteq Certifiers(item.last)'
        BY <2>4 DEF Good, Certifiers
      <4>2. Certifiers(item.last)' \subseteq Validator
        BY DEF Certifiers
      <4> QED BY <3>3, <4>1, <4>2, QuorumAssumption DEF Decided
    <3>5. AroundTaken(item, k, 0)
      BY <1>2, <2>2, <2>3, <2>5, <2>6, <2>7, <3>3, <3>4 DEF AroundTaken
    <3> QED BY <1>1, <1>6, <2>5, <3>2, <3>5, TakenInv
  <2>9. CASE item.stage # "aggregated"
    <3>1. item.stage = buffer[k].stage /\ item \in Item
      BY <2>3, <2>9
    <3>2. Changed(item, k)
      BY <1>9, <2>3, <2>9, <3>1 DEF Changed
    <3>3. Roots'
      BY <1>1, <1>2, <1>6, <1>9, <2>9, <3>1, <3>2, RootsStages
    <3>4. AroundChanged(item, k, 0)
      <4>1. /\ execution_root' \in Round \cup {None} /\ signing_root' \in Round \cup {None}
            /\ signing_tx' \in Seq(Round) /\ signing_rx' \in Seq([round : Round, ok : BOOLEAN])
            /\ own_votes' \subseteq Round
        BY <1>1, <1>2, <1>9, <2>9 DEF Types
      <4>2. \A x \in acked' : x \in acked \/ (x[2] = buffer[k].last /\ item.votes[x[1]] = "good")
        BY <1>8, <2>2, <2>3
      <4>3. \A a \in Honest : buffer[k].votes[a] = "good" => item.votes[a] = "good"
        BY <1>8, <2>3 DEF Honest
      <4>4. item.proof => item.last \in certified'
        BY <1>1, <1>2, <1>6, <2>3 DEF Certificates
      <4>5. Executed(item) <=> Executed(buffer[k])
        BY <3>1 DEF Executed
      <4> QED BY <1>2, <1>9, <2>2, <2>3, <2>4, <2>5, <2>6, <2>7, <2>9, <3>1, <4>1, <4>2,
                <4>3, <4>4, <4>5 DEF AroundChanged
    <3> QED BY <1>1, <1>6, <2>5, <3>2, <3>3, <3>4, ChangedInv
  <2> QED BY <2>8, <2>9
<1> QED BY <1>10, <1>11

(* process_commit_decision: the proof goes to the item, or waits for it.   *)
LEMMA CommitDecision ==
  ASSUME NumbersOrdered, PipelineInv, NEW r \in Decision, process_commit_decision(r)
  PROVE  PipelineInv'
<1>1. /\ Types /\ Chain /\ InLine /\ Spans /\ Awaited /\ Truthful /\ Roots /\ Certificates
      /\ mode = "run" /\ certified' = certified \cup {r} /\ Queues
  BY DEF PipelineInv, Queues, process_commit_decision
<1>2. /\ UNCHANGED <<block_rx, schedule_rx, wait_tx, wait_rx, signing_rx, persisting_rx,
                     pending_commit_votes, highest_committed_round, latest_round, gen,
                     next_round, committed, finished, failed, aborted, latest_logical_time,
                     scenario, faults,
                     own_votes, acked, stale>>
  BY SMT DEF process_commit_decision, rounds, node
<1>3. /\ certified \subseteq certified' /\ certified' \subseteq Round /\ r \in certified'
      /\ r \in Round
  <2>1. r \in Round
    BY QuorumAssumption DEF Round
  <2>2. certified \subseteq Round
    BY <1>1 DEF Types
  <2> QED BY <1>1, <2>1, <2>2
<1>4. CASE r \in Ids(buffer)
  <2>1. PICK k \in DOMAIN buffer : buffer[k].last = r
    BY <1>4 DEF Ids
  <2>2. IndexOf(buffer, r) = k /\ buffer[k] \in Item
    BY <1>1, <2>1, BufferSorted, IndexOfLast
  <2>3. PICK item : item = try_advance_to_aggregated_with_ledger_info(buffer[k])
    OBVIOUS
  <2>4. Proved(item, buffer[k])
    BY <2>2, <2>3, ProvedItem
  <2>5. PICK buf : buf = [buffer EXCEPT ![k] = item]
    OBVIOUS
  <2>6. buf[k] = item
    <3>1. buffer \in Seq(Item)
      BY <1>1 DEF Types
    <3> QED BY <2>5, <3>1
  <2>7. /\ IF buf[k].stage = "aggregated"
           THEN advance_head_and_roots(buf, r)
           ELSE /\ buffer' = buf
                /\ UNCHANGED <<roots, signing_tx, persisting_tx, pending_commit_blocks, control>>
        /\ pending_commit_proofs' = pending_commit_proofs
    <3>1. PICK i \in {IndexOf(buffer, r)} :
            \E b \in {[buffer EXCEPT ![i] = try_advance_to_aggregated_with_ledger_info(@)]} :
              /\ IF b[i].stage = "aggregated"
                 THEN advance_head_and_roots(b, r)
                 ELSE /\ buffer' = b
                      /\ UNCHANGED <<roots, signing_tx, persisting_tx,
                                     pending_commit_blocks, control>>
              /\ UNCHANGED pending_commit_proofs
      BY <1>4 DEF process_commit_decision
    <3>2. i = k /\ [buffer EXCEPT ![i] = try_advance_to_aggregated_with_ledger_info(@)] = buf
      BY <2>2, <2>3, <2>5, <3>1
    <3> QED BY <3>1, <3>2
  <2>8. /\ item.first = buffer[k].first /\ item.last = buffer[k].last
        /\ item.gen = buffer[k].gen /\ item.votes = buffer[k].votes
        /\ item.gen \in Nat
    BY <2>2, <2>4, ItemFields DEF Proved
  <2>9. /\ wait_rx' \in Seq(Answers) /\ IsSuffix(wait_rx', wait_rx, 0) /\ 0 \in Nat
        /\ \A l \in DOMAIN wait_rx : ~ (l <= 0)
    BY <1>1, <1>2, NothingAnswered
  <2>10. /\ stale' \in BOOLEAN /\ (stale => stale')
         /\ pending_commit_proofs' \subseteq certified'
         /\ acked \subseteq acked' /\ acked' \subseteq Validator \X Round
         /\ \A x \in acked' : x \in acked
    BY <1>1, <1>2, <1>3, <2>7 DEF Types, Certificates
  <2>11. ASSUME ~ stale'
         PROVE  /\ item.gen = gen
                /\ Executed(buffer[k]) => /\ Done(item.last)'
                                          /\ \A i \in DOMAIN buffer : i < k => Executed(buffer[i])
    <3>1. InOrder
      BY <1>2, <2>11 DEF PipelineInv, Fresh
    <3> QED BY <1>1, <1>2, <2>8, <3>1, StaysDone DEF InOrder
  <2>12. CASE Executed(buffer[k])
    <3>1. item.stage = "aggregated"
      BY <2>4, <2>12 DEF Proved, Executed
    <3>2. advance_head_and_roots([buffer EXCEPT ![k] = item], item.last)
      BY <2>1, <2>5, <2>6, <2>7, <2>8, <3>1
    <3>3. Taken(item, k)
      BY <1>1, <1>2, <2>8, <3>1, <3>2, PopTaken
    <3>4. Decided(item.last)'
      BY <1>3, <2>1, <2>8 DEF Decided
    <3>5. AroundTaken(item, k, 0)
      BY <1>2, <1>3, <2>8, <2>9, <2>10, <2>11, <2>12, <3>4 DEF AroundTaken
    <3> QED BY <1>1, <2>9, <3>3, <3>5, TakenInv
  <2>13. CASE ~ Executed(buffer[k])
    <3>1. item.stage = "ordered" /\ buffer[k].stage = "ordered" /\ item \in Item
      BY <2>4, <2>13 DEF Proved, Executed
    <3>2. item.stage # "aggregated"
      BY <3>1, SMT
    <3>3. /\ buffer' = [buffer EXCEPT ![k] = item]
          /\ UNCHANGED <<execution_root, signing_root, signing_tx, persisting_tx,
                         pending_commit_blocks, mode, reset_signal>>
      BY <2>5, <2>6, <2>7, <3>2 DEF roots, control
    <3>4. Changed(item, k)
      BY <2>8, <3>1, <3>3 DEF Changed
    <3>5. Roots'
      BY <1>1, <1>2, <3>1, <3>3, <3>4, RootsStages
    <3>6. AroundChanged(item, k, 0)
      <4>1. /\ execution_root' \in Round \cup {None} /\ signing_root' \in Round \cup {None}
            /\ signing_tx' \in Seq(Round) /\ signing_rx' \in Seq([round : Round, ok : BOOLEAN])
            /\ own_votes' \subseteq Round
        BY <1>1, <1>2, <3>3 DEF Types
      <4>2. \A a \in Validator : item.votes[a] = "good" => <<a, item.last>> \in acked'
        BY <1>1, <1>2, <2>8 DEF Certificates
      <4>3. item.last \in certified'
        BY <1>3, <2>1, <2>8
      <4>4. ~ Executed(item)
        BY <3>1 DEF Executed
      <4> QED BY <1>2, <1>3, <2>8, <2>9, <2>10, <2>11, <2>13, <3>1, <3>3, <4>1, <4>2, <4>3,
                <4>4 DEF AroundChanged
    <3> QED BY <1>1, <2>9, <3>4, <3>5, <3>6, ChangedInv
  <2> QED BY <2>12, <2>13
<1>5. CASE r \notin Ids(buffer)
  <2>1. /\ pending_commit_proofs' =
             IF highest_committed_round < r /\ Cardinality(pending_commit_proofs) < MaxProofs
             THEN pending_commit_proofs \cup {r} ELSE pending_commit_proofs
        /\ UNCHANGED <<buffer, roots, signing_tx, persisting_tx, pending_commit_blocks, control>>
    BY <1>5 DEF process_commit_decision
  <2>2. pending_commit_proofs' \subseteq pending_commit_proofs \cup {r}
    BY <2>1
  <2>3. /\ UNCHANGED <<buffer, execution_root, signing_root, signing_tx, persisting_tx,
                       pending_commit_blocks, mode, reset_signal>>
    BY <2>1, SMT DEF roots, control
  <2>4. Types'
    <3>1. pending_commit_proofs' \subseteq Round
      BY <1>1, <1>3, <2>2 DEF Types
    <3> QED BY <1>1, <1>2, <1>3, <2>3, <3>1 DEF Types
  <2>5. Chain' /\ InLine' /\ Spans' /\ Awaited' /\ Truthful' /\ Roots'
    BY <1>1, <1>2, <2>3, ChainSame, InLineSame, SpansSame, AwaitedSame, TruthfulSame,
       RootsSame
  <2>6. Certificates'
    <3>1. ASSUME NEW k \in DOMAIN persisting_tx PROVE Decided(persisting_tx[k].target)'
      <4>1. PICK t : t = persisting_tx[k].target
        OBVIOUS
      <4>2. Decided(t)'
        BY <1>1, <1>2, <1>3, <4>1, DecidedKept DEF Certificates
      <4> QED BY <2>3, <4>1, <4>2
    <3>2. pending_commit_proofs' \subseteq certified'
      BY <1>1, <1>3, <2>2 DEF Certificates
    <3>3. \A k \in DOMAIN persisting_tx' : Decided(persisting_tx[k].target)'
      BY <2>3, <3>1
    <3> QED BY <1>1, <1>2, <1>3, <2>3, <3>2, <3>3 DEF Certificates
  <2>7. ASSUME ~ stale'
        PROVE  InOrder' /\ Persisting' /\ Committed' /\ Pressure' /\ VotesKept'
    <3>1. InOrder /\ Persisting /\ Committed /\ Pressure /\ VotesKept
      BY <1>2, <2>7 DEF PipelineInv, Fresh
    <3>2. InOrder' /\ Persisting' /\ Committed'
      BY <1>2, <2>3, <3>1, InOrderSame, PersistingSame, CommittedSame
    <3>3. Pressure' /\ VotesKept'
      BY <1>2, <2>3, <3>1, PressureSame, VotesKeptSame
    <3> QED BY <3>2, <3>3
  <2> QED BY <2>4, <2>5, <2>6, <2>7 DEF PipelineInv, Queues, Fresh
<1> QED BY <1>4, <1>5

-----------------------------------------------------------------------------
(* Every step keeps the invariant.                                         *)

(* Every branch of the main loop and every phase keeps it.                 *)
LEMMA NextInv ==
  ASSUME NumbersOrdered, PipelineInv, [Next]_vars
  PROVE  PipelineInv'
<1>1. CASE process_ordered_blocks
  BY <1>1, OrderedBlocks
<1>2. CASE process_execution_schedule_response
  BY <1>2, ScheduleResponse
<1>3. CASE ignore_execution_response
  BY <1>3, IgnoredResponse
<1>4. CASE process_execution_response
  BY <1>4, ExecutionResponse
<1>5. CASE process_signing_response
  BY <1>5, SigningResponse
<1>6. CASE process_persisting_response
  BY <1>6, PersistingResponse
<1>7. CASE \E v \in Vote : process_commit_vote(v)
  BY <1>7, CommitVote
<1>8. CASE \E v \in Vote : try_add_pending_commit_vote(v)
  BY <1>8, PendingVote
<1>9. CASE \E r \in Decision : process_commit_decision(r)
  BY <1>9, CommitDecision
<1>10. CASE \E r \in Round : process_reset_request(r)
  BY <1>10, ResetRequest
<1>11. CASE process_stop_request
  BY <1>11, StopRequest
<1>12. CASE reset_buffer
  BY <1>12, ResetBuffer
<1>13. CASE reset_ack
  BY <1>13, ResetAck
<1>14. CASE \E ok \in BOOLEAN : execution_wait_phase(ok)
  BY <1>14, ExecutionWaitPhase
<1>15. CASE \E r \in Round : execution_fails(r)
  BY <1>15, ExecutionFails
<1>16. CASE \E ok \in BOOLEAN : signing_phase(ok)
  BY <1>16, SigningPhase
<1>17. CASE persisting_phase
  BY <1>17, PersistingPhase
<1>18. CASE \E k \in 1..MaxBatch : finalize_order(k)
  BY <1>18, FinalizeOrder
<1>19. CASE UNCHANGED vars
  BY <1>19, Stuttering
<1> QED BY <1>1, <1>2, <1>3, <1>4, <1>5, <1>6, <1>7, <1>8, <1>9, <1>10, <1>11, <1>12,
          <1>13, <1>14, <1>15, <1>16, <1>17, <1>18, <1>19 DEF Next

(* The only steps that move the ledger.                                    *)
LEMMA LedgerSteps ==
  ASSUME [Next]_vars, committed' # committed
  PROVE  persisting_phase \/ reset_ack
<1> USE DEF node, vars
<1>1. CASE process_ordered_blocks
  BY <1>1 DEF process_ordered_blocks
<1>2. CASE process_execution_schedule_response
  BY <1>2 DEF process_execution_schedule_response
<1>3. CASE ignore_execution_response
  BY <1>3 DEF ignore_execution_response
<1>4. CASE process_execution_response
  BY <1>4 DEF process_execution_response
<1>5. CASE process_signing_response
  BY <1>5 DEF process_signing_response
<1>6. CASE process_persisting_response
  BY <1>6 DEF process_persisting_response
<1>7. CASE \E v \in Vote : process_commit_vote(v)
  BY <1>7 DEF process_commit_vote
<1>8. CASE \E v \in Vote : try_add_pending_commit_vote(v)
  BY <1>8 DEF try_add_pending_commit_vote
<1>9. CASE \E r \in Decision : process_commit_decision(r)
  BY <1>9 DEF process_commit_decision
<1>10. CASE \E r \in Round : process_reset_request(r)
  BY <1>10 DEF process_reset_request
<1>11. CASE process_stop_request
  BY <1>11 DEF process_stop_request
<1>12. CASE reset_buffer
  BY <1>12 DEF reset_buffer
<1>13. CASE \E ok \in BOOLEAN : execution_wait_phase(ok)
  BY <1>13 DEF execution_wait_phase
<1>14. CASE \E r \in Round : execution_fails(r)
  BY <1>14 DEF execution_fails
<1>15. CASE \E ok \in BOOLEAN : signing_phase(ok)
  BY <1>15 DEF signing_phase
<1>16. CASE \E k \in 1..MaxBatch : finalize_order(k)
  BY <1>16 DEF finalize_order
<1>17. CASE UNCHANGED vars
  BY <1>17
<1> QED BY <1>1, <1>2, <1>3, <1>4, <1>5, <1>6, <1>7, <1>8, <1>9, <1>10, <1>11, <1>12,
          <1>13, <1>14, <1>15, <1>16, <1>17 DEF Next

-----------------------------------------------------------------------------
(* The invariant.                                                          *)

INSTANCE WellFoundedInduction

(* Some numbers have a least one.                                          *)
LEMMA Least == NumbersOrdered
<1> SUFFICES ASSUME NEW T \in SUBSET Nat, T # {}
             PROVE  \E x \in T : \A y \in T : x <= y
  BY DEF NumbersOrdered
<1> DEFINE Less == OpToRel(<, Nat)
<1>1. IsWellFoundedOn(Less, Nat)
  BY NatLessThanWellFounded
<1>2. PICK x \in T : \A y \in T : ~ (<<y, x>> \in Less)
  <2> HIDE DEF Less
  <2> QED BY <1>1, WFMin
<1>3. \A y \in T : ~ (y < x)
  BY <1>2 DEF OpToRel
<1> QED BY <1>3, SMT

(* The inductive invariant of the pipeline: the order of the chain through  *)
(* the queues, the roots, the certificates and, as long as no answer of an  *)
(* earlier tree was taken for one of this tree and no state sync failed,    *)
(* what is done and kept.                                                  *)
THEOREM PipelineInvariant == Spec => []PipelineInv
<1>1. Init => PipelineInv
  BY InitInv
<1>2. PipelineInv /\ [Next]_vars => PipelineInv'
  BY Least, NextInv
<1> QED BY <1>1, <1>2, PTL DEF Spec

-----------------------------------------------------------------------------
(* What it says about the pipeline.                                        *)

(* The state is well formed; no aggregated item stays in the buffer         *)
(* ("any aggregated buffer item should get dequeued right away").           *)
THEOREM PipelineTypes == Spec => []TypeOK
<1>1. PipelineInv => TypeOK
  <2> SUFFICES ASSUME PipelineInv PROVE TypeOK
    BY SMT
  <2>1. Types
    BY DEF PipelineInv
  <2>2. buffer \in Seq(Item)
    BY <2>1 DEF Types
  <2>3. \A i \in DOMAIN buffer : buffer[i] \in Item
    BY <2>2, SMTT(30)
  <2> QED BY <2>1, <2>3 DEF Types, TypeOK, Votes
<1> QED BY <1>1, PipelineInvariant, PTL

(* There is one first item of a stage.                                     *)
LEMMA FirstUnique ==
  ASSUME NEW buf, Distinct(buf), NEW stage, NEW r, NEW q,
         FirstOf(buf, r, stage), FirstOf(buf, q, stage)
  PROVE  r = q
BY SMT DEF FirstOf, Distinct

(* "the roots point to the first *unprocessed* item": advance_execution_root *)
(* and advance_signing_root leave both at the first item of their stage,    *)
(* with the signing of it requested, as long as no answer of an earlier    *)
(* tree was taken for one of this tree and no state sync failed.           *)
THEOREM RootsAtFirst == Spec => []RootsFirstUnprocessed
<1>1. PipelineInv => RootsFirstUnprocessed
  <2> SUFFICES ASSUME PipelineInv, mode = "run", ~ stale
               PROVE  /\ execution_root = first_from(buffer, None, "ordered")
                      /\ signing_root = first_from(buffer, None, "executed")
                      /\ signing_root # None => SigningAsked(signing_root)
    BY DEF RootsFirstUnprocessed, SigningAsked
  <2>1. /\ FirstOf(buffer, execution_root, "ordered")
        /\ FirstOf(buffer, signing_root, "executed")
        /\ signing_root # None => SigningAsked(signing_root)
    BY DEF PipelineInv, Roots
  <2>2. Distinct(buffer) /\ buffer \in Seq(Item)
    BY BufferSorted DEF PipelineInv, Types
  <2>3. /\ FirstOf(buffer, first_from(buffer, None, "ordered"), "ordered")
        /\ FirstOf(buffer, first_from(buffer, None, "executed"), "executed")
    BY <2>2, Least, FirstFrom
  <2> QED BY <2>1, <2>2, <2>3, FirstUnique
<1> QED BY <1>1, PipelineInvariant, PTL

(* process_commit_message acknowledges a commit vote, and it is then not    *)
(* sent again: it is kept until its block goes to the persisting phase,     *)
(* with the same exceptions.                                               *)
THEOREM AckedVotesKept == Spec => []AckedVoteKept
<1>1. PipelineInv => AckedVoteKept
  BY DEF PipelineInv, Fresh, VotesKept, AckedVoteKept
<1> QED BY <1>1, PipelineInvariant, PTL

(* advance_head hands over only blocks that were executed, all of the       *)
(* present tree, whatever the stage of the items before the aggregated one, *)
(* with the same exceptions.                                               *)
THEOREM HandsOverExecuted == Spec => []PersistsExecuted
<1>1. PipelineInv => PersistsExecuted
  BY DEF PipelineInv, Fresh, Persisting, PersistsExecuted
<1> QED BY <1>1, PipelineInvariant, PTL

(* advance_to_executed_or_aggregated never panics on an answer of the       *)
(* present tree: the item is ordered and holds the blocks of the answer.    *)
THEOREM AnswersFit == Spec => []AnswerFitsItem
<1>1. PipelineInv => AnswerFitsItem
  <2> SUFFICES ASSUME PipelineInv, mode = "run", wait_rx # <<>>, Head(wait_rx).gen = gen,
                      Head(wait_rx).ok, ExecutedCursor(Head(wait_rx)) # None
               PROVE  /\ buffer[IndexOf(buffer, Head(wait_rx).last)].stage = "ordered"
                      /\ buffer[IndexOf(buffer, Head(wait_rx).last)].first = Head(wait_rx).first
    BY DEF AnswerFitsItem
  <2>1. Types /\ Chain /\ Queues /\ Roots
    BY DEF PipelineInv
  <2>2. Head(wait_rx) = wait_rx[1]
    <3>1. wait_rx \in Seq(Answers)
      BY <2>1 DEF Types
    <3> QED BY <3>1, SMTT(30)
  <2>3. PICK k \in DOMAIN buffer : buffer[k].last = Head(wait_rx).last
    BY DEF ExecutedCursor, find_elem_by_key, Ids
  <2>4. IndexOf(buffer, Head(wait_rx).last) = k
    BY <2>1, <2>3, BufferSorted, IndexOfLast
  <2>5. Ours(wait_rx[1])
    BY <2>2 DEF Ours
  <2>6. buffer[k].stage = "ordered" /\ buffer[k].first = wait_rx[1].first
    BY <2>1, <2>2, <2>3, <2>5, AnswerFits
  <2> QED BY <2>2, <2>4, <2>6
<1> QED BY <1>1, PipelineInvariant, PTL

(* need_back_pressure never stops the intake for good: something is left    *)
(* whose commit raises highest_committed_round, with the same exceptions.  *)
THEOREM IntakeNeverStuck == Spec => []IntakeReopens
<1>1. PipelineInv => IntakeReopens
  <2> SUFFICES ASSUME PipelineInv, mode = "run", need_back_pressure, ~ EpochOver, ~ stale,
                      buffer = <<>>, persisting_tx = <<>>, persisting_rx = <<>>
               PROVE  FALSE
    BY DEF IntakeReopens
  <2>1. Types /\ Pressure
    BY DEF PipelineInv, Fresh
  <2>2. latest_round <= highest_committed_round
    <3>1. DOMAIN buffer = {} /\ DOMAIN persisting_tx = {} /\ DOMAIN persisting_rx = {}
      BY SMT
    <3> QED BY <2>1, <3>1 DEF Pressure
  <2>3. /\ highest_committed_round + MaxBacklog < latest_round
        /\ highest_committed_round \in Nat /\ latest_round \in Nat
    BY <2>1, NumberTypes DEF need_back_pressure
  <2> QED BY <2>2, <2>3, BoundAssumption, SMTT(30)
<1> QED BY <1>1, PipelineInvariant, PTL

(* commit_ledger only moves the ledger forward, to a block that a quorum of *)
(* valid votes acknowledged here certifies, or a proof from outside.        *)
THEOREM CommitsAreCertified == Spec => CommitsCertified
<1>1. PipelineInv /\ [Next]_vars =>
        (committed' # committed =>
           /\ committed' > committed
           /\ \/ committed' \in certified
              \/ {a \in Validator : <<a, committed'>> \in acked} \in Quorum)
  <2> SUFFICES ASSUME PipelineInv, [Next]_vars, committed' # committed
               PROVE  /\ committed' > committed
                      /\ \/ committed' \in certified
                         \/ {a \in Validator : <<a, committed'>> \in acked} \in Quorum
    BY SMT
  <2>1. Types /\ Certificates /\ committed \in Nat
    BY NumberTypes DEF PipelineInv
  <2>2. ASSUME NEW c, committed' = c, committed < c, c \in Nat, Decided(c)
        PROVE  /\ committed' > committed
               /\ \/ committed' \in certified
                  \/ {a \in Validator : <<a, committed'>> \in acked} \in Quorum
    <3>1. c > committed
      BY <2>1, <2>2
    <3>2. c \in certified \/ {a \in Validator : <<a, c>> \in acked} \in Quorum
      BY <2>2 DEF Decided, Certifiers
    <3> QED BY <2>2, <3>1, <3>2
  <2>3. CASE persisting_phase
    <3>1. committed' = persisting_tx[1].target /\ committed < committed'
      BY <2>1, <2>3, Least, PersistingWrites
    <3>2. persisting_tx # <<>> /\ persisting_tx' = Tail(persisting_tx)
      BY <2>3 DEF persisting_phase
    <3>3. 1 \in DOMAIN persisting_tx
      BY <2>1, <3>2, RequestTaken
    <3>4. persisting_tx[1].target \in Nat /\ Decided(persisting_tx[1].target)
      BY <2>1, <3>3, RequestTypes DEF Certificates
    <3> QED BY <2>2, <3>1, <3>4
  <2>4. CASE reset_ack
    <3>1. reset_signal > 0 /\ sync_to_target
      BY <2>4, SMT DEF reset_ack, sync_fails
    <3>2. committed' = reset_signal /\ committed < committed'
      BY <2>1, <3>1, SyncedTo
    <3>3. reset_signal \in Nat
      BY <2>1, <3>1, NumberTypes, SMTT(30)
    <3>4. Decided(reset_signal)
      BY <2>1, <3>1 DEF Certificates, Decided
    <3> QED BY <2>2, <3>2, <3>3, <3>4
  <2> QED BY <2>3, <2>4, LedgerSteps
<1> QED BY <1>1, PipelineInvariant, PTL DEF Spec, CommitsCertified

=============================================================================
