----------------------------- MODULE BlockStore -----------------------------
(***************************************************************************)
(* The block storage of one validator within an epoch: the BlockTree in    *)
(* memory, the ConsensusDB beside it, the ledger the execution pipeline    *)
(* commits to, and the recovery that rebuilds the first from the others.   *)
(*                                                                         *)
(* Three tasks touch this state.  The RoundManager handles one message at  *)
(* a time, but waits inside insert_block (for the block's timestamp) and   *)
(* inside a fast-forward sync; the pipeline commits blocks to the ledger;  *)
(* and each commit later calls back into the tree to prune it.  A crash    *)
(* may come between any two steps.                                         *)
(*                                                                         *)
(* Which certificates exist is decided by the validators together (module  *)
(* TwoChainBFT); here they are constants, and the assumption on them is    *)
(* what TwoChainBFTProofs establishes.  Order votes are enabled.           *)
(***************************************************************************)
EXTENDS TwoChainRules, Sequences

CONSTANTS Certified,     \* the blocks for which a quorum certificate exists
          OrderCerts,    \* those for which an order certificate exists too
          CommitCerts,   \* those whose commit certificate a peer may send
          WindowSizes,   \* the on-chain configuration has one of these
          max_pruned_blocks_in_mem,
          max_commit_gap \* rounds the pipeline may lag before a state sync

(* The blocks some certificate commits.                                    *)
Final ==
  OrderCerts \cup ({commit_info(c) : c \in Certified \ {Genesis}} \ {None})

ASSUME CertificateAssumption ==
  /\ OrderCerts \subseteq Certified /\ Certified \subseteq Block
  /\ Genesis \in Certified
  /\ \A c \in Certified : parent[c] \in Certified
  /\ \A c, d \in Certified : round[c] = round[d] => c = d
  /\ \A f \in Final, c \in Certified : round[c] >= round[f] => Extends(c, f)

(* The blocks of an epoch are finitely many, so that some of them always   *)
(* include one of the lowest and one of the highest round.                 *)
ASSUME FiniteAssumption ==
  \A S \in SUBSET Block :
    S # {} => \E a, b \in S : \A c \in S : round[a] <= round[c] /\ round[c] <= round[b]

ASSUME CommitAssumption == CommitCerts \subseteq Final

ASSUME SizeAssumption ==
  /\ WindowSizes \subseteq Nat
  /\ max_pruned_blocks_in_mem \in Nat /\ max_commit_gap \in Nat
  /\ None \notin [target : Block, synced : BOOLEAN]

VARIABLES
  tree,       \* the BlockTree, behind one lock
  aborted,    \* the blocks in memory whose pipeline was aborted
  inserting,  \* the block insert_block waits for, or None
  syncing,    \* progress of a fast-forward sync, or None
  pipeline,   \* last blocks of the ordered batches still to be committed
  callbacks,  \* commits whose callback into the tree is yet to run, in order
  stale,      \* callbacks that were pending when the tree was replaced
  db,         \* the blocks and quorum certificates in ConsensusDB
  ledger,     \* the block of the latest ledger info in storage
  latest_logical_time, \* the round of the process's last call of state sync
  running,    \* FALSE in recovery mode
  window_size, \* of the execution pool in this epoch; 0 when it is off (None)
  interrupted \* history: a sync saved its blocks and did not reach its target

vars == <<tree, aborted, inserting, syncing, pipeline, callbacks, stale, db,
          ledger, latest_logical_time, running, window_size, interrupted>>

BlockTree ==
  [blocks : SUBSET Block,      \* id_to_block
   links : SUBSET Block,       \* blocks listed as a child of a block in memory
   qcs : SUBSET Block,         \* id_to_quorum_cert
   ordered_root : Block,
   commit_root : Block,        \* also the block of highest_commit_cert
   window_root : Block,
   certified : Block,          \* highest_certified_block, highest_quorum_cert
   hoc : Block,                \* the block highest_ordered_cert commits
   pruned : Seq(Block)]        \* pruned_block_ids

SyncState == [target : Block, synced : BOOLEAN]

(* The state of the block store: commit info, highest certificates and the *)
(* roots are always blocks, also after a certificate that commits nothing. *)
TypeOK ==
  /\ tree \in BlockTree
  /\ aborted \subseteq Block
  /\ inserting \in Block \cup {None}
  /\ syncing \in SyncState \cup {None}
  /\ pipeline \subseteq Block
  /\ callbacks \in Seq(Block)
  /\ stale \subseteq Block
  /\ db \in [blocks : SUBSET Block, qcs : SUBSET Block]
  /\ ledger \in Block
  /\ latest_logical_time \in Nat
  /\ running \in BOOLEAN
  /\ window_size \in WindowSizes
  /\ interrupted \in BOOLEAN

----------------------------------------------------------------------------
Later(a, b) == IF round[a] > round[b] THEN a ELSE b
Highest(S) == CHOOSE b \in S : \A a \in S : round[a] <= round[b]
Elements(s) == {s[i] : i \in DOMAIN s}

(* The path from b back to a, a excluded.                                  *)
Path(a, b) == {c \in Descendants[a] \ {a} : Extends(b, c)}

calculate_window_start_round(r) ==
  IF r + 1 > window_size THEN r + 1 - window_size ELSE 0

(* The ancestors of b in its execution window.                             *)
Window(b) ==
  {a \in Block : /\ window_size > 0 /\ a # b /\ Extends(b, a)
                 /\ round[a] >= calculate_window_start_round(round[b])}

(* get_ordered_block_window returns a window and no error.                 *)
HasWindow(t, b) == round[b] >= round[t.commit_root] /\ Window(b) \subseteq t.blocks

(* find_window_root: the first block of the window, or the block itself.   *)
WindowRoot(b) ==
  CHOOSE a \in Window(b) \cup {b} :
    \A c \in Window(b) \cup {b} : round[a] <= round[c]

----------------------------------------------------------------------------
(* Operations of BlockTree.                                                *)
insert_block(t, b) ==
  IF parent[b] \in t.blocks
  THEN [t EXCEPT !.blocks = @ \cup {b}, !.links = @ \cup {b}]
  ELSE t

(* Mutant: the highest certified block is the one certified last.          *)
MutLastCertified(t, c) ==
  [t EXCEPT !.qcs = @ \cup {c}, !.certified = c,
            !.hoc = IF commit_info(c) = None THEN @ ELSE Later(commit_info(c), @)]

insert_quorum_cert(t, c) ==
  [t EXCEPT !.qcs = @ \cup {c},
            !.certified = Later(c, @),
            !.hoc = IF commit_info(c) = None THEN @ ELSE Later(commit_info(c), @)]

(* Mutant: pruning does not stop at the new root.                          *)
MutPruneAll(t, root) ==
  {b \in t.blocks : Extends(b, t.window_root) /\ b # root}

(* Mutant: what competes with the ordered root is pruned as well.          *)
MutPruneForks(t, root) ==
  {b \in t.blocks : /\ Extends(b, t.window_root)
                    /\ \/ ~Extends(b, root)
                       \/ ~Extends(b, t.ordered_root) /\ ~Extends(t.ordered_root, b)}

(* The blocks of the tree that do not descend from its next window root.   *)
find_blocks_to_prune(t, root) ==
  {b \in t.blocks : /\ \A a \in Path(t.window_root, b) : a \in t.links
                    /\ Extends(b, t.window_root) /\ ~Extends(b, root)}

(* The orders in which the walk down the children may list them: the last  *)
(* one has no descendant among them.  (Seq(S) removes none of them: it     *)
(* states what the recursion yields, for the proofs.)                      *)
Leaves(S) == {b \in S : \A c \in S \ {b} : ~Extends(c, b)}

PruneOrders(S) ==
  LET orders[T \in SUBSET S] ==
        IF T = {} THEN {<<>>}
        ELSE UNION {{Append(s, b) : s \in orders[T \ {b}]} : b \in Leaves(T)}
  IN orders[S] \cap Seq(S)

(* The oldest pruned blocks beyond the buffer's size leave memory.         *)
process_pruned_blocks(t, s) ==
  LET all == t.pruned \o s
      n == IF Len(all) > max_pruned_blocks_in_mem
           THEN Len(all) - max_pruned_blocks_in_mem ELSE 0
      gone == {all[i] : i \in 1 .. n}
  IN [t EXCEPT !.pruned = SubSeq(all, n + 1, Len(all)),
               !.blocks = @ \ gone,
               !.qcs = @ \ gone,
               !.links = {c \in @ : parent[c] \notin gone}]

(* The two roots after block b is committed.                               *)
update_roots(t, b) ==
  [t EXCEPT !.window_root = WindowRoot(b), !.commit_root = Later(b, @)]

(* path_from_ordered_root finds b: the walk up stays in memory and ends at *)
(* the ordered root.                                                       *)
OnOrderedPath(t, b) ==
  /\ Extends(b, t.ordered_root)
  /\ Path(t.ordered_root, b) \subseteq t.blocks

(* send_for_execution: b becomes the ordered root.                         *)
send_for_execution(t, b) ==
  [t EXCEPT !.ordered_root = b, !.hoc = Later(b, @)]

----------------------------------------------------------------------------
(* Recovery.                                                               *)

(* ConsensusDB never holds the virtual genesis block of the epoch; it is   *)
(* made up when the ledger still ends the previous epoch.                  *)
StoredBlocks(d, root) == d.blocks \cup ({Genesis} \cap {root})
StoredQCs(d, root) == d.qcs \cup ({Genesis} \cap {root})

(* find_root succeeds.                                                     *)
find_root(d, root) ==
  /\ root \in StoredBlocks(d, root) /\ root \in StoredQCs(d, root)
  /\ Window(root) \subseteq StoredBlocks(d, root)

(* RecoveryData::find_blocks_to_prune keeps what descends from the root.   *)
Retained(d, root) ==
  LET wr == WindowRoot(root) IN
  {b \in StoredBlocks(d, root) :
     Extends(b, wr) /\ Path(wr, b) \subseteq StoredBlocks(d, root)}

(* BlockStore::build inserts every retained block, or panics.              *)
build_succeeds(d, root) ==
  \A b \in Retained(d, root) :
    round[b] > round[root] => Window(b) \subseteq Retained(d, root)

(* BlockStore::build, followed by try_send_for_execution.                  *)
Recovered(d, root) ==
  LET blocks == Retained(d, root)
      qcs == StoredQCs(d, root) \cap blocks
      commits == ({commit_info(c) : c \in qcs \ {Genesis}} \ {None}) \cup {root}
  IN [tree |-> [blocks |-> blocks, links |-> blocks \ {WindowRoot(root)},
                qcs |-> qcs, ordered_root |-> Highest(commits),
                commit_root |-> root, window_root |-> WindowRoot(root),
                certified |-> Highest({root} \cup qcs), hoc |-> Highest(commits),
                pruned |-> <<>>],
      pipeline |-> {b \in commits : round[b] > round[root]},
      db |-> [blocks |-> blocks \ {Genesis}, qcs |-> qcs]]

----------------------------------------------------------------------------
Init ==
  LET start == Recovered([blocks |-> {}, qcs |-> {}], Genesis) IN
  /\ window_size \in WindowSizes /\ interrupted = FALSE
  /\ tree = start.tree /\ db = start.db /\ pipeline = start.pipeline
  /\ ledger = Genesis /\ latest_logical_time = 0 /\ running = TRUE
  /\ aborted = {} /\ inserting = None /\ syncing = None
  /\ callbacks = <<>> /\ stale = {}

(* The RoundManager handles a message only when it waits for nothing.      *)
Idle == running /\ inserting = None /\ syncing = None

(* The checks of insert_block and the pipeline it builds on the parent's.  *)
CanInsert(t, b) ==
  /\ b \notin t.blocks
  /\ round[b] > round[t.ordered_root]
  /\ HasWindow(t, b)
  /\ parent[b] \in t.blocks \ aborted

(* A proposal of the current round: after ensure_round_and_sync_up the     *)
(* highest certificate is no older than the proposal's own, and a timeout  *)
(* certificate may have moved the round past it.                           *)
ProcessProposal(b) ==
  /\ Idle
  /\ parent[b] \in Certified
  /\ round[parent[b]] <= round[tree.certified] /\ round[tree.certified] < round[b]
  /\ CanInsert(tree, b)
  /\ inserting' = b
  /\ UNCHANGED <<tree, aborted, syncing, pipeline, callbacks, stale, db,
                 ledger, latest_logical_time, running, interrupted, window_size>>

(* One turn of fetch_quorum_cert's loop: b was retrieved because a         *)
(* certified descendant is missing.  Its certificate is inserted, then it. *)
FetchBlock(b) ==
  /\ Idle
  /\ b \notin tree.blocks /\ parent[b] \in tree.blocks
  /\ \E c \in Certified \ tree.blocks :
       Extends(c, b) /\ round[c] >= round[tree.ordered_root]
  /\ LET t == insert_quorum_cert(tree, parent[b]) IN
     /\ tree' = t
     /\ inserting' = IF CanInsert(t, b) THEN b ELSE None
  /\ db' = [db EXCEPT !.qcs = @ \cup {parent[b]}]
  /\ UNCHANGED <<aborted, syncing, pipeline, callbacks, stale, ledger,
                 latest_logical_time, running, interrupted, window_size>>

(* The wait is over: the block is saved and, unless its parent has left    *)
(* memory meanwhile, linked into the tree.  The write may fail.            *)
FinishInsert ==
  /\ inserting # None
  /\ inserting' = None
  /\ \/ /\ db' = [db EXCEPT !.blocks = @ \cup {inserting}]
        /\ tree' = insert_block(tree, inserting)
     \/ UNCHANGED <<db, tree>>
  /\ UNCHANGED <<aborted, syncing, pipeline, callbacks, stale, ledger,
                 latest_logical_time, running, interrupted, window_size>>

(* Mutant: the certificate is used without being saved.                    *)
MutUseUnsavedQC(c) ==
  /\ Idle
  /\ c \in tree.blocks \ tree.qcs
  /\ round[c] >= round[tree.ordered_root]
  /\ tree' = insert_quorum_cert(tree, c)
  /\ UNCHANGED <<aborted, inserting, syncing, pipeline, callbacks, stale, db,
                 ledger, latest_logical_time, running, interrupted, window_size>>

(* insert_quorum_cert for a block in the tree: the certificate is saved,   *)
(* inserted, and the block it commits is sent for execution.               *)
InsertQuorumCert(c) ==
  /\ Idle
  /\ c \in tree.blocks \ tree.qcs
  /\ round[c] >= round[tree.ordered_root]
  /\ LET t == insert_quorum_cert(tree, c)
         f == commit_info(c)
         new == IF f = None THEN FALSE ELSE round[f] > round[tree.ordered_root]
     IN /\ tree' = IF new THEN send_for_execution(t, f) ELSE t
        /\ pipeline' = IF new THEN pipeline \cup {f} ELSE pipeline
  /\ db' = [db EXCEPT !.qcs = @ \cup {c}]
  /\ UNCHANGED <<aborted, inserting, syncing, callbacks, stale, ledger,
                 latest_logical_time, running, interrupted, window_size>>

(* Mutant: the quorum certificate of the order votes is not inserted first.*)
MutOrderWithoutQC(o) ==
  /\ Idle
  /\ o \in tree.blocks
  /\ round[o] > round[tree.ordered_root]
  /\ tree' = send_for_execution(tree, o)
  /\ pipeline' = pipeline \cup {o}
  /\ UNCHANGED <<aborted, inserting, syncing, callbacks, stale, db, ledger,
                 latest_logical_time, running, interrupted, window_size>>

(* insert_ordered_cert: new_ordered_cert inserts the block's own quorum    *)
(* certificate before, add_certs one of a round at least as high.          *)
InsertOrderedCert(o) ==
  /\ Idle
  /\ \E c \in tree.qcs : round[c] >= round[o]
  /\ o \in tree.blocks
  /\ round[o] > round[tree.ordered_root]
  /\ tree' = send_for_execution(tree, o)
  /\ pipeline' = pipeline \cup {o}
  /\ UNCHANGED <<aborted, inserting, syncing, callbacks, stale, db, ledger,
                 latest_logical_time, running, interrupted, window_size>>

----------------------------------------------------------------------------
(* The pipeline: a commit certificate for the last block of a batch        *)
(* commits that block with all blocks before it; what was aborted on the   *)
(* way never finishes.                                                     *)
CommitLedger(b) ==
  /\ running
  /\ b \in pipeline
  /\ Path(ledger, b) \cap aborted = {}
  /\ ledger' = b
  /\ callbacks' = Append(callbacks, b)
  /\ pipeline' = {f \in pipeline : ~Extends(b, f)}
  /\ UNCHANGED <<tree, aborted, inserting, syncing, stale, db,
                 latest_logical_time, running, interrupted, window_size>>

(* What the expects in find_window_root ask of a callback for b.           *)
CallbackFinds(b) == b \in tree.blocks /\ HasWindow(tree, b)

(* Mutant: the tree is pruned up to the blocks that are only ordered.      *)
MutPruneToOrdered(b) ==
  LET S == find_blocks_to_prune(tree, WindowRoot(tree.ordered_root)) IN
  /\ CallbackFinds(b)
  /\ \E s \in PruneOrders(S) : tree' = update_roots(process_pruned_blocks(tree, s), b)
  /\ aborted' = (aborted \cup S) \cap tree'.blocks
  /\ db' = [blocks |-> db.blocks \ S, qcs |-> db.qcs \ S]

(* The tree is pruned down to the new window root, in storage too unless   *)
(* that write fails.  A block or window not found is a panic: see Crash.   *)
commit_callback(b) ==
  LET S == find_blocks_to_prune(tree, WindowRoot(b)) IN
  /\ CallbackFinds(b)
  /\ \E s \in PruneOrders(S) : tree' = update_roots(process_pruned_blocks(tree, s), b)
  /\ aborted' = (aborted \cup S) \cap tree'.blocks
  /\ db' \in {db, [blocks |-> db.blocks \ S, qcs |-> db.qcs \ S]}

(* post_commit_ledger, in the order of the commits.                        *)
PostCommitLedger ==
  /\ running /\ callbacks # <<>>
  /\ commit_callback(Head(callbacks))
  /\ callbacks' = Tail(callbacks)
  /\ UNCHANGED <<inserting, syncing, pipeline, stale, ledger,
                 latest_logical_time, running, interrupted, window_size>>

(* The same for a commit made before the tree was replaced: nothing waits  *)
(* for, or aborts, this part of a block's pipeline.                        *)
StalePostCommitLedger(b) ==
  /\ running /\ b \in stale
  /\ commit_callback(b)
  /\ stale' = stale \ {b}
  /\ UNCHANGED <<inserting, syncing, pipeline, callbacks, ledger,
                 latest_logical_time, running, interrupted, window_size>>

----------------------------------------------------------------------------
(* The tree, storage and pipeline that recovery makes of storage's data.   *)
Rebuild(d, root) ==
  LET r == Recovered(d, root) IN
  /\ tree' = r.tree /\ db' = r.db /\ pipeline' = r.pipeline
  /\ aborted' = {} /\ inserting' = None /\ syncing' = None /\ callbacks' = <<>>

(* The blocks retrieved to sync to commit target t and certificate q.      *)
Retrieved(t, q) ==
  IF window_size = 0 THEN Path(t, q) \cup {t}
  ELSE {b \in Block \ {Genesis} :
          Extends(q, b) /\ round[b] >= calculate_window_start_round(round[t])}

(* Mutant: only the blocks are saved.                                      *)
MutSaveBlocksOnly(t, q) ==
  LET R == Retrieved(t, q) IN
  /\ find_root([blocks |-> R, qcs |-> R], t)
  /\ db' = [db EXCEPT !.blocks = @ \cup R]

(* The retrieved blocks with their certificates are saved, if find_root    *)
(* on them shows that recovery is going to succeed.                        *)
SaveRetrieved(t, q) ==
  LET R == Retrieved(t, q) IN
  /\ find_root([blocks |-> R, qcs |-> R], t)
  /\ db' = [blocks |-> db.blocks \cup R, qcs |-> db.qcs \cup R]

(* A peer's sync info commits t, which is not in the tree, or is far ahead *)
(* of what the pipeline has committed.                                     *)
need_sync_for_ledger_info(t) ==
  \/ round[t] > round[tree.ordered_root] /\ t \notin tree.blocks
  \/ round[ledger] + max_commit_gap < round[t]

FastForwardSync(t, q) ==
  /\ Idle
  /\ round[q] >= round[t]
  /\ need_sync_for_ledger_info(t)
  /\ SaveRetrieved(t, q)
  /\ syncing' = [target |-> t, synced |-> FALSE]
  /\ UNCHANGED <<tree, aborted, inserting, pipeline, callbacks, stale, ledger,
                 latest_logical_time, running, interrupted, window_size>>

(* Mutant: the driver does not compare the target with the ledger.         *)
MutAcceptOldRequest(t) == TRUE

(* initialize_sync_target_request of the state sync driver: a target       *)
(* behind the ledger is refused with OldSyncRequest.                       *)
initialize_sync_target_request(t) == round[t] >= round[ledger]

(* ExecutionProxy::sync_to_target returns Ok.  It compares the target with *)
(* the targets of earlier calls, not with what the pipeline has committed; *)
(* only when it is higher does the driver bring the ledger to it.          *)
SyncToTargetOk(t) ==
  IF latest_logical_time >= round[t] THEN UNCHANGED <<ledger, latest_logical_time>>
  ELSE /\ initialize_sync_target_request(t)
       /\ ledger' = t
       /\ latest_logical_time' = round[t]

(* It returns an error: state sync refused the target or failed on the way,*)
(* and latest_logical_time is the target's all the same.                   *)
SyncToTargetErr(t) ==
  /\ latest_logical_time < round[t]
  /\ latest_logical_time' = round[t]
  /\ UNCHANGED ledger

(* ExecutionClient::sync_to_target resets the pipeline before.  After an   *)
(* error the ordered blocks are not sent to the pipeline again.            *)
SyncToTarget ==
  /\ running /\ syncing # None /\ ~syncing.synced
  /\ pipeline' = {}
  /\ aborted' = aborted \cup
                 (tree.blocks \cap UNION {Path(ledger, f) : f \in pipeline})
  /\ \/ /\ SyncToTargetOk(syncing.target)
        /\ syncing' = [syncing EXCEPT !.synced = TRUE]
        /\ UNCHANGED interrupted
     \/ /\ SyncToTargetErr(syncing.target)
        /\ syncing' = None
        /\ interrupted' = (interrupted \/ round[ledger] < round[syncing.target])
  /\ UNCHANGED <<tree, inserting, callbacks, stale, db, running, window_size>>

(* The tree is replaced in place by the one recovered from storage.        *)
RebuildTree ==
  /\ running /\ syncing # None /\ syncing.synced
  /\ find_root(db, ledger) /\ build_succeeds(db, ledger)
  /\ Rebuild(db, ledger)
  /\ stale' = stale \cup Elements(callbacks)
  /\ UNCHANGED <<ledger, latest_logical_time, running, interrupted, window_size>>

(* The process stops at any point, by itself or on a panic, and starts     *)
(* again from storage, in recovery mode if no root is found there.         *)
Crash ==
  /\ IF find_root(db, ledger)
     THEN build_succeeds(db, ledger) /\ Rebuild(db, ledger) /\ running' = TRUE
     ELSE /\ running' = FALSE
          /\ pipeline' = {} /\ aborted' = {} /\ inserting' = None
          /\ syncing' = None /\ callbacks' = <<>>
          /\ UNCHANGED <<tree, db>>
  /\ interrupted' = (interrupted \/ syncing \in [target : Block, synced : {FALSE}])
  /\ stale' = {} /\ latest_logical_time' = 0
  /\ UNCHANGED <<ledger, window_size>>

(* RecoveryManager: a fast-forward sync without a tree, after which the    *)
(* process exits to start again, or waits for another message if it failed.*)
RecoverySync(t, q) ==
  /\ ~running
  /\ round[q] >= round[t]
  /\ SaveRetrieved(t, q)
  /\ SyncToTargetOk(t) \/ SyncToTargetErr(t)
  /\ interrupted' = (interrupted \/ round[ledger'] < round[t])
  /\ UNCHANGED <<tree, aborted, inserting, syncing, pipeline, callbacks, stale,
                 running, window_size>>

Next ==
  \/ \E b \in Block : ProcessProposal(b)
  \/ \E b \in Certified : FetchBlock(b)
  \/ FinishInsert
  \/ \E c \in Certified : InsertQuorumCert(c)
  \/ \E o \in OrderCerts : InsertOrderedCert(o)
  \/ \E b \in Block : CommitLedger(b)
  \/ PostCommitLedger
  \/ \E b \in Block : StalePostCommitLedger(b)
  \/ \E t \in CommitCerts, q \in Certified : FastForwardSync(t, q)
  \/ SyncToTarget
  \/ RebuildTree
  \/ Crash
  \/ \E t \in CommitCerts, q \in Certified : RecoverySync(t, q)

Spec == Init /\ [][Next]_vars

----------------------------------------------------------------------------
(* The roots of the tree and the blocks of its highest certificates lie on *)
(* one path, in this order, and are in memory: pruning, which runs in the  *)
(* commit callback, never takes a block the RoundManager still builds on   *)
(* (the expects "Root must exist" and "Highest certified block must exist")*)
(* and the tree never runs ahead of the ledger.                            *)
RootsOnOnePath ==
  running =>
    /\ {tree.window_root, tree.commit_root, tree.ordered_root, tree.hoc,
        tree.certified} \subseteq tree.blocks
    /\ Extends(tree.commit_root, tree.window_root)
    /\ Extends(tree.ordered_root, tree.commit_root)
    /\ Extends(tree.hoc, tree.ordered_root)
    /\ Extends(tree.certified, tree.hoc)
    /\ Extends(ledger, tree.commit_root)

(* assert!(!blocks_to_commit.is_empty()) in send_for_execution: a block in *)
(* memory that some certificate commits and that is newer than the ordered *)
(* root is reached from that root through blocks in memory.                *)
OrderedPathAssertion ==
  running =>
    \A f \in Final \cap tree.blocks :
      round[f] > round[tree.ordered_root] => OnOrderedPath(tree, f)

(* .expect("Child must exist in the tree") in find_blocks_to_prune: every  *)
(* child link below the window root leads to a block in memory.            *)
ChildrenExist ==
  running =>
    \A c \in tree.links : Extends(c, tree.window_root) => c \in tree.blocks

(* .expect("Block not found") and .expect("Ordered block window not        *)
(* found") in find_window_root, for callbacks into the tree that holds     *)
(* their block: earlier callbacks leave the block and its window alone.    *)
CallbacksFindWindow == \A b \in Elements(callbacks) : CallbackFinds(b)

(* Whatever was done last, RecoveryData::new finds the block of the latest *)
(* ledger info, its certificate and its window in storage, and build can   *)
(* insert all that descends from it, as soon as the window of that block   *)
(* does not reach back to the virtual genesis block, which is not stored.  *)
(* This is for a validator none of whose fast-forward syncs was cut short  *)
(* after it had saved its blocks: see ValidDBAfterCommit.                  *)
RecoversFromStorage ==
  /\ ~interrupted
  /\ ledger = Genesis \/ Genesis \notin Window(ledger)
  => find_root(db, ledger) /\ build_succeeds(db, ledger)

(* panic!("Failed to construct recovery data after fast forward sync"):    *)
(* once sync_to_target has returned Ok, what was saved before it yields a  *)
(* tree on the ledger.  The exception is a sync that follows a failed one: *)
(* latest_logical_time may then be beyond a ledger that state sync has not *)
(* moved, sync_to_target returns Ok without moving it, and what is stored  *)
(* need not contain that ledger's certificate (see ValidDBAfterCommit).    *)
SyncRecovers ==
  syncing # None =>
    (syncing.synced /\ (ledger = syncing.target \/ ~interrupted) =>
       find_root(db, ledger) /\ build_succeeds(db, ledger))

(* The committed ledger never gives up a block, across crashes, recovery   *)
(* and state sync: what recovery sends for execution again extends it, and *)
(* a sync whose target the pipeline has overtaken meanwhile is refused.    *)
LedgerOnlyGrows == [][Extends(ledger', ledger)]_vars

(* The highest quorum certificate a validator advertises and proposes on   *)
(* never goes back, neither when the tree is pruned or replaced nor when   *)
(* it is rebuilt after a crash: it is stored before it is used.            *)
HighestQCNeverLost == [][round[tree'.certified] >= round[tree.certified]]_vars

(* MockStorage::commit_to_storage panics with "invalid db after commit"    *)
(* unless recovery succeeds on what is stored at each commit.              *)
ValidDBAfterCommit == find_root(db, ledger)
=============================================================================
