-------------------------- MODULE BlockStoreProofs --------------------------
(***************************************************************************)
(* Proofs about BlockStore: the tree keeps its roots and highest           *)
(* certificates on one path in memory, commit callbacks find what they     *)
(* need, the ledger only grows, the highest certificate is never lost, and *)
(* storage always recovers unless a sync was cut short.                    *)
(*                                                                         *)
(* The inductive invariant StoreInv has a part about the tree alone        *)
(* (TreeOK), one about what storage holds of it (Stored), one about the    *)
(* pipeline and its callbacks (Pipelined), and one about which quorum      *)
(* certificates and windows are in storage (Recoverable).  The facts about *)
(* blocks, paths and the operations on a tree come first.                  *)
(***************************************************************************)
EXTENDS BlockStore, TLAPS

(* The blocks a ledger may end with.                                       *)
Committable == Final \cup {Genesis}

TreeOK(t) ==
  /\ t \in BlockTree
  /\ {t.commit_root, t.ordered_root, t.hoc} \subseteq Committable
  /\ t.certified \in Certified /\ t.certified \in t.blocks
  /\ t.window_root = WindowRoot(t.commit_root) /\ t.window_root \in t.blocks
  /\ round[t.commit_root] <= round[t.ordered_root]
  /\ round[t.ordered_root] <= round[t.hoc]
  /\ round[t.hoc] <= round[t.certified]
  /\ \A c \in t.qcs : round[c] <= round[t.certified]
  /\ \A b \in t.blocks : Extends(b, t.window_root)
                           => Path(t.window_root, b) \subseteq t.blocks
  /\ \A c \in t.links : Extends(c, t.window_root) => c \in t.blocks
  /\ \A b \in Elements(t.pruned) : ~Extends(b, t.window_root)

----------------------------------------------------------------------------
(* The order of blocks.                                                    *)
(* The first facts are also those of TwoChainBFTProofs; an epoch with      *)
(* finitely many blocks needs no induction on rounds for them.             *)
LEMMA LowestBlock ==
  ASSUME NEW S, S \subseteq Block, S # {}
  PROVE  \E a \in S : \A c \in S : round[a] <= round[c]
BY FiniteAssumption, Zenon

(* A block extends itself.                                                 *)
LEMMA ExtendsReflexive == \A b \in Block : Extends(b, b)
BY Zenon DEF Extends, Descendants

(* A child of a block that extends b extends b.                            *)
LEMMA ExtendsChild ==
  ASSUME NEW b \in Block, NEW c \in Block, c # Genesis, Extends(parent[c], b)
  PROVE  Extends(c, b)
BY BlockAssumption, Zenon DEF Extends, Descendants, ClosedUnderChildren

(* Every block extends genesis.                                            *)
LEMMA ExtendsGenesis == \A c \in Block : Extends(c, Genesis)
<1> DEFINE Bad == {c \in Block : ~ Extends(c, Genesis)}
<1> SUFFICES ASSUME Bad # {} PROVE FALSE
  OBVIOUS
<1>1. PICK c \in Bad : \A d \in Bad : round[c] <= round[d]
  BY LowestBlock, Zenon
<1>2. c # Genesis
  BY ExtendsReflexive, Zenon
<1>3. parent[c] \in Block /\ round[parent[c]] < round[c]
  BY <1>2, BlockAssumption, WellFormedAssumption, Zenon
<1>4. parent[c] \notin Bad
  <2> SUFFICES ASSUME parent[c] \in Bad PROVE FALSE
    OBVIOUS
  <2>1. round[c] <= round[parent[c]]
    BY <1>1, Zenon
  <2> QED BY <1>3, <2>1, BlockAssumption
<1> QED BY <1>2, <1>3, <1>4, ExtendsChild, BlockAssumption, Zenon

LEMMA ExtendsBlock ==
  ASSUME NEW b \in Block, NEW c, Extends(c, b)
  PROVE  c \in Block
BY Zenon DEF Extends, Descendants

LEMMA ExtendsTransitive ==
  ASSUME NEW a \in Block, NEW b \in Block, NEW c, Extends(c, b), Extends(b, a)
  PROVE  Extends(c, a)
<1>1. c \in Block
  BY ExtendsBlock, Zenon
<1>2. ASSUME NEW S \in SUBSET Block, a \in S, ClosedUnderChildren(S)
      PROVE  c \in S
  <2>1. b \in S
    BY <1>2, Zenon DEF Extends, Descendants
  <2>. QED
    BY <1>2, <2>1, Zenon DEF Extends, Descendants
<1>. QED
  BY <1>1, <1>2, Zenon DEF Extends, Descendants

(* A proper descendant of b is not genesis and its parent extends b.       *)
LEMMA ExtendsParent ==
  ASSUME NEW b \in Block, NEW c \in Block, Extends(c, b), c # b
  PROVE  c # Genesis /\ parent[c] \in Block /\ Extends(parent[c], b)
<1>. SUFFICES ASSUME c = Genesis \/ ~ Extends(parent[c], b) PROVE FALSE
  BY BlockAssumption, Zenon
<1>. DEFINE S == {d \in Block : Extends(d, b) /\ d # c}
<1>1. b \in S
  BY ExtendsReflexive, Zenon
<1>2. ClosedUnderChildren(S)
  <2>. SUFFICES ASSUME NEW d \in Block \ {Genesis}, parent[d] \in S PROVE d \in S
    BY Zenon DEF ClosedUnderChildren
  <2>1. Extends(d, b)
    BY ExtendsChild, Zenon
  <2>2. d # c
    OBVIOUS
  <2>. QED
    BY <2>1, <2>2, Zenon
<1>. HIDE DEF S
<1>3. c \in S
  <2>1. S \in SUBSET Block
    BY Zenon DEF S
  <2>. QED
    BY <1>1, <1>2, <2>1, Zenon DEF Extends, Descendants
<1>. QED
  BY <1>3, Zenon DEF S

(* Rounds grow along a path.                                               *)
LEMMA ExtendsRounds ==
  ASSUME NEW b \in Block, NEW c, Extends(c, b)
  PROVE  round[b] <= round[c] /\ (round[b] = round[c] => c = b)
<1>. DEFINE S == {d \in Block : d = b \/ round[b] < round[d]}
<1>1. ClosedUnderChildren(S)
  <2>. SUFFICES ASSUME NEW d \in Block \ {Genesis}, parent[d] \in S PROVE d \in S
    BY Zenon DEF ClosedUnderChildren
  <2>1. round[parent[d]] < round[d] /\ round[parent[d]] \in Nat /\ round[d] \in Nat
        /\ round[b] \in Nat
    BY BlockAssumption, WellFormedAssumption, Zenon
  <2>. QED
    BY <2>1
<1>2. b \in S /\ S \in SUBSET Block
  OBVIOUS
<1>. HIDE DEF S
<1>3. c \in S
  BY <1>1, <1>2, Zenon DEF Extends, Descendants
<1>. QED
  BY <1>3, BlockAssumption DEF S

(* Two ancestors of a block are on one path.                               *)
LEMMA AncestorsComparable ==
  ASSUME NEW a \in Block, NEW b \in Block, NEW c, Extends(c, a), Extends(c, b),
         round[a] <= round[b]
  PROVE  Extends(b, a)
<1>. SUFFICES ASSUME ~ Extends(b, a) PROVE FALSE
  OBVIOUS
<1>. DEFINE S == {d \in Block : Extends(d, a) /\ Extends(d, b)}
<1>1. S # {} /\ S \subseteq Block
  BY ExtendsBlock, Zenon
<1>2. PICK d \in S : \A e \in S : round[d] <= round[e]
  <2>. HIDE DEF S
  <2>. QED
    BY <1>1, LowestBlock, Zenon
<1>3. d # b
  OBVIOUS
<1>4. d # a
  <2>. SUFFICES ASSUME d = a PROVE FALSE
    OBVIOUS
  <2>1. Extends(a, b)
    OBVIOUS
  <2>2. round[b] <= round[a] /\ (round[b] = round[a] => a = b)
    BY <2>1, ExtendsRounds, Zenon
  <2>3. a = b
    BY <2>2, BlockAssumption
  <2>. QED
    BY <1>3, <2>3, Zenon
<1>5. parent[d] \in S /\ d # Genesis
  BY <1>3, <1>4, ExtendsParent, Zenon
<1>6. round[parent[d]] < round[d]
  BY <1>5, WellFormedAssumption, Zenon
<1>. QED
  BY <1>2, <1>5, <1>6, BlockAssumption

(* The blocks that certificates commit are on one path, which every later  *)
(* certified block extends.                                                *)
LEMMA CommittableBlocks ==
  /\ Committable \subseteq Certified /\ Committable \subseteq Block
  /\ Certified \subseteq Block
  /\ \A f \in Committable : round[f] \in Nat
  /\ \A f \in Committable, c \in Certified : round[f] <= round[c] => Extends(c, f)
<1>1. Final \subseteq Certified
  BY CertificateAssumption, Zenon DEF Final, commit_info
<1>2. Certified \subseteq Block /\ Genesis \in Certified
  BY CertificateAssumption, Zenon
<1>3. Committable \subseteq Certified
  BY <1>1, <1>2, Zenon DEF Committable
<1>4. ASSUME NEW f \in Committable, NEW c \in Certified, round[f] <= round[c]
      PROVE  Extends(c, f)
  <2>1. CASE f = Genesis
    BY <1>2, <2>1, ExtendsGenesis, Zenon
  <2>2. CASE f \in Final
    <3>1. round[c] >= round[f]
      BY <1>2, <1>3, <1>4, BlockAssumption, Zenon
    <3>. QED
      BY <2>2, <3>1, CertificateAssumption, Zenon
  <2>. QED
    BY <2>1, <2>2, Zenon DEF Committable
<1>. QED
  BY <1>2, <1>3, <1>4, BlockAssumption, Zenon

(* The block a certificate commits is the parent of the certified one.     *)
LEMMA CommitInfo ==
  ASSUME NEW c \in Certified, commit_info(c) # None
  PROVE  /\ commit_info(c) = parent[c] /\ commit_info(c) \in Final
         /\ c # Genesis
         /\ round[commit_info(c)] < round[c]
<1>1. commit_info(c) = parent[c] /\ round[c] = round[parent[c]] + 1
  BY Zenon DEF commit_info
<1>2. c \in Block /\ parent[c] \in Block /\ round[c] \in Nat /\ round[parent[c]] \in Nat
  BY CertificateAssumption, BlockAssumption, Zenon
<1>3. c # Genesis
  BY <1>1, <1>2, WellFormedAssumption
<1>. QED
  BY <1>1, <1>2, <1>3 DEF Final

LEMMA LaterOf ==
  ASSUME NEW a \in Block, NEW b \in Block
  PROVE  /\ Later(a, b) \in {a, b}
         /\ round[a] <= round[Later(a, b)] /\ round[b] <= round[Later(a, b)]
BY BlockAssumption DEF Later

LEMMA HighestOf ==
  ASSUME NEW S, S \subseteq Block, S # {}
  PROVE  /\ Highest(S) \in S
         /\ \A a \in S : round[a] <= round[Highest(S)]
<1>1. \E b \in S : \A a \in S : round[a] <= round[b]
  BY FiniteAssumption, Zenon
<1>. QED
  BY <1>1, Zenon DEF Highest

----------------------------------------------------------------------------
(* Execution windows.                                                      *)
LEMMA WindowStart ==
  ASSUME window_size \in Nat, NEW r \in Nat, NEW s \in Nat, r <= s
  PROVE  /\ calculate_window_start_round(r) \in Nat
         /\ calculate_window_start_round(r) <= calculate_window_start_round(s)
BY DEF calculate_window_start_round

LEMMA WindowBlocks ==
  ASSUME NEW b \in Block, NEW a \in Window(b)
  PROVE  a \in Block /\ a # b /\ Extends(b, a) /\ round[a] < round[b]
<1>1. a \in Block /\ a # b /\ Extends(b, a)
  BY Zenon DEF Window
<1>. QED
  BY <1>1, ExtendsRounds, BlockAssumption

LEMMA WindowRootOf ==
  ASSUME NEW b \in Block
  PROVE  /\ WindowRoot(b) \in Window(b) \cup {b}
         /\ WindowRoot(b) \in Block
         /\ Extends(b, WindowRoot(b))
         /\ round[WindowRoot(b)] <= round[b]
         /\ \A a \in Window(b) : Extends(a, WindowRoot(b))
<1>. DEFINE W == Window(b) \cup {b}
<1>1. \A a \in W : a \in Block /\ Extends(b, a)
  BY WindowBlocks, ExtendsReflexive, Zenon
<1>2. \E a \in W : \A c \in W : round[a] <= round[c]
  <2>1. W \subseteq Block /\ W # {}
    BY <1>1, Zenon
  <2>. HIDE DEF W
  <2>. QED
    BY <2>1, LowestBlock, Zenon
<1>3. WindowRoot(b) \in W /\ \A c \in W : round[WindowRoot(b)] <= round[c]
  BY <1>2, Zenon DEF WindowRoot
<1>4. ASSUME NEW a \in Window(b)
      PROVE  Extends(a, WindowRoot(b))
  BY <1>1, <1>3, AncestorsComparable, Zenon
<1>. HIDE DEF W
<1>5. WindowRoot(b) \in Block /\ Extends(b, WindowRoot(b))
  BY <1>1, <1>3, Zenon
<1>6. round[WindowRoot(b)] <= round[b]
  BY <1>3, Zenon DEF W
<1>. QED
  BY <1>3, <1>4, <1>5, <1>6, Zenon DEF W

(* The window of a block that is no older than r, and on r's tree, ends    *)
(* where that of r ends or later.                                          *)
LEMMA WindowAbove ==
  ASSUME window_size \in Nat, NEW r \in Block, NEW b \in Block,
         Extends(b, WindowRoot(r)), round[r] <= round[b], NEW a \in Window(b)
  PROVE  Extends(a, WindowRoot(r))
<1>. DEFINE wr == WindowRoot(r)
<1>1. a \in Block /\ Extends(b, a)
  BY WindowBlocks, Zenon
<1>2. wr \in Block /\ Extends(r, wr) /\ round[wr] <= round[r]
  BY WindowRootOf, Zenon
<1>3. CASE round[wr] <= round[a]
  BY <1>1, <1>2, <1>3, AncestorsComparable, Zenon
<1>4. CASE round[a] < round[wr]
  <2>0. round[a] \in Nat /\ round[b] \in Nat /\ round[r] \in Nat /\ round[wr] \in Nat
    BY <1>1, <1>2, BlockAssumption, Zenon
  <2>1. Extends(wr, a)
    <3>1. round[a] <= round[wr]
      BY <1>4, <2>0
    <3>. QED
      BY <1>1, <1>2, <3>1, AncestorsComparable, Zenon
  <2>2. Extends(r, a) /\ a # r
    <3>1. Extends(r, a)
      BY <1>1, <1>2, <2>1, ExtendsTransitive, Zenon
    <3>2. a # r
      BY <1>2, <1>4, <2>0
    <3>. QED
      BY <3>1, <3>2, Zenon
  <2>3. /\ window_size > 0
        /\ round[a] >= calculate_window_start_round(round[b])
    BY Zenon DEF Window
  <2>4. round[a] >= calculate_window_start_round(round[r])
    <3>1. /\ calculate_window_start_round(round[r]) <= calculate_window_start_round(round[b])
          /\ calculate_window_start_round(round[r]) \in Nat
          /\ calculate_window_start_round(round[b]) \in Nat
      <4>1. round[b] <= round[b]
        BY <2>0
      <4>. QED
        BY <2>0, <4>1, WindowStart, Zenon
    <3>. QED
      BY <2>0, <2>3, <3>1
  <2>5. a \in Window(r)
    BY <1>1, <2>2, <2>3, <2>4, Zenon DEF Window
  <2>6. round[wr] <= round[a]
    BY <1>2, <2>5, WindowRootOf, ExtendsRounds, Zenon
  <2>. QED
    BY <1>4, <2>0, <2>6
<1>. QED
  BY <1>1, <1>2, <1>3, <1>4, BlockAssumption

(* The window root moves forward with the block.                           *)
LEMMA WindowRootGrows ==
  ASSUME window_size \in Nat, NEW r \in Block, NEW b \in Block, Extends(b, r)
  PROVE  Extends(WindowRoot(b), WindowRoot(r))
<1>1. WindowRoot(r) \in Block /\ Extends(r, WindowRoot(r))
  BY WindowRootOf, Zenon
<1>2. Extends(b, WindowRoot(r))
  BY <1>1, ExtendsTransitive, Zenon
<1>3. round[r] <= round[b]
  BY ExtendsRounds, Zenon
<1>4. WindowRoot(b) \in Window(b) \cup {b}
  BY WindowRootOf, Zenon
<1>. QED
  BY <1>2, <1>3, <1>4, WindowAbove, Zenon

(* find_root finds what a larger database holds too.                       *)
LEMMA FindRootGrows ==
  ASSUME NEW d, NEW e, NEW r \in Block, d.blocks \subseteq e.blocks, d.qcs \subseteq e.qcs,
         find_root(d, r)
  PROVE  find_root(e, r)
BY Zenon DEF find_root, StoredBlocks, StoredQCs

----------------------------------------------------------------------------
(* Paths and recovery.                                                     *)
LEMMA InPath ==
  ASSUME NEW a \in Block, NEW b \in Block
  PROVE  /\ \A c : c \in Path(a, b)
                     <=> c \in Block /\ Extends(b, c) /\ Extends(c, a) /\ c # a
         /\ Path(a, a) = {}
<1>1. \A c : c \in Path(a, b)
              <=> c \in Block /\ Extends(b, c) /\ Extends(c, a) /\ c # a
  BY ExtendsBlock, Zenon DEF Path, Extends
<1>2. \A c : c \in Path(a, a) => c \in Block /\ Extends(a, c) /\ Extends(c, a) /\ c # a
  BY ExtendsBlock, Zenon DEF Path, Extends
<1>3. ASSUME NEW c \in Block, Extends(a, c), Extends(c, a)
      PROVE  c = a
  <2>1. round[a] <= round[c] /\ (round[a] = round[c] => c = a)
    BY <1>3, ExtendsRounds, Zenon
  <2>2. round[c] <= round[a]
    BY <1>3, ExtendsRounds, Zenon
  <2>. QED
    BY <2>1, <2>2, BlockAssumption
<1>. QED
  BY <1>1, <1>2, <1>3, Zenon

(* What is kept has, with a block, the path to it from the window root.    *)
LEMMA RetainedPaths ==
  ASSUME window_size \in Nat, NEW d \in [blocks : SUBSET Block, qcs : SUBSET Certified],
         NEW root \in Block, find_root(d, root)
  PROVE  /\ Retained(d, root) \subseteq StoredBlocks(d, root)
         /\ Retained(d, root) \subseteq Block
         /\ WindowRoot(root) \in Retained(d, root) /\ root \in Retained(d, root)
         /\ Window(root) \subseteq Retained(d, root)
         /\ \A b \in Retained(d, root) : Extends(b, WindowRoot(root))
         /\ \A b \in Retained(d, root), x \in Block :
              Extends(b, x) /\ Extends(x, WindowRoot(root)) => x \in Retained(d, root)
<1>. DEFINE wr == WindowRoot(root)
            St == StoredBlocks(d, root)
            Re == Retained(d, root)
<1>1. St \subseteq Block
  BY BlockAssumption, Zenon DEF StoredBlocks
<1>2. wr \in Block /\ Extends(root, wr) /\ wr \in Window(root) \cup {root}
  BY WindowRootOf, Zenon
<1>3. root \in St /\ Window(root) \subseteq St
  BY Zenon DEF find_root
<1>4. wr \in St
  BY <1>2, <1>3, Zenon
<1>5. Re = {b \in St : Extends(b, wr) /\ Path(wr, b) \subseteq St}
  BY Zenon DEF Retained
<1>. HIDE DEF wr, St, Re
<1>6. wr \in Re
  BY <1>2, <1>4, <1>5, InPath, ExtendsReflexive, Zenon
<1>7. ASSUME NEW b \in Re, NEW x \in Block, Extends(b, x), Extends(x, wr)
      PROVE  x \in Re
  <2>1. CASE x = wr
    BY <1>6, <2>1, Zenon
  <2>2. CASE x # wr
    <3>1. b \in Block /\ Path(wr, b) \subseteq St
      BY <1>1, <1>5, Zenon
    <3>2. x \in Path(wr, b)
      BY <1>2, <1>7, <2>2, <3>1, InPath, Zenon
    <3>3. Path(wr, x) \subseteq Path(wr, b)
      <4>. SUFFICES ASSUME NEW c \in Path(wr, x) PROVE c \in Path(wr, b)
        OBVIOUS
      <4>1. c \in Block /\ Extends(x, c) /\ Extends(c, wr) /\ c # wr
        BY <1>2, InPath, Zenon
      <4>2. Extends(b, c)
        BY <1>7, <4>1, ExtendsTransitive, Zenon
      <4>. QED
        BY <1>2, <3>1, <4>1, <4>2, InPath, Zenon
    <3>. QED
      BY <1>5, <1>7, <3>1, <3>2, <3>3, Zenon
  <2>. QED
    BY <2>1, <2>2, Zenon
<1>8. ASSUME NEW c \in Block, Extends(root, c), Extends(c, wr), c # root
      PROVE  c \in Window(root)
  <2>0. round[root] \in Nat /\ round[c] \in Nat /\ round[wr] \in Nat
    BY <1>2, BlockAssumption, Zenon
  <2>1. round[wr] <= round[c] /\ round[c] <= round[root]
    BY <1>2, <1>8, ExtendsRounds, Zenon
  <2>2. wr # root
    <3>. SUFFICES ASSUME wr = root PROVE FALSE
      OBVIOUS
    <3>1. round[root] <= round[c] /\ (round[root] = round[c] => c = root)
      BY <1>8, ExtendsRounds, Zenon
    <3>. QED
      BY <1>8, <2>0, <2>1, <3>1
  <2>3. /\ window_size > 0
        /\ round[wr] >= calculate_window_start_round(round[root])
    BY <1>2, <2>2, Zenon DEF Window
  <2>4. calculate_window_start_round(round[root]) \in Nat
    BY <2>0 DEF calculate_window_start_round
  <2>5. round[c] >= calculate_window_start_round(round[root])
    BY <2>0, <2>1, <2>3, <2>4
  <2>. QED
    BY <1>8, <2>3, <2>5, Zenon DEF Window
<1>9. root \in Re
  <2>1. Path(wr, root) \subseteq St
    BY <1>2, <1>3, <1>8, InPath, Zenon
  <2>. QED
    BY <1>2, <1>3, <1>5, <2>1, Zenon
<1>10. Window(root) \subseteq Re
  <2>. SUFFICES ASSUME NEW a \in Window(root) PROVE a \in Re
    OBVIOUS
  <2>1. a \in Block /\ Extends(root, a)
    BY WindowBlocks, Zenon
  <2>2. Extends(a, wr)
    BY WindowRootOf, Zenon DEF wr
  <2>. QED
    BY <1>7, <1>9, <2>1, <2>2, Zenon
<1>. QED
  BY <1>1, <1>5, <1>6, <1>7, <1>9, <1>10, Zenon DEF wr, St, Re

(* BlockStore::build never panics once find_root has found a root.         *)
LEMMA BuildSucceeds ==
  ASSUME window_size \in Nat, NEW d \in [blocks : SUBSET Block, qcs : SUBSET Certified],
         NEW root \in Block, find_root(d, root)
  PROVE  build_succeeds(d, root)
<1>. SUFFICES ASSUME NEW b \in Retained(d, root), round[b] > round[root],
                     NEW a \in Window(b)
              PROVE  a \in Retained(d, root)
  BY Zenon DEF build_succeeds
<1>1. b \in Block /\ Extends(b, WindowRoot(root))
  BY RetainedPaths, Zenon
<1>2. a \in Block /\ Extends(b, a)
  BY <1>1, WindowBlocks, Zenon
<1>3. round[root] <= round[b]
  BY <1>1, BlockAssumption
<1>4. Extends(a, WindowRoot(root))
  BY <1>1, <1>3, WindowAbove, Zenon
<1>. QED
  BY <1>2, <1>4, RetainedPaths, Zenon

(* The tree, database and pipeline that build makes of storage's data.     *)
LEMMA RecoveredStore ==
  ASSUME window_size \in Nat, NEW d \in [blocks : SUBSET Block, qcs : SUBSET Certified],
         NEW root \in Committable, find_root(d, root),
         Genesis \in d.blocks => window_size = 0,
         NEW t, t = Recovered(d, root).tree, NEW e, e = Recovered(d, root).db,
         NEW f, f = Recovered(d, root).pipeline
  PROVE  /\ TreeOK(t) /\ t.commit_root = root
         /\ e \in [blocks : SUBSET Block, qcs : SUBSET Certified]
         /\ e.blocks = Retained(d, root) \ {Genesis}
         /\ e.qcs = StoredQCs(d, root) \cap Retained(d, root)
         /\ t.blocks = Retained(d, root)
         /\ t.certified \in e.qcs
         /\ \A c \in e.qcs : round[c] <= round[t.certified]
         /\ find_root(e, root)
         /\ f \subseteq Final
         /\ \A b \in f : round[root] < round[b] /\ round[b] <= round[t.ordered_root]
         /\ \A b \in f : \E c \in t.blocks : commit_info(c) = b /\ c \in Certified
<1>. DEFINE blocks == Retained(d, root)
            qcs == StoredQCs(d, root) \cap blocks
            commits == ({commit_info(c) : c \in qcs \ {Genesis}} \ {None}) \cup {root}
<1>1. /\ t = [blocks |-> blocks, links |-> blocks \ {WindowRoot(root)},
              qcs |-> qcs, ordered_root |-> Highest(commits),
              commit_root |-> root, window_root |-> WindowRoot(root),
              certified |-> Highest({root} \cup qcs), hoc |-> Highest(commits),
              pruned |-> <<>>]
      /\ e = [blocks |-> blocks \ {Genesis}, qcs |-> qcs]
      /\ f = {b \in commits : round[b] > round[root]}
  BY Zenon DEF Recovered
<1>2. /\ root \in Block /\ root \in Certified
      /\ Genesis \in Block /\ Genesis \in Certified
  BY CommittableBlocks, CertificateAssumption, Zenon
<1>3. /\ blocks \subseteq StoredBlocks(d, root) /\ blocks \subseteq Block
      /\ WindowRoot(root) \in blocks /\ root \in blocks
      /\ Window(root) \subseteq blocks
      /\ \A b \in blocks : Extends(b, WindowRoot(root))
      /\ \A b \in blocks, x \in Block :
           Extends(b, x) /\ Extends(x, WindowRoot(root)) => x \in blocks
  BY <1>2, RetainedPaths, Zenon
<1>4. qcs \subseteq Certified /\ root \in qcs
  <2>1. root \in StoredQCs(d, root)
    BY Zenon DEF find_root
  <2>2. StoredQCs(d, root) \subseteq Certified
    BY <1>2, Zenon DEF StoredQCs
  <2>. QED
    BY <1>3, <2>1, <2>2, Zenon
<1>5. commits \subseteq Committable /\ commits # {}
  BY <1>4, CommitInfo, Zenon DEF Committable
<1>6. \A b \in commits : b # root => \E c \in qcs : commit_info(c) = b /\ c \in Certified
  BY <1>4, Zenon
<1>. HIDE DEF blocks, qcs, commits
<1>7. /\ t.blocks = blocks /\ t.links = blocks \ {WindowRoot(root)} /\ t.qcs = qcs
      /\ t.ordered_root = Highest(commits) /\ t.hoc = Highest(commits)
      /\ t.commit_root = root /\ t.window_root = WindowRoot(root)
      /\ t.certified = Highest({root} \cup qcs) /\ t.pruned = <<>>
  BY <1>1
<1>8. e.blocks = blocks \ {Genesis} /\ e.qcs = qcs
  BY <1>1
<1>9. Highest(commits) \in commits /\ \A b \in commits : round[b] <= round[Highest(commits)]
  BY <1>5, CommittableBlocks, HighestOf, Zenon
<1>10. /\ t.certified \in qcs
       /\ \A c \in qcs : round[c] <= round[t.certified]
  <2>1. {root} \cup qcs = qcs /\ qcs \subseteq Block /\ qcs # {}
    BY <1>4, CommittableBlocks, Zenon
  <2>. QED
    BY <1>7, <2>1, HighestOf, Zenon
<1>11. round[root] <= round[Highest(commits)]
  BY <1>9, Zenon DEF commits
<1>12. round[Highest(commits)] <= round[t.certified]
  <2>1. CASE Highest(commits) = root
    BY <1>4, <1>10, <2>1, Zenon
  <2>2. CASE Highest(commits) # root
    <3>1. PICK c \in qcs : commit_info(c) = Highest(commits) /\ c \in Certified
      BY <1>6, <1>9, <2>2, Zenon
    <3>2. Highest(commits) \in Block /\ c \in Block /\ t.certified \in Block
      BY <1>4, <1>5, <1>9, <1>10, CommittableBlocks, Zenon
    <3>3. Highest(commits) # None
      BY <3>2, BlockAssumption, Zenon
    <3>4. round[Highest(commits)] < round[c]
      BY <3>1, <3>3, CommitInfo, Zenon
    <3>5. round[c] <= round[t.certified]
      BY <1>10, <3>1, Zenon
    <3>. QED
      BY <3>2, <3>4, <3>5, BlockAssumption
  <2>. QED
    BY <2>1, <2>2, Zenon
<1>13. qcs \subseteq blocks
  BY Zenon DEF qcs
<1>14. t \in BlockTree
  <2>1. /\ Highest(commits) \in Block /\ WindowRoot(root) \in Block
        /\ Highest({root} \cup qcs) \in Block
    BY <1>3, <1>5, <1>7, <1>9, <1>10, <1>13, CommittableBlocks, Zenon
  <2>2. <<>> \in Seq(Block)
    OBVIOUS
  <2>. QED
    BY <1>1, <1>2, <1>3, <1>13, <2>1, <2>2 DEF BlockTree
<1>15. TreeOK(t)
  <2>1. {t.commit_root, t.ordered_root, t.hoc} \subseteq Committable
    BY <1>5, <1>7, <1>9, Zenon
  <2>2. t.certified \in Certified /\ t.certified \in t.blocks
    BY <1>4, <1>7, <1>10, <1>13, Zenon
  <2>3. /\ round[t.commit_root] <= round[t.ordered_root]
        /\ round[t.ordered_root] <= round[t.hoc]
        /\ round[t.hoc] <= round[t.certified]
    BY <1>7, <1>11, <1>12, <2>1, CommittableBlocks
  <2>4. ASSUME NEW b \in t.blocks, Extends(b, t.window_root)
        PROVE  Path(t.window_root, b) \subseteq t.blocks
    BY <1>3, <1>7, <2>4, InPath
  <2>5. \A b \in Elements(t.pruned) : ~Extends(b, t.window_root)
    BY <1>7 DEF Elements
  <2>. QED
    BY <1>3, <1>7, <1>10, <1>14, <2>1, <2>2, <2>3, <2>4, <2>5, Zenon DEF TreeOK
<1>16. find_root(e, root)
  <2>1. root \in StoredBlocks(e, root)
    BY <1>3, <1>8, Zenon DEF StoredBlocks
  <2>2. root \in StoredQCs(e, root)
    BY <1>4, <1>8, Zenon DEF StoredQCs
  <2>3. Window(root) \subseteq StoredBlocks(e, root)
    <3>. SUFFICES ASSUME NEW a \in Window(root), a = Genesis, root # Genesis PROVE FALSE
      BY <1>3, <1>8, Zenon DEF StoredBlocks
    <3>1. a \in StoredBlocks(d, root)
      BY Zenon DEF find_root
    <3>. QED
      BY <3>1 DEF StoredBlocks, Window
  <2>. QED
    BY <2>1, <2>2, <2>3, Zenon DEF find_root
<1>17. f \subseteq Final /\ \A b \in f : round[root] < round[b]
  <2>. SUFFICES ASSUME NEW b \in f PROVE b \in Final /\ round[root] < round[b]
    OBVIOUS
  <2>1. b \in commits /\ round[b] > round[root]
    BY <1>1, Zenon
  <2>2. round[b] \in Nat /\ round[root] \in Nat /\ b \in Block
    BY <1>5, <2>1, CommittableBlocks, Zenon
  <2>3. PICK c \in qcs : commit_info(c) = b /\ c \in Certified
    BY <1>6, <2>1, <2>2
  <2>4. b # None
    BY <2>2, BlockAssumption, Zenon
  <2>. QED
    BY <2>1, <2>2, <2>3, <2>4, CommitInfo, Zenon
<1>18. ASSUME NEW b \in f
       PROVE  /\ round[b] <= round[t.ordered_root]
              /\ \E c \in t.blocks : commit_info(c) = b /\ c \in Certified
  <2>1. b \in commits /\ b # root
    BY <1>1, <1>2, BlockAssumption
  <2>. QED
    BY <1>6, <1>7, <1>9, <1>13, <2>1, Zenon
<1>19. e \in [blocks : SUBSET Block, qcs : SUBSET Certified]
  BY <1>1, <1>3, <1>4
<1>. QED
  BY <1>7, <1>8, <1>10, <1>15, <1>16, <1>17, <1>18, <1>19, Zenon DEF blocks, qcs

----------------------------------------------------------------------------
(* Operations on the tree.                                                 *)
LEMMA TreeRoots ==
  ASSUME window_size \in Nat, NEW t, TreeOK(t)
  PROVE  /\ t.window_root \in Block /\ t.commit_root \in Block
         /\ t.ordered_root \in Block /\ t.hoc \in Block /\ t.certified \in Block
         /\ Extends(t.commit_root, t.window_root)
         /\ \A x \in Certified : round[t.commit_root] <= round[x]
                                   => Extends(x, t.window_root)
         /\ Extends(t.certified, t.window_root)
         /\ round[t.commit_root] <= round[t.certified]
         /\ round[t.ordered_root] <= round[t.certified]
<1>1. /\ t.commit_root \in Committable /\ t.ordered_root \in Committable
      /\ t.hoc \in Committable /\ t.certified \in Certified
      /\ t.window_root = WindowRoot(t.commit_root)
      /\ round[t.commit_root] <= round[t.ordered_root]
      /\ round[t.ordered_root] <= round[t.hoc]
      /\ round[t.hoc] <= round[t.certified]
  BY Zenon DEF TreeOK
<1>2. /\ t.commit_root \in Block /\ t.ordered_root \in Block
      /\ t.hoc \in Block /\ t.certified \in Block
  BY <1>1, CommittableBlocks, Zenon
<1>3. t.window_root \in Block /\ Extends(t.commit_root, t.window_root)
  BY <1>1, <1>2, WindowRootOf, Zenon
<1>4. /\ round[t.commit_root] <= round[t.certified]
      /\ round[t.ordered_root] <= round[t.certified]
  <2>1. /\ round[t.commit_root] \in Nat /\ round[t.ordered_root] \in Nat
        /\ round[t.hoc] \in Nat /\ round[t.certified] \in Nat
    BY <1>2, BlockAssumption, Zenon
  <2>. QED
    BY <1>1, <2>1
<1>5. ASSUME NEW x \in Certified, round[t.commit_root] <= round[x]
      PROVE  Extends(x, t.window_root)
  <2>1. Extends(x, t.commit_root)
    BY <1>1, <1>5, CommittableBlocks, Zenon
  <2>. QED
    BY <1>2, <1>3, <2>1, ExtendsTransitive, Zenon
<1>. QED
  BY <1>1, <1>2, <1>3, <1>4, <1>5, Zenon

(* What lies between the window root and a block in memory is in memory.   *)
LEMMA OnPath ==
  ASSUME window_size \in Nat, NEW t, TreeOK(t), NEW b \in t.blocks, NEW x \in Block,
         Extends(b, x), Extends(x, t.window_root)
  PROVE  x \in t.blocks
<1>1. t.window_root \in Block /\ t.window_root \in t.blocks
  BY TreeRoots, Zenon DEF TreeOK
<1>2. b \in Block
  BY Zenon DEF TreeOK, BlockTree
<1>3. Extends(b, t.window_root)
  BY <1>1, ExtendsTransitive, Zenon
<1>4. Path(t.window_root, b) \subseteq t.blocks
  BY <1>3, Zenon DEF TreeOK
<1>. QED
  BY <1>1, <1>2, <1>4, InPath, Zenon

(* So is every block between the commit root and the highest certified one *)
(* that a certificate commits, with its window.                            *)
LEMMA TreeHolds ==
  ASSUME window_size \in Nat, NEW t, TreeOK(t), NEW x \in Committable,
         round[t.commit_root] <= round[x], round[x] <= round[t.certified]
  PROVE  /\ x \in t.blocks /\ Extends(x, t.window_root)
         /\ Window(x) \subseteq t.blocks
         /\ \A a \in Window(x) : Extends(a, t.window_root)
<1>1. x \in Block /\ x \in Certified
  BY CommittableBlocks, Zenon
<1>2. /\ t.certified \in Certified /\ t.certified \in t.blocks
      /\ t.window_root = WindowRoot(t.commit_root)
  BY Zenon DEF TreeOK
<1>3. Extends(t.certified, x)
  BY <1>2, CommittableBlocks, Zenon
<1>4. Extends(x, t.window_root) /\ t.commit_root \in Block
  BY <1>1, TreeRoots, Zenon
<1>5. x \in t.blocks
  BY <1>1, <1>2, <1>3, <1>4, OnPath, Zenon
<1>6. ASSUME NEW a \in Window(x)
      PROVE  Extends(a, t.window_root) /\ a \in t.blocks
  <2>1. a \in Block /\ Extends(x, a)
    BY <1>1, WindowBlocks, Zenon
  <2>2. Extends(a, t.window_root)
    BY <1>1, <1>2, <1>4, WindowAbove, Zenon
  <2>. QED
    BY <1>5, <2>1, <2>2, OnPath, Zenon
<1>. QED
  BY <1>4, <1>5, <1>6, Zenon

LEMMA InsertBlockOK ==
  ASSUME window_size \in Nat, NEW t, TreeOK(t), NEW b \in Block, b # Genesis,
         NEW u, u = insert_block(t, b)
  PROVE  /\ TreeOK(u)
         /\ u.blocks \subseteq t.blocks \cup {b}
         /\ u.window_root = t.window_root /\ u.commit_root = t.commit_root
         /\ u.ordered_root = t.ordered_root /\ u.certified = t.certified
<1>1. CASE parent[b] \in t.blocks
  <2>0. t \in BlockTree
    BY Zenon DEF TreeOK
  <2>1. u = [t EXCEPT !.blocks = t.blocks \cup {b}, !.links = t.links \cup {b}]
    BY <1>1, <2>0, Zenon DEF insert_block, BlockTree
  <2>2. /\ u \in BlockTree
        /\ u.blocks = t.blocks \cup {b} /\ u.links = t.links \cup {b}
        /\ u.qcs = t.qcs /\ u.ordered_root = t.ordered_root
        /\ u.commit_root = t.commit_root /\ u.window_root = t.window_root
        /\ u.certified = t.certified /\ u.hoc = t.hoc /\ u.pruned = t.pruned
    <3>1. t.blocks \cup {b} \in SUBSET Block /\ t.links \cup {b} \in SUBSET Block
      BY <2>0, Zenon DEF BlockTree
    <3>2. u \in BlockTree
      BY <2>0, <2>1, <3>1, Zenon DEF BlockTree
    <3>. QED
      BY <2>0, <2>1, <3>2, Zenon DEF BlockTree
  <2>3. t.window_root \in Block /\ t.blocks \subseteq Block
    BY <2>0, TreeRoots, Zenon DEF BlockTree
  <2>4. ASSUME NEW c \in u.blocks, Extends(c, t.window_root)
        PROVE  Path(t.window_root, c) \subseteq u.blocks
    <3>1. CASE c \in t.blocks
      BY <2>2, <2>4, <3>1, Zenon DEF TreeOK
    <3>2. CASE c = b
      <4>. SUFFICES ASSUME NEW x \in Path(t.window_root, b) PROVE x \in u.blocks
        BY <3>2, Zenon
      <4>1. x \in Block /\ Extends(b, x) /\ Extends(x, t.window_root)
        BY <2>3, InPath, Zenon
      <4>2. CASE x = b
        BY <2>2, <4>2, Zenon
      <4>3. CASE x # b
        <5>1. Extends(parent[b], x)
          BY <4>1, <4>3, ExtendsParent, Zenon
        <5>2. x \in t.blocks
          BY <1>1, <4>1, <5>1, OnPath, Zenon
        <5>. QED
          BY <2>2, <5>2, Zenon
      <4>. QED
        BY <4>2, <4>3, Zenon
    <3>. QED
      BY <2>2, <3>1, <3>2, Zenon
  <2>. QED
    BY <2>2, <2>4, Zenon DEF TreeOK
<1>2. CASE parent[b] \notin t.blocks
  BY <1>2, Zenon DEF insert_block
<1>. QED
  BY <1>1, <1>2, Zenon

LEMMA InsertQuorumCertOK ==
  ASSUME window_size \in Nat, NEW t, TreeOK(t), NEW c \in Certified, c \in t.blocks,
         NEW u, u = insert_quorum_cert(t, c)
  PROVE  /\ TreeOK(u)
         /\ u.blocks = t.blocks /\ u.certified = Later(c, t.certified)
         /\ u.window_root = t.window_root /\ u.commit_root = t.commit_root
         /\ u.ordered_root = t.ordered_root
         /\ round[t.certified] <= round[u.certified]
         /\ round[c] <= round[u.certified]
         /\ commit_info(c) # None => round[commit_info(c)] <= round[u.hoc]
<1>0. t \in BlockTree
  BY Zenon DEF TreeOK
<1>. DEFINE h == IF commit_info(c) = None THEN t.hoc ELSE Later(commit_info(c), t.hoc)
<1>1. u = [t EXCEPT !.qcs = t.qcs \cup {c}, !.certified = Later(c, t.certified), !.hoc = h]
  BY <1>0, Zenon DEF insert_quorum_cert, BlockTree
<1>2. c \in Block /\ t.certified \in Block /\ t.hoc \in Block /\ t.qcs \subseteq Block
  BY <1>0, CommittableBlocks, Zenon DEF BlockTree
<1>3. /\ Later(c, t.certified) \in {c, t.certified}
      /\ round[c] <= round[Later(c, t.certified)]
      /\ round[t.certified] <= round[Later(c, t.certified)]
  BY <1>2, LaterOf, Zenon
<1>4. /\ h \in Committable
      /\ round[t.hoc] <= round[h] /\ round[h] <= round[Later(c, t.certified)]
      /\ commit_info(c) # None => round[commit_info(c)] <= round[h]
  <2>0. t.hoc \in Committable /\ round[t.hoc] <= round[t.certified]
    BY Zenon DEF TreeOK
  <2>1. CASE commit_info(c) = None
    BY <1>2, <1>3, <2>0, <2>1, BlockAssumption
  <2>2. CASE commit_info(c) # None
    <3>1. commit_info(c) \in Committable /\ round[commit_info(c)] < round[c]
      BY <2>2, CommitInfo, Zenon DEF Committable
    <3>2. commit_info(c) \in Block
      BY <3>1, CommittableBlocks, Zenon
    <3>3. /\ h \in {commit_info(c), t.hoc}
          /\ round[commit_info(c)] <= round[h] /\ round[t.hoc] <= round[h]
      BY <1>2, <2>2, <3>2, LaterOf, Zenon
    <3>. HIDE DEF h
    <3>. QED
      BY <1>2, <1>3, <2>0, <3>1, <3>2, <3>3, BlockAssumption
  <2>. QED
    BY <2>1, <2>2, Zenon
<1>. HIDE DEF h
<1>5. h \in Block /\ Later(c, t.certified) \in Block
  BY <1>2, <1>3, <1>4, CommittableBlocks, Zenon
<1>6. /\ u \in BlockTree
      /\ u.blocks = t.blocks /\ u.links = t.links
      /\ u.qcs = t.qcs \cup {c} /\ u.ordered_root = t.ordered_root
      /\ u.commit_root = t.commit_root /\ u.window_root = t.window_root
      /\ u.certified = Later(c, t.certified) /\ u.hoc = h /\ u.pruned = t.pruned
  <2>1. t.qcs \cup {c} \in SUBSET Block
    BY <1>2, Zenon
  <2>2. u \in BlockTree
    BY <1>0, <1>1, <1>5, <2>1, Zenon DEF BlockTree
  <2>. QED
    BY <1>0, <1>1, <2>2, Zenon DEF BlockTree
<1>7. ASSUME NEW q \in u.qcs
      PROVE  round[q] <= round[u.certified]
  <2>1. CASE q = c
    BY <1>3, <1>6, <2>1, Zenon
  <2>2. CASE q \in t.qcs
    <3>1. round[q] <= round[t.certified]
      BY <2>2, Zenon DEF TreeOK
    <3>2. round[q] \in Nat /\ round[t.certified] \in Nat /\ round[u.certified] \in Nat
      BY <1>2, <1>5, <1>6, <2>2, BlockAssumption, Zenon
    <3>. QED
      BY <1>3, <1>6, <3>1, <3>2
  <2>. QED
    BY <1>6, <2>1, <2>2, Zenon
<1>8. round[u.ordered_root] <= round[u.hoc] /\ round[u.hoc] <= round[u.certified]
  <2>1. round[t.ordered_root] <= round[t.hoc] /\ t.ordered_root \in Block
    BY TreeRoots, Zenon DEF TreeOK
  <2>. QED
    BY <1>2, <1>4, <1>5, <1>6, <2>1, BlockAssumption
<1>9. u.certified \in Certified /\ u.certified \in u.blocks
  BY <1>3, <1>6, Zenon DEF TreeOK
<1>. QED
  BY <1>3, <1>4, <1>6, <1>7, <1>8, <1>9, Zenon DEF TreeOK

LEMMA SendForExecutionOK ==
  ASSUME NEW t, TreeOK(t), NEW f \in Final,
         round[t.ordered_root] < round[f], round[f] <= round[t.certified],
         window_size \in Nat, NEW u, u = send_for_execution(t, f)
  PROVE  /\ TreeOK(u)
         /\ u.blocks = t.blocks /\ u.certified = t.certified
         /\ u.window_root = t.window_root /\ u.commit_root = t.commit_root
         /\ u.ordered_root = f
<1>0. t \in BlockTree /\ t.hoc \in Committable /\ round[t.hoc] <= round[t.certified]
      /\ round[t.commit_root] <= round[t.ordered_root] /\ f \in Committable
  BY Zenon DEF TreeOK, Committable
<1>1. f \in Block /\ t.hoc \in Block /\ t.commit_root \in Block /\ t.ordered_root \in Block
  BY <1>0, TreeRoots, CommittableBlocks, Zenon
<1>2. Later(f, t.hoc) \in {f, t.hoc} /\ round[f] <= round[Later(f, t.hoc)]
  BY <1>1, LaterOf, Zenon
<1>3. u = [t EXCEPT !.ordered_root = f, !.hoc = Later(f, t.hoc)]
  BY <1>0, Zenon DEF send_for_execution, BlockTree
<1>4. u \in BlockTree
  <2>1. Later(f, t.hoc) \in Block
    BY <1>1, <1>2, Zenon
  <2>. QED
    BY <1>0, <1>1, <1>3, <2>1, Zenon DEF BlockTree
<1>5. /\ u.blocks = t.blocks /\ u.links = t.links /\ u.qcs = t.qcs
      /\ u.ordered_root = f /\ u.commit_root = t.commit_root
      /\ u.window_root = t.window_root /\ u.certified = t.certified
      /\ u.hoc = Later(f, t.hoc) /\ u.pruned = t.pruned
  BY <1>0, <1>3, Zenon DEF BlockTree
<1>6. /\ round[u.commit_root] <= round[u.ordered_root]
      /\ round[u.ordered_root] <= round[u.hoc]
      /\ round[u.hoc] <= round[u.certified]
  BY <1>0, <1>1, <1>2, <1>5, BlockAssumption
<1>7. u.hoc \in Committable
  BY <1>0, <1>2, <1>5, Zenon
<1>. QED
  BY <1>0, <1>4, <1>5, <1>6, <1>7, Zenon DEF TreeOK

(* The blocks that leave memory, and those kept as pruned, were pruned     *)
(* before or are pruned now.                                               *)
LEMMA PrunedBlocks ==
  ASSUME NEW t \in BlockTree, NEW S \in SUBSET Block, NEW s \in PruneOrders(S),
         NEW u, u = process_pruned_blocks(t, s)
  PROVE  /\ u \in BlockTree
         /\ u.ordered_root = t.ordered_root /\ u.commit_root = t.commit_root
         /\ u.window_root = t.window_root /\ u.certified = t.certified
         /\ u.hoc = t.hoc
         /\ u.blocks \subseteq t.blocks /\ u.qcs \subseteq t.qcs
         /\ u.links \subseteq t.links
         /\ t.blocks \subseteq u.blocks \cup Elements(t.pruned) \cup S
         /\ Elements(u.pruned) \subseteq Elements(t.pruned) \cup S
<1>. DEFINE all == t.pruned \o s
            n == IF Len(all) > max_pruned_blocks_in_mem
                 THEN Len(all) - max_pruned_blocks_in_mem ELSE 0
            gone == {all[i] : i \in 1 .. n}
            p == SubSeq(all, n + 1, Len(all))
<1>1. s \in Seq(S) /\ t.pruned \in Seq(Block)
  BY Zenon DEF PruneOrders, BlockTree
<1>2. /\ all \in Seq(Block) /\ Len(all) \in Nat
      /\ \A i \in 1 .. Len(all) : all[i] \in Elements(t.pruned) \cup S
  <2>1. all \in Seq(Block) /\ Len(all) \in Nat
    BY <1>1
  <2>2. ASSUME NEW i \in 1 .. Len(all)
        PROVE  all[i] \in Elements(t.pruned) \cup S
    BY <1>1 DEF Elements
  <2>. QED
    BY <2>1, <2>2, Zenon
<1>. HIDE DEF all
<1>3. n \in 0 .. Len(all)
  BY <1>2, SizeAssumption
<1>. HIDE DEF n
<1>4. gone \subseteq Elements(t.pruned) \cup S
  BY <1>2, <1>3
<1>5. p \in Seq(Block) /\ Elements(p) \subseteq Elements(t.pruned) \cup S
  <2>1. /\ p \in Seq(Block) /\ Len(p) = Len(all) - n
        /\ \A i \in 1 .. Len(p) : p[i] = all[n + i]
    BY <1>2, <1>3
  <2>. HIDE DEF p
  <2>2. ASSUME NEW i \in DOMAIN p
        PROVE  p[i] \in Elements(t.pruned) \cup S
    <3>1. i \in 1 .. Len(p)
      BY <2>1
    <3>2. n + i \in 1 .. Len(all)
      BY <1>2, <1>3, <2>1, <3>1
    <3>. QED
      BY <1>2, <2>1, <3>1, <3>2, Zenon
  <2>. QED
    BY <2>1, <2>2, Zenon DEF Elements
<1>. DEFINE kids == {c \in t.links : parent[c] \notin gone}
<1>6. u = [t EXCEPT !.pruned = p, !.blocks = t.blocks \ gone, !.qcs = t.qcs \ gone,
                    !.links = kids]
  BY Zenon DEF process_pruned_blocks, all, n, BlockTree
<1>. HIDE DEF p, gone
<1>7. t.blocks \ gone \in SUBSET Block /\ t.qcs \ gone \in SUBSET Block
      /\ kids \in SUBSET Block
  BY Zenon DEF BlockTree
<1>8. kids \subseteq t.links
  OBVIOUS
<1>. HIDE DEF kids
<1>9. u \in BlockTree
  BY <1>5, <1>6, <1>7, Zenon DEF BlockTree
<1>10. /\ u.ordered_root = t.ordered_root /\ u.commit_root = t.commit_root
       /\ u.window_root = t.window_root /\ u.certified = t.certified
       /\ u.hoc = t.hoc /\ u.blocks = t.blocks \ gone /\ u.qcs = t.qcs \ gone
       /\ u.links = kids /\ u.pruned = p
  BY <1>6, Zenon DEF BlockTree
<1>. QED
  BY <1>4, <1>5, <1>8, <1>9, <1>10, Zenon

(* commit_callback: the roots move on to block b.                          *)
LEMMA PruneOK ==
  ASSUME window_size \in Nat, NEW t, TreeOK(t), NEW b \in Committable,
         round[t.commit_root] <= round[b], round[b] <= round[t.ordered_root],
         NEW S, S = find_blocks_to_prune(t, WindowRoot(b)), NEW s \in PruneOrders(S),
         NEW u, u = update_roots(process_pruned_blocks(t, s), b)
  PROVE  /\ TreeOK(u)
         /\ u.blocks \subseteq t.blocks
         /\ u.commit_root = b /\ u.window_root = WindowRoot(b)
         /\ u.ordered_root = t.ordered_root /\ u.certified = t.certified
         /\ Extends(WindowRoot(b), t.window_root)
<1>. DEFINE w == process_pruned_blocks(t, s)
<1>0. /\ t \in BlockTree /\ S \in SUBSET Block
      /\ t.commit_root \in Committable /\ t.certified \in Certified
      /\ t.window_root = WindowRoot(t.commit_root)
  BY Zenon DEF TreeOK, find_blocks_to_prune, BlockTree
<1>1. /\ w \in BlockTree
      /\ w.ordered_root = t.ordered_root /\ w.commit_root = t.commit_root
      /\ w.window_root = t.window_root /\ w.certified = t.certified
      /\ w.hoc = t.hoc
      /\ w.blocks \subseteq t.blocks /\ w.qcs \subseteq t.qcs
      /\ w.links \subseteq t.links
      /\ t.blocks \subseteq w.blocks \cup Elements(t.pruned) \cup S
      /\ Elements(w.pruned) \subseteq Elements(t.pruned) \cup S
  BY <1>0, PrunedBlocks
<1>. HIDE DEF w
<1>2. /\ b \in Block /\ b \in Certified /\ t.commit_root \in Block
      /\ t.ordered_root \in Block /\ t.certified \in Block /\ t.window_root \in Block
      /\ t.commit_root \in Certified
      /\ round[t.ordered_root] <= round[t.certified]
  BY <1>0, CommittableBlocks, TreeRoots, Zenon
<1>3. round[b] <= round[t.certified]
  BY <1>2, BlockAssumption
<1>4. Later(b, t.commit_root) = b
  BY <1>2, CertificateAssumption, BlockAssumption DEF Later
<1>5. /\ u = [w EXCEPT !.window_root = WindowRoot(b), !.commit_root = b]
  BY <1>1, <1>4, Zenon DEF update_roots, w
<1>6. /\ WindowRoot(b) \in Block /\ WindowRoot(b) \in Window(b) \cup {b}
      /\ Extends(b, WindowRoot(b))
  BY <1>2, WindowRootOf, Zenon
<1>7. /\ u \in BlockTree /\ u.blocks = w.blocks /\ u.links = w.links /\ u.qcs = w.qcs
      /\ u.ordered_root = t.ordered_root /\ u.commit_root = b
      /\ u.window_root = WindowRoot(b) /\ u.certified = t.certified
      /\ u.hoc = t.hoc /\ u.pruned = w.pruned
  <2>1. u \in BlockTree
    BY <1>1, <1>2, <1>5, <1>6, Zenon DEF BlockTree
  <2>. QED
    BY <1>1, <1>5, <2>1, Zenon DEF BlockTree
<1>8. Extends(WindowRoot(b), t.window_root)
  <2>1. Extends(b, t.commit_root)
    BY <1>0, <1>2, CommittableBlocks, Zenon
  <2>. QED
    BY <1>0, <1>2, <2>1, WindowRootGrows, Zenon
<1>9. ASSUME NEW x, Extends(x, WindowRoot(b))
      PROVE  /\ x \in Block /\ Extends(x, t.window_root)
             /\ x \notin Elements(t.pruned) \cup S
  <2>1. x \in Block /\ Extends(x, t.window_root)
    BY <1>2, <1>6, <1>8, <1>9, ExtendsBlock, ExtendsTransitive, Zenon
  <2>2. x \notin Elements(t.pruned)
    BY <2>1, Zenon DEF TreeOK
  <2>3. x \notin S
    BY <1>9, Zenon DEF find_blocks_to_prune
  <2>. QED
    BY <2>1, <2>2, <2>3, Zenon
<1>10. u.certified \in u.blocks
  <2>1. Extends(t.certified, b) /\ t.certified \in t.blocks
    BY <1>0, <1>3, CommittableBlocks, Zenon DEF TreeOK
  <2>2. Extends(t.certified, WindowRoot(b))
    BY <1>2, <1>6, <2>1, ExtendsTransitive, Zenon
  <2>. QED
    BY <1>1, <1>7, <1>9, <2>1, <2>2, Zenon
<1>11. u.window_root \in u.blocks
  <2>1. WindowRoot(b) \in t.blocks
    BY <1>3, <1>6, TreeHolds, Zenon
  <2>2. Extends(WindowRoot(b), WindowRoot(b))
    BY <1>6, ExtendsReflexive, Zenon
  <2>. QED
    BY <1>1, <1>7, <1>9, <2>1, <2>2, Zenon
<1>12. ASSUME NEW x \in u.blocks, Extends(x, u.window_root)
       PROVE  Path(u.window_root, x) \subseteq u.blocks
  <2>. SUFFICES ASSUME NEW y \in Path(u.window_root, x) PROVE y \in u.blocks
    OBVIOUS
  <2>1. x \in Block /\ x \in t.blocks
    BY <1>1, <1>7, <1>9, <1>12, Zenon
  <2>2. y \in Block /\ Extends(x, y) /\ Extends(y, WindowRoot(b))
    BY <1>6, <1>7, <2>1, InPath, Zenon
  <2>3. y \in t.blocks
    BY <1>9, <2>1, <2>2, OnPath, Zenon
  <2>. QED
    BY <1>1, <1>7, <1>9, <2>2, <2>3, Zenon
<1>13. ASSUME NEW c \in u.links, Extends(c, u.window_root)
       PROVE  c \in u.blocks
  <2>1. c \in t.links /\ Extends(c, t.window_root)
    BY <1>1, <1>7, <1>9, <1>13, Zenon
  <2>2. c \in t.blocks
    BY <2>1, Zenon DEF TreeOK
  <2>. QED
    BY <1>1, <1>7, <1>9, <1>13, <2>2, Zenon
<1>14. \A x \in Elements(u.pruned) : ~Extends(x, u.window_root)
  BY <1>1, <1>7, <1>9, Zenon
<1>15. \A c \in u.qcs : round[c] <= round[u.certified]
  BY <1>1, <1>7, Zenon DEF TreeOK
<1>16. TreeOK(u)
  <2>1. /\ {u.commit_root, u.ordered_root, u.hoc} \subseteq Committable
        /\ round[u.commit_root] <= round[u.ordered_root]
        /\ round[u.ordered_root] <= round[u.hoc]
        /\ round[u.hoc] <= round[u.certified] /\ u.certified \in Certified
        /\ u.window_root = WindowRoot(u.commit_root)
    BY <1>7, Zenon DEF TreeOK
  <2>. QED
    BY <1>7, <1>10, <1>11, <1>12, <1>13, <1>14, <1>15, <2>1, Zenon DEF TreeOK
<1>. QED
  BY <1>1, <1>7, <1>8, <1>16, Zenon

-----------------------------------------------------------------------------
(* Storage holds the blocks in memory that descend from the window root,   *)
(* and the highest certificate.                                            *)
Stored ==
  /\ db \in [blocks : SUBSET Block, qcs : SUBSET Certified]
  /\ \A b \in tree.blocks \ {Genesis} : Extends(b, tree.window_root) => b \in db.blocks
  /\ tree.certified \in db.qcs
  /\ inserting # Genesis /\ (Genesis \in db.blocks => window_size = 0)

Synced == IF syncing = None THEN FALSE ELSE syncing.synced

(* Blocks are committed in the order of their rounds, each after it was    *)
(* ordered, and the callbacks follow in that order.                        *)
Pipelined ==
  /\ ledger \in Committable /\ round[tree.commit_root] <= round[ledger]
  /\ running /\ ~Synced => round[ledger] <= round[tree.ordered_root]
  /\ Synced \/ ~running => pipeline = {}
  /\ pipeline \subseteq Final
  /\ \A f \in pipeline : /\ round[ledger] < round[f]
                         /\ round[f] <= round[tree.ordered_root]
  /\ \A i \in DOMAIN callbacks :
       /\ callbacks[i] \in Final
       /\ round[tree.commit_root] <= round[callbacks[i]]
       /\ round[callbacks[i]] <= round[ledger]
       /\ round[callbacks[i]] <= round[tree.ordered_root]
       /\ \A j \in DOMAIN callbacks : i < j => round[callbacks[i]] < round[callbacks[j]]
  /\ \A s \in stale : s \in Final /\ round[s] <= round[tree.commit_root]

(* What recovery is going to start from when the sync under way succeeds.  *)
Floor == IF syncing = None THEN ledger ELSE Later(syncing.target, ledger)

Pending == {inserting} \ {None}

(* The certificate of a block that can be committed is saved before any of *)
(* its descendants, unless a sync that saved later ones was interrupted.   *)
Recoverable ==
  /\ ~running => inserting = None /\ syncing = None
  /\ syncing # None =>
       /\ syncing.target \in Final /\ syncing.target # Genesis
       /\ ~interrupted => IF syncing.synced THEN ledger = syncing.target
                          ELSE latest_logical_time < round[syncing.target]
       /\ round[ledger] <= round[syncing.target] => find_root(db, syncing.target)
  /\ ~interrupted =>
       /\ \A z \in db.blocks \cup Pending, p \in Final :
            round[p] > round[Floor] /\ Extends(z, p) /\ z # p => p \in db.qcs
       /\ pipeline \subseteq db.qcs
       /\ latest_logical_time <= round[ledger]
       /\ ledger = Genesis \/ Genesis \notin Window(ledger) => find_root(db, ledger)

StoreInv == TypeOK /\ TreeOK(tree) /\ Stored /\ Pipelined /\ Recoverable
----------------------------------------------------------------------------
(* The steps.                                                              *)
LEMMA SameWindow ==
  ASSUME window_size' = window_size
  PROVE  /\ TreeOK(tree') => TreeOK(tree)'
         /\ \A b : Window(b)' = Window(b)
         /\ \A d, b : find_root(d, b)' <=> find_root(d, b)
<1>1. \A b : Window(b)' = Window(b)
  BY Zenon DEF Window, calculate_window_start_round
<1>2. \A d, b : find_root(d, b)' <=> find_root(d, b)
  BY <1>1, Zenon DEF find_root, StoredBlocks, StoredQCs
<1>3. TreeOK(tree') => TreeOK(tree)'
  BY <1>1, Zenon DEF TreeOK, WindowRoot, BlockTree, Elements, Path
<1>. QED
  BY <1>1, <1>2, <1>3, Zenon

(* The state as the steps use it.                                          *)
LEMMA StoreFacts ==
  ASSUME StoreInv
  PROVE  /\ window_size \in Nat /\ TreeOK(tree)
         /\ ledger \in Block /\ ledger \in Certified /\ ledger \in Committable
         /\ tree.commit_root \in Block /\ tree.ordered_root \in Block
         /\ tree.certified \in Block /\ tree.window_root \in Block
         /\ tree.certified \in Certified
         /\ round[tree.commit_root] <= round[ledger]
         /\ Floor \in Block /\ round[ledger] <= round[Floor]
         /\ db \in [blocks : SUBSET Block, qcs : SUBSET Certified]
         /\ \A c \in Certified \cap tree.blocks :
              c # Genesis /\ round[tree.commit_root] <= round[c] => c \in db.blocks
<1>1. window_size \in Nat /\ TreeOK(tree) /\ ledger \in Committable
      /\ round[tree.commit_root] <= round[ledger]
      /\ db \in [blocks : SUBSET Block, qcs : SUBSET Certified]
  BY SizeAssumption, Zenon DEF StoreInv, TypeOK, Pipelined, Stored
<1>2. /\ ledger \in Block /\ ledger \in Certified
  BY <1>1, CommittableBlocks, Zenon
<1>3. /\ tree.commit_root \in Block /\ tree.ordered_root \in Block
      /\ tree.certified \in Block /\ tree.window_root \in Block
      /\ tree.certified \in Certified
      /\ \A x \in Certified : round[tree.commit_root] <= round[x]
                                => Extends(x, tree.window_root)
  BY <1>1, TreeRoots, Zenon DEF TreeOK
<1>4. Floor \in Block /\ round[ledger] <= round[Floor]
  <2>1. CASE syncing = None
    BY <1>2, <2>1, BlockAssumption DEF Floor
  <2>2. CASE syncing # None
    <3>1. syncing.target \in Block
      BY <2>2, Zenon DEF StoreInv, TypeOK, SyncState
    <3>2. Later(syncing.target, ledger) \in {syncing.target, ledger}
          /\ round[ledger] <= round[Later(syncing.target, ledger)]
      BY <1>2, <3>1, LaterOf, Zenon
    <3>. QED
      BY <1>2, <2>2, <3>1, <3>2, Zenon DEF Floor
  <2>. QED
    BY <2>1, <2>2, Zenon
<1>5. \A c \in Certified \cap tree.blocks :
        c # Genesis /\ round[tree.commit_root] <= round[c] => c \in db.blocks
  BY <1>3, Zenon DEF StoreInv, Stored
<1>. QED
  BY <1>1, <1>2, <1>3, <1>4, <1>5, Zenon

(* A block that some certificate commits, beyond the ledger and below a    *)
(* certified block in memory, has its certificate saved.                   *)
LEMMA SavedBelow ==
  ASSUME StoreInv, ~interrupted, NEW p \in Final, round[p] > round[Floor],
         NEW c \in Certified \cap tree.blocks, Extends(c, p), c # p
  PROVE  p \in db.qcs
<1>1. p \in Block /\ c \in Block
  BY CommittableBlocks, Zenon DEF Committable
<1>2. c # Genesis /\ round[p] <= round[c]
  BY <1>1, ExtendsParent, ExtendsRounds, Zenon
<1>3. round[tree.commit_root] <= round[c]
  BY <1>1, <1>2, StoreFacts, BlockAssumption
<1>4. c \in db.blocks
  BY <1>2, <1>3, StoreFacts, Zenon
<1>. QED
  BY <1>4, Zenon DEF StoreInv, Recoverable

LEMMA ProcessProposalStep ==
  ASSUME StoreInv, NEW b \in Block, ProcessProposal(b)
  PROVE  /\ StoreInv' /\ round[ledger] <= round[ledger']
         /\ round[tree.certified] <= round[tree'.certified]
<1>1. /\ running /\ inserting = None /\ syncing = None
      /\ parent[b] \in Certified /\ parent[b] \in tree.blocks
      /\ round[parent[b]] <= round[tree.certified] /\ round[tree.certified] < round[b]
      /\ inserting' = b
      /\ UNCHANGED <<tree, aborted, syncing, pipeline, callbacks, stale, db,
                     ledger, latest_logical_time, running, interrupted,
                     window_size>>
  BY Zenon DEF ProcessProposal, Idle, CanInsert
<1>2. /\ window_size \in Nat /\ TreeOK(tree) /\ ledger \in Block
      /\ tree.certified \in Block /\ tree.certified \in Certified
      /\ tree.certified \in tree.blocks /\ Floor \in Block
  BY StoreFacts, Zenon DEF TreeOK
<1>3. b # Genesis
  BY <1>1, <1>2, BlockAssumption, WellFormedAssumption
<1>4. TypeOK'
  BY <1>1, Zenon DEF StoreInv, TypeOK
<1>5. TreeOK(tree)'
  BY <1>1, <1>2, SameWindow, Zenon
<1>6. Stored'
  BY <1>1, <1>3, Zenon DEF StoreInv, Stored
<1>7. Pipelined'
  BY <1>1, Zenon DEF StoreInv, Pipelined, Synced
<1>8. Recoverable'
  <2>1. ASSUME ~interrupted, NEW p \in Final, round[p] > round[Floor],
               Extends(b, p), b # p
        PROVE  p \in db.qcs
    <3>1. p \in Block /\ p \in Committable
      BY CommittableBlocks, Zenon DEF Committable
    <3>2. Extends(parent[b], p)
      BY <2>1, <3>1, ExtendsParent, Zenon
    <3>3. CASE parent[b] # p
      BY <1>1, <2>1, <3>2, <3>3, SavedBelow, Zenon
    <3>4. CASE parent[b] = p
      <4>1. Extends(tree.certified, p)
        BY <1>1, <1>2, <3>1, <3>4, CommittableBlocks, Zenon
      <4>2. CASE tree.certified = p
        BY <4>2, Zenon DEF StoreInv, Stored
      <4>3. CASE tree.certified # p
        BY <1>2, <2>1, <4>1, <4>3, SavedBelow, Zenon
      <4>. QED
        BY <4>2, <4>3, Zenon
    <3>. QED
      BY <3>3, <3>4, Zenon
  <2>2. /\ Floor' = Floor /\ Pending' = {b} /\ Pending = {}
    BY <1>1, BlockAssumption, Zenon DEF Floor, Pending
  <2>3. /\ find_root(db, ledger)' <=> find_root(db, ledger)
        /\ Window(ledger)' = Window(ledger)
    BY <1>1, SameWindow, Zenon
  <2>. QED
    BY <1>1, <2>1, <2>2, <2>3, Zenon DEF StoreInv, Recoverable
<1>. QED
  BY <1>1, <1>2, <1>4, <1>5, <1>6, <1>7, <1>8, BlockAssumption DEF StoreInv

LEMMA FetchBlockStep ==
  ASSUME StoreInv, NEW b \in Certified, FetchBlock(b)
  PROVE  /\ StoreInv' /\ round[ledger] <= round[ledger']
         /\ round[tree.certified] <= round[tree'.certified]
<1>. DEFINE c == parent[b]
<1>1. /\ running /\ inserting = None /\ syncing = None
      /\ b \notin tree.blocks /\ c \in tree.blocks
      /\ tree' = insert_quorum_cert(tree, c)
      /\ inserting' \in {b, None}
      /\ db' = [db EXCEPT !.qcs = @ \cup {c}]
      /\ UNCHANGED <<aborted, syncing, pipeline, callbacks, stale, ledger,
                     latest_logical_time, running, interrupted, window_size>>
  BY Zenon DEF FetchBlock, Idle
<1>2. /\ window_size \in Nat /\ TreeOK(tree) /\ ledger \in Block
      /\ tree.certified \in Block /\ Floor \in Block
      /\ db \in [blocks : SUBSET Block, qcs : SUBSET Certified]
  BY StoreFacts, Zenon
<1>3. b \in Block /\ b # Genesis /\ c \in Certified
  BY <1>1, CertificateAssumption, WellFormedAssumption, Zenon
<1>4. /\ TreeOK(tree')
      /\ tree'.blocks = tree.blocks /\ tree'.certified = Later(c, tree.certified)
      /\ tree'.window_root = tree.window_root /\ tree'.commit_root = tree.commit_root
      /\ tree'.ordered_root = tree.ordered_root
      /\ round[tree.certified] <= round[tree'.certified]
  BY <1>1, <1>2, <1>3, InsertQuorumCertOK
<1>5. /\ db'.blocks = db.blocks /\ db'.qcs = db.qcs \cup {c}
      /\ db' \in [blocks : SUBSET Block, qcs : SUBSET Certified]
  BY <1>1, <1>2, <1>3, Zenon
<1>6. TypeOK'
  <2>1. tree' \in BlockTree /\ db' \in [blocks : SUBSET Block, qcs : SUBSET Block]
    BY <1>4, <1>5, CertificateAssumption, Zenon DEF TreeOK
  <2>2. inserting' \in Block \cup {None}
    BY <1>1, <1>3, Zenon
  <2>. QED
    BY <1>1, <2>1, <2>2, Zenon DEF StoreInv, TypeOK
<1>7. TreeOK(tree)'
  BY <1>1, <1>4, SameWindow, Zenon
<1>8. Stored'
  <2>1. tree'.certified \in db'.qcs
    BY <1>4, <1>5, Zenon DEF StoreInv, Stored, Later
  <2>. QED
    BY <1>1, <1>3, <1>4, <1>5, <2>1, BlockAssumption, Zenon DEF StoreInv, Stored
<1>9. Pipelined'
  BY <1>1, <1>4, Zenon DEF StoreInv, Pipelined, Synced
<1>10. Recoverable'
  <2>1. ASSUME ~interrupted, NEW p \in Final, round[p] > round[Floor],
               Extends(b, p), b # p
        PROVE  p \in db'.qcs
    <3>1. p \in Block
      BY CommittableBlocks, Zenon DEF Committable
    <3>2. Extends(c, p)
      BY <1>3, <2>1, <3>1, ExtendsParent, Zenon
    <3>3. CASE c # p
      BY <1>1, <1>3, <1>5, <2>1, <3>2, <3>3, SavedBelow, Zenon
    <3>4. CASE c = p
      BY <1>5, <3>4, Zenon
    <3>. QED
      BY <3>3, <3>4, Zenon
  <2>2. Floor' = Floor /\ Pending' \subseteq {b}
    BY <1>1, Zenon DEF Floor, Pending
  <2>3. /\ find_root(db, ledger) => find_root(db, ledger)'
        /\ Window(ledger)' = Window(ledger)
    <3>1. find_root(db, ledger) => find_root(db', ledger)
      BY <1>2, <1>5, FindRootGrows, Zenon
    <3>. QED
      BY <1>1, <3>1, SameWindow, Zenon
  <2>. QED
    BY <1>1, <1>5, <2>1, <2>2, <2>3, Zenon DEF StoreInv, Recoverable
<1>. QED
  BY <1>1, <1>2, <1>4, <1>6, <1>7, <1>8, <1>9, <1>10, BlockAssumption DEF StoreInv

LEMMA FinishInsertStep ==
  ASSUME StoreInv, FinishInsert
  PROVE  /\ StoreInv' /\ round[ledger] <= round[ledger']
         /\ round[tree.certified] <= round[tree'.certified]
<1>1. /\ inserting # None /\ inserting' = None
      /\ UNCHANGED <<aborted, syncing, pipeline, callbacks, stale, ledger,
                     latest_logical_time, running, interrupted, window_size>>
      /\ \/ /\ db' = [db EXCEPT !.blocks = @ \cup {inserting}]
            /\ tree' = insert_block(tree, inserting)
         \/ db' = db /\ tree' = tree
  BY Zenon DEF FinishInsert
<1>2. /\ window_size \in Nat /\ TreeOK(tree) /\ ledger \in Block
      /\ tree.certified \in Block /\ Floor \in Block
      /\ db \in [blocks : SUBSET Block, qcs : SUBSET Certified]
      /\ inserting \in Block /\ inserting # Genesis
  BY <1>1, StoreFacts, Zenon DEF StoreInv, TypeOK, Stored
<1>3. /\ db'.qcs = db.qcs /\ db.blocks \subseteq db'.blocks
      /\ db'.blocks \subseteq db.blocks \cup {inserting}
      /\ db' \in [blocks : SUBSET Block, qcs : SUBSET Certified]
  BY <1>1, <1>2, Zenon
<1>4. /\ TreeOK(tree')
      /\ tree'.window_root = tree.window_root /\ tree'.commit_root = tree.commit_root
      /\ tree'.ordered_root = tree.ordered_root /\ tree'.certified = tree.certified
      /\ \A b \in tree'.blocks : b \in tree.blocks \/ b \in db'.blocks
  <2>1. CASE /\ db' = [db EXCEPT !.blocks = @ \cup {inserting}]
             /\ tree' = insert_block(tree, inserting)
    <3>1. inserting \in db'.blocks
      BY <1>2, <2>1, Zenon
    <3>. QED
      BY <1>2, <2>1, <3>1, InsertBlockOK
  <2>2. CASE db' = db /\ tree' = tree
    BY <1>2, <2>2, Zenon
  <2>. QED
    BY <1>1, <2>1, <2>2, Zenon
<1>5. TypeOK'
  <2>1. tree' \in BlockTree /\ db' \in [blocks : SUBSET Block, qcs : SUBSET Block]
    BY <1>3, <1>4, CertificateAssumption, Zenon DEF TreeOK
  <2>. QED
    BY <1>1, <2>1, Zenon DEF StoreInv, TypeOK
<1>6. TreeOK(tree)'
  BY <1>1, <1>4, SameWindow, Zenon
<1>7. Stored'
  BY <1>1, <1>2, <1>3, <1>4, BlockAssumption, Zenon DEF StoreInv, Stored
<1>8. Pipelined'
  BY <1>1, <1>4, Zenon DEF StoreInv, Pipelined, Synced
<1>9. Recoverable'
  <2>1. Floor' = Floor /\ Pending' = {} /\ Pending = {inserting}
    BY <1>1, Zenon DEF Floor, Pending
  <2>2. /\ find_root(db, ledger) => find_root(db, ledger)'
        /\ Window(ledger)' = Window(ledger)
    <3>1. find_root(db, ledger) => find_root(db', ledger)
      BY <1>2, <1>3, FindRootGrows, Zenon
    <3>. QED
      BY <1>1, <3>1, SameWindow, Zenon
  <2>3. syncing # None => (find_root(db, syncing.target) => find_root(db, syncing.target)')
    <3>. SUFFICES ASSUME syncing # None PROVE find_root(db, syncing.target)
                                                => find_root(db, syncing.target)'
      OBVIOUS
    <3>1. syncing.target \in Block
      BY Zenon DEF StoreInv, TypeOK, SyncState
    <3>2. find_root(db, syncing.target) => find_root(db', syncing.target)
      BY <1>3, <3>1, FindRootGrows, Zenon
    <3>. QED
      BY <1>1, <3>2, SameWindow, Zenon
  <2>. QED
    BY <1>1, <1>3, <2>1, <2>2, <2>3, Zenon DEF StoreInv, Recoverable
<1>. QED
  BY <1>1, <1>2, <1>4, <1>5, <1>6, <1>7, <1>8, <1>9, BlockAssumption DEF StoreInv

(* A certificate is used, and the block f it commits may be ordered.       *)
LEMMA OrderStep ==
  ASSUME StoreInv, Idle,
         UNCHANGED <<aborted, inserting, syncing, callbacks, stale, ledger,
                     latest_logical_time, running, interrupted, window_size>>,
         TreeOK(tree'), tree'.blocks = tree.blocks,
         tree'.window_root = tree.window_root, tree'.commit_root = tree.commit_root,
         round[tree.ordered_root] <= round[tree'.ordered_root],
         db' \in [blocks : SUBSET Block, qcs : SUBSET Certified],
         db'.blocks = db.blocks, db.qcs \subseteq db'.qcs, tree'.certified \in db'.qcs,
         \A f \in pipeline' \ pipeline :
           /\ f \in Final /\ round[tree.ordered_root] < round[f]
           /\ round[f] <= round[tree'.ordered_root]
           /\ ~interrupted => f \in db'.qcs
  PROVE  StoreInv'
<1>1. /\ running /\ inserting = None /\ syncing = None
      /\ UNCHANGED <<aborted, inserting, syncing, callbacks, stale, ledger,
                     latest_logical_time, running, interrupted, window_size>>
  BY Zenon DEF Idle
<1>2. /\ window_size \in Nat /\ ledger \in Block
      /\ tree.ordered_root \in Block /\ tree'.ordered_root \in Block
      /\ pipeline \subseteq Final /\ Final \subseteq Block
      /\ callbacks \in Seq(Block)
  BY StoreFacts, TreeRoots, CommittableBlocks, Zenon DEF Committable, StoreInv, Pipelined, TypeOK
<1>3. pipeline' \subseteq Final
  BY <1>2, Zenon
<1>4. TypeOK'
  <2>1. tree' \in BlockTree /\ db' \in [blocks : SUBSET Block, qcs : SUBSET Block]
    BY CertificateAssumption, Zenon DEF TreeOK
  <2>2. pipeline' \subseteq Block
    BY <1>2, <1>3, Zenon
  <2>. QED
    BY <1>1, <2>1, <2>2, Zenon DEF StoreInv, TypeOK
<1>5. TreeOK(tree)'
  BY <1>1, SameWindow, Zenon
<1>6. Stored'
  BY <1>1, Zenon DEF StoreInv, Stored
<1>7. Pipelined'
  <2>1. ~Synced /\ ~Synced' /\ round[ledger] <= round[tree.ordered_root]
    BY <1>1, Zenon DEF Synced, StoreInv, Pipelined
  <2>2. round[ledger] <= round[tree'.ordered_root]
    BY <1>2, <2>1, BlockAssumption
  <2>3. ASSUME NEW f \in pipeline'
        PROVE  round[ledger] < round[f] /\ round[f] <= round[tree'.ordered_root]
    <3>1. f \in Block
      BY <1>2, <1>3, Zenon
    <3>2. CASE f \in pipeline
      <4>1. round[ledger] < round[f] /\ round[f] <= round[tree.ordered_root]
        BY <3>2, Zenon DEF StoreInv, Pipelined
      <4>. QED
        BY <1>2, <3>1, <4>1, BlockAssumption
    <3>3. CASE f \notin pipeline
      <4>1. round[tree.ordered_root] < round[f] /\ round[f] <= round[tree'.ordered_root]
        BY <3>3, Zenon
      <4>. QED
        BY <1>2, <2>1, <3>1, <4>1, BlockAssumption
    <3>. QED
      BY <3>2, <3>3, Zenon
  <2>4. ASSUME NEW i \in DOMAIN callbacks
        PROVE  round[callbacks[i]] <= round[tree'.ordered_root]
    <3>1. callbacks[i] \in Block /\ round[callbacks[i]] <= round[ledger]
      BY <1>2, Zenon DEF StoreInv, Pipelined
    <3>. QED
      BY <1>2, <2>2, <3>1, BlockAssumption
  <2>. QED
    BY <1>1, <1>3, <2>1, <2>2, <2>3, <2>4 DEF StoreInv, Pipelined
<1>8. Recoverable'
  <2>1. Floor' = Floor /\ Pending' = Pending
    BY <1>1, Zenon DEF Floor, Pending
  <2>2. /\ find_root(db, ledger) => find_root(db, ledger)'
        /\ Window(ledger)' = Window(ledger)
    <3>1. find_root(db, ledger) => find_root(db', ledger)
      BY <1>2, FindRootGrows, Zenon
    <3>. QED
      BY <1>1, <3>1, SameWindow, Zenon
  <2>3. ~interrupted => pipeline' \subseteq db'.qcs
    BY Zenon DEF StoreInv, Recoverable
  <2>. QED
    BY <1>1, <2>1, <2>2, <2>3 DEF StoreInv, Recoverable
<1>. QED
  BY <1>4, <1>5, <1>6, <1>7, <1>8, Zenon DEF StoreInv

LEMMA InsertQuorumCertStep ==
  ASSUME StoreInv, NEW c \in Certified, InsertQuorumCert(c)
  PROVE  /\ StoreInv' /\ round[ledger] <= round[ledger']
         /\ round[tree.certified] <= round[tree'.certified]
<1>. DEFINE t == insert_quorum_cert(tree, c)
            f == commit_info(c)
            new == IF f = None THEN FALSE ELSE round[f] > round[tree.ordered_root]
<1>1. /\ Idle /\ c \in tree.blocks /\ round[c] >= round[tree.ordered_root]
      /\ tree' = IF new THEN send_for_execution(t, f) ELSE t
      /\ pipeline' = IF new THEN pipeline \cup {f} ELSE pipeline
      /\ db' = [db EXCEPT !.qcs = @ \cup {c}]
      /\ UNCHANGED <<aborted, inserting, syncing, callbacks, stale, ledger,
                     latest_logical_time, running, interrupted, window_size>>
  BY Zenon DEF InsertQuorumCert
<1>2. /\ window_size \in Nat /\ TreeOK(tree) /\ ledger \in Block
      /\ tree.certified \in Block /\ tree.ordered_root \in Block
      /\ db \in [blocks : SUBSET Block, qcs : SUBSET Certified]
  BY StoreFacts, Zenon
<1>3. /\ TreeOK(t)
      /\ t.blocks = tree.blocks /\ t.certified = Later(c, tree.certified)
      /\ t.window_root = tree.window_root /\ t.commit_root = tree.commit_root
      /\ t.ordered_root = tree.ordered_root
      /\ round[tree.certified] <= round[t.certified]
      /\ round[c] <= round[t.certified]
      /\ t.certified \in Block
  <2>1. /\ TreeOK(t)
        /\ t.blocks = tree.blocks /\ t.certified = Later(c, tree.certified)
        /\ t.window_root = tree.window_root /\ t.commit_root = tree.commit_root
        /\ t.ordered_root = tree.ordered_root
        /\ round[tree.certified] <= round[t.certified]
        /\ round[c] <= round[t.certified]
    BY <1>1, <1>2, InsertQuorumCertOK, Zenon
  <2>. HIDE DEF t
  <2>. QED
    BY <1>2, <2>1, TreeRoots, Zenon
<1>. HIDE DEF t
<1>4. ASSUME new
      PROVE  /\ f \in Final /\ round[tree.ordered_root] < round[f]
             /\ round[f] <= round[t.certified]
             /\ ~interrupted => f \in db.qcs
  <2>1. f = parent[c] /\ f \in Final /\ c # Genesis /\ round[f] < round[c] /\ f \in Block
    BY <1>4, CommitInfo, CommittableBlocks, Zenon DEF Committable
  <2>2. c \in Block /\ round[tree.ordered_root] < round[f]
    BY <1>4, <1>2, <2>1, CommittableBlocks, BlockAssumption, Zenon
  <2>3. round[f] <= round[t.certified]
    BY <1>3, <2>1, <2>2, BlockAssumption
  <2>4. ASSUME ~interrupted PROVE f \in db.qcs
    <3>1. round[f] > round[Floor]
      <4>1. running /\ ~Synced /\ Floor = ledger
        BY <1>1, Zenon DEF Idle, Floor, Synced
      <4>2. round[ledger] <= round[tree.ordered_root]
        BY <4>1, Zenon DEF StoreInv, Pipelined
      <4>. QED
        BY <1>2, <2>1, <2>2, <4>1, <4>2, BlockAssumption
    <3>2. Extends(c, f) /\ c # f
      BY <2>1, <2>2, CommittableBlocks, BlockAssumption DEF Committable
    <3>. QED
      BY <1>1, <2>1, <2>4, <3>1, <3>2, SavedBelow, Zenon
  <2>. QED
    BY <2>1, <2>2, <2>3, <2>4, Zenon
<1>5. /\ TreeOK(tree') /\ tree'.blocks = tree.blocks
      /\ tree'.window_root = tree.window_root /\ tree'.commit_root = tree.commit_root
      /\ tree'.certified = t.certified
      /\ tree'.ordered_root = IF new THEN f ELSE tree.ordered_root
  <2>1. CASE new
    BY <1>1, <1>2, <1>3, <1>4, <2>1, SendForExecutionOK
  <2>2. CASE ~new
    BY <1>1, <1>3, <2>2, Zenon
  <2>. QED
    BY <2>1, <2>2, Zenon
<1>6. /\ db'.blocks = db.blocks /\ db'.qcs = db.qcs \cup {c}
      /\ db' \in [blocks : SUBSET Block, qcs : SUBSET Certified]
  BY <1>1, <1>2, Zenon
<1>7. tree'.certified \in db'.qcs
  BY <1>3, <1>5, <1>6, Zenon DEF StoreInv, Stored, Later
<1>8. round[tree.ordered_root] <= round[tree'.ordered_root]
      /\ \A g \in pipeline' \ pipeline :
           /\ g \in Final /\ round[tree.ordered_root] < round[g]
           /\ round[g] <= round[tree'.ordered_root]
           /\ ~interrupted => g \in db'.qcs
  <2>1. CASE new
    <3>1. round[tree.ordered_root] \in Nat /\ f \in Block /\ round[f] \in Nat
      BY <1>2, <1>4, <2>1, CommittableBlocks, BlockAssumption, Zenon DEF Committable
    <3>2. pipeline' = pipeline \cup {f} /\ tree'.ordered_root = f
      BY <1>1, <1>5, <2>1, Zenon
    <3>. HIDE DEF f, new
    <3>. QED
      BY <1>4, <1>6, <2>1, <3>1, <3>2
  <2>2. CASE ~new
    <3>1. pipeline' = pipeline /\ tree'.ordered_root = tree.ordered_root
      BY <1>1, <1>5, <2>2, Zenon
    <3>. QED
      BY <1>2, <3>1, BlockAssumption
  <2>. QED
    BY <2>1, <2>2, Zenon
<1>9. StoreInv'
  BY <1>1, <1>5, <1>6, <1>7, <1>8, OrderStep, Zenon
<1>. QED
  BY <1>1, <1>2, <1>3, <1>5, <1>9, BlockAssumption

LEMMA InsertOrderedCertStep ==
  ASSUME StoreInv, NEW o \in OrderCerts, InsertOrderedCert(o)
  PROVE  /\ StoreInv' /\ round[ledger] <= round[ledger']
         /\ round[tree.certified] <= round[tree'.certified]
<1>1. /\ Idle /\ \E c \in tree.qcs : round[c] >= round[o]
      /\ round[o] > round[tree.ordered_root]
      /\ tree' = send_for_execution(tree, o)
      /\ pipeline' = pipeline \cup {o}
      /\ UNCHANGED <<aborted, inserting, syncing, callbacks, stale, db,
                     ledger, latest_logical_time, running, interrupted,
                     window_size>>
  BY Zenon DEF InsertOrderedCert
<1>2. /\ window_size \in Nat /\ TreeOK(tree) /\ ledger \in Block
      /\ tree.certified \in Block /\ tree.ordered_root \in Block
      /\ tree.certified \in Certified /\ tree.certified \in tree.blocks
      /\ db \in [blocks : SUBSET Block, qcs : SUBSET Certified]
  BY StoreFacts, Zenon DEF TreeOK
<1>3. o \in Final /\ o \in Committable /\ o \in Block
  BY CommittableBlocks, Zenon DEF Committable, Final
<1>4. round[o] <= round[tree.certified]
  <2>1. PICK c \in tree.qcs : round[c] >= round[o]
    BY <1>1, Zenon
  <2>2. c \in Block /\ round[c] <= round[tree.certified]
    BY Zenon DEF TreeOK, StoreInv, BlockTree
  <2>. QED
    BY <1>2, <1>3, <2>1, <2>2, BlockAssumption
<1>5. round[tree.ordered_root] < round[o] /\ round[tree.ordered_root] <= round[o]
  BY <1>1, <1>2, <1>3, BlockAssumption
<1>6. /\ TreeOK(tree') /\ tree'.blocks = tree.blocks
      /\ tree'.window_root = tree.window_root /\ tree'.commit_root = tree.commit_root
      /\ tree'.certified = tree.certified /\ tree'.ordered_root = o
  BY <1>1, <1>2, <1>3, <1>4, <1>5, SendForExecutionOK
<1>7. ASSUME ~interrupted PROVE o \in db.qcs
  <2>1. Extends(tree.certified, o)
    BY <1>2, <1>3, <1>4, CommittableBlocks, Zenon
  <2>2. CASE tree.certified = o
    BY <2>2, Zenon DEF StoreInv, Stored
  <2>3. CASE tree.certified # o
    <3>1. round[o] > round[Floor]
      <4>1. running /\ ~Synced /\ Floor = ledger
        BY <1>1, Zenon DEF Idle, Floor, Synced
      <4>2. round[ledger] <= round[tree.ordered_root]
        BY <4>1, Zenon DEF StoreInv, Pipelined
      <4>. QED
        BY <1>2, <1>3, <1>5, <4>1, <4>2, BlockAssumption
    <3>. QED
      BY <1>2, <1>3, <1>7, <2>1, <2>3, <3>1, SavedBelow, Zenon
  <2>. QED
    BY <2>2, <2>3, Zenon
<1>8. \A f \in pipeline' \ pipeline :
        /\ f \in Final /\ round[tree.ordered_root] < round[f]
        /\ round[f] <= round[tree'.ordered_root]
        /\ ~interrupted => f \in db'.qcs
  BY <1>1, <1>3, <1>5, <1>6, <1>7, BlockAssumption
<1>9. tree'.certified \in db'.qcs
  BY <1>1, <1>6, Zenon DEF StoreInv, Stored
<1>10. StoreInv'
  BY <1>1, <1>2, <1>5, <1>6, <1>8, <1>9, OrderStep, Zenon
<1>. QED
  BY <1>1, <1>2, <1>6, <1>10, BlockAssumption

LEMMA CommitLedgerStep ==
  ASSUME StoreInv, NEW b \in Block, CommitLedger(b)
  PROVE  /\ StoreInv' /\ round[ledger] <= round[ledger']
         /\ round[tree.certified] <= round[tree'.certified]
<1>1. /\ running /\ b \in pipeline /\ ledger' = b
      /\ callbacks' = Append(callbacks, b)
      /\ pipeline' = {f \in pipeline : ~Extends(b, f)}
      /\ UNCHANGED <<tree, aborted, inserting, syncing, stale, db,
                     latest_logical_time, running, interrupted, window_size>>
  BY Zenon DEF CommitLedger
<1>2. /\ window_size \in Nat /\ TreeOK(tree) /\ ledger \in Block
      /\ tree.certified \in Block /\ tree.ordered_root \in Block
      /\ tree.commit_root \in Block /\ round[tree.commit_root] <= round[ledger]
      /\ round[tree.ordered_root] <= round[tree.certified]
      /\ callbacks \in Seq(Block)
      /\ db \in [blocks : SUBSET Block, qcs : SUBSET Certified]
  BY StoreFacts, TreeRoots, Zenon DEF StoreInv, TypeOK
<1>3. /\ b \in Final /\ b \in Committable /\ b \in Certified
      /\ round[ledger] < round[b] /\ round[b] <= round[tree.ordered_root]
  BY <1>1, CommittableBlocks, Zenon DEF StoreInv, Pipelined, Committable
<1>4. ~Synced
  BY <1>1, Zenon DEF StoreInv, Pipelined
<1>5. /\ round[tree.commit_root] <= round[b] /\ round[b] <= round[tree.certified]
      /\ b # Genesis /\ round[ledger] <= round[b]
  BY <1>2, <1>3, BlockAssumption, WellFormedAssumption
<1>6. TypeOK'
  <2>1. callbacks' \in Seq(Block) /\ pipeline' \subseteq Block
    BY <1>1, <1>2 DEF StoreInv, TypeOK
  <2>. QED
    BY <1>1, <2>1, Zenon DEF StoreInv, TypeOK
<1>7. TreeOK(tree)'
  BY <1>1, <1>2, SameWindow, Zenon
<1>8. Stored'
  BY <1>1, Zenon DEF StoreInv, Stored
<1>9. Pipelined'
  <2>1. Synced' = Synced
    BY <1>1, Zenon DEF Synced
  <2>2. ASSUME NEW f \in pipeline'
        PROVE  /\ f \in Final /\ round[b] < round[f] /\ round[f] <= round[tree.ordered_root]
    <3>1. f \in Final /\ round[f] <= round[tree.ordered_root] /\ ~Extends(b, f)
      BY <1>1, Zenon DEF StoreInv, Pipelined
    <3>2. f \in Block /\ ~(round[f] <= round[b])
      BY <1>3, <3>1, CommittableBlocks, Zenon DEF Committable
    <3>. QED
      BY <3>1, <3>2, BlockAssumption
  <2>3. /\ DOMAIN callbacks' = DOMAIN callbacks \cup {Len(callbacks) + 1}
        /\ callbacks'[Len(callbacks) + 1] = b
        /\ \A i \in DOMAIN callbacks : /\ callbacks'[i] = callbacks[i]
                                       /\ i \in Nat /\ i <= Len(callbacks)
        /\ Len(callbacks) \in Nat
    BY <1>1, <1>2
  <2>4. ASSUME NEW i \in DOMAIN callbacks
        PROVE  /\ callbacks[i] \in Final
               /\ round[tree.commit_root] <= round[callbacks[i]]
               /\ round[callbacks[i]] < round[b]
               /\ round[callbacks[i]] <= round[b]
               /\ round[callbacks[i]] <= round[tree.ordered_root]
               /\ \A j \in DOMAIN callbacks : i < j => round[callbacks[i]] < round[callbacks[j]]
    <3>1. /\ callbacks[i] \in Final
          /\ round[tree.commit_root] <= round[callbacks[i]]
          /\ round[callbacks[i]] <= round[ledger]
          /\ round[callbacks[i]] <= round[tree.ordered_root]
          /\ \A j \in DOMAIN callbacks : i < j => round[callbacks[i]] < round[callbacks[j]]
      BY Zenon DEF StoreInv, Pipelined
    <3>2. callbacks[i] \in Block
      BY <1>2
    <3>. QED
      BY <1>2, <1>3, <3>1, <3>2, BlockAssumption
  <2>5. ASSUME NEW i \in DOMAIN callbacks'
        PROVE  /\ callbacks'[i] \in Final
               /\ round[tree.commit_root] <= round[callbacks'[i]]
               /\ round[callbacks'[i]] <= round[b]
               /\ round[callbacks'[i]] <= round[tree.ordered_root]
               /\ \A j \in DOMAIN callbacks' :
                    i < j => round[callbacks'[i]] < round[callbacks'[j]]
    <3>1. CASE i \in DOMAIN callbacks
      BY <2>3, <2>4, <3>1, Zenon
    <3>2. CASE i = Len(callbacks) + 1
      <4>1. ASSUME NEW j \in DOMAIN callbacks', i < j PROVE FALSE
        BY <2>3, <3>2, <4>1
      <4>2. callbacks'[i] = b /\ round[b] <= round[b]
        BY <2>3, <3>2, BlockAssumption
      <4>. QED
        BY <1>3, <1>5, <4>1, <4>2, Zenon
    <3>. QED
      BY <2>3, <3>1, <3>2, Zenon
  <2>. QED
    BY <1>1, <1>3, <1>4, <1>5, <2>1, <2>2, <2>5, Zenon DEF StoreInv, Pipelined
<1>10. Recoverable'
  <2>1. Pending' = Pending /\ Floor' \in Block /\ round[Floor] <= round[Floor']
    <3>1. CASE syncing = None
      BY <1>1, <1>2, <1>5, <3>1, Zenon DEF Floor, Pending
    <3>2. CASE syncing # None
      <4>1. syncing.target \in Block
        BY <3>2, Zenon DEF StoreInv, TypeOK, SyncState
      <4>2. Floor' = Later(syncing.target, b) /\ Floor = Later(syncing.target, ledger)
        BY <1>1, <3>2, Zenon DEF Floor
      <4>3. /\ Later(syncing.target, b) \in {syncing.target, b}
            /\ round[Later(syncing.target, ledger)] <= round[Later(syncing.target, b)]
        BY <1>2, <1>5, <4>1, BlockAssumption DEF Later
      <4>. QED
        BY <1>1, <4>1, <4>2, <4>3, Zenon DEF Pending
    <3>. QED
      BY <3>1, <3>2, Zenon
  <2>2. ASSUME ~interrupted, Genesis \notin Window(b)
        PROVE  find_root(db, b)
    <3>1. b \in db.qcs
      BY <1>1, <2>2, Zenon DEF StoreInv, Recoverable
    <3>2. b \in tree.blocks /\ Extends(b, tree.window_root) /\ Window(b) \subseteq tree.blocks
          /\ \A a \in Window(b) : Extends(a, tree.window_root)
      BY <1>2, <1>3, <1>5, TreeHolds, Zenon
    <3>3. b \in db.blocks /\ Window(b) \subseteq db.blocks
      BY <1>5, <2>2, <3>2, Zenon DEF StoreInv, Stored
    <3>. QED
      BY <3>1, <3>3, Zenon DEF find_root, StoredBlocks, StoredQCs
  <2>3. ASSUME ~interrupted, ledger' = Genesis \/ Genesis \notin Window(ledger)'
        PROVE  find_root(db, ledger)'
    <3>1. Window(ledger)' = Window(b) /\ (find_root(db, ledger)' <=> find_root(db, b))
      BY <1>1, SameWindow, Zenon
    <3>. QED
      BY <1>1, <1>5, <2>2, <2>3, <3>1, Zenon
  <2>4. ASSUME ~interrupted, NEW z \in db.blocks \cup Pending, NEW p \in Final,
               round[p] > round[Floor'], Extends(z, p), z # p
        PROVE  p \in db.qcs
    <3>1. p \in Block /\ Floor \in Block
      BY CommittableBlocks, StoreFacts, Zenon DEF Committable
    <3>2. round[p] > round[Floor]
      BY <2>1, <2>4, <3>1, BlockAssumption
    <3>. QED
      BY <2>4, <3>2, Zenon DEF StoreInv, Recoverable
  <2>5. ASSUME syncing # None
        PROVE  /\ syncing.target \in Final /\ syncing.target # Genesis
               /\ ~syncing.synced
               /\ ~interrupted => latest_logical_time < round[syncing.target]
               /\ round[b] <= round[syncing.target] => find_root(db, syncing.target)'
    <3>1. /\ syncing.target \in Final /\ syncing.target # Genesis /\ ~syncing.synced
          /\ ~interrupted => latest_logical_time < round[syncing.target]
          /\ round[ledger] <= round[syncing.target] => find_root(db, syncing.target)
      BY <1>4, <2>5, Zenon DEF StoreInv, Recoverable, Synced
    <3>2. syncing.target \in Block
      BY <3>1, CommittableBlocks, Zenon DEF Committable
    <3>3. find_root(db, syncing.target)' <=> find_root(db, syncing.target)
      BY <1>1, SameWindow, Zenon
    <3>. QED
      BY <1>2, <1>3, <3>1, <3>2, <3>3, BlockAssumption
  <2>6. ~interrupted => pipeline' \subseteq db.qcs
    BY <1>1, Zenon DEF StoreInv, Recoverable
  <2>7. ~interrupted => latest_logical_time <= round[b]
    <3>1. /\ latest_logical_time \in Nat
          /\ ~interrupted => latest_logical_time <= round[ledger]
      BY Zenon DEF StoreInv, TypeOK, Recoverable
    <3>. QED
      BY <1>2, <1>5, <3>1, BlockAssumption
  <2>. QED
    BY <1>1, <2>1, <2>3, <2>4, <2>5, <2>6, <2>7, Zenon DEF Recoverable
<1>. QED
  BY <1>1, <1>2, <1>5, <1>6, <1>7, <1>8, <1>9, <1>10, BlockAssumption DEF StoreInv

(* Pruning up to a committed block b touches nothing that descends from    *)
(* b's window root, so the windows of later blocks stay in storage.        *)
LEMMA CallbackStep ==
  ASSUME StoreInv, running, NEW b \in Final, commit_callback(b),
         round[tree.commit_root] <= round[b], round[b] <= round[ledger],
         round[b] <= round[tree.ordered_root],
         UNCHANGED <<inserting, syncing, pipeline, ledger,
                     latest_logical_time, running, interrupted, window_size>>,
         callbacks' \in Seq(Block), stale' \subseteq stale,
         \A i \in DOMAIN callbacks' :
           /\ callbacks'[i] \in Final
           /\ round[b] <= round[callbacks'[i]]
           /\ round[callbacks'[i]] <= round[ledger]
           /\ round[callbacks'[i]] <= round[tree.ordered_root]
           /\ \A j \in DOMAIN callbacks' :
                i < j => round[callbacks'[i]] < round[callbacks'[j]]
  PROVE  /\ StoreInv' /\ round[ledger] <= round[ledger']
         /\ round[tree.certified] <= round[tree'.certified]
<1>. DEFINE S == find_blocks_to_prune(tree, WindowRoot(b))
<1>1. /\ \E s \in PruneOrders(S) :
           tree' = update_roots(process_pruned_blocks(tree, s), b)
      /\ aborted' = (aborted \cup S) \cap tree'.blocks
      /\ db' \in {db, [blocks |-> db.blocks \ S, qcs |-> db.qcs \ S]}
      /\ UNCHANGED <<inserting, syncing, pipeline, ledger,
                     latest_logical_time, running, interrupted, window_size>>
  BY Zenon DEF commit_callback
<1>2. /\ window_size \in Nat /\ TreeOK(tree) /\ ledger \in Block
      /\ tree.certified \in Block /\ tree.ordered_root \in Block
      /\ tree.certified \in Certified
      /\ tree.commit_root \in Block /\ tree.window_root \in Block
      /\ round[tree.ordered_root] <= round[tree.certified]
      /\ db \in [blocks : SUBSET Block, qcs : SUBSET Certified]
      /\ Floor \in Block /\ round[ledger] <= round[Floor]
      /\ b \in Committable /\ b \in Block
  BY StoreFacts, TreeRoots, CommittableBlocks, Zenon DEF Committable
<1>3. /\ TreeOK(tree') /\ tree'.blocks \subseteq tree.blocks
      /\ tree'.commit_root = b /\ tree'.window_root = WindowRoot(b)
      /\ tree'.ordered_root = tree.ordered_root /\ tree'.certified = tree.certified
      /\ Extends(WindowRoot(b), tree.window_root)
  BY <1>1, <1>2, PruneOK, SMTT(20)
<1>4. /\ db'.blocks \subseteq db.blocks /\ db.blocks \subseteq db'.blocks \cup S
      /\ db'.qcs \subseteq db.qcs /\ db.qcs \subseteq db'.qcs \cup S
      /\ db' \in [blocks : SUBSET Block, qcs : SUBSET Certified]
  <2>. HIDE DEF S
  <2>. QED
    BY <1>1, <1>2
<1>5. WindowRoot(b) \in Block /\ Extends(b, WindowRoot(b))
  BY <1>2, WindowRootOf, Zenon
<1>6. ASSUME NEW x, Extends(x, WindowRoot(b)) PROVE x \notin S
  BY <1>6, Zenon DEF find_blocks_to_prune
<1>. HIDE DEF S
<1>7. ASSUME NEW c \in Certified, round[b] <= round[c]
      PROVE  Extends(c, WindowRoot(b)) /\ c \notin S
  <2>1. Extends(c, b)
    BY <1>2, <1>7, CommittableBlocks, Zenon
  <2>2. Extends(c, WindowRoot(b))
    BY <1>2, <1>5, <2>1, ExtendsTransitive, Zenon
  <2>. QED
    BY <1>6, <2>2, Zenon
<1>8. TypeOK'
  <2>1. tree' \in BlockTree /\ db' \in [blocks : SUBSET Block, qcs : SUBSET Block]
    BY <1>3, <1>4, CertificateAssumption, Zenon DEF TreeOK
  <2>2. aborted' \subseteq Block
    BY <1>1, <2>1, Zenon DEF BlockTree
  <2>3. stale' \subseteq Block
    BY Zenon DEF StoreInv, TypeOK
  <2>. QED
    BY <1>1, <2>1, <2>2, <2>3, Zenon DEF StoreInv, TypeOK
<1>9. TreeOK(tree)'
  BY <1>1, <1>3, SameWindow, Zenon
<1>10. Stored'
  <2>1. tree'.certified \in db'.qcs
    <3>1. tree.certified \in db.qcs
      BY Zenon DEF StoreInv, Stored
    <3>2. round[b] <= round[tree.certified]
      BY <1>2, BlockAssumption
    <3>. QED
      BY <1>2, <1>3, <1>4, <1>7, <3>1, <3>2, Zenon
  <2>2. ASSUME NEW x \in tree'.blocks \ {Genesis}, Extends(x, tree'.window_root)
        PROVE  x \in db'.blocks
    <3>1. Extends(x, tree.window_root)
      BY <1>2, <1>3, <1>5, <2>2, ExtendsTransitive, Zenon
    <3>2. x \in db.blocks
      BY <1>3, <3>1, Zenon DEF StoreInv, Stored
    <3>. QED
      BY <1>3, <1>4, <1>6, <2>2, <3>2, Zenon
  <2>. QED
    BY <1>1, <1>4, <2>1, <2>2, Zenon DEF StoreInv, Stored
<1>11. Pipelined'
  <2>1. Synced' = Synced
    BY <1>1, Zenon DEF Synced
  <2>2. ASSUME NEW s \in stale' PROVE s \in Final /\ round[s] <= round[b]
    <3>1. s \in Final /\ round[s] <= round[tree.commit_root]
      BY Zenon DEF StoreInv, Pipelined
    <3>2. s \in Block
      BY <3>1, CommittableBlocks, Zenon DEF Committable
    <3>. QED
      BY <1>2, <3>1, <3>2, BlockAssumption
  <2>3. /\ ledger \in Committable
        /\ running /\ ~Synced => round[ledger] <= round[tree.ordered_root]
        /\ Synced \/ ~running => pipeline = {}
        /\ pipeline \subseteq Final
        /\ \A f \in pipeline : /\ round[ledger] < round[f]
                               /\ round[f] <= round[tree.ordered_root]
    BY Zenon DEF StoreInv, Pipelined
  <2>4. ledger' = ledger /\ running' = running /\ pipeline' = pipeline
    BY <1>1, Zenon
  <2>. QED
    BY <1>3, <2>1, <2>2, <2>3, <2>4 DEF Pipelined
<1>12. ASSUME NEW x \in Committable, round[b] <= round[x], find_root(db, x)
       PROVE  find_root(db', x)
  <2>1. x \in Block /\ x \in Certified
    BY CommittableBlocks, Zenon
  <2>2. Extends(x, WindowRoot(b)) /\ x \notin S
    BY <1>7, <1>12, <2>1, Zenon
  <2>3. ASSUME NEW a \in Window(x) PROVE a \notin S
    <3>1. Extends(a, WindowRoot(b))
      BY <1>2, <1>12, <2>1, <2>2, WindowAbove, Zenon
    <3>. QED
      BY <1>6, <3>1, Zenon
  <2>. QED
    BY <1>4, <1>12, <2>2, <2>3, Zenon DEF find_root, StoredBlocks, StoredQCs
<1>13. Recoverable'
  <2>1. Floor' = Floor /\ Pending' = Pending
    BY <1>1, Zenon DEF Floor, Pending
  <2>2. /\ find_root(db, ledger) => find_root(db, ledger)'
        /\ Window(ledger)' = Window(ledger)
    <3>1. find_root(db, ledger) => find_root(db', ledger)
      BY <1>12, StoreFacts, Zenon
    <3>. QED
      BY <1>1, <3>1, SameWindow, Zenon
  <2>3. ASSUME syncing # None, round[ledger] <= round[syncing.target]
        PROVE  find_root(db, syncing.target)'
    <3>1. syncing.target \in Final /\ find_root(db, syncing.target)
      BY <2>3, Zenon DEF StoreInv, Recoverable
    <3>2. syncing.target \in Committable /\ syncing.target \in Block
      BY <3>1, CommittableBlocks, Zenon DEF Committable
    <3>3. round[b] <= round[syncing.target]
      BY <1>2, <2>3, <3>2, BlockAssumption
    <3>4. find_root(db', syncing.target)
      BY <1>12, <3>1, <3>2, <3>3, Zenon
    <3>. QED
      BY <1>1, <3>4, SameWindow, Zenon
  <2>4. ASSUME NEW p \in Final \cap db.qcs, round[p] > round[ledger]
        PROVE  p \in db'.qcs
    <3>1. p \in Block /\ p \in Certified
      BY CommittableBlocks, Zenon DEF Committable
    <3>2. round[b] <= round[p]
      BY <1>2, <2>4, <3>1, BlockAssumption
    <3>. QED
      BY <1>4, <1>7, <3>1, <3>2, Zenon
  <2>5. ASSUME ~interrupted, NEW z \in db'.blocks \cup Pending, NEW p \in Final,
               round[p] > round[Floor], Extends(z, p), z # p
        PROVE  p \in db'.qcs
    <3>1. p \in db.qcs
      BY <1>4, <2>5, Zenon DEF StoreInv, Recoverable
    <3>2. p \in Block
      BY CommittableBlocks, Zenon DEF Committable
    <3>3. round[p] > round[ledger]
      BY <1>2, <2>5, <3>2, BlockAssumption
    <3>. QED
      BY <2>4, <3>1, <3>3, Zenon
  <2>6. ASSUME ~interrupted PROVE pipeline \subseteq db'.qcs
    <3>. SUFFICES ASSUME NEW f \in pipeline PROVE f \in db'.qcs
      OBVIOUS
    <3>1. f \in Final /\ f \in db.qcs /\ round[ledger] < round[f] /\ f \in Block
      BY <2>6, CommittableBlocks, Zenon DEF StoreInv, Recoverable, Pipelined, Committable
    <3>2. round[f] > round[ledger]
      BY <1>2, <3>1, BlockAssumption, Zenon
    <3>. QED
      BY <2>4, <3>1, <3>2, Zenon
  <2>7. /\ ledger' = ledger /\ running' = running /\ syncing' = syncing
        /\ inserting' = inserting /\ pipeline' = pipeline /\ interrupted' = interrupted
        /\ latest_logical_time' = latest_logical_time
    BY <1>1, Zenon
  <2>8. /\ ~interrupted /\ (ledger = Genesis \/ Genesis \notin Window(ledger))
             => find_root(db, ledger)
        /\ syncing # None =>
             /\ syncing.target \in Final /\ syncing.target # Genesis
             /\ ~interrupted => IF syncing.synced THEN ledger = syncing.target
                                ELSE latest_logical_time < round[syncing.target]
        /\ ~interrupted => latest_logical_time <= round[ledger]
    BY Zenon DEF StoreInv, Recoverable
  <2>9. ~running' => inserting' = None /\ syncing' = None
    BY <2>7 DEF StoreInv, Recoverable
  <2>10. ASSUME syncing' # None
         PROVE  /\ syncing'.target \in Final /\ syncing'.target # Genesis
                /\ ~interrupted' =>
                     IF syncing'.synced THEN ledger' = syncing'.target
                     ELSE latest_logical_time' < round[syncing'.target]
                /\ round[ledger'] <= round[syncing'.target] => find_root(db, syncing.target)'
    <3>1. syncing # None
      BY <2>7, <2>10, Zenon
    <3>2. IF ~interrupted THEN IF syncing.synced THEN ledger = syncing.target
                               ELSE latest_logical_time < round[syncing.target]
                          ELSE TRUE
      BY <2>8, <3>1, Zenon
    <3>. QED
      BY <2>3, <2>7, <2>8, <3>1, <3>2, SMT
  <2>11. ASSUME ~interrupted'
         PROVE  /\ \A z \in db'.blocks \cup Pending', p \in Final :
                     round[p] > round[Floor'] /\ Extends(z, p) /\ z # p => p \in db'.qcs
                /\ pipeline' \subseteq db'.qcs
                /\ latest_logical_time' <= round[ledger']
                /\ ledger' = Genesis \/ Genesis \notin Window(ledger)'
                     => find_root(db, ledger)'
    <3>1. ~interrupted
      BY <2>7, <2>11
    <3>2. \A z \in db'.blocks \cup Pending', p \in Final :
            round[p] > round[Floor'] /\ Extends(z, p) /\ z # p => p \in db'.qcs
      BY <2>1, <2>5, <3>1, Zenon
    <3>3. pipeline' \subseteq db'.qcs
      BY <2>6, <2>7, <3>1, Zenon
    <3>4. ledger' = Genesis \/ Genesis \notin Window(ledger)' => find_root(db, ledger)'
      BY <2>2, <2>7, <2>8, <3>1, Zenon
    <3>5. latest_logical_time' <= round[ledger']
      BY <2>7, <2>8, <3>1, Zenon
    <3>. QED
      BY <3>2, <3>3, <3>4, <3>5, Zenon
  <2>. QED
    BY <2>9, <2>10, <2>11, Zenon DEF Recoverable
<1>. QED
  BY <1>1, <1>2, <1>3, <1>8, <1>9, <1>10, <1>11, <1>13, BlockAssumption DEF StoreInv

LEMMA PostCommitLedgerStep ==
  ASSUME StoreInv, PostCommitLedger
  PROVE  /\ StoreInv' /\ round[ledger] <= round[ledger']
         /\ round[tree.certified] <= round[tree'.certified]
<1>. DEFINE b == Head(callbacks)
<1>1. /\ running /\ callbacks # <<>> /\ commit_callback(b)
      /\ callbacks' = Tail(callbacks)
      /\ UNCHANGED <<inserting, syncing, pipeline, stale, ledger,
                     latest_logical_time, running, interrupted, window_size>>
  BY Zenon DEF PostCommitLedger
<1>2. callbacks \in Seq(Block)
  BY Zenon DEF StoreInv, TypeOK
<1>3. /\ 1 \in DOMAIN callbacks /\ b = callbacks[1] /\ b \in Block
      /\ callbacks' \in Seq(Block)
      /\ \A i \in DOMAIN callbacks' :
           /\ i \in Nat /\ i + 1 \in DOMAIN callbacks
           /\ callbacks'[i] = callbacks[i + 1] /\ 1 < i + 1
  BY <1>1, <1>2
<1>. HIDE DEF b
<1>4. /\ b \in Final /\ round[tree.commit_root] <= round[b] /\ round[b] <= round[ledger]
      /\ round[b] <= round[tree.ordered_root]
      /\ \A j \in DOMAIN callbacks : 1 < j => round[b] < round[callbacks[j]]
  BY <1>3, Zenon DEF StoreInv, Pipelined
<1>5. ASSUME NEW i \in DOMAIN callbacks'
      PROVE  /\ callbacks'[i] \in Final
             /\ round[b] <= round[callbacks'[i]]
             /\ round[callbacks'[i]] <= round[ledger]
             /\ round[callbacks'[i]] <= round[tree.ordered_root]
             /\ \A j \in DOMAIN callbacks' :
                  i < j => round[callbacks'[i]] < round[callbacks'[j]]
  <2>1. /\ i \in Nat /\ i + 1 \in DOMAIN callbacks
        /\ callbacks'[i] = callbacks[i + 1] /\ 1 < i + 1
    BY <1>3, Zenon
  <2>2. /\ callbacks[i + 1] \in Final
        /\ round[callbacks[i + 1]] <= round[ledger]
        /\ round[callbacks[i + 1]] <= round[tree.ordered_root]
        /\ \A j \in DOMAIN callbacks :
             i + 1 < j => round[callbacks[i + 1]] < round[callbacks[j]]
    BY <2>1, Zenon DEF StoreInv, Pipelined
  <2>3. round[b] <= round[callbacks'[i]]
    <3>1. callbacks[i + 1] \in Block /\ round[b] < round[callbacks[i + 1]]
      BY <1>2, <1>4, <2>1
    <3>. QED
      BY <1>3, <2>1, <3>1, BlockAssumption
  <2>4. ASSUME NEW j \in DOMAIN callbacks', i < j
        PROVE  round[callbacks'[i]] < round[callbacks'[j]]
    <3>1. /\ j \in Nat /\ j + 1 \in DOMAIN callbacks
          /\ callbacks'[j] = callbacks[j + 1]
      BY <1>3, Zenon
    <3>2. i + 1 < j + 1
      BY <2>1, <2>4, <3>1
    <3>. QED
      BY <2>1, <2>2, <3>1, <3>2, Zenon
  <2>. QED
    BY <2>1, <2>2, <2>3, <2>4, Zenon
<1>. QED
  BY <1>1, <1>3, <1>4, <1>5, CallbackStep, Zenon

LEMMA StalePostCommitLedgerStep ==
  ASSUME StoreInv, NEW b \in Block, StalePostCommitLedger(b)
  PROVE  /\ StoreInv' /\ round[ledger] <= round[ledger']
         /\ round[tree.certified] <= round[tree'.certified]
<1>1. /\ running /\ b \in stale /\ commit_callback(b)
      /\ stale' = stale \ {b}
      /\ UNCHANGED <<inserting, syncing, pipeline, callbacks, ledger,
                     latest_logical_time, running, interrupted, window_size>>
  BY Zenon DEF StalePostCommitLedger
<1>2. /\ tree.commit_root \in Block /\ tree.ordered_root \in Block /\ ledger \in Block
      /\ round[tree.commit_root] <= round[ledger] /\ callbacks \in Seq(Block)
      /\ round[tree.commit_root] <= round[tree.ordered_root]
  BY StoreFacts, Zenon DEF StoreInv, TypeOK, TreeOK
<1>3. b \in Final /\ round[b] <= round[tree.commit_root]
  BY <1>1, Zenon DEF StoreInv, Pipelined
<1>4. round[b] >= round[tree.commit_root]
  BY <1>1, Zenon DEF commit_callback, CallbackFinds, HasWindow
<1>5. round[b] = round[tree.commit_root]
  BY <1>2, <1>3, <1>4, BlockAssumption
<1>6. /\ round[tree.commit_root] <= round[b] /\ round[b] <= round[ledger]
      /\ round[b] <= round[tree.ordered_root]
  BY <1>2, <1>3, <1>5, BlockAssumption, Zenon
<1>7. \A i \in DOMAIN callbacks :
           /\ callbacks[i] \in Final
           /\ round[b] <= round[callbacks[i]]
           /\ round[callbacks[i]] <= round[ledger]
           /\ round[callbacks[i]] <= round[tree.ordered_root]
           /\ \A j \in DOMAIN callbacks :
                i < j => round[callbacks[i]] < round[callbacks[j]]
  BY <1>5, Zenon DEF StoreInv, Pipelined
<1>. QED
  BY <1>1, <1>2, <1>3, <1>6, <1>7, CallbackStep, Zenon

(* An ancestor of a certified block is certified.                          *)
LEMMA AncestorCertified ==
  ASSUME NEW b \in Block, NEW c \in Certified, Extends(c, b)
  PROVE  b \in Certified
<1>. DEFINE S == {d \in Block : d \in Certified => b \in Certified}
<1>1. ClosedUnderChildren(S)
  BY CertificateAssumption, BlockAssumption, Zenon DEF ClosedUnderChildren
<1>2. b \in S /\ S \in SUBSET Block
  OBVIOUS
<1>. HIDE DEF S
<1>3. c \in S
  BY <1>1, <1>2, Zenon DEF Extends, Descendants
<1>. QED
  BY <1>3, Zenon DEF S

(* What a sync retrieves: certified blocks, and with a block all that can  *)
(* be committed between the target and it.                                 *)
LEMMA RetrievedBlocks ==
  ASSUME window_size \in Nat, NEW t \in Final, NEW q \in Certified, round[q] >= round[t]
  PROVE  /\ Retrieved(t, q) \subseteq Certified /\ Retrieved(t, q) \subseteq Block
         /\ window_size # 0 => Genesis \notin Retrieved(t, q)
         /\ \A z \in Retrieved(t, q), p \in Final :
              round[p] > round[t] /\ Extends(z, p) => p \in Retrieved(t, q)
<1>1. t \in Block /\ q \in Block /\ t \in Certified /\ t \in Committable
  BY CommittableBlocks, Zenon DEF Committable
<1>2. Extends(q, t)
  BY <1>1, CommittableBlocks, BlockAssumption, Zenon
<1>3. ASSUME NEW z \in Retrieved(t, q)
      PROVE  z \in Block /\ Extends(q, z)
  BY <1>1, <1>2, InPath, Zenon DEF Retrieved
<1>4. Retrieved(t, q) \subseteq Certified /\ Retrieved(t, q) \subseteq Block
  BY <1>3, AncestorCertified, Zenon
<1>5. window_size # 0 => Genesis \notin Retrieved(t, q)
  BY Zenon DEF Retrieved
<1>6. ASSUME NEW z \in Retrieved(t, q), NEW p \in Final,
             round[p] > round[t], Extends(z, p)
      PROVE  p \in Retrieved(t, q)
  <2>1. p \in Block /\ p \in Certified /\ round[p] \in Nat /\ round[t] \in Nat
    BY <1>1, CommittableBlocks, BlockAssumption, Zenon DEF Committable
  <2>2. Extends(q, p)
    BY <1>3, <1>6, <2>1, ExtendsTransitive, Zenon
  <2>3. Extends(p, t) /\ p # t /\ p # Genesis
    BY <1>1, <1>6, <2>1, CommittableBlocks, WellFormedAssumption
  <2>4. CASE window_size = 0
    <3>1. p \in Path(t, q)
      BY <1>1, <2>1, <2>2, <2>3, InPath, Zenon
    <3>. QED
      BY <2>4, <3>1, Zenon DEF Retrieved
  <2>5. CASE window_size # 0
    <3>1. round[p] >= calculate_window_start_round(round[t])
      BY <1>6, <2>1, <2>5 DEF calculate_window_start_round
    <3>. QED
      BY <2>1, <2>2, <2>3, <2>5, <3>1, Zenon DEF Retrieved
  <2>. QED
    BY <2>4, <2>5, Zenon
<1>. QED
  BY <1>4, <1>5, <1>6, Zenon

(* Saving what was retrieved keeps what storage holds, and allows recovery *)
(* at the target.                                                          *)
LEMMA SavedBlocks ==
  ASSUME StoreInv, NEW t \in Final, NEW q \in Certified, round[q] >= round[t],
         SaveRetrieved(t, q)
  PROVE  /\ db' \in [blocks : SUBSET Block, qcs : SUBSET Certified]
         /\ db.blocks \subseteq db'.blocks /\ db.qcs \subseteq db'.qcs
         /\ Genesis \in db'.blocks => window_size = 0
         /\ find_root(db', t) /\ (find_root(db, ledger) => find_root(db', ledger))
         /\ ~interrupted /\ inserting = None =>
              \A z \in db'.blocks, p \in Final :
                /\ round[p] > round[t] /\ round[p] > round[Floor]
                /\ Extends(z, p) /\ z # p
                => p \in db'.qcs
<1>. DEFINE R == Retrieved(t, q)
            d == [blocks |-> R, qcs |-> R]
<1>1. /\ find_root(d, t)
      /\ db' = [blocks |-> db.blocks \cup R, qcs |-> db.qcs \cup R]
  BY Zenon DEF SaveRetrieved
<1>2. /\ window_size \in Nat /\ ledger \in Block /\ t \in Block
      /\ db \in [blocks : SUBSET Block, qcs : SUBSET Certified]
      /\ Genesis \in db.blocks => window_size = 0
  BY StoreFacts, CommittableBlocks, Zenon DEF Committable, StoreInv, Stored
<1>3. /\ R \subseteq Certified /\ R \subseteq Block
      /\ window_size # 0 => Genesis \notin R
      /\ \A z \in R, p \in Final : round[p] > round[t] /\ Extends(z, p) => p \in R
  BY <1>2, RetrievedBlocks, Zenon
<1>4. d.blocks = R /\ d.qcs = R
  OBVIOUS
<1>. HIDE DEF R, d
<1>5. /\ db'.blocks = db.blocks \cup R /\ db'.qcs = db.qcs \cup R
      /\ db' \in [blocks : SUBSET Block, qcs : SUBSET Certified]
  BY <1>1, <1>2, <1>3, Zenon
<1>6. find_root(db', t) /\ (find_root(db, ledger) => find_root(db', ledger))
  BY <1>1, <1>2, <1>4, <1>5, FindRootGrows, Zenon
<1>7. ASSUME ~interrupted, inserting = None, NEW z \in db'.blocks, NEW p \in Final,
             round[p] > round[t], round[p] > round[Floor], Extends(z, p), z # p
      PROVE  p \in db'.qcs
  <2>1. CASE z \in R
    BY <1>3, <1>5, <1>7, <2>1, Zenon
  <2>2. CASE z \in db.blocks
    <3>1. p \in db.qcs
      BY <1>7, <2>2, Zenon DEF StoreInv, Recoverable
    <3>. QED
      BY <1>5, <3>1, Zenon
  <2>. QED
    BY <1>5, <2>1, <2>2, Zenon
<1>. QED
  BY <1>2, <1>3, <1>5, <1>6, <1>7, Zenon

LEMMA FastForwardSyncStep ==
  ASSUME StoreInv, NEW t \in CommitCerts, NEW q \in Certified, FastForwardSync(t, q)
  PROVE  /\ StoreInv' /\ round[ledger] <= round[ledger']
         /\ round[tree.certified] <= round[tree'.certified]
<1>1. /\ running /\ inserting = None /\ syncing = None
      /\ round[q] >= round[t] /\ need_sync_for_ledger_info(t) /\ SaveRetrieved(t, q)
      /\ syncing' = [target |-> t, synced |-> FALSE]
      /\ UNCHANGED <<tree, aborted, inserting, pipeline, callbacks, stale,
                     ledger, latest_logical_time, running, interrupted,
                     window_size>>
  BY Zenon DEF FastForwardSync, Idle
<1>2. /\ window_size \in Nat /\ TreeOK(tree) /\ ledger \in Block
      /\ tree.certified \in Block /\ tree.ordered_root \in Block
      /\ t \in Final /\ t \in Block
  BY StoreFacts, CommitAssumption, CommittableBlocks, Zenon DEF Committable
<1>3. ~Synced /\ ~Synced' /\ Floor = ledger
  <2>1. ~Synced /\ Floor = ledger
    BY <1>1, Zenon DEF Synced, Floor
  <2>2. ~Synced'
    <3>1. syncing'.synced = FALSE
      BY <1>1, Zenon
    <3>. QED
      BY <3>1, Zenon DEF Synced
  <2>. QED
    BY <2>1, <2>2, Zenon
<1>4. round[ledger] < round[t] /\ t # Genesis
  <2>1. round[ledger] <= round[tree.ordered_root]
    BY <1>1, <1>3, Zenon DEF StoreInv, Pipelined
  <2>2. round[ledger] \in Nat /\ round[t] \in Nat /\ round[tree.ordered_root] \in Nat
    BY <1>2, BlockAssumption, Zenon
  <2>3. round[ledger] < round[t]
    BY <1>1, <2>1, <2>2, SizeAssumption DEF need_sync_for_ledger_info
  <2>. QED
    BY <2>2, <2>3, WellFormedAssumption
<1>5. /\ db' \in [blocks : SUBSET Block, qcs : SUBSET Certified]
      /\ db.blocks \subseteq db'.blocks /\ db.qcs \subseteq db'.qcs
      /\ Genesis \in db'.blocks => window_size = 0
      /\ find_root(db', t) /\ (find_root(db, ledger) => find_root(db', ledger))
      /\ ~interrupted =>
           \A z \in db'.blocks, p \in Final :
             /\ round[p] > round[t] /\ round[p] > round[Floor]
             /\ Extends(z, p) /\ z # p
             => p \in db'.qcs
  BY <1>1, <1>2, SavedBlocks, Zenon
<1>6. /\ syncing' # None /\ syncing'.target = t /\ syncing'.synced = FALSE
      /\ syncing' \in SyncState
  <2>1. syncing'.target = t /\ syncing'.synced = FALSE
    BY <1>1, Zenon
  <2>2. syncing' \in [target : Block, synced : BOOLEAN]
    BY <1>1, <1>2, Zenon
  <2>. QED
    BY <2>1, <2>2, SizeAssumption, Zenon DEF SyncState
<1>7. TypeOK'
  <2>1. db' \in [blocks : SUBSET Block, qcs : SUBSET Block]
    BY <1>5, CertificateAssumption, Zenon
  <2>. QED
    BY <1>1, <1>6, <2>1, Zenon DEF StoreInv, TypeOK
<1>8. TreeOK(tree)'
  BY <1>1, <1>2, SameWindow, Zenon
<1>9. Stored'
  BY <1>1, <1>5, Zenon DEF StoreInv, Stored
<1>10. Pipelined'
  BY <1>1, <1>3, Zenon DEF StoreInv, Pipelined
<1>11. Recoverable'
  <2>1. Floor' = t /\ Pending' = {}
    BY <1>1, <1>2, <1>4, <1>6, BlockAssumption, Zenon DEF Floor, Pending, Later
  <2>2. /\ find_root(db, ledger) => find_root(db, ledger)'
        /\ Window(ledger)' = Window(ledger)
        /\ find_root(db, syncing.target)'
    <3>1. find_root(db', syncing'.target)
      BY <1>5, <1>6, Zenon
    <3>. QED
      BY <1>1, <1>5, <3>1, SameWindow, Zenon
  <2>3. ASSUME ~interrupted, NEW z \in db'.blocks, NEW p \in Final,
               round[p] > round[t], Extends(z, p), z # p
        PROVE  p \in db'.qcs
    <3>1. p \in Block
      BY CommittableBlocks, Zenon DEF Committable
    <3>2. round[p] > round[Floor]
      BY <1>2, <1>3, <1>4, <2>3, <3>1, BlockAssumption
    <3>. QED
      BY <1>5, <2>3, <3>2, Zenon
  <2>4. ~interrupted => pipeline \subseteq db'.qcs
    BY <1>5, Zenon DEF StoreInv, Recoverable
  <2>5. ~interrupted /\ (ledger = Genesis \/ Genesis \notin Window(ledger))
          => find_root(db, ledger)
    BY Zenon DEF StoreInv, Recoverable
  <2>6. /\ ~interrupted => latest_logical_time <= round[ledger]
        /\ ~interrupted => latest_logical_time < round[t]
    <3>1. /\ latest_logical_time \in Nat
          /\ ~interrupted => latest_logical_time <= round[ledger]
      BY Zenon DEF StoreInv, TypeOK, Recoverable
    <3>. QED
      BY <1>2, <1>4, <3>1, BlockAssumption
  <2>. QED
    BY <1>1, <1>2, <1>4, <1>6, <2>1, <2>2, <2>3, <2>4, <2>5, <2>6, Zenon DEF Recoverable
<1>. QED
  BY <1>1, <1>2, <1>7, <1>8, <1>9, <1>10, <1>11, BlockAssumption DEF StoreInv

(* What ExecutionProxy::sync_to_target does to the ledger: the driver has  *)
(* refused a target behind it.                                             *)
LEMMA SyncOutcome ==
  ASSUME NEW t \in Block, ledger \in Block,
         SyncToTargetOk(t) \/ SyncToTargetErr(t)
  PROVE  /\ ledger' \in {ledger, t} /\ round[ledger] <= round[ledger']
         /\ latest_logical_time' \in {latest_logical_time, round[t]}
         /\ SyncToTargetOk(t) /\ ~(latest_logical_time >= round[t])
              => ledger' = t /\ latest_logical_time' = round[t]
<1>1. round[ledger] <= round[ledger]
  BY BlockAssumption
<1>2. CASE SyncToTargetErr(t)
  BY <1>1, <1>2, BlockAssumption
     DEF SyncToTargetErr, SyncToTargetOk, initialize_sync_target_request
<1>3. CASE SyncToTargetOk(t)
  BY <1>1, <1>3, BlockAssumption DEF SyncToTargetOk, initialize_sync_target_request
<1>. QED
  BY <1>2, <1>3, Zenon

LEMMA SyncToTargetStep ==
  ASSUME StoreInv, SyncToTarget
  PROVE  /\ StoreInv' /\ round[ledger] <= round[ledger']
         /\ round[tree.certified] <= round[tree'.certified]
<1>. DEFINE g == syncing.target
<1>1. /\ running /\ syncing # None /\ ~syncing.synced /\ pipeline' = {}
      /\ aborted' = aborted \cup
                     (tree.blocks \cap UNION {Path(ledger, f) : f \in pipeline})
      /\ \/ /\ SyncToTargetOk(g)
            /\ syncing' = [syncing EXCEPT !.synced = TRUE]
            /\ UNCHANGED interrupted
         \/ /\ SyncToTargetErr(g) /\ syncing' = None
            /\ interrupted' = (interrupted \/ round[ledger] < round[g])
      /\ UNCHANGED <<tree, inserting, callbacks, stale, db, running, window_size>>
  BY Zenon DEF SyncToTarget
<1>2. /\ window_size \in Nat /\ TreeOK(tree) /\ ledger \in Block /\ ledger \in Committable
      /\ tree.certified \in Block /\ tree.commit_root \in Block
      /\ tree.blocks \subseteq Block
      /\ syncing \in SyncState /\ g \in Block /\ g \in Committable /\ g \in Final
      /\ g # Genesis
      /\ round[ledger] <= round[g] => find_root(db, g)
      /\ ~Synced
  BY <1>1, StoreFacts, Zenon
     DEF StoreInv, TypeOK, TreeOK, BlockTree, SyncState, Recoverable, Committable, Synced
<1>3. /\ ledger' \in {ledger, g} /\ round[ledger] <= round[ledger']
      /\ ledger' \in Block /\ ledger' \in Committable
      /\ latest_logical_time' \in {latest_logical_time, round[g]}
      /\ SyncToTargetOk(g) /\ ~(latest_logical_time >= round[g])
           => ledger' = g /\ latest_logical_time' = round[g]
      /\ SyncToTargetErr(g) => ledger' = ledger
  BY <1>1, <1>2, SyncOutcome, Zenon DEF SyncToTargetErr
<1>4. TypeOK'
  <2>1. aborted' \subseteq Block /\ pipeline' \subseteq Block
    BY <1>1, <1>2, Zenon DEF StoreInv, TypeOK
  <2>2. syncing' \in SyncState \cup {None} /\ interrupted' \in BOOLEAN
    BY <1>1, <1>2, Zenon DEF SyncState, StoreInv, TypeOK
  <2>3. latest_logical_time' \in Nat
    <3>1. latest_logical_time \in Nat
      BY Zenon DEF StoreInv, TypeOK
    <3>2. round[g] \in Nat
      BY <1>2, BlockAssumption
    <3>. QED
      BY <1>3, <3>1, <3>2, Zenon
  <2>. QED
    BY <1>1, <1>3, <2>1, <2>2, <2>3, Zenon DEF StoreInv, TypeOK
<1>5. TreeOK(tree)'
  BY <1>1, <1>2, SameWindow, Zenon
<1>6. Stored'
  BY <1>1, Zenon DEF StoreInv, Stored
<1>7. Pipelined'
  <2>1. Synced' \/ ledger' = ledger
    <3>1. CASE syncing' = [syncing EXCEPT !.synced = TRUE]
      <4>1. syncing'.synced = TRUE /\ syncing' \in SyncState
        BY <1>2, <3>1, Zenon DEF SyncState
      <4>2. syncing' # None
        BY <4>1, SizeAssumption, Zenon DEF SyncState
      <4>. QED
        BY <4>1, <4>2, Zenon DEF Synced
    <3>. QED
      BY <1>1, <1>3, <3>1, Zenon
  <2>2. round[tree.commit_root] <= round[ledger']
    BY <1>2, <1>3, StoreFacts, BlockAssumption
  <2>3. ASSUME NEW i \in DOMAIN callbacks PROVE round[callbacks[i]] <= round[ledger']
    <3>1. callbacks[i] \in Block /\ round[callbacks[i]] <= round[ledger]
      BY DEF StoreInv, TypeOK, Pipelined
    <3>. QED
      BY <1>2, <1>3, <3>1, BlockAssumption
  <2>. QED
    BY <1>1, <1>2, <1>3, <2>1, <2>2, <2>3, Zenon DEF StoreInv, Pipelined
<1>8. Recoverable'
  <2>1. /\ latest_logical_time \in Nat /\ round[g] \in Nat /\ round[ledger] \in Nat
        /\ ~interrupted => latest_logical_time < round[g]
        /\ ~interrupted => latest_logical_time <= round[ledger]
        /\ Floor = Later(g, ledger) /\ Pending' = Pending
        /\ \A x : find_root(db, x)' <=> find_root(db, x)
    BY <1>1, <1>2, SameWindow, BlockAssumption, Zenon
       DEF StoreInv, TypeOK, Recoverable, Floor, Pending
  <2>2. /\ Window(ledger)' = Window(ledger')
        /\ find_root(db, ledger)' <=> find_root(db, ledger')
    BY <1>1, SameWindow, Zenon
  <2>3. CASE SyncToTargetErr(g) /\ syncing' = None
             /\ interrupted' = (interrupted \/ round[ledger] < round[g])
    <3>1. Floor' = ledger /\ ledger' = ledger
      BY <1>3, <2>3, Zenon DEF Floor
    <3>2. latest_logical_time' = round[g]
      BY <2>3, Zenon DEF SyncToTargetErr
    <3>3. ASSUME ~interrupted'
          PROVE  ~interrupted /\ Floor = ledger /\ latest_logical_time' <= round[ledger]
      <4>1. ~interrupted /\ ~(round[ledger] < round[g])
        BY <2>3, <3>3, Zenon
      <4>. QED
        BY <2>1, <3>2, <4>1 DEF Later
    <3>. QED
      BY <1>1, <2>1, <2>2, <2>3, <3>1, <3>3, Zenon DEF StoreInv, Recoverable
  <2>4. CASE /\ SyncToTargetOk(g)
             /\ syncing' = [syncing EXCEPT !.synced = TRUE]
             /\ UNCHANGED interrupted
    <3>1. /\ syncing'.target = g /\ syncing'.synced /\ syncing' \in SyncState
      BY <1>2, <2>4, Zenon DEF SyncState
    <3>2. syncing' # None
      BY <3>1, SizeAssumption, Zenon DEF SyncState
    <3>3. ASSUME ~interrupted
          PROVE  /\ ledger' = g /\ round[Floor'] = round[Floor]
                 /\ latest_logical_time' <= round[ledger'] /\ find_root(db, g)
      <4>1. ~(latest_logical_time >= round[g])
        BY <2>1, <3>3
      <4>2. ledger' = g /\ latest_logical_time' = round[g]
        BY <1>3, <2>4, <4>1, Zenon
      <4>3. round[ledger] <= round[g]
        BY <1>3, <4>2, Zenon
      <4>4. Floor' = Later(g, g)
        BY <3>1, <3>2, <4>2, Zenon DEF Floor
      <4>. QED
        BY <1>2, <2>1, <4>2, <4>3, <4>4 DEF Later
    <3>4. ASSUME ~interrupted, NEW z \in db.blocks \cup Pending, NEW p \in Final,
                 round[p] > round[Floor'], Extends(z, p), z # p
          PROVE  p \in db.qcs
      BY <3>3, <3>4, Zenon DEF StoreInv, Recoverable
    <3>5. round[ledger'] <= round[syncing'.target] => find_root(db, syncing.target)'
      <4>1. round[ledger'] <= round[g] => round[ledger] <= round[g]
        BY <1>2, <1>3, <2>1, BlockAssumption
      <4>2. find_root(db, syncing.target)' <=> find_root(db, g)
        BY <1>1, <3>1, SameWindow, Zenon
      <4>. QED
        BY <1>2, <3>1, <4>1, <4>2, Zenon
    <3>. QED
      BY <1>1, <1>2, <2>1, <2>2, <2>4, <3>1, <3>2, <3>3, <3>4, <3>5, Zenon DEF Recoverable
  <2>. QED
    BY <1>1, <2>3, <2>4, Zenon
<1>. QED
  BY <1>1, <1>2, <1>3, <1>4, <1>5, <1>6, <1>7, <1>8, BlockAssumption DEF StoreInv

(* The tree is rebuilt from storage, in place or after a crash.            *)
LEMMA RebuildStep ==
  ASSUME StoreInv, find_root(db, ledger), Rebuild(db, ledger),
         ledger' = ledger, window_size' = window_size, running' = TRUE,
         interrupted' \in BOOLEAN,
         ~interrupted' => ~interrupted /\ round[Floor] = round[ledger],
         latest_logical_time' \in Nat,
         ~interrupted' => latest_logical_time' <= round[ledger],
         \A s \in stale' : s \in Final /\ round[s] <= round[ledger]
  PROVE  /\ StoreInv' /\ round[ledger] <= round[ledger']
         /\ round[tree.certified] <= round[tree'.certified]
<1>1. /\ tree' = Recovered(db, ledger).tree /\ db' = Recovered(db, ledger).db
      /\ pipeline' = Recovered(db, ledger).pipeline
      /\ aborted' = {} /\ inserting' = None /\ syncing' = None /\ callbacks' = <<>>
  BY Zenon DEF Rebuild
<1>2. /\ window_size \in Nat /\ TreeOK(tree) /\ ledger \in Block /\ ledger \in Committable
      /\ tree.certified \in Block /\ tree.certified \in Certified
      /\ tree.certified \in tree.blocks
      /\ tree.window_root \in Block
      /\ db \in [blocks : SUBSET Block, qcs : SUBSET Certified]
      /\ Genesis \in db.blocks => window_size = 0
  BY StoreFacts, Zenon DEF StoreInv, Stored, TreeOK
<1>3. /\ TreeOK(tree') /\ tree'.commit_root = ledger
      /\ db' \in [blocks : SUBSET Block, qcs : SUBSET Certified]
      /\ db'.blocks = Retained(db, ledger) \ {Genesis}
      /\ db'.qcs = StoredQCs(db, ledger) \cap Retained(db, ledger)
      /\ tree'.blocks = Retained(db, ledger)
      /\ tree'.certified \in db'.qcs
      /\ \A c \in db'.qcs : round[c] <= round[tree'.certified]
      /\ find_root(db', ledger)
      /\ pipeline' \subseteq Final
      /\ \A b \in pipeline' : round[ledger] < round[b] /\ round[b] <= round[tree'.ordered_root]
      /\ \A b \in pipeline' : \E c \in tree'.blocks : commit_info(c) = b /\ c \in Certified
  <2>1. /\ tree' = Recovered(db, ledger).tree /\ db' = Recovered(db, ledger).db
        /\ pipeline' = Recovered(db, ledger).pipeline
    BY <1>1, Zenon
  <2>2. /\ window_size \in Nat /\ ledger \in Committable
        /\ db \in [blocks : SUBSET Block, qcs : SUBSET Certified]
        /\ Genesis \in db.blocks => window_size = 0
    BY <1>2, Zenon
  <2> QED BY <2>1, <2>2, RecoveredStore
<1>4. Final \subseteq Block
  BY CommittableBlocks, Zenon DEF Committable
<1>5. TypeOK'
  <2>1. tree' \in BlockTree /\ db' \in [blocks : SUBSET Block, qcs : SUBSET Block]
    BY <1>3, CertificateAssumption, Zenon DEF TreeOK
  <2>2. pipeline' \subseteq Block /\ stale' \subseteq Block /\ callbacks' \in Seq(Block)
    <3>1. callbacks' \in Seq(Block)
      BY <1>1
    <3>. QED
      BY <1>3, <1>4, <3>1, Zenon
  <2>3. aborted' \subseteq Block /\ running' \in BOOLEAN
    BY <1>1, Zenon
  <2>. QED
    BY <1>1, <1>2, <2>1, <2>2, <2>3, Zenon DEF StoreInv, TypeOK
<1>6. TreeOK(tree)'
  BY <1>3, SameWindow, Zenon
<1>7. Stored'
  BY <1>1, <1>3, BlockAssumption, Zenon DEF Stored
<1>8. Pipelined'
  <2>1. ~Synced' /\ DOMAIN callbacks' = {}
    BY <1>1 DEF Synced
  <2>2. round[ledger] <= round[tree'.ordered_root] /\ round[ledger] <= round[ledger]
    <3>1. round[ledger] <= round[tree'.ordered_root]
      BY <1>3, Zenon DEF TreeOK
    <3>2. round[ledger] \in Nat
      BY <1>2, BlockAssumption, Zenon
    <3>. QED
      BY <3>1, <3>2
  <2>. QED
    BY <1>2, <1>3, <2>1, <2>2, Zenon DEF Pipelined
<1>9. ASSUME ~interrupted', NEW z \in db'.blocks, NEW p \in Final,
             round[p] > round[ledger], Extends(z, p), z # p
      PROVE  p \in db'.qcs
  <2>1. /\ z \in Retained(db, ledger) /\ z # Genesis /\ z \in StoredBlocks(db, ledger)
        /\ \A x \in Block : Extends(z, x) /\ Extends(x, WindowRoot(ledger))
                              => x \in Retained(db, ledger)
    BY <1>2, <1>3, RetainedPaths, Zenon
  <2>2. z \in db.blocks
    BY <2>1, Zenon DEF StoredBlocks
  <2>3. p \in db.qcs
    BY <1>9, <2>2, Zenon DEF StoreInv, Recoverable
  <2>4. Extends(p, WindowRoot(ledger))
    <3>1. p \in Certified /\ p \in Block /\ round[ledger] <= round[p]
      BY <1>2, <1>4, <1>9, CommittableBlocks, BlockAssumption DEF Committable
    <3>2. Extends(p, ledger)
      BY <1>2, <3>1, CommittableBlocks, Zenon
    <3>3. WindowRoot(ledger) \in Block /\ Extends(ledger, WindowRoot(ledger))
      BY <1>2, WindowRootOf, Zenon
    <3>. QED
      BY <1>2, <3>2, <3>3, ExtendsTransitive, Zenon
  <2>. QED
    BY <1>3, <1>4, <1>9, <2>1, <2>3, <2>4, Zenon DEF StoredQCs
<1>10. ASSUME ~interrupted', NEW b \in pipeline' PROVE b \in db'.qcs
  <2>1. PICK c \in tree'.blocks : commit_info(c) = b /\ c \in Certified
    BY <1>3, Zenon
  <2>2. b \in Final /\ b \in Block /\ b # None /\ round[ledger] < round[b] /\ b \in Committable
    BY <1>3, <1>4, BlockAssumption, Zenon DEF Committable
  <2>3. c # Genesis /\ round[b] < round[c] /\ c \in Block
    BY <2>1, <2>2, CommitInfo, CommittableBlocks, Zenon
  <2>4. Extends(c, b) /\ c # b /\ round[b] > round[ledger]
    BY <1>2, <2>1, <2>2, <2>3, CommittableBlocks, BlockAssumption
  <2>5. c \in db'.blocks
    BY <1>3, <2>3, Zenon
  <2>. QED
    BY <1>9, <1>10, <2>2, <2>4, <2>5, Zenon
<1>11. Recoverable'
  <2>1. Floor' = ledger /\ Pending' = {}
    BY <1>1, Zenon DEF Floor, Pending
  <2>2. find_root(db, ledger)'
    BY <1>3, SameWindow, Zenon
  <2>. QED
    BY <1>1, <1>9, <1>10, <2>1, <2>2, Zenon DEF Recoverable
<1>12. round[tree.certified] <= round[tree'.certified]
  <2>1. CASE round[tree.certified] < round[ledger]
    <3>1. tree'.certified \in Block /\ round[ledger] <= round[tree'.certified]
      BY <1>2, <1>3, TreeRoots, Zenon
    <3>. QED
      BY <1>2, <2>1, <3>1, BlockAssumption
  <2>2. CASE ~(round[tree.certified] < round[ledger])
    <3>0. round[ledger] <= round[tree.certified]
      BY <1>2, <2>2, BlockAssumption
    <3>1. Extends(tree.certified, ledger)
      BY <1>2, <3>0, CommittableBlocks, Zenon
    <3>2. WindowRoot(ledger) \in Block /\ Extends(ledger, WindowRoot(ledger))
      BY <1>2, WindowRootOf, Zenon
    <3>3. Extends(tree.certified, WindowRoot(ledger))
      BY <1>2, <3>1, <3>2, ExtendsTransitive, Zenon
    <3>4. Extends(WindowRoot(ledger), tree.window_root)
      <4>1. /\ tree.commit_root \in Committable /\ tree.commit_root \in Block
            /\ tree.window_root = WindowRoot(tree.commit_root)
            /\ round[tree.commit_root] <= round[ledger] /\ ledger \in Certified
        BY StoreFacts, Zenon DEF TreeOK
      <4>2. Extends(ledger, tree.commit_root)
        BY <4>1, CommittableBlocks, Zenon
      <4>. QED
        BY <1>2, <4>1, <4>2, WindowRootGrows, Zenon
    <3>5. ASSUME NEW y \in Block, Extends(tree.certified, y), Extends(y, WindowRoot(ledger))
          PROVE  y \in db.blocks \cup {Genesis}
      <4>1. Extends(y, tree.window_root)
        BY <1>2, <3>2, <3>4, <3>5, ExtendsTransitive, Zenon
      <4>2. y \in tree.blocks
        BY <1>2, <3>5, <4>1, OnPath, Zenon
      <4>. QED
        BY <4>1, <4>2, Zenon DEF StoreInv, Stored
    <3>6. ASSUME Extends(Genesis, WindowRoot(ledger))
          PROVE  Genesis \in StoredBlocks(db, ledger) /\ WindowRoot(ledger) = Genesis
      <4>1. WindowRoot(ledger) = Genesis
        BY <3>2, <3>6, ExtendsParent, BlockAssumption, Zenon
      <4>2. WindowRoot(ledger) \in StoredBlocks(db, ledger)
        BY <1>2, WindowRootOf, Zenon DEF find_root
      <4>. QED
        BY <4>1, <4>2, Zenon
    <3>7. Path(WindowRoot(ledger), tree.certified) \subseteq StoredBlocks(db, ledger)
          /\ tree.certified \in StoredBlocks(db, ledger)
      <4>1. ASSUME NEW y \in Block, Extends(tree.certified, y),
                   Extends(y, WindowRoot(ledger))
            PROVE  y \in StoredBlocks(db, ledger)
        <5>1. CASE y = Genesis
          BY <3>6, <4>1, <5>1, Zenon
        <5>2. CASE y # Genesis
          BY <3>5, <4>1, <5>2, Zenon DEF StoredBlocks
        <5>. QED
          BY <5>1, <5>2, Zenon
      <4>2. Extends(tree.certified, tree.certified)
        BY <1>2, ExtendsReflexive, Zenon
      <4>. QED
        BY <1>2, <3>2, <3>3, <4>1, <4>2, InPath
    <3>8. tree.certified \in Retained(db, ledger)
      BY <3>3, <3>7, Zenon DEF Retained
    <3>9. tree.certified \in StoredQCs(db, ledger)
      BY Zenon DEF StoreInv, Stored, StoredQCs
    <3>. QED
      BY <1>3, <3>8, <3>9, Zenon
  <2>. QED
    BY <2>1, <2>2, Zenon
<1>. QED
  BY <1>2, <1>5, <1>6, <1>7, <1>8, <1>11, <1>12, BlockAssumption DEF StoreInv

LEMMA RebuildTreeStep ==
  ASSUME StoreInv, RebuildTree
  PROVE  /\ StoreInv' /\ round[ledger] <= round[ledger']
         /\ round[tree.certified] <= round[tree'.certified]
<1>1. /\ running /\ syncing # None /\ syncing.synced
      /\ find_root(db, ledger) /\ Rebuild(db, ledger)
      /\ stale' = stale \cup Elements(callbacks)
      /\ UNCHANGED <<ledger, latest_logical_time, running, interrupted,
                     window_size>>
  BY Zenon DEF RebuildTree
<1>2. /\ ledger \in Block /\ tree.commit_root \in Block
      /\ round[tree.commit_root] <= round[ledger]
  BY StoreFacts, Zenon
<1>3. ASSUME ~interrupted
      PROVE  round[Floor] = round[ledger] /\ latest_logical_time <= round[ledger]
  <2>1. syncing.target = ledger /\ latest_logical_time <= round[ledger]
    BY <1>1, <1>3, Zenon DEF StoreInv, Recoverable
  <2>2. Floor = Later(syncing.target, ledger)
    BY <1>1, Zenon DEF Floor
  <2>. QED
    BY <2>1, <2>2, Zenon DEF Later
<1>4. ASSUME NEW s \in stale' PROVE s \in Final /\ round[s] <= round[ledger]
  <2>1. CASE s \in stale
    <3>1. s \in Final /\ round[s] <= round[tree.commit_root] /\ s \in Block
      BY <2>1, Zenon DEF StoreInv, Pipelined, TypeOK
    <3>. QED
      BY <1>2, <3>1, BlockAssumption
  <2>2. CASE s \in Elements(callbacks)
    BY <2>2, Zenon DEF StoreInv, Pipelined, Elements
  <2>. QED
    BY <1>1, <2>1, <2>2, Zenon
<1>5. /\ running' = TRUE /\ interrupted' \in BOOLEAN /\ latest_logical_time' \in Nat
      /\ ~interrupted' => ~interrupted /\ round[Floor] = round[ledger]
      /\ ~interrupted' => latest_logical_time' <= round[ledger]
  BY <1>1, <1>3, Zenon DEF StoreInv, TypeOK
<1>. QED
  BY <1>1, <1>4, <1>5, RebuildStep, Zenon

LEMMA CrashStep ==
  ASSUME StoreInv, Crash
  PROVE  /\ StoreInv' /\ round[ledger] <= round[ledger']
         /\ round[tree.certified] <= round[tree'.certified]
<1>1. /\ interrupted' = (interrupted \/ syncing \in [target : Block, synced : {FALSE}])
      /\ stale' = {} /\ latest_logical_time' = 0
      /\ ledger' = ledger /\ window_size' = window_size
  BY Zenon DEF Crash
<1>2. /\ window_size \in Nat /\ TreeOK(tree) /\ ledger \in Block
      /\ tree.certified \in Block
  BY StoreFacts, Zenon
<1>3. /\ interrupted' \in BOOLEAN
      /\ latest_logical_time' \in Nat /\ latest_logical_time' <= round[ledger]
  <2>1. round[ledger] \in Nat
    BY <1>2, BlockAssumption, Zenon
  <2>2. latest_logical_time' \in Nat /\ latest_logical_time' <= round[ledger]
    BY <1>1, <2>1
  <2>. QED
    BY <1>1, <2>2, Zenon
<1>4. ASSUME ~interrupted' PROVE ~interrupted /\ round[Floor] = round[ledger]
  <2>1. ~interrupted /\ syncing \notin [target : Block, synced : {FALSE}]
    BY <1>1, <1>4, Zenon
  <2>2. CASE syncing = None
    BY <2>1, <2>2, Zenon DEF Floor
  <2>3. CASE syncing # None
    <3>1. syncing \in [target : Block, synced : BOOLEAN]
      BY <2>3, Zenon DEF StoreInv, TypeOK, SyncState
    <3>2. syncing.synced
      BY <2>1, <3>1, Zenon
    <3>3. ledger = syncing.target
      BY <2>1, <2>3, <3>2, Zenon DEF StoreInv, Recoverable
    <3>4. Floor = Later(syncing.target, ledger)
      BY <2>3, Zenon DEF Floor
    <3>. QED
      BY <2>1, <3>3, <3>4, Zenon DEF Later
  <2>. QED
    BY <2>2, <2>3, Zenon
<1>5. CASE find_root(db, ledger)
  <2>1. Rebuild(db, ledger) /\ running' = TRUE
    BY <1>5, Zenon DEF Crash
  <2>2. \A s \in stale' : s \in Final /\ round[s] <= round[ledger]
    BY <1>1, Zenon
  <2>. QED
    BY <1>1, <1>3, <1>4, <1>5, <2>1, <2>2, RebuildStep, Zenon
<1>6. CASE ~find_root(db, ledger)
  <2>1. /\ running' = FALSE /\ pipeline' = {} /\ aborted' = {} /\ inserting' = None
        /\ syncing' = None /\ callbacks' = <<>> /\ tree' = tree /\ db' = db
    BY <1>6, Zenon DEF Crash
  <2>2. TypeOK'
    <3>1. callbacks' \in Seq(Block) /\ pipeline' \subseteq Block /\ aborted' \subseteq Block
          /\ stale' \subseteq Block
      BY <1>1, <2>1
    <3>2. running' \in BOOLEAN
      BY <2>1, Zenon
    <3>. QED
      BY <1>1, <1>3, <2>1, <3>1, <3>2, Zenon DEF StoreInv, TypeOK
  <2>3. TreeOK(tree)'
    BY <1>1, <1>2, <2>1, SameWindow, Zenon
  <2>4. Stored'
    BY <1>1, <2>1, BlockAssumption, Zenon DEF StoreInv, Stored
  <2>5. Pipelined'
    <3>1. ~running' /\ DOMAIN callbacks' = {}
      BY <2>1
    <3>2. ledger \in Committable /\ round[tree.commit_root] <= round[ledger]
      BY Zenon DEF StoreInv, Pipelined
    <3>. QED
      BY <1>1, <2>1, <3>1, <3>2, Zenon DEF Pipelined
  <2>6. Recoverable'
    <3>1. Floor' = ledger /\ Pending' = {}
      BY <1>1, <2>1, Zenon DEF Floor, Pending
    <3>2. /\ find_root(db, ledger)' <=> find_root(db, ledger)
          /\ Window(ledger)' = Window(ledger)
      BY <1>1, <2>1, SameWindow, Zenon
    <3>. QED
      BY <1>1, <1>3, <1>4, <2>1, <3>1, <3>2, Zenon DEF StoreInv, Recoverable
  <2>. QED
    BY <1>1, <1>2, <2>1, <2>2, <2>3, <2>4, <2>5, <2>6, BlockAssumption DEF StoreInv
<1>. QED
  BY <1>5, <1>6, Zenon

LEMMA RecoverySyncStep ==
  ASSUME StoreInv, NEW t \in CommitCerts, NEW q \in Certified, RecoverySync(t, q)
  PROVE  /\ StoreInv' /\ round[ledger] <= round[ledger']
         /\ round[tree.certified] <= round[tree'.certified]
<1>1. /\ ~running /\ round[q] >= round[t] /\ SaveRetrieved(t, q)
      /\ SyncToTargetOk(t) \/ SyncToTargetErr(t)
      /\ interrupted' = (interrupted \/ round[ledger'] < round[t])
      /\ UNCHANGED <<tree, aborted, inserting, syncing, pipeline, callbacks, stale,
                     running, window_size>>
  BY Zenon DEF RecoverySync
<1>2. /\ window_size \in Nat /\ TreeOK(tree) /\ ledger \in Block /\ ledger \in Committable
      /\ tree.certified \in Block /\ tree.commit_root \in Block
      /\ round[tree.commit_root] <= round[ledger]
      /\ t \in Final /\ t \in Block /\ t \in Committable
  BY StoreFacts, CommitAssumption, CommittableBlocks, Zenon DEF Committable
<1>3. inserting = None /\ syncing = None /\ Floor = ledger
  BY <1>1, Zenon DEF StoreInv, Recoverable, Floor
<1>4. /\ db' \in [blocks : SUBSET Block, qcs : SUBSET Certified]
      /\ db.blocks \subseteq db'.blocks /\ db.qcs \subseteq db'.qcs
      /\ Genesis \in db'.blocks => window_size = 0
      /\ find_root(db', t) /\ (find_root(db, ledger) => find_root(db', ledger))
      /\ ~interrupted =>
           \A z \in db'.blocks, p \in Final :
             /\ round[p] > round[t] /\ round[p] > round[ledger]
             /\ Extends(z, p) /\ z # p
             => p \in db'.qcs
  BY <1>1, <1>2, <1>3, SavedBlocks, Zenon
<1>5. /\ ledger' \in {ledger, t} /\ round[ledger] <= round[ledger']
      /\ ledger' \in Block /\ ledger' \in Committable
      /\ latest_logical_time' \in {latest_logical_time, round[t]}
  BY <1>1, <1>2, SyncOutcome, Zenon
<1>6. /\ interrupted' \in BOOLEAN /\ latest_logical_time' \in Nat
      /\ ~interrupted' => ~interrupted /\ ~(round[ledger'] < round[t])
      /\ ~interrupted' => latest_logical_time' <= round[ledger']
  <2>1. /\ interrupted' \in BOOLEAN
        /\ ~interrupted' => ~interrupted /\ ~(round[ledger'] < round[t])
    BY <1>1, Zenon
  <2>2. latest_logical_time \in Nat /\ (~interrupted => latest_logical_time <= round[ledger])
    BY Zenon DEF StoreInv, TypeOK, Recoverable
  <2>3. round[t] \in Nat /\ round[ledger] \in Nat /\ round[ledger'] \in Nat
    BY <1>2, <1>5, BlockAssumption, Zenon
  <2>4. latest_logical_time' \in Nat
    BY <1>5, <2>2, <2>3, Zenon
  <2>5. ~interrupted' => latest_logical_time' <= round[ledger']
    BY <1>5, <2>1, <2>2, <2>3
  <2>. QED
    BY <2>1, <2>4, <2>5, Zenon
<1>7. TypeOK'
  <2>1. db' \in [blocks : SUBSET Block, qcs : SUBSET Block]
    BY <1>4, CertificateAssumption, Zenon
  <2>. QED
    BY <1>1, <1>5, <1>6, <2>1, Zenon DEF StoreInv, TypeOK
<1>8. TreeOK(tree)'
  BY <1>1, <1>2, SameWindow, Zenon
<1>9. Stored'
  BY <1>1, <1>4, Zenon DEF StoreInv, Stored
<1>10. Pipelined'
  <2>1. round[tree.commit_root] <= round[ledger']
    BY <1>2, <1>5, BlockAssumption
  <2>2. ASSUME NEW i \in DOMAIN callbacks PROVE round[callbacks[i]] <= round[ledger']
    <3>1. callbacks[i] \in Block /\ round[callbacks[i]] <= round[ledger]
      BY DEF StoreInv, TypeOK, Pipelined
    <3>. QED
      BY <1>2, <1>5, <3>1, BlockAssumption, SMTT(20)
  <2>3. pipeline = {}
    BY <1>1, Zenon DEF StoreInv, Pipelined
  <2>. QED
    BY <1>1, <1>5, <2>1, <2>2, <2>3, Zenon DEF StoreInv, Pipelined
<1>11. Recoverable'
  <2>1. Floor' = ledger' /\ Pending' = {}
    BY <1>1, <1>3, Zenon DEF Floor, Pending
  <2>2. ASSUME ~interrupted', NEW z \in db'.blocks, NEW p \in Final,
               round[p] > round[ledger'], Extends(z, p), z # p
        PROVE  p \in db'.qcs
    <3>1. p \in Block
      BY CommittableBlocks, Zenon DEF Committable
    <3>2. round[p] > round[t] /\ round[p] > round[ledger]
      BY <1>2, <1>5, <1>6, <2>2, <3>1, BlockAssumption
    <3>. QED
      BY <1>4, <1>6, <2>2, <3>2, Zenon
  <2>3. /\ find_root(db, ledger)' <=> find_root(db', ledger')
        /\ Window(ledger)' = Window(ledger')
    BY <1>1, SameWindow, Zenon
  <2>4. ASSUME ~interrupted', ledger' = Genesis \/ Genesis \notin Window(ledger')
        PROVE  find_root(db', ledger')
    <3>1. CASE ledger' = t
      BY <1>4, <3>1, Zenon
    <3>2. CASE ledger' = ledger
      <4>1. find_root(db, ledger)
        BY <1>6, <2>4, <3>2, Zenon DEF StoreInv, Recoverable
      <4>. QED
        BY <1>4, <3>2, <4>1, Zenon
    <3>. QED
      BY <1>5, <3>1, <3>2, Zenon
  <2>5. pipeline' = {}
    BY <1>1, Zenon DEF StoreInv, Pipelined
  <2>. QED
    BY <1>1, <1>3, <1>6, <2>1, <2>2, <2>3, <2>4, <2>5, Zenon DEF Recoverable
<1>. QED
  BY <1>1, <1>2, <1>5, <1>7, <1>8, <1>9, <1>10, <1>11, BlockAssumption DEF StoreInv

LEMMA StoreInit == Init => StoreInv
<1>. SUFFICES ASSUME Init PROVE StoreInv
  OBVIOUS
<1>. DEFINE d == [blocks |-> {}, qcs |-> {}]
<1>1. /\ tree = Recovered(d, Genesis).tree /\ db = Recovered(d, Genesis).db
      /\ pipeline = Recovered(d, Genesis).pipeline
      /\ window_size \in WindowSizes /\ interrupted = FALSE
      /\ ledger = Genesis /\ latest_logical_time = 0 /\ running = TRUE
      /\ aborted = {} /\ inserting = None /\ syncing = None
      /\ callbacks = <<>> /\ stale = {}
  BY Zenon DEF Init
<1>2. window_size \in Nat /\ Genesis \in Committable /\ Genesis \in Block
  BY <1>1, SizeAssumption, BlockAssumption, Zenon DEF Committable
<1>3. /\ d \in [blocks : SUBSET Block, qcs : SUBSET Certified]
      /\ d.blocks = {} /\ d.qcs = {}
  OBVIOUS
<1>. HIDE DEF d
<1>4. Window(Genesis) = {}
  <2>. SUFFICES ASSUME NEW a \in Window(Genesis) PROVE FALSE
    OBVIOUS
  <2>1. a \in Block /\ a # Genesis /\ Extends(Genesis, a)
    BY <1>2, WindowBlocks, Zenon
  <2>. QED
    BY <1>2, <2>1, ExtendsParent, Zenon
<1>5. find_root(d, Genesis)
  BY <1>4, Zenon DEF find_root, StoredBlocks, StoredQCs
<1>6. /\ TreeOK(tree) /\ tree.commit_root = Genesis
      /\ db \in [blocks : SUBSET Block, qcs : SUBSET Certified]
      /\ db.blocks = Retained(d, Genesis) \ {Genesis}
      /\ tree.blocks = Retained(d, Genesis)
      /\ tree.certified \in db.qcs
      /\ find_root(db, Genesis)
      /\ \A b \in pipeline : \E c \in tree.blocks : commit_info(c) = b /\ c \in Certified
      /\ pipeline \subseteq Final
  <2>1. Genesis \in d.blocks => window_size = 0
    BY <1>3, Zenon
  <2>. QED
    BY <1>1, <1>2, <1>3, <1>5, <2>1, RecoveredStore
<1>7. tree.blocks \subseteq {Genesis} /\ db.blocks = {}
  BY <1>3, <1>6, Zenon DEF Retained, StoredBlocks
<1>8. pipeline = {}
  <2>. SUFFICES ASSUME NEW b \in pipeline PROVE FALSE
    OBVIOUS
  <2>1. PICK c \in tree.blocks : commit_info(c) = b /\ c \in Certified
    BY <1>6, Zenon
  <2>2. b # None
    BY <1>6, CommittableBlocks, BlockAssumption, Zenon DEF Committable
  <2>. QED
    BY <1>7, <2>1, <2>2, CommitInfo, Zenon
<1>9. TypeOK
  <2>1. tree \in BlockTree /\ db \in [blocks : SUBSET Block, qcs : SUBSET Block]
    BY <1>6, CertificateAssumption, Zenon DEF TreeOK
  <2>2. callbacks \in Seq(Block) /\ latest_logical_time \in Nat
    BY <1>1
  <2>. QED
    BY <1>1, <1>2, <1>8, <2>1, <2>2, Zenon DEF TypeOK
<1>10. Stored
  BY <1>1, <1>6, <1>7, BlockAssumption, Zenon DEF Stored
<1>11. Pipelined
  <2>1. DOMAIN callbacks = {} /\ ~Synced
    BY <1>1, SMTT(20) DEF Synced
  <2>2. round[Genesis] <= round[tree.ordered_root] /\ round[Genesis] <= round[Genesis]
    BY <1>2, <1>6, BlockAssumption DEF TreeOK
  <2>. QED
    BY <1>1, <1>2, <1>6, <1>8, <2>1, <2>2, Zenon DEF Pipelined
<1>12. Recoverable
  <2>1. Pending = {}
    BY <1>1, Zenon DEF Pending
  <2>2. latest_logical_time <= round[Genesis]
    BY <1>1, <1>2, BlockAssumption
  <2>. QED
    BY <1>1, <1>6, <1>7, <1>8, <2>1, <2>2, Zenon DEF Recoverable
<1>. QED
  BY <1>6, <1>9, <1>10, <1>11, <1>12, Zenon DEF StoreInv

(* Every step keeps the invariant, the ledger's round and the round of the *)
(* highest certificate.                                                    *)
LEMMA StoreNext ==
  ASSUME StoreInv, [Next]_vars
  PROVE  /\ StoreInv' /\ round[ledger] <= round[ledger']
         /\ round[tree.certified] <= round[tree'.certified]
<1>1. CASE UNCHANGED vars
  <2>1. /\ UNCHANGED <<tree, aborted, inserting, syncing, pipeline, callbacks>>
        /\ UNCHANGED <<stale, db, ledger, latest_logical_time, running,
                       window_size, interrupted>>
    BY <1>1, Zenon DEF vars
  <2>2. TypeOK' /\ Stored'
    BY <2>1, Zenon DEF StoreInv, TypeOK, Stored
  <2>3. TreeOK(tree)'
    BY <2>1, SameWindow, Zenon DEF StoreInv
  <2>4. Pipelined'
    BY <2>1, Zenon DEF StoreInv, Pipelined, Synced
  <2>5. Recoverable'
    <3>1. Floor' = Floor /\ Pending' = Pending
      BY <2>1, Zenon DEF Floor, Pending
    <3>2. /\ find_root(db, ledger)' <=> find_root(db, ledger)
          /\ find_root(db, syncing.target)' <=> find_root(db, syncing.target)
          /\ Window(ledger)' = Window(ledger)
      BY <2>1, SameWindow, Zenon
    <3>. QED
      BY <2>1, <3>1, <3>2, Zenon DEF StoreInv, Recoverable
  <2>. QED
    BY <2>1, <2>2, <2>3, <2>4, <2>5, StoreFacts, BlockAssumption DEF StoreInv
<1>2. CASE \E b \in Block : ProcessProposal(b)
  BY <1>2, ProcessProposalStep, Zenon
<1>3. CASE \E b \in Certified : FetchBlock(b)
  BY <1>3, FetchBlockStep, Zenon
<1>4. CASE FinishInsert
  BY <1>4, FinishInsertStep, Zenon
<1>5. CASE \E c \in Certified : InsertQuorumCert(c)
  BY <1>5, InsertQuorumCertStep, Zenon
<1>6. CASE \E o \in OrderCerts : InsertOrderedCert(o)
  BY <1>6, InsertOrderedCertStep, Zenon
<1>7. CASE \E b \in Block : CommitLedger(b)
  BY <1>7, CommitLedgerStep, Zenon
<1>8. CASE PostCommitLedger
  BY <1>8, PostCommitLedgerStep, Zenon
<1>9. CASE \E b \in Block : StalePostCommitLedger(b)
  BY <1>9, StalePostCommitLedgerStep, Zenon
<1>10. CASE \E t \in CommitCerts, q \in Certified : FastForwardSync(t, q)
  BY <1>10, FastForwardSyncStep, Zenon
<1>11. CASE SyncToTarget
  BY <1>11, SyncToTargetStep, Zenon
<1>12. CASE RebuildTree
  BY <1>12, RebuildTreeStep, Zenon
<1>13. CASE Crash
  BY <1>13, CrashStep, Zenon
<1>14. CASE \E t \in CommitCerts, q \in Certified : RecoverySync(t, q)
  BY <1>14, RecoverySyncStep, Zenon
<1>. QED
  BY <1>1, <1>2, <1>3, <1>4, <1>5, <1>6, <1>7, <1>8, <1>9, <1>10, <1>11, <1>12,
     <1>13, <1>14, Zenon DEF Next

----------------------------------------------------------------------------
(* The results.                                                            *)

(* The inductive invariant holds, TypeOK included: roots and certificates  *)
(* of the tree, what ConsensusDB holds of it, and the pipeline between.    *)
THEOREM StoreInvariant == Spec => []StoreInv
BY StoreInit, StoreNext, PTL DEF Spec

(* window_root, commit_root, ordered_root and the blocks of the highest    *)
(* certificates lie on one path in memory, whatever is pruned when.        *)
THEOREM RootsStayOnOnePath == Spec => []RootsOnOnePath
<1>1. StoreInv => RootsOnOnePath
  <2>. SUFFICES ASSUME StoreInv PROVE RootsOnOnePath
    OBVIOUS
  <2>1. /\ window_size \in Nat /\ TreeOK(tree) /\ ledger \in Certified
        /\ round[tree.commit_root] <= round[ledger]
    BY StoreFacts, Zenon
  <2>2. /\ tree.commit_root \in Committable /\ tree.ordered_root \in Committable
        /\ tree.hoc \in Committable /\ tree.certified \in Certified
        /\ round[tree.commit_root] <= round[tree.ordered_root]
        /\ round[tree.ordered_root] <= round[tree.hoc]
        /\ round[tree.hoc] <= round[tree.certified]
        /\ tree.window_root \in tree.blocks /\ tree.certified \in tree.blocks
    BY <2>1, Zenon DEF TreeOK
  <2>3. /\ tree.commit_root \in Block /\ tree.ordered_root \in Block
        /\ tree.hoc \in Block /\ tree.certified \in Block
        /\ Extends(tree.commit_root, tree.window_root)
    BY <2>1, TreeRoots, Zenon
  <2>4. /\ Extends(tree.ordered_root, tree.commit_root)
        /\ Extends(tree.hoc, tree.ordered_root)
        /\ Extends(tree.certified, tree.hoc)
        /\ Extends(ledger, tree.commit_root)
    BY <2>1, <2>2, CommittableBlocks, Zenon
  <2>5. /\ round[tree.commit_root] <= round[tree.commit_root]
        /\ round[tree.commit_root] <= round[tree.hoc]
        /\ round[tree.commit_root] <= round[tree.certified]
        /\ round[tree.ordered_root] <= round[tree.certified]
    BY <2>2, <2>3, BlockAssumption
  <2>6. /\ tree.commit_root \in tree.blocks /\ tree.ordered_root \in tree.blocks
        /\ tree.hoc \in tree.blocks
    BY <2>1, <2>2, <2>5, TreeHolds, Zenon
  <2>. QED
    BY <2>2, <2>3, <2>4, <2>6, Zenon DEF RootsOnOnePath
<1>. QED
  BY <1>1, StoreInvariant, PTL

(* The assertion of send_for_execution that the blocks to commit are not   *)
(* empty never fails.                                                      *)
THEOREM OrderedPathFound == Spec => []OrderedPathAssertion
<1>1. StoreInv => OrderedPathAssertion
  <2>. SUFFICES ASSUME StoreInv, NEW f \in Final, f \in tree.blocks,
                       round[f] > round[tree.ordered_root]
                PROVE  OnOrderedPath(tree, f)
    BY Zenon DEF OrderedPathAssertion
  <2>1. /\ window_size \in Nat /\ TreeOK(tree)
        /\ tree.ordered_root \in Committable /\ tree.ordered_root \in Block
        /\ tree.window_root \in Block /\ tree.commit_root \in Block
        /\ round[tree.commit_root] <= round[tree.ordered_root]
    BY StoreFacts, Zenon DEF TreeOK
  <2>2. f \in Block /\ f \in Certified /\ tree.ordered_root \in Certified
    BY <2>1, CommittableBlocks, Zenon DEF Committable
  <2>3. Extends(f, tree.ordered_root)
    BY <2>1, <2>2, CommittableBlocks, BlockAssumption
  <2>4. Extends(tree.ordered_root, tree.window_root)
    BY <2>1, <2>2, TreeRoots, Zenon
  <2>5. ASSUME NEW y \in Path(tree.ordered_root, f) PROVE y \in tree.blocks
    <3>1. y \in Block /\ Extends(f, y) /\ Extends(y, tree.ordered_root)
      BY <2>1, <2>2, InPath, Zenon
    <3>2. Extends(y, tree.window_root)
      BY <2>1, <2>4, <3>1, ExtendsTransitive, Zenon
    <3>. QED
      BY <2>1, <3>1, <3>2, OnPath, Zenon
  <2>. QED
    BY <2>3, <2>5, Zenon DEF OnOrderedPath
<1>. QED
  BY <1>1, StoreInvariant, PTL

(* find_blocks_to_prune finds every child it follows a link to.            *)
THEOREM ChildrenFound == Spec => []ChildrenExist
<1>1. StoreInv => ChildrenExist
  BY Zenon DEF StoreInv, TreeOK, ChildrenExist
<1>. QED
  BY <1>1, StoreInvariant, PTL

(* A commit callback finds its block and the block's window in the tree,   *)
(* however far ordering and earlier callbacks have gone on meanwhile.      *)
THEOREM CallbacksSucceed == Spec => []CallbacksFindWindow
<1>1. StoreInv => CallbacksFindWindow
  <2>. SUFFICES ASSUME StoreInv, NEW i \in DOMAIN callbacks
                PROVE  CallbackFinds(callbacks[i])
    BY Zenon DEF CallbacksFindWindow, Elements
  <2>. DEFINE b == callbacks[i]
  <2>1. /\ window_size \in Nat /\ TreeOK(tree) /\ tree.ordered_root \in Block
        /\ tree.certified \in Block /\ tree.commit_root \in Block
        /\ round[tree.ordered_root] <= round[tree.certified]
    BY StoreFacts, TreeRoots, Zenon
  <2>2. /\ b \in Final /\ round[tree.commit_root] <= round[b]
        /\ round[b] <= round[tree.ordered_root]
    BY Zenon DEF StoreInv, Pipelined
  <2>. HIDE DEF b
  <2>3. b \in Committable /\ b \in Block
    BY <2>2, CommittableBlocks, Zenon DEF Committable
  <2>4. round[b] <= round[tree.certified]
    BY <2>1, <2>2, <2>3, BlockAssumption
  <2>5. b \in tree.blocks /\ Window(b) \subseteq tree.blocks
    BY <2>1, <2>2, <2>3, <2>4, TreeHolds, Zenon
  <2>6. round[b] >= round[tree.commit_root]
    BY <2>1, <2>2, <2>3, BlockAssumption, Zenon
  <2>7. CallbackFinds(b)
    BY <2>5, <2>6, Zenon DEF CallbackFinds, HasWindow
  <2>. QED
    BY <2>7, Zenon DEF b
<1>. QED
  BY <1>1, StoreInvariant, PTL

(* Recovery from ConsensusDB and the ledger succeeds after any crash,      *)
(* unless a sync was interrupted after it had saved its blocks.            *)
THEOREM StorageRecovers == Spec => []RecoversFromStorage
<1>1. StoreInv => RecoversFromStorage
  <2>. SUFFICES ASSUME StoreInv, ~interrupted, ledger = Genesis \/ Genesis \notin Window(ledger)
                PROVE  find_root(db, ledger) /\ build_succeeds(db, ledger)
    BY Zenon DEF RecoversFromStorage
  <2>1. find_root(db, ledger)
    BY Zenon DEF StoreInv, Recoverable
  <2>. QED
    BY <2>1, StoreFacts, BuildSucceeds, Zenon
<1>. QED
  BY <1>1, StoreInvariant, PTL

(* A fast-forward sync whose target the ledger has reached rebuilds the    *)
(* tree, and as long as none has failed it does reach its target: the      *)
(* early return of sync_to_target is taken only after a failed sync.       *)
THEOREM SyncSucceeds == Spec => []SyncRecovers
<1>1. StoreInv => SyncRecovers
  <2>. SUFFICES ASSUME StoreInv, syncing # None, syncing.synced,
                       ledger = syncing.target \/ ~interrupted
                PROVE  find_root(db, ledger) /\ build_succeeds(db, ledger)
    BY Zenon DEF SyncRecovers
  <2>0. ledger = syncing.target
    BY Zenon DEF StoreInv, Recoverable
  <2>1. round[ledger] <= round[syncing.target]
    BY <2>0, StoreFacts, BlockAssumption
  <2>2. find_root(db, ledger)
    BY <2>0, <2>1, Zenon DEF StoreInv, Recoverable
  <2>. QED
    BY <2>2, StoreFacts, BuildSucceeds, Zenon
<1>. QED
  BY <1>1, StoreInvariant, PTL

(* The ledger never gives up a block it has committed.                     *)
THEOREM LedgerGrows == Spec => LedgerOnlyGrows
<1>1. ASSUME StoreInv, [Next]_vars PROVE [Extends(ledger', ledger)]_vars
  <2>1. StoreInv' /\ round[ledger] <= round[ledger'] /\ ledger \in Committable
    BY <1>1, StoreNext, StoreFacts, Zenon
  <2>2. ledger' \in Certified
    BY <2>1, CommittableBlocks, Zenon DEF StoreInv, Pipelined
  <2>3. Extends(ledger', ledger)
    BY <2>1, <2>2, CommittableBlocks, Zenon
  <2>. QED
    BY <2>3, Zenon
<1>. QED
  BY <1>1, StoreInvariant, PTL DEF Spec, LedgerOnlyGrows

(* highest_quorum_cert never goes back, across pruning, replacement of the *)
(* tree and crashes.                                                       *)
THEOREM HighestQCKept == Spec => HighestQCNeverLost
<1>1. ASSUME StoreInv, [Next]_vars
      PROVE  [round[tree'.certified] >= round[tree.certified]]_vars
  <2>1. StoreInv' /\ round[tree.certified] <= round[tree'.certified]
        /\ tree.certified \in Block
    BY <1>1, StoreNext, StoreFacts, Zenon
  <2>2. tree'.certified \in Block
    BY <2>1, Zenon DEF StoreInv, TypeOK, BlockTree
  <2>3. round[tree'.certified] >= round[tree.certified]
    BY <2>1, <2>2, BlockAssumption, Zenon
  <2>. QED
    BY <2>3, Zenon
<1>. QED
  BY <1>1, StoreInvariant, PTL DEF Spec, HighestQCNeverLost
=============================================================================
