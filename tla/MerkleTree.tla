---------------------------- MODULE MerkleTree ----------------------------
(***************************************************************************)
(* The incremental Merkle tree the chat server keeps in its MongoDB        *)
(* collection MerkleTreeNode, as pure operators on a value: a tree is a    *)
(* function from the positions <<level, index>> that have a document to    *)
(* that document.  Level 0 holds the leaves, level Levels the root.        *)
(*                                                                         *)
(* Poseidon is collision free for the purposes of this code, so Hash is    *)
(* the free constructor: equal hashes are hashes of equal children.        *)
(***************************************************************************)
EXTENDS Naturals, Sequences, FiniteSets

CONSTANTS
  Levels,   \* config.merkleTreeLevels: the tree has 2^Levels leaves
  Zero      \* config.zeroValue: the value of an empty or removed leaf

ASSUME LevelsAssumption == Levels \in Nat \ {0}

Hash(l, r) == <<l, r>>

\* The zero hashes seeded at start-up: ZeroHash[l] is the hash of an empty
\* subtree of height l.
ZeroHash[l \in 0..Levels] ==
  IF l = 0 THEN Zero ELSE Hash(ZeroHash[l - 1], ZeroHash[l - 1])

\* 2 ** level, as a function: the provers know nothing of ^.
Pow2[n \in 0..Levels] == IF n = 0 THEN 1 ELSE 2 * Pow2[n - 1]
Capacity == Pow2[Levels]

EmptyTree == [p \in {} |-> Zero]

\* A document that was just created: no sibling, no parent.  `member` is the
\* pair <<groupId, indexInGroup>> of a leaf's key.
NoMember == <<>>
NewNode(h, member) ==
  [hash |-> h, sibling |-> Zero, parent |-> FALSE, member |-> member]

Put(t, p, node) == [q \in DOMAIN t \cup {p} |-> IF q = p THEN node ELSE t[q]]

ParentOf(p) == <<p[1] + 1, p[2] \div 2>>

-----------------------------------------------------------------------------
(* Queries.                                                                *)

LeafPositions(t) == {p \in DOMAIN t : p[1] = 0}
NumLeaves(t)     == Cardinality(LeafPositions(t))
LeafHashes(t)    == {t[p].hash : p \in LeafPositions(t)}

\* findOne scans the collection in insertion order, and leaves are inserted
\* in the order of their indexes: the first match has the least index.
FirstOf(hits) == CHOOSE p \in hits : \A q \in hits : p[2] <= q[2]

LeavesWithHash(t, h)   == {p \in LeafPositions(t) : t[p].hash = h}
LeavesOfMember(t, m)   == {p \in LeafPositions(t) : t[p].member = m}
FindLeafByHash(t, h)   == FirstOf(LeavesWithHash(t, h))
FindLeafByMember(t, m) == FirstOf(LeavesOfMember(t, m))

\* findRoot asks for any document without a parent.
Roots(t) == {p \in DOMAIN t : ~ t[p].parent}

-----------------------------------------------------------------------------
(* Appending one leaf: create it, then link it level by level to the root. *)

\* mutants of LinkLevel: the left sibling does not learn of its new neighbour;
\* a node on the left gets no parent
LinkOneWay(t, l, i) ==
  LET cur == <<l, i>>  up == ParentOf(cur)  left == <<l, i - 1>>
      h   == IF i % 2 = 0 THEN Hash(t[cur].hash, ZeroHash[l])
                          ELSE Hash(t[left].hash, t[cur].hash)
      sib == IF i % 2 = 0 THEN ZeroHash[l] ELSE t[left].hash
      t1  == [t EXCEPT ![cur].sibling = sib, ![cur].parent = TRUE]
  IN  IF up \in DOMAIN t THEN [t1 EXCEPT ![up].hash = h]
                         ELSE Put(t1, up, NewNode(h, NoMember))

LinkOrphan(t, l, i) ==
  IF i % 2 = 0 THEN [LinkOneWay(t, l, i) EXCEPT ![<<l, i>>].parent = FALSE]
               ELSE LinkOneWay(t, l, i)

LinkLevel(t, l, i) ==
  LET cur  == <<l, i>>
      up   == ParentOf(cur)
      left == <<l, i - 1>>
      even == i % 2 = 0
      h    == IF even THEN Hash(t[cur].hash, ZeroHash[l])
                      ELSE Hash(t[left].hash, t[cur].hash)
      sib  == IF even THEN ZeroHash[l] ELSE t[left].hash
      t1   == [t EXCEPT ![cur].sibling = sib, ![cur].parent = TRUE]
      t2   == IF even THEN t1 ELSE [t1 EXCEPT ![left].sibling = t[cur].hash]
  IN  IF up \in DOMAIN t THEN [t2 EXCEPT ![up].hash = h]
                         ELSE Put(t2, up, NewNode(h, NoMember))

AppendLeaf(t, value, member) ==
  LET n == NumLeaves(t)
      linked[l \in 0..Levels] ==
        IF l = 0 THEN Put(t, <<0, n>>, NewNode(value, member))
                 ELSE LinkLevel(linked[l - 1], l - 1, n \div Pow2[l - 1])
  IN  linked[Levels]

-----------------------------------------------------------------------------
(* Changing one leaf: the new hash climbs to the root.  Each step rehashes *)
(* the parent from the node's own hash and from the sibling hash stored IN *)
(* THE NODE; nothing tells the sibling that its neighbour has changed.     *)

SetHash(t, p, h) == [t EXCEPT ![p].hash = h]

ParentHashUnordered(node, i) == Hash(node.hash, node.sibling)   \* mutant: no parity
ParentHash(node, i) ==
  IF i % 2 = 0 THEN Hash(node.hash, node.sibling) ELSE Hash(node.sibling, node.hash)

ClimbStep(t, p) == SetHash(t, ParentOf(p), ParentHash(t[p], p[2]))

UpdateLeaf(t, p, value) ==
  LET climbed[l \in 0..Levels] ==
        IF l = 0 THEN SetHash(t, p, value)
        ELSE LET q == <<l - 1, p[2] \div Pow2[l - 1]>>
             IN  IF climbed[l - 1][q].parent THEN ClimbStep(climbed[l - 1], q)
                                             ELSE climbed[l - 1]
  IN  climbed[Levels]

-----------------------------------------------------------------------------
(* The reference: the tree the clients build from the list of leaves, each *)
(* missing leaf replaced by Zero.                                          *)

ReferenceHash(t) ==
  LET Positions == UNION {{l} \X (0..(Pow2[Levels - l] - 1)) : l \in 0..Levels}
      ref[p \in Positions] ==
        IF p[1] > 0 THEN Hash(ref[<<p[1] - 1, 2 * p[2]>>], ref[<<p[1] - 1, 2 * p[2] + 1>>])
        ELSE IF p \in DOMAIN t THEN t[p].hash ELSE Zero
  IN  ref

ReferenceRoot(t) == ReferenceHash(t)[<<Levels, 0>>]
=============================================================================
