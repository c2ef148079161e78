---------------------------- MODULE UserService ----------------------------
(***************************************************************************)
(* services/user.service.ts: the operations of the server on the tree of   *)
(* identity commitments and on the collection of banned users, each run    *)
(* from its start to its end.  The callers are the InterRep synchronizer   *)
(* (AppendUsers, RemoveUsersByIndexes) and the message handler (a ban).    *)
(* Interleavings of these operations with each other are the subject of    *)
(* the modules that split them at their awaits.                            *)
(***************************************************************************)
EXTENDS MerkleTree

CONSTANTS
  Groups,       \* groups of the InterRep network
  Registered,   \* Registered[g]: identity commitments of g in index order
  MaxGone,      \* bound: how many members of one call are removed ones
  MaxUpdates    \* bound: how many leaves are set to zero in one behaviour

ASSUME GroupsAssumption ==
  /\ MaxUpdates \in Nat /\ MaxGone \in Nat
  /\ \A g \in Groups :
       Registered[g] \in Seq({Registered[g][i] : i \in DOMAIN Registered[g]} \ {Zero})

VARIABLES
  tree,     \* collection MerkleTreeNode
  banned,   \* collection BannedUser, as [idCommitment, leafIndex]
  updates   \* how many times updateUser has changed a leaf

vars == <<tree, banned, updates>>

Members == UNION {{<<g, i>> : i \in DOMAIN Registered[g]} : g \in Groups}
IdOf(m) == Registered[m[1]][m[2]]
Ids     == {IdOf(m) : m \in Members}

Init == tree = EmptyTree /\ banned = {} /\ updates = 0

-----------------------------------------------------------------------------
\* appendUsers(users, groupId): one member after the other, until one of them
\* has a leaf already (break) or the tree is full (throw).
StopAtFullLate(t, m) == LeavesOfMember(t, m) # {} \/ NumLeaves(t) > Capacity     \* mutant
StopAtIdentity(t, m) == LeavesWithHash(t, IdOf(m)) # {} \/ NumLeaves(t) >= Capacity  \* mutant
MustStop(t, m) == LeavesOfMember(t, m) # {} \/ NumLeaves(t) >= Capacity

\* InterRep reports a member it has removed with the identity Zero.
Appended(t, g, from, to, gone) ==
  LET value(i) == IF i \in gone THEN Zero ELSE Registered[g][i]
      after[i \in (from - 1)..to] ==
        IF i < from THEN [tree |-> t, stopped |-> FALSE]
        ELSE LET s == after[i - 1]
                 stop == s.stopped \/ MustStop(s.tree, <<g, i>>)
             IN  [tree    |-> IF stop THEN s.tree ELSE AppendLeaf(s.tree, value(i), <<g, i>>),
                  stopped |-> stop]
  IN  after[to].tree

AppendUsers(g, from, to, gone) ==
  /\ tree' = Appended(tree, g, from, to, gone)
  /\ UNCHANGED <<banned, updates>>

\* removeUsersByIndexes(indexes, groupId), the indexes in ascending order: a
\* member without a leaf ends the loop (throw); the leaf that is set to zero
\* is found by the HASH of the member's leaf, not by its position.
Removed(t, g, indexes) ==
  LET Zeroed(u, m) == UpdateLeaf(u, FindLeafByHash(u, u[FindLeafByMember(u, m)].hash), Zero)
      after[i \in 0..Len(Registered[g])] ==
        IF i = 0 THEN [tree |-> t, thrown |-> FALSE]
        ELSE LET s == after[i - 1]
                 known == LeavesOfMember(s.tree, <<g, i>>) # {}
             IN  IF i \notin indexes \/ s.thrown THEN s
                 ELSE [tree   |-> IF known THEN Zeroed(s.tree, <<g, i>>) ELSE s.tree,
                       thrown |-> ~ known]
  IN  after[Len(Registered[g])].tree

RemoveUsersByIndexes(g, indexes) ==
  /\ updates + Cardinality(indexes) <= MaxUpdates
  /\ tree' = Removed(tree, g, indexes)
  /\ updates' = updates + Cardinality(indexes)
  /\ UNCHANGED banned

\* banUser(idCommitment), then updateUser(idCommitment).  The unique indexes
\* of BannedUser refuse a second row of an identity or of a leaf.
Clash(row) == \E b \in banned : b.idCommitment = row.idCommitment \/ b.leafIndex = row.leafIndex

BanIndexInGroup(id) ==         \* mutant: key.indexInGroup instead of key.index
  LET p == FindLeafByHash(tree, id)
      row == [idCommitment |-> id, leafIndex |-> tree[p].member[2]]
  IN  /\ updates < MaxUpdates
      /\ LeavesWithHash(tree, id) # {}
      /\ ~ Clash(row)
      /\ banned' = banned \cup {row}
      /\ tree' = UpdateLeaf(tree, p, Zero)
      /\ updates' = updates + 1

BanUser(id) ==
  LET p == FindLeafByHash(tree, id)
      row == [idCommitment |-> id, leafIndex |-> p[2]]
  IN  /\ updates < MaxUpdates
      /\ LeavesWithHash(tree, id) # {}
      /\ ~ Clash(row)
      /\ banned' = banned \cup {row}
      /\ tree' = UpdateLeaf(tree, p, Zero)
      /\ updates' = updates + 1

Next ==
  \/ \E g \in Groups : \E from, to \in DOMAIN Registered[g] : \E gone \in SUBSET (from..to) :
        from <= to /\ Cardinality(gone) <= MaxGone /\ AppendUsers(g, from, to, gone)
  \/ \E g \in Groups : \E indexes \in SUBSET (DOMAIN Registered[g]) :
        indexes # {} /\ RemoveUsersByIndexes(g, indexes)
  \/ \E id \in Ids : BanUser(id)

Spec == Init /\ [][Next]_vars

-----------------------------------------------------------------------------
(* Properties.                                                             *)

TypeOK ==
  /\ DOMAIN tree \subseteq (0..Levels) \X (0..(Capacity - 1))
  /\ \A p \in LeafPositions(tree) :
       tree[p].member \in Members /\ tree[p].hash \in {IdOf(tree[p].member), Zero}
  /\ banned \subseteq [idCommitment : Ids, leafIndex : 0..(Capacity - 1)]
  /\ updates \in 0..MaxUpdates

\* The documents form one binary tree: the leaves are numbered without a gap,
\* an inner document exists exactly above the leaves, and the only document
\* findRoot can return is the one at the top.  (appendUsers counts leaves to
\* choose an index and creates parents on demand.)
OneTree ==
  /\ LeafPositions(tree) = {<<0, i>> : i \in 0..(NumLeaves(tree) - 1)}
  /\ DOMAIN tree = UNION {{<<l, i \div Pow2[l]>> : l \in 0..Levels} : i \in 0..(NumLeaves(tree) - 1)}
  /\ Roots(tree) \subseteq {<<Levels, 0>>}
  /\ NumLeaves(tree) <= Capacity

\* As long as at most one leaf was set to zero, the stored root is the root the
\* clients compute from the list of leaves; members may be appended before and
\* after.  (The incremental hashing of appendUsers and updateUser is right.)
RootRightUntilSecondRemoval ==
  Cardinality(LeavesWithHash(tree, Zero)) <= 1
    => \A r \in Roots(tree) : tree[r].hash = ReferenceRoot(tree)

\* A row of BannedUser points at the leaf that was the spammer's, whatever was
\* appended or removed since; that leaf stays zero, and the banned identity gets
\* no other when its group is synchronised again.
BannedRowNamesItsLeaf ==
  \A b \in banned :
    /\ \E p \in LeafPositions(tree) :
         p[2] = b.leafIndex /\ IdOf(tree[p].member) = b.idCommitment /\ tree[p].hash = Zero
    /\ LeavesWithHash(tree, b.idCommitment) = {}

\* The root is the root of the leaves after any sequence of operations:
\* "Set user leaf to 0 and recalculate merkle tree".
RootMatchesLeaves ==
  \A r \in Roots(tree) : tree[r].hash = ReferenceRoot(tree)

\* Seen at level 0, the operations do what LeafTable says: leaves are appended
\* up to a member that has one, removed up to a member that has none, by value.
\* So no member gets a second leaf, however the synchronizer repeats its calls,
\* no leaf moves or changes its owner, and its value only changes to zero.
LeafView ==
  [i \in 1..NumLeaves(tree) |-> [member |-> tree[<<0, i - 1>>].member,
                                 value  |-> tree[<<0, i - 1>>].hash]]

Table == INSTANCE LeafTable WITH
  Blank <- Zero, Size <- Capacity, Communities <- Groups, Enrolled <- Registered,
  leaves <- LeafView

ImplementsLeafTable == Table!Spec
=============================================================================
