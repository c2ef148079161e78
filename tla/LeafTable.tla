----------------------------- MODULE LeafTable -----------------------------
(***************************************************************************)
(* The leaves of the Merkle tree as their users see them: a sequence, in   *)
(* index order, of the member each leaf was created for and its value.     *)
(* This is all the InterRep synchronizer knows about the tree, and it is   *)
(* what user.service.ts promises, without hashing: UserService implements  *)
(* the specification below.                                                *)
(***************************************************************************)
EXTENDS Naturals, Sequences, FiniteSetsExt

CONSTANTS
  Blank,        \* the value of a removed leaf: config.zeroValue
  Size,         \* number of leaves that fit
  Communities,  \* groups of the InterRep network
  Enrolled      \* Enrolled[g]: the identity commitments of g in index order

Leaf(m, v) == [member |-> m, value |-> v]

LeafMembers(L)    == {L[p].member : p \in DOMAIN L}
PositionInGroup(L, m) == CHOOSE p \in DOMAIN L : L[p].member[1] = m[1]   \* mutant
PositionOf(L, m)  == CHOOSE p \in DOMAIN L : L[p].member = m
HasValue(L, v)    == \E p \in DOMAIN L : L[p].value = v
FirstWith(L, v)   == Min({p \in DOMAIN L : L[p].value = v})

\* appendUsers: the new leaves up to the first one whose member has a leaf
\* already, or up to the capacity of the tree.
Fits(L, new) ==
  Max({k \in 0..Len(new) :
         \A i \in 1..k : new[i].member \notin LeafMembers(L) /\ Len(L) + i <= Size})
WithAppended(L, new) == L \o SubSeq(new, 1, Fits(L, new))

\* "The tree is full": thrown when the next member has no leaf yet.
Overflows(L, new) ==
  LET k == Fits(L, new)
  IN  k < Len(new) /\ new[k + 1].member \notin LeafMembers(L)

\* removeUsersByIndexes, in ascending order, up to the first index without a
\* leaf ("The node with the given index does not exist").  Each removal blanks
\* the first leaf that has the value of the member's leaf.
Removable(L, g, indexes) ==
  {i \in indexes : \A j \in indexes : j <= i => <<g, j>> \in LeafMembers(L)}
WithRemoved(L, g, indexes) ==
  LET doomed == {FirstWith(L, L[PositionOf(L, <<g, i>>)].value) : i \in Removable(L, g, indexes)}
  IN  [p \in DOMAIN L |-> IF p \in doomed THEN Leaf(L[p].member, Blank) ELSE L[p]]

\* updateUser.
WithBlank(L, v) == [L EXCEPT ![FirstWith(L, v)].value = Blank]

-----------------------------------------------------------------------------
VARIABLE leaves

Init == leaves = <<>>

\* Members that were removed on InterRep before they are appended come as Blank.
Enrol(g, from, to, gone) ==
  leaves' = WithAppended(leaves,
              [i \in 1..(to - from + 1) |->
                 LET k == from + i - 1
                 IN  Leaf(<<g, k>>, IF k \in gone THEN Blank ELSE Enrolled[g][k])])

Remove(g, indexes) == leaves' = WithRemoved(leaves, g, indexes)

Ban(v) == HasValue(leaves, v) /\ leaves' = WithBlank(leaves, v)

Next ==
  \E g \in Communities :
    \/ \E from, to \in DOMAIN Enrolled[g] : \E gone \in SUBSET (from..to) :
         from <= to /\ Enrol(g, from, to, gone)
    \/ \E indexes \in SUBSET (DOMAIN Enrolled[g]) : Remove(g, indexes)
    \/ \E i \in DOMAIN Enrolled[g] : Ban(Enrolled[g][i])

Spec == Init /\ [][Next]_leaves
=============================================================================
