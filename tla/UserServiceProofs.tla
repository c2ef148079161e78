------------------------- MODULE UserServiceProofs -------------------------
(***************************************************************************)
(* Proofs about UserService, for trees of every height and groups of every *)
(* size: the collection of documents is one tree, its root is right until  *)
(* a second leaf is set to zero, and a banned user stays without a leaf.   *)
(***************************************************************************)
EXTENDS UserService, MerkleTreeProofs, SequenceTheorems

\* What the tree is between two operations: one binary tree; each leaf was made
\* for a member that has no other, and holds the member's identity or zero; and
\* if no leaf but m is zero, all hashes are right and all sibling fields except
\* those beside the path of m.
Leaf(t, i) == t[<<0, i>>]
Owned(t)   ==
  \A i \in 0..(NumLeaves(t) - 1) :
    Leaf(t, i).member \in Members /\ Leaf(t, i).hash \in {IdOf(Leaf(t, i).member), Zero}
OneLeafEach(t) ==
  \A i, j \in 0..(NumLeaves(t) - 1) : Leaf(t, i).member = Leaf(t, j).member => i = j
OnlyZero(t, m) == \A i \in 0..(NumLeaves(t) - 1) : Leaf(t, i).hash = Zero => i = m
RightButFor(t) == \A m \in Nat : OnlyZero(t, m) => Right(t, {m})
Sound(t) == Shape(t, NumLeaves(t)) /\ Owned(t) /\ OneLeafEach(t) /\ RightButFor(t)

\* From t to u no leaf has gone or changed its member, and a leaf that is zero
\* stays zero.
Extends(t, u) ==
  /\ NumLeaves(t) <= NumLeaves(u)
  /\ \A i \in 0..(NumLeaves(t) - 1) :
       Leaf(u, i).member = Leaf(t, i).member /\ Leaf(u, i).hash \in {Leaf(t, i).hash, Zero}

\* Extends is a preorder.
LEMMA ExtendsTransitive ==
  ASSUME NEW t, NEW u, NEW w, NumLeaves(t) \in Nat, NumLeaves(u) \in Nat, NumLeaves(w) \in Nat,
         Extends(t, u), Extends(u, w)
  PROVE  Extends(t, w)
<1>1. \A i \in 0..(NumLeaves(t) - 1) : i \in 0..(NumLeaves(u) - 1)
  BY DEF Extends
<1> QED
  BY <1>1 DEF Extends

\* Registered[g] is a sequence of identities, none of which is zero.
LEMMA RegisteredFacts ==
  ASSUME NEW g \in Groups
  PROVE  /\ Len(Registered[g]) \in Nat
         /\ DOMAIN Registered[g] = 1..Len(Registered[g])
         /\ \A i \in DOMAIN Registered[g] : /\ <<g, i>> \in Members
                                            /\ IdOf(<<g, i>>) = Registered[g][i]
                                            /\ IdOf(<<g, i>>) # Zero
<1> DEFINE R == Registered[g]
           X == {R[i] : i \in DOMAIN R} \ {Zero}
<1>1. R \in Seq(X)
  BY GroupsAssumption
<1>2. Len(R) \in Nat /\ DOMAIN R = 1..Len(R) /\ \A i \in 1..Len(R) : R[i] \in X
  <2> HIDE DEF X, R
  <2> QED
    BY <1>1
<1>3. ASSUME NEW i \in DOMAIN R PROVE <<g, i>> \in Members /\ IdOf(<<g, i>>) = R[i]
  BY DEF Members, IdOf
<1> QED
  BY <1>2, <1>3

-----------------------------------------------------------------------------
(* One leaf appended, one leaf set to zero.                                *)

\* appendUsers for one member that has no leaf yet.
LEMMA AppendOne ==
  ASSUME NEW t, Sound(t), NumLeaves(t) < Capacity,
         NEW m \in Members, LeavesOfMember(t, m) = {}, NEW value \in {IdOf(m), Zero},
         NEW u, u = AppendLeaf(t, value, m)
  PROVE  /\ Sound(u) /\ Extends(t, u)
         /\ NumLeaves(u) = NumLeaves(t) + 1
         /\ Grown(t, u, NumLeaves(t), value, m)
<1>1. PICK n : n = NumLeaves(t)
  OBVIOUS
<1>2. Shape(t, n) /\ n \in 0..(Capacity - 1)
  <2>1. Shape(t, n) /\ n \in 0..Capacity /\ Capacity \in Nat
    BY <1>1, Halving DEF Sound, Shape
  <2> QED
    BY <1>1, <2>1
<1>3. ASSUME NEW A
      PROVE  /\ Shape(u, n + 1)
             /\ Right(t, A) => Right(u, A)
             /\ Grown(t, u, n, value, m)
  BY <1>2, AppendLeafFacts
<1>4. /\ Shape(u, n + 1) /\ NumLeaves(u) = n + 1
      /\ Leaf(u, n).hash = value /\ Leaf(u, n).member = m
      /\ \A i \in 0..(n - 1) : Leaf(u, i).hash = Leaf(t, i).hash
                               /\ Leaf(u, i).member = Leaf(t, i).member
  BY <1>3, LeafCount DEF Leaf, Grown
<1>5. \A i \in 0..((n + 1) - 1) : i = n \/ i \in 0..(n - 1)
  BY <1>2
<1>6. Owned(u)
  <2>1. Owned(t)
    BY DEF Sound
  <2> QED
    BY <1>1, <1>4, <1>5, <2>1 DEF Owned
<1>7. OneLeafEach(u)
  <2>1. ASSUME NEW i \in 0..(n - 1) PROVE Leaf(t, i).member # m
    <3>1. <<0, i>> \in LeafPositions(t)
      BY <1>2, LeafCount
    <3> QED
      BY <3>1 DEF LeavesOfMember, Leaf
  <2>2. OneLeafEach(t)
    BY DEF Sound
  <2> QED
    BY <1>1, <1>4, <1>5, <2>1, <2>2 DEF OneLeafEach
<1>8. RightButFor(u)
  <2>1. ASSUME NEW k \in Nat, OnlyZero(u, k) PROVE Right(u, {k})
    <3>1. OnlyZero(t, k)
      <4>1. \A i \in 0..(n - 1) : i \in 0..((n + 1) - 1)
        BY <1>2
      <4> QED
        BY <1>1, <1>4, <2>1, <4>1 DEF OnlyZero
    <3>2. Right(t, {k})
      BY <3>1 DEF Sound, RightButFor
    <3> QED
      BY <1>3, <3>2
  <2> QED
    BY <2>1 DEF RightButFor
<1>9. Extends(t, u)
  BY <1>1, <1>2, <1>4 DEF Extends
<1>10. Grown(t, u, n, value, m)
  BY <1>3
<1> QED
  BY <1>1, <1>4, <1>6, <1>7, <1>8, <1>9, <1>10 DEF Sound

\* updateUser for one leaf.
LEMMA ZeroOne ==
  ASSUME NEW t, Sound(t), NEW k \in 0..(NumLeaves(t) - 1),
         NEW u, u = UpdateLeaf(t, <<0, k>>, Zero)
  PROVE  /\ Sound(u) /\ Extends(t, u)
         /\ NumLeaves(u) = NumLeaves(t)
         /\ Changed(t, u, NumLeaves(t), k, Zero)
<1>1. PICK n : n = NumLeaves(t)
  OBVIOUS
<1>2. Shape(t, n) /\ n \in Nat /\ k \in 0..(n - 1)
  BY <1>1, LeafCount, Halving DEF Sound, Shape
<1>3. /\ Shape(u, n)
      /\ Changed(t, u, n, k, Zero)
      /\ \A A : A \subseteq {k} /\ Right(t, A) => Right(u, {k})
  BY <1>2, UpdateLeafFacts
<1>4. /\ NumLeaves(u) = n
      /\ \A i \in 0..(n - 1) : /\ Leaf(u, i).hash = (IF i = k THEN Zero ELSE Leaf(t, i).hash)
                               /\ Leaf(u, i).member = Leaf(t, i).member
  BY <1>3, LeafCount DEF Leaf, Changed
<1>5. Owned(u) /\ OneLeafEach(u)
  <2>1. Owned(t) /\ OneLeafEach(t)
    BY DEF Sound
  <2> QED
    BY <1>1, <1>4, <2>1 DEF Owned, OneLeafEach
<1>6. RightButFor(u)
  <2>1. ASSUME NEW j \in Nat, OnlyZero(u, j) PROVE Right(u, {j})
    <3>1. j = k
      BY <1>2, <1>4, <2>1 DEF OnlyZero
    <3>2. OnlyZero(t, k)
      BY <1>1, <1>4, <2>1, <3>1 DEF OnlyZero
    <3>3. Right(t, {k})
      BY <3>1, <3>2 DEF Sound, RightButFor
    <3> QED
      BY <1>3, <3>1, <3>3
  <2> QED
    BY <2>1 DEF RightButFor
<1>7. Extends(t, u)
  BY <1>1, <1>2, <1>4 DEF Extends
<1> QED
  BY <1>1, <1>3, <1>4, <1>5, <1>6, <1>7 DEF Sound
-----------------------------------------------------------------------------
(* The loops of appendUsers and removeUsersByIndexes.                      *)

ValueOf(g, i, gone) == IF i \in gone THEN Zero ELSE Registered[g][i]

Ended(s) == s = TRUE

\* One round of appendUsers: from the tree w to the tree v, from s to z if the
\* loop has ended.
AppendRound(w, s, v, z, g, i, gone) ==
  \/ (Ended(s) \/ MustStop(w, <<g, i>>)) /\ v = w /\ Ended(z)
  \/ /\ ~ Ended(s) /\ ~ MustStop(w, <<g, i>>)
     /\ v = AppendLeaf(w, ValueOf(g, i, gone), <<g, i>>) /\ ~ Ended(z)
AppendLoop(f, stop, t, g, from, to, gone) ==
  /\ f[from - 1] = t /\ ~ Ended(stop[from - 1])
  /\ \A i \in from..to : AppendRound(f[i - 1], stop[i - 1], f[i], stop[i], g, i, gone)

\* Appended is a recursive function of the index in the group.
LEMMA AppendedRounds ==
  ASSUME NEW t, NEW g, NEW from \in Nat \ {0}, NEW to \in Nat, from <= to, NEW gone
  PROVE  \E f, stop : /\ AppendLoop(f, stop, t, g, from, to, gone)
                      /\ Appended(t, g, from, to, gone) = f[to]
<1> DEFINE base == [tree |-> t, stopped |-> FALSE]
           Round(s, i) ==
             LET stop == s.stopped \/ MustStop(s.tree, <<g, i>>)
             IN  [tree    |-> IF stop THEN s.tree
                              ELSE AppendLeaf(s.tree, ValueOf(g, i, gone), <<g, i>>),
                  stopped |-> stop]
           Upto(f, k) == f = [i \in (from - 1)..k |-> IF i < from THEN base ELSE Round(f[i - 1], i)]
           S == {k \in Nat : \E f : Upto(f, (from - 1) + k)}
           last == to - (from - 1)
<1>0. last \in Nat /\ (from - 1) + last = to /\ from - 1 \in Nat
  OBVIOUS
<1> HIDE DEF base, Round
<1>1. 0 \in S
  <2>1. Upto([i \in (from - 1)..(from - 1) |-> base], from - 1)
    OBVIOUS
  <2>2. (from - 1) + 0 = from - 1
    OBVIOUS
  <2> QED
    BY <2>1, <2>2
<1>2. ASSUME NEW k \in 0..(last - 1), k \in S PROVE k + 1 \in S
  <2>1. PICK z \in Nat : z = (from - 1) + k
    OBVIOUS
  <2>2. PICK f : Upto(f, z)
    BY <1>2, <2>1
  <2> DEFINE h == [i \in (from - 1)..(z + 1) |-> IF i = z + 1 THEN Round(f[z], z + 1) ELSE f[i]]
  <2>3. ASSUME NEW i \in (from - 1)..(z + 1)
        PROVE  h[i] = IF i < from THEN base ELSE Round(h[i - 1], i)
    <3>1. CASE i = z + 1
      BY <2>1, <3>1
    <3>2. CASE i \in (from - 1)..z
      BY <2>1, <2>2, <3>2
    <3> QED
      BY <2>1, <3>1, <3>2
  <2>4. Upto(h, z + 1)
    BY <2>3
  <2>5. z + 1 = (from - 1) + (k + 1)
    BY <2>1
  <2> HIDE DEF h
  <2> QED
    BY <2>4, <2>5
<1>3. \E f : Upto(f, to)
  <2>1. \A k \in 0..last : k \in S
    <3> HIDE DEF S, last
    <3> QED
      BY <1>0, <1>1, <1>2, SetInduction
  <2>2. last \in S
    <3> HIDE DEF S, last
    <3> QED
      BY <1>0, <2>1
  <2> HIDE DEF Upto
  <2> QED
    BY <1>0, <2>2
<1> DEFINE after == CHOOSE f : Upto(f, to)
<1>4. Upto(after, to)
  <2> HIDE DEF Upto
  <2> QED
    BY <1>3
<1>5. Appended(t, g, from, to, gone) = after[to].tree
  BY DEF Appended, Round, base, ValueOf
<1> HIDE DEF after
<1>6. after[from - 1] = base
  BY <1>0, <1>4
<1>7. ASSUME NEW i \in from..to PROVE after[i] = Round(after[i - 1], i)
  BY <1>0, <1>4
<1> DEFINE f == [i \in (from - 1)..to |-> after[i].tree]
           stop == [i \in (from - 1)..to |-> after[i].stopped = TRUE]
<1>8. f[from - 1] = t /\ stop[from - 1] = FALSE
  <2>1. after[from - 1].tree = t /\ after[from - 1].stopped = FALSE
    BY <1>6 DEF base
  <2>2. from - 1 \in (from - 1)..to
    BY <1>0
  <2> QED
    BY <2>1, <2>2
<1>9. ASSUME NEW i \in from..to
      PROVE  AppendRound(f[i - 1], stop[i - 1], f[i], stop[i], g, i, gone)
  <2>1. i \in (from - 1)..to /\ i - 1 \in (from - 1)..to
    BY <1>0
  <2>2. /\ f[i] = after[i].tree /\ f[i - 1] = after[i - 1].tree
        /\ stop[i] = (after[i].stopped = TRUE) /\ stop[i - 1] = (after[i - 1].stopped = TRUE)
    BY <2>1
  <2> HIDE DEF f, stop
  <2>3. PICK s : s = after[i - 1]
    OBVIOUS
  <2>4. PICK x, y :
          /\ after[i] = [tree |-> x, stopped |-> y]
          /\ x = IF s.stopped \/ MustStop(s.tree, <<g, i>>) THEN s.tree
                 ELSE AppendLeaf(s.tree, ValueOf(g, i, gone), <<g, i>>)
          /\ y = (s.stopped \/ MustStop(s.tree, <<g, i>>))
    BY <1>7, <2>3, Zenon DEF Round
  <2>5. after[i].tree = x /\ after[i].stopped = y
    BY <2>4
  <2>6. y \in BOOLEAN
    BY <2>4
  <2>7. y = TRUE <=> s.stopped = TRUE \/ MustStop(s.tree, <<g, i>>)
    BY <2>4, Zenon
  <2>8. CASE y = TRUE
    <3>1. x = s.tree
      BY <2>4, <2>8, Zenon
    <3> QED
      BY <2>2, <2>3, <2>5, <2>7, <2>8, <3>1 DEF AppendRound, Ended
  <2>9. CASE y # TRUE
    <3>1. x = AppendLeaf(s.tree, ValueOf(g, i, gone), <<g, i>>)
      BY <2>4, <2>6, <2>9, Zenon
    <3> QED
      BY <2>2, <2>3, <2>5, <2>7, <2>9, <3>1 DEF AppendRound, Ended
  <2> QED
    BY <2>8, <2>9
<1>10. f[to] = after[to].tree
  BY <1>0
<1> HIDE DEF f, stop
<1>11. AppendLoop(f, stop, t, g, from, to, gone)
  BY <1>8, <1>9 DEF AppendLoop, Ended
<1> QED
  BY <1>5, <1>10, <1>11

\* From t to u, the k members of g from `from` on got a leaf each, in their order,
\* and no other leaf changed.
Enrolled(t, u, g, from, k, gone) ==
  /\ NumLeaves(u) = NumLeaves(t) + k
  /\ \A i \in 0..(NumLeaves(t) - 1) :
       Leaf(u, i).member = Leaf(t, i).member /\ Leaf(u, i).hash = Leaf(t, i).hash
  /\ \A j \in 0..(k - 1) : /\ LeavesOfMember(t, <<g, from + j>>) = {}
                           /\ Leaf(u, NumLeaves(t) + j).member = <<g, from + j>>
                           /\ Leaf(u, NumLeaves(t) + j).hash = ValueOf(g, from + j, gone)

\* The member of g at i cannot get leaf number n: it has one, or the tree is full.
Blocked(t, g, i, n) == LeavesOfMember(t, <<g, i>>) # {} \/ n >= Capacity

\* A member has a leaf in u if it had one in t or is one of the new members.
LEMMA EnrolledMembers ==
  ASSUME NEW t, Sound(t), NEW u, Sound(u), NEW g, NEW from \in Nat, NEW k \in Nat, NEW gone,
         Enrolled(t, u, g, from, k, gone),
         NEW m, LeavesOfMember(u, m) # {}
  PROVE  LeavesOfMember(t, m) # {} \/ \E j \in 0..(k - 1) : m = <<g, from + j>>
<1>1. PICK n : n = NumLeaves(t) /\ n \in Nat /\ NumLeaves(u) = n + k
  BY Halving DEF Sound, Shape, Enrolled
<1>2. PICK q \in 0..((n + k) - 1) : Leaf(u, q).member = m
  BY <1>1, LeafCount DEF Sound, LeavesOfMember, Leaf
<1>3. CASE q \in 0..(n - 1)
  <2>1. Leaf(t, q).member = m
    BY <1>1, <1>2, <1>3 DEF Enrolled
  <2>2. <<0, q>> \in LeafPositions(t)
    BY <1>1, <1>3, LeafCount DEF Sound
  <2> QED
    BY <2>1, <2>2 DEF LeavesOfMember, Leaf
<1>4. CASE q \notin 0..(n - 1)
  <2>1. q - n \in 0..(k - 1) /\ q = n + (q - n)
    BY <1>1, <1>4
  <2> QED
    BY <1>1, <1>2, <2>1 DEF Enrolled
<1> QED
  BY <1>3, <1>4

\* What appendUsers has done after r rounds, and where it stopped.
Grows(t, u, g, from, k, gone) == Sound(u) /\ Extends(t, u) /\ Enrolled(t, u, g, from, k, gone)
AppendedSoFar(t, u, z, g, from, r, gone) ==
  \E k \in 0..r :
    /\ Grows(t, u, g, from, k, gone)
    /\ ~ Ended(z) => k = r
    /\ Ended(z) => k # r /\ Blocked(t, g, from + k, NumLeaves(t) + k)

(* One round of appendUsers appends at most the leaf of its member.         *)
LEMMA AppendedRound ==
  ASSUME NEW t, Sound(t), NEW g, NEW from \in Nat \ {0}, NEW r \in Nat, NEW gone,
         <<g, from + r>> \in Members, ValueOf(g, from + r, gone) \in {IdOf(<<g, from + r>>), Zero},
         NEW w, NEW s, AppendedSoFar(t, w, s, g, from, r, gone),
         NEW v, NEW z, AppendRound(w, s, v, z, g, from + r, gone)
  PROVE  AppendedSoFar(t, v, z, g, from, r + 1, gone)
<1>1. PICK i : i = from + r
  OBVIOUS
<1>2. PICK k \in 0..r : /\ Grows(t, w, g, from, k, gone)
                        /\ ~ Ended(s) => k = r
                        /\ Ended(s) => k # r /\ Blocked(t, g, from + k, NumLeaves(t) + k)
  BY DEF AppendedSoFar
<1>3. PICK n : n = NumLeaves(t) /\ n \in Nat
  BY Halving DEF Sound, Shape
<1>4. Sound(w) /\ Extends(t, w) /\ Enrolled(t, w, g, from, k, gone) /\ NumLeaves(w) = n + k
  BY <1>2, <1>3 DEF Grows, Enrolled
<1>5. CASE Ended(s)
  <2>1. Ended(z) /\ v = w /\ k \in 0..(r + 1) /\ k # r + 1
    BY <1>5 DEF AppendRound
  <2> QED
    BY <1>2, <1>5, <2>1 DEF AppendedSoFar
<1>6. CASE ~ Ended(s) /\ MustStop(w, <<g, i>>)
  <2>1. Ended(z) /\ v = w /\ k \in 0..(r + 1) /\ k # r + 1 /\ k = r
    BY <1>1, <1>2, <1>6 DEF AppendRound
  <2>2. ASSUME LeavesOfMember(w, <<g, i>>) # {} PROVE LeavesOfMember(t, <<g, i>>) # {}
    <3>1. ASSUME NEW j \in 0..(k - 1) PROVE <<g, i>> # <<g, from + j>>
      BY <1>1, <2>1
    <3>2. from \in Nat /\ k \in Nat
      OBVIOUS
    <3> QED
      BY <1>4, <2>2, <3>1, <3>2, EnrolledMembers
  <2>3. Blocked(t, g, from + k, n + k)
    BY <1>1, <1>4, <1>6, <2>1, <2>2 DEF MustStop, Blocked
  <2> QED
    BY <1>2, <1>3, <2>1, <2>3 DEF AppendedSoFar
<1>7. CASE ~ Ended(s) /\ ~ MustStop(w, <<g, i>>)
  <2>1. ~ Ended(z) /\ k = r /\ v = AppendLeaf(w, ValueOf(g, i, gone), <<g, i>>)
    BY <1>1, <1>2, <1>7 DEF AppendRound
  <2>2. /\ n + k \in Nat /\ Capacity \in Nat
        /\ NumLeaves(w) < Capacity /\ LeavesOfMember(w, <<g, i>>) = {}
    BY <1>3, <1>4, <1>7, Halving DEF MustStop
  <2>3. /\ Sound(v) /\ Extends(w, v)
        /\ NumLeaves(v) = NumLeaves(w) + 1
        /\ Grown(w, v, NumLeaves(w), ValueOf(g, i, gone), <<g, i>>)
    BY <1>1, <1>4, <2>1, <2>2, AppendOne
  <2>4. Extends(t, v)
    BY <1>3, <1>4, <2>2, <2>3, ExtendsTransitive
  <2>5. /\ NumLeaves(v) = n + (k + 1)
        /\ \A q \in 0..((n + k) - 1) : Leaf(v, q).member = Leaf(w, q).member
                                      /\ Leaf(v, q).hash = Leaf(w, q).hash
        /\ Leaf(v, n + k).member = <<g, i>> /\ Leaf(v, n + k).hash = ValueOf(g, i, gone)
    BY <1>3, <1>4, <2>3 DEF Grown, Leaf
  <2>6. LeavesOfMember(t, <<g, i>>) = {}
    <3>1. ASSUME NEW p \in LeavesOfMember(t, <<g, i>>) PROVE FALSE
      <4>1. PICK q \in 0..(n - 1) : p = <<0, q>> /\ Leaf(t, q).member = <<g, i>>
        BY <1>3, <3>1, LeafCount DEF Sound, LeavesOfMember, Leaf
      <4>2. q \in 0..((n + k) - 1) /\ Leaf(w, q).member = <<g, i>>
        BY <1>3, <1>4, <4>1 DEF Enrolled
      <4>3. <<0, q>> \in LeafPositions(w)
        BY <1>4, <4>2, LeafCount DEF Sound
      <4> QED
        BY <2>2, <4>2, <4>3 DEF LeavesOfMember, Leaf
    <3> QED
      BY <3>1
  <2>7. Enrolled(t, v, g, from, k + 1, gone)
    <3>1. ASSUME NEW j \in 0..((k + 1) - 1)
          PROVE  j = k \/ (j \in 0..(k - 1) /\ n + j \in 0..((n + k) - 1))
      BY <1>3
    <3>2. \A q \in 0..(n - 1) : q \in 0..((n + k) - 1)
      BY <1>3
    <3>3. from + k = i
      BY <1>1, <2>1
    <3> QED
      BY <1>3, <1>4, <2>5, <2>6, <3>1, <3>2, <3>3 DEF Enrolled
  <2>8. Grows(t, v, g, from, k + 1, gone) /\ k + 1 \in 0..(r + 1) /\ k + 1 = r + 1
    BY <2>1, <2>3, <2>4, <2>7 DEF Grows
  <2> QED
    BY <2>1, <2>8 DEF AppendedSoFar
<1> QED
  BY <1>5, <1>6, <1>7

\* appendUsers adds the members one by one, up to the first that is blocked.
LEMMA AppendedFacts ==
  ASSUME NEW t, Sound(t), NEW g \in Groups, NEW from \in DOMAIN Registered[g],
         NEW to \in DOMAIN Registered[g], from <= to, NEW gone,
         NEW u, u = Appended(t, g, from, to, gone)
  PROVE  \E z : AppendedSoFar(t, u, z, g, from, to - from + 1, gone)
<1>1. from \in Nat \ {0} /\ to \in Nat
  BY RegisteredFacts
<1>2. PICK f, stop : AppendLoop(f, stop, t, g, from, to, gone) /\ u = f[to]
  BY <1>1, AppendedRounds
<1>3. PICK last \in Nat : last = to - from + 1
  BY <1>1
<1> DEFINE S == {r \in 0..last :
                   AppendedSoFar(t, f[(from - 1) + r], stop[(from - 1) + r], g, from, r, gone)}
<1>4. 0 \in S
  <2>1. NumLeaves(t) \in Nat
    BY Halving DEF Sound, Shape
  <2>2. Grows(t, t, g, from, 0, gone)
    BY <2>1 DEF Grows, Extends, Enrolled
  <2>3. (from - 1) + 0 = from - 1
    BY <1>1
  <2>4. f[from - 1] = t /\ ~ Ended(stop[from - 1])
    BY <1>2 DEF AppendLoop
  <2>5. AppendedSoFar(t, t, stop[from - 1], g, from, 0, gone)
    <3>1. 0 \in 0..0
      OBVIOUS
    <3> QED
      BY <2>2, <2>4, <3>1, Zenon DEF AppendedSoFar
  <2> QED
    BY <2>3, <2>4, <2>5
<1>5. ASSUME NEW r \in 0..(last - 1), r \in S PROVE r + 1 \in S
  <2>1. PICK i \in from..to : i = from + r /\ (from - 1) + r = i - 1 /\ (from - 1) + (r + 1) = i
    BY <1>1, <1>3
  <2>2. AppendRound(f[i - 1], stop[i - 1], f[i], stop[i], g, i, gone)
    BY <1>2 DEF AppendLoop
  <2>3. AppendedSoFar(t, f[i - 1], stop[i - 1], g, from, r, gone)
    BY <1>5, <2>1
  <2>4. <<g, i>> \in Members /\ ValueOf(g, i, gone) \in {IdOf(<<g, i>>), Zero}
    BY RegisteredFacts DEF ValueOf
  <2>5. AppendedSoFar(t, f[i], stop[i], g, from, r + 1, gone)
    BY <1>1, <2>1, <2>2, <2>3, <2>4, AppendedRound
  <2> QED
    BY <2>1, <2>5
<1>6. \A r \in 0..last : r \in S
  <2> HIDE DEF S
  <2> QED
    BY <1>4, <1>5, SetInduction
<1>7. (from - 1) + last = to /\ last \in 0..last
  BY <1>1, <1>3
<1>8. AppendedSoFar(t, u, stop[to], g, from, last, gone)
  BY <1>2, <1>6, <1>7
<1> QED
  BY <1>3, <1>8

\* Every identity is registered once.  The unique index of the code is on the
\* member, so nothing but InterRep itself promises this.
DistinctIds == \A m, k \in Members : IdOf(m) = IdOf(k) => m = k

\* The leaf that updateUser finds by a hash that some leaf has.
LEMMA FoundByHash ==
  ASSUME NEW t, Sound(t), NEW h, LeavesWithHash(t, h) # {}
  PROVE  \E k \in 0..(NumLeaves(t) - 1) :
           /\ FindLeafByHash(t, h) = <<0, k>> /\ Leaf(t, k).hash = h
           /\ \A i \in 0..(NumLeaves(t) - 1) : Leaf(t, i).hash = h => k <= i
<1>1. PICK n : n = NumLeaves(t) /\ Shape(t, n)
  BY DEF Sound
<1>2. LeavesWithHash(t, h) \in SUBSET LeafPositions(t)
  BY DEF LeavesWithHash
<1>3. PICK k \in 0..(n - 1) :
        /\ FirstOf(LeavesWithHash(t, h)) = <<0, k>>
        /\ <<0, k>> \in LeavesWithHash(t, h)
        /\ \A i \in 0..(n - 1) : <<0, i>> \in LeavesWithHash(t, h) => k <= i
  BY <1>1, <1>2, FirstLeaf
<1>4. ASSUME NEW i \in 0..(n - 1)
      PROVE  <<0, i>> \in LeavesWithHash(t, h) <=> Leaf(t, i).hash = h
  BY <1>1, LeafCount DEF LeavesWithHash, Leaf
<1>5. Leaf(t, k).hash = h
  BY <1>3, <1>4
<1>6. \A i \in 0..(n - 1) : Leaf(t, i).hash = h => k <= i
  BY <1>3, <1>4
<1> QED
  BY <1>1, <1>3, <1>5, <1>6 DEF FindLeafByHash

\* A member has a leaf if and only if a leaf holds it.
LEMMA LeafOfMember ==
  ASSUME NEW t, Sound(t), NEW m
  PROVE  LeavesOfMember(t, m) # {} <=> \E i \in 0..(NumLeaves(t) - 1) : Leaf(t, i).member = m
<1>1. PICK n : n = NumLeaves(t) /\ LeafPositions(t) = {<<0, i>> : i \in 0..(n - 1)}
  BY LeafCount DEF Sound
<1>2. ASSUME NEW p \in LeavesOfMember(t, m) PROVE \E i \in 0..(n - 1) : Leaf(t, i).member = m
  BY <1>1, <1>2 DEF LeavesOfMember, Leaf
<1>3. ASSUME NEW i \in 0..(n - 1), Leaf(t, i).member = m PROVE <<0, i>> \in LeavesOfMember(t, m)
  BY <1>1, <1>3 DEF LeavesOfMember, Leaf
<1> QED
  BY <1>1, <1>2, <1>3

\* The leaf that removeUsersByIndexes finds by the key of the member.
LEMMA FoundByMember ==
  ASSUME NEW t, Sound(t), NEW m, LeavesOfMember(t, m) # {}
  PROVE  \E q \in 0..(NumLeaves(t) - 1) :
           FindLeafByMember(t, m) = <<0, q>> /\ Leaf(t, q).member = m
<1>1. PICK n : n = NumLeaves(t) /\ Shape(t, n)
  BY DEF Sound
<1>2. LeavesOfMember(t, m) \in SUBSET LeafPositions(t)
  BY DEF LeavesOfMember
<1>3. PICK q \in 0..(n - 1) :
        FirstOf(LeavesOfMember(t, m)) = <<0, q>> /\ <<0, q>> \in LeavesOfMember(t, m)
  BY <1>1, <1>2, FirstLeaf
<1>4. Leaf(t, q).member = m
  BY <1>3 DEF LeavesOfMember, Leaf
<1> QED
  BY <1>1, <1>3, <1>4 DEF FindLeafByMember

\* removeUsersByIndexes for one member.  It looks up the member's leaf and then
\* updates the first leaf with the same hash: the same leaf, if no identity is
\* registered twice, or a leaf that is zero already.
Zeroed(w, m) == UpdateLeaf(w, FindLeafByHash(w, w[FindLeafByMember(w, m)].hash), Zero)
ZeroesOnly(w, v, m) ==
  \A p \in 0..(NumLeaves(w) - 1) :
    /\ Leaf(w, p).member = m => Leaf(v, p).hash = Zero
    /\ Leaf(w, p).member # m => Leaf(v, p).hash = Leaf(w, p).hash

(* Setting a member's leaf to zero keeps the tree sound and every other     *)
(* leaf.                                                                    *)
LEMMA ZeroedFacts ==
  ASSUME NEW w, Sound(w), NEW m, LeavesOfMember(w, m) # {}, NEW v, v = Zeroed(w, m)
  PROVE  /\ Sound(v) /\ Extends(w, v) /\ NumLeaves(v) = NumLeaves(w)
         /\ DistinctIds => ZeroesOnly(w, v, m)
<1>1. PICK n : n = NumLeaves(w)
  OBVIOUS
<1>2. PICK q \in 0..(n - 1) : FindLeafByMember(w, m) = <<0, q>> /\ Leaf(w, q).member = m
  BY <1>1, FoundByMember
<1>3. PICK h : h = Leaf(w, q).hash
  OBVIOUS
<1>4. LeavesWithHash(w, h) # {}
  <2>1. <<0, q>> \in LeafPositions(w)
    BY <1>1, <1>2, LeafCount DEF Sound
  <2> QED
    BY <1>3, <2>1 DEF LeavesWithHash, Leaf
<1>5. PICK k \in 0..(n - 1) : FindLeafByHash(w, h) = <<0, k>> /\ Leaf(w, k).hash = h
  BY <1>1, <1>4, FoundByHash
<1>6. v = UpdateLeaf(w, <<0, k>>, Zero)
  BY <1>2, <1>3, <1>5 DEF Zeroed, Leaf
<1>7. /\ Sound(v) /\ Extends(w, v) /\ NumLeaves(v) = n
      /\ Changed(w, v, n, k, Zero)
  BY <1>1, <1>6, ZeroOne
<1>8. ASSUME DistinctIds PROVE ZeroesOnly(w, v, m)
  <2>1. h = Zero \/ k = q
    <3>1. ASSUME h # Zero PROVE Leaf(w, k).member = Leaf(w, q).member
      BY <1>1, <1>2, <1>3, <1>5, <1>8, <3>1 DEF Sound, Owned, DistinctIds
    <3>2. Leaf(w, k).member = Leaf(w, q).member => k = q
      BY <1>1, <1>2, <1>5 DEF Sound, OneLeafEach
    <3> QED
      BY <3>1, <3>2
  <2>2. ASSUME NEW p \in 0..(n - 1), Leaf(w, p).member = m PROVE Leaf(v, p).hash = Zero
    <3>1. p = q
      BY <1>1, <1>2, <2>2 DEF Sound, OneLeafEach
    <3>2. CASE k = q
      BY <1>7, <3>1, <3>2 DEF Changed, Leaf
    <3>3. CASE k # q
      <4>1. Leaf(v, q).hash = Leaf(w, q).hash
        BY <1>2, <1>7, <3>3 DEF Changed, Leaf
      <4> QED
        BY <1>3, <2>1, <3>1, <3>3, <4>1
    <3> QED
      BY <3>2, <3>3
  <2>3. ASSUME NEW p \in 0..(n - 1), Leaf(w, p).member # m PROVE Leaf(v, p).hash = Leaf(w, p).hash
    <3>1. CASE p # k
      BY <1>7, <3>1 DEF Changed, Leaf
    <3>2. CASE p = k
      <4>1. h = Zero
        BY <1>2, <2>1, <2>3, <3>2
      <4> QED
        BY <1>5, <1>7, <3>2, <4>1 DEF Changed, Leaf
    <3> QED
      BY <3>1, <3>2
  <2> QED
    BY <1>1, <2>2, <2>3 DEF ZeroesOnly
<1> QED
  BY <1>1, <1>7, <1>8

\* One round of removeUsersByIndexes, as AppendRound.
RemoveRound(w, s, v, z, g, i, indexes) ==
  \/ (i \notin indexes \/ Ended(s)) /\ v = w /\ (Ended(z) <=> Ended(s))
  \/ i \in indexes /\ ~ Ended(s) /\ LeavesOfMember(w, <<g, i>>) = {} /\ v = w /\ Ended(z)
  \/ /\ i \in indexes /\ ~ Ended(s) /\ LeavesOfMember(w, <<g, i>>) # {}
     /\ v = Zeroed(w, <<g, i>>) /\ ~ Ended(z)
RemoveLoop(f, thrown, t, g, indexes) ==
  /\ f[0] = t /\ ~ Ended(thrown[0])
  /\ \A i \in 1..Len(Registered[g]) :
       RemoveRound(f[i - 1], thrown[i - 1], f[i], thrown[i], g, i, indexes)

\* Removed is a recursive function of the index in the group, too.
LEMMA RemovedRounds ==
  ASSUME NEW t, NEW g \in Groups, NEW indexes
  PROVE  \E f, thrown : /\ RemoveLoop(f, thrown, t, g, indexes)
                        /\ Removed(t, g, indexes) = f[Len(Registered[g])]
<1> DEFINE base == [tree |-> t, thrown |-> FALSE]
           Round(s, i) ==
             LET known == LeavesOfMember(s.tree, <<g, i>>) # {}
             IN  IF i \notin indexes \/ s.thrown THEN s
                 ELSE [tree   |-> IF known THEN Zeroed(s.tree, <<g, i>>) ELSE s.tree,
                       thrown |-> ~ known]
           Upto(f, k) == f = [i \in 0..k |-> IF i = 0 THEN base ELSE Round(f[i - 1], i)]
           S == {k \in Nat : \E f : Upto(f, k)}
           last == Len(Registered[g])
<1>0. last \in Nat
  BY RegisteredFacts
<1> HIDE DEF base, Round
<1>1. 0 \in S
  <2>1. Upto([i \in 0..0 |-> base], 0)
    OBVIOUS
  <2> QED
    BY <2>1
<1>2. ASSUME NEW k \in 0..(last - 1), k \in S PROVE k + 1 \in S
  <2>1. PICK f : Upto(f, k)
    BY <1>2
  <2> DEFINE h == [i \in 0..(k + 1) |-> IF i = k + 1 THEN Round(f[k], k + 1) ELSE f[i]]
  <2>2. ASSUME NEW i \in 0..(k + 1) PROVE h[i] = IF i = 0 THEN base ELSE Round(h[i - 1], i)
    <3>1. CASE i = k + 1
      BY <3>1
    <3>2. CASE i \in 0..k
      BY <2>1, <3>2
    <3> QED
      BY <3>1, <3>2
  <2>3. Upto(h, k + 1)
    BY <2>2
  <2> HIDE DEF h
  <2> QED
    BY <2>3
<1>3. \E f : Upto(f, last)
  <2>1. \A k \in 0..last : k \in S
    <3> HIDE DEF S, last
    <3> QED
      BY <1>0, <1>1, <1>2, SetInduction
  <2>2. last \in S
    <3> HIDE DEF S, last
    <3> QED
      BY <1>0, <2>1
  <2> HIDE DEF Upto
  <2> QED
    BY <2>2
<1> DEFINE after == CHOOSE f : Upto(f, last)
<1>4. Upto(after, last)
  <2> HIDE DEF Upto
  <2> QED
    BY <1>3
<1>5. Removed(t, g, indexes) = after[last].tree
  BY DEF Removed, Round, base, Zeroed
<1> HIDE DEF after
<1>6. after[0] = base
  BY <1>0, <1>4
<1>7. ASSUME NEW i \in 1..last PROVE after[i] = Round(after[i - 1], i)
  BY <1>0, <1>4
<1> DEFINE f == [i \in 0..last |-> after[i].tree]
           thrown == [i \in 0..last |-> after[i].thrown = TRUE]
<1>8. f[0] = t /\ thrown[0] = FALSE
  <2>1. after[0].tree = t /\ after[0].thrown = FALSE
    BY <1>6 DEF base
  <2> QED
    BY <1>0, <2>1
<1>9. ASSUME NEW i \in 1..last
      PROVE  RemoveRound(f[i - 1], thrown[i - 1], f[i], thrown[i], g, i, indexes)
  <2>1. i \in 0..last /\ i - 1 \in 0..last
    BY <1>0
  <2>2. /\ f[i] = after[i].tree /\ f[i - 1] = after[i - 1].tree
        /\ thrown[i] = (after[i].thrown = TRUE) /\ thrown[i - 1] = (after[i - 1].thrown = TRUE)
    BY <2>1
  <2> HIDE DEF f, thrown
  <2>3. PICK s : s = after[i - 1]
    OBVIOUS
  <2> DEFINE known == LeavesOfMember(s.tree, <<g, i>>) # {}
  <2>4. CASE i \notin indexes \/ s.thrown
    <3>1. after[i] = s
      BY <1>7, <2>3, <2>4, Zenon DEF Round
    <3> QED
      BY <2>2, <2>3, <2>4, <3>1 DEF RemoveRound, Ended
  <2>5. CASE ~ (i \notin indexes \/ s.thrown)
    <3>1. PICK x, y : /\ after[i] = [tree |-> x, thrown |-> y]
                      /\ x = IF known THEN Zeroed(s.tree, <<g, i>>) ELSE s.tree
                      /\ y = ~ known
      BY <1>7, <2>3, <2>5, Zenon DEF Round
    <3>2. after[i].tree = x /\ after[i].thrown = y
      BY <3>1
    <3>3. CASE known
      BY <2>2, <2>3, <2>5, <3>1, <3>2, <3>3 DEF RemoveRound, Ended
    <3>4. CASE ~ known
      BY <2>2, <2>3, <2>5, <3>1, <3>2, <3>4 DEF RemoveRound, Ended
    <3> QED
      BY <3>3, <3>4
  <2> QED
    BY <2>4, <2>5
<1>10. f[last] = after[last].tree
  BY <1>0
<1> HIDE DEF f, thrown
<1>11. RemoveLoop(f, thrown, t, g, indexes)
  BY <1>8, <1>9 DEF RemoveLoop, Ended
<1> QED
  BY <1>5, <1>10, <1>11

\* The members of g that removeUsersByIndexes comes to: it throws at the first
\* index that has no leaf.
Reached(t, g, indexes) ==
  {i \in indexes : \A j \in indexes : j <= i => LeavesOfMember(t, <<g, j>>) # {}}

\* From t to u, the leaves of the members reached up to r became zero.
RemovedUpTo(t, u, g, r, indexes) ==
  \A p \in 0..(NumLeaves(t) - 1) :
    /\ (\E i \in Reached(t, g, indexes) : i <= r /\ Leaf(t, p).member = <<g, i>>)
         => Leaf(u, p).hash = Zero
    /\ (\A i \in Reached(t, g, indexes) : i <= r => Leaf(t, p).member # <<g, i>>)
         => Leaf(u, p).hash = Leaf(t, p).hash
RemovedSoFar(t, u, z, g, r, indexes) ==
  /\ Sound(u) /\ Extends(t, u) /\ NumLeaves(u) = NumLeaves(t)
  /\ Ended(z) <=> \E i \in indexes : i <= r /\ LeavesOfMember(t, <<g, i>>) = {}
  /\ DistinctIds => RemovedUpTo(t, u, g, r, indexes)

(* One round of removeUsersByIndexes removes at most the leaf of its        *)
(* member.                                                                  *)
LEMMA RemovedRound ==
  ASSUME NEW t, Sound(t), NEW g, NEW indexes \in SUBSET Nat, NEW r \in Nat,
         NEW w, NEW s, RemovedSoFar(t, w, s, g, r, indexes),
         NEW v, NEW z, RemoveRound(w, s, v, z, g, r + 1, indexes)
  PROVE  RemovedSoFar(t, v, z, g, r + 1, indexes)
<1>1. PICK i \in Nat : i = r + 1
  OBVIOUS
<1>2. PICK n \in Nat : n = NumLeaves(t) /\ n = NumLeaves(w)
  BY Halving DEF Sound, Shape, RemovedSoFar
<1>3. Sound(w) /\ Extends(t, w) /\ \A p \in 0..(n - 1) : Leaf(w, p).member = Leaf(t, p).member
  BY <1>2 DEF RemovedSoFar, Extends
<1>4. ASSUME NEW m PROVE LeavesOfMember(w, m) = {} <=> LeavesOfMember(t, m) = {}
  <2>1. LeavesOfMember(w, m) # {} <=> \E q \in 0..(n - 1) : Leaf(w, q).member = m
    BY <1>2, <1>3, LeafOfMember
  <2>2. LeavesOfMember(t, m) # {} <=> \E q \in 0..(n - 1) : Leaf(t, q).member = m
    BY <1>2, LeafOfMember
  <2> QED
    BY <1>3, <2>1, <2>2
<1>5. \A j \in indexes : j <= i <=> j <= r \/ j = i
  BY <1>1
<1>6. ASSUME i \notin indexes \/ Ended(s), v = w, Ended(z) <=> Ended(s)
      PROVE  RemovedSoFar(t, v, z, g, i, indexes)
  <2>1. i \notin Reached(t, g, indexes)
    BY <1>5, <1>6 DEF RemovedSoFar, Reached
  <2>2. \A j \in Reached(t, g, indexes) : j <= i <=> j <= r
    BY <1>5, <2>1 DEF Reached
  <2>3. ASSUME DistinctIds PROVE RemovedUpTo(t, v, g, i, indexes)
    BY <1>6, <2>2, <2>3 DEF RemovedSoFar, RemovedUpTo
  <2>4. Ended(z) <=> \E j \in indexes : j <= i /\ LeavesOfMember(t, <<g, j>>) = {}
    BY <1>5, <1>6 DEF RemovedSoFar
  <2> QED
    BY <1>6, <2>3, <2>4 DEF RemovedSoFar
<1>7. ASSUME i \in indexes, ~ Ended(s), LeavesOfMember(w, <<g, i>>) = {}, v = w, Ended(z)
      PROVE  RemovedSoFar(t, v, z, g, i, indexes)
  <2>1. i \notin Reached(t, g, indexes)
    BY <1>4, <1>7 DEF Reached
  <2>2. \A j \in Reached(t, g, indexes) : j <= i <=> j <= r
    BY <1>5, <2>1 DEF Reached
  <2>3. ASSUME DistinctIds PROVE RemovedUpTo(t, v, g, i, indexes)
    BY <1>7, <2>2, <2>3 DEF RemovedSoFar, RemovedUpTo
  <2>4. Ended(z) <=> \E j \in indexes : j <= i /\ LeavesOfMember(t, <<g, j>>) = {}
    BY <1>4, <1>7
  <2> QED
    BY <1>7, <2>3, <2>4 DEF RemovedSoFar
<1>8. ASSUME i \in indexes, ~ Ended(s), LeavesOfMember(w, <<g, i>>) # {},
             v = Zeroed(w, <<g, i>>), ~ Ended(z)
      PROVE  RemovedSoFar(t, v, z, g, i, indexes)
  <2>1. /\ Sound(v) /\ Extends(w, v) /\ NumLeaves(v) = n
        /\ DistinctIds => ZeroesOnly(w, v, <<g, i>>)
    BY <1>2, <1>3, <1>8, ZeroedFacts
  <2>2. Extends(t, v)
    BY <1>2, <1>3, <2>1, ExtendsTransitive
  <2>3. \A j \in indexes : j <= i => LeavesOfMember(t, <<g, j>>) # {}
    BY <1>4, <1>5, <1>8 DEF RemovedSoFar
  <2>4. i \in Reached(t, g, indexes)
    BY <1>8, <2>3 DEF Reached
  <2>5. ASSUME DistinctIds PROVE RemovedUpTo(t, v, g, i, indexes)
    <3>1. RemovedUpTo(t, w, g, r, indexes) /\ ZeroesOnly(w, v, <<g, i>>)
      BY <2>1, <2>5 DEF RemovedSoFar
    <3>2. \A j \in Reached(t, g, indexes) : j <= i <=> j <= r \/ j = i
      BY <1>5 DEF Reached
    <3>3. ASSUME NEW p \in 0..(n - 1),
                 \E j \in Reached(t, g, indexes) : j <= i /\ Leaf(t, p).member = <<g, j>>
          PROVE  Leaf(v, p).hash = Zero
      <4>1. CASE Leaf(t, p).member = <<g, i>>
        BY <1>2, <1>3, <3>1, <4>1 DEF ZeroesOnly
      <4>2. CASE Leaf(t, p).member # <<g, i>>
        <5>1. Leaf(w, p).hash = Zero
          BY <1>2, <3>1, <3>2, <3>3, <4>2 DEF RemovedUpTo
        <5>2. Leaf(v, p).hash = Leaf(w, p).hash
          BY <1>2, <1>3, <3>1, <4>2 DEF ZeroesOnly
        <5> QED
          BY <5>1, <5>2
      <4> QED
        BY <4>1, <4>2
    <3>4. ASSUME NEW p \in 0..(n - 1),
                 \A j \in Reached(t, g, indexes) : j <= i => Leaf(t, p).member # <<g, j>>
          PROVE  Leaf(v, p).hash = Leaf(t, p).hash
      <4>1. Leaf(w, p).hash = Leaf(t, p).hash
        BY <1>2, <3>1, <3>2, <3>4 DEF RemovedUpTo
      <4>2. Leaf(t, p).member # <<g, i>>
        BY <2>4, <3>4
      <4>3. Leaf(v, p).hash = Leaf(w, p).hash
        BY <1>2, <1>3, <3>1, <4>2 DEF ZeroesOnly
      <4> QED
        BY <4>1, <4>3
    <3> QED
      BY <1>2, <3>3, <3>4 DEF RemovedUpTo
  <2>6. Ended(z) <=> \E j \in indexes : j <= i /\ LeavesOfMember(t, <<g, j>>) = {}
    BY <1>8, <2>3
  <2> QED
    BY <1>2, <2>1, <2>2, <2>5, <2>6 DEF RemovedSoFar
<1> QED
  BY <1>1, <1>6, <1>7, <1>8 DEF RemoveRound

\* removeUsersByIndexes zeroes the leaves of the members it reaches.
LEMMA RemovedFacts ==
  ASSUME NEW t, Sound(t), NEW g \in Groups, NEW indexes \in SUBSET (DOMAIN Registered[g]),
         NEW u, u = Removed(t, g, indexes)
  PROVE  \E z : RemovedSoFar(t, u, z, g, Len(Registered[g]), indexes)
<1>1. PICK last \in Nat : last = Len(Registered[g]) /\ indexes \in SUBSET Nat
                         /\ \A i \in indexes : i # 0
  BY RegisteredFacts
<1>2. PICK f, thrown : RemoveLoop(f, thrown, t, g, indexes) /\ u = f[last]
  BY <1>1, RemovedRounds
<1> DEFINE S == {r \in 0..last : RemovedSoFar(t, f[r], thrown[r], g, r, indexes)}
<1>3. 0 \in S
  <2>1. f[0] = t /\ ~ Ended(thrown[0])
    BY <1>2 DEF RemoveLoop
  <2>2. \A i \in indexes : ~ (i <= 0)
    BY <1>1
  <2>3. RemovedUpTo(t, t, g, 0, indexes)
    BY <2>2 DEF RemovedUpTo, Reached
  <2>4. Extends(t, t)
    BY Halving DEF Extends, Sound, Shape
  <2>5. RemovedSoFar(t, t, thrown[0], g, 0, indexes)
    BY <2>1, <2>2, <2>3, <2>4 DEF RemovedSoFar
  <2> QED
    BY <2>1, <2>5
<1>4. ASSUME NEW r \in 0..(last - 1), r \in S PROVE r + 1 \in S
  <2>1. r + 1 \in 1..last /\ (r + 1) - 1 = r /\ r \in Nat /\ r + 1 \in 0..last
    BY <1>1
  <2>2. RemoveRound(f[r], thrown[r], f[r + 1], thrown[r + 1], g, r + 1, indexes)
    BY <1>1, <1>2, <2>1 DEF RemoveLoop
  <2>3. RemovedSoFar(t, f[r + 1], thrown[r + 1], g, r + 1, indexes)
    BY <1>1, <1>4, <2>1, <2>2, RemovedRound
  <2> QED
    BY <2>1, <2>3
<1>5. \A r \in 0..last : r \in S
  <2> HIDE DEF S
  <2> QED
    BY <1>3, <1>4, SetInduction
<1>6. RemovedSoFar(t, u, thrown[last], g, last, indexes)
  BY <1>2, <1>5
<1> QED
  BY <1>1, <1>6

-----------------------------------------------------------------------------
(* The inductive invariant.                                                *)

\* A row of BannedUser names a leaf that was the user's and is zero.
RowOfLeaf(t, b) ==
  \E i \in 0..(NumLeaves(t) - 1) :
    /\ b.leafIndex = i /\ IdOf(Leaf(t, i).member) = b.idCommitment
    /\ Leaf(t, i).hash = Zero
RowsTyped == banned \subseteq [idCommitment : Ids, leafIndex : 0..(Capacity - 1)]

UserInv ==
  /\ Sound(tree)
  /\ \A b \in banned : RowOfLeaf(tree, b)
  /\ RowsTyped
  /\ updates \in 0..MaxUpdates

\* A row that names its leaf still does after a step that extends the tree.
LEMMA RowsKept ==
  ASSUME NEW t, Sound(t), NEW u, Sound(u), Extends(t, u), NEW b, RowOfLeaf(t, b)
  PROVE  RowOfLeaf(u, b)
<1>1. PICK i \in 0..(NumLeaves(t) - 1) :
        /\ b.leafIndex = i /\ IdOf(Leaf(t, i).member) = b.idCommitment
        /\ Leaf(t, i).hash = Zero
  BY DEF RowOfLeaf
<1>2. NumLeaves(t) \in Nat /\ NumLeaves(u) \in Nat
  BY Halving DEF Sound, Shape
<1>3. i \in 0..(NumLeaves(u) - 1)
  BY <1>2 DEF Extends
<1>4. Leaf(u, i).member = Leaf(t, i).member /\ Leaf(u, i).hash = Zero
  BY <1>1 DEF Extends
<1> QED
  BY <1>1, <1>3, <1>4 DEF RowOfLeaf

\* The empty collection.
LEMMA InitUserInv == Init => UserInv
<1> SUFFICES ASSUME Init PROVE UserInv
  OBVIOUS
<1>1. tree = EmptyTree /\ banned = {} /\ updates = 0
  BY DEF Init
<1>2. PICK t : t = tree
  OBVIOUS
<1>3. Shape(t, 0) /\ Right(t, {})
  BY <1>1, <1>2, EmptyTreeFacts
<1>4. NumLeaves(t) = 0
  BY <1>3, LeafCount
<1>5. Owned(t) /\ OneLeafEach(t)
  BY <1>4 DEF Owned, OneLeafEach
<1>6. RightButFor(t)
  BY <1>3 DEF RightButFor, Right
<1>7. Sound(t)
  BY <1>3, <1>4, <1>5, <1>6 DEF Sound
<1> QED
  BY <1>1, <1>2, <1>7, GroupsAssumption DEF UserInv, RowsTyped

\* banUser and updateUser: the row names the leaf that is found by the hash, and
\* that leaf becomes zero.
LEMMA BanUserStep ==
  ASSUME UserInv, NEW id \in Ids, BanUser(id)
  PROVE  UserInv'
<1>1. PICK t, u : t = tree /\ u = tree'
  OBVIOUS
<1>2. Sound(t) /\ LeavesWithHash(t, id) # {}
  BY <1>1 DEF UserInv, BanUser
<1>3. PICK k \in 0..(NumLeaves(t) - 1) :
        FindLeafByHash(t, id) = <<0, k>> /\ Leaf(t, k).hash = id
  BY <1>2, FoundByHash
<1>4. u = UpdateLeaf(t, <<0, k>>, Zero)
  BY <1>1, <1>3 DEF BanUser
<1>5. Sound(u) /\ Extends(t, u) /\ NumLeaves(u) = NumLeaves(t) /\ Changed(t, u, NumLeaves(t), k, Zero)
  BY <1>2, <1>4, ZeroOne
<1>6. PICK row : row = [idCommitment |-> id, leafIndex |-> k]
  OBVIOUS
<1>7. banned' = banned \cup {row}
  BY <1>1, <1>3, <1>6 DEF BanUser
<1>8. RowOfLeaf(u, row)
  <2>1. id # Zero
    BY RegisteredFacts DEF Ids, Members
  <2>2. IdOf(Leaf(t, k).member) = id
    BY <1>2, <1>3, <2>1 DEF Sound, Owned
  <2> QED
    BY <1>5, <1>6, <2>2 DEF RowOfLeaf, Changed, Leaf
<1>9. RowsTyped'
  <2>1. k \in 0..(Capacity - 1)
    BY <1>2, Halving DEF Sound, Shape
  <2> QED
    BY <1>6, <1>7, <2>1 DEF UserInv, RowsTyped
<1>10. ASSUME NEW b \in banned' PROVE RowOfLeaf(u, b)
  <2>1. b = row \/ b \in banned
    BY <1>7
  <2> QED
    BY <1>1, <1>2, <1>5, <1>8, <2>1, RowsKept DEF UserInv
<1>11. updates' \in 0..MaxUpdates
  BY GroupsAssumption DEF UserInv, BanUser
<1> QED
  BY <1>1, <1>5, <1>9, <1>10, <1>11 DEF UserInv

(* appendUsers keeps UserInv, whichever members it stops at.                *)
LEMMA AppendUsersStep ==
  ASSUME UserInv, NEW g \in Groups, NEW from \in DOMAIN Registered[g],
         NEW to \in DOMAIN Registered[g], from <= to, NEW gone, AppendUsers(g, from, to, gone)
  PROVE  UserInv'
<1>1. PICK t, u : t = tree /\ u = tree'
  OBVIOUS
<1>2. Sound(t) /\ u = Appended(t, g, from, to, gone)
  BY <1>1 DEF UserInv, AppendUsers
<1>3. Sound(u) /\ Extends(t, u)
  BY <1>2, AppendedFacts DEF AppendedSoFar, Grows
<1>4. \A b \in banned : RowOfLeaf(u, b)
  BY <1>1, <1>2, <1>3, RowsKept DEF UserInv
<1> QED
  BY <1>1, <1>3, <1>4 DEF UserInv, AppendUsers, RowsTyped

(* removeUsersByIndexes keeps UserInv.                                      *)
LEMMA RemoveUsersStep ==
  ASSUME UserInv, NEW g \in Groups, NEW indexes \in SUBSET (DOMAIN Registered[g]),
         RemoveUsersByIndexes(g, indexes)
  PROVE  UserInv'
<1>1. PICK t, u : t = tree /\ u = tree'
  OBVIOUS
<1>2. Sound(t) /\ u = Removed(t, g, indexes)
  BY <1>1 DEF UserInv, RemoveUsersByIndexes
<1>3. Sound(u) /\ Extends(t, u)
  BY <1>2, RemovedFacts DEF RemovedSoFar
<1>4. \A b \in banned : RowOfLeaf(u, b)
  BY <1>1, <1>2, <1>3, RowsKept DEF UserInv
<1>5. updates' \in 0..MaxUpdates
  <2>1. IsFiniteSet(DOMAIN Registered[g])
    BY RegisteredFacts, FS_Interval
  <2>2. Cardinality(indexes) \in Nat
    BY <2>1, FS_Subset, FS_CardinalityType
  <2> QED
    BY <2>2, GroupsAssumption DEF UserInv, RemoveUsersByIndexes
<1> QED
  BY <1>1, <1>3, <1>4, <1>5 DEF UserInv, RemoveUsersByIndexes, RowsTyped

\* Every operation of user.service.ts, run from its start to its end, keeps the
\* tree sound and the rows of BannedUser true.
THEOREM UserInductive == Spec => []UserInv
<1>1. ASSUME UserInv, [Next]_vars PROVE UserInv'
  <2>1. ASSUME NEW g \in Groups, NEW from \in DOMAIN Registered[g], NEW to \in DOMAIN Registered[g],
               NEW gone \in SUBSET (from..to), from <= to, AppendUsers(g, from, to, gone)
        PROVE  UserInv'
    BY <1>1, <2>1, AppendUsersStep
  <2>2. ASSUME NEW g \in Groups, NEW indexes \in SUBSET (DOMAIN Registered[g]),
               RemoveUsersByIndexes(g, indexes)
        PROVE  UserInv'
    BY <1>1, <2>2, RemoveUsersStep
  <2>3. ASSUME NEW id \in Ids, BanUser(id) PROVE UserInv'
    BY <1>1, <2>3, BanUserStep
  <2>4. CASE UNCHANGED vars
    BY <1>1, <2>4 DEF vars, UserInv, RowsTyped
  <2> QED
    BY <1>1, <2>1, <2>2, <2>3, <2>4 DEF Next
<1> QED
  BY InitUserInv, <1>1, PTL DEF Spec

-----------------------------------------------------------------------------
(* The properties of UserService.                                          *)

\* Levels and indexes are those of a tree of config.merkleTreeLevels levels, a
\* leaf holds its member's identity or zero, and rows are identities and leaves.
LEMMA TypesHold == UserInv => TypeOK
<1> SUFFICES ASSUME UserInv PROVE TypeOK
  OBVIOUS
<1>1. PICK n : n = NumLeaves(tree) /\ Shape(tree, n) /\ Owned(tree)
  BY DEF UserInv, Sound
<1>2. n \in 0..Capacity /\ n \in Nat /\ Capacity \in Nat
  BY <1>1, Halving DEF Shape
<1>3. ASSUME NEW l \in 0..Levels, NEW i \in 0..(n - 1)
      PROVE  <<l, Above(i, l)>> \in (0..Levels) \X (0..(Capacity - 1))
  <2>1. i \in Nat /\ Pow2[l] \in Nat \ {0} /\ i < Capacity
    BY <1>2, Pow2Type
  <2>2. \A m \in Nat \ {0} : i \div m \in Nat /\ i \div m <= i
    BY <2>1
  <2> QED
    BY <1>2, <2>1, <2>2 DEF Above
<1>4. DOMAIN tree \subseteq (0..Levels) \X (0..(Capacity - 1))
  BY <1>1, <1>3 DEF Shape, Positions
<1>5. ASSUME NEW p \in LeafPositions(tree)
      PROVE  tree[p].member \in Members /\ tree[p].hash \in {IdOf(tree[p].member), Zero}
  BY <1>1, LeafCount DEF Owned, Leaf
<1> QED
  BY <1>4, <1>5 DEF TypeOK, UserInv, RowsTyped

(* TypeOK of user.service.ts: a tree of documents and rows of banned users. *)
THEOREM TypesHoldAlways == Spec => []TypeOK
BY UserInductive, TypesHold, PTL

\* The documents form one binary tree whose only root is the top.
LEMMA TreeIsOne == UserInv => OneTree
<1> SUFFICES ASSUME UserInv PROVE OneTree
  OBVIOUS
<1>1. PICK n : n = NumLeaves(tree) /\ Shape(tree, n)
  BY DEF UserInv, Sound
<1>2. LeafPositions(tree) = {<<0, i>> : i \in 0..(n - 1)}
  BY <1>1, LeafCount
<1>3. DOMAIN tree = UNION {{<<l, i \div Pow2[l]>> : l \in 0..Levels} : i \in 0..(n - 1)}
  BY <1>1 DEF Shape, Positions, Above
<1>4. Roots(tree) \subseteq {<<Levels, 0>>}
  <2>1. ASSUME NEW p \in Roots(tree) PROVE p = <<Levels, 0>>
    <3>1. p \in DOMAIN tree /\ ~ tree[p].parent /\ DOMAIN tree = Positions(n)
          /\ n \in Nat /\ n <= Capacity
      BY <1>1, Halving DEF Roots, Shape
    <3>2. PICK l \in 0..Levels, j \in Nat : p = <<l, j>>
      BY <3>1, PositionsFacts
    <3>3. CASE l = Levels
      BY <3>1, <3>2, <3>3, PositionsFacts
    <3>4. CASE l # Levels
      BY <1>1, <3>1, <3>2, <3>4, LevelsAssumption DEF Shape
    <3> QED
      BY <3>3, <3>4
  <2> QED
    BY <2>1
<1>5. n <= Capacity
  BY <1>1, Halving DEF Shape
<1> QED
  BY <1>1, <1>2, <1>3, <1>4, <1>5 DEF OneTree

(* The documents form one tree whatever is appended and removed: no gap, no *)
(* orphan, and every inner document above some leaf.                        *)
THEOREM OneTreeHolds == Spec => []OneTree
BY UserInductive, TreeIsOne, PTL

\* With at most one zero leaf, the stored root is the one the clients compute:
\* the stale sibling fields are all beside that leaf's own path.
LEMMA RootIsRight == UserInv => RootRightUntilSecondRemoval
<1> SUFFICES ASSUME UserInv, Cardinality(LeavesWithHash(tree, Zero)) <= 1
             PROVE  \A r \in Roots(tree) : tree[r].hash = ReferenceRoot(tree)
  BY DEF RootRightUntilSecondRemoval
<1>1. PICK n : n = NumLeaves(tree) /\ Shape(tree, n) /\ RightButFor(tree)
  BY DEF UserInv, Sound
<1>2. n \in Nat /\ LeafPositions(tree) = {<<0, i>> : i \in 0..(n - 1)}
  <2>1. n \in Nat
    BY <1>1, Halving DEF Shape
  <2>2. LeafPositions(tree) = {<<0, i>> : i \in 0..(n - 1)}
    BY <1>1, LeafCount
  <2> QED
    BY <2>1, <2>2
<1> DEFINE Z == LeavesWithHash(tree, Zero)
<1>3. IsFiniteSet(Z)
  BY <1>1, LeafCount, FS_Subset DEF LeavesWithHash
<1>4. \E m \in Nat : OnlyZero(tree, m)
  <2>1. ASSUME NEW i \in 0..(n - 1), Leaf(tree, i).hash = Zero PROVE <<0, i>> \in Z
    BY <1>2, <2>1 DEF LeavesWithHash, Leaf
  <2>2. CASE Z = {}
    BY <1>1, <2>1, <2>2 DEF OnlyZero
  <2>3. CASE Z # {}
    <3>1. PICK p \in Z : Z = {p}
      <4>1. Cardinality(Z) = 1
        BY <1>3, <2>3, FS_EmptySet, FS_CardinalityType
      <4> QED
        BY <1>3, <4>1, FS_Singleton
    <3>2. PICK m \in 0..(n - 1) : p = <<0, m>>
      BY <1>2 DEF LeavesWithHash
    <3> QED
      BY <1>1, <2>1, <3>1, <3>2 DEF OnlyZero
  <2> QED
    BY <2>2, <2>3
<1>5. PICK m : Right(tree, {m})
  BY <1>1, <1>4 DEF RightButFor
<1> QED
  BY <1>1, <1>5, RootOfRightTree

(* The stored root is the root of the leaves until a second leaf is removed *)
(* updateUser reads sibling hashes that it never refreshes).                *)
THEOREM RootRightHolds == Spec => []RootRightUntilSecondRemoval
BY UserInductive, RootIsRight, PTL

\* A banned user's leaf stays zero and the user gets no other, if no identity is
\* registered twice: without that, a ban zeroes the first of two leaves.
LEMMA RowsNameLeaves == DistinctIds /\ UserInv => BannedRowNamesItsLeaf
<1> SUFFICES ASSUME DistinctIds, UserInv, NEW b \in banned
             PROVE  /\ \E p \in LeafPositions(tree) :
                         /\ p[2] = b.leafIndex /\ IdOf(tree[p].member) = b.idCommitment
                         /\ tree[p].hash = Zero
                    /\ LeavesWithHash(tree, b.idCommitment) = {}
  BY DEF BannedRowNamesItsLeaf
<1>1. PICK n : /\ n = NumLeaves(tree) /\ Owned(tree) /\ OneLeafEach(tree)
               /\ LeafPositions(tree) = {<<0, i>> : i \in 0..(n - 1)}
  BY LeafCount DEF UserInv, Sound
<1>2. PICK i \in 0..(n - 1) : /\ b.leafIndex = i /\ IdOf(Leaf(tree, i).member) = b.idCommitment
                              /\ Leaf(tree, i).hash = Zero
  BY <1>1 DEF UserInv, RowOfLeaf
<1>3. <<0, i>> \in LeafPositions(tree)
  BY <1>1
<1>4. ASSUME NEW p \in LeavesWithHash(tree, b.idCommitment) PROVE FALSE
  <2>1. PICK k \in 0..(n - 1) : p = <<0, k>> /\ Leaf(tree, k).hash = b.idCommitment
    BY <1>1, <1>4 DEF LeavesWithHash, Leaf
  <2>2. b.idCommitment # Zero
    BY <1>1, <1>2, RegisteredFacts DEF Owned, Members
  <2>3. IdOf(Leaf(tree, k).member) = IdOf(Leaf(tree, i).member)
    BY <1>1, <1>2, <2>1, <2>2 DEF Owned
  <2>4. Leaf(tree, k).member = Leaf(tree, i).member
    BY <1>1, <2>3 DEF Owned, DistinctIds
  <2> QED
    BY <1>1, <1>2, <2>1, <2>2, <2>4 DEF OneLeafEach
<1> QED
  BY <1>2, <1>3, <1>4 DEF Leaf

(* With one leaf per identity commitment, a row of a banned user names the  *)
(* leaf that was its own, and the banned user has no other.                 *)
THEOREM BannedStayOut ==
  ASSUME DistinctIds
  PROVE  Spec => []BannedRowNamesItsLeaf
<1>1. UserInv => BannedRowNamesItsLeaf
  BY RowsNameLeaves
<1> QED
  BY <1>1, UserInductive, PTL

-----------------------------------------------------------------------------
(* UserService implements LeafTable.                                       *)

\* LeafView of any tree: what is seen of it at level 0.
Entry(m, v) == [member |-> m, value |-> v]
View(t)     == [i \in 1..NumLeaves(t) |-> Entry(t[<<0, i - 1>>].member, t[<<0, i - 1>>].hash)]
Entries     == [member : Members, value : Ids \cup {Zero}]

(* The view of the tree as the table of LeafTable, leaf by leaf.            *)
LEMMA ViewFacts ==
  ASSUME NEW t, Sound(t)
  PROVE  /\ View(t) \in Seq(Entries) /\ Len(View(t)) = NumLeaves(t) /\ NumLeaves(t) \in Nat
         /\ DOMAIN View(t) = 1..NumLeaves(t)
         /\ \A i \in 1..NumLeaves(t) :
              View(t)[i] = Entry(Leaf(t, i - 1).member, Leaf(t, i - 1).hash)
<1>1. PICK n \in Nat : n = NumLeaves(t)
  BY Halving DEF Sound, Shape
<1>2. ASSUME NEW i \in 1..n PROVE Entry(Leaf(t, i - 1).member, Leaf(t, i - 1).hash) \in Entries
  <2>1. i - 1 \in 0..(n - 1)
    OBVIOUS
  <2> QED
    BY <1>1, <2>1 DEF Sound, Owned, Entries, Entry, Ids
<1>3. View(t) = [i \in 1..n |-> Entry(Leaf(t, i - 1).member, Leaf(t, i - 1).hash)]
  BY <1>1 DEF View, Leaf
<1>4. View(t) \in [1..n -> Entries]
  BY <1>2, <1>3
<1>5. View(t) \in Seq(Entries) /\ Len(View(t)) = n
  BY <1>4
<1> QED
  BY <1>1, <1>3, <1>5

\* The table's members are the tree's.
LEMMA ViewMembers ==
  ASSUME NEW t, Sound(t), NEW m
  PROVE  m \in Table!LeafMembers(View(t)) <=> LeavesOfMember(t, m) # {}
<1>1. PICK n \in Nat : n = NumLeaves(t)
  BY Halving DEF Sound, Shape
<1>2. LeavesOfMember(t, m) # {} <=> \E i \in 0..(n - 1) : Leaf(t, i).member = m
  BY <1>1, LeafOfMember
<1>3. /\ DOMAIN View(t) = 1..n
      /\ \A i \in 1..n : View(t)[i].member = Leaf(t, i - 1).member
  <2>1. /\ DOMAIN View(t) = 1..n
        /\ \A i \in 1..n : View(t)[i] = Entry(Leaf(t, i - 1).member, Leaf(t, i - 1).hash)
    BY <1>1, ViewFacts
  <2>2. \A x, y : Entry(x, y).member = x
    BY DEF Entry
  <2> QED
    BY <2>1, <2>2
<1>4. m \in Table!LeafMembers(View(t)) <=> \E i \in 1..n : Leaf(t, i - 1).member = m
  BY <1>3 DEF Table!LeafMembers
<1>5. (\E i \in 1..n : Leaf(t, i - 1).member = m) <=> (\E i \in 0..(n - 1) : Leaf(t, i).member = m)
  <2>1. ASSUME NEW i \in 1..n PROVE i - 1 \in 0..(n - 1)
    OBVIOUS
  <2>2. ASSUME NEW i \in 0..(n - 1) PROVE i + 1 \in 1..n /\ (i + 1) - 1 = i
    OBVIOUS
  <2> QED
    BY <2>1, <2>2
<1> QED
  BY <1>2, <1>4, <1>5

\* The largest number of a set.
LEMMA LargestIs ==
  ASSUME NEW S \in SUBSET Nat, NEW k \in S, \A y \in S : y <= k
  PROVE  Table!Max(S) = k
<1>1. \A y \in S : k >= y
  OBVIOUS
<1>2. \A x \in S : (\A y \in S : x >= y) => x = k
  OBVIOUS
<1> QED
  BY <1>1, <1>2 DEF Table!Max

\* The smallest one.
LEMMA SmallestIs ==
  ASSUME NEW S \in SUBSET Nat, NEW k \in S, \A y \in S : k <= y
  PROVE  Table!Min(S) = k
<1>1. \A x \in S : (\A y \in S : x =< y) => x = k
  OBVIOUS
<1> QED
  BY <1>1 DEF Table!Min

\* What Enrol of LeafTable appends.
NewEntries(g, from, to, gone) ==
  [i \in 1..(to - from + 1) |-> Entry(<<g, from + i - 1>>, ValueOf(g, from + i - 1, gone))]

\* The leaves that appendUsers adds are as many of the new entries as fit.
LEMMA AppendedView ==
  ASSUME NEW t, Sound(t), NEW u, Sound(u), NEW g \in Groups, NEW from \in DOMAIN Registered[g],
         NEW to \in DOMAIN Registered[g], from <= to, NEW gone,
         NEW k \in 0..(to - from + 1), Enrolled(t, u, g, from, k, gone),
         k # to - from + 1 => Blocked(t, g, from + k, NumLeaves(t) + k)
  PROVE  View(u) = Table!WithAppended(View(t), NewEntries(g, from, to, gone))
<1>1. PICK n, r, L, new :
        /\ n = NumLeaves(t) /\ n \in Nat /\ r = to - from + 1 /\ r \in Nat /\ from \in Nat
        /\ L = View(t) /\ new = NewEntries(g, from, to, gone)
  BY Halving, RegisteredFacts DEF Sound, Shape
<1>2. L \in Seq(Entries) /\ Len(L) = n
  BY <1>1, ViewFacts
<1>3. /\ new \in Seq(Entries) /\ Len(new) = r
      /\ \A i \in 1..r : new[i] = Entry(<<g, from + i - 1>>, ValueOf(g, from + i - 1, gone))
  <2>1. ASSUME NEW i \in 1..r
        PROVE  Entry(<<g, from + i - 1>>, ValueOf(g, from + i - 1, gone)) \in Entries
    <3>1. PICK j : j = from + i - 1
      OBVIOUS
    <3>2. j \in DOMAIN Registered[g]
      BY <1>1, <3>1, RegisteredFacts
    <3>3. <<g, j>> \in Members /\ IdOf(<<g, j>>) = Registered[g][j]
      BY <3>2, RegisteredFacts
    <3>4. ValueOf(g, j, gone) \in Ids \cup {Zero}
      BY <3>3 DEF ValueOf, Ids
    <3>5. Entry(<<g, j>>, ValueOf(g, j, gone)) \in Entries
      BY <3>3, <3>4 DEF Entry, Entries
    <3> QED
      BY <3>1, <3>5
  <2>2. new = [i \in 1..r |-> Entry(<<g, from + i - 1>>, ValueOf(g, from + i - 1, gone))]
    BY <1>1 DEF NewEntries
  <2>3. new \in [1..r -> Entries]
    BY <2>1, <2>2
  <2>4. new \in Seq(Entries) /\ Len(new) = r
    BY <1>1, <2>3
  <2> QED
    BY <2>2, <2>4
<1>4. \A i \in 1..r : new[i].member = <<g, from + i - 1>>
  <2>1. \A x, y : Entry(x, y).member = x
    BY DEF Entry
  <2> QED
    BY <1>3, <2>1
<1>5. ASSUME NEW i \in 1..r
      PROVE  new[i].member \notin Table!LeafMembers(L) <=> LeavesOfMember(t, <<g, from + i - 1>>) = {}
  BY <1>1, <1>4, ViewMembers
<1>6. k \in Nat /\ NumLeaves(u) = n + k /\ n + k <= Capacity /\ Capacity \in Nat
  BY <1>1, Halving DEF Sound, Shape, Enrolled
<1>7. Table!Fits(L, new) = k
  <2> DEFINE F == {y \in 0..Len(new) :
                     \A i \in 1..y : /\ new[i].member \notin Table!LeafMembers(L)
                                     /\ Len(L) + i <= Capacity}
  <2>1. k \in F
    <3>1. ASSUME NEW i \in 1..k
          PROVE  new[i].member \notin Table!LeafMembers(L) /\ Len(L) + i <= Capacity
      <4>1. i \in 1..r /\ i - 1 \in 0..(k - 1) /\ from + (i - 1) = from + i - 1
        BY <1>1
      <4>2. LeavesOfMember(t, <<g, from + i - 1>>) = {}
        BY <4>1 DEF Enrolled
      <4> QED
        BY <1>1, <1>2, <1>5, <1>6, <4>1, <4>2
    <3>2. k \in 0..Len(new)
      BY <1>1, <1>3
    <3> QED
      BY <3>1, <3>2
  <2>2. ASSUME NEW y \in F PROVE y <= k
    <3>1. SUFFICES ASSUME ~ (y <= k) PROVE FALSE
      OBVIOUS
    <3>2. y \in Nat /\ k + 1 \in 1..y /\ k + 1 \in 1..r /\ k # r /\ from + (k + 1) - 1 = from + k
      BY <1>1, <1>3, <1>6, <3>1
    <3>3. LeavesOfMember(t, <<g, from + k>>) = {} /\ n + (k + 1) <= Capacity
      BY <1>2, <1>5, <3>2
    <3>4. Blocked(t, g, from + k, n + k)
      BY <1>1, <3>2
    <3>5. ~ (n + k >= Capacity)
      BY <1>1, <1>6, <3>3
    <3> QED
      BY <3>3, <3>4, <3>5 DEF Blocked
  <2>3. F \in SUBSET Nat
    BY <1>1, <1>3
  <2>4. Table!Fits(L, new) = Table!Max(F)
    BY DEF Table!Fits
  <2> HIDE DEF F
  <2> QED
    BY <2>1, <2>2, <2>3, <2>4, LargestIs
<1>8. PICK A : A = SubSeq(new, 1, k)
  OBVIOUS
<1>9. A \in Seq(Entries) /\ Len(A) = k /\ \A i \in 1..k : A[i] = new[i]
  <2>1. \A i \in 1..k : new[i] \in Entries
    BY <1>1, <1>3
  <2> QED
    BY <1>6, <1>8, <2>1, SubSeqProperties
<1>10. /\ L \o A \in Seq(Entries) /\ Len(L \o A) = n + k
       /\ \A i \in 1..(n + k) : (L \o A)[i] = IF i <= n THEN L[i] ELSE A[i - n]
  BY <1>2, <1>9, ConcatProperties
<1>11. /\ View(u) \in Seq(Entries) /\ Len(View(u)) = n + k
       /\ \A i \in 1..(n + k) : View(u)[i] = Entry(Leaf(u, i - 1).member, Leaf(u, i - 1).hash)
  BY <1>6, ViewFacts
<1>12. ASSUME NEW i \in 1..(n + k) PROVE View(u)[i] = (L \o A)[i]
  <2>1. CASE i <= n
    <3>1. i \in 1..n /\ i - 1 \in 0..(n - 1)
      BY <1>1, <1>6, <2>1
    <3>2. L[i] = Entry(Leaf(t, i - 1).member, Leaf(t, i - 1).hash)
      BY <1>1, <3>1, ViewFacts
    <3>3. Leaf(u, i - 1).member = Leaf(t, i - 1).member /\ Leaf(u, i - 1).hash = Leaf(t, i - 1).hash
      BY <1>1, <3>1 DEF Enrolled
    <3> QED
      BY <1>10, <1>11, <2>1, <3>2, <3>3
  <2>2. CASE ~ (i <= n)
    <3>1. PICK j \in 1..k : j = i - n /\ j - 1 \in 0..(k - 1) /\ i - 1 = n + (j - 1)
                           /\ from + j - 1 = from + (j - 1) /\ j \in 1..r
      BY <1>1, <1>6, <2>2
    <3>2. (L \o A)[i] = new[j]
      BY <1>9, <1>10, <2>2, <3>1
    <3>3. /\ Leaf(u, i - 1).member = <<g, from + j - 1>>
          /\ Leaf(u, i - 1).hash = ValueOf(g, from + j - 1, gone)
      BY <1>1, <3>1 DEF Enrolled
    <3> QED
      BY <1>3, <1>11, <3>1, <3>2, <3>3
  <2> QED
    BY <2>1, <2>2
<1>13. View(u) = L \o A
  <2> HIDE DEF View
  <2> QED
    BY <1>10, <1>11, <1>12, SeqEqual
<1> QED
  BY <1>1, <1>7, <1>8, <1>13 DEF Table!WithAppended

\* The first entry with a value is the leaf that the code finds by this hash.
LEMMA FirstInView ==
  ASSUME NEW t, Sound(t), NEW h, NEW k \in 0..(NumLeaves(t) - 1), Leaf(t, k).hash = h,
         \A i \in 0..(NumLeaves(t) - 1) : Leaf(t, i).hash = h => k <= i
  PROVE  Table!FirstWith(View(t), h) = k + 1
<1>1. PICK n \in Nat : n = NumLeaves(t)
  BY Halving DEF Sound, Shape
<1> DEFINE S == {p \in DOMAIN View(t) : View(t)[p].value = h}
<1>2. /\ DOMAIN View(t) = 1..n
      /\ \A i \in 1..n : View(t)[i].value = Leaf(t, i - 1).hash
  <2>1. /\ DOMAIN View(t) = 1..n
        /\ \A i \in 1..n : View(t)[i] = Entry(Leaf(t, i - 1).member, Leaf(t, i - 1).hash)
    BY <1>1, ViewFacts
  <2>2. \A x, y : Entry(x, y).value = y
    BY DEF Entry
  <2> QED
    BY <2>1, <2>2
<1>3. k + 1 \in 1..n /\ (k + 1) - 1 = k
  BY <1>1
<1>4. k + 1 \in S
  BY <1>2, <1>3
<1>5. ASSUME NEW p \in S PROVE k + 1 <= p
  <2>1. p \in 1..n /\ p - 1 \in 0..(n - 1) /\ Leaf(t, p - 1).hash = h
    BY <1>2
  <2> QED
    BY <1>1, <2>1
<1>6. S \in SUBSET Nat
  BY <1>2
<1>7. Table!FirstWith(View(t), h) = Table!Min(S)
  BY DEF Table!FirstWith
<1> HIDE DEF S
<1> QED
  BY <1>4, <1>5, <1>6, <1>7, SmallestIs

\* Two tables are the same if they are equal entry by entry.
LEMMA SameView ==
  ASSUME NEW t, Sound(t), NEW n, n = NumLeaves(t), NEW L, DOMAIN L = 1..n,
         L = [i \in DOMAIN L |-> L[i]],
         \A i \in 1..n : L[i] = Entry(Leaf(t, i - 1).member, Leaf(t, i - 1).hash)
  PROVE  View(t) = L
<1>1. View(t) = [i \in 1..n |-> Entry(Leaf(t, i - 1).member, Leaf(t, i - 1).hash)]
  BY DEF View, Leaf
<1> QED
  BY <1>1

\* updateUser blanks the first entry with the banned identity.
LEMMA ZeroedView ==
  ASSUME NEW t, Sound(t), NEW h, LeavesWithHash(t, h) # {}, NEW u,
         u = UpdateLeaf(t, FindLeafByHash(t, h), Zero)
  PROVE  View(u) = Table!WithBlank(View(t), h) /\ Table!HasValue(View(t), h)
<1>1. PICK n \in Nat : n = NumLeaves(t)
  BY Halving DEF Sound, Shape
<1>2. PICK k \in 0..(n - 1) :
        /\ FindLeafByHash(t, h) = <<0, k>> /\ Leaf(t, k).hash = h
        /\ \A i \in 0..(n - 1) : Leaf(t, i).hash = h => k <= i
  BY <1>1, FoundByHash
<1>3. /\ Sound(u) /\ Extends(t, u) /\ NumLeaves(u) = n
      /\ Changed(t, u, n, k, Zero)
  BY <1>1, <1>2, ZeroOne
<1>4. PICK L : L = View(t)
  OBVIOUS
<1>5. /\ DOMAIN L = 1..n
      /\ \A i \in 1..n : L[i] = Entry(Leaf(t, i - 1).member, Leaf(t, i - 1).hash)
  BY <1>1, <1>4, ViewFacts
<1>6. Table!FirstWith(L, h) = k + 1 /\ k + 1 \in 1..n
  BY <1>1, <1>2, <1>4, FirstInView
<1>7. PICK M : M = [L EXCEPT ![k + 1].value = Zero]
  OBVIOUS
<1>8. DOMAIN M = 1..n /\ M = [i \in DOMAIN M |-> M[i]]
  BY <1>5, <1>7
<1>9. ASSUME NEW i \in 1..n PROVE M[i] = Entry(Leaf(u, i - 1).member, Leaf(u, i - 1).hash)
  <2>1. i - 1 \in 0..(n - 1)
    OBVIOUS
  <2>2. Leaf(u, i - 1).member = Leaf(t, i - 1).member
    BY <1>3, <2>1 DEF Changed, Leaf
  <2>3. CASE i = k + 1
    <3>1. M[i] = [L[i] EXCEPT !.value = Zero]
      BY <1>5, <1>7, <2>3
    <3>2. L[i] = [member |-> Leaf(t, i - 1).member, value |-> Leaf(t, i - 1).hash]
      BY <1>5 DEF Entry
    <3>3. M[i] = [member |-> Leaf(t, i - 1).member, value |-> Zero]
      BY <3>1, <3>2
    <3>4. Leaf(u, i - 1).hash = Zero
      BY <1>3, <2>3 DEF Changed, Leaf
    <3> QED
      BY <2>2, <3>3, <3>4 DEF Entry
  <2>4. CASE i # k + 1
    <3>1. M[i] = L[i]
      BY <1>5, <1>7, <2>4
    <3>2. Leaf(u, i - 1).hash = Leaf(t, i - 1).hash
      <4>1. i - 1 # k
        BY <2>4
      <4> QED
        BY <1>3, <2>1, <4>1 DEF Changed, Leaf
    <3> QED
      BY <1>5, <2>2, <3>1, <3>2
  <2> QED
    BY <2>3, <2>4
<1>10. View(u) = M
  BY <1>3, <1>8, <1>9, SameView
<1>11. Table!HasValue(L, h)
  <2>1. L[k + 1].value = h
    <3>1. L[k + 1] = Entry(Leaf(t, k).member, Leaf(t, k).hash)
      <4>1. (k + 1) - 1 = k
        OBVIOUS
      <4> QED
        BY <1>5, <1>6, <4>1
    <3> QED
      BY <1>2, <3>1 DEF Entry
  <2> QED
    BY <1>5, <1>6, <2>1 DEF Table!HasValue
<1> QED
  BY <1>4, <1>6, <1>7, <1>10, <1>11 DEF Table!WithBlank

\* Of a member with a leaf, LeafTable blanks the first entry with the member's
\* value: the member's own, or one that is blank already.
Blanked(t, m) == Table!FirstWith(View(t), View(t)[Table!PositionOf(View(t), m)].value)

(* With distinct identities the leaf the code finds is the member's.        *)
LEMMA BlankedFacts ==
  ASSUME DistinctIds, NEW t, Sound(t), NEW m, NEW q \in 0..(NumLeaves(t) - 1), Leaf(t, q).member = m
  PROVE  /\ Leaf(t, q).hash # Zero => Blanked(t, m) = q + 1
         /\ \E k \in 0..(NumLeaves(t) - 1) :
              Blanked(t, m) = k + 1 /\ (k = q \/ Leaf(t, k).hash = Zero)
<1>1. PICK n \in Nat : n = NumLeaves(t)
  BY Halving DEF Sound, Shape
<1>2. PICK L, h : L = View(t) /\ h = Leaf(t, q).hash
  OBVIOUS
<1>3. /\ DOMAIN L = 1..n
      /\ \A i \in 1..n : L[i].member = Leaf(t, i - 1).member /\ L[i].value = Leaf(t, i - 1).hash
  <2>1. \A i \in 1..n : L[i] = Entry(Leaf(t, i - 1).member, Leaf(t, i - 1).hash)
    BY <1>1, <1>2, ViewFacts
  <2>2. \A x, y : Entry(x, y).member = x /\ Entry(x, y).value = y
    BY DEF Entry
  <2> QED
    BY <1>1, <1>2, <2>1, <2>2, ViewFacts
<1>4. Table!PositionOf(L, m) = q + 1
  <2>1. q + 1 \in 1..n /\ L[q + 1].member = m
    BY <1>1, <1>3
  <2>2. ASSUME NEW p \in 1..n, L[p].member = m PROVE p = q + 1
    <3>1. p - 1 \in 0..(n - 1) /\ Leaf(t, p - 1).member = Leaf(t, q).member
      BY <1>3, <2>2
    <3>2. p - 1 = q
      BY <1>1, <3>1 DEF Sound, OneLeafEach
    <3> QED
      BY <3>2
  <2> QED
    BY <1>3, <2>1, <2>2 DEF Table!PositionOf
<1>5. L[q + 1].value = h
  <2>1. q + 1 \in 1..n /\ (q + 1) - 1 = q
    BY <1>1
  <2> QED
    BY <1>2, <1>3, <2>1
<1>6. Blanked(t, m) = Table!FirstWith(L, h)
  BY <1>2, <1>4, <1>5 DEF Blanked
<1>7. LeavesWithHash(t, h) # {}
  <2>1. <<0, q>> \in LeafPositions(t)
    BY <1>1, LeafCount DEF Sound
  <2> QED
    BY <1>2, <2>1 DEF LeavesWithHash, Leaf
<1>8. PICK k \in 0..(n - 1) :
        Leaf(t, k).hash = h /\ \A i \in 0..(n - 1) : Leaf(t, i).hash = h => k <= i
  BY <1>1, <1>7, FoundByHash
<1>9. Table!FirstWith(L, h) = k + 1
  BY <1>1, <1>2, <1>8, FirstInView
<1>10. h # Zero => k = q
  <2>1. ASSUME h # Zero PROVE Leaf(t, k).member = Leaf(t, q).member
    BY <1>1, <1>2, <1>8, <2>1 DEF Sound, Owned, DistinctIds
  <2> QED
    BY <1>1, <1>8, <2>1 DEF Sound, OneLeafEach
<1> QED
  BY <1>1, <1>2, <1>6, <1>8, <1>9, <1>10

\* removeUsersByIndexes blanks what LeafTable says.
LEMMA RemovedView ==
  ASSUME DistinctIds, NEW t, Sound(t), NEW g \in Groups, NEW r \in Nat,
         NEW indexes \in SUBSET (1..r), NEW u, NEW z, RemovedSoFar(t, u, z, g, r, indexes)
  PROVE  View(u) = Table!WithRemoved(View(t), g, indexes)
<1>1. PICK n \in Nat : n = NumLeaves(t)
  BY Halving DEF Sound, Shape
<1>2. /\ Sound(u) /\ Extends(t, u) /\ NumLeaves(u) = n
      /\ RemovedUpTo(t, u, g, r, indexes)
  BY <1>1 DEF RemovedSoFar
<1>3. PICK L : L = View(t)
  OBVIOUS
<1>4. /\ DOMAIN L = 1..n
      /\ \A i \in 1..n : L[i] = Entry(Leaf(t, i - 1).member, Leaf(t, i - 1).hash)
  BY <1>1, <1>3, ViewFacts
<1>5. Table!Removable(L, g, indexes) = Reached(t, g, indexes)
  BY <1>3, ViewMembers DEF Table!Removable, Reached
<1>6. Reached(t, g, indexes) \subseteq 1..r
  BY DEF Reached
<1> DEFINE doomed == {Blanked(t, <<g, i>>) : i \in Reached(t, g, indexes)}
<1>7. PICK M : M = [p \in DOMAIN L |-> IF p \in doomed THEN Entry(L[p].member, Zero) ELSE L[p]]
  OBVIOUS
<1>8. Table!WithRemoved(L, g, indexes) = M
  BY <1>3, <1>5, <1>7 DEF Table!WithRemoved, Table!Leaf, Entry, Blanked
<1>9. ASSUME NEW i \in Reached(t, g, indexes)
      PROVE  \E q \in 0..(n - 1) : Leaf(t, q).member = <<g, i>>
  <2>1. LeavesOfMember(t, <<g, i>>) # {}
    BY <1>6 DEF Reached
  <2> QED
    BY <1>1, <2>1, LeafOfMember
<1>10. ASSUME NEW p \in 1..n, p \in doomed PROVE Leaf(u, p - 1).hash = Zero
  <2>1. PICK i \in Reached(t, g, indexes) : p = Blanked(t, <<g, i>>)
    BY <1>10
  <2>2. PICK q \in 0..(n - 1) : Leaf(t, q).member = <<g, i>>
    BY <1>9
  <2>3. PICK k \in 0..(n - 1) : p = k + 1 /\ (k = q \/ Leaf(t, k).hash = Zero)
    BY <1>1, <2>1, <2>2, BlankedFacts
  <2>4. p - 1 = k
    BY <2>3
  <2>5. CASE k = q
    <3>1. i <= r
      BY <1>6
    <3> QED
      BY <1>1, <1>2, <2>2, <2>4, <2>5, <3>1 DEF RemovedUpTo
  <2>6. CASE Leaf(t, k).hash = Zero
    BY <1>1, <1>2, <2>4, <2>6 DEF Extends
  <2> QED
    BY <2>3, <2>5, <2>6
<1>11. ASSUME NEW p \in 1..n, p \notin doomed PROVE Leaf(u, p - 1).hash = Leaf(t, p - 1).hash
  <2>1. PICK q \in 0..(n - 1) : q = p - 1 /\ p = q + 1
    OBVIOUS
  <2>2. CASE \E i \in Reached(t, g, indexes) : Leaf(t, q).member = <<g, i>>
    <3>1. PICK i \in Reached(t, g, indexes) : Leaf(t, q).member = <<g, i>>
      BY <2>2
    <3>2. Blanked(t, <<g, i>>) # q + 1
      BY <1>11, <2>1, <3>1
    <3>3. Leaf(t, q).hash = Zero
      BY <1>1, <3>1, <3>2, BlankedFacts
    <3> QED
      BY <1>1, <1>2, <2>1, <3>3 DEF Extends
  <2>3. CASE ~ \E i \in Reached(t, g, indexes) : Leaf(t, q).member = <<g, i>>
    BY <1>1, <1>2, <2>1, <2>3 DEF RemovedUpTo
  <2> QED
    BY <2>2, <2>3
<1>12. DOMAIN M = 1..n /\ M = [p \in DOMAIN M |-> M[p]]
  BY <1>4, <1>7
<1>13. ASSUME NEW p \in 1..n PROVE M[p] = Entry(Leaf(u, p - 1).member, Leaf(u, p - 1).hash)
  <2>1. Leaf(u, p - 1).member = Leaf(t, p - 1).member
    <3>1. p - 1 \in 0..(n - 1)
      OBVIOUS
    <3> QED
      BY <1>1, <1>2, <3>1 DEF Extends
  <2>2. CASE p \in doomed
    <3>1. M[p] = Entry(L[p].member, Zero)
      BY <1>4, <1>7, <2>2
    <3>2. L[p].member = Leaf(t, p - 1).member
      BY <1>4 DEF Entry
    <3> QED
      BY <1>10, <2>1, <2>2, <3>1, <3>2
  <2>3. CASE p \notin doomed
    <3>1. M[p] = L[p]
      BY <1>4, <1>7, <2>3
    <3> QED
      BY <1>4, <1>11, <2>1, <2>3, <3>1
  <2> QED
    BY <2>2, <2>3
<1>14. View(u) = M
  BY <1>2, <1>12, <1>13, SameView
<1> QED
  BY <1>3, <1>8, <1>14

\* Seen at level 0, the operations of user.service.ts are those of LeafTable, if
\* no identity is registered twice: removeUsersByIndexes finds a leaf by its hash.
THEOREM TableImplemented ==
  ASSUME DistinctIds
  PROVE  Spec => ImplementsLeafTable
<1>1. Init => Table!Init
  <2>1. Init => NumLeaves(tree) = 0
    BY EmptyTreeFacts, LeafCount DEF Init
  <2> QED
    BY <2>1 DEF LeafView, Table!Init
<1>2. ASSUME UserInv, [Next]_vars PROVE [Table!Next]_LeafView
  <2>1. LeafView = View(tree) /\ LeafView' = View(tree')
    BY DEF LeafView, View, Entry
  <2>2. Sound(tree)
    BY <1>2 DEF UserInv
  <2>3. ASSUME NEW g \in Groups, NEW from \in DOMAIN Registered[g], NEW to \in DOMAIN Registered[g],
               NEW gone \in SUBSET (from..to), from <= to, AppendUsers(g, from, to, gone)
        PROVE  Table!Next
    <3>1. PICK t, u : t = tree /\ u = tree' /\ u = Appended(t, g, from, to, gone)
      BY <2>3 DEF AppendUsers
    <3>2. PICK k \in 0..(to - from + 1) :
            /\ Grows(t, u, g, from, k, gone)
            /\ k # to - from + 1 => Blocked(t, g, from + k, NumLeaves(t) + k)
      BY <2>2, <2>3, <3>1, AppendedFacts DEF AppendedSoFar
    <3>3. View(u) = Table!WithAppended(View(t), NewEntries(g, from, to, gone))
      BY <2>2, <2>3, <3>1, <3>2, AppendedView DEF Grows
    <3>4. Table!Enrol(g, from, to, gone)
      BY <2>1, <3>1, <3>3 DEF Table!Enrol, Table!Leaf, NewEntries, Entry, ValueOf
    <3> QED
      BY <2>3, <3>4 DEF Table!Next
  <2>4. ASSUME NEW g \in Groups, NEW indexes \in SUBSET (DOMAIN Registered[g]),
               RemoveUsersByIndexes(g, indexes)
        PROVE  Table!Next
    <3>1. PICK t, u : t = tree /\ u = tree' /\ u = Removed(t, g, indexes)
      BY <2>4 DEF RemoveUsersByIndexes
    <3>2. PICK z : RemovedSoFar(t, u, z, g, Len(Registered[g]), indexes)
      BY <2>2, <3>1, RemovedFacts
    <3>3. Len(Registered[g]) \in Nat /\ indexes \in SUBSET (1..Len(Registered[g]))
      BY RegisteredFacts
    <3>4. View(u) = Table!WithRemoved(View(t), g, indexes)
      BY <2>2, <3>1, <3>2, <3>3, RemovedView
    <3>5. Table!Remove(g, indexes)
      BY <2>1, <3>1, <3>4 DEF Table!Remove
    <3> QED
      BY <3>5 DEF Table!Next
  <2>5. ASSUME NEW id \in Ids, BanUser(id) PROVE Table!Next
    <3>1. PICK t, u : t = tree /\ u = tree' /\ u = UpdateLeaf(t, FindLeafByHash(t, id), Zero)
      BY <2>5 DEF BanUser
    <3>2. View(u) = Table!WithBlank(View(t), id) /\ Table!HasValue(View(t), id)
      BY <2>2, <2>5, <3>1, ZeroedView DEF BanUser
    <3>3. Table!Ban(id)
      BY <2>1, <3>1, <3>2 DEF Table!Ban
    <3>4. PICK g \in Groups : \E i \in DOMAIN Registered[g] : id = Registered[g][i]
      BY DEF Ids, Members, IdOf
    <3> QED
      BY <3>3, <3>4 DEF Table!Next
  <2>6. CASE UNCHANGED vars
    BY <2>1, <2>6 DEF vars
  <2> QED
    BY <1>2, <2>3, <2>4, <2>5, <2>6 DEF Next
<1> QED
  BY <1>1, <1>2, UserInductive, PTL DEF Spec, ImplementsLeafTable, Table!Spec
=============================================================================
