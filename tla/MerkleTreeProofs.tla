-------------------------- MODULE MerkleTreeProofs --------------------------
(***************************************************************************)
(* What the operators of MerkleTree do to a tree of any height: which      *)
(* documents there are after a leaf was appended or changed, and what each *)
(* of them holds.                                                          *)
(***************************************************************************)
EXTENDS MerkleTree, FiniteSetTheorems, WellFoundedInduction, TLAPS

-----------------------------------------------------------------------------
(* Induction over the natural numbers in a form that first-order provers   *)
(* can use: about a set of numbers instead of a predicate.                 *)

\* A set of natural numbers has a least element.
LEMMA LeastNatural ==
  ASSUME NEW T \in SUBSET Nat, T # {}
  PROVE  \E m \in T : \A k \in T : m <= k
<1> DEFINE R == OpToRel(<, Nat)
<1>1. IsWellFoundedOn(R, Nat)
  BY NatLessThanWellFounded, Zenon
<1>2. \A x, y \in Nat : <<x, y>> \in R <=> x < y
  BY DEF OpToRel
<1> HIDE DEF R
<1>3. PICK m \in T : \A k \in T : <<k, m>> \notin R
  BY <1>1, WFMin
<1>4. ASSUME NEW k \in T PROVE m <= k
  <2>1. k \in Nat /\ m \in Nat /\ ~ (k < m)
    BY <1>2, <1>3
  <2> QED
    BY <2>1
<1> QED
  BY <1>4

\* A set with 0 that has the successor of each of its elements below n has
\* every number up to n.
LEMMA SetInduction ==
  ASSUME NEW n \in Nat, NEW S, 0 \in S, \A i \in 0..(n - 1) : i \in S => i + 1 \in S
  PROVE  \A i \in 0..n : i \in S
<1> DEFINE Missing == {i \in 0..n : i \notin S}
<1> SUFFICES ASSUME Missing # {} PROVE FALSE
  OBVIOUS
<1>1. PICK m \in Missing : \A k \in Missing : m <= k
  <2>1. Missing \in SUBSET Nat /\ Missing # {}
    OBVIOUS
  <2> HIDE DEF Missing
  <2> QED
    BY <2>1, LeastNatural
<1>2. m \in 1..n
  BY <1>1
<1>3. m - 1 \in S
  BY <1>1, <1>2
<1> QED
  BY <1>1, <1>2, <1>3

-----------------------------------------------------------------------------
(* Documents.                                                              *)

\* A document has the fields of IMerkleTreeNode, and a tree maps positions to
\* documents.
IsNode(d) == d = [hash |-> d.hash, sibling |-> d.sibling, parent |-> d.parent, member |-> d.member]
IsTree(t) ==
  /\ t = [p \in DOMAIN t |-> t[p]]
  /\ DOMAIN t \subseteq Nat \X Nat
  /\ \A p \in DOMAIN t : IsNode(t[p])

-----------------------------------------------------------------------------
(* Powers of two.                                                          *)

\* 2 ** level doubles from one level to the next.
LEMMA Pow2Def ==
  /\ Pow2[0] = 1
  /\ \A k \in 0..(Levels - 1) : Pow2[k + 1] = 2 * Pow2[k]
<1> DEFINE Upto(f, k) == f = [n \in 0..k |-> IF n = 0 THEN 1 ELSE 2 * f[n - 1]]
           S == {k \in Nat : \E f : Upto(f, k)}
<1>1. 0 \in S
  <2>1. Upto([n \in 0..0 |-> 1], 0)
    OBVIOUS
  <2> QED
    BY <2>1
<1>2. ASSUME NEW k \in 0..(Levels - 1), k \in S PROVE k + 1 \in S
  <2>1. PICK f : Upto(f, k)
    BY <1>2
  <2> DEFINE g == [n \in 0..(k + 1) |-> IF n = k + 1 THEN 2 * f[k] ELSE f[n]]
  <2>2. ASSUME NEW n \in 0..(k + 1) PROVE g[n] = IF n = 0 THEN 1 ELSE 2 * g[n - 1]
    <3>1. CASE n = k + 1
      BY <3>1, LevelsAssumption
    <3>2. CASE n \in 0..k
      BY <3>2, <2>1, LevelsAssumption
    <3> QED
      BY <3>1, <3>2, LevelsAssumption
  <2>3. Upto(g, k + 1)
    BY <2>2
  <2> HIDE DEF g
  <2> QED
    BY <2>3, LevelsAssumption
<1>3. \E f : Upto(f, Levels)
  <2>1. \A k \in 0..Levels : k \in S
    <3> HIDE DEF S
    <3> QED
      BY <1>1, <1>2, SetInduction, LevelsAssumption
  <2>2. Levels \in S
    <3> HIDE DEF S
    <3> QED
      BY <2>1, LevelsAssumption
  <2> HIDE DEF Upto
  <2> QED
    BY <2>2
<1>4. Upto(Pow2, Levels)
  <2>1. Pow2 = CHOOSE f : Upto(f, Levels)
    BY DEF Pow2
  <2> HIDE DEF Upto
  <2> QED
    BY <1>3, <2>1
<1> QED
  BY <1>4, LevelsAssumption

\* 2 ** level is a positive number.
LEMMA Pow2Type == \A k \in 0..Levels : Pow2[k] \in Nat \ {0}
<1> DEFINE S == {k \in 0..Levels : Pow2[k] \in Nat \ {0}}
<1>1. 0 \in S
  BY Pow2Def, LevelsAssumption
<1>2. ASSUME NEW k \in 0..(Levels - 1), k \in S PROVE k + 1 \in S
  BY <1>2, Pow2Def, LevelsAssumption
<1> HIDE DEF S
<1>3. \A k \in 0..Levels : k \in S
  BY <1>1, <1>2, SetInduction, LevelsAssumption
<1> QED
  BY <1>3 DEF S

\* Halving the index at each level, as appendUsers and updateUser do, gives the
\* position above a leaf, and every leaf that fits is below position 0 at the top.
LEMMA Halving ==
  /\ Capacity \in Nat \ {0}
  /\ \A i \in Nat : i \div Pow2[0] = i
  /\ \A i \in Nat, k \in 0..Levels : i \div Pow2[k] \in Nat
  /\ \A i \in Nat, k \in 0..(Levels - 1) : (i \div Pow2[k]) \div 2 = i \div Pow2[k + 1]
  /\ \A i \in 0..(Capacity - 1) : i \div Pow2[Levels] = 0
<1>1. Capacity \in Nat \ {0}
  BY Pow2Type, LevelsAssumption DEF Capacity
<1>2. \A i \in Nat : i \div Pow2[0] = i
  BY Pow2Def
<1>3. \A i \in Nat, k \in 0..Levels : i \div Pow2[k] \in Nat
  BY Pow2Type
<1>4. ASSUME NEW i \in Nat, NEW k \in 0..(Levels - 1)
      PROVE  (i \div Pow2[k]) \div 2 = i \div Pow2[k + 1]
  <2>1. Pow2[k] \in Nat \ {0} /\ Pow2[k + 1] = 2 * Pow2[k]
    BY Pow2Type, Pow2Def, LevelsAssumption
  <2>2. \A m \in Nat \ {0} : (i \div m) \div 2 = i \div (2 * m)
    OBVIOUS
  <2> QED
    BY <2>1, <2>2
<1>5. ASSUME NEW i \in 0..(Capacity - 1) PROVE i \div Pow2[Levels] = 0
  <2>1. \A m \in Nat \ {0} : i < m => i \div m = 0
    OBVIOUS
  <2> QED
    BY <1>1, <2>1 DEF Capacity
<1> QED
  BY <1>1, <1>2, <1>3, <1>4, <1>5

-----------------------------------------------------------------------------
(* The positions of a tree with n leaves: each leaf, and all above it.     *)

Above(i, l)  == i \div Pow2[l]
Path(i)      == {<<l, Above(i, l)>> : l \in 0..Levels}
Positions(n) == {<<l, Above(i, l)>> : l \in 0..Levels, i \in 0..(n - 1)}

(* Above(i, l) is the index, in level l, of the node above leaf i.          *)
LEMMA AboveFacts ==
  /\ \A i \in Nat : Above(i, 0) = i
  /\ \A i \in Nat, l \in 0..Levels : Above(i, l) \in Nat
  /\ \A i \in Nat, l \in 0..(Levels - 1) : Above(i, l + 1) = Above(i, l) \div 2
  /\ \A i \in 0..(Capacity - 1) : Above(i, Levels) = 0
BY Halving DEF Above

\* A level has its documents from the left, without a gap, up to the one above
\* the last leaf.
LEMMA LevelFilled ==
  ASSUME NEW n \in Nat, NEW l \in 0..Levels, NEW j \in Nat
  PROVE  <<l, j>> \in Positions(n) <=> j * Pow2[l] < n
<1>1. Pow2[l] \in Nat \ {0}
  BY Pow2Type
<1>2. ASSUME NEW i \in 0..(n - 1), j = i \div Pow2[l] PROVE j * Pow2[l] < n
  <2>1. \A m \in Nat \ {0} : (i \div m) * m <= i
    OBVIOUS
  <2>2. j * Pow2[l] <= i
    BY <1>1, <1>2, <2>1
  <2>3. j * Pow2[l] \in Nat
    BY <1>1
  <2> QED
    BY <2>2, <2>3
<1>3. ASSUME j * Pow2[l] < n PROVE <<l, j>> \in Positions(n)
  <2>1. \A m \in Nat \ {0} : (j * m) \div m = j /\ j * m \in Nat
    OBVIOUS
  <2>2. PICK i : i = j * Pow2[l]
    OBVIOUS
  <2>3. i \in 0..(n - 1) /\ i \div Pow2[l] = j
    BY <1>1, <1>3, <2>1, <2>2
  <2> QED
    BY <2>3 DEF Positions, Above
<1>4. <<l, j>> \in Positions(n) => \E i \in 0..(n - 1) : j = i \div Pow2[l]
  BY DEF Positions, Above
<1> QED
  BY <1>2, <1>3, <1>4

\* What the rounds of linking and climbing need of the positions.
LEMMA PositionsFacts ==
  ASSUME NEW n \in Nat, n <= Capacity
  PROVE  /\ Positions(n) \subseteq (0..Levels) \X Nat
         /\ \A i \in Nat : <<0, i>> \in Positions(n) <=> i < n
         /\ \A j \in Nat : <<Levels, j>> \in Positions(n) => j = 0
         /\ \A l \in 0..(Levels - 1), j \in Nat :
              <<l + 1, j>> \in Positions(n) <=> <<l, 2 * j>> \in Positions(n)
         /\ \A l \in 0..Levels, j \in Nat :
              <<l, j + 1>> \in Positions(n) => <<l, j>> \in Positions(n)
         /\ \A l \in 0..(Levels - 1), j \in Nat :
              <<l, j>> \in Positions(n) => <<l + 1, j \div 2>> \in Positions(n)
<1>1. Positions(n) \subseteq (0..Levels) \X Nat
  BY Halving DEF Positions, Above
<1>2. ASSUME NEW i \in Nat PROVE <<0, i>> \in Positions(n) <=> i < n
  BY LevelFilled, Pow2Def, LevelsAssumption
<1>3. ASSUME NEW j \in Nat, <<Levels, j>> \in Positions(n) PROVE j = 0
  <2>1. PICK i \in 0..(n - 1) : j = i \div Pow2[Levels]
    BY <1>3 DEF Positions, Above
  <2>2. i \in 0..(Capacity - 1)
    BY Halving
  <2> QED
    BY <2>1, <2>2, Halving
<1>4. ASSUME NEW l \in 0..(Levels - 1), NEW j \in Nat
      PROVE  <<l + 1, j>> \in Positions(n) <=> <<l, 2 * j>> \in Positions(n)
  <2>1. Pow2[l + 1] = 2 * Pow2[l] /\ Pow2[l] \in Nat
    BY Pow2Def, Pow2Type, LevelsAssumption
  <2>2. \A m \in Nat : j * (2 * m) = (2 * j) * m
    OBVIOUS
  <2>3. j * Pow2[l + 1] = (2 * j) * Pow2[l]
    BY <2>1, <2>2
  <2>4. l \in 0..Levels /\ l + 1 \in 0..Levels /\ 2 * j \in Nat
    BY LevelsAssumption
  <2>5. <<l + 1, j>> \in Positions(n) <=> j * Pow2[l + 1] < n
    BY <2>4, LevelFilled
  <2>6. <<l, 2 * j>> \in Positions(n) <=> (2 * j) * Pow2[l] < n
    BY <2>4, LevelFilled
  <2> QED
    BY <2>3, <2>5, <2>6
<1>5. ASSUME NEW l \in 0..Levels, NEW j \in Nat, <<l, j + 1>> \in Positions(n)
      PROVE  <<l, j>> \in Positions(n)
  <2>1. Pow2[l] \in Nat
    BY Pow2Type
  <2>2. \A m \in Nat : j * m <= (j + 1) * m /\ j * m \in Nat /\ (j + 1) * m \in Nat
    OBVIOUS
  <2>3. (j + 1) * Pow2[l] < n
    BY <1>5, LevelFilled
  <2>4. j * Pow2[l] < n
    BY <2>1, <2>2, <2>3
  <2> QED
    BY <2>4, LevelFilled
<1>6. ASSUME NEW l \in 0..(Levels - 1), NEW j \in Nat, <<l, j>> \in Positions(n)
      PROVE  <<l + 1, j \div 2>> \in Positions(n)
  <2>1. PICK i \in 0..(n - 1) : j = i \div Pow2[l]
    BY <1>6 DEF Positions, Above
  <2>2. j \div 2 = i \div Pow2[l + 1] /\ l + 1 \in 0..Levels
    BY <2>1, Halving, LevelsAssumption
  <2> QED
    BY <2>2 DEF Positions, Above
<1> QED
  BY <1>1, <1>2, <1>3, <1>4, <1>5, <1>6

\* The path of the next leaf: on each level it is the last document, and it
\* completes the positions.
LEMMA NextPath ==
  ASSUME NEW n \in Nat, n < Capacity
  PROVE  /\ Positions(n + 1) = Positions(n) \cup Path(n)
         /\ \A l \in 0..Levels : <<l, Above(n, l)>> \in Positions(n + 1)
         /\ n + 1 \in Nat /\ n + 1 <= Capacity
         /\ \A l \in 0..Levels, j \in Nat :
              <<l, j>> \in Positions(n + 1) => j <= Above(n, l)
<1>1. Positions(n + 1) = Positions(n) \cup Path(n)
  BY DEF Positions, Path
<1>2. \A l \in 0..Levels : <<l, Above(n, l)>> \in Positions(n + 1)
  BY DEF Positions
<1>3. n + 1 \in Nat /\ n + 1 <= Capacity
  BY Halving
<1>4. ASSUME NEW l \in 0..Levels, NEW j \in Nat, <<l, j>> \in Positions(n + 1)
      PROVE  j <= Above(n, l)
  <2>1. PICK i \in 0..n : j = i \div Pow2[l]
    BY <1>4 DEF Positions, Above
  <2>2. \A m \in Nat \ {0} : i \div m <= n \div m
    OBVIOUS
  <2> QED
    BY <2>1, <2>2, Pow2Type DEF Above
<1> QED
  BY <1>1, <1>2, <1>3, <1>4

-----------------------------------------------------------------------------
(* One save, one round of linking.                                         *)

\* Saving one field of a document leaves the others as they are.
LEMMA NodeUpdate ==
  ASSUME NEW d, IsNode(d), NEW x
  PROVE  /\ [d EXCEPT !.hash = x] =
              [hash |-> x, sibling |-> d.sibling, parent |-> d.parent, member |-> d.member]
         /\ [d EXCEPT !.sibling = x] =
              [hash |-> d.hash, sibling |-> x, parent |-> d.parent, member |-> d.member]
         /\ [d EXCEPT !.parent = x] =
              [hash |-> d.hash, sibling |-> d.sibling, parent |-> x, member |-> d.member]
<1> DEFINE r(a, b, c, e) == [hash |-> a, sibling |-> b, parent |-> c, member |-> e]
<1>1. PICK a, b, c, e : d = r(a, b, c, e)
  BY DEF IsNode
<1>2. [r(a, b, c, e) EXCEPT !.hash = x] = r(x, b, c, e)
  OBVIOUS
<1>3. [r(a, b, c, e) EXCEPT !.sibling = x] = r(a, x, c, e)
  OBVIOUS
<1>4. [r(a, b, c, e) EXCEPT !.parent = x] = r(a, b, x, e)
  OBVIOUS
<1>5. d.hash = a /\ d.sibling = b /\ d.parent = c /\ d.member = e
  BY <1>1
<1> QED
  BY <1>1, <1>2, <1>3, <1>4, <1>5

\* u is t with one field of the document at p saved, or with a new document.
SavesHash(t, u, p, x) ==
  /\ IsTree(u)
  /\ DOMAIN u = DOMAIN t
  /\ \A q \in DOMAIN t : u[q].hash = (IF q = p THEN x ELSE t[q].hash)
  /\ \A q \in DOMAIN t : u[q].sibling = t[q].sibling
  /\ \A q \in DOMAIN t : u[q].parent = t[q].parent
  /\ \A q \in DOMAIN t : u[q].member = t[q].member
SavesSibling(t, u, p, x) ==
  /\ IsTree(u)
  /\ DOMAIN u = DOMAIN t
  /\ \A q \in DOMAIN t : u[q].hash = t[q].hash
  /\ \A q \in DOMAIN t : u[q].sibling = (IF q = p THEN x ELSE t[q].sibling)
  /\ \A q \in DOMAIN t : u[q].parent = t[q].parent
  /\ \A q \in DOMAIN t : u[q].member = t[q].member
SavesParent(t, u, p) ==
  /\ IsTree(u)
  /\ DOMAIN u = DOMAIN t
  /\ \A q \in DOMAIN t : u[q].hash = t[q].hash
  /\ \A q \in DOMAIN t : u[q].sibling = t[q].sibling
  /\ \A q \in DOMAIN t : q # p => u[q].parent = t[q].parent
  /\ p \in DOMAIN t => u[p].parent = TRUE
  /\ \A q \in DOMAIN t : u[q].member = t[q].member
Creates(t, u, p, h, m) ==
  /\ IsTree(u)
  /\ DOMAIN u = DOMAIN t \cup {p}
  /\ u[p].hash = h
  /\ u[p].member = m
  /\ u[p].parent = FALSE
  /\ \A q \in DOMAIN t : q # p => u[q] = t[q]

\* Saving a hash changes the hash of that document and nothing else.
LEMMA SetHashFacts ==
  ASSUME NEW t, IsTree(t), NEW p, NEW x
  PROVE  SavesHash(t, SetHash(t, p, x), p, x)
<1> DEFINE u == SetHash(t, p, x)
           new(d) == [hash |-> x, sibling |-> d.sibling, parent |-> d.parent, member |-> d.member]
<1>1. /\ DOMAIN u = DOMAIN t
      /\ u = [q \in DOMAIN u |-> u[q]]
      /\ \A q \in DOMAIN t : u[q] = IF q = p THEN [t[q] EXCEPT !.hash = x] ELSE t[q]
  BY DEF IsTree, SetHash
<1> HIDE DEF u
<1>2. \A q \in DOMAIN t : u[q] = IF q = p THEN new(t[q]) ELSE t[q]
  BY <1>1, NodeUpdate DEF IsTree
<1>3. \A d : /\ IsNode(new(d)) /\ new(d).hash = x /\ new(d).sibling = d.sibling
             /\ new(d).parent = d.parent /\ new(d).member = d.member
  BY DEF IsNode
<1> HIDE DEF new
<1>4. SavesHash(t, u, p, x)
  BY <1>1, <1>2, <1>3 DEF IsTree, SavesHash
<1> QED
  BY <1>4 DEF u

\* The same of a save of a sibling hash, and of a link to the parent.
LEMMA SetSiblingFacts ==
  ASSUME NEW t, IsTree(t), NEW p, NEW x
  PROVE  SavesSibling(t, [t EXCEPT ![p].sibling = x], p, x)
<1> DEFINE u == [t EXCEPT ![p].sibling = x]
           new(d) == [hash |-> d.hash, sibling |-> x, parent |-> d.parent, member |-> d.member]
<1>1. /\ DOMAIN u = DOMAIN t
      /\ u = [q \in DOMAIN u |-> u[q]]
      /\ \A q \in DOMAIN t : u[q] = IF q = p THEN [t[q] EXCEPT !.sibling = x] ELSE t[q]
  BY DEF IsTree
<1> HIDE DEF u
<1>2. \A q \in DOMAIN t : u[q] = IF q = p THEN new(t[q]) ELSE t[q]
  BY <1>1, NodeUpdate DEF IsTree
<1>3. \A d : /\ IsNode(new(d)) /\ new(d).hash = d.hash /\ new(d).sibling = x
             /\ new(d).parent = d.parent /\ new(d).member = d.member
  BY DEF IsNode
<1> HIDE DEF new
<1>4. SavesSibling(t, u, p, x)
  BY <1>1, <1>2, <1>3 DEF IsTree, SavesSibling
<1> QED
  BY <1>4 DEF u

(* Saving a parent changes that field of one document only.                 *)
LEMMA SetParentFacts ==
  ASSUME NEW t, IsTree(t), NEW p
  PROVE  SavesParent(t, [t EXCEPT ![p].parent = TRUE], p)
<1> DEFINE u == [t EXCEPT ![p].parent = TRUE]
           new(d) == [hash |-> d.hash, sibling |-> d.sibling, parent |-> TRUE, member |-> d.member]
<1>1. /\ DOMAIN u = DOMAIN t
      /\ u = [q \in DOMAIN u |-> u[q]]
      /\ \A q \in DOMAIN t : u[q] = IF q = p THEN [t[q] EXCEPT !.parent = TRUE] ELSE t[q]
  BY DEF IsTree
<1> HIDE DEF u
<1>2. \A q \in DOMAIN t : u[q] = IF q = p THEN new(t[q]) ELSE t[q]
  BY <1>1, NodeUpdate DEF IsTree
<1>3. \A d : /\ IsNode(new(d)) /\ new(d).hash = d.hash /\ new(d).sibling = d.sibling
             /\ new(d).parent = TRUE /\ new(d).member = d.member
  BY DEF IsNode
<1> HIDE DEF new
<1>4. SavesParent(t, u, p)
  BY <1>1, <1>2, <1>3 DEF IsTree, SavesParent
<1> QED
  BY <1>4 DEF u

\* A document that is created leaves the others alone.
LEMMA PutFacts ==
  ASSUME NEW t, IsTree(t), NEW p \in Nat \X Nat, NEW h, NEW m
  PROVE  Creates(t, Put(t, p, NewNode(h, m)), p, h, m)
<1> DEFINE u == Put(t, p, NewNode(h, m))
<1>1. /\ IsNode(NewNode(h, m)) /\ NewNode(h, m).hash = h /\ NewNode(h, m).member = m
      /\ NewNode(h, m).parent = FALSE
  BY DEF IsNode, NewNode
<1>2. /\ DOMAIN u = DOMAIN t \cup {p}
      /\ u = [q \in DOMAIN u |-> u[q]]
      /\ \A q \in DOMAIN u : u[q] = IF q = p THEN NewNode(h, m) ELSE t[q]
  BY DEF Put
<1> HIDE DEF u
<1>3. Creates(t, u, p, h, m)
  BY <1>1, <1>2 DEF IsTree, Creates
<1> QED
  BY <1>3 DEF u

\* A round of appendUsers creates the parent or gives it a new hash, links the
\* current node to it, and tells the left neighbour its hash.
Links(t, u, cur, left, up, even, h, sib) ==
  /\ IsTree(u)
  /\ DOMAIN u = DOMAIN t \cup {up}
  /\ u[up].hash = h
  /\ up \notin DOMAIN t => u[up].member = NoMember /\ u[up].parent = FALSE
  /\ \A q \in DOMAIN t : q # up => u[q].hash = t[q].hash
  /\ \A q \in DOMAIN t : u[q].member = t[q].member
  /\ \A q \in DOMAIN t : q # cur => u[q].parent = t[q].parent
  /\ cur \in DOMAIN t => u[cur].parent = TRUE
  /\ \A q \in DOMAIN t : u[q].sibling = (IF q = cur THEN sib
                                         ELSE IF q = left /\ ~ even THEN t[cur].hash
                                         ELSE t[q].sibling)

LinkedTree(t, cur, left, up, even, h, sib) ==
  LET t1 == [t EXCEPT ![cur].sibling = sib, ![cur].parent = TRUE]
      t2 == IF even THEN t1 ELSE [t1 EXCEPT ![left].sibling = t[cur].hash]
  IN  IF up \in DOMAIN t THEN [t2 EXCEPT ![up].hash = h]
                         ELSE Put(t2, up, NewNode(h, NoMember))

(* LinkLevel adds or updates the parent and links the node and its sibling. *)
LEMMA LinkFacts ==
  ASSUME NEW t, IsTree(t), NEW cur, NEW left, NEW up \in Nat \X Nat, NEW even \in BOOLEAN,
         cur # left, NEW h, NEW sib
  PROVE  Links(t, LinkedTree(t, cur, left, up, even, h, sib), cur, left, up, even, h, sib)
<1>1. PICK t0 : t0 = [t EXCEPT ![cur].sibling = sib]
  OBVIOUS
<1>2. PICK t1 : t1 = [t0 EXCEPT ![cur].parent = TRUE]
  OBVIOUS
<1>3. PICK t2 : t2 = IF even THEN t1 ELSE [t1 EXCEPT ![left].sibling = t[cur].hash]
  OBVIOUS
<1> DEFINE u == LinkedTree(t, cur, left, up, even, h, sib)
<1>4. u = IF up \in DOMAIN t THEN SetHash(t2, up, h) ELSE Put(t2, up, NewNode(h, NoMember))
  BY <1>1, <1>2, <1>3 DEF SetHash, LinkedTree
<1> SUFFICES Links(t, u, cur, left, up, even, h, sib)
  OBVIOUS
<1> HIDE DEF u
<1>5. SavesSibling(t, t0, cur, sib)
  BY <1>1, SetSiblingFacts
<1>6. SavesParent(t0, t1, cur)
  <2>1. IsTree(t0)
    BY <1>5 DEF SavesSibling
  <2> QED
    BY <1>2, <2>1, SetParentFacts
<1>7. even => t2 = t1
  BY <1>3
<1>8. ~ even => SavesSibling(t1, t2, left, t[cur].hash)
  <2>1. IsTree(t1)
    BY <1>6 DEF SavesParent
  <2> QED
    BY <1>3, <2>1, SetSiblingFacts
<1>9. /\ IsTree(t2) /\ DOMAIN t2 = DOMAIN t
      /\ \A q \in DOMAIN t : t2[q].hash = t[q].hash
      /\ \A q \in DOMAIN t : t2[q].member = t[q].member
      /\ \A q \in DOMAIN t : q # cur => t2[q].parent = t[q].parent
      /\ cur \in DOMAIN t => t2[cur].parent = TRUE
      /\ \A q \in DOMAIN t : t2[q].sibling = (IF q = cur THEN sib
                                              ELSE IF q = left /\ ~ even THEN t[cur].hash
                                              ELSE t[q].sibling)
  BY <1>5, <1>6, <1>7, <1>8 DEF SavesSibling, SavesParent
<1>10. CASE up \in DOMAIN t
  <2>1. SavesHash(t2, u, up, h)
    BY <1>4, <1>9, <1>10, SetHashFacts
  <2> QED
    BY <1>9, <1>10, <2>1 DEF SavesHash, Links
<1>11. CASE up \notin DOMAIN t
  <2>1. Creates(t2, u, up, h, NoMember)
    BY <1>4, <1>9, <1>11, PutFacts
  <2> QED
    BY <1>9, <1>11, <2>1 DEF Creates, Links
<1> QED
  BY <1>10, <1>11

-----------------------------------------------------------------------------
(* A tree whose hashes are right.                                          *)

\* The hash the clients would use for a position: a missing one is empty.
NodeHash(t, l, j) == IF <<l, j>> \in DOMAIN t THEN t[<<l, j>>].hash ELSE ZeroHash[l]
Neighbour(j) == IF j % 2 = 0 THEN j + 1 ELSE j - 1

\* A document's hash is the hash of its children; its sibling field is the hash
\* of the document beside it.
Hashed(t, l, j) ==
  t[<<l, j>>].hash = Hash(NodeHash(t, l - 1, 2 * j), NodeHash(t, l - 1, 2 * j + 1))
Paired(t, l, j) == t[<<l, j>>].sibling = NodeHash(t, l, Neighbour(j))

\* One tree with n leaves, every document but the root linked to a parent.
Shape(t, n) ==
  /\ IsTree(t)
  /\ n \in 0..Capacity
  /\ DOMAIN t = Positions(n)
  /\ \A l \in 0..(Levels - 1), j \in Nat : <<l, j>> \in DOMAIN t => t[<<l, j>>].parent = TRUE
  /\ <<Levels, 0>> \in DOMAIN t => t[<<Levels, 0>>].parent = FALSE

\* All hashes are right, and all sibling fields except those of the documents
\* beside the path of a leaf of A: nobody told them when that leaf was changed.
Right(t, A) ==
  /\ \A l \in 1..Levels, j \in Nat : <<l, j>> \in DOMAIN t => Hashed(t, l, j)
  /\ \A l \in 0..(Levels - 1), j \in Nat :
       /\ <<l, j>> \in DOMAIN t
       /\ \A m \in A : Neighbour(j) # Above(m, l)
       => Paired(t, l, j)

\* LinkLevel, in the terms of LinkFacts.
LEMMA LinkLevelFacts ==
  ASSUME NEW t, IsTree(t), NEW l \in Nat, NEW c \in Nat
  PROVE  Links(t, LinkLevel(t, l, c), <<l, c>>, <<l, c - 1>>, <<l + 1, c \div 2>>, c % 2 = 0,
               IF c % 2 = 0 THEN Hash(t[<<l, c>>].hash, ZeroHash[l])
                            ELSE Hash(t[<<l, c - 1>>].hash, t[<<l, c>>].hash),
               IF c % 2 = 0 THEN ZeroHash[l] ELSE t[<<l, c - 1>>].hash)
<1> DEFINE even == c % 2 = 0
           h    == IF even THEN Hash(t[<<l, c>>].hash, ZeroHash[l])
                           ELSE Hash(t[<<l, c - 1>>].hash, t[<<l, c>>].hash)
           sib  == IF even THEN ZeroHash[l] ELSE t[<<l, c - 1>>].hash
<1>1. LinkLevel(t, l, c) =
        LinkedTree(t, <<l, c>>, <<l, c - 1>>, <<l + 1, c \div 2>>, even, h, sib)
  BY DEF LinkLevel, LinkedTree, ParentOf
<1>2. <<l, c>> # <<l, c - 1>> /\ <<l + 1, c \div 2>> \in Nat \X Nat /\ even \in BOOLEAN
  OBVIOUS
<1> HIDE DEF even, h, sib
<1>3. Links(t, LinkLevel(t, l, c), <<l, c>>, <<l, c - 1>>, <<l + 1, c \div 2>>, even, h, sib)
  BY <1>1, <1>2, LinkFacts
<1> QED
  BY <1>3 DEF even, h, sib

-----------------------------------------------------------------------------
(* Appending a leaf, round by round.                                       *)

\* The tree u after k rounds of appending leaf n to t: the path of the new leaf
\* is linked below level k, ...
Linking(t, u, n, k, value, member) ==
  /\ IsTree(u)
  /\ DOMAIN u = Positions(n) \cup {<<l, Above(n, l)>> : l \in 0..k}
  /\ \A l \in 0..(Levels - 1), j \in Nat :
       <<l, j>> \in DOMAIN u => \/ u[<<l, j>>].parent = TRUE
                                \/ j = Above(n, l) /\ l = k
  /\ <<Levels, 0>> \in DOMAIN u => u[<<Levels, 0>>].parent = FALSE
  /\ u[<<0, n>>].hash = value /\ u[<<0, n>>].member = member
  /\ \A i \in 0..(n - 1) : u[<<0, i>>].hash = t[<<0, i>>].hash
                           /\ u[<<0, i>>].member = t[<<0, i>>].member

\* ... and the documents on it are right up to level k.
Hashing(u, n, k, A) ==
  /\ \A l \in 1..Levels, j \in Nat :
       <<l, j>> \in DOMAIN u => \/ Hashed(u, l, j)
                                \/ j = Above(n, l) /\ l > k
  /\ \A l \in 0..(Levels - 1), j \in Nat :
       <<l, j>> \in DOMAIN u =>
         \/ Paired(u, l, j)
         \/ l >= k /\ Above(n, l) \in {j, Neighbour(j)}
         \/ \E m \in A : Neighbour(j) = Above(m, l)

(* One round of the inner loop of appendUsers links the new leaf one level  *)
(* further up.                                                              *)
LEMMA LinkRound ==
  ASSUME NEW t, NEW n \in 0..(Capacity - 1), NEW A, NEW value, NEW member,
         NEW k \in 0..(Levels - 1), NEW u, Linking(t, u, n, k, value, member)
  PROVE  /\ Linking(t, LinkLevel(u, k, Above(n, k)), n, k + 1, value, member)
         /\ Hashing(u, n, k, A) => Hashing(LinkLevel(u, k, Above(n, k)), n, k + 1, A)
<1> DEFINE w == LinkLevel(u, k, Above(n, k))
<1> SUFFICES /\ Linking(t, w, n, k + 1, value, member)
             /\ Hashing(u, n, k, A) => Hashing(w, n, k + 1, A)
  OBVIOUS
<1>1. PICK c \in Nat, d \in Nat : c = Above(n, k) /\ d = Above(n, k + 1) /\ d = c \div 2
  BY AboveFacts, Halving, LevelsAssumption
<1>2. PICK h, sib :
        /\ Links(u, w, <<k, c>>, <<k, c - 1>>, <<k + 1, d>>, c % 2 = 0, h, sib)
        /\ h = (IF c % 2 = 0 THEN Hash(u[<<k, c>>].hash, ZeroHash[k])
                             ELSE Hash(u[<<k, c - 1>>].hash, u[<<k, c>>].hash))
        /\ sib = (IF c % 2 = 0 THEN ZeroHash[k] ELSE u[<<k, c - 1>>].hash)
  <2>1. IsTree(u)
    BY DEF Linking
  <2>2. Links(u, LinkLevel(u, k, c), <<k, c>>, <<k, c - 1>>, <<k + 1, c \div 2>>, c % 2 = 0,
              IF c % 2 = 0 THEN Hash(u[<<k, c>>].hash, ZeroHash[k])
                           ELSE Hash(u[<<k, c - 1>>].hash, u[<<k, c>>].hash),
              IF c % 2 = 0 THEN ZeroHash[k] ELSE u[<<k, c - 1>>].hash)
    BY <2>1, LinkLevelFacts
  <2> QED
    BY <1>1, <2>2, Zenon
<1> HIDE DEF w
<1>3. \A l \in 0..Levels, j \in Nat : <<l, j>> \in DOMAIN u => j <= Above(n, l)
  <2>1. DOMAIN u \subseteq Positions(n + 1)
    <3>1. n \in Nat /\ n < Capacity
      BY Halving
    <3>2. {<<l, Above(n, l)>> : l \in 0..k} \subseteq Path(n)
      BY LevelsAssumption DEF Path
    <3> QED
      BY <3>1, <3>2, NextPath DEF Linking
  <2> QED
    BY <2>1, NextPath, Halving
<1>4. <<k, c>> \in DOMAIN u /\ <<k, c + 1>> \notin DOMAIN u /\ <<k + 1, d + 1>> \notin DOMAIN u
  <2>1. <<k, c>> \in DOMAIN u
    BY <1>1 DEF Linking
  <2>2. <<k, c + 1>> \notin DOMAIN u /\ <<k + 1, d + 1>> \notin DOMAIN u
    BY <1>1, <1>3, LevelsAssumption
  <2> QED
    BY <2>1, <2>2
<1>5. c % 2 # 0 => c - 1 \in Nat /\ <<k, c - 1>> \in DOMAIN u
  <2>1. SUFFICES ASSUME c % 2 # 0 PROVE c - 1 \in Nat /\ <<k, c - 1>> \in DOMAIN u
    OBVIOUS
  <2>2. c - 1 \in Nat /\ c = (c - 1) + 1
    BY <2>1
  <2>3. <<k, c>> \in Positions(n + 1) /\ n + 1 \in Nat /\ n + 1 <= Capacity
    <3>1. n \in Nat /\ n < Capacity /\ k \in 0..Levels
      BY Halving, LevelsAssumption
    <3> QED
      BY <1>1, <3>1, NextPath
  <2>4. <<k, c - 1>> \in Positions(n + 1)
    BY <2>2, <2>3, PositionsFacts, LevelsAssumption
  <2>5. <<k, c - 1>> \notin Path(n)
    BY <1>1, <2>2 DEF Path
  <2>6. <<k, c - 1>> \in Positions(n)
    BY <2>4, <2>5, NextPath, Halving
  <2> QED
    BY <2>2, <2>6 DEF Linking
<1>6. /\ DOMAIN w = DOMAIN u \cup {<<k + 1, d>>}
      /\ DOMAIN w = Positions(n) \cup {<<l, Above(n, l)>> : l \in 0..(k + 1)}
  <2>1. DOMAIN w = DOMAIN u \cup {<<k + 1, d>>}
    BY <1>2 DEF Links
  <2> QED
    BY <1>1, <2>1 DEF Linking
<1>7. /\ IsTree(w)
      /\ \A l, j : <<l, j>> \in DOMAIN u /\ <<l, j>> # <<k + 1, d>>
                   => w[<<l, j>>].hash = u[<<l, j>>].hash
      /\ \A p \in DOMAIN u : w[p].member = u[p].member
  BY <1>2 DEF Links
<1>8. \A l \in Nat, j \in Nat : l # k + 1 \/ j # d => NodeHash(w, l, j) = NodeHash(u, l, j)
  BY <1>6, <1>7 DEF NodeHash
<1>9. ASSUME NEW l \in 0..(Levels - 1), NEW j \in Nat, <<l, j>> \in DOMAIN w
      PROVE  w[<<l, j>>].parent = TRUE \/ (j = Above(n, l) /\ l = k + 1)
  <2>1. CASE <<l, j>> = <<k, c>>
    BY <1>2, <1>4, <2>1 DEF Links
  <2>2. CASE <<l, j>> # <<k, c>> /\ <<l, j>> \in DOMAIN u
    <3>1. w[<<l, j>>].parent = u[<<l, j>>].parent
      BY <1>2, <2>2 DEF Links
    <3>2. u[<<l, j>>].parent = TRUE
      BY <1>1, <2>2 DEF Linking
    <3> QED
      BY <3>1, <3>2
  <2>3. CASE <<l, j>> = <<k + 1, d>>
    BY <1>1, <2>3
  <2> QED
    BY <1>6, <1>9, <2>1, <2>2, <2>3
<1>10. ASSUME <<Levels, 0>> \in DOMAIN w PROVE w[<<Levels, 0>>].parent = FALSE
  <2>1. CASE <<Levels, 0>> \in DOMAIN u
    <3>1. <<Levels, 0>> # <<k, c>>
      BY LevelsAssumption
    <3>2. w[<<Levels, 0>>].parent = u[<<Levels, 0>>].parent
      BY <1>2, <2>1, <3>1 DEF Links
    <3> QED
      BY <2>1, <3>2 DEF Linking
  <2>2. CASE <<Levels, 0>> \notin DOMAIN u
    BY <1>2, <1>6, <1>10, <2>2 DEF Links
  <2> QED
    BY <2>1, <2>2
<1>11. ASSUME Hashing(u, n, k, A), NEW l \in 1..Levels, NEW j \in Nat, <<l, j>> \in DOMAIN w
       PROVE  Hashed(w, l, j) \/ (j = Above(n, l) /\ l > k + 1)
  <2>1. CASE <<l, j>> = <<k + 1, d>>
    <3>1. w[<<k + 1, d>>].hash = h
      BY <1>2 DEF Links
    <3>2. NodeHash(w, k, c) = u[<<k, c>>].hash
      BY <1>4, <1>8 DEF NodeHash
    <3>3. CASE c % 2 = 0
      <4>1. NodeHash(w, k, c + 1) = ZeroHash[k]
        BY <1>4, <1>8 DEF NodeHash
      <4>2. c = 2 * d
        BY <1>1, <3>3
      <4> QED
        BY <1>2, <2>1, <3>1, <3>2, <3>3, <4>1, <4>2 DEF Hashed
    <3>4. CASE c % 2 # 0
      <4>1. NodeHash(w, k, c - 1) = u[<<k, c - 1>>].hash
        BY <1>5, <1>8, <3>4 DEF NodeHash
      <4>2. c - 1 = 2 * d /\ c = 2 * d + 1
        BY <1>1, <3>4
      <4> QED
        BY <1>2, <2>1, <3>1, <3>2, <3>4, <4>1, <4>2 DEF Hashed
    <3> QED
      BY <3>3, <3>4
  <2>2. CASE <<l, j>> # <<k + 1, d>> /\ l = k + 2 /\ j = Above(n, l)
    BY <2>2
  <2>3. CASE <<l, j>> # <<k + 1, d>> /\ ~ (l = k + 2 /\ j = Above(n, l))
    <3>1. <<l, j>> \in DOMAIN u /\ w[<<l, j>>].hash = u[<<l, j>>].hash
      BY <1>6, <1>7, <1>11, <2>3
    <3>2. l - 1 = k + 1 => d # 2 * j /\ d # 2 * j + 1
      <4>1. l = k + 2 => Above(n, l) = d \div 2
        <5>1. ASSUME l = k + 2 PROVE k + 1 \in 0..(Levels - 1) /\ n \in Nat /\ l = (k + 1) + 1
          BY <5>1, Halving, LevelsAssumption
        <5> QED
          BY <1>1, <5>1, AboveFacts
      <4>2. j # d \div 2 => d # 2 * j /\ d # 2 * j + 1
        OBVIOUS
      <4> QED
        BY <2>3, <4>1, <4>2
    <3>3. /\ NodeHash(w, l - 1, 2 * j) = NodeHash(u, l - 1, 2 * j)
          /\ NodeHash(w, l - 1, 2 * j + 1) = NodeHash(u, l - 1, 2 * j + 1)
      BY <1>8, <3>2
    <3>4. Hashed(u, l, j) \/ (j = Above(n, l) /\ l > k)
      BY <1>11, <3>1 DEF Hashing
    <3>5. CASE Hashed(u, l, j)
      BY <3>1, <3>3, <3>5 DEF Hashed
    <3>6. CASE j = Above(n, l) /\ l > k
      BY <1>1, <2>3, <3>6
    <3> QED
      BY <3>4, <3>5, <3>6
  <2> QED
    BY <2>1, <2>2, <2>3
<1>12. ASSUME Hashing(u, n, k, A), NEW l \in 0..(Levels - 1), NEW j \in Nat, <<l, j>> \in DOMAIN w,
              ~ (l >= k + 1 /\ Above(n, l) \in {j, Neighbour(j)}),
              \A m \in A : Neighbour(j) # Above(m, l)
       PROVE  Paired(w, l, j)
  <2>1. <<l, j>> \in DOMAIN u /\ Neighbour(j) \in Nat
    BY <1>1, <1>6, <1>12 DEF Neighbour
  <2>2. l = k + 1 => j # d /\ Neighbour(j) # d
    BY <1>1, <1>12
  <2>3. NodeHash(w, l, Neighbour(j)) = NodeHash(u, l, Neighbour(j))
    BY <1>8, <2>1, <2>2
  <2>4. CASE <<l, j>> = <<k, c>>
    <3>1. w[<<k, c>>].sibling = sib
      BY <1>2, <1>4 DEF Links
    <3>2. NodeHash(u, k, Neighbour(c)) = sib
      BY <1>2, <1>4, <1>5 DEF NodeHash, Neighbour
    <3> QED
      BY <2>3, <2>4, <3>1, <3>2 DEF Paired
  <2>5. CASE l = k /\ Neighbour(j) = c
    <3>1. c % 2 # 0 /\ j = c - 1
      BY <1>3, <1>4, <2>1, <2>5 DEF Neighbour
    <3>2. w[<<k, j>>].sibling = u[<<k, c>>].hash
      BY <1>2, <2>1, <2>5, <3>1 DEF Links
    <3>3. NodeHash(u, k, c) = u[<<k, c>>].hash
      BY <1>4 DEF NodeHash
    <3> QED
      BY <2>3, <2>5, <3>2, <3>3 DEF Paired
  <2>6. CASE <<l, j>> # <<k, c>> /\ ~ (l = k /\ Neighbour(j) = c)
    <3>1. w[<<l, j>>].sibling = u[<<l, j>>].sibling
      <4>1. <<l, j>> # <<k, c - 1>> \/ c % 2 = 0
        BY <2>6 DEF Neighbour
      <4> QED
        BY <1>2, <2>1, <2>6, <4>1 DEF Links
    <3>2. Paired(u, l, j)
      BY <1>1, <1>12, <2>1, <2>6 DEF Hashing
    <3> QED
      BY <2>3, <3>1, <3>2 DEF Paired
  <2> QED
    BY <2>4, <2>5, <2>6
<1>13. /\ w[<<0, n>>].hash = value /\ w[<<0, n>>].member = member
       /\ \A i \in 0..(n - 1) : w[<<0, i>>].hash = t[<<0, i>>].hash
                                /\ w[<<0, i>>].member = t[<<0, i>>].member
  <2>1. ASSUME NEW i \in 0..n PROVE <<0, i>> \in DOMAIN u
    <3>1. <<0, n>> \in DOMAIN u
      BY AboveFacts DEF Linking
    <3>2. n \in Nat /\ n <= Capacity
      BY Halving
    <3>3. i < n => <<0, i>> \in Positions(n)
      BY <3>2, PositionsFacts
    <3>4. i < n \/ i = n
      OBVIOUS
    <3> QED
      BY <3>1, <3>3, <3>4 DEF Linking
  <2>2. ASSUME NEW i \in 0..n
        PROVE  w[<<0, i>>].hash = u[<<0, i>>].hash /\ w[<<0, i>>].member = u[<<0, i>>].member
    <3>1. <<0, i>> # <<k + 1, d>>
      OBVIOUS
    <3> QED
      BY <1>7, <2>1, <3>1
  <2> QED
    BY <2>2 DEF Linking
<1>14. Linking(t, w, n, k + 1, value, member)
  BY <1>6, <1>7, <1>9, <1>10, <1>13 DEF Linking
<1>15. ASSUME Hashing(u, n, k, A) PROVE Hashing(w, n, k + 1, A)
  BY <1>11, <1>12, <1>15 DEF Hashing
<1> QED
  BY <1>14, <1>15

\* The leaves of a tree and their number, by which appendUsers numbers the next.
LEMMA LeafCount ==
  ASSUME NEW t, NEW n, Shape(t, n)
  PROVE  /\ LeafPositions(t) = {<<0, i>> : i \in 0..(n - 1)}
         /\ NumLeaves(t) = n
         /\ IsFiniteSet(LeafPositions(t))
<1>1. n \in Nat /\ n <= Capacity
  BY Halving DEF Shape
<1>2. LeafPositions(t) = {<<0, i>> : i \in 0..(n - 1)}
  <2>1. \A i \in Nat : <<0, i>> \in DOMAIN t <=> i < n
    BY <1>1, PositionsFacts DEF Shape
  <2>2. DOMAIN t \subseteq (0..Levels) \X Nat
    BY <1>1, PositionsFacts DEF Shape
  <2> QED
    BY <1>1, <2>1, <2>2 DEF LeafPositions
<1>3. /\ Cardinality({<<0, i>> : i \in 0..(n - 1)}) = n
      /\ IsFiniteSet({<<0, i>> : i \in 0..(n - 1)})
  <2> DEFINE P == {<<0, i>> : i \in 0..(n - 1)}
             f == [i \in 0..(n - 1) |-> <<0, i>>]
  <2>1. f \in Surjection(0..(n - 1), P) /\ f \in Injection(0..(n - 1), P)
    BY <1>1 DEF Surjection, Injection, IsInjective
  <2>2. IsFiniteSet(0..(n - 1)) /\ Cardinality(0..(n - 1)) = n
    BY <1>1, FS_Interval
  <2> HIDE DEF f, P
  <2>3. Cardinality(P) = n /\ IsFiniteSet(P)
    BY <2>1, <2>2, FS_Surjection
  <2> QED
    BY <2>3 DEF P
<1> QED
  BY <1>2, <1>3 DEF NumLeaves

\* findOne by hash or by member returns the matching leaf of the least index.
LEMMA FirstLeaf ==
  ASSUME NEW t, NEW n, Shape(t, n), NEW hits \in SUBSET LeafPositions(t), hits # {}
  PROVE  \E i \in 0..(n - 1) : /\ FirstOf(hits) = <<0, i>>
                               /\ <<0, i>> \in hits
                               /\ \A k \in 0..(n - 1) : <<0, k>> \in hits => i <= k
<1>1. \A p \in hits : \E i \in 0..(n - 1) : p = <<0, i>>
  BY LeafCount
<1>2. n \in Nat
  BY Halving DEF Shape
<1> DEFINE T == {i \in 0..(n - 1) : <<0, i>> \in hits}
<1>3. PICK i \in T : \A k \in T : i <= k
  <2>1. T \in SUBSET Nat /\ T # {}
    BY <1>1, <1>2
  <2> HIDE DEF T
  <2> QED
    BY <2>1, LeastNatural
<1>4. <<0, i>> \in hits /\ \A q \in hits : <<0, i>>[2] <= q[2]
  BY <1>1, <1>3
<1>5. FirstOf(hits) \in hits /\ \A q \in hits : FirstOf(hits)[2] <= q[2]
  BY <1>4 DEF FirstOf
<1>6. PICK k \in 0..(n - 1) : FirstOf(hits) = <<0, k>>
  BY <1>1, <1>5
<1>7. k = i
  <2>1. k <= i
    BY <1>4, <1>5, <1>6
  <2>2. i <= k
    BY <1>3, <1>5, <1>6
  <2> QED
    BY <1>2, <2>1, <2>2
<1> QED
  BY <1>3, <1>6, <1>7

\* AppendLeaf is a recursive function of the level; it has a value for every
\* height, and its equation holds there.
LEMMA AppendLeafRounds ==
  ASSUME NEW t, NEW value, NEW member
  PROVE  \E f : /\ f[0] = Put(t, <<0, NumLeaves(t)>>, NewNode(value, member))
                /\ \A k \in 0..(Levels - 1) :
                     f[k + 1] = LinkLevel(f[k], k, Above(NumLeaves(t), k))
                /\ AppendLeaf(t, value, member) = f[Levels]
<1> DEFINE base == Put(t, <<0, NumLeaves(t)>>, NewNode(value, member))
           Round(x, l) == LinkLevel(x, l - 1, NumLeaves(t) \div Pow2[l - 1])
           Upto(f, k) == f = [l \in 0..k |-> IF l = 0 THEN base ELSE Round(f[l - 1], l)]
           S == {k \in Nat : \E f : Upto(f, k)}
<1> HIDE DEF base, Round
<1>1. 0 \in S
  <2>1. Upto([l \in 0..0 |-> base], 0)
    OBVIOUS
  <2> QED
    BY <2>1
<1>2. ASSUME NEW k \in 0..(Levels - 1), k \in S PROVE k + 1 \in S
  <2>1. PICK f : Upto(f, k)
    BY <1>2
  <2> DEFINE g == [l \in 0..(k + 1) |-> IF l = k + 1 THEN Round(f[k], k + 1) ELSE f[l]]
  <2>2. ASSUME NEW l \in 0..(k + 1) PROVE g[l] = IF l = 0 THEN base ELSE Round(g[l - 1], l)
    <3>1. CASE l = k + 1
      BY <3>1, LevelsAssumption
    <3>2. CASE l \in 0..k
      BY <3>2, <2>1, LevelsAssumption
    <3> QED
      BY <3>1, <3>2, LevelsAssumption
  <2>3. Upto(g, k + 1)
    BY <2>2
  <2> HIDE DEF g
  <2> QED
    BY <2>3, LevelsAssumption
<1>3. \E f : Upto(f, Levels)
  <2>1. \A k \in 0..Levels : k \in S
    <3> HIDE DEF S
    <3> QED
      BY <1>1, <1>2, SetInduction, LevelsAssumption
  <2>2. Levels \in S
    <3> HIDE DEF S
    <3> QED
      BY <2>1, LevelsAssumption
  <2> HIDE DEF Upto
  <2> QED
    BY <2>2
<1> DEFINE linked == CHOOSE f : Upto(f, Levels)
<1>4. Upto(linked, Levels)
  <2> HIDE DEF Upto
  <2> QED
    BY <1>3
<1>5. AppendLeaf(t, value, member) = linked[Levels]
  BY DEF AppendLeaf, Round, base
<1> HIDE DEF linked
<1>6. linked[0] = base
  BY <1>4, LevelsAssumption
<1>7. ASSUME NEW k \in 0..(Levels - 1) PROVE linked[k + 1] = Round(linked[k], k + 1)
  BY <1>4, LevelsAssumption
<1>8. ASSUME NEW k \in 0..(Levels - 1)
      PROVE  linked[k + 1] = LinkLevel(linked[k], k, Above(NumLeaves(t), k))
  <2>1. (k + 1) - 1 = k
    OBVIOUS
  <2> QED
    BY <1>7, <2>1 DEF Round, Above
<1> QED
  BY <1>5, <1>6, <1>8 DEF base

\* From t to u, leaf n came, and the leaves before it kept member and value.
Grown(t, u, n, value, member) ==
  /\ u[<<0, n>>].hash = value /\ u[<<0, n>>].member = member
  /\ \A i \in 0..(n - 1) : u[<<0, i>>].hash = t[<<0, i>>].hash
                           /\ u[<<0, i>>].member = t[<<0, i>>].member

\* What appendUsers does for one member: the tree stays one tree, with one leaf
\* more, the other leaves keep their values and members, and all hashes and
\* sibling fields that were right are right again.
LEMMA AppendLeafFacts ==
  ASSUME NEW t, NEW n \in 0..(Capacity - 1), Shape(t, n), NEW A,
         NEW value, NEW member, NEW u, u = AppendLeaf(t, value, member)
  PROVE  /\ Shape(u, n + 1)
         /\ Right(t, A) => Right(u, A)
         /\ Grown(t, u, n, value, member)
<1>1. PICK f : /\ f[0] = Put(t, <<0, n>>, NewNode(value, member))
               /\ \A k \in 0..(Levels - 1) : f[k + 1] = LinkLevel(f[k], k, Above(n, k))
               /\ u = f[Levels]
  BY AppendLeafRounds, LeafCount
<1> DEFINE S == {k \in 0..Levels : /\ Linking(t, f[k], n, k, value, member)
                                   /\ Right(t, A) => Hashing(f[k], n, k, A)}
<1>2. 0 \in S
  <2>1. PICK w : w = f[0]
    OBVIOUS
  <2>2. Creates(t, w, <<0, n>>, value, member)
    BY <1>1, <2>1, PutFacts DEF Shape
  <2>3. n \in Nat /\ n <= Capacity /\ Above(n, 0) = n /\ DOMAIN t = Positions(n)
    BY Halving, AboveFacts DEF Shape
  <2>4. <<0, n>> \notin DOMAIN t
    BY <2>3, PositionsFacts
  <2>5. /\ DOMAIN w = DOMAIN t \cup {<<0, n>>}
        /\ \A p \in DOMAIN t : w[p] = t[p]
    BY <2>2, <2>4 DEF Creates
  <2>6. \A l \in Nat, j \in Nat : l # 0 \/ j # n => NodeHash(w, l, j) = NodeHash(t, l, j)
    BY <2>5 DEF NodeHash
  <2>7. DOMAIN w = Positions(n) \cup {<<l, Above(n, l)>> : l \in 0..0}
    BY <2>3, <2>5
  <2>8. ASSUME Right(t, A), NEW l \in 1..Levels, NEW j \in Nat, <<l, j>> \in DOMAIN w
        PROVE  Hashed(w, l, j) \/ (j = Above(n, l) /\ l > 0)
    <3>1. CASE l = 1 /\ (n = 2 * j \/ n = 2 * j + 1)
      <4>1. Above(n, 1) = n \div 2
        <5>1. 0 \in 0..(Levels - 1) /\ 0 + 1 = 1
          BY LevelsAssumption
        <5> QED
          BY <2>3, <5>1, AboveFacts
      <4> QED
        BY <3>1, <4>1
    <3>2. CASE ~ (l = 1 /\ (n = 2 * j \/ n = 2 * j + 1))
      <4>1. <<l, j>> \in DOMAIN t /\ w[<<l, j>>].hash = t[<<l, j>>].hash
        BY <2>5, <2>8
      <4>2. Hashed(t, l, j)
        BY <2>8, <4>1 DEF Right
      <4>3. /\ NodeHash(w, l - 1, 2 * j) = NodeHash(t, l - 1, 2 * j)
            /\ NodeHash(w, l - 1, 2 * j + 1) = NodeHash(t, l - 1, 2 * j + 1)
        BY <2>6, <3>2
      <4> QED
        BY <4>1, <4>2, <4>3 DEF Hashed
    <3> QED
      BY <3>1, <3>2
  <2>9. ASSUME Right(t, A), NEW l \in 0..(Levels - 1), NEW j \in Nat, <<l, j>> \in DOMAIN w,
               ~ (l >= 0 /\ Above(n, l) \in {j, Neighbour(j)}),
               \A m \in A : Neighbour(j) # Above(m, l)
        PROVE  Paired(w, l, j)
    <3>1. <<l, j>> \in DOMAIN t /\ w[<<l, j>>].sibling = t[<<l, j>>].sibling
      BY <2>3, <2>5, <2>9
    <3>2. Paired(t, l, j)
      BY <2>9, <3>1 DEF Right
    <3>3. Neighbour(j) \in Nat
      BY DEF Neighbour
    <3>4. l # 0 \/ Neighbour(j) # n
      BY <2>3, <2>9
    <3>5. NodeHash(w, l, Neighbour(j)) = NodeHash(t, l, Neighbour(j))
      BY <2>6, <3>3, <3>4
    <3> QED
      BY <3>1, <3>2, <3>5 DEF Paired
  <2>10. ASSUME NEW l \in 0..(Levels - 1), NEW j \in Nat, <<l, j>> \in DOMAIN w
         PROVE  w[<<l, j>>].parent = TRUE \/ (j = Above(n, l) /\ l = 0)
    BY <2>3, <2>5, <2>10 DEF Shape
  <2>11. ASSUME <<Levels, 0>> \in DOMAIN w PROVE w[<<Levels, 0>>].parent = FALSE
    BY <2>5, <2>11, LevelsAssumption DEF Shape
  <2>12. ASSUME NEW i \in 0..(n - 1) PROVE <<0, i>> \in DOMAIN t
    BY <2>3, PositionsFacts
  <2>13. Linking(t, w, n, 0, value, member)
    BY <2>2, <2>5, <2>7, <2>10, <2>11, <2>12 DEF Linking, Creates
  <2>14. ASSUME Right(t, A) PROVE Hashing(w, n, 0, A)
    BY <2>8, <2>9, <2>14 DEF Hashing
  <2> QED
    BY <2>1, <2>13, <2>14, LevelsAssumption
<1>3. ASSUME NEW k \in 0..(Levels - 1), k \in S PROVE k + 1 \in S
  BY <1>1, <1>3, LinkRound, LevelsAssumption
<1>4. \A k \in 0..Levels : k \in S
  <2> HIDE DEF S
  <2> QED
    BY <1>2, <1>3, SetInduction, LevelsAssumption
<1>5. /\ Linking(t, u, n, Levels, value, member)
      /\ Right(t, A) => Hashing(u, n, Levels, A)
  BY <1>1, <1>4, LevelsAssumption
<1>6. Shape(u, n + 1)
  <2>1. DOMAIN u = Positions(n) \cup Path(n)
    BY <1>5 DEF Linking, Path
  <2>2. n \in Nat /\ n < Capacity /\ n + 1 \in 0..Capacity
    BY Halving
  <2>3. DOMAIN u = Positions(n + 1)
    BY <2>1, <2>2, NextPath
  <2> QED
    BY <1>5, <2>2, <2>3, LevelsAssumption DEF Linking, Shape
<1>7. ASSUME Right(t, A) PROVE Right(u, A)
  BY <1>5, <1>7, LevelsAssumption DEF Hashing, Right
<1> QED
  BY <1>5, <1>6, <1>7 DEF Linking, Grown

\* The collection before the first member: one tree, and right.
LEMMA EmptyTreeFacts == Shape(EmptyTree, 0) /\ Right(EmptyTree, {})
<1>1. EmptyTree = [p \in DOMAIN EmptyTree |-> EmptyTree[p]] /\ DOMAIN EmptyTree = {}
  BY DEF EmptyTree
<1>2. Positions(0) = {} /\ 0 \in 0..Capacity
  BY Halving DEF Positions
<1> QED
  BY <1>1, <1>2 DEF Shape, Right, IsTree

-----------------------------------------------------------------------------
(* Changing a leaf, round by round.                                        *)

\* Saving a hash does not change which documents there are and how they are
\* linked.
LEMMA SetHashShape ==
  ASSUME NEW t, NEW n, Shape(t, n), NEW p, NEW x
  PROVE  Shape(SetHash(t, p, x), n)
<1>1. PICK w : w = SetHash(t, p, x)
  OBVIOUS
<1>2. SavesHash(t, w, p, x)
  BY <1>1, SetHashFacts DEF Shape
<1>3. IsTree(w) /\ DOMAIN w = DOMAIN t /\ \A q \in DOMAIN t : w[q].parent = t[q].parent
  BY <1>2 DEF SavesHash
<1> QED
  BY <1>1, <1>3 DEF Shape

(* Saving a hash changes one leaf at most, and no member.                   *)
LEMMA SetHashLeaves ==
  ASSUME NEW t, NEW n, Shape(t, n), NEW p, NEW x, NEW i \in 0..(n - 1)
  PROVE  /\ <<0, i>> \in DOMAIN t
         /\ SetHash(t, p, x)[<<0, i>>].hash = (IF p = <<0, i>> THEN x ELSE t[<<0, i>>].hash)
         /\ SetHash(t, p, x)[<<0, i>>].member = t[<<0, i>>].member
<1>1. SavesHash(t, SetHash(t, p, x), p, x)
  BY SetHashFacts DEF Shape
<1>2. n \in Nat /\ n <= Capacity /\ i \in Nat
  BY Halving DEF Shape
<1>3. <<0, i>> \in DOMAIN t
  BY <1>2, PositionsFacts DEF Shape
<1> QED
  BY <1>1, <1>3 DEF SavesHash

\* Leaf m of n was changed and its new hash has climbed to level k: the
\* documents above it on its path are out of date, and so are the sibling
\* fields beside its path.
Climbing(t, n, m, k) ==
  /\ \A l \in 1..Levels, j \in Nat :
       <<l, j>> \in DOMAIN t => \/ Hashed(t, l, j)
                                \/ j = Above(m, l) /\ l > k
  /\ \A l \in 0..(Levels - 1), j \in Nat :
       <<l, j>> \in DOMAIN t => \/ Paired(t, l, j)
                                \/ Neighbour(j) = Above(m, l)

(* After a leaf was overwritten, the nodes above it are all that may be     *)
(* wrong.                                                                   *)
LEMMA LeafChanged ==
  ASSUME NEW t, NEW n, Shape(t, n), NEW m \in 0..(n - 1), NEW A, A \subseteq {m}, Right(t, A),
         NEW x
  PROVE  Climbing(SetHash(t, <<0, m>>, x), n, m, 0)
<1>1. PICK w : w = SetHash(t, <<0, m>>, x)
  OBVIOUS
<1>2. SavesHash(t, w, <<0, m>>, x)
  BY <1>1, SetHashFacts DEF Shape
<1>3. /\ n \in Nat /\ m \in Nat /\ Above(m, 0) = m
      /\ DOMAIN w = DOMAIN t
      /\ \A p \in DOMAIN t : p # <<0, m>> => w[p].hash = t[p].hash
      /\ \A p \in DOMAIN t : w[p].sibling = t[p].sibling
  BY <1>2, AboveFacts, Halving DEF SavesHash, Shape
<1>4. \A l \in Nat, j \in Nat : l # 0 \/ j # m => NodeHash(w, l, j) = NodeHash(t, l, j)
  BY <1>3 DEF NodeHash
<1>5. ASSUME NEW l \in 1..Levels, NEW j \in Nat, <<l, j>> \in DOMAIN w
      PROVE  Hashed(w, l, j) \/ (j = Above(m, l) /\ l > 0)
  <2>1. CASE l = 1 /\ (m = 2 * j \/ m = 2 * j + 1)
    <3>1. Above(m, 1) = m \div 2
      <4>1. 0 \in 0..(Levels - 1) /\ 0 + 1 = 1
        BY LevelsAssumption
      <4> QED
        BY <1>3, <4>1, AboveFacts
    <3> QED
      BY <2>1, <3>1
  <2>2. CASE ~ (l = 1 /\ (m = 2 * j \/ m = 2 * j + 1))
    <3>1. <<l, j>> \in DOMAIN t /\ w[<<l, j>>].hash = t[<<l, j>>].hash
      BY <1>3, <1>5
    <3>2. Hashed(t, l, j)
      BY <3>1 DEF Right
    <3>3. /\ NodeHash(w, l - 1, 2 * j) = NodeHash(t, l - 1, 2 * j)
          /\ NodeHash(w, l - 1, 2 * j + 1) = NodeHash(t, l - 1, 2 * j + 1)
      BY <1>4, <2>2
    <3> QED
      BY <3>1, <3>2, <3>3 DEF Hashed
  <2> QED
    BY <2>1, <2>2
<1>6. ASSUME NEW l \in 0..(Levels - 1), NEW j \in Nat, <<l, j>> \in DOMAIN w,
             Neighbour(j) # Above(m, l)
      PROVE  Paired(w, l, j)
  <2>1. Paired(t, l, j)
    BY <1>3, <1>6 DEF Right
  <2>2. Neighbour(j) \in Nat
    BY DEF Neighbour
  <2>3. NodeHash(w, l, Neighbour(j)) = NodeHash(t, l, Neighbour(j))
    BY <1>3, <1>4, <1>6, <2>2
  <2> QED
    BY <1>3, <1>6, <2>1, <2>3 DEF Paired
<1> QED
  BY <1>1, <1>5, <1>6 DEF Climbing

(* One round of updateUser corrects the node one level further up.          *)
LEMMA ClimbRound ==
  ASSUME NEW t, NEW n, Shape(t, n), NEW m \in 0..(n - 1), NEW k \in 0..(Levels - 1),
         Climbing(t, n, m, k)
  PROVE  Climbing(ClimbStep(t, <<k, Above(m, k)>>), n, m, k + 1)
<1>1. PICK c \in Nat, d \in Nat : c = Above(m, k) /\ d = Above(m, k + 1) /\ d = c \div 2
  <2>1. m \in Nat /\ k \in 0..Levels /\ k + 1 \in 0..Levels
    BY Halving, LevelsAssumption DEF Shape
  <2> QED
    BY <2>1, AboveFacts
<1>2. PICK h : h = ParentHash(t[<<k, c>>], c)
  OBVIOUS
<1>3. PICK w : w = SetHash(t, <<k + 1, d>>, h)
  OBVIOUS
<1>4. ClimbStep(t, <<k, Above(m, k)>>) = w
  BY <1>1, <1>2, <1>3 DEF ClimbStep, ParentOf
<1>5. SavesHash(t, w, <<k + 1, d>>, h)
  BY <1>3, SetHashFacts DEF Shape
<1>6. /\ DOMAIN w = DOMAIN t
      /\ \A p \in DOMAIN t : p # <<k + 1, d>> => w[p].hash = t[p].hash
      /\ \A p \in DOMAIN t : w[p].sibling = t[p].sibling
      /\ <<k + 1, d>> \in DOMAIN t => w[<<k + 1, d>>].hash = h
  BY <1>5 DEF SavesHash
<1>7. \A l \in Nat, j \in Nat : l # k + 1 \/ j # d => NodeHash(w, l, j) = NodeHash(t, l, j)
  BY <1>6 DEF NodeHash
<1>8. <<k, c>> \in DOMAIN t
  <2>1. <<k, c>> \in Positions(n)
    BY <1>1, LevelsAssumption DEF Positions
  <2> QED
    BY <2>1 DEF Shape
<1>9. h = Hash(NodeHash(t, k, 2 * d), NodeHash(t, k, 2 * d + 1))
  <2>1. Neighbour(c) # c
    BY DEF Neighbour
  <2>2. t[<<k, c>>].sibling = NodeHash(t, k, Neighbour(c)) /\ t[<<k, c>>].hash = NodeHash(t, k, c)
    BY <1>1, <1>8, <2>1 DEF Climbing, Paired, NodeHash
  <2>3. CASE c % 2 = 0
    <3>1. c = 2 * d /\ Neighbour(c) = 2 * d + 1
      BY <1>1, <2>3 DEF Neighbour
    <3> QED
      BY <1>2, <2>2, <2>3, <3>1 DEF ParentHash
  <2>4. CASE c % 2 # 0
    <3>1. c = 2 * d + 1 /\ Neighbour(c) = 2 * d
      BY <1>1, <2>4 DEF Neighbour
    <3> QED
      BY <1>2, <2>2, <2>4, <3>1 DEF ParentHash
  <2> QED
    BY <2>3, <2>4
<1>10. ASSUME NEW l \in 1..Levels, NEW j \in Nat, <<l, j>> \in DOMAIN w
       PROVE  Hashed(w, l, j) \/ (j = Above(m, l) /\ l > k + 1)
  <2>1. CASE <<l, j>> = <<k + 1, d>>
    <3>1. /\ NodeHash(w, k, 2 * d) = NodeHash(t, k, 2 * d)
          /\ NodeHash(w, k, 2 * d + 1) = NodeHash(t, k, 2 * d + 1)
      BY <1>7
    <3> QED
      BY <1>6, <1>9, <1>10, <2>1, <3>1 DEF Hashed
  <2>2. CASE <<l, j>> # <<k + 1, d>> /\ l = k + 2 /\ j = Above(m, l)
    BY <2>2
  <2>3. CASE <<l, j>> # <<k + 1, d>> /\ ~ (l = k + 2 /\ j = Above(m, l))
    <3>1. <<l, j>> \in DOMAIN t /\ w[<<l, j>>].hash = t[<<l, j>>].hash
      BY <1>6, <1>10, <2>3
    <3>2. l - 1 = k + 1 => d # 2 * j /\ d # 2 * j + 1
      <4>1. l = k + 2 => Above(m, l) = d \div 2
        <5>1. ASSUME l = k + 2 PROVE k + 1 \in 0..(Levels - 1) /\ m \in Nat /\ l = (k + 1) + 1
          BY <5>1, Halving, LevelsAssumption DEF Shape
        <5> QED
          BY <1>1, <5>1, AboveFacts
      <4>2. j # d \div 2 => d # 2 * j /\ d # 2 * j + 1
        OBVIOUS
      <4> QED
        BY <2>3, <4>1, <4>2
    <3>3. /\ NodeHash(w, l - 1, 2 * j) = NodeHash(t, l - 1, 2 * j)
          /\ NodeHash(w, l - 1, 2 * j + 1) = NodeHash(t, l - 1, 2 * j + 1)
      BY <1>7, <3>2
    <3>4. CASE Hashed(t, l, j)
      BY <3>1, <3>3, <3>4 DEF Hashed
    <3>5. CASE j = Above(m, l) /\ l > k
      BY <1>1, <2>3, <3>5
    <3> QED
      BY <3>1, <3>4, <3>5 DEF Climbing
  <2> QED
    BY <2>1, <2>2, <2>3
<1>11. ASSUME NEW l \in 0..(Levels - 1), NEW j \in Nat, <<l, j>> \in DOMAIN w,
              Neighbour(j) # Above(m, l)
       PROVE  Paired(w, l, j)
  <2>1. Paired(t, l, j)
    BY <1>6, <1>11 DEF Climbing
  <2>2. Neighbour(j) \in Nat
    BY DEF Neighbour
  <2>3. l # k + 1 \/ Neighbour(j) # d
    BY <1>1, <1>11
  <2>4. NodeHash(w, l, Neighbour(j)) = NodeHash(t, l, Neighbour(j))
    BY <1>7, <2>2, <2>3
  <2> QED
    BY <1>6, <1>11, <2>1, <2>4 DEF Paired
<1> QED
  BY <1>4, <1>10, <1>11 DEF Climbing

\* At the root, only the sibling fields beside the path are out of date.
LEMMA ClimbedToRoot ==
  ASSUME NEW t, NEW n, NEW m, Climbing(t, n, m, Levels)
  PROVE  Right(t, {m})
BY LevelsAssumption DEF Climbing, Right

\* UpdateLeaf is a recursive function of the level, too.
LEMMA UpdateLeafRounds ==
  ASSUME NEW t, NEW m \in Nat, NEW value
  PROVE  \E f : /\ f[0] = SetHash(t, <<0, m>>, value)
                /\ \A k \in 0..(Levels - 1) :
                     f[k + 1] = IF f[k][<<k, Above(m, k)>>].parent
                                THEN ClimbStep(f[k], <<k, Above(m, k)>>) ELSE f[k]
                /\ UpdateLeaf(t, <<0, m>>, value) = f[Levels]
<1> DEFINE base == SetHash(t, <<0, m>>, value)
           Round(x, l) == LET q == <<l - 1, m \div Pow2[l - 1]>>
                          IN  IF x[q].parent THEN ClimbStep(x, q) ELSE x
           Upto(f, k) == f = [l \in 0..k |-> IF l = 0 THEN base ELSE Round(f[l - 1], l)]
           S == {k \in Nat : \E f : Upto(f, k)}
<1> HIDE DEF base, Round
<1>1. 0 \in S
  <2>1. Upto([l \in 0..0 |-> base], 0)
    OBVIOUS
  <2> QED
    BY <2>1
<1>2. ASSUME NEW k \in 0..(Levels - 1), k \in S PROVE k + 1 \in S
  <2>1. PICK f : Upto(f, k)
    BY <1>2
  <2> DEFINE g == [l \in 0..(k + 1) |-> IF l = k + 1 THEN Round(f[k], k + 1) ELSE f[l]]
  <2>2. ASSUME NEW l \in 0..(k + 1) PROVE g[l] = IF l = 0 THEN base ELSE Round(g[l - 1], l)
    <3>1. CASE l = k + 1
      BY <3>1, LevelsAssumption
    <3>2. CASE l \in 0..k
      BY <3>2, <2>1, LevelsAssumption
    <3> QED
      BY <3>1, <3>2, LevelsAssumption
  <2>3. Upto(g, k + 1)
    BY <2>2
  <2> HIDE DEF g
  <2> QED
    BY <2>3, LevelsAssumption
<1>3. \E f : Upto(f, Levels)
  <2>1. \A k \in 0..Levels : k \in S
    <3> HIDE DEF S
    <3> QED
      BY <1>1, <1>2, SetInduction, LevelsAssumption
  <2>2. Levels \in S
    <3> HIDE DEF S
    <3> QED
      BY <2>1, LevelsAssumption
  <2> HIDE DEF Upto
  <2> QED
    BY <2>2
<1> DEFINE climbed == CHOOSE f : Upto(f, Levels)
<1>4. Upto(climbed, Levels)
  <2> HIDE DEF Upto
  <2> QED
    BY <1>3
<1>5. UpdateLeaf(t, <<0, m>>, value) = climbed[Levels]
  BY DEF UpdateLeaf, Round, base
<1> HIDE DEF climbed
<1>6. climbed[0] = base
  BY <1>4, LevelsAssumption
<1>7. ASSUME NEW k \in 0..(Levels - 1) PROVE climbed[k + 1] = Round(climbed[k], k + 1)
  BY <1>4, LevelsAssumption
<1>8. ASSUME NEW k \in 0..(Levels - 1)
      PROVE  climbed[k + 1] = IF climbed[k][<<k, Above(m, k)>>].parent
                              THEN ClimbStep(climbed[k], <<k, Above(m, k)>>) ELSE climbed[k]
  <2>1. (k + 1) - 1 = k
    OBVIOUS
  <2> QED
    BY <1>7, <2>1 DEF Round, Above
<1> QED
  BY <1>5, <1>6, <1>8 DEF base

\* From t to u, leaf m of n got another value, and no other leaf did.
Changed(t, u, n, m, value) ==
  /\ u[<<0, m>>].hash = value
  /\ \A i \in 0..(n - 1) : /\ i # m => u[<<0, i>>].hash = t[<<0, i>>].hash
                           /\ u[<<0, i>>].member = t[<<0, i>>].member

\* What updateUser does to leaf m: the tree stays one tree, no other leaf
\* changes, and if the sibling fields on the path of m were right, the root is
\* right again afterwards.
LEMMA UpdateLeafFacts ==
  ASSUME NEW t, NEW n, Shape(t, n), NEW m \in 0..(n - 1), NEW value, NEW u,
         u = UpdateLeaf(t, <<0, m>>, value)
  PROVE  /\ Shape(u, n)
         /\ Changed(t, u, n, m, value)
         /\ \A A : A \subseteq {m} /\ Right(t, A) => Right(u, {m})
<1>1. m \in Nat /\ n \in Nat
  BY Halving DEF Shape
<1>2. PICK f : /\ f[0] = SetHash(t, <<0, m>>, value)
               /\ \A k \in 0..(Levels - 1) :
                    f[k + 1] = IF f[k][<<k, Above(m, k)>>].parent
                               THEN ClimbStep(f[k], <<k, Above(m, k)>>) ELSE f[k]
               /\ u = f[Levels]
  BY <1>1, UpdateLeafRounds
<1> DEFINE Same(w) ==
             /\ Shape(w, n)
             /\ \A i \in 0..(n - 1) :
                  /\ w[<<0, i>>].hash = (IF i = m THEN value ELSE t[<<0, i>>].hash)
                  /\ w[<<0, i>>].member = t[<<0, i>>].member
           Fine == \E A : A \subseteq {m} /\ Right(t, A)
           S == {k \in 0..Levels : Same(f[k]) /\ (Fine => Climbing(f[k], n, m, k))}
<1>3. 0 \in S
  <2>1. Shape(f[0], n)
    BY <1>2, SetHashShape
  <2>2. ASSUME NEW i \in 0..(n - 1)
        PROVE  /\ f[0][<<0, i>>].hash = (IF i = m THEN value ELSE t[<<0, i>>].hash)
               /\ f[0][<<0, i>>].member = t[<<0, i>>].member
    BY <1>2, SetHashLeaves
  <2>3. Fine => Climbing(f[0], n, m, 0)
    BY <1>2, LeafChanged
  <2> QED
    BY <2>1, <2>2, <2>3, LevelsAssumption
<1>4. ASSUME NEW k \in 0..(Levels - 1), k \in S PROVE k + 1 \in S
  <2>1. PICK w : w = f[k]
    OBVIOUS
  <2>2. PICK c \in Nat : c = Above(m, k)
    BY <1>1, AboveFacts, LevelsAssumption
  <2>3. Same(w) /\ (Fine => Climbing(w, n, m, k))
    BY <1>4, <2>1
  <2>4. <<k, c>> \in DOMAIN w /\ w[<<k, c>>].parent = TRUE
    <3>1. <<k, c>> \in Positions(n)
      BY <2>2, LevelsAssumption DEF Positions
    <3> QED
      BY <2>3, <3>1 DEF Shape
  <2>5. f[k + 1] = ClimbStep(w, <<k, c>>)
    BY <1>2, <2>1, <2>2, <2>4
  <2>6. f[k + 1] = SetHash(w, <<k + 1, c \div 2>>, ParentHash(w[<<k, c>>], c))
    BY <2>5 DEF ClimbStep, ParentOf
  <2>7. Shape(f[k + 1], n)
    BY <2>3, <2>6, SetHashShape
  <2>8. ASSUME NEW i \in 0..(n - 1)
        PROVE  /\ f[k + 1][<<0, i>>].hash = (IF i = m THEN value ELSE t[<<0, i>>].hash)
               /\ f[k + 1][<<0, i>>].member = t[<<0, i>>].member
    <3>1. <<k + 1, c \div 2>> # <<0, i>>
      OBVIOUS
    <3>2. f[k + 1][<<0, i>>].hash = w[<<0, i>>].hash /\ f[k + 1][<<0, i>>].member = w[<<0, i>>].member
      <4>1. Shape(w, n)
        BY <2>3
      <4>2. PICK p, h : f[k + 1] = SetHash(w, p, h) /\ p = <<k + 1, c \div 2>>
        BY <2>6
      <4>3. p # <<0, i>>
        BY <3>1, <4>2
      <4>4. /\ SetHash(w, p, h)[<<0, i>>].hash = (IF p = <<0, i>> THEN h ELSE w[<<0, i>>].hash)
            /\ SetHash(w, p, h)[<<0, i>>].member = w[<<0, i>>].member
        BY <4>1, SetHashLeaves
      <4> QED
        BY <4>2, <4>3, <4>4
    <3> QED
      BY <2>3, <3>2
  <2>9. Fine => Climbing(f[k + 1], n, m, k + 1)
    BY <2>2, <2>3, <2>5, ClimbRound
  <2> QED
    BY <2>7, <2>8, <2>9, LevelsAssumption
<1>5. \A k \in 0..Levels : k \in S
  <2> HIDE DEF S
  <2> QED
    BY <1>3, <1>4, SetInduction, LevelsAssumption
<1>6. Same(u) /\ (Fine => Climbing(u, n, m, Levels))
  BY <1>2, <1>5, LevelsAssumption
<1>7. Fine => Right(u, {m})
  BY <1>6, ClimbedToRoot
<1>8. Changed(t, u, n, m, value)
  BY <1>6 DEF Changed
<1> QED
  BY <1>6, <1>7, <1>8

-----------------------------------------------------------------------------
(* The root the clients compute.                                           *)

(* The hashes of empty subtrees, level by level.                            *)
LEMMA ZeroHashDef ==
  /\ ZeroHash[0] = Zero
  /\ \A k \in 0..(Levels - 1) : ZeroHash[k + 1] = Hash(ZeroHash[k], ZeroHash[k])
<1> DEFINE Upto(f, k) == f = [l \in 0..k |-> IF l = 0 THEN Zero ELSE Hash(f[l - 1], f[l - 1])]
           S == {k \in Nat : \E f : Upto(f, k)}
<1>1. 0 \in S
  <2>1. Upto([l \in 0..0 |-> Zero], 0)
    OBVIOUS
  <2> QED
    BY <2>1
<1>2. ASSUME NEW k \in 0..(Levels - 1), k \in S PROVE k + 1 \in S
  <2>1. PICK f : Upto(f, k)
    BY <1>2
  <2> DEFINE g == [l \in 0..(k + 1) |-> IF l = k + 1 THEN Hash(f[k], f[k]) ELSE f[l]]
  <2>2. ASSUME NEW l \in 0..(k + 1) PROVE g[l] = IF l = 0 THEN Zero ELSE Hash(g[l - 1], g[l - 1])
    <3>1. CASE l = k + 1
      BY <3>1, LevelsAssumption
    <3>2. CASE l \in 0..k
      BY <3>2, <2>1, LevelsAssumption
    <3> QED
      BY <3>1, <3>2, LevelsAssumption
  <2>3. Upto(g, k + 1)
    BY <2>2
  <2> HIDE DEF g
  <2> QED
    BY <2>3, LevelsAssumption
<1>3. \E f : Upto(f, Levels)
  <2>1. \A k \in 0..Levels : k \in S
    <3> HIDE DEF S
    <3> QED
      BY <1>1, <1>2, SetInduction, LevelsAssumption
  <2>2. Levels \in S
    <3> HIDE DEF S
    <3> QED
      BY <2>1, LevelsAssumption
  <2> HIDE DEF Upto
  <2> QED
    BY <2>2
<1>4. Upto(ZeroHash, Levels)
  <2>1. ZeroHash = CHOOSE f : Upto(f, Levels)
    BY DEF ZeroHash
  <2> HIDE DEF Upto
  <2> QED
    BY <1>3, <2>1
<1> QED
  BY <1>4, LevelsAssumption

\* Where the children of a missing document would be there is nothing, so a
\* position's hash follows from those below it whether it has a document or not.
LEMMA HashFromBelow ==
  ASSUME NEW t, NEW n, Shape(t, n), NEW A, Right(t, A), NEW l \in 0..(Levels - 1), NEW j \in Nat
  PROVE  NodeHash(t, l + 1, j) = Hash(NodeHash(t, l, 2 * j), NodeHash(t, l, 2 * j + 1))
<1>1. n \in Nat /\ n <= Capacity /\ DOMAIN t = Positions(n)
  BY Halving DEF Shape
<1>2. l + 1 \in 1..Levels /\ (l + 1) - 1 = l /\ l \in 0..Levels /\ 2 * j \in Nat
  BY LevelsAssumption
<1>3. CASE <<l + 1, j>> \in DOMAIN t
  <2>1. Hashed(t, l + 1, j)
    BY <1>2, <1>3 DEF Right
  <2> QED
    BY <1>2, <1>3, <2>1 DEF Hashed, NodeHash
<1>4. CASE <<l + 1, j>> \notin DOMAIN t
  <2>1. <<l, 2 * j>> \notin DOMAIN t
    BY <1>1, <1>4, PositionsFacts
  <2>2. <<l, 2 * j + 1>> \notin DOMAIN t
    BY <1>1, <1>2, <2>1, PositionsFacts
  <2> QED
    BY <1>4, <2>1, <2>2, ZeroHashDef DEF NodeHash
<1> QED
  BY <1>3, <1>4

\* A tree whose hashes are right has the root the clients compute from its
\* leaves, and findRoot returns that root or nothing.
LEMMA RootOfRightTree ==
  ASSUME NEW t, NEW n, Shape(t, n), NEW A, Right(t, A)
  PROVE  /\ Roots(t) \subseteq {<<Levels, 0>>}
         /\ \A r \in Roots(t) : t[r].hash = ReferenceRoot(t)
<1> DEFINE All == UNION {{l} \X (0..(Pow2[Levels - l] - 1)) : l \in 0..Levels}
           Eq(ref) == ref = [p \in All |->
             IF p[1] > 0 THEN Hash(ref[<<p[1] - 1, 2 * p[2]>>], ref[<<p[1] - 1, 2 * p[2] + 1>>])
             ELSE IF p \in DOMAIN t THEN t[p].hash ELSE Zero]
           g == [p \in All |-> NodeHash(t, p[1], p[2])]
<1>1. /\ \A p : p \in All <=> \E l \in 0..Levels : \E j \in 0..(Pow2[Levels - l] - 1) : p = <<l, j>>
      /\ \A l \in 0..(Levels - 1) : \A j \in 0..(Pow2[Levels - (l + 1)] - 1) :
           /\ 2 * j \in 0..(Pow2[Levels - l] - 1)
           /\ 2 * j + 1 \in 0..(Pow2[Levels - l] - 1)
  <2>1. ASSUME NEW p
        PROVE  p \in All <=> \E l \in 0..Levels : \E j \in 0..(Pow2[Levels - l] - 1) : p = <<l, j>>
    OBVIOUS
  <2>2. ASSUME NEW l \in 0..(Levels - 1), NEW j \in 0..(Pow2[Levels - (l + 1)] - 1)
        PROVE  /\ 2 * j \in 0..(Pow2[Levels - l] - 1)
               /\ 2 * j + 1 \in 0..(Pow2[Levels - l] - 1)
    <3>1. PICK k : k = Levels - (l + 1)
      OBVIOUS
    <3>2. k \in 0..(Levels - 1) /\ k \in 0..Levels /\ k + 1 = Levels - l
      BY <3>1, LevelsAssumption
    <3>3. Pow2[k + 1] = 2 * Pow2[k] /\ Pow2[k] \in Nat
      BY <3>2, Pow2Def, Pow2Type
    <3>4. Pow2[Levels - l] = 2 * Pow2[k] /\ j \in 0..(Pow2[k] - 1)
      BY <3>1, <3>2, <3>3
    <3> QED
      BY <3>3, <3>4
  <2> QED
    BY <2>1, <2>2
<1> HIDE DEF All
<1>2. Eq(g)
  <2>1. ASSUME NEW p \in All
        PROVE  NodeHash(t, p[1], p[2]) =
                 IF p[1] > 0 THEN Hash(g[<<p[1] - 1, 2 * p[2]>>], g[<<p[1] - 1, 2 * p[2] + 1>>])
                 ELSE IF p \in DOMAIN t THEN t[p].hash ELSE Zero
    <3>1. PICK l \in 0..Levels, j \in Nat : p = <<l, j>>
      <4>1. PICK l \in 0..Levels : \E j \in 0..(Pow2[Levels - l] - 1) : p = <<l, j>>
        BY <1>1
      <4> QED
        BY <4>1
    <3>2. l > 0 => j \in 0..(Pow2[Levels - ((l - 1) + 1)] - 1)
      <4>1. PICK l2 \in 0..Levels : \E j2 \in 0..(Pow2[Levels - l2] - 1) : p = <<l2, j2>>
        BY <1>1
      <4>2. l2 = l /\ Levels - ((l - 1) + 1) = Levels - l
        BY <3>1, <4>1, LevelsAssumption
      <4> QED
        BY <3>1, <4>1, <4>2
    <3>3. CASE l = 0
      BY <3>1, <3>3, ZeroHashDef DEF NodeHash
    <3>4. CASE l > 0
      <4>1. l - 1 \in 0..(Levels - 1) /\ (l - 1) + 1 = l /\ l - 1 \in 0..Levels
        BY <3>4, LevelsAssumption
      <4>2. <<l - 1, 2 * j>> \in All /\ <<l - 1, 2 * j + 1>> \in All
        <5>1. /\ 2 * j \in 0..(Pow2[Levels - (l - 1)] - 1)
              /\ 2 * j + 1 \in 0..(Pow2[Levels - (l - 1)] - 1)
          BY <1>1, <3>2, <3>4, <4>1
        <5> QED
          BY <1>1, <4>1, <5>1
      <4>3. /\ g[<<l - 1, 2 * j>>] = NodeHash(t, l - 1, 2 * j)
            /\ g[<<l - 1, 2 * j + 1>>] = NodeHash(t, l - 1, 2 * j + 1)
        BY <4>2
      <4>4. NodeHash(t, l, j) = Hash(NodeHash(t, l - 1, 2 * j), NodeHash(t, l - 1, 2 * j + 1))
        BY <3>1, <4>1, HashFromBelow
      <4> QED
        BY <3>1, <3>4, <4>3, <4>4
    <3> QED
      BY <3>3, <3>4
  <2> QED
    BY <2>1
<1> DEFINE ref == CHOOSE f : Eq(f)
<1>3. Eq(ref)
  <2> HIDE DEF Eq, g
  <2> QED
    BY <1>2
<1>4. ReferenceHash(t) = ref
  BY DEF ReferenceHash, All
<1> HIDE DEF ref, g
<1> DEFINE S == {l \in 0..Levels :
                   \A j \in 0..(Pow2[Levels - l] - 1) : ref[<<l, j>>] = NodeHash(t, l, j)}
<1>5. 0 \in S
  <2>1. ASSUME NEW j \in 0..(Pow2[Levels - 0] - 1) PROVE ref[<<0, j>>] = NodeHash(t, 0, j)
    <3>1. <<0, j>> \in All
      BY <1>1, LevelsAssumption
    <3> QED
      BY <1>3, <3>1, ZeroHashDef DEF NodeHash
  <2> QED
    BY <2>1, LevelsAssumption
<1>6. ASSUME NEW l \in 0..(Levels - 1), l \in S PROVE l + 1 \in S
  <2>1. ASSUME NEW j \in 0..(Pow2[Levels - (l + 1)] - 1)
        PROVE  ref[<<l + 1, j>>] = NodeHash(t, l + 1, j)
    <3>1. <<l + 1, j>> \in All /\ j \in Nat
      BY <1>1, LevelsAssumption
    <3>2. ref[<<l + 1, j>>] = Hash(ref[<<l, 2 * j>>], ref[<<l, 2 * j + 1>>])
      <4>1. PICK p : p = <<l + 1, j>>
        OBVIOUS
      <4>2. p \in All /\ p[1] = l + 1 /\ p[2] = j
        BY <3>1, <4>1
      <4>3. \A q \in All : q[1] > 0 =>
              ref[q] = Hash(ref[<<q[1] - 1, 2 * q[2]>>], ref[<<q[1] - 1, 2 * q[2] + 1>>])
        BY <1>3
      <4>4. (l + 1) - 1 = l /\ l + 1 > 0
        OBVIOUS
      <4> QED
        BY <4>1, <4>2, <4>3, <4>4
    <3>3. /\ ref[<<l, 2 * j>>] = NodeHash(t, l, 2 * j)
          /\ ref[<<l, 2 * j + 1>>] = NodeHash(t, l, 2 * j + 1)
      BY <1>1, <1>6
    <3> QED
      BY <3>1, <3>2, <3>3, HashFromBelow
  <2> QED
    BY <2>1, LevelsAssumption
<1>7. Levels \in S
  <2> HIDE DEF S
  <2>1. \A l \in 0..Levels : l \in S
    BY <1>5, <1>6, SetInduction, LevelsAssumption
  <2> QED
    BY <2>1, LevelsAssumption
<1>8. ReferenceRoot(t) = NodeHash(t, Levels, 0)
  <2>1. 0 \in 0..(Pow2[Levels - Levels] - 1)
    BY Pow2Def, LevelsAssumption
  <2> QED
    BY <1>4, <1>7, <2>1 DEF ReferenceRoot
<1>9. Roots(t) \subseteq {<<Levels, 0>>}
  <2>1. SUFFICES ASSUME NEW p \in DOMAIN t, ~ t[p].parent PROVE p = <<Levels, 0>>
    BY DEF Roots
  <2>2. n \in Nat /\ n <= Capacity /\ DOMAIN t = Positions(n)
    BY Halving DEF Shape
  <2>3. PICK l \in 0..Levels, j \in Nat : p = <<l, j>>
    BY <2>2, PositionsFacts
  <2>4. l = Levels
    <3>1. l \in 0..(Levels - 1) => t[<<l, j>>].parent = TRUE
      BY <2>1, <2>3 DEF Shape
    <3> QED
      BY <2>1, <2>3, <3>1, LevelsAssumption
  <2>5. j = 0
    BY <2>2, <2>3, <2>4, PositionsFacts
  <2> QED
    BY <2>3, <2>4, <2>5
<1> QED
  BY <1>8, <1>9 DEF NodeHash, Roots

-----------------------------------------------------------------------------
(* A root says which leaves it was computed from.                          *)

\* The positions of the complete tree the clients build, and their children.
AllPositions == UNION {{l} \X (0..(Pow2[Levels - l] - 1)) : l \in 0..Levels}
LeafOrZero(t, j) == IF <<0, j>> \in DOMAIN t THEN t[<<0, j>>].hash ELSE Zero

\* Every inner position has two children one level below.
LEMMA ChildPositions ==
  /\ \A p \in AllPositions : \E l \in 0..Levels, j \in Nat :
       /\ p = <<l, j>>
       /\ l > 0 => <<l - 1, 2 * j>> \in AllPositions /\ <<l - 1, 2 * j + 1>> \in AllPositions
  /\ \A l \in 0..Levels, j \in Nat : <<l, j>> \in AllPositions <=> j \in 0..(Pow2[Levels - l] - 1)
<1>1. ASSUME NEW l \in 0..Levels, NEW j \in Nat
      PROVE  <<l, j>> \in AllPositions <=> j \in 0..(Pow2[Levels - l] - 1)
  BY DEF AllPositions
<1>2. ASSUME NEW l \in 1..Levels, NEW j \in 0..(Pow2[Levels - l] - 1)
      PROVE  <<l - 1, 2 * j>> \in AllPositions /\ <<l - 1, 2 * j + 1>> \in AllPositions
  <2>1. PICK k : k = Levels - l
    OBVIOUS
  <2>2. k \in 0..(Levels - 1) /\ k \in 0..Levels /\ k + 1 = Levels - (l - 1) /\ l - 1 \in 0..Levels
    BY <2>1, LevelsAssumption
  <2>3. Pow2[k + 1] = 2 * Pow2[k] /\ Pow2[k] \in Nat
    BY <2>2, Pow2Def, Pow2Type
  <2>4. j \in 0..(Pow2[k] - 1)
    BY <2>1
  <2>5. /\ 2 * j \in 0..(Pow2[k + 1] - 1) /\ 2 * j + 1 \in 0..(Pow2[k + 1] - 1)
        /\ 2 * j \in Nat /\ 2 * j + 1 \in Nat
    BY <2>3, <2>4
  <2> QED
    BY <1>1, <2>2, <2>5
<1>3. ASSUME NEW p \in AllPositions
      PROVE  \E l \in 0..Levels, j \in Nat : p = <<l, j>> /\ j \in 0..(Pow2[Levels - l] - 1)
  BY DEF AllPositions
<1>4. ASSUME NEW p \in AllPositions
      PROVE  \E l \in 0..Levels, j \in Nat :
               /\ p = <<l, j>>
               /\ l > 0 => <<l - 1, 2 * j>> \in AllPositions /\ <<l - 1, 2 * j + 1>> \in AllPositions
  <2>1. PICK l \in 0..Levels, j \in Nat : p = <<l, j>> /\ j \in 0..(Pow2[Levels - l] - 1)
    BY <1>3
  <2>2. l > 0 => l \in 1..Levels
    BY LevelsAssumption
  <2>3. l > 0 => <<l - 1, 2 * j>> \in AllPositions /\ <<l - 1, 2 * j + 1>> \in AllPositions
    BY <1>2, <2>1, <2>2
  <2> QED
    BY <2>1, <2>3
<1> QED
  BY <1>1, <1>4

\* ReferenceHash is a recursive function of the position; it has a value for
\* every list of leaves, and its equation holds.
LEMMA ReferenceLevels ==
  ASSUME NEW t
  PROVE  \E ref :
    /\ ReferenceRoot(t) = ref[<<Levels, 0>>]
    /\ \A j \in 0..(Capacity - 1) : ref[<<0, j>>] = LeafOrZero(t, j)
    /\ \A l \in 0..(Levels - 1) : \A j \in 0..(Pow2[Levels - (l + 1)] - 1) :
         ref[<<l + 1, j>>] = Hash(ref[<<l, 2 * j>>], ref[<<l, 2 * j + 1>>])
<1> DEFINE Below(f, p) == Hash(f[<<p[1] - 1, 2 * p[2]>>], f[<<p[1] - 1, 2 * p[2] + 1>>])
           Base(p) == IF p \in DOMAIN t THEN t[p].hash ELSE Zero
           Eq(f) == f = [p \in AllPositions |-> IF p[1] > 0 THEN Below(f, p) ELSE Base(p)]
           Upto(f, k) ==
             f = [p \in AllPositions |->
                    IF p[1] > k THEN Zero ELSE IF p[1] > 0 THEN Below(f, p) ELSE Base(p)]
           S == {k \in 0..Levels : \E f : Upto(f, k)}
<1> HIDE DEF Base
<1>1. 0 \in S
  <2> DEFINE f == [p \in AllPositions |-> IF p[1] > 0 THEN Zero ELSE Base(p)]
  <2>1. Upto(f, 0)
    OBVIOUS
  <2>2. 0 \in 0..Levels
    BY LevelsAssumption
  <2> HIDE DEF Upto, f
  <2> QED
    BY <2>1, <2>2
<1>2. ASSUME NEW k \in 0..(Levels - 1), k \in S PROVE k + 1 \in S
  <2>1. PICK f : Upto(f, k)
    BY <1>2
  <2> DEFINE g == [p \in AllPositions |-> IF p[1] = k + 1 THEN Below(f, p) ELSE f[p]]
  <2>2. ASSUME NEW p \in AllPositions
        PROVE  g[p] = IF p[1] > k + 1 THEN Zero ELSE IF p[1] > 0 THEN Below(g, p) ELSE Base(p)
    <3>1. PICK l \in 0..Levels, j \in Nat :
            /\ p = <<l, j>>
            /\ l > 0 => <<l - 1, 2 * j>> \in AllPositions /\ <<l - 1, 2 * j + 1>> \in AllPositions
      BY ChildPositions
    <3>2. p[1] = l /\ p[2] = j /\ g[p] = IF l = k + 1 THEN Below(f, p) ELSE f[p]
      BY <3>1
    <3>3. f[p] = IF l > k THEN Zero ELSE IF l > 0 THEN Below(f, p) ELSE Base(p)
      BY <2>1, <3>2
    <3>4. ASSUME l > 0, l <= k + 1 PROVE Below(g, p) = Below(f, p)
      <4>1. /\ g[<<l - 1, 2 * j>>] = f[<<l - 1, 2 * j>>]
            /\ g[<<l - 1, 2 * j + 1>>] = f[<<l - 1, 2 * j + 1>>]
        BY <3>1, <3>4
      <4> QED
        BY <3>2, <4>1
    <3> HIDE DEF g, Below
    <3> QED
      BY <3>2, <3>3, <3>4
  <2>3. Upto(g, k + 1)
    BY <2>2
  <2> HIDE DEF Upto, g
  <2> QED
    BY <2>3, LevelsAssumption
<1>3. \E f : Eq(f)
  <2>1. \A k \in 0..Levels : k \in S
    <3> HIDE DEF S
    <3> QED
      BY <1>1, <1>2, SetInduction, LevelsAssumption
  <2>2. PICK f : Upto(f, Levels)
    <3>1. Levels \in S
      <4> HIDE DEF S
      <4> QED
        BY <2>1, LevelsAssumption
    <3> HIDE DEF Upto
    <3> QED
      BY <3>1
  <2>3. ASSUME NEW p \in AllPositions PROVE ~ (p[1] > Levels)
    <3>1. PICK l \in 0..Levels, j \in Nat : p = <<l, j>>
      BY ChildPositions
    <3> QED
      BY <3>1, LevelsAssumption
  <2>4. Eq(f)
    BY <2>2, <2>3
  <2> HIDE DEF Eq
  <2> QED
    BY <2>4
<1> DEFINE ref == CHOOSE f : Eq(f)
<1>4. Eq(ref)
  <2> HIDE DEF Eq
  <2> QED
    BY <1>3
<1>5. ReferenceHash(t) = ref
  BY DEF ReferenceHash, AllPositions, Base
<1> HIDE DEF ref
<1>6. ASSUME NEW j \in 0..(Capacity - 1) PROVE ref[<<0, j>>] = LeafOrZero(t, j)
  <2>1. <<0, j>> \in AllPositions
    BY ChildPositions, LevelsAssumption DEF Capacity
  <2> QED
    BY <1>4, <2>1 DEF LeafOrZero, Base
<1>7. ASSUME NEW l \in 0..(Levels - 1), NEW j \in 0..(Pow2[Levels - (l + 1)] - 1)
      PROVE  ref[<<l + 1, j>>] = Hash(ref[<<l, 2 * j>>], ref[<<l, 2 * j + 1>>])
  <2>1. PICK p : p = <<l + 1, j>>
    OBVIOUS
  <2>2. p \in AllPositions /\ p[1] = l + 1 /\ p[2] = j
    BY <2>1, ChildPositions, LevelsAssumption
  <2>3. (l + 1) - 1 = l /\ l + 1 > 0
    OBVIOUS
  <2>4. ref[p] = Below(ref, p)
    BY <1>4, <2>2, <2>3
  <2> QED
    BY <2>1, <2>2, <2>3, <2>4
<1>8. ReferenceRoot(t) = ref[<<Levels, 0>>]
  BY <1>5 DEF ReferenceRoot
<1> QED
  BY <1>6, <1>7, <1>8

\* Hash is collision free: equal roots were computed from equal leaves.
LEMMA SameRootSameLeaves ==
  ASSUME NEW t, NEW u, ReferenceRoot(t) = ReferenceRoot(u)
  PROVE  \A j \in 0..(Capacity - 1) : LeafOrZero(t, j) = LeafOrZero(u, j)
<1>1. PICK f : /\ ReferenceRoot(t) = f[<<Levels, 0>>]
               /\ \A j \in 0..(Capacity - 1) : f[<<0, j>>] = LeafOrZero(t, j)
               /\ \A l \in 0..(Levels - 1) : \A j \in 0..(Pow2[Levels - (l + 1)] - 1) :
                    f[<<l + 1, j>>] = Hash(f[<<l, 2 * j>>], f[<<l, 2 * j + 1>>])
  BY ReferenceLevels
<1>2. PICK g : /\ ReferenceRoot(u) = g[<<Levels, 0>>]
               /\ \A j \in 0..(Capacity - 1) : g[<<0, j>>] = LeafOrZero(u, j)
               /\ \A l \in 0..(Levels - 1) : \A j \in 0..(Pow2[Levels - (l + 1)] - 1) :
                    g[<<l + 1, j>>] = Hash(g[<<l, 2 * j>>], g[<<l, 2 * j + 1>>])
  BY ReferenceLevels
<1> DEFINE Same(l, n) == \A j \in 0..(n - 1) : f[<<l, j>>] = g[<<l, j>>]
           S == {k \in 0..Levels : Same(Levels - k, Pow2[k])}
<1>3. 0 \in S
  <2>1. f[<<Levels, 0>>] = g[<<Levels, 0>>]
    BY <1>1, <1>2
  <2>2. Same(Levels, 1)
    BY <2>1
  <2>3. Pow2[0] = 1 /\ Levels - 0 = Levels /\ 0 \in 0..Levels
    BY Pow2Def, LevelsAssumption
  <2> HIDE DEF Same
  <2> QED
    BY <2>2, <2>3
<1>4. ASSUME NEW k \in 0..(Levels - 1), k \in S PROVE k + 1 \in S
  <2>1. PICK l : l = Levels - (k + 1)
    OBVIOUS
  <2>2. l \in 0..(Levels - 1) /\ l + 1 = Levels - k /\ Levels - (l + 1) = k
    BY <2>1, LevelsAssumption
  <2>3. Pow2[k + 1] = 2 * Pow2[k] /\ Pow2[k] \in Nat
    BY Pow2Def, Pow2Type, LevelsAssumption
  <2>4. Same(l + 1, Pow2[k])
    BY <1>4, <2>2
  <2>5. ASSUME NEW j \in 0..(Pow2[k] - 1)
        PROVE  f[<<l, 2 * j>>] = g[<<l, 2 * j>>] /\ f[<<l, 2 * j + 1>>] = g[<<l, 2 * j + 1>>]
    <3>1. f[<<l + 1, j>>] = g[<<l + 1, j>>]
      BY <2>4
    <3>2. j \in 0..(Pow2[Levels - (l + 1)] - 1)
      BY <2>2
    <3>3. /\ f[<<l + 1, j>>] = Hash(f[<<l, 2 * j>>], f[<<l, 2 * j + 1>>])
          /\ g[<<l + 1, j>>] = Hash(g[<<l, 2 * j>>], g[<<l, 2 * j + 1>>])
      BY <1>1, <1>2, <2>2, <3>2
    <3>4. \A x, y, z, w : Hash(x, y) = Hash(z, w) => x = z /\ y = w
      BY DEF Hash
    <3>5. PICK x, y, z, w : /\ x = f[<<l, 2 * j>>] /\ y = f[<<l, 2 * j + 1>>]
                            /\ z = g[<<l, 2 * j>>] /\ w = g[<<l, 2 * j + 1>>]
      OBVIOUS
    <3>6. Hash(x, y) = Hash(z, w)
      BY <3>1, <3>3, <3>5
    <3>7. x = z /\ y = w
      BY <3>4, <3>6
    <3> QED
      BY <3>5, <3>7
  <2>6. Same(l, Pow2[k + 1])
    <3>1. ASSUME NEW i \in 0..(Pow2[k + 1] - 1) PROVE f[<<l, i>>] = g[<<l, i>>]
      <4>1. i \div 2 \in 0..(Pow2[k] - 1) /\ (i = 2 * (i \div 2) \/ i = 2 * (i \div 2) + 1)
        BY <2>3
      <4> QED
        BY <2>5, <4>1
    <3> QED
      BY <3>1
  <2> HIDE DEF Same
  <2> QED
    BY <2>1, <2>6, LevelsAssumption
<1>5. Levels \in S
  <2> HIDE DEF S
  <2>1. \A k \in 0..Levels : k \in S
    BY <1>3, <1>4, SetInduction, LevelsAssumption
  <2> QED
    BY <2>1, LevelsAssumption
<1>6. Same(0, Capacity)
  <2>1. Levels - Levels = 0
    BY LevelsAssumption
  <2> HIDE DEF Same
  <2> QED
    BY <1>5, <2>1 DEF Capacity
<1> QED
  BY <1>1, <1>2, <1>6

\* A user with a leaf in one of two trees of n leaves with equal reference roots
\* has one in the other.
LEMMA SameRootSameMembers ==
  ASSUME NEW t, NEW u, NEW n, Shape(t, n), Shape(u, n), ReferenceRoot(t) = ReferenceRoot(u)
  PROVE  LeafHashes(t) = LeafHashes(u)
<1>1. n \in Nat /\ n <= Capacity
  BY Halving DEF Shape
<1>2. LeafPositions(t) = {<<0, i>> : i \in 0..(n - 1)} /\ LeafPositions(u) = {<<0, i>> : i \in 0..(n - 1)}
  BY LeafCount
<1>3. ASSUME NEW i \in 0..(n - 1) PROVE t[<<0, i>>].hash = u[<<0, i>>].hash
  <2>1. <<0, i>> \in DOMAIN t /\ <<0, i>> \in DOMAIN u
    BY <1>2 DEF LeafPositions
  <2>2. i \in 0..(Capacity - 1)
    BY <1>1, Halving
  <2> QED
    BY <2>1, <2>2, SameRootSameLeaves DEF LeafOrZero
<1> QED
  BY <1>2, <1>3 DEF LeafHashes
=============================================================================
