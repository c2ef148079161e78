------------------------- MODULE InterRepSyncProofs -------------------------
(***************************************************************************)
(* Proofs about InterRepSync, for any groups, pages, synchronisations and  *)
(* failures: the types, that the leaves stand for what InterRep said, and, *)
(* when every group fits in one page, that counted members have leaves and *)
(* that changes of the leaves are published.                               *)
(***************************************************************************)
EXTENDS InterRepSync, SequenceTheorems, FiniteSetTheorems, WellFoundedInduction, TLAPS

LeafRecs == [member : Members, value : Members \cup {Zero}]

\* What synchronisations write of a group, and what they keep of InterRep's
\* description of it.
Docs       == [size : Nat, leaves : Nat]
Tables     == UNION {[S -> Docs] : S \in SUBSET GroupIds}
Jobs       == [g : GroupIds, size : Nat, leaves : Nat]
WithinDocs(t) == \A g \in DOMAIN t : t[g].size <= MaxMembers[g] /\ t[g].leaves <= MaxMembers[g]
WithinJobs(q) ==
  \A i \in DOMAIN q : q[i].size <= MaxMembers[q[i].g] /\ q[i].leaves <= MaxMembers[q[i].g]

-----------------------------------------------------------------------------
(* Sets of numbers, and the members of a group.                            *)

\* A set of natural numbers that is not empty has a least element.
LEMMA SmallestExists ==
  ASSUME NEW T \in SUBSET Nat, T # {}
  PROVE  \E m \in T : \A k \in T : m <= k
<1> DEFINE R == OpToRel(<, Nat)
<1>1. IsWellFoundedOn(R, Nat)
  BY NatLessThanWellFounded, Zenon
<1>2. \A x, y \in Nat : <<x, y>> \in R <=> x < y
  BY DEF OpToRel
<1> HIDE DEF R
<1>3. PICK m \in T : \A k \in T : <<k, m>> \notin R
  BY <1>1, WFMin
<1>4. ASSUME NEW k \in T PROVE m <= k
  <2>1. k \in Nat /\ m \in Nat /\ ~ (k < m)
    BY <1>2, <1>3
  <2> QED
    BY <2>1
<1> QED
  BY <1>4

\* A bounded one has a largest element.
LEMMA LargestExists ==
  ASSUME NEW n \in Nat, NEW S \in SUBSET (0..n), S # {}
  PROVE  \E k \in S : \A y \in S : y <= k
<1> DEFINE T == {m \in 0..n : n - m \in S}
<1>1. T \in SUBSET Nat /\ T # {}
  <2>1. PICK x \in S : TRUE
    OBVIOUS
  <2>2. n - x \in 0..n /\ n - (n - x) = x
    BY <2>1
  <2>3. n - x \in T
    BY <2>1, <2>2
  <2>4. \A m \in T : m \in Nat
    OBVIOUS
  <2> HIDE DEF T
  <2> QED
    BY <2>3, <2>4
<1>2. PICK m \in T : \A k \in T : m <= k
  <2> HIDE DEF T
  <2> QED
    BY <1>1, SmallestExists
<1>3. ASSUME NEW y \in S PROVE y <= n - m
  <2>1. n - y \in 0..n /\ n - (n - y) = y /\ y \in Nat
    OBVIOUS
  <2>2. n - y \in T
    BY <2>1
  <2>3. m <= n - y /\ m \in 0..n
    BY <1>2, <2>2
  <2> QED
    BY <2>1, <2>3
<1>4. n - m \in S
  BY <1>2
<1> QED
  BY <1>3, <1>4

\* The largest number of a set.
LEMMA LargestIs ==
  ASSUME NEW S \in SUBSET Nat, NEW k \in S, \A y \in S : y <= k
  PROVE  Table!Max(S) = k
<1>1. \A y \in S : k >= y
  OBVIOUS
<1>2. \A x \in S : (\A y \in S : x >= y) => x = k
  OBVIOUS
<1> QED
  BY <1>1, <1>2 DEF Table!Max

\* The smallest one.
LEMMA SmallestOf ==
  ASSUME NEW S \in SUBSET Nat, S # {}
  PROVE  Table!Min(S) \in S
<1>1. \E m \in S : \A k \in S : m <= k
  BY SmallestExists
<1> QED
  BY <1>1 DEF Table!Min

\* The smaller of two numbers.
LEMMA SmallerIs ==
  ASSUME NEW a \in Nat, NEW b \in Nat
  PROVE  Table!Min({a, b}) = IF a <= b THEN a ELSE b
<1> DEFINE k == IF a <= b THEN a ELSE b
<1>1. k \in {a, b} /\ \A y \in {a, b} : k <= y
  OBVIOUS
<1>2. \A x \in {a, b} : (\A y \in {a, b} : x <= y) => x = k
  OBVIOUS
<1> QED
  BY <1>1, <1>2 DEF Table!Min

\* The groups InterRep lists, and their members.
LEMMA MembersAre ==
  /\ \A g \in GroupIds : MaxMembers[g] \in Nat
  /\ \A g \in GroupIds : \A i \in 1..MaxMembers[g] : <<g, i>> \in Members
  /\ \A m \in Members : m[1] \in GroupIds /\ m[2] \in 1..MaxMembers[m[1]] /\ m = <<m[1], m[2]>>
  /\ \A i \in DOMAIN Groups : Groups[i] \in GroupIds
  /\ \A m \in Members : m # Zero
<1>1. \A g \in GroupIds : MaxMembers[g] \in Nat
  BY SyncAssumption
<1>2. \A g \in GroupIds : \A i \in 1..MaxMembers[g] : <<g, i>> \in Members
  BY DEF Members
<1>3. ASSUME NEW m \in Members
      PROVE  m[1] \in GroupIds /\ m[2] \in 1..MaxMembers[m[1]] /\ m = <<m[1], m[2]>>
  <2>1. PICK g \in GroupIds : m \in {<<g, i>> : i \in 1..MaxMembers[g]}
    BY DEF Members
  <2>2. PICK i \in 1..MaxMembers[g] : m = <<g, i>>
    BY <2>1
  <2> QED
    BY <2>2
<1>4. \A i \in DOMAIN Groups : Groups[i] \in GroupIds
  BY DEF GroupIds
<1> QED
  BY <1>1, <1>2, <1>3, <1>4, SyncAssumption

\* The fields of a leaf.
LEMMA LeafFields ==
  \A m, v : Table!Leaf(m, v).member = m /\ Table!Leaf(m, v).value = v
BY DEF Table!Leaf

-----------------------------------------------------------------------------
(* The operations of LeafTable.                                            *)

\* appendUsers adds new leaves while the members have none, up to one that has a
\* leaf or to the capacity.
LEMMA FitsFacts ==
  ASSUME NEW L \in Seq(LeafRecs), NEW new \in Seq(LeafRecs)
  PROVE  \E k \in 0..Len(new) :
           /\ k = Table!Fits(L, new)
           /\ \A i \in 1..k : /\ new[i].member \notin Table!LeafMembers(L)
                              /\ Len(L) + i <= Capacity
           /\ k < Len(new) => \/ new[k + 1].member \in Table!LeafMembers(L)
                              \/ Len(L) + (k + 1) > Capacity
<1> DEFINE P(i) == new[i].member \notin Table!LeafMembers(L) /\ Len(L) + i <= Capacity
           F == {y \in 0..Len(new) : \A i \in 1..y : P(i)}
<1>1. Len(new) \in Nat /\ Len(L) \in Nat /\ Capacity \in Nat
  BY SyncAssumption
<1>2. Table!Fits(L, new) = Table!Max(F)
  BY DEF Table!Fits
<1>3. 0 \in F /\ F \in SUBSET (0..Len(new)) /\ F \in SUBSET Nat
  BY <1>1
<1>4. PICK k \in F : \A y \in F : y <= k
  <2> HIDE DEF F
  <2> QED
    BY <1>1, <1>3, LargestExists
<1>5. Table!Max(F) = k
  <2> HIDE DEF F
  <2> QED
    BY <1>3, <1>4, LargestIs
<1>6. k \in 0..Len(new) /\ \A i \in 1..k : P(i)
  BY <1>3, <1>4
<1>7. ASSUME k < Len(new) PROVE ~ P(k + 1)
  <2>1. SUFFICES ASSUME P(k + 1) PROVE FALSE
    OBVIOUS
  <2>2. k + 1 \in 0..Len(new) /\ ~ (k + 1 <= k)
    BY <1>1, <1>6, <1>7
  <2>3. \A i \in 1..(k + 1) : i \in 1..k \/ i = k + 1
    BY <1>6
  <2>4. \A i \in 1..(k + 1) : P(i)
    <3> HIDE DEF P
    <3> QED
      BY <1>6, <2>1, <2>3
  <2>5. k + 1 \in F
    BY <2>2, <2>4
  <2> QED
    BY <1>4, <2>2, <2>5
<1>8. ~ P(k + 1) => (new[k + 1].member \in Table!LeafMembers(L) \/ Len(L) + (k + 1) > Capacity)
  BY <1>1, <1>6
<1> QED
  BY <1>2, <1>5, <1>6, <1>7, <1>8

\* What the leaves are after appendUsers: k new ones, whose members had none.
AppendedAs(L, new, k, M) ==
  /\ M = Table!WithAppended(L, new)
  /\ Len(M) = Len(L) + k
  /\ \A i \in 1..k : new[i].member \notin Table!LeafMembers(L) /\ Len(L) + i <= Capacity
  /\ \A p \in 1..Len(L) : M[p] = L[p]
  /\ \A i \in 1..k : M[Len(L) + i] = new[i]
  /\ k < Len(new) /\ ~ Table!Overflows(L, new) => new[k + 1].member \in Table!LeafMembers(L)

(* WithAppended adds a prefix of the new leaves, all of them or up to the   *)
(* first that exists.                                                       *)
LEMMA AppendedFacts ==
  ASSUME NEW L \in Seq(LeafRecs), NEW new \in Seq(LeafRecs)
  PROVE  \E k \in 0..Len(new), M \in Seq(LeafRecs) : AppendedAs(L, new, k, M)
<1>1. PICK k \in 0..Len(new) :
        /\ k = Table!Fits(L, new)
        /\ \A i \in 1..k : /\ new[i].member \notin Table!LeafMembers(L)
                           /\ Len(L) + i <= Capacity
  BY FitsFacts
<1>2. k \in Nat /\ Len(L) \in Nat /\ Len(new) \in Nat
  OBVIOUS
<1>3. PICK A : A = SubSeq(new, 1, k)
  OBVIOUS
<1>4. A \in Seq(LeafRecs) /\ Len(A) = k /\ \A i \in 1..k : A[i] = new[i]
  <2>1. \A i \in 1..k : new[i] \in LeafRecs
    BY <1>2
  <2> QED
    BY <1>2, <1>3, <2>1, SubSeqProperties
<1>5. /\ L \o A \in Seq(LeafRecs) /\ Len(L \o A) = Len(L) + k
      /\ \A i \in 1..(Len(L) + k) : (L \o A)[i] = IF i <= Len(L) THEN L[i] ELSE A[i - Len(L)]
  BY <1>2, <1>4, ConcatProperties
<1>6. PICK M : M = L \o A
  OBVIOUS
<1>7. M = Table!WithAppended(L, new)
  BY <1>1, <1>3, <1>6 DEF Table!WithAppended
<1>8. \A p \in 1..Len(L) : M[p] = L[p]
  BY <1>2, <1>5, <1>6
<1>9. ASSUME NEW i \in 1..k PROVE M[Len(L) + i] = new[i]
  <2>1. Len(L) + i \in 1..(Len(L) + k) /\ ~ (Len(L) + i <= Len(L)) /\ (Len(L) + i) - Len(L) = i
    BY <1>2
  <2> QED
    BY <1>4, <1>5, <1>6, <2>1
<1>10. ASSUME k < Len(new), ~ Table!Overflows(L, new)
       PROVE  new[k + 1].member \in Table!LeafMembers(L)
  BY <1>1, <1>10 DEF Table!Overflows
<1>11. AppendedAs(L, new, k, M)
  BY <1>1, <1>5, <1>6, <1>7, <1>8, <1>9, <1>10 DEF AppendedAs
<1> QED
  BY <1>5, <1>6, <1>11

\* Which of the leaves removeUsersByIndexes sets to zero: the first with the value
\* of a leaf of a removed member.
RemovedAs(L, g, S, M) ==
  /\ M = Table!WithRemoved(L, g, S)
  /\ Len(M) = Len(L)
  /\ \A p \in 1..Len(L) :
       \/ M[p] = L[p]
       \/ /\ M[p] = Table!Leaf(L[p].member, Zero)
          /\ \E i \in S, q \in 1..Len(L) : L[q].member = <<g, i>> /\ L[p].value = L[q].value

(* WithRemoved blanks leaves of the group and adds none.                    *)
LEMMA RemovedFacts ==
  ASSUME NEW L \in Seq(LeafRecs), NEW g, NEW S \in SUBSET Nat
  PROVE  \E M \in Seq(LeafRecs) : RemovedAs(L, g, S, M)
<1>1. Len(L) \in Nat /\ DOMAIN L = 1..Len(L)
  OBVIOUS
<1> DEFINE doomed == {Table!FirstWith(L, L[Table!PositionOf(L, <<g, i>>)].value) :
                        i \in Table!Removable(L, g, S)}
           M == [p \in DOMAIN L |-> IF p \in doomed THEN Table!Leaf(L[p].member, Zero) ELSE L[p]]
<1>2. M = Table!WithRemoved(L, g, S)
  BY DEF Table!WithRemoved
<1>3. ASSUME NEW p \in doomed
      PROVE  \E i \in S, q \in 1..Len(L) : L[q].member = <<g, i>> /\ L[p].value = L[q].value
  <2>1. PICK i \in Table!Removable(L, g, S) :
          p = Table!FirstWith(L, L[Table!PositionOf(L, <<g, i>>)].value)
    OBVIOUS
  <2>2. i \in S /\ <<g, i>> \in Table!LeafMembers(L)
    BY DEF Table!Removable
  <2>3. \E q \in DOMAIN L : L[q].member = <<g, i>>
    BY <2>2 DEF Table!LeafMembers
  <2>4. PICK q \in DOMAIN L : q = Table!PositionOf(L, <<g, i>>) /\ L[q].member = <<g, i>>
    BY <2>3 DEF Table!PositionOf
  <2> DEFINE T == {x \in DOMAIN L : L[x].value = L[q].value}
  <2>5. T \in SUBSET Nat /\ T # {}
    OBVIOUS
  <2>6. p = Table!Min(T)
    BY <2>1, <2>4 DEF Table!FirstWith
  <2>7. p \in T
    <3> HIDE DEF T
    <3> QED
      BY <2>5, <2>6, SmallestOf
  <2> QED
    BY <1>1, <2>2, <2>4, <2>7
<1>4. ASSUME NEW p \in DOMAIN L
      PROVE  M[p] \in LeafRecs
  <2>1. \A x, v : x \in Members /\ v \in Members \cup {Zero} => Table!Leaf(x, v) \in LeafRecs
    BY DEF Table!Leaf, LeafRecs
  <2>2. L[p] \in LeafRecs
    OBVIOUS
  <2>3. L[p].member \in Members
    BY <2>2 DEF LeafRecs
  <2>4. Table!Leaf(L[p].member, Zero) \in LeafRecs
    BY <2>1, <2>3
  <2> HIDE DEF doomed
  <2> QED
    BY <2>2, <2>4
<1>5. M \in [1..Len(L) -> LeafRecs]
  <2> HIDE DEF doomed
  <2> QED
    BY <1>1, <1>4
<1>6. M \in Seq(LeafRecs) /\ Len(M) = Len(L)
  <2> HIDE DEF M
  <2> QED
    BY <1>1, <1>5
<1>7. ASSUME NEW p \in 1..Len(L)
      PROVE  \/ M[p] = L[p]
             \/ /\ M[p] = Table!Leaf(L[p].member, Zero)
                /\ \E i \in S, q \in 1..Len(L) :
                     L[q].member = <<g, i>> /\ L[p].value = L[q].value
  <2> HIDE DEF doomed
  <2> QED
    BY <1>1, <1>3
<1> HIDE DEF M
<1>8. RemovedAs(L, g, S, M)
  BY <1>2, <1>6, <1>7 DEF RemovedAs
<1> QED
  BY <1>6, <1>8

-----------------------------------------------------------------------------
(* Types.                                                                  *)

Removals == {"removedPage", "removeUsers", "updateSize"}
AtGroup  == {"membersPage", "appendUsers", "saveGroup"} \cup Removals
Labels   == {"idle", "getGroups", "getGroupsInDb", "group"} \cup AtGroup

NetOK    == net \in [GroupIds -> Seq(BOOLEAN)] /\ \A g \in GroupIds : Len(net[g]) <= MaxMembers[g]
LeavesOK == leaves \in Seq(LeafRecs) /\ Len(leaves) <= Capacity
LocalsOK ==
  /\ pc \in [Syncs -> Labels] /\ todo \in [Syncs -> Seq(Jobs)] /\ inDb \in [Syncs -> Tables]
  /\ offset \in [Syncs -> Nat] /\ loaded \in [Syncs -> Seq(LeafRecs)]
  /\ gone \in [Syncs -> SUBSET Nat] /\ changed \in [Syncs -> BOOLEAN]
GroupsOK ==
  /\ groups \in Tables /\ WithinDocs(groups)
  /\ \A s \in Syncs : WithinDocs(inDb[s]) /\ DOMAIN inDb[s] \subseteq DOMAIN groups

\* A synchronisation that works on a group has one, and looks for removed
\* members only of a group that was in the database when it started.
Run(s) ==
  /\ WithinJobs(todo[s])
  /\ pc[s] \in AtGroup => todo[s] # <<>>
  /\ pc[s] \in Removals => Job(s).g \in DOMAIN inDb[s]

TypeInv ==
  /\ NetOK /\ LeavesOK /\ LocalsOK /\ GroupsOK
  /\ \A s \in Syncs : Run(s)
  /\ faults \in 0..MaxFaults /\ disturbed \in BOOLEAN

\* The empty tables, queues and pages.
LEMMA Empties ==
  /\ <<>> \in Seq(Jobs) /\ WithinJobs(<<>>)
  /\ <<>> \in Tables /\ WithinDocs(<<>>) /\ DOMAIN <<>> = {}
  /\ <<>> \in Seq(LeafRecs) /\ <<>> \in Seq(BOOLEAN) /\ Len(<<>>) = 0
<1>1. /\ <<>> \in Seq(Jobs) /\ <<>> \in Seq(LeafRecs) /\ <<>> \in Seq(BOOLEAN)
      /\ Len(<<>>) = 0 /\ DOMAIN <<>> = {}
  OBVIOUS
<1>2. <<>> \in [{} -> Docs]
  OBVIOUS
<1>3. <<>> \in Tables
  BY <1>2 DEF Tables
<1> QED
  BY <1>1, <1>3 DEF WithinJobs, WithinDocs

\* A table of groups is a function, and so is one with a group written.
LEMMA TableFacts ==
  /\ \A t \in Tables : DOMAIN t \subseteq GroupIds /\ \A g \in DOMAIN t : t[g] \in Docs
  /\ \A t : (DOMAIN t \subseteq GroupIds /\ t = [g \in DOMAIN t |-> t[g]]
               /\ \A g \in DOMAIN t : t[g] \in Docs) => t \in Tables
<1>1. ASSUME NEW t \in Tables PROVE DOMAIN t \subseteq GroupIds /\ \A g \in DOMAIN t : t[g] \in Docs
  <2>1. PICK S \in SUBSET GroupIds : t \in [S -> Docs]
    BY DEF Tables
  <2> QED
    BY <2>1
<1>2. ASSUME NEW t, DOMAIN t \subseteq GroupIds, t = [g \in DOMAIN t |-> t[g]],
             \A g \in DOMAIN t : t[g] \in Docs
      PROVE  t \in Tables
  <2>1. t \in [DOMAIN t -> Docs]
    BY <1>2
  <2> QED
    BY <1>2, <2>1 DEF Tables
<1> QED
  BY <1>1, <1>2

\* The group at hand, and those after it.
LEMMA JobFacts ==
  ASSUME TypeInv, NEW s \in Syncs, todo[s] # <<>>
  PROVE  /\ Job(s) \in Jobs /\ Job(s).g \in GroupIds
         /\ Job(s).size \in 0..MaxMembers[Job(s).g] /\ Job(s).leaves \in 0..MaxMembers[Job(s).g]
         /\ MaxMembers[Job(s).g] \in Nat
         /\ Tail(todo[s]) \in Seq(Jobs) /\ WithinJobs(Tail(todo[s]))
<1>1. todo[s] \in Seq(Jobs) /\ WithinJobs(todo[s])
  BY DEF TypeInv, LocalsOK, Run
<1>2. PICK q \in Seq(Jobs) : q = todo[s] /\ q # <<>> /\ WithinJobs(q)
  BY <1>1
<1>3. Len(q) \in Nat /\ Len(q) >= 1 /\ DOMAIN q = 1..Len(q) /\ Head(q) = q[1] /\ 1 \in DOMAIN q
  BY <1>2
<1>4. q[1] \in Jobs /\ q[1].size <= MaxMembers[q[1].g] /\ q[1].leaves <= MaxMembers[q[1].g]
  BY <1>2, <1>3 DEF WithinJobs
<1>5. /\ q[1].g \in GroupIds /\ q[1].size \in Nat /\ q[1].leaves \in Nat
      /\ MaxMembers[q[1].g] \in Nat
  BY <1>4, MembersAre DEF Jobs
<1>6. PICK r \in Seq(Jobs) : /\ r = Tail(q) /\ Len(r) = Len(q) - 1
                             /\ \A i \in 1..Len(r) : r[i] = q[i + 1]
  BY <1>2, HeadTailProperties
<1>7. WithinJobs(r)
  <2>1. ASSUME NEW i \in DOMAIN r
        PROVE  r[i].size <= MaxMembers[r[i].g] /\ r[i].leaves <= MaxMembers[r[i].g]
    <3>1. i \in 1..Len(r) /\ i + 1 \in DOMAIN q
      BY <1>3, <1>6
    <3> QED
      BY <1>2, <1>6, <3>1 DEF WithinJobs
  <2> QED
    BY <2>1 DEF WithinJobs
<1> QED
  BY <1>2, <1>3, <1>4, <1>5, <1>6, <1>7 DEF Job

\* What InterRep tells of a group.
LEMMA DescriptionFacts ==
  ASSUME TypeInv, NEW g \in GroupIds
  PROVE  /\ Description(g) \in Jobs /\ Description(g).g = g
         /\ Description(g).leaves = Len(net[g]) /\ Description(g).size = SizeOf(g)
         /\ SizeOf(g) \in 0..Len(net[g]) /\ Len(net[g]) \in 0..MaxMembers[g]
<1>1. /\ net[g] \in Seq(BOOLEAN) /\ Len(net[g]) \in Nat /\ Len(net[g]) <= MaxMembers[g]
      /\ MaxMembers[g] \in Nat
  BY MembersAre DEF TypeInv, NetOK
<1>2. PICK n \in Nat : n = Len(net[g]) /\ DOMAIN net[g] = 1..n
  BY <1>1
<1>3. IsFiniteSet(1..n) /\ Cardinality(1..n) = n
  BY FS_Interval
<1>4. {i \in DOMAIN net[g] : net[g][i]} \in SUBSET (1..n)
  BY <1>2
<1>5. SizeOf(g) \in Nat /\ SizeOf(g) <= n
  BY <1>3, <1>4, FS_Subset, FS_CardinalityType DEF SizeOf
<1> QED
  BY <1>1, <1>2, <1>5 DEF Description, NumberOfLeaves, Jobs

\* What a step of synchronisation s keeps: the types of the locals, what is known of
\* its place in the queue, and the locals of the others.
Same(t) ==
  /\ pc'[t] = pc[t] /\ todo'[t] = todo[t] /\ offset'[t] = offset[t]
  /\ loaded'[t] = loaded[t] /\ gone'[t] = gone[t]
OnlyMoves(s) ==
  /\ pc' \in [Syncs -> Labels] /\ todo' \in [Syncs -> Seq(Jobs)]
  /\ offset' \in [Syncs -> Nat] /\ loaded' \in [Syncs -> Seq(LeafRecs)]
  /\ gone' \in [Syncs -> SUBSET Nat]
  /\ \A t \in Syncs : Run(t)'
  /\ \A t \in Syncs \ {s} : Same(t)

\* A synchronisation whose locals are the same is where it was.
LEMMA SameRun ==
  ASSUME TypeInv, NEW t \in Syncs, Same(t), inDb'[t] = inDb[t]
  PROVE  Run(t)'
<1>1. Run(t)
  BY DEF TypeInv
<1> QED
  BY <1>1 DEF Run, Job, Same

\* What the synchronizer does with its queue.
LEMMA NextGroupRun ==
  ASSUME TypeInv, NEW s \in Syncs, todo[s] # <<>>, NextGroup(s), inDb' = inDb
  PROVE  /\ OnlyMoves(s)
         /\ pc'[s] = "group" /\ todo'[s] = Tail(todo[s]) /\ gone'[s] = {} /\ loaded'[s] = <<>>
<1>1. /\ pc' = [pc EXCEPT ![s] = "group"] /\ todo' = [todo EXCEPT ![s] = Tail(todo[s])]
      /\ offset' = [offset EXCEPT ![s] = 0] /\ loaded' = [loaded EXCEPT ![s] = <<>>]
      /\ gone' = [gone EXCEPT ![s] = {}]
  BY DEF NextGroup, LoadFrom, Goto
<1>2. PICK r \in Seq(Jobs) : r = Tail(todo[s]) /\ WithinJobs(r)
  BY JobFacts
<1>3. PICK e \in Seq(LeafRecs) : e = <<>>
  BY Empties
<1>4. LocalsOK
  BY DEF TypeInv
<1>5. /\ pc' \in [Syncs -> Labels] /\ todo' \in [Syncs -> Seq(Jobs)]
      /\ offset' \in [Syncs -> Nat] /\ loaded' \in [Syncs -> Seq(LeafRecs)]
      /\ gone' \in [Syncs -> SUBSET Nat]
  BY <1>1, <1>2, <1>3, <1>4 DEF LocalsOK, Labels
<1>6. /\ pc'[s] = "group" /\ todo'[s] = r /\ gone'[s] = {} /\ loaded'[s] = <<>>
      /\ \A t \in Syncs \ {s} : Same(t)
  BY <1>1, <1>2, <1>3, <1>4 DEF LocalsOK, Same
<1>7. ASSUME NEW t \in Syncs PROVE Run(t)'
  <2>1. CASE t = s
    BY <1>2, <1>6, <2>1 DEF Run, AtGroup, Removals
  <2>2. CASE t # s
    BY <1>6, <2>2, SameRun
  <2> QED
    BY <2>1, <2>2
<1> QED
  BY <1>2, <1>5, <1>6, <1>7 DEF OnlyMoves

\* It starts to load members, or removed members, of the group at hand.
LEMMA LoadFromRun ==
  ASSUME TypeInv, NEW s \in Syncs, todo[s] # <<>>, NEW l \in AtGroup,
         l \in Removals => Job(s).g \in DOMAIN inDb[s],
         NEW first \in Nat, LoadFrom(s, l, first), todo' = todo, inDb' = inDb
  PROVE  /\ OnlyMoves(s)
         /\ pc'[s] = l /\ offset'[s] = first /\ gone'[s] = {} /\ loaded'[s] = <<>>
<1>1. /\ pc' = [pc EXCEPT ![s] = l]
      /\ offset' = [offset EXCEPT ![s] = first] /\ loaded' = [loaded EXCEPT ![s] = <<>>]
      /\ gone' = [gone EXCEPT ![s] = {}]
  BY DEF LoadFrom, Goto
<1>2. PICK e \in Seq(LeafRecs) : e = <<>>
  BY Empties
<1>3. LocalsOK
  BY DEF TypeInv
<1>4. /\ pc' \in [Syncs -> Labels] /\ todo' \in [Syncs -> Seq(Jobs)]
      /\ offset' \in [Syncs -> Nat] /\ loaded' \in [Syncs -> Seq(LeafRecs)]
      /\ gone' \in [Syncs -> SUBSET Nat]
  BY <1>1, <1>2, <1>3 DEF LocalsOK, Labels
<1>5. /\ pc'[s] = l /\ offset'[s] = first /\ gone'[s] = {} /\ loaded'[s] = <<>>
      /\ \A t \in Syncs \ {s} : Same(t)
  BY <1>1, <1>2, <1>3 DEF LocalsOK, Same
<1>6. ASSUME NEW t \in Syncs PROVE Run(t)'
  <2>1. CASE t = s
    <3>1. WithinJobs(todo[s])
      BY DEF TypeInv, Run
    <3> QED
      BY <1>5, <2>1, <3>1 DEF Run, Job
  <2>2. CASE t # s
    BY <1>5, <2>2, SameRun
  <2> QED
    BY <2>1, <2>2
<1> QED
  BY <1>4, <1>5, <1>6 DEF OnlyMoves

\* After the members of a group: its removed members, or the next group.
LEMMA AfterMembersRun ==
  ASSUME TypeInv, NEW s \in Syncs, todo[s] # <<>>, AfterMembers(s), inDb' = inDb
  PROVE  /\ OnlyMoves(s) /\ gone'[s] = {} /\ loaded'[s] = <<>>
         /\ \/ pc'[s] = "removedPage" /\ todo'[s] = todo[s] /\ NeedsRemovals(s)
            \/ pc'[s] = "group" /\ todo'[s] = Tail(todo[s])
<1>1. CASE NeedsRemovals(s)
  <2>1. LoadFrom(s, "removedPage", 0) /\ todo' = todo
    BY <1>1 DEF AfterMembers
  <2>2. Job(s).g \in DOMAIN inDb[s]
    BY <1>1 DEF NeedsRemovals, IsNew
  <2>3. "removedPage" \in AtGroup
    BY DEF AtGroup, Removals
  <2> QED
    BY <1>1, <2>1, <2>2, <2>3, LoadFromRun
<1>2. CASE ~ NeedsRemovals(s)
  BY <1>2, NextGroupRun DEF AfterMembers
<1> QED
  BY <1>1, <1>2

\* A page arrived; the next one is asked for, or the loop ends.
LEMMA AfterPageRun ==
  ASSUME TypeInv, NEW s \in Syncs, todo[s] # <<>>, NEW l \in AtGroup, pc[s] \in AtGroup,
         l \in Removals => Job(s).g \in DOMAIN inDb[s], NEW n, NEW to,
         AfterPage(s, n, to, l), todo' = todo, inDb' = inDb,
         loaded' \in [Syncs -> Seq(LeafRecs)], gone' \in [Syncs -> SUBSET Nat],
         \A t \in Syncs \ {s} : loaded'[t] = loaded[t] /\ gone'[t] = gone[t]
  PROVE  OnlyMoves(s) /\ pc'[s] \in {pc[s], l}
<1>1. LocalsOK
  BY DEF TypeInv
<1>2. NextOffset(s) \in Nat
  <2>1. offset[s] + PageSize \in Nat /\ MaxMembers[Job(s).g] \in Nat
    BY <1>1, JobFacts, SyncAssumption DEF LocalsOK
  <2> QED
    BY <2>1, SmallerIs DEF NextOffset
<1>3. /\ pc' \in [Syncs -> Labels] /\ offset' \in [Syncs -> Nat] /\ pc'[s] \in {pc[s], l}
      /\ \A t \in Syncs \ {s} : pc'[t] = pc[t] /\ offset'[t] = offset[t]
  <2>1. l \in Labels
    BY DEF Labels
  <2> QED
    BY <1>1, <1>2, <2>1 DEF AfterPage, Goto, LocalsOK
<1>4. ASSUME NEW t \in Syncs PROVE Run(t)'
  <2>1. CASE t = s
    <3>1. Run(s)
      BY DEF TypeInv
    <3> QED
      BY <1>3, <2>1, <3>1 DEF Run, Job
  <2>2. CASE t # s
    BY <1>3, <2>2, SameRun DEF Same
  <2> QED
    BY <2>1, <2>2
<1> QED
  BY <1>1, <1>3, <1>4 DEF OnlyMoves, LocalsOK, Same

\* The members on a page, as InterRep tells of them.
Told(g, i) == Table!Leaf(<<g, i>>, IF net[g][i] THEN <<g, i>> ELSE Zero)

(* A page of members is the range of the group that InterRep has now.       *)
LEMMA PageFacts ==
  ASSUME TypeInv, NEW g \in GroupIds, NEW from \in Nat
  PROVE  \E P \in Seq(LeafRecs), h \in Nat :
           /\ P = MembersPage(g, from)
           /\ h = IF from + PageSize <= Len(net[g]) THEN from + PageSize ELSE Len(net[g])
           /\ Len(P) = IF from + 1 <= h THEN h - from ELSE 0
           /\ \A i \in 1..Len(P) : from + i \in DOMAIN net[g] /\ P[i] = Told(g, from + i)
<1> DEFINE all == [i \in DOMAIN net[g] |-> Told(g, i)]
<1>1. PICK n \in Nat : n = Len(net[g]) /\ DOMAIN net[g] = 1..n /\ n <= MaxMembers[g]
  BY DescriptionFacts DEF TypeInv, NetOK
<1>2. ASSUME NEW i \in 1..n PROVE Told(g, i) \in LeafRecs
  <2>1. <<g, i>> \in Members
    BY <1>1, MembersAre
  <2> QED
    BY <2>1 DEF Told, Table!Leaf, LeafRecs
<1>3. Len(all) = n /\ \A i \in 1..n : all[i] = Told(g, i) /\ all[i] \in LeafRecs
  <2>1. all = [i \in 1..n |-> Told(g, i)]
    BY <1>1
  <2>2. all \in [1..n -> LeafRecs]
    BY <1>2, <2>1
  <2>3. Len(all) = n
    <3> HIDE DEF all
    <3> QED
      BY <1>1, <2>2
  <2> QED
    BY <1>2, <2>1, <2>3
<1>4. from + PageSize \in Nat /\ PageSize \in Nat
  BY SyncAssumption
<1>5. PICK h \in Nat : h = (IF from + PageSize <= n THEN from + PageSize ELSE n) /\ h <= n
  BY <1>4
<1>6. Table!Min({from + PageSize, Len(all)}) = h
  <2> HIDE DEF all
  <2> QED
    BY <1>1, <1>3, <1>4, <1>5, SmallerIs
<1>7. PICK P : P = SubSeq(all, from + 1, h)
  OBVIOUS
<1>8. P = MembersPage(g, from)
  <2>1. MembersPage(g, from) = SubSeq(all, from + 1, Table!Min({from + PageSize, Len(all)}))
    BY DEF MembersPage, Told
  <2> HIDE DEF all
  <2> QED
    BY <1>6, <1>7, <2>1
<1>9. /\ P \in Seq(LeafRecs) /\ Len(P) = (IF from + 1 <= h THEN h - from ELSE 0)
      /\ \A i \in 1..(h - from) : P[i] = all[from + i]
  <2> HIDE DEF all
  <2>1. \A i \in (from + 1)..h : all[i] \in LeafRecs
    BY <1>1, <1>3, <1>5
  <2>2. from + 1 \in Int /\ h \in Int
    OBVIOUS
  <2>3. /\ P \in Seq(LeafRecs)
        /\ Len(P) = (IF from + 1 <= h THEN h - (from + 1) + 1 ELSE 0)
        /\ \A i \in 1..(h - (from + 1) + 1) : P[i] = all[(from + 1) + i - 1]
    BY <1>7, <2>1, <2>2, SubSeqProperties
  <2>4. \A i \in 1..(h - from) : P[i] = all[from + i]
    <3>1. ASSUME NEW i \in 1..(h - from) PROVE P[i] = all[from + i]
      <4>1. i \in 1..(h - (from + 1) + 1) /\ (from + 1) + i - 1 = from + i
        OBVIOUS
      <4> QED
        BY <2>3, <4>1
    <3> QED
      BY <3>1
  <2> QED
    BY <2>3, <2>4
<1>10. ASSUME NEW i \in 1..Len(P) PROVE from + i \in DOMAIN net[g] /\ P[i] = Told(g, from + i)
  <2>1. i \in 1..(h - from) /\ from + i \in 1..n
    BY <1>5, <1>9
  <2> HIDE DEF all
  <2> QED
    BY <1>1, <1>3, <1>9, <2>1
<1> HIDE DEF all
<1> QED
  BY <1>1, <1>5, <1>8, <1>9, <1>10

\* A table M that was made of leaves and new entries: each of its leaves is one of
\* them, or one that was set to zero as a removal in group g of an index of S does.
MadeOf(M, new, g, S) ==
  \A p \in 1..Len(M) :
    \/ p <= Len(leaves) /\ M[p] = leaves[p]
    \/ \E i \in 1..Len(new) : M[p] = new[i]
    \/ /\ p <= Len(leaves) /\ M[p] = Table!Leaf(leaves[p].member, Zero)
       /\ \E i \in S, q \in 1..Len(leaves) :
            leaves[q].member = <<g, i>> /\ leaves[p].value = leaves[q].value
TableOf(M) == M \in Seq(LeafRecs) /\ Len(M) <= Capacity

\* appendUsers with the members that were loaded, or with the first of them.
LEMMA AppendedTable ==
  ASSUME TypeInv, NEW s \in Syncs, NEW n \in 0..Len(loaded[s]), NEW new, NEW g, NEW S,
         new = loaded[s] \/ new = SubSeq(loaded[s], 1, n)
  PROVE  /\ TableOf(Table!WithAppended(leaves, new))
         /\ MadeOf(Table!WithAppended(leaves, new), loaded[s], g, S)
<1>1. PICK L, l : L = leaves /\ l = loaded[s] /\ L \in Seq(LeafRecs) /\ l \in Seq(LeafRecs)
                  /\ Len(L) <= Capacity /\ Len(L) \in Nat /\ Len(l) \in Nat /\ Capacity \in Nat
  BY SyncAssumption DEF TypeInv, LeavesOK, LocalsOK
<1>2. new \in Seq(LeafRecs) /\ \A i \in 1..Len(new) : \E j \in 1..Len(l) : new[i] = l[j]
  <2>1. CASE new = l
    BY <1>1, <2>1
  <2>2. CASE new = SubSeq(l, 1, n)
    <3>1. \A i \in 1..n : l[i] \in LeafRecs
      BY <1>1
    <3>2. new \in Seq(LeafRecs) /\ Len(new) = n /\ \A i \in 1..n : new[i] = l[i]
      BY <1>1, <2>2, <3>1, SubSeqProperties
    <3> QED
      BY <1>1, <3>2
  <2> QED
    BY <1>1, <2>1, <2>2
<1>3. PICK k \in 0..Len(new), M \in Seq(LeafRecs) : AppendedAs(L, new, k, M)
  BY <1>1, <1>2, AppendedFacts
<1> USE DEF AppendedAs
<1>4. k \in Nat /\ Len(M) <= Capacity
  <2>1. k \in Nat
    BY <1>2, <1>3
  <2>2. CASE k = 0
    BY <1>1, <1>3, <2>2
  <2>3. CASE k # 0
    BY <1>1, <1>3, <2>1, <2>3
  <2> QED
    BY <2>1, <2>2, <2>3
<1>5. ASSUME NEW p \in 1..Len(M)
      PROVE  \/ p <= Len(L) /\ M[p] = L[p]
             \/ \E i \in 1..Len(l) : M[p] = l[i]
  <2>1. CASE p <= Len(L)
    BY <1>1, <1>3, <2>1
  <2>2. CASE ~ (p <= Len(L))
    <3>1. p - Len(L) \in 1..k /\ Len(L) + (p - Len(L)) = p /\ p - Len(L) \in 1..Len(new)
      BY <1>1, <1>3, <1>4, <2>2
    <3>2. M[p] = new[p - Len(L)]
      BY <1>3, <3>1
    <3> QED
      BY <1>2, <3>1, <3>2
  <2> QED
    BY <2>1, <2>2
<1> QED
  BY <1>1, <1>3, <1>4, <1>5 DEF TableOf, MadeOf

\* removeUsersByIndexes with indexes that were loaded.
LEMMA RemovedTable ==
  ASSUME TypeInv, NEW g, NEW new, NEW S \in SUBSET Nat, NEW S2 \in SUBSET S
  PROVE  /\ TableOf(Table!WithRemoved(leaves, g, S2))
         /\ MadeOf(Table!WithRemoved(leaves, g, S2), new, g, S)
<1>1. PICK L : L = leaves /\ L \in Seq(LeafRecs) /\ Len(L) <= Capacity
  BY DEF TypeInv, LeavesOK
<1>2. PICK M \in Seq(LeafRecs) : RemovedAs(L, g, S2, M)
  BY <1>1, RemovedFacts
<1> USE DEF RemovedAs
<1>3. TableOf(M)
  BY <1>1, <1>2 DEF TableOf
<1>4. MadeOf(M, new, g, S)
  <2>1. \A p \in 1..Len(L) : p <= Len(L)
    BY <1>1
  <2>2. ASSUME NEW p \in 1..Len(M)
        PROVE  \/ p <= Len(L) /\ M[p] = L[p]
               \/ /\ p <= Len(L) /\ M[p] = Table!Leaf(L[p].member, Zero)
                  /\ \E i \in S, q \in 1..Len(L) :
                       L[q].member = <<g, i>> /\ L[p].value = L[q].value
    BY <1>2, <2>1
  <2> QED
    BY <1>1, <2>2 DEF MadeOf
<1> QED
  BY <1>1, <1>2, <1>3, <1>4

\* The leaves as they are.
LEMMA SameTable ==
  ASSUME TypeInv, NEW new, NEW g, NEW S
  PROVE  TableOf(leaves) /\ MadeOf(leaves, new, g, S)
<1>1. \A p \in 1..Len(leaves) : p <= Len(leaves)
  BY DEF TypeInv, LeavesOK
<1> QED
  BY <1>1 DEF TypeInv, LeavesOK, TableOf, MadeOf

\* An operation on the leaves may have got anywhere.
LEMMA HalfTable ==
  ASSUME TypeInv, NEW s \in Syncs, NEW M \in Half(s)
  PROVE  TableOf(M) /\ MadeOf(M, loaded[s], Job(s).g, gone[s])
<1>1. CASE pc[s] = "appendUsers"
  <2>1. PICK n \in 0..Len(loaded[s]) : M = Table!WithAppended(leaves, SubSeq(loaded[s], 1, n))
    BY <1>1 DEF Half
  <2> QED
    BY <2>1, AppendedTable
<1>2. CASE pc[s] = "removeUsers"
  <2>1. PICK n : M = Table!WithRemoved(leaves, Job(s).g, {i \in gone[s] : i < n})
    BY <1>2 DEF Half
  <2>2. {i \in gone[s] : i < n} \in SUBSET gone[s] /\ gone[s] \in SUBSET Nat
    BY DEF TypeInv, LocalsOK
  <2> QED
    BY <2>1, <2>2, RemovedTable
<1>3. CASE pc[s] \notin {"appendUsers", "removeUsers"}
  <2>1. M = leaves
    BY <1>3 DEF Half
  <2> QED
    BY <2>1, SameTable
<1> QED
  BY <1>1, <1>2, <1>3

\* A document written for the group at hand.
LEMMA WriteFacts ==
  ASSUME TypeInv, NEW s \in Syncs, todo[s] # <<>>, NEW doc \in Docs,
         doc.size <= MaxMembers[Job(s).g], doc.leaves <= MaxMembers[Job(s).g], Write(s, doc)
  PROVE  /\ groups' \in Tables /\ WithinDocs(groups')
         /\ DOMAIN groups' = DOMAIN groups \cup {Job(s).g} /\ groups'[Job(s).g] = doc
         /\ \A g \in DOMAIN groups \ {Job(s).g} : groups'[g] = groups[g]
         /\ changed' \in [Syncs -> BOOLEAN] /\ changed'[s] = TRUE
         /\ \A t \in Syncs \ {s} : changed'[t] = changed[t]
<1>1. PICK j \in GroupIds : j = Job(s).g
  BY JobFacts
<1>2. groups \in Tables /\ WithinDocs(groups)
  BY DEF TypeInv, GroupsOK
<1>3. DOMAIN groups \subseteq GroupIds /\ \A g \in DOMAIN groups : groups[g] \in Docs
  BY <1>2, TableFacts
<1>4. groups' = [h \in DOMAIN groups \cup {j} |-> IF h = j THEN doc ELSE groups[h]]
  BY <1>1 DEF Write
<1>5. PICK T : T = groups'
  OBVIOUS
<1>6. /\ DOMAIN T = DOMAIN groups \cup {j} /\ T[j] = doc
      /\ \A g \in DOMAIN groups \ {j} : T[g] = groups[g]
      /\ T = [g \in DOMAIN T |-> T[g]]
  BY <1>4, <1>5
<1>7. T \in Tables
  <2>1. DOMAIN T \subseteq GroupIds /\ \A g \in DOMAIN T : T[g] \in Docs
    BY <1>3, <1>6
  <2> QED
    BY <1>6, <2>1, TableFacts
<1>8. WithinDocs(T)
  BY <1>1, <1>2, <1>6 DEF WithinDocs
<1>9. changed' \in [Syncs -> BOOLEAN] /\ changed'[s] = TRUE
      /\ \A t \in Syncs \ {s} : changed'[t] = changed[t]
  BY DEF Write, TypeInv, LocalsOK
<1> QED
  BY <1>1, <1>5, <1>6, <1>7, <1>8, <1>9

\* The documents the synchronizer writes.
LEMMA RecordFacts ==
  ASSUME TypeInv, NEW s \in Syncs, todo[s] # <<>>
  PROVE  /\ Record(s) \in Docs /\ Record(s).leaves = Job(s).leaves
         /\ Record(s).size <= MaxMembers[Job(s).g] /\ Record(s).leaves <= MaxMembers[Job(s).g]
         /\ pc[s] \in Removals =>
              LET doc == [groups[Job(s).g] EXCEPT !.size = Job(s).size]
              IN  /\ Job(s).g \in DOMAIN groups
                  /\ doc \in Docs /\ doc.leaves = groups[Job(s).g].leaves
                  /\ doc.size <= MaxMembers[Job(s).g] /\ doc.leaves <= MaxMembers[Job(s).g]
<1>1. /\ Job(s).g \in GroupIds /\ MaxMembers[Job(s).g] \in Nat
      /\ Job(s).size \in 0..MaxMembers[Job(s).g] /\ Job(s).leaves \in 0..MaxMembers[Job(s).g]
  BY JobFacts
<1>2. /\ DOMAIN inDb[s] \subseteq DOMAIN groups
      /\ \A g \in DOMAIN groups : /\ groups[g] \in Docs
                                  /\ groups[g].size <= MaxMembers[g] /\ groups[g].leaves <= MaxMembers[g]
  BY TableFacts DEF TypeInv, GroupsOK, WithinDocs
<1>3. KnownSize(s) \in Nat /\ KnownSize(s) <= MaxMembers[Job(s).g]
  <2>1. CASE IsNew(s)
    BY <1>1, <2>1 DEF KnownSize
  <2>2. CASE ~ IsNew(s)
    BY <1>1, <1>2, <2>2 DEF KnownSize, IsNew, Docs
  <2> QED
    BY <2>1, <2>2
<1>4. /\ Record(s) \in Docs /\ Record(s).leaves = Job(s).leaves /\ Record(s).size = KnownSize(s)
  BY <1>1, <1>3 DEF Record, Docs
<1>5. ASSUME pc[s] \in Removals
      PROVE  LET doc == [groups[Job(s).g] EXCEPT !.size = Job(s).size]
             IN  /\ Job(s).g \in DOMAIN groups
                 /\ doc \in Docs /\ doc.leaves = groups[Job(s).g].leaves
                 /\ doc.size <= MaxMembers[Job(s).g] /\ doc.leaves <= MaxMembers[Job(s).g]
  <2>1. Job(s).g \in DOMAIN groups
    BY <1>2, <1>5 DEF TypeInv, Run
  <2>2. PICK d \in Docs : d = groups[Job(s).g] /\ d.leaves <= MaxMembers[Job(s).g]
    BY <1>2, <2>1
  <2>3. PICK e : e = [d EXCEPT !.size = Job(s).size]
    OBVIOUS
  <2>4. e \in Docs /\ e.size = Job(s).size /\ e.leaves = d.leaves
    BY <1>1, <2>2, <2>3 DEF Docs
  <2> QED
    BY <1>1, <2>1, <2>2, <2>3, <2>4
<1> QED
  BY <1>1, <1>3, <1>4, <1>5

\* The types after a step of a synchronisation.
LEMMA TypesAfter ==
  ASSUME TypeInv, NEW s \in Syncs, OnlyMoves(s), NetOK', TableOf(leaves'), GroupsOK',
         inDb' \in [Syncs -> Tables], changed' \in [Syncs -> BOOLEAN],
         faults' = faults \/ Failed, disturbed' \in BOOLEAN
  PROVE  TypeInv'
<1>1. faults' \in 0..MaxFaults
  BY SyncAssumption DEF TypeInv, Failed
<1>2. LocalsOK'
  BY DEF OnlyMoves, LocalsOK
<1>3. LeavesOK'
  BY DEF TableOf, LeavesOK
<1> QED
  BY <1>1, <1>2, <1>3 DEF TypeInv, OnlyMoves

\* Nothing else changes.
LEMMA SameNet == ASSUME TypeInv, net' = net PROVE NetOK'
BY DEF TypeInv, NetOK

(* GroupsOK speaks only of the groups and what the database holds of them.  *)
LEMMA SameGroups == ASSUME TypeInv, groups' = groups, inDb' = inDb PROVE GroupsOK'
BY DEF TypeInv, GroupsOK, WithinDocs

\* InterRep changes.
LEMMA NetStep ==
  ASSUME TypeInv, NEW g \in GroupIds, Register(g) \/ \E i \in DOMAIN net[g] : Unregister(g, i)
  PROVE  /\ TypeInv'
         /\ \A h \in GroupIds \ {g} : net'[h] = net[h]
         /\ DOMAIN net[g] \subseteq DOMAIN net'[g]
         /\ \A i \in DOMAIN net[g] : ~ net[g][i] => ~ net'[g][i]
         /\ Len(net'[g]) >= Len(net[g])
         /\ UNCHANGED <<faults, db, published, pc, locals>>
<1>1. PICK n \in Seq(BOOLEAN) : n = net[g] /\ Len(n) \in Nat /\ DOMAIN n = 1..Len(n)
  BY DEF TypeInv, NetOK
<1> DEFINE Grown(m) ==
             /\ net' = [net EXCEPT ![g] = m] /\ Len(m) <= MaxMembers[g] /\ Len(m) >= Len(n)
             /\ DOMAIN n \subseteq DOMAIN m
             /\ \A i \in DOMAIN n : ~ n[i] => ~ m[i]
             /\ UNCHANGED <<faults, db, published, pc, locals>> /\ disturbed' = (disturbed \/ ~ Idle)
<1>2. \E m \in Seq(BOOLEAN) : Grown(m)
  <2>1. CASE Register(g)
    <3>1. PICK m : m = Append(n, TRUE)
      OBVIOUS
    <3>2. /\ m \in Seq(BOOLEAN) /\ Len(m) = Len(n) + 1
          /\ \A i \in 1..Len(n) : m[i] = n[i]
      <4>1. PICK b \in BOOLEAN : b = TRUE
        OBVIOUS
      <4>2. /\ Append(n, b) \in Seq(BOOLEAN) /\ Len(Append(n, b)) = Len(n) + 1
            /\ \A i \in 1..Len(n) : Append(n, b)[i] = n[i]
        BY AppendProperties
      <4> QED
        BY <3>1, <4>1, <4>2, Zenon
    <3>3. Len(m) <= MaxMembers[g]
      BY <1>1, <2>1, <3>2, MembersAre DEF Register, NumberOfLeaves
    <3>4. net' = [net EXCEPT ![g] = m]
      BY <1>1, <2>1, <3>1 DEF Register
    <3>5. DOMAIN m = 1..Len(m)
      BY <3>2
    <3>6. DOMAIN n \subseteq DOMAIN m /\ Len(m) >= Len(n)
      BY <1>1, <3>2, <3>5
    <3> QED
      BY <1>1, <2>1, <3>2, <3>3, <3>4, <3>6 DEF Register
  <2>2. ASSUME NEW i \in DOMAIN net[g], Unregister(g, i)
        PROVE  \E m \in Seq(BOOLEAN) : Grown(m)
    <3>1. PICK m : m = [n EXCEPT ![i] = FALSE]
      OBVIOUS
    <3>2. n \in [1..Len(n) -> BOOLEAN]
      BY <1>1
    <3>3. m \in [1..Len(n) -> BOOLEAN] /\ \A j \in 1..Len(n) : ~ n[j] => ~ m[j]
      BY <1>1, <3>1, <3>2
    <3>4. m \in Seq(BOOLEAN) /\ Len(m) = Len(n)
      BY <1>1, <3>3
    <3>5. net' = [net EXCEPT ![g] = m]
      <4>1. net \in [GroupIds -> Seq(BOOLEAN)]
        BY DEF TypeInv, NetOK
      <4> QED
        BY <1>1, <2>2, <3>1, <4>1 DEF Unregister
    <3>6. Len(m) <= MaxMembers[g]
      BY <1>1, <3>4 DEF TypeInv, NetOK
    <3>7. DOMAIN m = DOMAIN n /\ \A j \in DOMAIN n : ~ n[j] => ~ m[j]
      BY <1>1, <3>3
    <3>8. Len(m) >= Len(n)
      BY <1>1, <3>4
    <3>9. UNCHANGED <<faults, db, published, pc, locals>> /\ disturbed' = (disturbed \/ ~ Idle)
      BY <2>2 DEF Unregister
    <3>10. Grown(m)
      BY <3>5, <3>6, <3>7, <3>8, <3>9, Zenon
    <3> QED
      BY <3>4, <3>10
  <2> QED
    BY <2>1, <2>2
<1>3. PICK m \in Seq(BOOLEAN) : Grown(m)
  BY <1>2
<1>4. net' \in [GroupIds -> Seq(BOOLEAN)] /\ net'[g] = m /\ \A h \in GroupIds \ {g} : net'[h] = net[h]
  BY <1>3 DEF TypeInv, NetOK
<1>5. NetOK'
  BY <1>3, <1>4 DEF TypeInv, NetOK
<1>6. LeavesOK' /\ LocalsOK' /\ GroupsOK' /\ (faults' \in 0..MaxFaults) /\ disturbed' \in BOOLEAN
  BY <1>3 DEF TypeInv, LeavesOK, LocalsOK, GroupsOK, db, locals, WithinDocs
<1>7. ASSUME NEW t \in Syncs PROVE Run(t)'
  BY <1>3, SameRun DEF Same, locals
<1> QED
  BY <1>1, <1>3, <1>4, <1>5, <1>6, <1>7 DEF TypeInv

\* A step that only goes on to a place outside the groups.
LEMMA GotoRun ==
  ASSUME TypeInv, NEW s \in Syncs, NEW l \in Labels \ AtGroup, Goto(s, l),
         UNCHANGED <<offset, loaded, gone>>,
         todo' \in [Syncs -> Seq(Jobs)], WithinJobs(todo'[s]),
         \A t \in Syncs \ {s} : todo'[t] = todo[t] /\ inDb'[t] = inDb[t]
  PROVE  OnlyMoves(s) /\ pc'[s] = l
<1>1. LocalsOK
  BY DEF TypeInv
<1>2. /\ pc' \in [Syncs -> Labels] /\ pc'[s] = l /\ \A t \in Syncs \ {s} : pc'[t] = pc[t]
  BY <1>1 DEF Goto, LocalsOK
<1>3. \A t \in Syncs \ {s} : Same(t)
  BY <1>2 DEF Same
<1>4. ASSUME NEW t \in Syncs PROVE Run(t)'
  <2>1. CASE t = s
    BY <1>2, <2>1 DEF Run, AtGroup
  <2>2. CASE t # s
    BY <1>3, <2>2, SameRun
  <2> QED
    BY <2>1, <2>2
<1> QED
  BY <1>1, <1>2, <1>3, <1>4 DEF OnlyMoves, LocalsOK

\* The request for the list of groups.
LEMMA GetAllGroupsRun ==
  ASSUME TypeInv, NEW s \in Syncs, GetAllGroups(s)
  PROVE  /\ OnlyMoves(s) /\ pc'[s] = "getGroupsInDb"
         /\ \/ /\ Answered /\ Len(todo'[s]) = Len(Groups)
               /\ \A i \in 1..Len(Groups) : todo'[s][i] = Description(Groups[i])
            \/ Failed /\ todo'[s] = <<>>
<1>1. PICK n \in Nat : n = Len(Groups) /\ DOMAIN Groups = 1..n
  BY SyncAssumption
<1>2. PICK all : all = [i \in DOMAIN Groups |-> Description(Groups[i])]
  OBVIOUS
<1>3. ASSUME NEW i \in 1..n
      PROVE  /\ Description(Groups[i]) \in Jobs
             /\ Description(Groups[i]).size <= MaxMembers[Description(Groups[i]).g]
             /\ Description(Groups[i]).leaves <= MaxMembers[Description(Groups[i]).g]
  <2>1. PICK g \in GroupIds : g = Groups[i]
    BY <1>1, MembersAre
  <2>2. /\ Description(g) \in Jobs /\ Description(g).g = g
        /\ Description(g).leaves = Len(net[g]) /\ Description(g).size = SizeOf(g)
        /\ SizeOf(g) \in 0..Len(net[g]) /\ Len(net[g]) \in 0..MaxMembers[g] /\ MaxMembers[g] \in Nat
    BY DescriptionFacts, MembersAre
  <2> QED
    BY <2>1, <2>2
<1>4. all \in [1..n -> Jobs] /\ \A i \in 1..n : all[i] = Description(Groups[i])
  BY <1>1, <1>2, <1>3
<1>5. all \in Seq(Jobs) /\ Len(all) = n /\ DOMAIN all = 1..n
  BY <1>4
<1>6. WithinJobs(all)
  BY <1>3, <1>4, <1>5 DEF WithinJobs
<1>7. PICK q \in Seq(Jobs) :
        /\ todo' = [todo EXCEPT ![s] = q] /\ WithinJobs(q)
        /\ \/ Answered /\ q = all
           \/ Failed /\ q = <<>>
  BY <1>2, <1>5, <1>6, Empties DEF GetAllGroups
<1>8. /\ todo' \in [Syncs -> Seq(Jobs)] /\ todo'[s] = q
      /\ \A t \in Syncs \ {s} : todo'[t] = todo[t]
  BY <1>7 DEF TypeInv, LocalsOK
<1>9. "getGroupsInDb" \in Labels \ AtGroup
  BY DEF Labels, AtGroup, Removals
<1>10. Goto(s, "getGroupsInDb") /\ UNCHANGED <<offset, loaded, gone, inDb>>
  BY DEF GetAllGroups
<1>11. OnlyMoves(s) /\ pc'[s] = "getGroupsInDb"
  BY <1>7, <1>8, <1>9, <1>10, GotoRun
<1> QED
  BY <1>1, <1>4, <1>5, <1>7, <1>8, <1>11

\* The locals end with the synchronisation.
LEMMA ForgetRun ==
  ASSUME TypeInv, NEW s \in Syncs, Forget(s)
  PROVE  /\ OnlyMoves(s) /\ pc'[s] = "idle" /\ gone'[s] = {} /\ loaded'[s] = <<>> /\ todo'[s] = <<>>
         /\ inDb' \in [Syncs -> Tables] /\ changed' \in [Syncs -> BOOLEAN]
         /\ inDb'[s] = <<>> /\ changed'[s] = FALSE
         /\ \A t \in Syncs \ {s} : inDb'[t] = inDb[t] /\ changed'[t] = changed[t]
<1>1. PICK q \in Seq(Jobs) : q = <<>> /\ WithinJobs(q)
  BY Empties
<1>2. PICK d \in Tables : d = <<>>
  BY Empties
<1>3. PICK e \in Seq(LeafRecs) : e = <<>>
  BY Empties
<1>4. /\ pc' = [pc EXCEPT ![s] = "idle"] /\ todo' = [todo EXCEPT ![s] = q]
      /\ inDb' = [inDb EXCEPT ![s] = d] /\ offset' = [offset EXCEPT ![s] = 0]
      /\ loaded' = [loaded EXCEPT ![s] = e] /\ gone' = [gone EXCEPT ![s] = {}]
      /\ changed' = [changed EXCEPT ![s] = FALSE]
  BY <1>1, <1>2, <1>3 DEF Forget, Goto
<1>5. LocalsOK
  BY DEF TypeInv
<1>6. /\ pc' \in [Syncs -> Labels] /\ todo' \in [Syncs -> Seq(Jobs)]
      /\ offset' \in [Syncs -> Nat] /\ loaded' \in [Syncs -> Seq(LeafRecs)]
      /\ gone' \in [Syncs -> SUBSET Nat]
  BY <1>4, <1>5 DEF LocalsOK, Labels
<1>7. /\ inDb' \in [Syncs -> Tables] /\ changed' \in [Syncs -> BOOLEAN]
      /\ inDb'[s] = d /\ changed'[s] = FALSE
      /\ \A t \in Syncs \ {s} : inDb'[t] = inDb[t] /\ changed'[t] = changed[t]
  BY <1>4, <1>5 DEF LocalsOK
<1>8. /\ pc'[s] = "idle" /\ todo'[s] = q /\ gone'[s] = {} /\ loaded'[s] = e
      /\ \A t \in Syncs \ {s} : Same(t)
  BY <1>4, <1>5 DEF LocalsOK, Same
<1>9. ASSUME NEW t \in Syncs PROVE Run(t)'
  <2>1. CASE t = s
    BY <1>1, <1>8, <2>1 DEF Run, AtGroup, Removals
  <2>2. CASE t # s
    BY <1>7, <1>8, <2>2, SameRun
  <2> QED
    BY <2>1, <2>2
<1> QED
  BY <1>1, <1>2, <1>3, <1>6, <1>7, <1>8, <1>9 DEF OnlyMoves

\* A group is at hand in the steps that concern one.
LEMMA AtHand ==
  ASSUME TypeInv, NEW s \in Syncs, pc[s] \in AtGroup
  PROVE  todo[s] # <<>>
BY DEF TypeInv, Run

\* Appending a page of members keeps the locals' types.
LEMMA MembersArriveRun ==
  ASSUME TypeInv, NEW s \in Syncs, pc[s] = "membersPage", NEW page \in Seq(LeafRecs),
         MembersArrive(s, page), UNCHANGED <<todo, inDb, gone>>
  PROVE  OnlyMoves(s) /\ loaded'[s] = loaded[s] \o page /\ pc'[s] \in {"membersPage", "appendUsers"}
<1>1. loaded \in [Syncs -> Seq(LeafRecs)] /\ gone \in [Syncs -> SUBSET Nat]
  BY DEF TypeInv, LocalsOK
<1>2. PICK l \in Seq(LeafRecs) : l = loaded[s] \o page
  <2>1. loaded[s] \in Seq(LeafRecs)
    BY <1>1
  <2> QED
    BY <2>1, ConcatProperties
<1>3. loaded' = [loaded EXCEPT ![s] = l]
  BY <1>2 DEF MembersArrive
<1>4. /\ loaded' \in [Syncs -> Seq(LeafRecs)] /\ loaded'[s] = l
      /\ \A t \in Syncs \ {s} : loaded'[t] = loaded[t] /\ gone'[t] = gone[t]
  BY <1>1, <1>3
<1>5. pc[s] \in AtGroup /\ todo[s] # <<>>
  BY AtHand DEF AtGroup
<1>6. AfterPage(s, Len(page), Job(s).leaves, "appendUsers")
  BY DEF MembersArrive
<1>7. "appendUsers" \in AtGroup /\ "appendUsers" \notin Removals
  BY DEF AtGroup, Removals
<1>8. gone' \in [Syncs -> SUBSET Nat] /\ todo' = todo /\ inDb' = inDb
  BY <1>1
<1>9. OnlyMoves(s) /\ pc'[s] \in {pc[s], "appendUsers"}
  BY <1>4, <1>5, <1>6, <1>7, <1>8, AfterPageRun
<1> QED
  BY <1>2, <1>4, <1>9

\* So does adding a page of removed indexes.
LEMMA RemovedArriveRun ==
  ASSUME TypeInv, NEW s \in Syncs, pc[s] = "removedPage", NEW page \in SUBSET Nat,
         RemovedArrive(s, page), UNCHANGED <<todo, inDb, loaded>>
  PROVE  OnlyMoves(s) /\ gone'[s] = gone[s] \cup page /\ pc'[s] \in {"removedPage", "removeUsers"}
<1>1. loaded \in [Syncs -> Seq(LeafRecs)] /\ gone \in [Syncs -> SUBSET Nat]
  BY DEF TypeInv, LocalsOK
<1>2. gone' = [gone EXCEPT ![s] = gone[s] \cup page]
  BY DEF RemovedArrive
<1>3. gone[s] \cup page \in SUBSET Nat
  BY <1>1
<1>4. /\ gone' \in [Syncs -> SUBSET Nat] /\ gone'[s] = gone[s] \cup page
      /\ \A t \in Syncs \ {s} : loaded'[t] = loaded[t] /\ gone'[t] = gone[t]
  BY <1>1, <1>2, <1>3
<1>5. pc[s] \in AtGroup /\ todo[s] # <<>>
  BY AtHand DEF AtGroup, Removals
<1>6. AfterPage(s, Cardinality(page), Job(s).size, "removeUsers")
  BY DEF RemovedArrive
<1>7. "removeUsers" \in AtGroup
  BY DEF AtGroup, Removals
<1>8. Job(s).g \in DOMAIN inDb[s]
  BY DEF TypeInv, Run, Removals
<1>9. loaded' \in [Syncs -> Seq(LeafRecs)] /\ todo' = todo /\ inDb' = inDb
  BY <1>1
<1>10. OnlyMoves(s) /\ pc'[s] \in {pc[s], "removeUsers"}
  BY <1>4, <1>5, <1>6, <1>7, <1>8, <1>9, AfterPageRun
<1> QED
  BY <1>4, <1>10

\* The indexes on a page of removed members.
LEMMA RemovedPageFacts ==
  ASSUME TypeInv, NEW g \in GroupIds, NEW from
  PROVE  /\ RemovedPage(g, from) \in SUBSET Nat
         /\ \A i \in RemovedPage(g, from) : i \in DOMAIN net[g] /\ ~ net[g][i]
<1>1. DOMAIN net[g] \subseteq Nat
  BY DEF TypeInv, NetOK
<1>2. RemovedPage(g, from) \subseteq {i \in DOMAIN net[g] : ~ net[g][i]}
  BY DEF RemovedPage
<1> QED
  BY <1>1, <1>2

\* A document is written, or not, and the synchronisation moves on.
LEMMA GroupsAfterWrite ==
  ASSUME TypeInv, groups' \in Tables, WithinDocs(groups'), DOMAIN groups \subseteq DOMAIN groups',
         inDb' = inDb
  PROVE  GroupsOK'
BY DEF TypeInv, GroupsOK, WithinDocs

\* No step of a synchronisation breaks the types.
LEMMA TypeOfStep ==
  ASSUME TypeInv, NEW s \in Syncs, Step(s)
  PROVE  TypeInv' /\ OnlyMoves(s)
<1>1. LocalsOK /\ TableOf(leaves) /\ disturbed \in BOOLEAN /\ groups \in Tables
  BY DEF TypeInv, LeavesOK, TableOf, GroupsOK
<1>2. CASE GetAllGroups(s)
  <2>1. OnlyMoves(s)
    BY <1>2, GetAllGroupsRun
  <2>2. net' = net /\ groups' = groups /\ leaves' = leaves /\ inDb' = inDb /\ changed' = changed
    BY <1>2 DEF GetAllGroups, db
  <2>3. (faults' = faults \/ Failed) /\ disturbed' \in BOOLEAN
    BY <1>1, <1>2 DEF GetAllGroups, Answered, Failed
  <2> QED
    BY <1>1, <2>1, <2>2, <2>3, SameNet, SameGroups, TypesAfter DEF TableOf, LocalsOK
<1>3. CASE GetGroupsInDb(s)
  <2>1. /\ net' = net /\ groups' = groups /\ leaves' = leaves /\ changed' = changed
        /\ faults' = faults /\ disturbed' = disturbed
        /\ todo' = todo /\ offset' = offset /\ loaded' = loaded /\ gone' = gone
    BY <1>3 DEF GetGroupsInDb, env, db
  <2>2. /\ inDb' \in [Syncs -> Tables] /\ inDb'[s] = groups
        /\ \A t \in Syncs \ {s} : inDb'[t] = inDb[t]
    BY <1>1, <1>3 DEF GetGroupsInDb, LocalsOK
  <2>3. "group" \in Labels \ AtGroup /\ WithinJobs(todo[s])
    BY DEF Labels, AtGroup, Removals, TypeInv, Run
  <2>4. OnlyMoves(s)
    BY <1>1, <1>3, <2>1, <2>2, <2>3, GotoRun DEF GetGroupsInDb, LocalsOK
  <2>5. GroupsOK'
    BY <2>1, <2>2 DEF TypeInv, GroupsOK, WithinDocs
  <2> QED
    BY <1>1, <2>1, <2>2, <2>4, <2>5, SameNet, TypesAfter DEF TableOf, LocalsOK
<1>4. CASE Group(s)
  <2>1. /\ net' = net /\ groups' = groups /\ leaves' = leaves /\ inDb' = inDb /\ changed' = changed
        /\ faults' = faults /\ disturbed' = disturbed /\ todo[s] # <<>>
    BY <1>4 DEF Group, env, db
  <2>2. CASE NeedsMembers(s)
    <3>1. LoadFrom(s, "membersPage", FirstPage(s)) /\ todo' = todo
      BY <1>4, <2>2 DEF Group
    <3>2. FirstPage(s) \in Nat
      BY <1>1, TableFacts DEF FirstPage, IsNew, LocalsOK, Docs
    <3>3. "membersPage" \in AtGroup /\ "membersPage" \notin Removals
      BY DEF AtGroup, Removals
    <3>4. OnlyMoves(s)
      BY <2>1, <3>1, <3>2, <3>3, LoadFromRun
    <3> QED
      BY <1>1, <2>1, <3>4, SameNet, SameGroups, TypesAfter DEF TableOf, LocalsOK
  <2>3. CASE ~ NeedsMembers(s)
    <3>1. OnlyMoves(s)
      BY <1>4, <2>1, <2>3, AfterMembersRun DEF Group
    <3> QED
      BY <1>1, <2>1, <3>1, SameNet, SameGroups, TypesAfter DEF TableOf, LocalsOK
  <2> QED
    BY <2>2, <2>3
<1>5. CASE LoadMembers(s)
  <2>1. /\ net' = net /\ groups' = groups /\ leaves' = leaves /\ inDb' = inDb /\ changed' = changed
        /\ todo' = todo /\ gone' = gone /\ pc[s] = "membersPage"
    BY <1>5 DEF LoadMembers, db
  <2>2. (faults' = faults \/ Failed) /\ disturbed' \in BOOLEAN
    BY <1>1, <1>5 DEF LoadMembers, Answered, Failed
  <2>3. Job(s).g \in GroupIds /\ offset[s] \in Nat
    BY <1>1, <2>1, AtHand, JobFacts DEF AtGroup, LocalsOK
  <2>4. PICK page \in Seq(LeafRecs) : MembersArrive(s, page)
    <3>1. MembersPage(Job(s).g, offset[s]) \in Seq(LeafRecs)
      BY <2>3, PageFacts
    <3> QED
      BY <1>5, <3>1, Empties DEF LoadMembers
  <2>5. OnlyMoves(s)
    BY <2>1, <2>4, MembersArriveRun
  <2> QED
    BY <1>1, <2>1, <2>2, <2>5, SameNet, SameGroups, TypesAfter DEF TableOf, LocalsOK
<1>6. CASE AppendUsers(s)
  <2>1. /\ net' = net /\ groups' = groups /\ inDb' = inDb /\ changed' = changed
        /\ leaves' = Table!WithAppended(leaves, loaded[s])
        /\ faults' = faults /\ pc[s] = "appendUsers"
    BY <1>6 DEF AppendUsers
  <2>2. disturbed' \in BOOLEAN
    BY <1>1, <1>6 DEF AppendUsers
  <2>3. TableOf(leaves')
    <3>1. Len(loaded[s]) \in 0..Len(loaded[s])
      BY <1>1 DEF LocalsOK
    <3> QED
      BY <2>1, <3>1, AppendedTable
  <2>4. todo[s] # <<>>
    BY <2>1, AtHand DEF AtGroup
  <2>5. OnlyMoves(s)
    <3>1. CASE AfterMembers(s)
      BY <2>1, <2>4, <3>1, AfterMembersRun
    <3>2. CASE Goto(s, "saveGroup") /\ UNCHANGED <<todo, offset, loaded, gone>>
      <4>1. pc' \in [Syncs -> Labels] /\ pc'[s] = "saveGroup" /\ \A t \in Syncs \ {s} : pc'[t] = pc[t]
        BY <1>1, <3>2 DEF Goto, LocalsOK, Labels, AtGroup
      <4>2. \A t \in Syncs \ {s} : Same(t) /\ Run(t)'
        BY <2>1, <3>2, <4>1, SameRun DEF Same
      <4>3. Run(s)'
        BY <2>1, <2>4, <3>2, <4>1 DEF TypeInv, Run, Job, Removals
      <4> QED
        BY <1>1, <3>2, <4>1, <4>2, <4>3 DEF OnlyMoves, LocalsOK
    <3> QED
      BY <1>6, <3>1, <3>2 DEF AppendUsers
  <2> QED
    BY <1>1, <2>1, <2>2, <2>3, <2>5, SameNet, SameGroups, TypesAfter DEF LocalsOK
<1>7. CASE SaveGroup(s)
  <2>1. /\ net' = net /\ leaves' = leaves /\ inDb' = inDb
        /\ faults' = faults /\ disturbed' = disturbed /\ pc[s] = "saveGroup"
    BY <1>7 DEF SaveGroup, env
  <2>2. todo[s] # <<>>
    BY <2>1, AtHand DEF AtGroup
  <2>3. OnlyMoves(s)
    BY <1>7, <2>1, <2>2, AfterMembersRun DEF SaveGroup
  <2>4. GroupsOK' /\ changed' \in [Syncs -> BOOLEAN]
    <3>1. CASE UNCHANGED <<groups, changed>>
      BY <1>1, <2>1, <3>1, SameGroups DEF LocalsOK
    <3>2. CASE Write(s, Record(s))
      BY <2>1, <2>2, <3>2, RecordFacts, WriteFacts, GroupsAfterWrite
    <3> QED
      BY <1>7, <3>1, <3>2 DEF SaveGroup
  <2> QED
    BY <1>1, <2>1, <2>3, <2>4, SameNet, TypesAfter DEF TableOf, LocalsOK
<1>8. CASE LoadRemoved(s)
  <2>1. /\ net' = net /\ groups' = groups /\ leaves' = leaves /\ inDb' = inDb /\ changed' = changed
        /\ todo' = todo /\ loaded' = loaded /\ pc[s] = "removedPage"
    BY <1>8 DEF LoadRemoved, db
  <2>2. (faults' = faults \/ Failed) /\ disturbed' \in BOOLEAN
    BY <1>1, <1>8 DEF LoadRemoved, Answered, Failed
  <2>3. Job(s).g \in GroupIds
    BY <2>1, AtHand, JobFacts DEF AtGroup, Removals
  <2>4. PICK page \in SUBSET Nat : RemovedArrive(s, page)
    <3>1. RemovedPage(Job(s).g, offset[s]) \in SUBSET Nat
      BY <2>3, RemovedPageFacts
    <3> QED
      BY <1>8, <3>1 DEF LoadRemoved
  <2>5. OnlyMoves(s)
    BY <2>1, <2>4, RemovedArriveRun
  <2> QED
    BY <1>1, <2>1, <2>2, <2>5, SameNet, SameGroups, TypesAfter DEF TableOf, LocalsOK
<1>9. CASE RemoveUsers(s)
  <2>1. /\ net' = net /\ groups' = groups /\ inDb' = inDb /\ changed' = changed
        /\ leaves' = Table!WithRemoved(leaves, Job(s).g, gone[s])
        /\ faults' = faults /\ disturbed' = disturbed /\ pc[s] = "removeUsers"
    BY <1>9 DEF RemoveUsers, env
  <2>2. TableOf(leaves')
    <3>1. gone[s] \in SUBSET Nat /\ gone[s] \in SUBSET gone[s]
      BY <1>1 DEF LocalsOK
    <3> QED
      BY <2>1, <3>1, RemovedTable
  <2>3. todo[s] # <<>>
    BY <2>1, AtHand DEF AtGroup, Removals
  <2>4. OnlyMoves(s)
    <3>1. CASE NextGroup(s)
      BY <2>1, <2>3, <3>1, NextGroupRun
    <3>2. CASE Goto(s, "updateSize") /\ UNCHANGED <<todo, offset, loaded, gone>>
      <4>1. pc' \in [Syncs -> Labels] /\ pc'[s] = "updateSize" /\ \A t \in Syncs \ {s} : pc'[t] = pc[t]
        BY <1>1, <3>2 DEF Goto, LocalsOK, Labels, AtGroup, Removals
      <4>2. \A t \in Syncs \ {s} : Same(t) /\ Run(t)'
        BY <2>1, <3>2, <4>1, SameRun DEF Same
      <4>3. Run(s)'
        BY <2>1, <2>3, <3>2, <4>1 DEF TypeInv, Run, Job, Removals
      <4> QED
        BY <1>1, <3>2, <4>1, <4>2, <4>3 DEF OnlyMoves, LocalsOK
    <3> QED
      BY <1>9, <3>1, <3>2 DEF RemoveUsers
  <2> QED
    BY <1>1, <2>1, <2>2, <2>4, SameNet, SameGroups, TypesAfter DEF LocalsOK
<1>10. CASE UpdateSize(s)
  <2>1. /\ net' = net /\ leaves' = leaves /\ inDb' = inDb
        /\ faults' = faults /\ disturbed' = disturbed /\ pc[s] = "updateSize"
    BY <1>10 DEF UpdateSize, env
  <2>2. todo[s] # <<>> /\ pc[s] \in Removals
    BY <2>1, AtHand DEF AtGroup, Removals
  <2>3. OnlyMoves(s)
    BY <1>10, <2>1, <2>2, NextGroupRun DEF UpdateSize
  <2>4. PICK doc : doc = [groups[Job(s).g] EXCEPT !.size = Job(s).size]
    OBVIOUS
  <2>5. Write(s, doc)
    BY <1>10, <2>4 DEF UpdateSize
  <2>6. doc \in Docs /\ doc.size <= MaxMembers[Job(s).g] /\ doc.leaves <= MaxMembers[Job(s).g]
    BY <2>2, <2>4, RecordFacts
  <2>7. GroupsOK' /\ changed' \in [Syncs -> BOOLEAN]
    BY <2>1, <2>2, <2>5, <2>6, WriteFacts, GroupsAfterWrite
  <2> QED
    BY <1>1, <2>1, <2>3, <2>7, SameNet, TypesAfter DEF TableOf, LocalsOK
<1>11. CASE Finish(s)
  <2>1. /\ net' = net /\ groups' = groups /\ leaves' = leaves
        /\ faults' = faults /\ disturbed' = disturbed /\ Forget(s)
    BY <1>11 DEF Finish, env, db
  <2>2. GroupsOK'
    BY <2>1, ForgetRun, Empties DEF TypeInv, GroupsOK, WithinDocs
  <2> QED
    BY <1>1, <2>1, <2>2, ForgetRun, SameNet, TypesAfter DEF TableOf
<1> QED
  BY <1>2, <1>3, <1>4, <1>5, <1>6, <1>7, <1>8, <1>9, <1>10, <1>11 DEF Step

\* Nor do the timer and the failures.
LEMMA TypeOfOthers ==
  ASSUME TypeInv, NEW s \in Syncs, Start(s) \/ Interrupt(s) \/ Caught(s)
  PROVE  TypeInv' /\ OnlyMoves(s)
<1>1. LocalsOK /\ TableOf(leaves) /\ disturbed \in BOOLEAN /\ groups \in Tables
  BY DEF TypeInv, LeavesOK, TableOf, GroupsOK
<1>2. CASE Start(s)
  <2>1. /\ net' = net /\ groups' = groups /\ leaves' = leaves /\ UNCHANGED locals
    BY <1>2 DEF Start, db
  <2>2. (faults' = faults \/ Failed) /\ disturbed' \in BOOLEAN
    BY <1>1, <1>2 DEF Start, Answered, Failed
  <2>3. "getGroups" \in Labels \ AtGroup /\ WithinJobs(todo[s])
    BY DEF Labels, AtGroup, Removals, TypeInv, Run
  <2>4. OnlyMoves(s)
    BY <1>1, <1>2, <2>1, <2>3, GotoRun DEF Start, locals, LocalsOK
  <2> QED
    BY <1>1, <2>1, <2>2, <2>4, SameNet, SameGroups, TypesAfter DEF TableOf, LocalsOK, locals
<1>3. CASE Interrupt(s)
  <2>1. /\ net' = net /\ groups' = groups /\ Failed /\ Forget(s) /\ leaves' \in Half(s)
    BY <1>3 DEF Interrupt
  <2>2. GroupsOK'
    BY <2>1, ForgetRun, Empties DEF TypeInv, GroupsOK, WithinDocs
  <2>3. TableOf(leaves') /\ disturbed' \in BOOLEAN
    BY <2>1, HalfTable DEF Failed
  <2> QED
    BY <1>1, <2>1, <2>2, <2>3, ForgetRun, SameNet, TypesAfter
<1>4. CASE Caught(s)
  <2>1. /\ net' = net /\ groups' = groups /\ inDb' = inDb /\ changed' = changed
        /\ Failed /\ leaves' \in Half(s) /\ pc[s] \in AtGroup
    BY <1>4 DEF Caught, AtGroup, Removals
  <2>2. OnlyMoves(s)
    BY <1>4, <2>1, AtHand, AfterMembersRun, NextGroupRun DEF Caught
  <2>3. TableOf(leaves') /\ disturbed' \in BOOLEAN
    BY <2>1, HalfTable DEF Failed
  <2> QED
    BY <1>1, <2>1, <2>2, <2>3, SameNet, SameGroups, TypesAfter DEF LocalsOK
<1> QED
  BY <1>2, <1>3, <1>4

\* Nothing happens at all.
LEMMA TypeOfStutter == TypeInv /\ UNCHANGED vars => TypeInv'
<1> SUFFICES ASSUME TypeInv, UNCHANGED vars PROVE TypeInv'
  OBVIOUS
<1> USE DEF vars, env, db, locals
<1>1. NetOK' /\ GroupsOK'
  BY SameNet, SameGroups
<1>2. LeavesOK' /\ LocalsOK'
  BY DEF TypeInv, LeavesOK, LocalsOK
<1>3. \A t \in Syncs : Run(t)'
  BY SameRun DEF Same
<1> QED
  BY <1>1, <1>2, <1>3 DEF TypeInv

\* At the start there is nothing.
LEMMA InitTypes == Init => TypeInv
<1> SUFFICES ASSUME Init PROVE TypeInv
  OBVIOUS
<1>1. NetOK
  BY Empties, MembersAre DEF Init, NetOK
<1>2. LeavesOK
  BY Empties, SyncAssumption DEF Init, LeavesOK
<1>3. LocalsOK
  <2>1. "idle" \in Labels
    BY DEF Labels
  <2> QED
    BY <2>1, Empties DEF Init, LocalsOK
<1>4. GroupsOK
  BY Empties DEF Init, GroupsOK
<1>5. \A s \in Syncs : Run(s)
  BY Empties DEF Init, Run, AtGroup, Removals
<1>6. faults \in 0..MaxFaults
  BY SyncAssumption DEF Init
<1>7. disturbed \in BOOLEAN
  BY DEF Init
<1> QED
  BY <1>1, <1>2, <1>3, <1>4, <1>5, <1>6, <1>7 DEF TypeInv

\* The types hold always, however synchronisations overlap and whatever fails.
THEOREM TypesInductive == Spec => []TypeInv
<1>1. Init => TypeInv
  BY InitTypes
<1>2. TypeInv /\ [Next]_vars => TypeInv'
  <2> SUFFICES ASSUME TypeInv, [Next]_vars PROVE TypeInv'
    OBVIOUS
  <2>1. CASE UNCHANGED vars
    BY <2>1, TypeOfStutter
  <2>2. ASSUME NEW g \in GroupIds, Register(g) \/ \E i \in DOMAIN net[g] : Unregister(g, i)
        PROVE  TypeInv'
    BY <2>2, NetStep
  <2>3. ASSUME NEW s \in Syncs, Start(s) \/ Step(s) \/ Interrupt(s) \/ Caught(s) PROVE TypeInv'
    BY <2>3, TypeOfStep, TypeOfOthers
  <2> QED
    BY <2>1, <2>2, <2>3 DEF Next
<1> QED
  BY <1>1, <1>2, PTL DEF Spec

\* The types and bounds that the run checks: no recorded count exceeds what InterRep
\* ever reported, and the tree never holds more leaves than fit.
THEOREM TypesHoldAlways == Spec => []TypeOK
<1>1. TypeInv => TypeOK
  <2> SUFFICES ASSUME TypeInv PROVE TypeOK
    OBVIOUS
  <2>1. \A g \in GroupIds : net[g] \in Seq(BOOLEAN) /\ Len(net[g]) <= MaxMembers[g]
    BY DEF TypeInv, NetOK
  <2>2. DOMAIN groups \subseteq GroupIds
        /\ \A g \in DOMAIN groups : {groups[g].size, groups[g].leaves} \subseteq 0..MaxMembers[g]
    <3>1. ASSUME NEW g \in DOMAIN groups
          PROVE  groups[g].size \in 0..MaxMembers[g] /\ groups[g].leaves \in 0..MaxMembers[g]
      <4>1. groups[g] \in Docs /\ g \in GroupIds
        BY TableFacts DEF TypeInv, GroupsOK
      <4> QED
        BY <4>1, MembersAre DEF TypeInv, GroupsOK, WithinDocs, Docs
    <3> QED
      BY <3>1, TableFacts DEF TypeInv, GroupsOK
  <2>3. leaves \in Seq([member : Members, value : Members \cup {Zero}]) /\ Len(leaves) <= Capacity
    BY DEF TypeInv, LeavesOK, LeafRecs
  <2>4. \A s \in Syncs : gone[s] \subseteq Nat /\ offset[s] \in Nat
    BY DEF TypeInv, LocalsOK
  <2> QED
    BY <2>1, <2>2, <2>3, <2>4 DEF TypeInv, TypeOK
<1> QED
  BY <1>1, TypesInductive, PTL

-----------------------------------------------------------------------------
(* The leaves stand for what InterRep said.                                *)

\* A leaf, of the tree or of a page that was loaded, is the member's own or zero;
\* zero only if the member was removed.
True(e) ==
  LET m == e.member
  IN  /\ m[2] \in DOMAIN net[m[1]]
      /\ IF e.value = Zero THEN ~ net[m[1]][m[2]] ELSE e.value = m
Removed(g, i) == i \in DOMAIN net[g] /\ ~ net[g][i]

Truthful(s) ==
  /\ \A i \in 1..Len(loaded[s]) : True(loaded[s][i])
  /\ \A i \in gone[s] : pc[s] \in AtGroup /\ Removed(Job(s).g, i)
TruthInv == (\A p \in 1..Len(leaves) : True(leaves[p])) /\ \A s \in Syncs : Truthful(s)

\* How the leaves change in any step.
LEMMA LeavesStep ==
  ASSUME TypeInv, [Next]_vars
  PROVE  \/ leaves' = leaves
         \/ \E s \in Syncs : TableOf(leaves') /\ MadeOf(leaves', loaded[s], Job(s).g, gone[s])
<1>1. CASE UNCHANGED vars
  BY <1>1 DEF vars, db
<1>2. ASSUME NEW g \in GroupIds, Register(g) \/ \E i \in DOMAIN net[g] : Unregister(g, i)
      PROVE  leaves' = leaves
  BY <1>2 DEF Register, Unregister, db
<1>3. ASSUME NEW s \in Syncs, Interrupt(s) \/ Caught(s)
      PROVE  TableOf(leaves') /\ MadeOf(leaves', loaded[s], Job(s).g, gone[s])
  <2>1. leaves' \in Half(s)
    BY <1>3 DEF Interrupt, Caught
  <2> QED
    BY <2>1, HalfTable
<1>4. ASSUME NEW s \in Syncs, AppendUsers(s)
      PROVE  TableOf(leaves') /\ MadeOf(leaves', loaded[s], Job(s).g, gone[s])
  <2>1. Len(loaded[s]) \in 0..Len(loaded[s])
    BY DEF TypeInv, LocalsOK
  <2>2. leaves' = Table!WithAppended(leaves, loaded[s])
    BY <1>4 DEF AppendUsers
  <2> QED
    BY <2>1, <2>2, AppendedTable
<1>5. ASSUME NEW s \in Syncs, RemoveUsers(s)
      PROVE  TableOf(leaves') /\ MadeOf(leaves', loaded[s], Job(s).g, gone[s])
  <2>1. gone[s] \in SUBSET Nat /\ gone[s] \in SUBSET gone[s]
    BY DEF TypeInv, LocalsOK
  <2>2. leaves' = Table!WithRemoved(leaves, Job(s).g, gone[s])
    BY <1>5 DEF RemoveUsers
  <2> QED
    BY <2>1, <2>2, RemovedTable
<1>6. ASSUME NEW s \in Syncs, Start(s) \/ Step(s), ~ AppendUsers(s), ~ RemoveUsers(s)
      PROVE  leaves' = leaves
  BY <1>6 DEF Start, Step, GetAllGroups, GetGroupsInDb, Group, LoadMembers, SaveGroup, LoadRemoved,
              UpdateSize, Finish, db
<1> QED
  BY <1>1, <1>2, <1>3, <1>4, <1>5, <1>6 DEF Next

\* What InterRep once told of a member stays true, except that the member can be
\* removed later: a leaf that is not zero need not be.
LEMMA NetKeeps ==
  ASSUME TypeInv, [Next]_vars
  PROVE  /\ \A e \in LeafRecs : True(e) => True(e)'
         /\ \A g \in GroupIds, i \in Nat : Removed(g, i) => Removed(g, i)'
<1>1. /\ \A g \in GroupIds : DOMAIN net[g] \subseteq DOMAIN net'[g]
      /\ \A g \in GroupIds : \A i \in DOMAIN net[g] : ~ net[g][i] => ~ net'[g][i]
  <2>1. CASE net' = net
    BY <2>1
  <2>2. ASSUME NEW g \in GroupIds, Register(g) \/ \E i \in DOMAIN net[g] : Unregister(g, i)
        PROVE  /\ \A h \in GroupIds : DOMAIN net[h] \subseteq DOMAIN net'[h]
               /\ \A h \in GroupIds : \A i \in DOMAIN net[h] : ~ net[h][i] => ~ net'[h][i]
    <3>1. /\ \A h \in GroupIds \ {g} : net'[h] = net[h]
          /\ DOMAIN net[g] \subseteq DOMAIN net'[g]
          /\ \A i \in DOMAIN net[g] : ~ net[g][i] => ~ net'[g][i]
      BY <2>2, NetStep
    <3>2. ASSUME NEW h \in GroupIds
          PROVE  /\ DOMAIN net[h] \subseteq DOMAIN net'[h]
                 /\ \A i \in DOMAIN net[h] : ~ net[h][i] => ~ net'[h][i]
      BY <3>1
    <3> QED
      BY <3>2
  <2>3. ASSUME NEW s \in Syncs, Start(s) \/ Step(s) \/ Interrupt(s) \/ Caught(s) PROVE net' = net
    BY <2>3 DEF Start, Step, GetAllGroups, GetGroupsInDb, Group, LoadMembers, AppendUsers, SaveGroup,
                LoadRemoved, RemoveUsers, UpdateSize, Finish, Interrupt, Caught, env
  <2>4. UNCHANGED vars => net' = net
    BY DEF vars, env
  <2> QED
    BY <2>1, <2>2, <2>3, <2>4 DEF Next
<1>2. ASSUME NEW e \in LeafRecs, True(e) PROVE True(e)'
  <2>1. PICK m : m = e.member /\ m[1] \in GroupIds
    BY MembersAre DEF LeafRecs
  <2>2. m[2] \in DOMAIN net[m[1]] /\ IF e.value = Zero THEN ~ net[m[1]][m[2]] ELSE e.value = m
    BY <1>2, <2>1 DEF True
  <2>3. m[2] \in DOMAIN net'[m[1]] /\ IF e.value = Zero THEN ~ net'[m[1]][m[2]] ELSE e.value = m
    BY <1>1, <2>1, <2>2
  <2> QED
    BY <2>1, <2>3 DEF True
<1>3. ASSUME NEW g \in GroupIds, NEW i \in Nat, Removed(g, i) PROVE Removed(g, i)'
  BY <1>1, <1>3 DEF Removed
<1> QED
  BY <1>2, <1>3

\* What InterRep tells is true.
LEMMA ToldTrue ==
  ASSUME TypeInv, NEW g \in GroupIds, NEW i \in DOMAIN net[g]
  PROVE  True(Told(g, i))
<1>1. i \in 1..MaxMembers[g]
  BY MembersAre DEF TypeInv, NetOK
<1>2. <<g, i>> \in Members /\ <<g, i>> # Zero
  BY <1>1, MembersAre
<1>3. /\ Told(g, i).member = <<g, i>>
      /\ Told(g, i).value = IF net[g][i] THEN <<g, i>> ELSE Zero
  BY LeafFields DEF Told
<1>4. <<g, i>>[1] = g /\ <<g, i>>[2] = i
  OBVIOUS
<1>5. ASSUME NEW e, e.member = <<g, i>>, e.value = IF net[g][i] THEN <<g, i>> ELSE Zero
      PROVE  True(e)
  BY <1>2, <1>4, <1>5 DEF True
<1> QED
  BY <1>3, <1>5

\* The leaves stay true: appended ones come from a page, and the first leaf with the
\* identity of a removed member is that member's.
LEMMA LeavesTrue ==
  ASSUME TypeInv, TruthInv, [Next]_vars
  PROVE  (\A p \in 1..Len(leaves) : True(leaves[p]))'
<1>1. CASE leaves' = leaves
  <2>1. \A p \in 1..Len(leaves) : leaves[p] \in LeafRecs /\ True(leaves[p])
    BY DEF TypeInv, LeavesOK, TruthInv
  <2>2. ASSUME NEW p \in 1..Len(leaves) PROVE True(leaves[p])'
    <3>1. PICK e \in LeafRecs : e = leaves[p] /\ e = leaves'[p] /\ True(e)
      BY <1>1, <2>1
    <3>2. True(e)'
      BY <3>1, NetKeeps
    <3> QED
      BY <3>1, <3>2 DEF True
  <2> QED
    BY <1>1, <2>2
<1>2. ASSUME NEW s \in Syncs, TableOf(leaves'), MadeOf(leaves', loaded[s], Job(s).g, gone[s])
      PROVE  (\A p \in 1..Len(leaves) : True(leaves[p]))'
  <2>1. PICK M, L : M = leaves' /\ L = leaves /\ M \in Seq(LeafRecs) /\ L \in Seq(LeafRecs)
    BY <1>2 DEF TableOf, TypeInv, LeavesOK
  <2>2. \A p \in 1..Len(L) : L[p] \in LeafRecs /\ True(L[p])
    BY <2>1 DEF TruthInv
  <2>3. PICK l \in Seq(LeafRecs) : l = loaded[s]
    BY DEF TypeInv, LocalsOK
  <2>4. \A i \in 1..Len(l) : l[i] \in LeafRecs /\ True(l[i])
    BY <2>3 DEF TruthInv, Truthful
  <2>5. ASSUME NEW p \in 1..Len(M) PROVE M[p] \in LeafRecs /\ True(M[p])
    <3>0. M[p] \in LeafRecs /\ Len(L) \in Nat /\ p \in Nat /\ p >= 1
      BY <2>1
    <3>1. CASE p <= Len(L) /\ M[p] = L[p]
      BY <2>2, <3>0, <3>1
    <3>2. CASE \E i \in 1..Len(l) : M[p] = l[i]
      BY <2>4, <3>0, <3>2
    <3>3. ASSUME p <= Len(L), M[p] = Table!Leaf(L[p].member, Zero),
                 NEW i \in gone[s], NEW q \in 1..Len(L),
                 L[q].member = <<Job(s).g, i>>, L[p].value = L[q].value
          PROVE  True(M[p])
      <4>1. L[p] \in LeafRecs /\ L[q] \in LeafRecs /\ True(L[p]) /\ True(L[q])
        BY <2>2, <3>0, <3>3
      <4>2. PICK m \in Members, n \in Members :
              /\ m = L[p].member /\ n = L[q].member
              /\ L[p].value # Zero => L[p].value = m
              /\ L[q].value # Zero => L[q].value = n
              /\ m[2] \in DOMAIN net[m[1]]
              /\ L[p].value = Zero => ~ net[m[1]][m[2]]
        BY <4>1 DEF LeafRecs, True
      <4>3. n[1] = Job(s).g /\ n[2] = i
        BY <3>3, <4>2
      <4>4. ~ net[n[1]][n[2]]
        BY <4>3 DEF TruthInv, Truthful, Removed
      <4>5. ~ net[m[1]][m[2]]
        BY <3>3, <4>2, <4>4
      <4>6. M[p].member = m /\ M[p].value = Zero
        BY <3>3, <4>2, LeafFields
      <4> QED
        BY <4>2, <4>5, <4>6 DEF True
    <3> QED
      BY <1>2, <2>1, <2>3, <3>0, <3>1, <3>2, <3>3 DEF MadeOf
  <2>6. ASSUME NEW p \in 1..Len(M) PROVE True(leaves[p])'
    <3>1. PICK e \in LeafRecs : e = leaves'[p] /\ True(e)
      BY <2>1, <2>5
    <3>2. True(e)'
      BY <3>1, NetKeeps
    <3> QED
      BY <3>1, <3>2 DEF True
  <2> QED
    BY <2>1, <2>6
<1> QED
  BY <1>1, <1>2, LeavesStep

\* What was loaded is still true.
LEMMA LoadedTrue ==
  ASSUME TypeInv, TruthInv, [Next]_vars, NEW t \in Syncs
  PROVE  \A i \in 1..Len(loaded[t]) : \A e \in LeafRecs : e = loaded[t][i] => True(e)'
<1>1. PICK l \in Seq(LeafRecs) : l = loaded[t]
  BY DEF TypeInv, LocalsOK
<1>2. \A i \in 1..Len(l) : True(l[i])
  BY <1>1 DEF TruthInv, Truthful
<1>3. ASSUME NEW i \in 1..Len(l), NEW e \in LeafRecs, e = l[i] PROVE True(e)'
  BY <1>2, <1>3, NetKeeps
<1> QED
  BY <1>1, <1>3

\* So it is when the synchronisation keeps it.
LEMMA LoadedStays ==
  ASSUME TypeInv, TruthInv, [Next]_vars, NEW t \in Syncs, loaded'[t] = loaded[t]
  PROVE  (\A i \in 1..Len(loaded[t]) : True(loaded[t][i]))'
<1>1. PICK l \in Seq(LeafRecs) : l = loaded[t] /\ l = loaded'[t]
  BY DEF TypeInv, LocalsOK
<1>2. ASSUME NEW i \in 1..Len(l) PROVE True(loaded[t][i])'
  <2>1. PICK e \in LeafRecs : e = l[i]
    BY <1>1
  <2>2. True(e)'
    BY <1>1, <2>1, LoadedTrue
  <2> QED
    BY <1>1, <2>1, <2>2 DEF True
<1> QED
  BY <1>1, <1>2

\* Indexes that were removed stay removed.
LEMMA GoneStays ==
  ASSUME TypeInv, TruthInv, [Next]_vars, NEW t \in Syncs, todo'[t] = todo[t], NEW i \in gone[t]
  PROVE  pc[t] \in AtGroup /\ Removed(Job(t).g, i)'
<1>1. pc[t] \in AtGroup /\ Removed(Job(t).g, i) /\ i \in Nat
  BY DEF TruthInv, Truthful, TypeInv, LocalsOK
<1>2. PICK g \in GroupIds : g = Job(t).g
  BY <1>1, AtHand, JobFacts
<1>3. Removed(g, i)'
  BY <1>1, <1>2, NetKeeps
<1>4. Job(t)' = Job(t)
  BY DEF Job
<1> QED
  BY <1>1, <1>2, <1>3, <1>4 DEF Removed

\* A synchronisation that keeps what it loaded stays truthful, as long as it stays
\* with the group.
LEMMA SameTruthful ==
  ASSUME TypeInv, TruthInv, [Next]_vars, NEW t \in Syncs, loaded'[t] = loaded[t], gone'[t] = gone[t],
         gone[t] # {} => todo'[t] = todo[t] /\ (pc[t] \in AtGroup => pc'[t] \in AtGroup)
  PROVE  Truthful(t)'
<1>1. \A i \in gone'[t] : pc'[t] \in AtGroup /\ Removed(Job(t).g, i)'
  BY GoneStays
<1> QED
  BY <1>1, LoadedStays DEF Truthful

\* Outside the groups nothing is remembered as removed.
LEMMA NoneGone ==
  ASSUME TruthInv, NEW t \in Syncs, pc[t] \notin AtGroup
  PROVE  gone[t] = {}
BY DEF TruthInv, Truthful

\* One that has nothing loaded is truthful.
LEMMA EmptyTruthful ==
  ASSUME TypeInv, NEW t, loaded'[t] = <<>>, gone'[t] = {}
  PROVE  Truthful(t)'
<1>1. Len(loaded'[t]) = 0
  BY Empties
<1>2. 1..0 = {}
  OBVIOUS
<1> QED
  BY <1>1, <1>2 DEF Truthful

\* One to which a page of members arrives is: InterRep tells the truth.
LEMMA MembersTruthful ==
  ASSUME TypeInv, TruthInv, [Next]_vars, NEW s \in Syncs, LoadMembers(s)
  PROVE  Truthful(s)'
<1>1. /\ pc[s] = "membersPage" /\ UNCHANGED <<net, todo, inDb, gone>>
      /\ MembersArrive(s, MembersPage(Job(s).g, offset[s])) \/ MembersArrive(s, <<>>)
  BY DEF LoadMembers
<1>2. Job(s).g \in GroupIds /\ offset[s] \in Nat
  BY <1>1, AtHand, JobFacts DEF AtGroup, TypeInv, LocalsOK
<1>3. PICK page \in Seq(LeafRecs) :
        /\ MembersArrive(s, page)
        /\ \A i \in 1..Len(page) : \E j \in DOMAIN net[Job(s).g] : page[i] = Told(Job(s).g, j)
  <2>1. CASE MembersArrive(s, <<>>)
    <3>1. 1..0 = {}
      OBVIOUS
    <3> QED
      BY <2>1, <3>1, Empties
  <2>2. CASE MembersArrive(s, MembersPage(Job(s).g, offset[s]))
    <3>1. PICK P \in Seq(LeafRecs) :
            /\ P = MembersPage(Job(s).g, offset[s])
            /\ \A i \in 1..Len(P) : /\ offset[s] + i \in DOMAIN net[Job(s).g]
                                    /\ P[i] = Told(Job(s).g, offset[s] + i)
      BY <1>2, PageFacts
    <3> QED
      BY <2>2, <3>1
  <2> QED
    BY <1>1, <2>1, <2>2
<1>4. \A i \in 1..Len(page) : page[i] \in LeafRecs /\ True(page[i])
  BY <1>2, <1>3, ToldTrue
<1>5. /\ OnlyMoves(s) /\ loaded'[s] = loaded[s] \o page
      /\ pc'[s] \in {"membersPage", "appendUsers"}
  BY <1>1, <1>3, MembersArriveRun
<1>6. PICK l \in Seq(LeafRecs) : l = loaded[s]
  BY DEF TypeInv, LocalsOK
<1>7. PICK k \in Seq(LeafRecs) :
        /\ k = l \o page /\ Len(k) = Len(l) + Len(page)
        /\ \A i \in 1..(Len(l) + Len(page)) : k[i] = IF i <= Len(l) THEN l[i] ELSE page[i - Len(l)]
  <2>1. PICK k : k = l \o page
    OBVIOUS
  <2>2. /\ k \in Seq(LeafRecs) /\ Len(k) = Len(l) + Len(page)
        /\ \A i \in 1..(Len(l) + Len(page)) : k[i] = IF i <= Len(l) THEN l[i] ELSE page[i - Len(l)]
    BY <2>1, ConcatProperties
  <2> QED
    BY <2>1, <2>2
<1>8. ASSUME NEW i \in 1..Len(k) PROVE True(loaded[s][i])'
  <2>0. Len(l) \in Nat /\ Len(page) \in Nat
    OBVIOUS
  <2>1. PICK e \in LeafRecs : e = k[i]
    BY <1>7
  <2>2. True(e)'
    <3>1. CASE i <= Len(l)
      <4>1. i \in 1..Len(l) /\ e = l[i]
        BY <1>7, <2>0, <2>1, <3>1
      <4> QED
        BY <1>6, <4>1, LoadedTrue
    <3>2. CASE ~ (i <= Len(l))
      <4>1. i - Len(l) \in 1..Len(page) /\ e = page[i - Len(l)]
        BY <1>7, <2>0, <2>1, <3>2
      <4>2. True(e)
        BY <1>4, <4>1
      <4> QED
        BY <4>2, NetKeeps
    <3> QED
      BY <3>1, <3>2
  <2>3. loaded'[s] = k
    BY <1>5, <1>6, <1>7
  <2> QED
    BY <2>1, <2>2, <2>3 DEF True
<1>9. \A i \in gone'[s] : pc'[s] \in AtGroup /\ Removed(Job(s).g, i)'
  BY <1>1, <1>5, GoneStays DEF AtGroup
<1>10. loaded'[s] = k
  BY <1>5, <1>6, <1>7
<1> QED
  BY <1>8, <1>9, <1>10 DEF Truthful

\* And one to which a page of removed indexes arrives.
LEMMA RemovedTruthful ==
  ASSUME TypeInv, TruthInv, [Next]_vars, NEW s \in Syncs, LoadRemoved(s)
  PROVE  Truthful(s)'
<1>1. /\ pc[s] = "removedPage" /\ UNCHANGED <<net, todo, inDb, loaded>>
      /\ RemovedArrive(s, RemovedPage(Job(s).g, offset[s])) \/ RemovedArrive(s, {})
  BY DEF LoadRemoved
<1>2. Job(s).g \in GroupIds
  BY <1>1, AtHand, JobFacts DEF AtGroup, Removals
<1>3. PICK page \in SUBSET Nat :
        RemovedArrive(s, page) /\ \A i \in page : Removed(Job(s).g, i)
  BY <1>1, <1>2, RemovedPageFacts DEF Removed
<1>4. /\ OnlyMoves(s) /\ gone'[s] = gone[s] \cup page
      /\ pc'[s] \in {"removedPage", "removeUsers"}
  BY <1>1, <1>3, RemovedArriveRun
<1>5. ASSUME NEW i \in gone'[s] PROVE pc'[s] \in AtGroup /\ Removed(Job(s).g, i)'
  <2>1. pc'[s] \in AtGroup
    BY <1>4 DEF AtGroup, Removals
  <2>2. CASE i \in gone[s]
    BY <1>1, <2>1, <2>2, GoneStays
  <2>3. CASE i \in page
    <3>1. PICK g \in GroupIds : g = Job(s).g
      BY <1>2
    <3>2. Removed(g, i)' /\ Job(s)' = Job(s)
      BY <1>1, <1>3, <2>3, <3>1, NetKeeps DEF Job
    <3> QED
      BY <2>1, <3>1, <3>2 DEF Removed
  <2> QED
    BY <1>4, <2>2, <2>3
<1> QED
  BY <1>1, <1>5, LoadedStays DEF Truthful

\* No step makes a synchronisation hold what InterRep did not tell.
LEMMA TruthfulStep ==
  ASSUME TypeInv, TruthInv, [Next]_vars, NEW t \in Syncs
  PROVE  Truthful(t)'
<1>1. CASE UNCHANGED vars
  BY <1>1, SameTruthful DEF vars, locals
<1>2. ASSUME NEW g \in GroupIds, Register(g) \/ \E i \in DOMAIN net[g] : Unregister(g, i)
      PROVE  Truthful(t)'
  BY <1>2, SameTruthful DEF Register, Unregister, locals
<1>3. ASSUME NEW s \in Syncs, Start(s) \/ Step(s) \/ Interrupt(s) \/ Caught(s), t # s
      PROVE  Truthful(t)'
  <2>1. OnlyMoves(s)
    BY <1>3, TypeOfStep, TypeOfOthers
  <2> QED
    BY <1>3, <2>1, SameTruthful DEF OnlyMoves, Same
<1>4. CASE Start(t) \/ GetAllGroups(t) \/ GetGroupsInDb(t)
  <2>1. pc[t] \notin AtGroup
    BY <1>4 DEF Start, GetAllGroups, GetGroupsInDb, AtGroup, Removals
  <2>2. loaded' = loaded /\ gone' = gone
    BY <1>4 DEF Start, GetAllGroups, GetGroupsInDb, locals
  <2> QED
    BY <2>1, <2>2, NoneGone, SameTruthful
<1>5. CASE Group(t)
  <2>1. todo[t] # <<>> /\ inDb' = inDb
    BY <1>5 DEF Group
  <2>2. loaded'[t] = <<>> /\ gone'[t] = {}
    <3>1. CASE NeedsMembers(t)
      <4>1. loaded' = [loaded EXCEPT ![t] = <<>>] /\ gone' = [gone EXCEPT ![t] = {}]
        BY <1>5, <3>1 DEF Group, LoadFrom
      <4> QED
        BY <4>1 DEF TypeInv, LocalsOK
    <3>2. CASE ~ NeedsMembers(t)
      BY <1>5, <2>1, <3>2, AfterMembersRun DEF Group
    <3> QED
      BY <3>1, <3>2
  <2> QED
    BY <2>2, EmptyTruthful
<1>6. CASE LoadMembers(t)
  BY <1>6, MembersTruthful
<1>7. CASE LoadRemoved(t)
  BY <1>7, RemovedTruthful
<1>8. ASSUME pc[t] \in AtGroup, inDb' = inDb, AfterMembers(t) \/ NextGroup(t)
      PROVE  Truthful(t)'
  BY <1>8, AtHand, AfterMembersRun, NextGroupRun, EmptyTruthful
<1>9. ASSUME NEW l \in AtGroup, pc[t] \in AtGroup, Goto(t, l), UNCHANGED <<todo, offset, loaded, gone>>
      PROVE  Truthful(t)'
  <2>1. pc'[t] = l
    BY <1>9 DEF Goto, TypeInv, LocalsOK
  <2> QED
    BY <1>9, <2>1, SameTruthful
<1>10. CASE AppendUsers(t) \/ SaveGroup(t) \/ RemoveUsers(t) \/ UpdateSize(t) \/ Caught(t)
  <2>1. pc[t] \in AtGroup /\ inDb' = inDb
    BY <1>10 DEF AppendUsers, SaveGroup, RemoveUsers, UpdateSize, Caught, AtGroup, Removals
  <2>2. \/ AfterMembers(t) \/ NextGroup(t)
        \/ \E l \in {"saveGroup", "updateSize"} : Goto(t, l) /\ UNCHANGED <<todo, offset, loaded, gone>>
    BY <1>10 DEF AppendUsers, SaveGroup, RemoveUsers, UpdateSize, Caught
  <2>3. {"saveGroup", "updateSize"} \subseteq AtGroup
    BY DEF AtGroup, Removals
  <2> QED
    BY <1>8, <1>9, <2>1, <2>2, <2>3
<1>11. CASE Finish(t) \/ Interrupt(t)
  BY <1>11, ForgetRun, EmptyTruthful DEF Finish, Interrupt
<1> QED
  BY <1>1, <1>2, <1>3, <1>4, <1>5, <1>6, <1>7, <1>10, <1>11 DEF Next, Step

\* The leaves and all that synchronisations have loaded are true always.
THEOREM TruthInductive == Spec => [](TypeInv /\ TruthInv)
<1>1. Init => TypeInv /\ TruthInv
  <2> SUFFICES ASSUME Init PROVE TypeInv /\ TruthInv
    OBVIOUS
  <2>1. TypeInv
    BY InitTypes
  <2>2. 1..0 = {}
    OBVIOUS
  <2>3. \A s \in Syncs : loaded[s] = <<>> /\ gone[s] = {}
    BY DEF Init
  <2>4. leaves = <<>>
    BY DEF Init
  <2>5. \A s \in Syncs : Truthful(s)
    BY <2>2, <2>3, Empties DEF Truthful
  <2>6. \A p \in 1..Len(leaves) : True(leaves[p])
    BY <2>2, <2>4, Empties
  <2> QED
    BY <2>1, <2>5, <2>6 DEF TruthInv
<1>2. TypeInv /\ TruthInv /\ [Next]_vars => TruthInv'
  <2> SUFFICES ASSUME TypeInv, TruthInv, [Next]_vars PROVE TruthInv'
    OBVIOUS
  <2>1. (\A p \in 1..Len(leaves) : True(leaves[p]))'
    BY LeavesTrue
  <2>2. \A t \in Syncs : Truthful(t)'
    BY TruthfulStep
  <2> QED
    BY <2>1, <2>2 DEF TruthInv
<1> QED
  BY <1>1, <1>2, TypesInductive, PTL DEF Spec

\* No leaf is blank whose member was not removed, and no leaf holds another member's
\* identity, whatever fails and however synchronisations overlap.
THEOREM BlankOnlyIfRemovedHolds == Spec => []BlankOnlyIfRemoved
<1>1. TypeInv /\ TruthInv => BlankOnlyIfRemoved
  <2> SUFFICES ASSUME TypeInv, TruthInv PROVE BlankOnlyIfRemoved
    OBVIOUS
  <2>1. DOMAIN leaves = 1..Len(leaves)
    BY DEF TypeInv, LeavesOK
  <2> QED
    BY <2>1 DEF TruthInv, True, BlankOnlyIfRemoved
<1> QED
  BY <1>1, TruthInductive, PTL

-----------------------------------------------------------------------------
(* As long as nothing is disturbed: the recorded counts and the events.  The *)
(* loops over pages lose members of larger groups, so every group is in one. *)

OnePage == \A g \in GroupIds : MaxMembers[g] <= PageSize

Count(g) == IF g \in DOMAIN groups THEN groups[g].leaves ELSE 0
HasUpTo(L, g, n) == \A i \in Nat : <<g, i>> \in Table!LeafMembers(L) <=> i \in 1..n

\* The members with leaves are those that are counted, and at the time when they
\* were appended and are not yet counted, all of the group.
Saving(g) == \E s \in Syncs : pc[s] = "saveGroup" /\ Job(s).g = g
Counted   ==
  \A g \in GroupIds :
    /\ Count(g) <= Len(net[g])
    /\ HasUpTo(leaves, g, IF Saving(g) THEN Len(net[g]) ELSE Count(g))

\* The one synchronisation that runs has seen InterRep as it is, and the database as
\* it was except for what it wrote itself.
Fresh(s) == \A j \in 1..Len(todo[s]) : todo[s][j].leaves = Len(net[todo[s][j].g])
Known(s) ==
  \A g \in DOMAIN groups :
    IF g \in DOMAIN inDb[s] THEN Count(g) \in {inDb[s][g].leaves, Len(net[g])}
                            ELSE Count(g) = Len(net[g]) /\ changed[s]
Shown(s) == ~ changed[s] => leaves = published

FirstLoad(s) == NeedsMembers(s) /\ loaded[s] = <<>> /\ offset[s] = FirstPage(s)
Loaded(s) ==
  /\ NeedsMembers(s)
  /\ Len(loaded[s]) = Len(net[Job(s).g]) - FirstPage(s)
  /\ \A k \in 1..Len(loaded[s]) : loaded[s][k].member = <<Job(s).g, FirstPage(s) + k>>

CalmAt(s) ==
  /\ pc[s] \notin {"idle", "getGroups"} => Fresh(s)
  /\ pc[s] \in {"group"} \cup AtGroup => Known(s)
  /\ pc[s] = "membersPage" => FirstLoad(s)
  /\ pc[s] = "appendUsers" => Loaded(s)
  /\ pc[s] \in Removals => Count(Job(s).g) = Len(net[Job(s).g])
  /\ pc[s] \notin {"idle", "saveGroup", "updateSize"} => Shown(s)

Alone == \A s, t \in Syncs : pc[s] # "idle" /\ pc[t] # "idle" => s = t
Calm  ==
  /\ Alone /\ Counted
  /\ \A s \in Syncs : CalmAt(s)
  /\ Idle => leaves = published
CalmInv == ~ disturbed => Calm

\* Setting leaves to zero does not change whose they are.
LEMMA RemovedMembers ==
  ASSUME NEW L \in Seq(LeafRecs), NEW g, NEW S, NEW M \in Seq(LeafRecs), RemovedAs(L, g, S, M)
  PROVE  Table!LeafMembers(M) = Table!LeafMembers(L)
<1>1. DOMAIN M = 1..Len(L) /\ DOMAIN L = 1..Len(L)
  BY DEF RemovedAs
<1>2. \A p \in 1..Len(L) : M[p].member = L[p].member
  BY LeafFields DEF RemovedAs
<1> QED
  BY <1>1, <1>2 DEF Table!LeafMembers

\* Appending adds the members of the new leaves.
LEMMA AppendedMembers ==
  ASSUME NEW L \in Seq(LeafRecs), NEW new \in Seq(LeafRecs), NEW k \in 0..Len(new),
         NEW M \in Seq(LeafRecs), AppendedAs(L, new, k, M)
  PROVE  \A m : m \in Table!LeafMembers(M) <=>
                  (m \in Table!LeafMembers(L) \/ \E i \in 1..k : new[i].member = m)
<1>1. Len(L) \in Nat /\ k \in Nat /\ DOMAIN M = 1..(Len(L) + k) /\ DOMAIN L = 1..Len(L)
  BY DEF AppendedAs
<1>2. ASSUME NEW p \in DOMAIN M
      PROVE  M[p].member \in Table!LeafMembers(L) \/ \E i \in 1..k : new[i].member = M[p].member
  <2>1. CASE p <= Len(L)
    <3>1. p \in DOMAIN L /\ M[p] = L[p]
      BY <1>1, <2>1 DEF AppendedAs
    <3> QED
      BY <3>1 DEF Table!LeafMembers
  <2>2. CASE ~ (p <= Len(L))
    <3>1. p - Len(L) \in 1..k /\ Len(L) + (p - Len(L)) = p
      BY <1>1, <2>2
    <3>2. M[p] = new[p - Len(L)]
      BY <3>1 DEF AppendedAs
    <3> QED
      BY <3>1, <3>2
  <2> QED
    BY <2>1, <2>2
<1>3. ASSUME NEW p \in DOMAIN L PROVE L[p].member \in Table!LeafMembers(M)
  <2>1. p \in DOMAIN M /\ M[p] = L[p]
    BY <1>1 DEF AppendedAs
  <2> QED
    BY <2>1 DEF Table!LeafMembers
<1>4. ASSUME NEW i \in 1..k PROVE new[i].member \in Table!LeafMembers(M)
  <2>1. Len(L) + i \in DOMAIN M /\ M[Len(L) + i] = new[i]
    BY <1>1 DEF AppendedAs
  <2> QED
    BY <2>1 DEF Table!LeafMembers
<1> QED
  BY <1>2, <1>3, <1>4 DEF Table!LeafMembers

\* The members after the first f of a group are appended: if they have no leaves, all
\* of them get one; if they have, nothing happens.
LEMMA AppendedUpTo ==
  ASSUME NEW L \in Seq(LeafRecs), NEW new \in Seq(LeafRecs), NEW g, NEW f \in Nat, NEW n \in Nat,
         f <= n, NEW c \in {f, n}, HasUpTo(L, g, c), Len(new) = n - f,
         \A i \in 1..Len(new) : new[i].member = <<g, f + i>>, ~ Table!Overflows(L, new)
  PROVE  LET M == Table!WithAppended(L, new)
         IN  HasUpTo(M, g, n) /\ \A h, m : h # g => (HasUpTo(L, h, m) => HasUpTo(M, h, m))
<1>1. PICK k \in 0..Len(new), M \in Seq(LeafRecs) : AppendedAs(L, new, k, M)
  BY AppendedFacts
<1>2. M = Table!WithAppended(L, new) /\ k \in Nat /\ Len(new) \in Nat
  BY <1>1 DEF AppendedAs
<1>3. \A m : m \in Table!LeafMembers(M) <=>
               (m \in Table!LeafMembers(L) \/ \E i \in 1..k : new[i].member = m)
  BY <1>1, AppendedMembers
<1>4. \A i \in 1..k : new[i].member = <<g, f + i>>
  BY <1>2
<1>5. HasUpTo(M, g, n)
  <2>1. CASE c = n
    <3>1. k = 0
      <4>1. SUFFICES ASSUME k # 0 PROVE FALSE
        OBVIOUS
      <4>2. 1 \in 1..k /\ f + 1 \in 1..n /\ f + 1 \in Nat
        BY <1>2, <4>1
      <4>3. <<g, f + 1>> \in Table!LeafMembers(L)
        BY <2>1, <4>2 DEF HasUpTo
      <4> QED
        BY <1>1, <1>4, <4>2, <4>3 DEF AppendedAs
    <3>2. \A m : m \in Table!LeafMembers(M) <=> m \in Table!LeafMembers(L)
      BY <1>3, <3>1
    <3> QED
      BY <2>1, <3>2 DEF HasUpTo
  <2>2. CASE c = f
    <3>1. k = Len(new)
      <4>1. SUFFICES ASSUME k # Len(new) PROVE FALSE
        OBVIOUS
      <4>2. k + 1 \in 1..Len(new) /\ k < Len(new) /\ f + (k + 1) \in Nat /\ f + (k + 1) \notin 1..f
        BY <1>2, <4>1
      <4>3. new[k + 1].member \in Table!LeafMembers(L)
        BY <1>1, <4>2 DEF AppendedAs
      <4>4. new[k + 1].member = <<g, f + (k + 1)>>
        BY <4>2
      <4> QED
        BY <2>2, <4>2, <4>3, <4>4 DEF HasUpTo
    <3>2. ASSUME NEW i \in Nat PROVE <<g, i>> \in Table!LeafMembers(M) <=> i \in 1..n
      <4>1. i \in 1..n <=> (i \in 1..f \/ i - f \in 1..k)
        BY <3>1
      <4>2. (\E j \in 1..k : new[j].member = <<g, i>>) <=> i - f \in 1..k
        <5>1. ASSUME NEW j \in 1..k PROVE new[j].member = <<g, i>> <=> j = i - f
          <6>0. <<g, f + j>> = <<g, i>> <=> f + j = i
            OBVIOUS
          <6>1. new[j].member = <<g, i>> <=> f + j = i
            BY <1>4, <6>0
          <6> QED
            BY <1>2, <6>1
        <5> QED
          BY <5>1
      <4> QED
        BY <1>3, <2>2, <4>1, <4>2 DEF HasUpTo
    <3> QED
      BY <3>2 DEF HasUpTo
  <2> QED
    BY <2>1, <2>2
<1>6. ASSUME NEW h, NEW m, h # g, HasUpTo(L, h, m) PROVE HasUpTo(M, h, m)
  <2>1. ASSUME NEW i \in Nat PROVE <<h, i>> \in Table!LeafMembers(M) <=> <<h, i>> \in Table!LeafMembers(L)
    <3>1. \A j \in 1..k : new[j].member # <<h, i>>
      BY <1>4, <1>6
    <3> QED
      BY <1>3, <3>1
  <2> QED
    BY <1>6, <2>1 DEF HasUpTo
<1> QED
  BY <1>2, <1>5, <1>6

\* Only one synchronisation runs.
LEMMA OnlyRunner ==
  ASSUME Alone, NEW s \in Syncs, pc[s] # "idle"
  PROVE  /\ \A t \in Syncs \ {s} : pc[t] = "idle"
         /\ ~ Idle
         /\ \A g : Saving(g) <=> (pc[s] = "saveGroup" /\ Job(s).g = g)
<1>1. \A t \in Syncs \ {s} : pc[t] = "idle"
  BY DEF Alone
<1> QED
  BY <1>1 DEF Idle, Saving

\* What is to show of a step of the one that runs and goes on running.
LEMMA CalmAfter ==
  ASSUME TypeInv, Calm, NEW s \in Syncs, pc[s] # "idle", OnlyMoves(s), pc'[s] # "idle",
         Counted', CalmAt(s)'
  PROVE  Calm'
<1>1. \A t \in Syncs \ {s} : pc'[t] = "idle"
  BY OnlyRunner DEF Calm, OnlyMoves, Same
<1>2. Alone' /\ ~ Idle'
  BY <1>1 DEF Alone, Idle
<1>3. \A t \in Syncs : CalmAt(t)'
  <2>1. ASSUME NEW t \in Syncs, t # s PROVE CalmAt(t)'
    BY <1>1, <2>1 DEF CalmAt, AtGroup, Removals
  <2> QED
    BY <2>1
<1> QED
  BY <1>2, <1>3 DEF Calm

\* Who is saving after a step of the one that runs.
LEMMA SavingAfter ==
  ASSUME TypeInv, Calm, NEW s \in Syncs, pc[s] # "idle", OnlyMoves(s)
  PROVE  \A g : Saving(g)' <=> (pc'[s] = "saveGroup" /\ Job(s)'.g = g)
<1>1. \A t \in Syncs \ {s} : pc'[t] = "idle"
  BY OnlyRunner DEF Calm, OnlyMoves, Same
<1> QED
  BY <1>1 DEF Saving

\* Steps that change neither counts nor whose leaves there are.
LEMMA CountedStays ==
  ASSUME TypeInv, Calm, NEW s \in Syncs, pc[s] # "idle", OnlyMoves(s), net' = net,
         \A g \in GroupIds : Count(g)' = Count(g),
         Table!LeafMembers(leaves') = Table!LeafMembers(leaves),
         pc[s] # "saveGroup", pc'[s] # "saveGroup"
  PROVE  Counted'
<1>1. \A g : ~ Saving(g) /\ ~ Saving(g)'
  BY OnlyRunner, SavingAfter DEF Calm
<1>2. ASSUME NEW g \in GroupIds
      PROVE  Count(g)' <= Len(net'[g]) /\ HasUpTo(leaves', g, Count(g)')
  <2>1. Count(g) <= Len(net[g]) /\ HasUpTo(leaves, g, Count(g))
    BY <1>1 DEF Calm, Counted
  <2> QED
    BY <2>1 DEF HasUpTo
<1> QED
  BY <1>1, <1>2 DEF Counted

\* What is left to do stays as InterRep is.
LEMMA FreshStays ==
  ASSUME TypeInv, NEW s \in Syncs, Fresh(s), net' = net,
         todo'[s] = todo[s] \/ (todo[s] # <<>> /\ todo'[s] = Tail(todo[s]))
  PROVE  Fresh(s)'
<1>1. CASE todo'[s] = todo[s]
  BY <1>1 DEF Fresh
<1>2. CASE todo[s] # <<>> /\ todo'[s] = Tail(todo[s])
  <2>1. PICK q \in Seq(Jobs) : q = todo[s] /\ q # <<>>
    BY <1>2 DEF TypeInv, LocalsOK
  <2>2. PICK r \in Seq(Jobs) : /\ r = Tail(q) /\ Len(r) = Len(q) - 1
                               /\ \A i \in 1..Len(r) : r[i] = q[i + 1]
    <3>1. PICK r : r = Tail(q)
      OBVIOUS
    <3>2. r \in Seq(Jobs) /\ Len(r) = Len(q) - 1 /\ \A i \in 1..Len(r) : r[i] = q[i + 1]
      BY <2>1, <3>1, HeadTailProperties
    <3> QED
      BY <3>1, <3>2
  <2>3. \A i \in 1..Len(r) : i + 1 \in 1..Len(q)
    BY <2>1, <2>2
  <2>4. \A i \in 1..Len(r) : r[i].leaves = Len(net[r[i].g])
    BY <2>1, <2>2, <2>3 DEF Fresh
  <2> QED
    BY <1>2, <2>1, <2>2, <2>4 DEF Fresh
<1> QED
  BY <1>1, <1>2

\* The group at hand is as it is on InterRep.
LEMMA FreshJob ==
  ASSUME TypeInv, NEW s \in Syncs, Fresh(s), todo[s] # <<>>
  PROVE  /\ Job(s).leaves = Len(net[Job(s).g]) /\ Len(net[Job(s).g]) \in Nat
         /\ Job(s).g \in GroupIds /\ Len(net[Job(s).g]) <= MaxMembers[Job(s).g]
<1>1. PICK q \in Seq(Jobs) : q = todo[s] /\ q # <<>>
  BY DEF TypeInv, LocalsOK
<1>2. Len(q) \in Nat /\ 1 \in 1..Len(q) /\ Head(q) = q[1]
  BY <1>1
<1>3. Job(s).leaves = Len(net[Job(s).g])
  BY <1>1, <1>2 DEF Fresh, Job
<1>4. Job(s).g \in GroupIds
  BY JobFacts
<1> QED
  BY <1>3, <1>4, DescriptionFacts DEF TypeInv, NetOK

\* The place of a synchronisation after its members.
LEMMA CalmAfterMembers ==
  ASSUME TypeInv, NEW s \in Syncs, todo[s] # <<>>, AfterMembers(s) \/ NextGroup(s), inDb' = inDb, net' = net,
         Fresh(s), Known(s)', NEW g, g = Job(s).g, Count(g)' = Len(net[g]), Shown(s)'
  PROVE  OnlyMoves(s) /\ CalmAt(s)' /\ pc'[s] \in {"removedPage", "group"}
<1>1. /\ OnlyMoves(s)
      /\ \/ pc'[s] = "removedPage" /\ todo'[s] = todo[s]
         \/ pc'[s] = "group" /\ todo'[s] = Tail(todo[s])
  BY AfterMembersRun, NextGroupRun
<1>2. Fresh(s)'
  BY <1>1, FreshStays
<1>3. CASE pc'[s] = "removedPage" /\ todo'[s] = todo[s]
  <2>1. Job(s)' = Job(s)
    BY <1>3 DEF Job
  <2>2. (Count(Job(s).g) = Len(net[Job(s).g]))'
    BY <2>1
  <2> QED
    BY <1>1, <1>2, <1>3, <2>2 DEF CalmAt
<1>4. CASE pc'[s] = "group"
  BY <1>1, <1>2, <1>4 DEF CalmAt, Removals
<1> QED
  BY <1>1, <1>3, <1>4

\* The list of groups and the groups of the database are read.
LEMMA CalmReads ==
  ASSUME TypeInv, Calm, NEW s \in Syncs, GetAllGroups(s) \/ GetGroupsInDb(s), ~ disturbed'
  PROVE  Calm'
<1>1. /\ pc[s] \in {"getGroups", "getGroupsInDb"} /\ net' = net /\ groups' = groups /\ leaves' = leaves
      /\ published' = published /\ changed' = changed /\ OnlyMoves(s)
  BY TypeOfStep DEF GetAllGroups, GetGroupsInDb, Step, env, db
<1>2. Shown(s)'
  BY <1>1 DEF Calm, CalmAt, Shown
<1>3. pc'[s] \in {"getGroupsInDb", "group"} /\ CalmAt(s)'
  <2>1. CASE GetAllGroups(s)
    <3>1. /\ pc'[s] = "getGroupsInDb" /\ Len(todo'[s]) = Len(Groups)
          /\ \A i \in 1..Len(Groups) : todo'[s][i] = Description(Groups[i])
      BY <2>1, GetAllGroupsRun DEF Failed
    <3>2. ASSUME NEW i \in 1..Len(Groups) PROVE todo'[s][i].leaves = Len(net[todo'[s][i].g])
      <4>1. PICK g \in GroupIds : g = Groups[i]
        BY MembersAre, SyncAssumption
      <4>2. todo'[s][i] = Description(g)
        BY <3>1, <4>1
      <4>3. Description(g).g = g /\ Description(g).leaves = Len(net[g])
        BY DescriptionFacts
      <4> QED
        BY <4>2, <4>3
    <3>3. Fresh(s)'
      BY <1>1, <3>1, <3>2 DEF Fresh
    <3> QED
      BY <1>2, <3>1, <3>3 DEF CalmAt, AtGroup, Removals
  <2>2. CASE GetGroupsInDb(s)
    <3>1. pc' = [pc EXCEPT ![s] = "group"] /\ todo' = todo /\ inDb' = [inDb EXCEPT ![s] = groups]
      BY <2>2 DEF GetGroupsInDb, Goto
    <3>2. pc'[s] = "group" /\ todo'[s] = todo[s] /\ inDb'[s] = groups
      BY <3>1 DEF TypeInv, LocalsOK
    <3>3. Known(s)'
      BY <1>1, <3>2 DEF Known, Count
    <3>4. Fresh(s)
      BY <2>2 DEF Calm, CalmAt, GetGroupsInDb
    <3>5. Fresh(s)'
      BY <1>1, <3>2, <3>4, FreshStays
    <3> QED
      BY <1>2, <3>2, <3>3, <3>5 DEF CalmAt, AtGroup, Removals
  <2> QED
    BY <2>1, <2>2
<1>4. \A g \in GroupIds : Count(g)' = Count(g)
  BY <1>1 DEF Count
<1>5. Counted'
  BY <1>1, <1>3, <1>4, CountedStays
<1> QED
  BY <1>1, <1>3, <1>5, CalmAfter

\* Where a synchronisation is when it is calm.
LEMMA AtGroupCalm ==
  ASSUME TypeInv, Calm, NEW s \in Syncs, pc[s] = "group" \/ pc[s] \in AtGroup, todo[s] # <<>>
  PROVE  /\ pc[s] # "idle" /\ Fresh(s) /\ Known(s)
         /\ Job(s).g \in GroupIds /\ Job(s).leaves = Len(net[Job(s).g])
         /\ Len(net[Job(s).g]) \in Nat /\ Len(net[Job(s).g]) <= MaxMembers[Job(s).g]
         /\ Count(Job(s).g) \in Nat /\ Count(Job(s).g) <= Len(net[Job(s).g])
<1>1. CalmAt(s) /\ pc[s] \notin {"idle", "getGroups"}
  BY DEF Calm, AtGroup, Removals
<1>2. Fresh(s) /\ Known(s)
  BY <1>1 DEF CalmAt
<1>3. Job(s).g \in GroupIds /\ Count(Job(s).g) <= Len(net[Job(s).g])
  BY JobFacts DEF Calm, Counted
<1>4. Count(Job(s).g) \in Nat
  BY TableFacts DEF Count, TypeInv, GroupsOK, Docs
<1> QED
  BY <1>1, <1>2, <1>3, <1>4, FreshJob

\* The members that are loaded first: none before them is missing.
LEMMA FirstPageCalm ==
  ASSUME TypeInv, Calm, NEW s \in Syncs, pc[s] = "group" \/ pc[s] \in AtGroup, todo[s] # <<>>
  PROVE  /\ NeedsMembers(s) => /\ FirstPage(s) \in Nat /\ FirstPage(s) <= Len(net[Job(s).g])
                               /\ Count(Job(s).g) \in {FirstPage(s), Len(net[Job(s).g])}
                               /\ FirstPage(s) = Len(net[Job(s).g]) => FirstPage(s) = 0
         /\ ~ NeedsMembers(s) => Count(Job(s).g) = Len(net[Job(s).g])
<1>1. /\ Known(s) /\ Job(s).leaves = Len(net[Job(s).g]) /\ Len(net[Job(s).g]) \in Nat
      /\ Count(Job(s).g) \in Nat /\ Count(Job(s).g) <= Len(net[Job(s).g])
  BY AtGroupCalm
<1>2. \A g \in DOMAIN inDb[s] : g \in DOMAIN groups /\ inDb[s][g] \in Docs
  BY TableFacts DEF TypeInv, GroupsOK, LocalsOK
<1>3. CASE IsNew(s)
  BY <1>1, <1>3 DEF NeedsMembers, FirstPage, IsNew, Known, Count
<1>4. CASE ~ IsNew(s)
  <2>1. PICK f \in Nat : f = inDb[s][Job(s).g].leaves
    BY <1>2, <1>4 DEF IsNew, Docs
  <2>2. Count(Job(s).g) \in {f, Len(net[Job(s).g])}
    BY <1>1, <1>2, <1>4, <2>1 DEF IsNew, Known
  <2>3. FirstPage(s) = f /\ (NeedsMembers(s) <=> Len(net[Job(s).g]) > f)
    BY <1>1, <1>4, <2>1 DEF NeedsMembers, FirstPage
  <2> QED
    BY <1>1, <2>1, <2>2, <2>3
<1> QED
  BY <1>3, <1>4

\* A group is taken up.
LEMMA CalmGroup ==
  ASSUME TypeInv, Calm, NEW s \in Syncs, Group(s)
  PROVE  Calm'
<1>1. /\ pc[s] = "group" /\ todo[s] # <<>> /\ inDb' = inDb /\ changed' = changed
      /\ net' = net /\ groups' = groups /\ leaves' = leaves /\ published' = published
  BY DEF Group, env, db
<1>2. /\ Fresh(s) /\ Known(s) /\ pc[s] # "idle"
  BY <1>1, AtGroupCalm
<1>3. Known(s)' /\ \A g : Count(g)' = Count(g)
  BY <1>1, <1>2 DEF Known, Count
<1>4. Shown(s)'
  BY <1>1 DEF Calm, CalmAt, Shown
<1>5. OnlyMoves(s) /\ CalmAt(s)' /\ pc'[s] \in {"membersPage", "removedPage", "group"}
  <2>1. CASE NeedsMembers(s)
    <3>1. LoadFrom(s, "membersPage", FirstPage(s)) /\ todo' = todo
      BY <2>1 DEF Group
    <3>2. FirstPage(s) \in Nat
      BY <1>1, <2>1, FirstPageCalm
    <3>3. "membersPage" \in AtGroup /\ "membersPage" \notin Removals
      BY DEF AtGroup, Removals
    <3>4. OnlyMoves(s) /\ pc'[s] = "membersPage" /\ offset'[s] = FirstPage(s) /\ loaded'[s] = <<>>
      BY <1>1, <3>1, <3>2, <3>3, LoadFromRun
    <3>5. (NeedsMembers(s)' <=> NeedsMembers(s)) /\ FirstPage(s)' = FirstPage(s)
      BY <1>1, <3>1 DEF NeedsMembers, FirstPage, IsNew, Job
    <3>6. FirstLoad(s)'
      BY <2>1, <3>4, <3>5 DEF FirstLoad
    <3>7. Fresh(s)'
      BY <1>1, <1>2, <3>1, FreshStays
    <3> QED
      BY <1>3, <1>4, <3>4, <3>6, <3>7 DEF CalmAt, Removals
  <2>2. CASE ~ NeedsMembers(s)
    <3>1. AfterMembers(s) /\ Count(Job(s).g) = Len(net[Job(s).g])
      BY <1>1, <2>2, FirstPageCalm DEF Group
    <3>2. PICK g : g = Job(s).g /\ Count(g)' = Len(net[g])
      BY <1>3, <3>1
    <3> QED
      BY <1>1, <1>2, <1>3, <1>4, <3>1, <3>2, CalmAfterMembers
  <2> QED
    BY <2>1, <2>2
<1>6. Counted'
  BY <1>1, <1>2, <1>3, <1>5, CountedStays
<1> QED
  BY <1>2, <1>5, <1>6, CalmAfter

\* The members of a group are loaded: one page has all of them.
LEMMA CalmMembers ==
  ASSUME OnePage, TypeInv, Calm, NEW s \in Syncs, LoadMembers(s), ~ disturbed'
  PROVE  Calm'
<1>1. /\ pc[s] = "membersPage" /\ inDb' = inDb /\ changed' = changed /\ todo' = todo
      /\ net' = net /\ groups' = groups /\ leaves' = leaves /\ published' = published
      /\ gone' = gone
  BY DEF LoadMembers, db
<1>2. MembersArrive(s, MembersPage(Job(s).g, offset[s]))
  BY DEF LoadMembers, Failed
<1>3. pc[s] \in AtGroup /\ todo[s] # <<>>
  BY <1>1, AtHand DEF AtGroup
<1>4. PICK g \in GroupIds, n \in Nat :
        /\ g = Job(s).g /\ n = Len(net[g]) /\ n = Job(s).leaves /\ n <= MaxMembers[g]
        /\ MaxMembers[g] \in Nat
  BY <1>3, AtGroupCalm, MembersAre
<1>5. FirstLoad(s)
  BY <1>1 DEF Calm, CalmAt
<1>6. PICK f \in Nat : /\ f = FirstPage(s) /\ f = offset[s] /\ f <= n /\ (f = n => f = 0)
  BY <1>3, <1>4, <1>5, FirstPageCalm DEF FirstLoad
<1>7. PageSize \in Nat /\ PageSize >= 1 /\ n <= PageSize
  <2>1. MaxMembers[g] <= PageSize
    BY DEF OnePage
  <2> QED
    BY <1>4, <2>1, SyncAssumption
<1>8. PICK P \in Seq(LeafRecs), h \in Nat :
        /\ P = MembersPage(g, f)
        /\ h = IF f + PageSize <= Len(net[g]) THEN f + PageSize ELSE Len(net[g])
        /\ Len(P) = IF f + 1 <= h THEN h - f ELSE 0
        /\ \A i \in 1..Len(P) : f + i \in DOMAIN net[g] /\ P[i] = Told(g, f + i)
  BY PageFacts
<1>9. h = n /\ Len(P) = n - f
  <2>1. h = IF f + PageSize <= n THEN f + PageSize ELSE n
    BY <1>4, <1>8
  <2>2. Len(P) = IF f + 1 <= h THEN h - f ELSE 0
    BY <1>8
  <2>3. h = n
    BY <1>6, <1>7, <2>1
  <2> QED
    BY <1>6, <2>2, <2>3
<1>10. MembersArrive(s, P)
  BY <1>2, <1>4, <1>6, <1>8
<1>11. OnlyMoves(s) /\ loaded'[s] = loaded[s] \o P
  BY <1>1, <1>10, MembersArriveRun
<1>12. loaded'[s] = P
  <2>1. <<>> \o P = P
    OBVIOUS
  <2> QED
    BY <1>5, <1>11, <2>1 DEF FirstLoad
<1>13. pc'[s] = "appendUsers"
  <2>1. ~ (Len(P) + PageSize <= n)
    BY <1>6, <1>7, <1>9
  <2>2. AfterPage(s, Len(P), Job(s).leaves, "appendUsers")
    BY <1>10 DEF MembersArrive
  <2>3. pc' = [pc EXCEPT ![s] = "appendUsers"]
    BY <1>4, <2>1, <2>2 DEF AfterPage, Goto
  <2> QED
    BY <2>3 DEF TypeInv, LocalsOK
<1>14. Loaded(s)'
  <2>1. /\ (NeedsMembers(s)' <=> NeedsMembers(s)) /\ FirstPage(s)' = FirstPage(s)
        /\ Job(s)' = Job(s)
    BY <1>1 DEF NeedsMembers, FirstPage, IsNew, Job
  <2>2. \A k \in 1..Len(P) : P[k].member = <<g, f + k>>
    <3>1. \A j : Told(g, j).member = <<g, j>>
      BY LeafFields DEF Told
    <3> QED
      BY <1>8, <3>1
  <2> QED
    BY <1>1, <1>4, <1>5, <1>6, <1>9, <1>12, <2>1, <2>2 DEF Loaded, FirstLoad
<1>15. /\ Known(s)' /\ Shown(s)' /\ Fresh(s)'
  <2>1. Known(s) /\ Fresh(s) /\ Shown(s)
    BY <1>1, <1>3, AtGroupCalm DEF Calm, CalmAt
  <2> QED
    BY <1>1, <2>1, FreshStays DEF Known, Count, Shown
<1>16. CalmAt(s)'
  BY <1>13, <1>14, <1>15 DEF CalmAt, Removals
<1>17. \A x \in GroupIds : Count(x)' = Count(x)
  BY <1>1 DEF Count
<1>18. Counted'
  BY <1>1, <1>11, <1>13, <1>17, CountedStays
<1> QED
  BY <1>1, <1>11, <1>13, <1>16, <1>18, CalmAfter

\* They are appended: now all members of the group have leaves.
LEMMA CalmAppend ==
  ASSUME TypeInv, Calm, NEW s \in Syncs, AppendUsers(s), ~ disturbed'
  PROVE  Calm'
<1>1. /\ pc[s] = "appendUsers" /\ inDb' = inDb /\ changed' = changed
      /\ net' = net /\ groups' = groups /\ published' = published
      /\ leaves' = Table!WithAppended(leaves, loaded[s]) /\ ~ Table!Overflows(leaves, loaded[s])
      /\ pc' = [pc EXCEPT ![s] = "saveGroup"] /\ UNCHANGED <<todo, offset, loaded, gone>>
  BY DEF AppendUsers, Goto
<1>2. OnlyMoves(s) /\ pc'[s] = "saveGroup"
  BY <1>1, TypeOfStep DEF Step, TypeInv, LocalsOK
<1>3. pc[s] \in AtGroup /\ todo[s] # <<>>
  BY <1>1, AtHand DEF AtGroup
<1>4. PICK g \in GroupIds, n \in Nat : g = Job(s).g /\ n = Len(net[g])
  BY <1>3, AtGroupCalm
<1>5. Loaded(s) /\ Known(s) /\ Fresh(s)
  BY <1>1, <1>3, AtGroupCalm DEF Calm, CalmAt
<1>6. PICK f \in Nat : f = FirstPage(s) /\ f <= n /\ Count(g) \in {f, n}
  BY <1>3, <1>4, <1>5, FirstPageCalm DEF Loaded
<1>7. PICK L \in Seq(LeafRecs), new \in Seq(LeafRecs) : L = leaves /\ new = loaded[s]
  BY DEF TypeInv, LeavesOK, LocalsOK
<1>8. Len(new) = n - f /\ \A i \in 1..Len(new) : new[i].member = <<g, f + i>>
  BY <1>4, <1>5, <1>6, <1>7 DEF Loaded
<1>9. \A x : ~ Saving(x)
  BY <1>1, OnlyRunner DEF Calm
<1>10. \A x \in GroupIds : Count(x) <= Len(net[x]) /\ HasUpTo(L, x, Count(x))
  BY <1>7, <1>9 DEF Calm, Counted
<1>11. PICK M : M = leaves' /\ M = Table!WithAppended(L, new) /\ ~ Table!Overflows(L, new)
  BY <1>1, <1>7
<1>12. HasUpTo(M, g, n) /\ \A h, m : h # g => (HasUpTo(L, h, m) => HasUpTo(M, h, m))
  <2>1. PICK c \in {f, n} : c = Count(g)
    BY <1>6
  <2>2. HasUpTo(L, g, c)
    BY <1>10, <2>1
  <2> QED
    BY <1>6, <1>8, <1>11, <2>2, AppendedUpTo
<1>13. \A x : Saving(x)' <=> x = g
  <2>1. Job(s)' = Job(s)
    BY <1>1 DEF Job
  <2> QED
    BY <1>1, <1>2, <1>4, <2>1, SavingAfter
<1>14. Counted'
  <2>1. ASSUME NEW x \in GroupIds
        PROVE  /\ Count(x)' = Count(x)
               /\ HasUpTo(M, x, IF x = g THEN Len(net[x]) ELSE Count(x))
    BY <1>1, <1>4, <1>10, <1>12 DEF Count
  <2> QED
    BY <1>1, <1>10, <1>11, <1>13, <2>1 DEF Counted
<1>15. CalmAt(s)'
  <2>1. Known(s)' /\ Fresh(s)'
    BY <1>1, <1>5, FreshStays DEF Known, Count
  <2> QED
    BY <1>2, <2>1 DEF CalmAt, Removals
<1> QED
  BY <1>1, <1>2, <1>14, <1>15, CalmAfter

\* The group is recorded with the number of members InterRep had told.
LEMMA CalmSave ==
  ASSUME TypeInv, Calm, NEW s \in Syncs, SaveGroup(s)
  PROVE  Calm'
<1>1. /\ pc[s] = "saveGroup" /\ inDb' = inDb /\ net' = net /\ published' = published /\ leaves' = leaves
      /\ AfterMembers(s)
  BY DEF SaveGroup, env
<1>2. pc[s] \in AtGroup /\ todo[s] # <<>>
  BY <1>1, AtHand DEF AtGroup
<1>3. PICK g \in GroupIds, n \in Nat : g = Job(s).g /\ n = Len(net[g]) /\ n = Job(s).leaves
  BY <1>2, AtGroupCalm
<1>4. Known(s) /\ Fresh(s)
  BY <1>2, AtGroupCalm
<1>5. \A x \in GroupIds : /\ Count(x) <= Len(net[x])
                          /\ HasUpTo(leaves, x, IF x = g THEN Len(net[x]) ELSE Count(x))
  <2>1. \A x : Saving(x) <=> x = g
    BY <1>1, <1>3, OnlyRunner DEF Calm
  <2> QED
    BY <2>1 DEF Calm, Counted
<1>6. /\ Known(s)' /\ Shown(s)' /\ Count(g)' = n
      /\ \A x \in GroupIds \ {g} : Count(x)' = Count(x)
  <2>1. CASE IsNew(s) /\ g \in DOMAIN groups
    <3>1. groups' = groups /\ changed' = changed
      BY <1>3, <2>1 DEF SaveGroup
    <3>2. Count(g) = n /\ changed[s]
      BY <1>3, <1>4, <2>1 DEF Known, IsNew
    <3> QED
      BY <1>1, <1>4, <3>1, <3>2 DEF Known, Count, Shown
  <2>2. CASE ~ (IsNew(s) /\ g \in DOMAIN groups)
    <3>1. Write(s, Record(s))
      BY <1>3, <2>2 DEF SaveGroup
    <3>2. PICK T, doc : /\ T = groups' /\ doc = Record(s) /\ doc.leaves = n
                        /\ DOMAIN T = DOMAIN groups \cup {g} /\ T[g] = doc
                        /\ \A x \in DOMAIN groups \ {g} : T[x] = groups[x]
                        /\ changed'[s]
      <4>1. PICK doc \in Docs :
              /\ doc = Record(s) /\ doc.leaves = n
              /\ doc.size <= MaxMembers[Job(s).g] /\ doc.leaves <= MaxMembers[Job(s).g]
        BY <1>2, <1>3, RecordFacts
      <4>2. Write(s, doc)
        BY <3>1, <4>1
      <4>3. /\ DOMAIN groups' = DOMAIN groups \cup {Job(s).g} /\ groups'[Job(s).g] = doc
            /\ \A x \in DOMAIN groups \ {Job(s).g} : groups'[x] = groups[x]
            /\ changed'[s] = TRUE
        BY <1>2, <4>1, <4>2, WriteFacts
      <4> QED
        BY <1>3, <4>1, <4>3
    <3>3. Count(g)' = n /\ \A x \in GroupIds \ {g} : Count(x)' = Count(x)
      BY <3>2 DEF Count
    <3>4. DOMAIN groups \subseteq GroupIds
      BY TableFacts DEF TypeInv, GroupsOK
    <3>5. ASSUME NEW x \in DOMAIN groups'
          PROVE  IF x \in DOMAIN inDb'[s] THEN Count(x)' \in {inDb'[s][x].leaves, Len(net'[x])}
                                          ELSE Count(x)' = Len(net'[x]) /\ changed'[s]
      <4>1. CASE x = g
        BY <1>1, <1>3, <3>2, <3>3, <4>1
      <4>2. CASE x # g
        <5>1. x \in DOMAIN groups /\ x \in GroupIds
          BY <3>2, <3>4, <4>2
        <5>2. Count(x)' = Count(x)
          BY <3>3, <4>2, <5>1
        <5>3. IF x \in DOMAIN inDb[s] THEN Count(x) \in {inDb[s][x].leaves, Len(net[x])}
                                      ELSE Count(x) = Len(net[x]) /\ changed[s]
          BY <1>4, <5>1 DEF Known
        <5> QED
          BY <1>1, <3>2, <5>2, <5>3
      <4> QED
        BY <4>1, <4>2
    <3> QED
      BY <3>2, <3>3, <3>5 DEF Known, Shown
  <2> QED
    BY <2>1, <2>2
<1>7. OnlyMoves(s) /\ CalmAt(s)' /\ pc'[s] \in {"removedPage", "group"}
  <2>1. Count(g)' = Len(net[g])
    BY <1>3, <1>6
  <2> QED
    BY <1>1, <1>2, <1>3, <1>4, <1>6, <2>1, CalmAfterMembers
<1>8. \A x : ~ Saving(x)'
  BY <1>1, <1>7, SavingAfter
<1>9. Counted'
  <2>1. ASSUME NEW x \in GroupIds PROVE Count(x)' <= Len(net[x]) /\ HasUpTo(leaves, x, Count(x)')
    <3>1. CASE x = g
      <4>1. Count(x)' = n
        BY <1>6, <3>1 DEF Count
      <4>2. HasUpTo(leaves, g, Len(net[g]))
        BY <1>5
      <4>3. n <= n
        OBVIOUS
      <4>4. HasUpTo(leaves, x, n) /\ n <= Len(net[x])
        BY <1>3, <3>1, <4>2, <4>3, Zenon
      <4> QED
        BY <4>1, <4>4, Zenon
    <3>2. CASE x # g
      BY <1>5, <1>6, <3>2
    <3> QED
      BY <3>1, <3>2
  <2> QED
    BY <1>1, <1>8, <2>1 DEF Counted
<1> QED
  BY <1>1, <1>7, <1>9, CalmAfter

\* Pages of removed indexes change nothing yet.
LEMMA CalmLoadRemoved ==
  ASSUME TypeInv, Calm, NEW s \in Syncs, LoadRemoved(s)
  PROVE  Calm'
<1>1. /\ pc[s] = "removedPage" /\ inDb' = inDb /\ changed' = changed /\ todo' = todo /\ loaded' = loaded
      /\ net' = net /\ groups' = groups /\ leaves' = leaves /\ published' = published
  BY DEF LoadRemoved, db
<1>2. pc[s] \in AtGroup /\ pc[s] \in Removals /\ todo[s] # <<>>
  BY <1>1, AtHand DEF AtGroup, Removals
<1>3. PICK page \in SUBSET Nat : RemovedArrive(s, page)
  <2>1. RemovedPage(Job(s).g, offset[s]) \in SUBSET Nat
    BY <1>2, AtGroupCalm, RemovedPageFacts
  <2> QED
    BY <2>1 DEF LoadRemoved
<1>4. OnlyMoves(s) /\ pc'[s] \in {"removedPage", "removeUsers"}
  BY <1>1, <1>3, RemovedArriveRun
<1>5. Known(s) /\ Fresh(s) /\ Shown(s) /\ Count(Job(s).g) = Len(net[Job(s).g])
  BY <1>1, <1>2, AtGroupCalm DEF Calm, CalmAt
<1>6. Known(s)' /\ Fresh(s)' /\ Shown(s)' /\ (Count(Job(s).g) = Len(net[Job(s).g]))'
  BY <1>1, <1>5, FreshStays DEF Known, Count, Shown, Job
<1>7. CalmAt(s)'
  BY <1>4, <1>6 DEF CalmAt
<1>8. \A x \in GroupIds : Count(x)' = Count(x)
  BY <1>1 DEF Count
<1>9. Counted'
  BY <1>1, <1>4, <1>8, CountedStays
<1> QED
  BY <1>1, <1>4, <1>7, <1>9, CalmAfter

\* Removed members are found, since all members of the group have leaves.
LEMMA CalmRemove ==
  ASSUME TypeInv, TruthInv, Calm, NEW s \in Syncs, RemoveUsers(s)
  PROVE  Calm'
<1>1. /\ pc[s] = "removeUsers" /\ inDb' = inDb /\ changed' = changed
      /\ net' = net /\ groups' = groups /\ published' = published
      /\ leaves' = Table!WithRemoved(leaves, Job(s).g, gone[s])
  BY DEF RemoveUsers, env
<1>2. pc[s] \in AtGroup /\ todo[s] # <<>>
  BY <1>1, AtHand DEF AtGroup, Removals
<1>3. PICK g \in GroupIds, n \in Nat : g = Job(s).g /\ n = Len(net[g])
  BY <1>2, AtGroupCalm
<1>4. Known(s) /\ Fresh(s) /\ Count(g) = n
  BY <1>1, <1>2, <1>3, AtGroupCalm DEF Calm, CalmAt, Removals
<1>5. \A i \in gone[s] : <<g, i>> \in Table!LeafMembers(leaves)
  <2>1. ASSUME NEW i \in gone[s] PROVE i \in Nat /\ i \in 1..n
    <3>1. i \in DOMAIN net[g]
      BY <1>3 DEF TruthInv, Truthful, Removed
    <3>2. net[g] \in Seq(BOOLEAN)
      BY DEF TypeInv, NetOK
    <3>3. DOMAIN net[g] = 1..n
      BY <1>3, <3>2
    <3> QED
      BY <3>1, <3>3
  <2>2. HasUpTo(leaves, g, n)
    <3>1. ~ Saving(g)
      BY <1>1, OnlyRunner DEF Calm
    <3> QED
      BY <1>4, <3>1 DEF Calm, Counted
  <2> QED
    BY <2>1, <2>2 DEF HasUpTo
<1>6. Table!Removable(leaves, Job(s).g, gone[s]) = gone[s]
  BY <1>3, <1>5 DEF Table!Removable
<1>7. pc' = [pc EXCEPT ![s] = "updateSize"] /\ UNCHANGED <<todo, offset, loaded, gone>>
  BY <1>6 DEF RemoveUsers, Goto
<1>8. OnlyMoves(s) /\ pc'[s] = "updateSize"
  BY <1>7, TypeOfStep DEF Step, TypeInv, LocalsOK
<1>9. Known(s)' /\ Fresh(s)' /\ (Count(Job(s).g) = Len(net[Job(s).g]))'
  BY <1>1, <1>3, <1>4, <1>7, FreshStays DEF Known, Count, Job
<1>10. CalmAt(s)'
  BY <1>8, <1>9 DEF CalmAt
<1>11. Table!LeafMembers(leaves') = Table!LeafMembers(leaves)
  <2>1. PICK L \in Seq(LeafRecs), S \in SUBSET Nat : L = leaves /\ S = gone[s]
    BY DEF TypeInv, LeavesOK, LocalsOK
  <2>2. PICK M \in Seq(LeafRecs) : RemovedAs(L, g, S, M)
    BY RemovedFacts
  <2>3. Table!LeafMembers(M) = Table!LeafMembers(L)
    BY <2>2, RemovedMembers
  <2>4. M = leaves'
    BY <1>1, <1>3, <2>1, <2>2 DEF RemovedAs
  <2> QED
    BY <2>1, <2>3, <2>4
<1>12. \A x \in GroupIds : Count(x)' = Count(x)
  BY <1>1 DEF Count
<1>13. Counted'
  BY <1>1, <1>8, <1>11, <1>12, CountedStays
<1> QED
  BY <1>1, <1>8, <1>10, <1>13, CalmAfter

\* The size is recorded after removals, which makes the synchronisation publish.
LEMMA CalmUpdate ==
  ASSUME TypeInv, Calm, NEW s \in Syncs, UpdateSize(s)
  PROVE  Calm'
<1>1. /\ pc[s] = "updateSize" /\ inDb' = inDb /\ net' = net /\ published' = published /\ leaves' = leaves
      /\ NextGroup(s)
  BY DEF UpdateSize, env
<1>2. pc[s] \in AtGroup /\ pc[s] \in Removals /\ todo[s] # <<>>
  BY <1>1, AtHand DEF AtGroup, Removals
<1>3. PICK g \in GroupIds, n \in Nat : g = Job(s).g /\ n = Len(net[g])
  BY <1>2, AtGroupCalm
<1>4. Known(s) /\ Fresh(s) /\ Count(g) = n
  BY <1>1, <1>2, <1>3, AtGroupCalm DEF Calm, CalmAt
<1>5. PICK doc \in Docs :
        /\ doc = [groups[Job(s).g] EXCEPT !.size = Job(s).size]
        /\ doc.leaves = groups[g].leaves /\ g \in DOMAIN groups
        /\ doc.size <= MaxMembers[Job(s).g] /\ doc.leaves <= MaxMembers[Job(s).g]
  BY <1>2, <1>3, RecordFacts
<1>6. Write(s, doc)
  BY <1>5 DEF UpdateSize
<1>7. /\ DOMAIN groups' = DOMAIN groups /\ groups'[g] = doc
      /\ \A x \in DOMAIN groups \ {g} : groups'[x] = groups[x]
      /\ changed'[s] = TRUE
  BY <1>2, <1>3, <1>5, <1>6, WriteFacts
<1>8. \A x : Count(x)' = Count(x)
  BY <1>5, <1>7 DEF Count
<1>9. Known(s)' /\ Shown(s)'
  BY <1>1, <1>4, <1>7, <1>8 DEF Known, Shown
<1>10. OnlyMoves(s) /\ CalmAt(s)' /\ pc'[s] \in {"removedPage", "group"}
  <2>1. Count(g)' = Len(net[g])
    BY <1>3, <1>4, <1>8
  <2> QED
    BY <1>1, <1>2, <1>3, <1>4, <1>9, <2>1, CalmAfterMembers
<1>11. Counted'
  BY <1>1, <1>8, <1>10, CountedStays
<1> QED
  BY <1>1, <1>10, <1>11, CalmAfter

\* At the end the leaves are published if anything was written, and else they are
\* those that were published.
LEMMA CalmFinish ==
  ASSUME TypeInv, Calm, NEW s \in Syncs, Finish(s)
  PROVE  Calm'
<1>1. /\ pc[s] = "group" /\ net' = net /\ groups' = groups /\ leaves' = leaves
      /\ published' = IF changed[s] THEN leaves ELSE published
      /\ OnlyMoves(s) /\ pc'[s] = "idle"
  BY ForgetRun DEF Finish, env, db
<1>2. Shown(s)
  BY <1>1 DEF Calm, CalmAt
<1>3. leaves' = published'
  BY <1>1, <1>2 DEF Shown
<1>4. \A t \in Syncs : pc'[t] = "idle"
  BY <1>1, OnlyRunner DEF Calm, OnlyMoves, Same
<1>5. Alone' /\ \A t \in Syncs : CalmAt(t)'
  BY <1>4 DEF Alone, CalmAt, AtGroup, Removals
<1>6. \A x \in GroupIds : Count(x)' = Count(x)
  BY <1>1 DEF Count
<1>7. Counted'
  BY <1>1, <1>6, CountedStays
<1> QED
  BY <1>3, <1>5, <1>7 DEF Calm

\* A synchronisation starts, and no other one runs.
LEMMA CalmStart ==
  ASSUME TypeInv, Calm, NEW s \in Syncs, Start(s), ~ disturbed'
  PROVE  Calm'
<1>1. /\ Idle /\ net' = net /\ groups' = groups /\ leaves' = leaves /\ published' = published
      /\ changed' = changed /\ pc' = [pc EXCEPT ![s] = "getGroups"]
  BY DEF Start, Failed, Goto, db, locals
<1>2. pc'[s] = "getGroups" /\ \A t \in Syncs \ {s} : pc'[t] = "idle"
  BY <1>1 DEF Idle, TypeInv, LocalsOK
<1>3. Alone' /\ ~ Idle' /\ \A x : ~ Saving(x) /\ ~ Saving(x)'
  BY <1>1, <1>2 DEF Alone, Idle, Saving
<1>4. Counted'
  <2>1. ASSUME NEW x \in GroupIds PROVE Count(x)' = Count(x)
    BY <1>1 DEF Count
  <2>2. \A x \in GroupIds : Count(x) <= Len(net[x]) /\ HasUpTo(leaves, x, Count(x))
    BY <1>3 DEF Calm, Counted
  <2>3. \A x \in GroupIds : Count(x)' <= Len(net'[x]) /\ HasUpTo(leaves', x, Count(x)')
    BY <1>1, <2>1, <2>2
  <2> QED
    BY <1>3, <2>3 DEF Counted
<1>5. leaves' = published'
  BY <1>1 DEF Calm
<1>6. \A t \in Syncs : CalmAt(t)'
  BY <1>2, <1>5 DEF CalmAt, Shown, AtGroup, Removals
<1> QED
  BY <1>3, <1>4, <1>6 DEF Calm

\* InterRep changes while no synchronisation runs: it has more members than are counted.
LEMMA CalmNet ==
  ASSUME TypeInv, Calm, NEW g \in GroupIds,
         Register(g) \/ \E i \in DOMAIN net[g] : Unregister(g, i), ~ disturbed'
  PROVE  Calm'
<1>1. Idle
  BY DEF Register, Unregister
<1>2. /\ \A h \in GroupIds \ {g} : net'[h] = net[h]
      /\ Len(net'[g]) >= Len(net[g])
      /\ groups' = groups /\ leaves' = leaves /\ published' = published /\ pc' = pc
      /\ TypeInv'
  BY NetStep DEF db
<1>3. Idle' /\ Alone' /\ (\A t \in Syncs : CalmAt(t)') /\ \A x : ~ Saving(x) /\ ~ Saving(x)'
  BY <1>1, <1>2 DEF Idle, Alone, CalmAt, AtGroup, Removals, Saving
<1>4. Counted'
  <2>1. ASSUME NEW x \in GroupIds PROVE Count(x)' <= Len(net'[x]) /\ HasUpTo(leaves', x, Count(x)')
    <3>1. Count(x)' = Count(x)
      BY <1>2 DEF Count
    <3>2. Count(x) <= Len(net[x]) /\ HasUpTo(leaves, x, Count(x))
      BY <1>3 DEF Calm, Counted
    <3>3. PICK c, a, b \in Nat : c = Count(x) /\ a = Len(net[x]) /\ b = Len(net'[x])
      <4>1. net[x] \in Seq(BOOLEAN) /\ net'[x] \in Seq(BOOLEAN)
        BY <1>2 DEF TypeInv, NetOK
      <4>2. Count(x) \in Nat
        BY TableFacts DEF Count, TypeInv, GroupsOK, Docs
      <4> QED
        BY <4>1, <4>2
    <3>4. a <= b
      <4>1. CASE x = g
        BY <1>2, <3>3, <4>1
      <4>2. CASE x # g
        BY <1>2, <3>3, <4>2
      <4> QED
        BY <4>1, <4>2
    <3>5. c <= b
      BY <3>2, <3>3, <3>4
    <3> QED
      BY <1>2, <3>1, <3>2, <3>3, <3>5
  <2> QED
    BY <1>3, <2>1 DEF Counted
<1> QED
  BY <1>2, <1>3, <1>4 DEF Calm, Idle

\* A step that leaves the system undisturbed keeps it calm.
LEMMA CalmStep ==
  ASSUME OnePage, TypeInv, TruthInv, CalmInv, [Next]_vars
  PROVE  CalmInv'
<1> SUFFICES ASSUME ~ disturbed' PROVE Calm'
  BY DEF CalmInv
<1>1. CASE UNCHANGED vars
  <2>1. Calm
    BY <1>1 DEF CalmInv, vars, env
  <2> QED
    BY <1>1, <2>1 DEF vars, env, db, locals, Calm, Alone, Counted, CalmAt, Idle, Count, HasUpTo, Saving,
                      Fresh, Known, Shown, FirstLoad, Loaded, Job, NeedsMembers, IsNew, FirstPage
<1>2. ASSUME NEW g \in GroupIds, Register(g) \/ \E i \in DOMAIN net[g] : Unregister(g, i)
      PROVE  Calm'
  <2>1. ~ disturbed
    BY <1>2 DEF Register, Unregister
  <2> QED
    BY <1>2, <2>1, CalmNet DEF CalmInv
<1>3. ASSUME NEW s \in Syncs, Start(s) PROVE Calm'
  <2>1. ~ disturbed
    BY <1>3 DEF Start, Answered, Failed
  <2> QED
    BY <1>3, <2>1, CalmStart DEF CalmInv
<1>4. ASSUME NEW s \in Syncs, Step(s) PROVE Calm'
  <2>1. ~ disturbed
    BY <1>4 DEF Step, GetAllGroups, GetGroupsInDb, Group, LoadMembers, AppendUsers, SaveGroup,
                LoadRemoved, RemoveUsers, UpdateSize, Finish, Answered, Failed, env
  <2>2. Calm
    BY <2>1 DEF CalmInv
  <2> QED
    BY <1>4, <2>2, CalmReads, CalmGroup, CalmMembers, CalmAppend, CalmSave, CalmLoadRemoved,
       CalmRemove, CalmUpdate, CalmFinish DEF Step
<1>5. ASSUME NEW s \in Syncs, Interrupt(s) \/ Caught(s) PROVE FALSE
  BY <1>5 DEF Interrupt, Caught, Failed
<1> QED
  BY <1>1, <1>2, <1>3, <1>4, <1>5 DEF Next

\* As long as nothing fails, fills up, overlaps or changes during a synchronisation,
\* the one synchronisation that runs works on what InterRep and the database hold, the
\* recorded counts are those of the leaves except between appending and recording, and
\* what has been changed will be published.
THEOREM CalmInductive == ASSUME OnePage PROVE Spec => [](TypeInv /\ TruthInv /\ CalmInv)
<1>1. Init => CalmInv
  <2> SUFFICES ASSUME Init PROVE Calm
    BY DEF CalmInv
  <2>1. /\ (\A s \in Syncs : pc[s] = "idle") /\ leaves = published /\ leaves = <<>>
        /\ groups = <<>> /\ net = [g \in GroupIds |-> <<>>]
    BY DEF Init
  <2>2. Alone /\ (\A s \in Syncs : CalmAt(s)) /\ \A x : ~ Saving(x)
    BY <2>1 DEF Alone, CalmAt, AtGroup, Removals, Saving
  <2>3. Table!LeafMembers(leaves) = {}
    BY <2>1, Empties DEF Table!LeafMembers
  <2>4. \A g \in GroupIds : Count(g) = 0 /\ Len(net[g]) = 0
    BY <2>1, Empties DEF Count
  <2>5. \A g \in GroupIds : HasUpTo(leaves, g, 0)
    BY <2>3 DEF HasUpTo
  <2>6. \A g \in GroupIds : Count(g) <= Len(net[g]) /\ HasUpTo(leaves, g, Count(g))
    BY <2>4, <2>5
  <2>7. Counted
    BY <2>2, <2>6 DEF Counted
  <2> QED
    BY <2>1, <2>2, <2>7 DEF Calm
<1>2. TypeInv /\ TruthInv /\ CalmInv /\ [Next]_vars => CalmInv'
  BY CalmStep
<1> QED
  BY <1>1, <1>2, TruthInductive, PTL DEF Spec

\* The number of leaves recorded for a group is never ahead of the tree, while nothing
\* disturbs the synchronisations.
THEOREM CountedHolds == ASSUME OnePage PROVE Spec => []CountedHaveLeavesUndisturbed
<1>1. TypeInv /\ CalmInv => CountedHaveLeavesUndisturbed
  <2> SUFFICES ASSUME TypeInv, Calm, NEW g \in DOMAIN groups, NEW i \in 1..groups[g].leaves
               PROVE  HasLeaf(g, i)
    BY DEF CalmInv, CountedHaveLeavesUndisturbed, CountedMembersHaveLeaves
  <2>1. g \in GroupIds /\ groups[g].leaves \in Nat /\ Count(g) = groups[g].leaves
    BY TableFacts DEF TypeInv, GroupsOK, Docs, Count
  <2>2. PICK n \in Nat : n = Len(net[g])
    BY <2>1, DescriptionFacts
  <2>3. Count(g) <= n
    BY <2>1, <2>2 DEF Calm, Counted
  <2>4. i \in Nat /\ i \in 1..Count(g) /\ i \in 1..n
    BY <2>1, <2>3
  <2>5. HasUpTo(leaves, g, IF Saving(g) THEN n ELSE Count(g))
    BY <2>1, <2>2 DEF Calm, Counted
  <2> QED
    BY <2>4, <2>5 DEF HasUpTo, HasLeaf
<1> QED
  BY <1>1, CalmInductive, PTL

\* Whatever an undisturbed synchronisation changes in the tree is published by its end.
THEOREM PublishedHolds == ASSUME OnePage PROVE Spec => []ChangesArePublished
<1>1. CalmInv => ChangesArePublished
  BY DEF CalmInv, Calm, ChangesArePublished
<1> QED
  BY <1>1, CalmInductive, PTL
=============================================================================
