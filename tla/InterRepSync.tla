---------------------------- MODULE InterRepSync ----------------------------
(***************************************************************************)
(* interrep/index.ts with interrep/api.ts and group.service.ts: the        *)
(* synchronizer that copies the groups of the InterRep network into the    *)
(* tree.  One action per request to InterRep, per operation of the user    *)
(* service on the leaves (LeafTable) and per write of the collection       *)
(* Group.  A synchronisation starts at start-up and then from a timer that *)
(* does not wait for the previous one; other nodes run their own.  Bans    *)
(* blank leaves too; they are left to UserService and MessageHandler.      *)
(***************************************************************************)
EXTENDS Naturals, Sequences, FiniteSets

CONSTANTS
  Groups,       \* the groups of InterRep, in the order it lists them
  MaxMembers,   \* MaxMembers[g]: bound on the members ever registered in g
  PageSize,     \* members, or removed indexes, per request: 100 in the code
  Capacity,     \* leaves of the tree
  Syncs,        \* synchronisations that can run at the same time
  Zero,         \* config.zeroValue
  MaxFaults     \* bound: failed requests, interrupted and overlapping synchronisations

GroupIds == {Groups[i] : i \in DOMAIN Groups}
Members  == UNION {{<<g, i>> : i \in 1..MaxMembers[g]} : g \in GroupIds}

ASSUME SyncAssumption ==
  /\ Groups \in Seq(GroupIds) /\ MaxMembers \in [GroupIds -> Nat]
  /\ PageSize \in Nat \ {0} /\ Capacity \in Nat /\ MaxFaults \in Nat
  /\ Zero \notin Members

VARIABLES
  net,       \* net[g][i]: the i-th member ever registered in g is still one
  groups,    \* collection Group: a function, from the groups saved so far
  leaves,    \* the leaves of the tree
  published, \* the leaves when TREE_UPDATE was published last
  pc,        \* pc[s]: what synchronisation s does next
  todo,      \* todo[s]: the groups still to do as InterRep described them
  inDb,      \* inDb[s]: groupsInDb, read at the start
  offset,    \* offset[s]: of the page asked for next
  loaded,    \* loaded[s]: loadedMembers
  gone,      \* gone[s]: indexesOfDeletedMembers
  changed,   \* changed[s]: tree_root_changed
  faults,    \* failed requests, interruptions and overlaps so far
  disturbed  \* history: a fault, a full tree, an overlap, or a change on
             \* InterRep during a synchronisation has occurred

locals == <<todo, inDb, offset, loaded, gone, changed>>
env    == <<net, faults, disturbed>>
db     == <<groups, leaves>>
vars   == <<env, db, published, pc, locals>>

\* The identity commitment of a member is represented by the member itself.
Table == INSTANCE LeafTable WITH
  Blank <- Zero, Size <- Capacity, Communities <- GroupIds,
  Enrolled <- [g \in GroupIds |-> [i \in 1..MaxMembers[g] |-> <<g, i>>]]

NumberOfLeaves(g) == Len(net[g])
SizeOf(g)         == Cardinality({i \in DOMAIN net[g] : net[g][i]})

Init ==
  /\ net = [g \in GroupIds |-> <<>>]
  /\ groups = <<>>
  /\ leaves = <<>> /\ published = <<>>
  /\ pc = [s \in Syncs |-> "idle"]
  /\ todo = [s \in Syncs |-> <<>>]
  /\ inDb = [s \in Syncs |-> <<>>]
  /\ offset = [s \in Syncs |-> 0]
  /\ loaded = [s \in Syncs |-> <<>>] /\ gone = [s \in Syncs |-> {}]
  /\ changed = [s \in Syncs |-> FALSE]
  /\ faults = 0 /\ disturbed = FALSE

Idle == \A s \in Syncs : pc[s] = "idle"

-----------------------------------------------------------------------------
(* InterRep.  A removed member keeps its index: numberOfLeaves counts it,  *)
(* size does not, and its identity is listed as Zero.                      *)

Register(g) ==
  /\ NumberOfLeaves(g) < MaxMembers[g]
  /\ net' = [net EXCEPT ![g] = Append(@, TRUE)]
  /\ disturbed' = (disturbed \/ ~ Idle)
  /\ UNCHANGED <<faults, db, published, pc, locals>>

Unregister(g, i) ==
  /\ net[g][i]
  /\ net' = [net EXCEPT ![g][i] = FALSE]
  /\ disturbed' = (disturbed \/ ~ Idle)
  /\ UNCHANGED <<faults, db, published, pc, locals>>

\* A request fails or takes more than 5 s; interrep/api.ts returns no items.
Answered == UNCHANGED <<faults, disturbed>>
Failed   == faults < MaxFaults /\ faults' = faults + 1 /\ disturbed' = TRUE

Description(g) == [g |-> g, size |-> SizeOf(g), leaves |-> NumberOfLeaves(g)]
MembersPage(g, from) ==
  LET all == [i \in DOMAIN net[g] |-> Table!Leaf(<<g, i>>, IF net[g][i] THEN <<g, i>> ELSE Zero)]
  IN  SubSeq(all, from + 1, Table!Min({from + PageSize, Len(all)}))

\* The removed indexes in ascending order, cut into pages.
RemovedPage(g, from) ==
  LET removed == {i \in DOMAIN net[g] : ~ net[g][i]}
      rank(i) == Cardinality({j \in removed : j <= i})
  IN  {i \in removed : rank(i) \in (from + 1)..(from + PageSize)}

-----------------------------------------------------------------------------
(* syncCommitmentsFromInterRep.                                            *)

Goto(s, l) == pc' = [pc EXCEPT ![s] = l]
Job(s)     == Head(todo[s])
IsNew(s)   == Job(s).g \notin DOMAIN inDb[s]

\* At start-up and from the timer, also while another one runs.
Start(s) ==
  /\ pc[s] = "idle"
  /\ Goto(s, "getGroups")
  /\ IF Idle THEN Answered ELSE Failed
  /\ UNCHANGED <<net, db, published, locals>>

GetAllGroups(s) ==
  /\ pc[s] = "getGroups"
  /\ \/ todo' = [todo EXCEPT ![s] = [i \in DOMAIN Groups |-> Description(Groups[i])]] /\ Answered
     \/ todo' = [todo EXCEPT ![s] = <<>>] /\ Failed
  /\ Goto(s, "getGroupsInDb")
  /\ UNCHANGED <<net, db, published, inDb, offset, loaded, gone, changed>>

GetGroupsInDb(s) ==
  /\ pc[s] = "getGroupsInDb"
  /\ inDb' = [inDb EXCEPT ![s] = groups]
  /\ Goto(s, "group")
  /\ UNCHANGED <<env, db, published, todo, offset, loaded, gone, changed>>

\* What is left to do for the group at hand: load members (of a new group all,
\* else those after number_of_leaves), then removed members, then the next group.
FirstPageSkipsOne(s) == IF IsNew(s) THEN 0 ELSE inDb[s][Job(s).g].leaves + 1      \* mutant
FirstPage(s) == IF IsNew(s) THEN 0 ELSE inDb[s][Job(s).g].leaves
NeedsMembers(s) == IsNew(s) \/ Job(s).leaves > inDb[s][Job(s).g].leaves
NeedsRemovals(s) == ~ IsNew(s) /\ Job(s).size # inDb[s][Job(s).g].size

LoadFrom(s, l, first) ==
  /\ Goto(s, l)
  /\ offset' = [offset EXCEPT ![s] = first]
  /\ loaded' = [loaded EXCEPT ![s] = <<>>]
  /\ gone' = [gone EXCEPT ![s] = {}]

NextGroup(s) ==
  /\ todo' = [todo EXCEPT ![s] = Tail(@)]
  /\ LoadFrom(s, "group", 0)

AfterMembers(s) ==
  IF NeedsRemovals(s) THEN LoadFrom(s, "removedPage", 0) /\ UNCHANGED todo
                      ELSE NextGroup(s)

Group(s) ==
  /\ pc[s] = "group" /\ todo[s] # <<>>
  /\ IF NeedsMembers(s) THEN LoadFrom(s, "membersPage", FirstPage(s)) /\ UNCHANGED todo
                        ELSE AfterMembers(s)
  /\ UNCHANGED <<env, db, published, inDb, changed>>

\* The loops of the two pagination functions end when the page just loaded and
\* one more page are more than the group's size.  Offsets past the last member
\* are alike: every such page is empty.
NextOffset(s) == Table!Min({offset[s] + PageSize, MaxMembers[Job(s).g]})
AfterPage(s, n, to, l) ==
  IF n + PageSize <= to THEN offset' = [offset EXCEPT ![s] = NextOffset(s)] /\ UNCHANGED pc
                        ELSE Goto(s, l) /\ UNCHANGED offset

MembersArrive(s, page) ==
  /\ loaded' = [loaded EXCEPT ![s] = @ \o page]
  /\ AfterPage(s, Len(page), Job(s).leaves, "appendUsers")

LoadMembers(s) ==
  /\ pc[s] = "membersPage"
  /\ \/ MembersArrive(s, MembersPage(Job(s).g, offset[s])) /\ Answered
     \/ MembersArrive(s, <<>>) /\ Failed
  /\ UNCHANGED <<net, db, published, todo, inDb, gone, changed>>

\* The errors of appendUsers and saveGroup are caught and logged; what was
\* appended before a full tree was noticed stays.
AppendUsers(s) ==
  LET full == Table!Overflows(leaves, loaded[s])
  IN  /\ pc[s] = "appendUsers"
      /\ leaves' = Table!WithAppended(leaves, loaded[s])
      /\ IF full THEN AfterMembers(s) ELSE Goto(s, "saveGroup") /\ UNCHANGED <<todo, offset, loaded, gone>>
      /\ disturbed' = (disturbed \/ full)
      /\ UNCHANGED <<net, faults, groups, published, inDb, changed>>

WriteSilently(s, doc) ==                       \* mutant: tree_root_changed not set
  /\ groups' = [h \in DOMAIN groups \cup {Job(s).g} |-> IF h = Job(s).g THEN doc ELSE groups[h]]
  /\ UNCHANGED changed

\* Every write of a group sets tree_root_changed.
Write(s, doc) ==
  /\ groups' = [h \in DOMAIN groups \cup {Job(s).g} |-> IF h = Job(s).g THEN doc ELSE groups[h]]
  /\ changed' = [changed EXCEPT ![s] = TRUE]

KnownSize(s) == IF IsNew(s) THEN Job(s).size ELSE groups[Job(s).g].size
RecordSize(s) == [size |-> KnownSize(s), leaves |-> Job(s).size]                   \* mutant
RecordSum(s) ==                                \* mutant: the numbers of leaves added
  [size |-> KnownSize(s), leaves |-> Job(s).leaves + (IF IsNew(s) THEN 0 ELSE groups[Job(s).g].leaves)]
Record(s) == [size |-> KnownSize(s), leaves |-> Job(s).leaves]

\* saveGroup fails when the group has been saved meanwhile: group_id is unique.
SaveGroup(s) ==
  /\ pc[s] = "saveGroup"
  /\ IF IsNew(s) /\ Job(s).g \in DOMAIN groups THEN UNCHANGED <<groups, changed>>
                                               ELSE Write(s, Record(s))
  /\ AfterMembers(s)
  /\ UNCHANGED <<env, leaves, published, inDb>>

RemovedArrive(s, page) ==
  /\ gone' = [gone EXCEPT ![s] = @ \cup page]
  /\ AfterPage(s, Cardinality(page), Job(s).size, "removeUsers")

LoadRemoved(s) ==
  /\ pc[s] = "removedPage"
  /\ \/ RemovedArrive(s, RemovedPage(Job(s).g, offset[s])) /\ Answered
     \/ RemovedArrive(s, {}) /\ Failed
  /\ UNCHANGED <<net, db, published, todo, inDb, loaded, changed>>

\* removeUsersByIndexes throws at the first index without a leaf.
RemoveUsers(s) ==
  LET g == Job(s).g
      known == Table!Removable(leaves, g, gone[s]) = gone[s]
  IN  /\ pc[s] = "removeUsers"
      /\ leaves' = Table!WithRemoved(leaves, g, gone[s])
      /\ IF known THEN Goto(s, "updateSize") /\ UNCHANGED <<todo, offset, loaded, gone>>
                  ELSE NextGroup(s)
      /\ UNCHANGED <<env, groups, published, inDb, changed>>

UpdateSize(s) ==
  /\ pc[s] = "updateSize"
  /\ Write(s, [groups[Job(s).g] EXCEPT !.size = Job(s).size])
  /\ NextGroup(s)
  /\ UNCHANGED <<env, leaves, published, inDb>>

\* The locals of a synchronisation end with it.
Forget(s) ==
  /\ Goto(s, "idle")
  /\ todo' = [todo EXCEPT ![s] = <<>>] /\ inDb' = [inDb EXCEPT ![s] = <<>>]
  /\ offset' = [offset EXCEPT ![s] = 0]
  /\ loaded' = [loaded EXCEPT ![s] = <<>>] /\ gone' = [gone EXCEPT ![s] = {}]
  /\ changed' = [changed EXCEPT ![s] = FALSE]

Finish(s) ==
  /\ pc[s] = "group" /\ todo[s] = <<>>
  /\ published' = IF changed[s] THEN leaves ELSE published
  /\ Forget(s)
  /\ UNCHANGED <<env, db>>

\* A request to the database fails, or the node stops.  The loops of appendUsers
\* and removeUsersByIndexes may have got anywhere; nothing is undone.
Half(s) ==
  CASE pc[s] = "appendUsers" ->
         {Table!WithAppended(leaves, SubSeq(loaded[s], 1, n)) : n \in 0..Len(loaded[s])}
    [] pc[s] = "removeUsers" ->
         {Table!WithRemoved(leaves, Job(s).g, {i \in gone[s] : i < n}) : n \in 1..(MaxMembers[Job(s).g] + 1)}
    [] OTHER -> {leaves}

Interrupt(s) ==
  /\ pc[s] # "idle"
  /\ Failed
  /\ leaves' \in Half(s)
  /\ Forget(s)
  /\ UNCHANGED <<net, groups, published>>

\* The same inside a try block: the synchronisation goes on.
Caught(s) ==
  /\ Failed
  /\ leaves' \in Half(s)
  /\ \/ pc[s] \in {"appendUsers", "saveGroup"} /\ AfterMembers(s)
     \/ pc[s] \in {"removeUsers", "updateSize"} /\ NextGroup(s)
  /\ UNCHANGED <<net, groups, published, inDb, changed>>

Step(s) ==
  \/ GetAllGroups(s) \/ GetGroupsInDb(s) \/ Group(s)
  \/ LoadMembers(s) \/ AppendUsers(s) \/ SaveGroup(s)
  \/ LoadRemoved(s) \/ RemoveUsers(s) \/ UpdateSize(s)
  \/ Finish(s)

Next ==
  \/ \E g \in GroupIds : Register(g) \/ \E i \in DOMAIN net[g] : Unregister(g, i)
  \/ \E s \in Syncs : Start(s) \/ Step(s) \/ Interrupt(s) \/ Caught(s)

\* The timer fires again and again, and requests are answered or time out.
Fairness == \A s \in Syncs : WF_vars(Start(s)) /\ WF_vars(Step(s))

Spec     == Init /\ [][Next]_vars
FairSpec == Spec /\ Fairness

-----------------------------------------------------------------------------
(* Properties.                                                             *)

\* Types; a recorded count never exceeds what InterRep ever reported, and the
\* tree never holds more leaves than fit.
TypeOK ==
  /\ \A g \in GroupIds : net[g] \in Seq(BOOLEAN) /\ Len(net[g]) <= MaxMembers[g]
  /\ DOMAIN groups \subseteq GroupIds
  /\ \A g \in DOMAIN groups : {groups[g].size, groups[g].leaves} \subseteq 0..MaxMembers[g]
  /\ leaves \in Seq([member : Members, value : Members \cup {Zero}])
  /\ Len(leaves) <= Capacity
  /\ \A s \in Syncs : gone[s] \subseteq Nat /\ offset[s] \in Nat
  /\ faults \in 0..MaxFaults

HasLeaf(g, i) == <<g, i>> \in Table!LeafMembers(leaves)

\* The number of leaves recorded for a group is never ahead of the tree: "the
\* members are retrieved, using pagination, stored in the database, and the
\* respective group is updated in the database".
CountedMembersHaveLeaves ==
  \A g \in DOMAIN groups : \A i \in 1..groups[g].leaves : HasLeaf(g, i)

\* This much holds: as long as no request failed, nothing was interrupted, no
\* two synchronisations overlapped, the tree did not fill up, and InterRep did
\* not change during a synchronisation.
CountedHaveLeavesUndisturbed == ~ disturbed => CountedMembersHaveLeaves

\* When the recorded counts are those of InterRep, so that no synchronisation
\* will do anything, then no member that was removed has a leaf, even if
\* nothing has failed or changed during a synchronisation: "Group exists
\* locally, delete members that were removed from interep".
SettledMeansRemoved ==
  (Idle /\ ~ disturbed) => \A g \in DOMAIN groups :
    (groups[g].size = SizeOf(g) /\ groups[g].leaves = NumberOfLeaves(g))
      => \A i \in DOMAIN net[g] : ~ net[g][i] => ~ Table!HasValue(leaves, <<g, i>>)

\* The leaves stand for what InterRep said: no leaf is blank whose member was
\* not removed, and no leaf holds another member's identity, whatever fails.
BlankOnlyIfRemoved ==
  \A p \in DOMAIN leaves :
    LET m == leaves[p].member
    IN  /\ m[2] \in DOMAIN net[m[1]]
        /\ IF leaves[p].value = Zero THEN ~ net[m[1]][m[2]] ELSE leaves[p].value = m

\* A change of the leaves is published by the end of an undisturbed
\* synchronisation ("Publish event only when tree root hash changed").
ChangesArePublished == (Idle /\ ~ disturbed) => leaves = published

RoomForAll == Cardinality({m \in Members : m[2] \in DOMAIN net[m[1]]}) <= Capacity

\* Whatever fails on the way, and however synchronisations overlap, the number
\* of leaves recorded for every group reaches InterRep's and stays there, as
\* long as the tree has room: an older synchronisation that finishes last can
\* set a count back, and the next one repairs it.
CountsCatchUp ==
  <>[](RoomForAll => \A g \in GroupIds :
         g \in DOMAIN groups /\ groups[g].leaves = NumberOfLeaves(g))
=============================================================================
