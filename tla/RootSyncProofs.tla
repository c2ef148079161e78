--------------------------- MODULE RootSyncProofs ---------------------------
(***************************************************************************)
(* What a client knows about its root and leaves, for every number of      *)
(* overlapping calls, of changes of the tree and of faults, and whether or *)
(* not the sockets open in the order in which they were created.           *)
(***************************************************************************)
EXTENDS RootSync, TLAPS

Steps == {"connect", "root", "leaves", "store", "proving", "idle"}

\* The profile in memory is a function: the object never loses a field.
ProfileForm == listening => profile = [k \in ProfileKeys |-> profile[k]]

TypeInv == TypeOK /\ ProfileForm

ContactsDiffer(p) ==
  \A m, n \in DOMAIN p.contacts : p.contacts[m] = p.contacts[n] => m = n

\* What is said of the profile of a client that has been initialised.
GoodProfile(p) ==
  /\ p = [k \in ProfileKeys |-> p[k]] /\ DOMAIN p.rooms = RoomTypes
  /\ p.root_hash \in Answers /\ p.leaves \in Answers
  /\ ContactsDiffer(p)

\* TypeInv says of the profile what GoodProfile says.
LEMMA ProfileTyped == TypeInv => (listening => GoodProfile(profile))
BY DEF TypeInv, TypeOK, ProfileForm, GoodProfile, ContactsDiffer, ValidFormat

\* A refresh of root and leaves keeps the rest of the profile (updateRootHash,
\* updateLeaves).
LEMMA UpdatedGood ==
  ASSUME NEW p, GoodProfile(p), NEW new \in [root : Answers, leaves : Answers]
  PROVE  /\ GoodProfile(Updated(p, new))
         /\ Updated(p, new).root_hash = new.root /\ Updated(p, new).leaves = new.leaves
BY DEF GoodProfile, ContactsDiffer, Updated, UpdateLeaves, UpdateRootHash, ProfileKeys

\* The profile of a new client (initialize).
LEMMA NewGood ==
  ASSUME NEW new \in [root : Answers, leaves : Answers], NEW key, NEW id, NEW idc
  PROVE  LET p == NewProfile(idc, new.root, new.leaves, key, id)
         IN  GoodProfile(p) /\ p.root_hash = new.root /\ p.leaves = new.leaves
<1> DEFINE p == NewProfile(idc, new.root, new.leaves, key, id)
<1>1. p = [k \in ProfileKeys |-> p[k]]
  BY DEF NewProfile, ProfileKeys
<1>2. DOMAIN p.rooms = RoomTypes /\ p.contacts = <<>>
  BY DEF NewProfile
<1>3. p.root_hash = new.root /\ p.leaves = new.leaves
  BY DEF NewProfile
<1>4. ContactsDiffer(p)
  BY <1>2 DEF ContactsDiffer
<1> QED
  BY <1>1, <1>2, <1>3, <1>4 DEF GoodProfile

\* Inserting a contact whose name and key are free, and deleting one, leave no
\* two contacts with one key (insertTrustedContact, deleteTrustedContact).
LEMMA InsertGood ==
  ASSUME NEW p, GoodProfile(p), NEW n, NEW k, KeyFree(p, k, {})
  PROVE  /\ GoodProfile(InsertContact(p, n, k))
         /\ InsertContact(p, n, k).root_hash = p.root_hash
         /\ InsertContact(p, n, k).leaves = p.leaves
BY DEF GoodProfile, ContactsDiffer, InsertContact, KeyFree, ProfileKeys

(* Deleting a contact keeps the profile good, and its root and leaves.      *)
LEMMA DeleteGood ==
  ASSUME NEW p, GoodProfile(p), NEW n
  PROVE  /\ GoodProfile(DeleteContact(p, n))
         /\ DeleteContact(p, n).root_hash = p.root_hash
         /\ DeleteContact(p, n).leaves = p.leaves
BY DEF GoodProfile, ContactsDiffer, DeleteContact, ProfileKeys

\* No edit of the profile touches its root or leaves.
LEMMA EditsGood ==
  ASSUME TypeInv, Edits
  PROVE  /\ GoodProfile(profile')
         /\ profile'.root_hash = profile.root_hash /\ profile'.leaves = profile.leaves
         /\ UNCHANGED <<server, network, root_up_to_date, readers, faults, missed>>
<1>0. GoodProfile(profile) /\ listening
  BY ProfileTyped DEF Edits
<1>1. ASSUME NEW n \in Usernames, ChangeUsername(n)
      PROVE  /\ GoodProfile(profile')
             /\ profile'.root_hash = profile.root_hash /\ profile'.leaves = profile.leaves
  BY <1>0, <1>1 DEF ChangeUsername, Edit, UpdateUsername, GoodProfile, ContactsDiffer, ProfileKeys
<1>2. ASSUME NEW n \in Names, RemoveContact(n)
      PROVE  /\ GoodProfile(profile')
             /\ profile'.root_hash = profile.root_hash /\ profile'.leaves = profile.leaves
  BY <1>0, <1>2, DeleteGood DEF RemoveContact, Edit
<1>3. ASSUME NEW n \in Names, NEW k \in Keys, AddContact(n, k)
      PROVE  /\ GoodProfile(profile')
             /\ profile'.root_hash = profile.root_hash /\ profile'.leaves = profile.leaves
  BY <1>0, <1>3, InsertGood DEF AddContact, Edit, CanInsertContact
<1>4. ASSUME NEW n \in Names, NEW k \in Keys, NEW m \in Names, ChangeContact(m, n, k)
      PROVE  /\ GoodProfile(profile')
             /\ profile'.root_hash = profile.root_hash /\ profile'.leaves = profile.leaves
  <2> DEFINE q == DeleteContact(profile, m)
  <2>1. /\ GoodProfile(q) /\ q.root_hash = profile.root_hash /\ q.leaves = profile.leaves
    BY <1>0, DeleteGood
  <2>2. KeyFree(q, k, {})
    BY <1>0, <1>4 DEF ChangeContact, CanUpdateContact, KeyFree, DeleteContact, GoodProfile, ProfileKeys
  <2>3. profile' = InsertContact(q, n, k)
    BY <1>4 DEF ChangeContact, Edit, UpdateContact
  <2> HIDE DEF q
  <2> QED
    BY <2>1, <2>2, <2>3, InsertGood
<1>5. UNCHANGED <<server, network, root_up_to_date, readers, faults, missed>>
  BY DEF Edits, ChangeUsername, RemoveContact, AddContact, ChangeContact, Edit
<1> QED
  BY <1>1, <1>2, <1>3, <1>4, <1>5 DEF Edits

-----------------------------------------------------------------------------
(* The type invariant.                                                     *)

\* GoodProfile is what TypeInv asks of a profile.
LEMMA TypedProfile ==
  (listening => GoodProfile(profile)) => /\ ProfileForm
                                         /\ listening => /\ ValidFormat(profile)
                                                         /\ profile.root_hash \in Answers
                                                         /\ profile.leaves \in Answers
                                                         /\ ContactsDiffer(profile)
BY DEF ProfileForm, GoodProfile, ValidFormat, ProfileKeys

\* The variables other than the profile.
TreeOK    == tree \in [root : Versions, leaves : Versions, changing : BOOLEAN]
CountsOK  == redis \in Nat /\ events \in Nat /\ faults \in 0..MaxFaults /\ waiting \in 1..4
SocketsOK == sockets \in [Sockets -> {"connecting", "open", "closed"}]
FlagsOK   == listening \in BOOLEAN /\ root_up_to_date \in BOOLEAN /\ missed \in BOOLEAN
ReadersOK == /\ pc \in [Readers -> Steps] /\ hit \in [Readers -> BOOLEAN]
             /\ got \in [Readers -> [root : Answers, leaves : Answers]]
FrameOK   == TreeOK /\ CountsOK /\ SocketsOK /\ FlagsOK /\ ReadersOK

\* The type invariant in two parts.
LEMMA Parts == TypeInv <=> FrameOK /\ (listening => GoodProfile(profile))
<1>1. TypeInv => FrameOK
  BY DEF TypeInv, TypeOK, FrameOK, TreeOK, CountsOK, SocketsOK, FlagsOK, ReadersOK, Steps
<1>2. FrameOK /\ (listening => GoodProfile(profile)) => TypeInv
  BY TypedProfile DEF TypeInv, TypeOK, FrameOK, TreeOK, CountsOK, SocketsOK, FlagsOK, ReadersOK, Steps, ContactsDiffer
<1> QED
  BY <1>1, <1>2, ProfileTyped

\* Every version can be an answer, and so can a failure.
LEMMA AnswersAre == 0 \in Versions /\ Versions \subseteq Answers /\ None \in Answers
BY RootSyncAssumption DEF Versions, Answers

\* The tree: a root is always a version that some leaves had.
LEMMA TreeStep == TypeInv /\ [Next]_vars => TreeOK'
<1> SUFFICES ASSUME TypeInv, [Next]_vars PROVE TreeOK'
  OBVIOUS
<1>0. TreeOK
  BY Parts DEF FrameOK
<1>1. CASE ChangeLeaf
  <2>1. tree.leaves + 1 \in Versions
    BY <1>0, <1>1, RootSyncAssumption DEF TreeOK, ChangeLeaf, Versions
  <2>2. tree' = [tree EXCEPT !.leaves = tree.leaves + 1, !.changing = TRUE]
    BY <1>1 DEF ChangeLeaf
  <2> DEFINE next == tree.leaves + 1
  <2> HIDE DEF next
  <2> QED
    BY <1>0, <2>1, <2>2 DEF TreeOK, next
<1>2. CASE ChangeRoot
  BY <1>0, <1>2 DEF TreeOK, ChangeRoot
<1>3. CASE Publish \/ CutShort
  <2>1. tree' = [tree EXCEPT !.changing = FALSE]
    BY <1>3 DEF Publish, CutShort
  <2> QED
    BY <1>0, <2>1 DEF TreeOK
<1>4. CASE UNCHANGED tree
  BY <1>0, <1>4 DEF TreeOK
<1>5. Broadcast \/ ReceiveEvent \/ StoreInit \/ Edits \/ UNCHANGED vars => UNCHANGED tree
  BY EditsGood DEF Broadcast, ReceiveEvent, StoreInit, vars, server
<1>6. \A k \in Sockets : OpenSocket(k) \/ CloseSocket(k) => UNCHANGED tree
  BY DEF OpenSocket, CloseSocket, server
<1>7. \A s \in Readers : Reading(s) \/ Store(s) \/ Begin(s) \/ Recover(s) \/ SendMessage(s)
        => UNCHANGED tree
  BY DEF Reading, ReadRoot, ReadLeaves, Answer, Store, Begin, Recover, SendMessage, server
<1> QED
  BY <1>1, <1>2, <1>3, <1>4, <1>5, <1>6, <1>7 DEF Next

\* The counters.
LEMMA CountsStep == TypeInv /\ [Next]_vars => CountsOK'
<1> SUFFICES ASSUME TypeInv, [Next]_vars PROVE CountsOK'
  OBVIOUS
<1> USE RootSyncAssumption DEF CountsOK
<1>0. CountsOK
  BY Parts DEF FrameOK
<1>1. CASE ChangeLeaf \/ ChangeRoot
  BY <1>0, <1>1 DEF ChangeLeaf, ChangeRoot, network
<1>2. CASE Publish \/ CutShort
  BY <1>0, <1>2 DEF Publish, CutShort, Fault, network
<1>3. CASE Broadcast
  <2>1. redis' \in Nat /\ events' \in Nat /\ waiting' = waiting
    BY <1>0, <1>3 DEF Broadcast, network
  <2>2. Fault \/ NoFault
    BY <1>3 DEF Broadcast
  <2> QED
    BY <1>0, <2>1, <2>2 DEF Fault, NoFault
<1>4. ASSUME NEW k \in Sockets, OpenSocket(k) PROVE CountsOK'
  BY <1>0, <1>4 DEF OpenSocket, server
<1>5. ASSUME NEW k \in Sockets, CloseSocket(k) PROVE CountsOK'
  BY <1>0, <1>5 DEF CloseSocket, Fault
<1>6. CASE ReceiveEvent
  <2>1. redis' = redis /\ events > 0 /\ events' = events - 1 /\ faults' = faults /\ waiting' = waiting
    BY <1>6 DEF ReceiveEvent, network
  <2> QED
    BY <1>0, <2>1
<1>7. ASSUME NEW s \in Readers, Reading(s) PROVE CountsOK'
  <2>1. redis' = redis /\ events' = events /\ waiting' = waiting /\ (Fault \/ NoFault)
    BY <1>7 DEF Reading, ReadRoot, ReadLeaves, Answer, server, network
  <2> QED
    BY <1>0, <2>1 DEF Fault, NoFault
<1>8. CASE UNCHANGED <<redis, events, faults, waiting>>
  BY <1>0, <1>8
<1>9. StoreInit \/ Edits \/ UNCHANGED vars => UNCHANGED <<redis, events, faults, waiting>>
  BY EditsGood DEF StoreInit, vars, server, network
<1>10. \A s \in Readers : Store(s) \/ Begin(s) \/ Recover(s) \/ SendMessage(s)
         => UNCHANGED <<redis, events, faults, waiting>>
  BY DEF Store, Begin, Recover, SendMessage, server, network
<1> QED
  BY <1>1, <1>2, <1>3, <1>4, <1>5, <1>6, <1>7, <1>8, <1>9, <1>10 DEF Next

\* The sockets and the flags.
LEMMA FlagsStep == TypeInv /\ [Next]_vars => SocketsOK' /\ FlagsOK'
<1> SUFFICES ASSUME TypeInv, [Next]_vars PROVE SocketsOK' /\ FlagsOK'
  OBVIOUS
<1>0. SocketsOK /\ FlagsOK
  BY Parts DEF FrameOK
<1>1. ChangeLeaf \/ ChangeRoot \/ Publish \/ CutShort \/ Broadcast \/ ReceiveEvent \/ StoreInit
        \/ Edits \/ UNCHANGED vars => sockets' = sockets /\ FlagsOK'
  BY <1>0, EditsGood DEF FlagsOK, ChangeLeaf, ChangeRoot, Publish, CutShort, Broadcast, ReceiveEvent,
     SetRootObsolete, StoreInit, vars, network
<1>2. ASSUME NEW k \in Sockets, OpenSocket(k) \/ CloseSocket(k) PROVE SocketsOK' /\ FlagsOK'
  <2>1. FlagsOK'
    BY <1>0, <1>2 DEF FlagsOK, OpenSocket, CloseSocket
  <2>2. SocketsOK'
    BY <1>0, <1>2 DEF SocketsOK, OpenSocket, CloseSocket
  <2> QED
    BY <2>1, <2>2
<1>3. ASSUME NEW s \in Readers,
             Reading(s) \/ Store(s) \/ Begin(s) \/ Recover(s) \/ SendMessage(s)
      PROVE  sockets' = sockets /\ FlagsOK'
  BY <1>0, <1>3 DEF FlagsOK, Reading, ReadRoot, ReadLeaves, Answer, Store, Begin, Recover,
     SetRootObsolete, SendMessage, network
<1> QED
  BY <1>0, <1>1, <1>2, <1>3 DEF Next, SocketsOK

\* The calls that read root and leaves.
LEMMA ReadersStep == TypeInv /\ [Next]_vars => ReadersOK'
<1> SUFFICES ASSUME TypeInv, [Next]_vars PROVE ReadersOK'
  OBVIOUS
<1>0. ReadersOK /\ TreeOK /\ (listening => GoodProfile(profile))
  BY Parts DEF FrameOK
<1> USE <1>0, AnswersAre DEF ReadersOK, Steps
<1>1. CASE UNCHANGED readers
  BY <1>1 DEF readers
<1>2. ChangeLeaf \/ ChangeRoot \/ Publish \/ CutShort \/ Broadcast \/ Edits \/ UNCHANGED vars
        => UNCHANGED readers
  BY EditsGood DEF ChangeLeaf, ChangeRoot, Publish, CutShort, Broadcast, vars
<1>3. ASSUME NEW k \in Sockets, OpenSocket(k) PROVE ReadersOK'
  BY <1>3 DEF OpenSocket
<1>4. ASSUME NEW k \in Sockets, CloseSocket(k) PROVE ReadersOK'
  BY <1>1, <1>4 DEF CloseSocket
<1>5. CASE ReceiveEvent
  <2>1. pc' = pc /\ got' = got
    BY <1>5 DEF ReceiveEvent
  <2>2. hit' \in [Readers -> BOOLEAN]
    BY <1>5 DEF ReceiveEvent
  <2> QED
    BY <2>1, <2>2
<1>6. CASE StoreInit
  BY <1>6 DEF StoreInit, Nothing, Readers
<1>7. ASSUME NEW s \in Readers, Reading(s) PROVE ReadersOK'
  <2>1. tree.root \in Answers /\ tree.leaves \in Answers
    BY DEF TreeOK
  <2>2. CASE ReadRoot(s)
    BY <2>1, <2>2 DEF ReadRoot, Answer
  <2>3. CASE ReadLeaves(s)
    BY <2>1, <2>3 DEF ReadLeaves, Answer
  <2> QED
    BY <1>7, <2>2, <2>3 DEF Reading
<1>8. ASSUME NEW s \in Readers, Store(s) PROVE ReadersOK'
  BY <1>8 DEF Store
<1>9. ASSUME NEW s \in Readers, Begin(s) PROVE ReadersOK'
  BY <1>9 DEF Begin, Ready, GoodProfile
<1>10. ASSUME NEW s \in Readers, Recover(s) PROVE ReadersOK'
  BY <1>10 DEF Recover
<1>11. ASSUME NEW s \in Readers, SendMessage(s) PROVE ReadersOK'
  BY <1>11 DEF SendMessage, Nothing
<1> QED
  BY <1>1, <1>2, <1>3, <1>4, <1>5, <1>6, <1>7, <1>8, <1>9, <1>10, <1>11 DEF Next

\* No step breaks the profile.
LEMMA ProfileStep == TypeInv /\ [Next]_vars => (listening => GoodProfile(profile))'
<1> SUFFICES ASSUME TypeInv, [Next]_vars, listening' PROVE GoodProfile(profile')
  BY DEF GoodProfile, ContactsDiffer
<1>0. FrameOK /\ (listening => GoodProfile(profile))
  BY Parts
<1>1. CASE StoreInit
  <2>1. got[opening] \in [root : Answers, leaves : Answers]
    BY <1>0 DEF FrameOK, ReadersOK, Readers
  <2> QED
    BY <1>1, <2>1, NewGood DEF StoreInit
<1>2. ASSUME NEW s \in Readers, Store(s) PROVE GoodProfile(profile')
  <2>1. got[s] \in [root : Answers, leaves : Answers] /\ listening
    BY <1>0, <1>2 DEF FrameOK, ReadersOK, Store, network
  <2> QED
    BY <1>0, <1>2, <2>1, UpdatedGood DEF Store
<1>3. ASSUME NEW s \in Readers, Recover(s) PROVE GoodProfile(profile')
  <2>1. PICK old \in 0..tree.leaves : profile' = Updated(profile, [root |-> old, leaves |-> old])
    BY <1>3 DEF Recover
  <2>2. [root |-> old, leaves |-> old] \in [root : Answers, leaves : Answers]
    BY <1>0, RootSyncAssumption DEF FrameOK, TreeOK, Answers, Versions
  <2>3. listening
    BY <1>3 DEF Recover, Ready
  <2> QED
    BY <1>0, <2>1, <2>2, <2>3, UpdatedGood
<1>4. CASE Edits
  BY <1>4, EditsGood
<1>5. CASE UNCHANGED <<profile, listening>>
  BY <1>0, <1>5
<1>6. ChangeLeaf \/ ChangeRoot \/ Publish \/ CutShort \/ Broadcast \/ ReceiveEvent
        => UNCHANGED <<profile, listening>>
  BY DEF ChangeLeaf, ChangeRoot, Publish, CutShort, Broadcast, ReceiveEvent, network
<1>7. \A k \in Sockets : OpenSocket(k) \/ CloseSocket(k) => UNCHANGED <<profile, listening>>
  BY DEF OpenSocket, CloseSocket
<1>8. \A s \in Readers : Reading(s) \/ Begin(s) \/ SendMessage(s) => UNCHANGED <<profile, listening>>
  BY DEF Reading, ReadRoot, ReadLeaves, Answer, Begin, SendMessage, network
<1>9. CASE UNCHANGED vars
  BY <1>5, <1>9 DEF vars, network
<1> QED
  BY <1>1, <1>2, <1>3, <1>4, <1>5, <1>6, <1>7, <1>8, <1>9 DEF Next

\* The initial states are typed.
LEMMA InitTyped == Init => TypeInv
<1>1. Init => TreeOK
  BY AnswersAre DEF Init, TreeOK
<1>2. Init => SocketsOK
  BY DEF Init, SocketsOK
<1>3. Init => FlagsOK
  BY DEF Init, FlagsOK
<1>4. Init => CountsOK
  BY RootSyncAssumption DEF Init, CountsOK
<1>5. Init => ReadersOK
  BY AnswersAre DEF Init, ReadersOK, Nothing, Steps
<1> QED
  BY <1>1, <1>2, <1>3, <1>4, <1>5, Parts DEF FrameOK, Init

\* No step changes a type.
LEMMA TypeStep == TypeInv /\ [Next]_vars => TypeInv'
<1>1. TypeInv /\ [Next]_vars => FrameOK' /\ (listening => GoodProfile(profile))'
  BY TreeStep, CountsStep, FlagsStep, ReadersStep, ProfileStep DEF FrameOK
<1>2. (FrameOK /\ (listening => GoodProfile(profile)) => TypeInv)'
  BY Parts, PTL
<1> QED
  BY <1>1, <1>2

\* The type invariant: the profile keeps its fields through every refresh,
\* recovery and edit, and no key ever belongs to two of its contacts
\* (insertTrustedContact, updateTrustedContact).
THEOREM TypeCorrect == Spec => []TypeOK
<1>1. TypeInv => TypeOK
  BY DEF TypeInv
<1> QED
  BY <1>1, InitTyped, TypeStep, PTL DEF Spec

-----------------------------------------------------------------------------
(* What the client knows.  NoticeOrCurrent alone is not inductive: a refresh *)
(* stores what its requests have read, so what is being read must be right  *)
(* or excused too.                                                         *)

Pending == Coming \/ missed

ReadCurrent(s) ==
  /\ pc[s] = "leaves" /\ got[s].root # tree.root => hit[s] \/ Pending
  /\ pc[s] \in {"store", "proving"} /\ Outdated(got[s].root, got[s].leaves) => hit[s] \/ Pending

ReadsCurrent == \A s \in Readers : ReadCurrent(s)

IInv == TypeInv /\ NoticeOrCurrent /\ ReadsCurrent

\* A change that is under way, announced or missed excuses everybody.
LEMMA PendingExcuses == Pending' => NoticeOrCurrent' /\ ReadsCurrent'
BY DEF Pending, NoticeOrCurrent, ReadsCurrent, ReadCurrent

\* No step of the server loses a change without being counted as missed: the
\* change is under way, in Redis, on the socket, or lost.
LEMMA ServerPending ==
  TypeInv /\ (ChangeLeaf \/ ChangeRoot \/ Publish \/ CutShort \/ Broadcast) => Pending'
<1> SUFFICES ASSUME TypeInv, ChangeLeaf \/ ChangeRoot \/ Publish \/ CutShort \/ Broadcast
             PROVE  Pending'
  OBVIOUS
<1>0. redis \in Nat /\ events \in Nat /\ TreeOK
  BY Parts DEF FrameOK, CountsOK
<1>1. CASE ChangeLeaf
  BY <1>0, <1>1 DEF ChangeLeaf, Pending, Coming, TreeOK
<1>2. CASE ChangeRoot
  BY <1>0, <1>2 DEF ChangeRoot, Pending, Coming, TreeOK
<1>3. CASE Publish
  <2>1. redis' > 0
    BY <1>0, <1>3 DEF Publish
  <2> QED
    BY <2>1 DEF Pending, Coming
<1>4. CASE CutShort
  BY <1>4 DEF CutShort, Pending
<1>5. CASE Broadcast
  <2>1. missed' \/ events' > 0
    BY <1>0, <1>5 DEF Broadcast
  <2> QED
    BY <2>1 DEF Pending, Coming
<1> QED
  BY <1>1, <1>2, <1>3, <1>4, <1>5

\* A reader that a step leaves alone stays excused or right.
LEMMA ReaderKept ==
  ASSUME NEW s \in Readers, ReadCurrent(s), UNCHANGED tree, Pending => Pending',
         hit[s] => hit'[s], got'[s] = got[s],
         pc'[s] \in {"leaves", "store", "proving"} => pc'[s] = pc[s]
  PROVE  ReadCurrent(s)'
BY DEF ReadCurrent, Outdated

\* The sockets and the events: what is lost with a connection has been missed,
\* and an event that is heard marks root and leaves as obsolete, and with them
\* everything that is being read.
LEMMA NetworkStep ==
  ASSUME IInv, \/ \E k \in Sockets : OpenSocket(k) \/ CloseSocket(k)
               \/ ReceiveEvent
  PROVE  NoticeOrCurrent' /\ ReadsCurrent'
<1>0. ReadersOK /\ events \in Nat
  BY Parts DEF IInv, FrameOK, CountsOK
<1>1. ASSUME NEW k \in Sockets, OpenSocket(k) PROVE NoticeOrCurrent' /\ ReadsCurrent'
  <2>1. /\ UNCHANGED <<tree, redis, events, missed, listening, profile, root_up_to_date, got, hit>>
        /\ \A s \in Readers : pc'[s] # "root" => pc'[s] = pc[s]
    BY <1>0, <1>1 DEF OpenSocket, server, ReadersOK
  <2>2. Pending' = Pending
    BY <2>1 DEF Pending, Coming
  <2>3. NoticeOrCurrent'
    BY <2>1 DEF IInv, NoticeOrCurrent, Coming, Outdated
  <2>4. ASSUME NEW s \in Readers PROVE ReadCurrent(s)'
    BY <2>1, <2>2, ReaderKept DEF IInv, ReadsCurrent
  <2> QED
    BY <2>3, <2>4 DEF ReadsCurrent
<1>2. ASSUME NEW k \in Sockets, CloseSocket(k) PROVE NoticeOrCurrent' /\ ReadsCurrent'
  <2>1. UNCHANGED <<tree, redis, listening, profile, root_up_to_date, pc, got, hit>>
    BY <1>2 DEF CloseSocket, readers
  <2>2. Pending => Pending'
    BY <1>0, <1>2, <2>1 DEF CloseSocket, Pending, Coming
  <2>3. NoticeOrCurrent'
    BY <2>1, <2>2 DEF IInv, NoticeOrCurrent, Pending, Outdated
  <2>4. ASSUME NEW s \in Readers PROVE ReadCurrent(s)'
    BY <2>1, <2>2, ReaderKept DEF IInv, ReadsCurrent
  <2> QED
    BY <2>3, <2>4 DEF ReadsCurrent
<1>3. CASE ReceiveEvent
  <2>1. CASE ~ listening
    <3>1. Pending'
      BY <1>3, <2>1 DEF ReceiveEvent, Pending
    <3> QED
      BY <3>1, PendingExcuses
  <2>2. CASE listening
    <3>1. /\ ~ root_up_to_date' /\ UNCHANGED pc
          /\ hit' = [s \in Readers |-> pc[s] # "idle"]
      BY <1>3, <2>2 DEF ReceiveEvent, SetRootObsolete
    <3>2. NoticeOrCurrent'
      BY <3>1 DEF NoticeOrCurrent
    <3>3. ReadsCurrent'
      BY <3>1 DEF ReadsCurrent, ReadCurrent
    <3> QED
      BY <3>2, <3>3
  <2> QED
    BY <2>1, <2>2
<1> QED
  BY <1>1, <1>2, <1>3

\* A request finds the present version, or fails and is counted.
LEMMA ReadingStep ==
  ASSUME IInv, NEW s \in Readers, Reading(s)
  PROVE  NoticeOrCurrent' /\ ReadsCurrent'
<1>0. ReadersOK /\ TreeOK
  BY Parts DEF IInv, FrameOK
<1>1. /\ UNCHANGED <<tree, redis, events, missed, listening, profile, root_up_to_date>>
      /\ \A t \in Readers \ {s} : pc'[t] = pc[t] /\ got'[t] = got[t] /\ hit'[t] = hit[t]
  BY <1>0 DEF Reading, ReadRoot, ReadLeaves, Answer, ReadersOK, server, network
<1>2. Pending' = Pending
  BY <1>1 DEF Pending, Coming
<1>3. NoticeOrCurrent'
  BY <1>1 DEF IInv, NoticeOrCurrent, Coming, Outdated
<1>4. ASSUME NEW t \in Readers \ {s} PROVE ReadCurrent(t)'
  BY <1>1, <1>2, ReaderKept DEF IInv, ReadsCurrent
<1>5. ReadCurrent(s)'
  <2>1. CASE ReadRoot(s)
    <3>1. pc'[s] = "leaves" /\ (got'[s].root = tree.root \/ hit'[s])
      BY <1>0, <2>1 DEF ReadRoot, Answer, ReadersOK
    <3> QED
      BY <1>1, <3>1 DEF ReadCurrent
  <2>2. CASE ReadLeaves(s)
    <3>1. /\ pc[s] = "leaves" /\ pc'[s] = "store" /\ got'[s].root = got[s].root
          /\ (got'[s].leaves = tree.leaves /\ hit'[s] = hit[s]) \/ hit'[s]
      BY <1>0, <2>2 DEF ReadLeaves, Answer, ReadersOK
    <3> QED
      BY <1>1, <1>2, <3>1 DEF IInv, ReadsCurrent, ReadCurrent, Outdated
  <2> QED
    BY <2>1, <2>2 DEF Reading
<1> QED
  BY <1>3, <1>4, <1>5 DEF ReadsCurrent

\* What a refresh stores was right when it was read, or it is excused; the
\* excuse that only the reader knows (hit) is turned into missed.
LEMMA StoreStep ==
  ASSUME IInv, NEW s \in Readers, Store(s)
  PROVE  NoticeOrCurrent' /\ ReadsCurrent'
<1>0. ReadersOK /\ (listening => GoodProfile(profile))
  BY Parts DEF IInv, FrameOK
<1>1. /\ UNCHANGED <<tree, redis, events, listening, got, hit>>
      /\ pc[s] = "store" /\ pc'[s] = "proving" /\ profile' = Updated(profile, got[s])
      /\ \A t \in Readers \ {s} : pc'[t] = pc[t]
      /\ missed' = (missed \/ (hit[s] /\ Old(s)))
  BY <1>0 DEF Store, ReadersOK, server, network
<1>2. Pending => Pending'
  BY <1>1 DEF Pending, Coming
<1>3. Outdated(got[s].root, got[s].leaves) => Pending'
  <2>1. Outdated(got[s].root, got[s].leaves) => hit[s] \/ Pending
    BY <1>1 DEF IInv, ReadsCurrent, ReadCurrent
  <2>2. Outdated(got[s].root, got[s].leaves) /\ hit[s] => missed'
    BY <1>1 DEF Outdated, Old
  <2> QED
    BY <1>2, <2>1, <2>2 DEF Pending
<1>4. NoticeOrCurrent'
  <2>1. CASE listening
    <3>1. got[s] \in [root : Answers, leaves : Answers]
      BY <1>0 DEF ReadersOK
    <3>2. profile'.root_hash = got[s].root /\ profile'.leaves = got[s].leaves
      BY <1>0, <1>1, <2>1, <3>1, UpdatedGood
    <3> QED
      BY <1>1, <1>3, <3>2 DEF NoticeOrCurrent, Outdated, Pending
  <2>2. CASE ~ listening
    BY <1>1, <2>2 DEF NoticeOrCurrent
  <2> QED
    BY <2>1, <2>2
<1>5. ASSUME NEW t \in Readers \ {s} PROVE ReadCurrent(t)'
  BY <1>1, <1>2, <1>5, ReaderKept DEF IInv, ReadsCurrent
<1>6. ReadCurrent(s)'
  BY <1>1, <1>3 DEF ReadCurrent, Outdated
<1> QED
  BY <1>4, <1>5, <1>6 DEF ReadsCurrent

\* The same for init, which starts from a new profile.
LEMMA StoreInitStep ==
  ASSUME IInv, StoreInit
  PROVE  NoticeOrCurrent' /\ ReadsCurrent'
<1>0. ReadersOK /\ opening \in Readers
  BY Parts DEF IInv, FrameOK, Readers
<1>1. /\ UNCHANGED <<tree, redis, events>>
      /\ pc[opening] = "store" /\ pc'[opening] = "idle"
      /\ \A t \in Readers \ {opening} : pc'[t] = pc[t] /\ got'[t] = got[t] /\ hit'[t] = hit[t]
      /\ missed' = (missed \/ (hit[opening] /\ Old(opening)))
  BY <1>0 DEF StoreInit, ReadersOK, server
<1>2. Pending => Pending'
  BY <1>1 DEF Pending, Coming
<1>3. Outdated(got[opening].root, got[opening].leaves) => Pending'
  <2>1. Outdated(got[opening].root, got[opening].leaves) => hit[opening] \/ Pending
    BY <1>0, <1>1 DEF IInv, ReadsCurrent, ReadCurrent
  <2>2. Outdated(got[opening].root, got[opening].leaves) /\ hit[opening] => missed'
    BY <1>1 DEF Outdated, Old
  <2> QED
    BY <1>2, <2>1, <2>2 DEF Pending
<1>4. profile'.root_hash = got[opening].root /\ profile'.leaves = got[opening].leaves
  <2>1. got[opening] \in [root : Answers, leaves : Answers]
    BY <1>0 DEF ReadersOK
  <2> QED
    BY <2>1, NewGood DEF StoreInit
<1>5. NoticeOrCurrent'
  BY <1>1, <1>3, <1>4 DEF NoticeOrCurrent, Outdated, Pending
<1>6. ASSUME NEW t \in Readers \ {opening} PROVE ReadCurrent(t)'
  BY <1>1, <1>2, <1>6, ReaderKept DEF IInv, ReadsCurrent
<1>7. ReadCurrent(opening)'
  BY <1>1 DEF ReadCurrent
<1> QED
  BY <1>5, <1>6, <1>7 DEF ReadsCurrent

\* A call that begins proves with what the profile holds, or reads first; one
\* that ends holds nothing any more.
LEMMA CallStep ==
  ASSUME IInv, NEW s \in Readers, Begin(s) \/ Recover(s) \/ SendMessage(s)
  PROVE  NoticeOrCurrent' /\ ReadsCurrent'
<1>0. ReadersOK
  BY Parts DEF IInv, FrameOK
<1>1. /\ UNCHANGED <<tree, redis, events, missed, listening>>
      /\ \A t \in Readers \ {s} : pc'[t] = pc[t] /\ got'[t] = got[t] /\ hit'[t] = hit[t]
  BY <1>0 DEF Begin, Recover, SendMessage, ReadersOK, server, network
<1>2. Pending' = Pending
  BY <1>1 DEF Pending, Coming
<1>3. NoticeOrCurrent'
  <2>1. ~ root_up_to_date' \/ UNCHANGED <<profile, root_up_to_date>>
    BY DEF Begin, Recover, SendMessage, SetRootObsolete
  <2> QED
    BY <1>1, <2>1 DEF IInv, NoticeOrCurrent, Coming, Outdated
<1>4. ASSUME NEW t \in Readers \ {s} PROVE ReadCurrent(t)'
  BY <1>1, <1>2, <1>4, ReaderKept DEF IInv, ReadsCurrent
<1>5. ReadCurrent(s)'
  <2>1. CASE Begin(s) /\ ~ IsRootObsolete
    <3>1. /\ listening /\ root_up_to_date
          /\ got'[s].root = profile.root_hash /\ got'[s].leaves = profile.leaves
          /\ pc'[s] = "proving"
      BY <1>0, <2>1 DEF Begin, Ready, IsRootObsolete, ReadersOK
    <3> QED
      BY <1>1, <1>2, <3>1 DEF IInv, NoticeOrCurrent, ReadCurrent, Outdated, Pending
  <2>2. CASE (Begin(s) /\ IsRootObsolete) \/ Recover(s)
    <3>1. pc'[s] = "root"
      BY <1>0, <2>2 DEF Begin, Recover, ReadersOK
    <3> QED
      BY <3>1 DEF ReadCurrent
  <2>3. CASE SendMessage(s)
    <3>1. pc'[s] = "idle"
      BY <1>0, <2>3 DEF SendMessage, ReadersOK
    <3> QED
      BY <3>1 DEF ReadCurrent
  <2> QED
    BY <2>1, <2>2, <2>3
<1> QED
  BY <1>3, <1>4, <1>5 DEF ReadsCurrent

\* Edits of the profile and steps of others leave root and leaves alone.
LEMMA EditStep ==
  ASSUME IInv, Edits \/ UNCHANGED vars
  PROVE  NoticeOrCurrent' /\ ReadsCurrent'
<1>1. UNCHANGED <<tree, redis, events, listening, root_up_to_date, pc, got, hit, missed>>
  BY EditsGood DEF IInv, vars, server, network, readers
<1>2. profile'.root_hash = profile.root_hash /\ profile'.leaves = profile.leaves
  BY EditsGood DEF IInv, vars
<1>3. NoticeOrCurrent'
  BY <1>1, <1>2 DEF IInv, NoticeOrCurrent, Coming, Outdated
<1>4. ReadsCurrent'
  BY <1>1 DEF IInv, ReadsCurrent, ReadCurrent, Pending, Coming, Outdated
<1> QED
  BY <1>3, <1>4

\* IInv holds in every state.
LEMMA IInvAlways == Spec => []IInv
<1>1. Init => IInv
  <2>1. Init => TypeInv
    BY InitTyped
  <2>2. Init => NoticeOrCurrent
    BY DEF Init, NoticeOrCurrent
  <2>3. Init => ReadsCurrent
    BY DEF Init, ReadsCurrent, ReadCurrent
  <2> QED
    BY <2>1, <2>2, <2>3 DEF IInv
<1>2. IInv /\ [Next]_vars => IInv'
  <2> SUFFICES ASSUME IInv, [Next]_vars PROVE NoticeOrCurrent' /\ ReadsCurrent'
    BY TypeStep DEF IInv
  <2>1. CASE ChangeLeaf \/ ChangeRoot \/ Publish \/ CutShort \/ Broadcast
    BY <2>1, ServerPending, PendingExcuses DEF IInv
  <2> QED
    BY <2>1, NetworkStep, ReadingStep, StoreStep, StoreInitStep, CallStep, EditStep DEF Next
<1> QED
  BY <1>1, <1>2, PTL DEF Spec

\* A client whose root or leaves differ from those of the tree knows it, or will
\* be told, or an event about it was lost (checkRootUpToDate, syncRlnData):
\* whatever overlaps, and whatever is edited or recovered in between.
THEOREM NoticeAlways == Spec => []NoticeOrCurrent
<1>1. IInv => NoticeOrCurrent
  BY DEF IInv
<1> QED
  BY <1>1, IInvAlways, PTL

\* No proof is generated for leaves that are not the present ones, unless an
\* update has come since, is on its way or was lost (sendMessage).
THEOREM ProofsAlwaysCurrent == Spec => []ProofsCurrent
<1>1. IInv => ProofsCurrent
  BY DEF IInv, ReadsCurrent, ReadCurrent, ProofsCurrent, Pending, Readers
<1> QED
  BY <1>1, IInvAlways, PTL
=============================================================================
