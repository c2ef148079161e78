------------------------- MODULE KeyExchangeProofs -------------------------
(***************************************************************************)
(* Proofs about KeyExchange for every set of users, number of overlapping  *)
(* runs and spam threshold: its types, the bound on the requests that are  *)
(* counted, the agreement of profile and storage, and, from an invariant   *)
(* about the bundles that have been prepared, posted and taken, that keys  *)
(* agree, that they stay, and that no bundle is lost.                      *)
(***************************************************************************)
EXTENDS KeyExchange, FiniteSetTheorems, SequenceTheorems, TLAPS

-----------------------------------------------------------------------------
(* The operations on profiles and on the managers of a page.               *)

Managers == [profile : Profiles, object : Nat]
PageOf(m) == m \in Seq(Managers) /\ Len(m) <= 2
SameOwner(p, q) ==
  /\ OwnKey(q) = OwnKey(p)
  /\ q.rooms["public"] = p.rooms["public"] /\ q.rooms["private"] = p.rooms["private"]

\* A profile has the keys that validateFormat asks for.
LEMMA ProfileFormat == ASSUME NEW p \in Profiles PROVE ValidFormat(p)
BY DEF Profiles, ValidFormat, ProfileKeys

\* A new profile has its key pair and no rooms.
LEMMA NewProfileFacts ==
  ASSUME NEW u \in Users, NEW k \in KeySets, NEW p, p = NewProfile(u, "root", "leaves", k, u)
  PROVE  /\ p \in Profiles /\ OwnKey(p) = k
         /\ p.rooms["public"] = {} /\ p.rooms["private"] = {} /\ p.rooms["direct"] = {}
BY DEF Profiles, NewProfile, OwnKey, RoomTypes

\* addDirectRoom adds the room to the direct rooms, and changes nothing else.
LEMMA AddRoomFacts ==
  ASSUME NEW p \in Profiles, NEW room \in Rooms, NEW q, q = AddRoom(p, "direct", room)
  PROVE  /\ q \in Profiles /\ SameOwner(p, q)
         /\ q.rooms["direct"] = p.rooms["direct"] \cup {room}
BY DEF Profiles, AddRoom, SameOwner, OwnKey, RoomTypes

\* The room with its key.
Keyed(room, dh) == [room EXCEPT !.symmetric_key = deriveSharedSecretKey(room.dh, dh)]

(* Deriving a key changes nothing else of the room.                         *)
LEMMA KeyedFacts ==
  ASSUME NEW room \in Rooms, NEW dh \in KeySets
  PROVE  /\ Keyed(room, dh) \in Rooms
         /\ Keyed(room, dh).id = room.id /\ Keyed(room, dh).dh = room.dh
         /\ Keyed(room, dh).recipient_public_key = room.recipient_public_key
         /\ Keyed(room, dh).symmetric_key = room.dh \cup dh
<1>1. room.dh \cup dh \in KeySets
  BY DEF Rooms, KeySets
<1> QED
  BY <1>1 DEF Keyed, Rooms, deriveSharedSecretKey

\* deriveRoomSecretKey puts the key into the rooms with the id.
LEMMA DeriveFacts ==
  ASSUME NEW p \in Profiles, NEW room \in Rooms, NEW dh \in KeySets,
         NEW q, q = DeriveRoomSecretKey(p, room, dh)
  PROVE  /\ q \in Profiles /\ SameOwner(p, q)
         /\ q.rooms["direct"] = {IF r.id = room.id THEN Keyed(room, dh) ELSE r : r \in p.rooms["direct"]}
<1> DEFINE new == {IF r.id = room.id THEN Keyed(room, dh) ELSE r : r \in p.rooms["direct"]}
<1>1. new \in SUBSET Rooms
  <2>1. p.rooms["direct"] \in SUBSET Rooms
    BY DEF Profiles, RoomTypes
  <2> QED
    BY <2>1, KeyedFacts
<1>2. q = [p EXCEPT !.rooms["direct"] = new]
  BY DEF DeriveRoomSecretKey, Keyed
<1> HIDE DEF new
<1>3. p.rooms \in [RoomTypes -> SUBSET Rooms]
  BY DEF Profiles
<1>4. q = [p EXCEPT !.rooms = [p.rooms EXCEPT !["direct"] = new]]
  BY <1>2
<1>5. q \in Profiles
  <2>1. [p.rooms EXCEPT !["direct"] = new] \in [RoomTypes -> SUBSET Rooms]
    BY <1>1, <1>3
  <2> QED
    BY <2>1, <1>4 DEF Profiles
<1>6. q.rooms = [p.rooms EXCEPT !["direct"] = new] /\ q.user_public_key = p.user_public_key
  BY <1>4 DEF Profiles
<1>7. SameOwner(p, q) /\ q.rooms["direct"] = new
  BY <1>3, <1>6 DEF SameOwner, OwnKey, RoomTypes
<1> QED
  BY <1>5, <1>7 DEF new

\* init leaves a page with the manager that was first and the new one.
LEMMA InstallPage ==
  ASSUME NEW older \in Seq(Managers), NEW p \in Profiles
  PROVE  PageOf(IF older = <<>> THEN <<[profile |-> p, object |-> 1]>>
                ELSE <<older[1], [profile |-> p, object |-> 1]>>)
<1> DEFINE new == [profile |-> p, object |-> 1]
<1>1. new \in Managers
  BY DEF Managers
<1> HIDE DEF new
<1>2. older # <<>> => older[1] \in Managers
  OBVIOUS
<1>3. PageOf(IF older = <<>> THEN <<new>> ELSE <<older[1], new>>)
  BY <1>1, <1>2 DEF PageOf
<1> QED
  BY <1>3 DEF new

\* An operation on the profile of a manager.
LEMMA EditPage ==
  ASSUME NEW m, PageOf(m), NEW i \in 1..Len(m), NEW p \in Profiles
  PROVE  /\ PageOf([m EXCEPT ![i].profile = p]) /\ [m EXCEPT ![i].profile = p] # <<>>
<1>1. m[i] \in Managers
  BY DEF PageOf
<1>2. [m[i] EXCEPT !.profile = p] \in Managers
  BY <1>1 DEF Managers
<1> DEFINE new == [m[i] EXCEPT !.profile = p]
<1>3. [m EXCEPT ![i].profile = p] = [m EXCEPT ![i] = new]
  OBVIOUS
<1> HIDE DEF new
<1>4. /\ [m EXCEPT ![i] = new] \in Seq(Managers)
      /\ Len([m EXCEPT ![i] = new]) = Len(m)
  BY <1>2 DEF PageOf, new
<1> QED
  BY <1>3, <1>4 DEF PageOf

-----------------------------------------------------------------------------
(* Types.                                                                  *)

IsBundle(b)  == \E dh, sender, receiver \in KeySets : b = Bundle(dh, sender, receiver)
IsRequest(q) ==
  /\ {"by", "from", "kind", "content", "passed"} \subseteq DOMAIN q
  /\ q.by \in Users /\ q.kind \in {"create", "delete"}
  /\ \A b \in q.content : IsBundle(b)
Runnings == [pc : {"idle", "fetch"}, rooms : SUBSET Rooms, object : Nat, own : KeySets]
Calls    == [room : Rooms, object : Nat, dh : KeySets]
Running(s) == s \in Runnings

PagesOK ==
  /\ storage \in [Users -> Profiles \cup {NoProfile}] /\ file \in [Users -> Profiles \cup {NoProfile}]
  /\ managers \in [Users -> Seq(Managers)] /\ \A u \in Users : PageOf(managers[u])
ClientOK ==
  /\ run = [u \in Users |-> run[u]]
  /\ \A u \in Users : run[u] = [r \in Runs[u] |-> run[u][r]] /\ \A r \in Runs[u] : Running(run[u][r])
  /\ deriving \in [Users -> SUBSET Calls] /\ posting \in [Users -> SUBSET Rooms]
ClosedIdle ==
  \A u \in Users : managers[u] = <<>> =>
    deriving[u] = {} /\ posting[u] = {} /\ \A r \in Runs[u] : run[u][r].pc = "idle"
ServerOK ==
  /\ bundles \subseteq posted /\ \A b \in posted : IsBundle(b)
  /\ IsFiniteSet(requests) /\ Cardinality(requests) <= MaxInFlight
  /\ \A q \in requests : IsRequest(q)
  /\ accepted \in [Users -> Nat]
BoundsOK ==
  /\ made \in [Users -> Nat] /\ \A u \in Users : made[u] <= MaxMade[u]
  /\ inits \in 0..MaxInits
  /\ faults \in [Users -> Nat] /\ \A u \in Users : faults[u] <= MaxFaults[u]
  /\ dropped = [u \in Users |-> dropped[u]] /\ stale \subseteq Users
TypeInv == PagesOK /\ ClientOK /\ ClosedIdle /\ ServerOK /\ BoundsOK

\* The counters stay in their bounds.
LEMMA BoundsStep == ASSUME TypeInv, [Next]_vars PROVE BoundsOK'
<1> USE ExchangeAssumption
<1>1. ASSUME NEW u \in Users, Make(u), UNCHANGED <<faults, dropped, stale>>, inits' \in 0..MaxInits
      PROVE  BoundsOK'
  BY <1>1 DEF TypeInv, BoundsOK, Make
<1>2. ASSUME NEW u \in Users, CountInit(u) PROVE inits' \in 0..MaxInits
  BY <1>2 DEF TypeInv, BoundsOK, CountInit
<1>3. ASSUME NEW u \in Users, Fault(u) \/ UNCHANGED faults, UNCHANGED <<made, inits>>,
             stale' \subseteq Users, dropped' = [v \in Users |-> dropped'[v]]
      PROVE  BoundsOK'
  BY <1>3 DEF TypeInv, BoundsOK, Fault
<1>4. ASSUME NEW u \in Users, Close(u) PROVE dropped' = [v \in Users |-> dropped'[v]]
  BY <1>4 DEF TypeInv, BoundsOK, Close
<1>5. dropped = [v \in Users |-> dropped[v]] /\ stale \subseteq Users
  BY DEF TypeInv, BoundsOK
<1>6. ASSUME NEW u \in Users, ByUser(u) PROVE BoundsOK'
  <2>1. CASE InitFromStorage(u)
    BY <2>1, <1>2 DEF InitFromStorage, TypeInv, BoundsOK
  <2>2. CASE InitNewProfile(u)
    BY <2>2, <1>1, <1>2 DEF InitNewProfile
  <2>3. CASE Reload(u)
    BY <2>3, <1>3, <1>4, <1>5 DEF Reload
  <2>4. CASE LoseBrowser(u)
    BY <2>4, <1>3, <1>4, <1>5 DEF LoseBrowser
  <2>5. CASE ExportToFile(u)
    BY <2>5 DEF ExportToFile, TypeInv, BoundsOK, bounds
  <2>6. CASE RecoverFromFile(u)
    BY <2>6, <1>2 DEF RecoverFromFile, TypeInv, BoundsOK
  <2>7. ASSUME NEW k, CreateDirectRoom(u, k) PROVE BoundsOK'
    BY <2>7, <1>1 DEF CreateDirectRoom, TypeInv, BoundsOK
  <2> QED
    BY <1>6, <2>1, <2>2, <2>3, <2>4, <2>5, <2>6, <2>7 DEF ByUser
<1>7. ASSUME NEW u \in Users, ByClient(u) PROVE BoundsOK'
  <2>1. ASSUME NEW room, SaveKeyExchangeBundle(u, room) PROVE BoundsOK'
    BY <2>1, <1>3, <1>5 DEF SaveKeyExchangeBundle
  <2>2. ASSUME NEW r, StartRun(u, r) PROVE BoundsOK'
    BY <2>2 DEF StartRun, TypeInv, BoundsOK, bounds
  <2>3. ASSUME NEW r, FetchBundles(u, r) PROVE BoundsOK'
    <3>1. Fault(u) \/ UNCHANGED faults
      BY <2>3 DEF FetchBundles
    <3>2. UNCHANGED <<made, inits, dropped, stale>>
      BY <2>3 DEF FetchBundles
    <3> QED
      BY <3>1, <3>2, <1>3, <1>5
  <2>4. ASSUME NEW d, EndDerivation(u, d) PROVE BoundsOK'
    BY <2>4 DEF EndDerivation, TypeInv, BoundsOK, bounds
  <2> QED
    BY <1>7, <2>1, <2>2, <2>3, <2>4 DEF ByClient
<1>8. ASSUME NEW q \in requests, ValidateRules(q) \/ Serve(q) PROVE BoundsOK'
  <2>1. q.by \in Users
    BY DEF TypeInv, ServerOK, IsRequest
  <2>2. Fault(q.by) \/ UNCHANGED faults
    BY <1>8 DEF ValidateRules, Serve
  <2>3. UNCHANGED <<made, inits, dropped, stale>>
    BY <1>8 DEF ValidateRules, Serve
  <2> QED
    BY <2>1, <2>2, <2>3, <1>3, <1>5
<1>9. CASE UNCHANGED vars
  BY <1>9 DEF vars, bounds, TypeInv, BoundsOK
<1> QED
  BY <1>6, <1>7, <1>8, <1>9 DEF Next, ByServer

\* The profile of the key exchange manager and that of the facade.
LEMMA OpenPage ==
  ASSUME PagesOK, NEW u \in Users, managers[u] # <<>>
  PROVE  /\ Last(u) \in 1..Len(managers[u]) /\ 1 \in 1..Len(managers[u])
         /\ KeyProfile(u) \in Profiles /\ managers[u][1].object \in Nat
         /\ Current(u) \in Profiles /\ Current(u) = managers[u][Last(u)].profile
<1>1. managers[u] \in Seq(Managers) /\ Len(managers[u]) \in Nat \ {0}
  BY DEF PagesOK
<1>2. managers[u][1] \in Managers /\ managers[u][Len(managers[u])] \in Managers
  BY <1>1
<1> QED
  BY <1>1, <1>2 DEF Managers, Last, KeyProfile, Current

\* Only an open page has a profile to work on.
LEMMA CurrentOpen ==
  ASSUME PagesOK, NEW u \in Users, Current(u) # NoProfile
  PROVE  managers[u] # <<>> /\ Current(u) \in Profiles
<1>1. managers[u] # <<>>
  BY DEF Current
<1> QED
  BY <1>1, OpenPage

\* A room with a number that is free, for the public key of a page.
LEMMA FreshRoom ==
  ASSUME PagesOK, BoundsOK, NEW u \in Users, NEW k \in PublicKeys
  PROVE  /\ k \in KeySets /\ DirectRoom(Fresh(u), k, generateECDHKeyPair(Fresh(u))) \in Rooms
<1>1. PICK v \in Users : Current(v) # NoProfile /\ k = Current(v).user_public_key
  BY DEF PublicKeys
<1>2. k \in KeySets
  BY <1>1, CurrentOpen DEF Profiles
<1>3. Fresh(u) \in Users \X Nat
  BY DEF Fresh, BoundsOK
<1> QED
  BY <1>2, <1>3 DEF DirectRoom, Rooms, KeySets, generateECDHKeyPair, NoKey

\* A request that is sent is one of those the server handles.
LEMMA SendStep ==
  ASSUME TypeInv, NEW u \in Users, NEW from, NEW kind \in {"create", "delete"}, NEW content,
         \A b \in content : IsBundle(b), Send(u, from, kind, content)
  PROVE  /\ IsFiniteSet(requests') /\ Cardinality(requests') <= MaxInFlight
         /\ \A q \in requests' : IsRequest(q)
<1> DEFINE new == [by |-> u, from |-> from, kind |-> kind, content |-> content, passed |-> FALSE]
<1>1. IsRequest(new)
  BY DEF IsRequest
<1>2. Cardinality(requests) < MaxInFlight /\ requests' = requests \cup {new}
  BY DEF Send
<1> HIDE DEF new
<1>3. IsFiniteSet(requests) /\ Cardinality(requests) \in Nat
  BY FS_CardinalityType DEF TypeInv, ServerOK
<1>4. /\ IsFiniteSet(requests')
      /\ Cardinality(requests') \in {Cardinality(requests), Cardinality(requests) + 1}
  BY <1>2, <1>3, FS_AddElement
<1> QED
  BY <1>1, <1>2, <1>3, <1>4, ExchangeAssumption DEF TypeInv, ServerOK

\* What the server holds.
LEMMA ServerStep == ASSUME TypeInv, [Next]_vars PROVE ServerOK'
<1> DEFINE RequestsOK == /\ IsFiniteSet(requests) /\ Cardinality(requests) <= MaxInFlight
                         /\ \A q \in requests : IsRequest(q)
<1> USE ExchangeAssumption
<1>1. RequestsOK /\ bundles \subseteq posted /\ (\A b \in posted : IsBundle(b)) /\ accepted \in [Users -> Nat]
  BY DEF TypeInv, ServerOK
<1>2. ASSUME RequestsOK', UNCHANGED <<bundles, accepted, posted>> PROVE ServerOK'
  BY <1>1, <1>2 DEF ServerOK
<1>3. ASSUME NEW u \in Users, ByUser(u) PROVE ServerOK'
  <2>1. UNCHANGED server
    BY <1>3 DEF ByUser, InitFromStorage, InitNewProfile, Reload, LoseBrowser, ExportToFile,
      RecoverFromFile, CreateDirectRoom
  <2> QED
    BY <2>1, <1>1, <1>2 DEF server
<1>4. ASSUME NEW u \in Users, ByClient(u) PROVE ServerOK'
  <2>1. ASSUME NEW room \in posting[u], SaveKeyExchangeBundle(u, room) PROVE ServerOK'
    <3> DEFINE b == Bundle(room.dh, KeyProfile(u).user_public_key, room.recipient_public_key)
    <3>1. managers[u] # <<>> /\ room \in Rooms
      BY DEF TypeInv, ClosedIdle, ClientOK
    <3>2. KeyProfile(u).user_public_key \in KeySets
      BY <3>1, OpenPage DEF Profiles, TypeInv
    <3>3. IsBundle(b)
      BY <3>1, <3>2 DEF IsBundle, Rooms
    <3> HIDE DEF b
    <3>4. UNCHANGED requests \/ Send(u, room.id, "create", {b})
      BY <2>1 DEF SaveKeyExchangeBundle, b
    <3>5. RequestsOK'
      BY <3>3, <3>4, <1>1, SendStep
    <3> QED
      BY <2>1, <3>5, <1>2 DEF SaveKeyExchangeBundle
  <2>2. ASSUME NEW r, StartRun(u, r) PROVE ServerOK'
    BY <2>2, <1>1, <1>2 DEF StartRun, server
  <2>3. ASSUME NEW r, FetchBundles(u, r) PROVE ServerOK'
    <3>1. PICK used \in SUBSET bundles : UNCHANGED requests \/ Send(u, r, "delete", used)
      BY <2>3 DEF FetchBundles, UsedBundles, Matches
    <3>2. RequestsOK'
      BY <3>1, <1>1, SendStep
    <3> QED
      BY <2>3, <3>2, <1>2 DEF FetchBundles
  <2>4. ASSUME NEW d, EndDerivation(u, d) PROVE ServerOK'
    BY <2>4, <1>1, <1>2 DEF EndDerivation, server
  <2> QED
    BY <1>4, <2>1, <2>2, <2>3, <2>4 DEF ByClient
<1>5. ASSUME NEW q \in requests
      PROVE  /\ IsFiniteSet(requests \ {q})
             /\ Cardinality(requests \ {q}) = Cardinality(requests) - 1 /\ Cardinality(requests) \in Nat
  BY <1>1, FS_RemoveElement, FS_CardinalityType
<1>6. ASSUME NEW q \in requests, ValidateRules(q) PROVE ServerOK'
  <2> DEFINE p == [q EXCEPT !.passed = TRUE]
  <2>1. IsRequest(p)
    <3>1. IsRequest(q)
      BY <1>1
    <3> QED
      BY <3>1 DEF IsRequest
  <2>2. requests' = requests \ {q} \/ requests' = (requests \ {q}) \cup {p}
    BY <1>6 DEF ValidateRules
  <2> HIDE DEF p
  <2> DEFINE rest == requests \ {q}
  <2>3. /\ IsFiniteSet(rest) /\ Cardinality(rest) = Cardinality(requests) - 1
        /\ Cardinality(requests) \in Nat /\ rest \subseteq requests
    BY <1>5
  <2>4. requests' = rest \/ requests' = rest \cup {p}
    BY <2>2
  <2> HIDE DEF rest
  <2>5. IsFiniteSet(rest \cup {p}) /\ Cardinality(rest \cup {p}) \in {Cardinality(rest), Cardinality(rest) + 1}
    BY <2>3, FS_AddElement
  <2>6. IsFiniteSet(requests') /\ Cardinality(requests') <= MaxInFlight
    <3>1. CASE requests' = rest
      BY <3>1, <2>3, <1>1
    <3>2. CASE requests' = rest \cup {p}
      BY <3>2, <2>3, <2>5, <1>1
    <3> QED
      BY <3>1, <3>2, <2>4
  <2>7. \A x \in requests' : IsRequest(x)
    BY <2>1, <2>3, <2>4, <1>1
  <2>8. RequestsOK'
    BY <2>6, <2>7
  <2> QED
    BY <2>8, <1>2, <1>6 DEF ValidateRules
<1>7. ASSUME NEW q \in requests, Serve(q) PROVE ServerOK'
  <2>1. RequestsOK'
    BY <1>1, <1>5, <1>7 DEF Serve
  <2>2. PICK served \in SUBSET q.content :
          \/ bundles' = bundles \cup Created(served) /\ posted' = posted \cup Created(served)
          \/ bundles' = bundles \ Deleted(served) /\ UNCHANGED posted
    BY <1>7 DEF Serve
  <2>3. \A b \in served : IsBundle(b)
    BY <1>1 DEF IsRequest
  <2>4. bundles' \subseteq posted' /\ \A b \in posted' : IsBundle(b)
    BY <2>2, <2>3, <1>1 DEF Created
  <2>5. accepted' \in [Users -> Nat]
    <3>1. q.by \in Users
      BY <1>1 DEF IsRequest
    <3> QED
      BY <3>1, <1>1, <1>7 DEF Serve
  <2> QED
    BY <2>1, <2>4, <2>5 DEF ServerOK
<1>8. CASE UNCHANGED vars
  BY <1>8, <1>1, <1>2 DEF vars, server
<1> QED
  BY <1>3, <1>4, <1>6, <1>7, <1>8 DEF Next, ByServer

\* Storage, files and managers hold profiles.
LEMMA PagesStep == ASSUME TypeInv, [Next]_vars PROVE PagesOK'
<1>1. PagesOK
  BY DEF TypeInv
<1>2. ASSUME UNCHANGED <<storage, file, managers>> PROVE PagesOK'
  BY <1>1, <1>2 DEF PagesOK
<1>3. ASSUME NEW u \in Users, NEW m, PageOf(m), managers' = [managers EXCEPT ![u] = m],
             storage' = [storage EXCEPT ![u] = storage'[u]], storage'[u] \in Profiles \cup {NoProfile},
             UNCHANGED file
      PROVE  PagesOK'
  BY <1>1, <1>3 DEF PagesOK, PageOf
<1>4. ASSUME NEW u \in Users PROVE storage[u] \in Profiles \cup {NoProfile} /\ file[u] \in Profiles \cup {NoProfile}
  BY <1>1 DEF PagesOK
<1>5. ASSUME NEW u \in Users PROVE storage = [storage EXCEPT ![u] = storage[u]]
  BY <1>1 DEF PagesOK
<1>6. PageOf(<<>>)
  BY DEF PageOf
<1>7. ASSUME NEW u \in Users, NEW p \in Profiles, Edit(u, p), Current(u) # NoProfile,
             UNCHANGED file
      PROVE  PagesOK'
  <2>1. PageOf([managers[u] EXCEPT ![Last(u)].profile = p])
    BY <1>1, <1>7, CurrentOpen, OpenPage, EditPage DEF PagesOK
  <2>2. /\ managers' = [managers EXCEPT ![u] = [managers[u] EXCEPT ![Last(u)].profile = p]]
        /\ storage' = [storage EXCEPT ![u] = p]
    BY <1>7 DEF Edit
  <2>3. storage'[u] = p
    BY <2>2, <1>1 DEF PagesOK
  <2> QED
    BY <2>1, <2>2, <2>3, <1>3, <1>7

<1>8. ASSUME NEW u \in Users, NEW older \in Seq(Managers), NEW p \in Profiles, Install(u, older, p),
             storage' = [storage EXCEPT ![u] = p] \/ UNCHANGED storage, UNCHANGED file
      PROVE  PagesOK'
  <2> DEFINE m == IF older = <<>> THEN <<[profile |-> p, object |-> 1]>>
                  ELSE <<older[1], [profile |-> p, object |-> 1]>>
  <2>1. PageOf(m)
    BY <1>8, InstallPage
  <2>2. managers' = [managers EXCEPT ![u] = m]
    BY <1>8 DEF Install
  <2> HIDE DEF m
  <2>3. CASE storage' = [storage EXCEPT ![u] = p]
    BY <2>1, <2>2, <2>3, <1>1, <1>3, <1>8 DEF PagesOK
  <2>4. CASE UNCHANGED storage
    BY <2>1, <2>2, <2>4, <1>3, <1>4, <1>5, <1>8
  <2> QED
    BY <1>8, <2>3, <2>4
<1>9. ASSUME NEW u \in Users, ByUser(u) PROVE PagesOK'
  <2>1. CASE InitFromStorage(u)
    <3>1. storage[u] \in Profiles
      BY <2>1, <1>4 DEF InitFromStorage, CanLoadProfile
    <3> QED
      BY <2>1, <3>1, <1>1, <1>8 DEF InitFromStorage, PagesOK
  <2>2. CASE InitNewProfile(u)
    <3>1. made[u] \in Nat
      BY DEF TypeInv, BoundsOK
    <3> DEFINE p == NewProfile(u, "root", "leaves", generateKeyPair(Fresh(u)), u)
    <3>2. generateKeyPair(Fresh(u)) \in KeySets
      BY <3>1 DEF generateKeyPair, Fresh, KeySets
    <3>3. p \in Profiles
      BY <3>2, NewProfileFacts
    <3>4. Install(u, managers[u], p) /\ storage' = [storage EXCEPT ![u] = p] /\ UNCHANGED file
      BY <2>2 DEF InitNewProfile
    <3> HIDE DEF p
    <3> QED
      BY <3>3, <3>4, <1>1, <1>8 DEF PagesOK
  <2>3. CASE Reload(u)
    BY <2>3, <1>3, <1>4, <1>5, <1>6 DEF Reload, Close
  <2>4. CASE LoseBrowser(u)
    BY <2>4, <1>1, <1>3, <1>6 DEF LoseBrowser, Close, PagesOK
  <2>5. CASE ExportToFile(u)
    BY <2>5, <1>1, CurrentOpen DEF ExportToFile, ExportProfile, PagesOK, page
  <2>6. CASE RecoverFromFile(u)
    <3> DEFINE recovered == [i \in DOMAIN managers[u] |->
           IF i = Last(u) THEN [profile |-> file[u], object |-> managers[u][i].object + 1]
           ELSE managers[u][i]]
    <3>1. file[u] \in Profiles
      BY <2>6, <1>4 DEF RecoverFromFile
    <3>2. recovered \in Seq(Managers)
      <4>1. managers[u] \in Seq(Managers)
        BY <1>1 DEF PagesOK
      <4>2. \A i \in 1..Len(managers[u]) : recovered[i] \in Managers
        <5>1. ASSUME NEW i \in 1..Len(managers[u])
              PROVE  managers[u][i] \in Managers /\ managers[u][i].object + 1 \in Nat
          <6>1. managers[u][i] \in Managers
            BY <4>1
          <6> QED
            BY <6>1 DEF Managers
        <5> QED
          BY <3>1, <4>1, <5>1 DEF Managers
      <4>3. DOMAIN managers[u] = 1..Len(managers[u]) /\ Len(managers[u]) \in Nat
        BY <4>1
      <4>4. DOMAIN recovered = 1..Len(managers[u]) /\ recovered = [i \in 1..Len(managers[u]) |-> recovered[i]]
        BY <4>3
      <4> HIDE DEF recovered
      <4>5. recovered \in [1..Len(managers[u]) -> Managers]
        BY <4>2, <4>4
      <4> QED
        BY <4>3, <4>5, SeqDef
    <3>3. Install(u, recovered, file[u]) /\ storage' = [storage EXCEPT ![u] = file[u]] /\ UNCHANGED file
      BY <2>6 DEF RecoverFromFile
    <3> HIDE DEF recovered
    <3> QED
      BY <3>1, <3>2, <3>3, <1>8
  <2>7. ASSUME NEW k \in PublicKeys, CreateDirectRoom(u, k) PROVE PagesOK'
    <3> DEFINE room == DirectRoom(Fresh(u), k, generateECDHKeyPair(Fresh(u)))
    <3>1. room \in Rooms
      BY FreshRoom DEF TypeInv
    <3>2. Current(u) # NoProfile /\ Edit(u, AddRoom(Current(u), "direct", room)) /\ UNCHANGED file
      BY <2>7 DEF CreateDirectRoom
    <3> HIDE DEF room
    <3>3. AddRoom(Current(u), "direct", room) \in Profiles
      BY <3>1, <3>2, <1>1, CurrentOpen, AddRoomFacts
    <3> QED
      BY <3>2, <3>3, <1>7
  <2> QED
    BY <1>9, <2>1, <2>2, <2>3, <2>4, <2>5, <2>6, <2>7 DEF ByUser
<1>10. ASSUME NEW u \in Users, ByClient(u) PROVE PagesOK'
  <2>1. ASSUME NEW room, SaveKeyExchangeBundle(u, room) PROVE PagesOK'
    BY <2>1, <1>2 DEF SaveKeyExchangeBundle
  <2>2. ASSUME NEW r, StartRun(u, r) PROVE PagesOK'
    BY <2>2, <1>2 DEF StartRun
  <2>3. ASSUME NEW r, FetchBundles(u, r) PROVE PagesOK'
    BY <2>3, <1>2 DEF FetchBundles
  <2>4. ASSUME NEW d \in deriving[u], EndDerivation(u, d) PROVE PagesOK'
    <3>1. managers[u] # <<>>
      BY DEF TypeInv, ClosedIdle
    <3>2. PICK p : /\ p = DeriveRoomSecretKey(KeyProfile(u), d.room, d.dh) \/ p = KeyProfile(u)
                   /\ managers' = [managers EXCEPT ![u][1].profile = p]
                   /\ storage' = [storage EXCEPT ![u] = p]
      BY <2>4 DEF EndDerivation
    <3>3. d.room \in Rooms /\ d.dh \in KeySets
      BY DEF TypeInv, ClientOK, Calls
    <3>4. p \in Profiles
      BY <3>1, <3>2, <3>3, <1>1, OpenPage, DeriveFacts
    <3>5. PageOf([managers[u] EXCEPT ![1].profile = p])
      BY <3>1, <3>4, <1>1, OpenPage, EditPage DEF PagesOK
    <3>6. UNCHANGED file
      BY <2>4 DEF EndDerivation
    <3> QED
      BY <3>2, <3>4, <3>5, <3>6, <1>3, <1>1 DEF PagesOK
  <2> QED
    BY <1>10, <2>1, <2>2, <2>3, <2>4 DEF ByClient
<1>11. ASSUME NEW q, ValidateRules(q) \/ Serve(q) PROVE PagesOK'
  BY <1>11, <1>2 DEF ValidateRules, Serve, page
<1>12. CASE UNCHANGED vars
  BY <1>12, <1>2 DEF vars, page
<1> QED
  BY <1>9, <1>10, <1>11, <1>12 DEF Next, ByServer

\* The opened content of a bundle.
LEMMA OpenedFacts ==
  ASSUME NEW b, IsBundle(b)
  PROVE  /\ Opened(b, b.receiver_public_key).dh_public_key \in KeySets
         /\ Opened(b, b.receiver_public_key).sender_public_key \in KeySets
         /\ b.receiver_public_key \in KeySets
BY DEF IsBundle, Bundle, Opened, encryptMessageAsymmetric, decryptMessageAsymmetric

\* What the page is doing.
LEMMA ClientStep == ASSUME TypeInv, [Next]_vars PROVE ClientOK'
<1>1. ClientOK
  BY DEF TypeInv
<1>2. ASSUME UNCHANGED <<run, deriving, posting>> PROVE ClientOK'
  BY <1>1, <1>2 DEF ClientOK
<1>3. ASSUME NEW u \in Users, Close(u) PROVE ClientOK'
  <2>1. Running(Idle)
    BY DEF Running, Runnings, Idle, KeySets, NoKey
  <2>2. run' = [run EXCEPT ![u] = [r \in Runs[u] |-> Idle]]
    BY <1>3 DEF Close
  <2> HIDE DEF Idle
  <2>3. /\ run' = [v \in Users |-> run'[v]]
        /\ \A v \in Users : run'[v] = [r \in Runs[v] |-> run'[v][r]] /\ \A r \in Runs[v] : Running(run'[v][r])
    BY <2>1, <2>2, <1>1 DEF ClientOK
  <2>4. deriving' \in [Users -> SUBSET Calls] /\ posting' \in [Users -> SUBSET Rooms]
    BY <1>1, <1>3 DEF Close, ClientOK
  <2> QED
    BY <2>3, <2>4 DEF ClientOK
<1>4. ASSUME NEW u \in Users, NEW r \in Runs[u], NEW s, Running(s), run' = [run EXCEPT ![u][r] = s],
             UNCHANGED posting, deriving' \in [Users -> SUBSET Calls]
      PROVE  ClientOK'
  <2>1. /\ run' = [v \in Users |-> run'[v]]
        /\ \A v \in Users : run'[v] = [x \in Runs[v] |-> run'[v][x]] /\ \A x \in Runs[v] : Running(run'[v][x])
    BY <1>1, <1>4 DEF ClientOK
  <2> QED
    BY <2>1, <1>1, <1>4 DEF ClientOK
<1>5. ASSUME NEW u \in Users, ByUser(u) PROVE ClientOK'
  <2>1. CASE Reload(u) \/ LoseBrowser(u)
    BY <2>1, <1>3 DEF Reload, LoseBrowser
  <2>2. CASE InitFromStorage(u) \/ InitNewProfile(u) \/ ExportToFile(u) \/ RecoverFromFile(u)
    BY <2>2, <1>2 DEF InitFromStorage, InitNewProfile, ExportToFile, RecoverFromFile, page
  <2>3. ASSUME NEW k \in PublicKeys, CreateDirectRoom(u, k) PROVE ClientOK'
    <3> DEFINE room == DirectRoom(Fresh(u), k, generateECDHKeyPair(Fresh(u)))
    <3>1. room \in Rooms
      BY FreshRoom DEF TypeInv
    <3>2. posting' = [posting EXCEPT ![u] = @ \cup {room}] /\ UNCHANGED <<run, deriving>>
      BY <2>3 DEF CreateDirectRoom
    <3> HIDE DEF room
    <3> QED
      BY <3>1, <3>2, <1>1 DEF ClientOK
  <2> QED
    BY <1>5, <2>1, <2>2, <2>3 DEF ByUser
<1>6. ASSUME NEW u \in Users, ByClient(u) PROVE ClientOK'
  <2>1. ASSUME NEW room, SaveKeyExchangeBundle(u, room) PROVE ClientOK'
    BY <2>1, <1>1 DEF SaveKeyExchangeBundle, ClientOK
  <2>2. ASSUME NEW r \in Runs[u], StartRun(u, r) PROVE ClientOK'
    <3> DEFINE s == [pc |-> "fetch", rooms |-> RoomsAvailableForKeyExchange(KeyProfile(u)),
                     object |-> managers[u][1].object, own |-> KeyProfile(u).user_public_key]
    <3>1. KeyProfile(u) \in Profiles /\ managers[u][1].object \in Nat
      BY <2>2, OpenPage DEF StartRun, TypeInv
    <3>2. RoomsAvailableForKeyExchange(KeyProfile(u)) \subseteq Rooms /\ KeyProfile(u).user_public_key \in KeySets
      BY <3>1 DEF RoomsAvailableForKeyExchange, Profiles, RoomTypes
    <3>3. Running(s)
      BY <3>1, <3>2 DEF Running, Runnings
    <3>4. run' = [run EXCEPT ![u][r] = s] /\ UNCHANGED <<posting, deriving>>
      BY <2>2 DEF StartRun
    <3> HIDE DEF s
    <3> QED
      BY <3>3, <3>4, <1>1, <1>4 DEF ClientOK
  <2>3. ASSUME NEW r \in Runs[u], FetchBundles(u, r) PROVE ClientOK'
    <3> DEFINE now  == run[u][r]
               use  == {m \in Matches(now.rooms, now.own) : Usable(m, now.own)}
               more == {[room |-> m.room, object |-> now.object,
                         dh |-> Opened(m.bundle, now.own).dh_public_key] : m \in use}
    <3>1. Running(now)
      BY <1>1 DEF ClientOK
    <3>2. now.rooms \subseteq Rooms /\ now.object \in Nat
      BY <3>1 DEF Running, Runnings
    <3>3. ASSUME NEW m \in use
          PROVE  m.room \in Rooms /\ Opened(m.bundle, now.own).dh_public_key \in KeySets
      <4>1. m.room \in Rooms /\ m.bundle \in bundles /\ m.bundle.receiver_public_key = now.own
        BY <3>2 DEF Matches
      <4>2. IsBundle(m.bundle)
        BY <4>1 DEF TypeInv, ServerOK
      <4> QED
        BY <4>1, <4>2, OpenedFacts
    <3>4. more \subseteq Calls
      BY <3>2, <3>3 DEF Calls
    <3>5. deriving' = [deriving EXCEPT ![u] = @ \cup more] \/ UNCHANGED deriving
      BY <2>3 DEF FetchBundles
    <3>6. run' = [run EXCEPT ![u][r] = Idle] /\ UNCHANGED posting
      BY <2>3 DEF FetchBundles
    <3>7. Running(Idle)
      BY DEF Running, Runnings, Idle, KeySets, NoKey
    <3> HIDE DEF more
    <3>8. deriving' \in [Users -> SUBSET Calls]
      BY <3>4, <3>5, <1>1 DEF ClientOK
    <3> QED
      BY <3>6, <3>7, <3>8, <1>4
  <2>4. ASSUME NEW d, EndDerivation(u, d) PROVE ClientOK'
    BY <2>4, <1>1 DEF EndDerivation, ClientOK
  <2> QED
    BY <1>6, <2>1, <2>2, <2>3, <2>4 DEF ByClient
<1>7. ASSUME NEW q, ValidateRules(q) \/ Serve(q) PROVE ClientOK'
  BY <1>7, <1>2 DEF ValidateRules, Serve, page
<1>8. CASE UNCHANGED vars
  BY <1>8, <1>2 DEF vars, page
<1> QED
  BY <1>5, <1>6, <1>7, <1>8 DEF Next, ByServer

\* A page that is closed does nothing.
LEMMA ClosedStep == ASSUME TypeInv, [Next]_vars PROVE ClosedIdle'
<1>1. ClosedIdle /\ ClientOK /\ PagesOK
  BY DEF TypeInv
<1>2. ASSUME NEW u \in Users, managers'[u] # <<>>,
             \A v \in Users \ {u} : managers'[v] = managers[v] /\ run'[v] = run[v]
                                    /\ deriving'[v] = deriving[v] /\ posting'[v] = posting[v]
      PROVE  ClosedIdle'
  BY <1>1, <1>2 DEF ClosedIdle
<1>3. ASSUME NEW u \in Users, Close(u) PROVE ClosedIdle'
  BY <1>1, <1>3 DEF Close, ClosedIdle, Idle, ClientOK
<1>4. ASSUME UNCHANGED <<managers, run, deriving, posting>> PROVE ClosedIdle'
  BY <1>1, <1>4 DEF ClosedIdle
<1>5. ASSUME NEW u \in Users, NEW older, NEW p, Install(u, older, p), UNCHANGED <<run, deriving, posting>>
      PROVE  ClosedIdle'
  <2>1. managers'[u] # <<>> /\ \A v \in Users \ {u} : managers'[v] = managers[v]
    BY <1>1, <1>5 DEF Install, PagesOK
  <2> QED
    BY <2>1, <1>2, <1>5
<1>6. ASSUME NEW u \in Users, ByUser(u) PROVE ClosedIdle'
  <2>1. CASE Reload(u) \/ LoseBrowser(u)
    BY <2>1, <1>3 DEF Reload, LoseBrowser
  <2>2. CASE InitFromStorage(u)
    BY <2>2, <1>5 DEF InitFromStorage
  <2>3. CASE InitNewProfile(u)
    BY <2>3, <1>5 DEF InitNewProfile
  <2>4. CASE ExportToFile(u)
    BY <2>4, <1>4 DEF ExportToFile, page
  <2>5. CASE RecoverFromFile(u)
    BY <2>5, <1>5 DEF RecoverFromFile
  <2>6. ASSUME NEW k, CreateDirectRoom(u, k) PROVE ClosedIdle'
    <3>1. managers[u] # <<>> /\ Last(u) \in 1..Len(managers[u])
      BY <2>6, <1>1, CurrentOpen, OpenPage DEF CreateDirectRoom
    <3>2. PICK p : managers' = [managers EXCEPT ![u][Last(u)].profile = p]
      BY <2>6 DEF CreateDirectRoom, Edit
    <3>3. managers'[u] # <<>>
      BY <3>1, <3>2, <1>1 DEF PagesOK
    <3>4. \A v \in Users \ {u} : managers'[v] = managers[v] /\ posting'[v] = posting[v]
      BY <2>6, <3>2, <1>1 DEF PagesOK, ClientOK, CreateDirectRoom
    <3>5. UNCHANGED <<run, deriving>>
      BY <2>6 DEF CreateDirectRoom
    <3> QED
      BY <3>3, <3>4, <3>5, <1>2
  <2> QED
    BY <1>6, <2>1, <2>2, <2>3, <2>4, <2>5, <2>6 DEF ByUser
<1>7. ASSUME NEW u \in Users, ByClient(u) PROVE ClosedIdle'
  <2>1. ASSUME NEW room \in posting[u], SaveKeyExchangeBundle(u, room) PROVE ClosedIdle'
    BY <2>1, <1>1 DEF SaveKeyExchangeBundle, ClosedIdle, ClientOK
  <2>2. ASSUME NEW r \in Runs[u], StartRun(u, r) PROVE ClosedIdle'
    <3>1. \A v \in Users \ {u} : run'[v] = run[v]
      BY <2>2, <1>1 DEF StartRun, ClientOK
    <3> QED
      BY <2>2, <3>1, <1>2 DEF StartRun
  <2>3. ASSUME NEW r \in Runs[u], FetchBundles(u, r) PROVE ClosedIdle'
    <3>1. managers[u] # <<>>
      BY <2>3, <1>1 DEF FetchBundles, ClosedIdle
    <3>2. \A v \in Users \ {u} : run'[v] = run[v]
      BY <2>3, <1>1 DEF FetchBundles, ClientOK
    <3>3. \A v \in Users \ {u} : deriving'[v] = deriving[v]
      BY <2>3, <1>1 DEF FetchBundles, ClientOK
    <3>4. UNCHANGED <<managers, posting>>
      BY <2>3 DEF FetchBundles
    <3> QED
      BY <3>1, <3>2, <3>3, <3>4, <1>2
  <2>4. ASSUME NEW d \in deriving[u], EndDerivation(u, d) PROVE ClosedIdle'
    <3>1. managers[u] # <<>> /\ 1 \in 1..Len(managers[u])
      BY <1>1, OpenPage DEF ClosedIdle
    <3>2. PICK p : managers' = [managers EXCEPT ![u][1].profile = p]
      BY <2>4 DEF EndDerivation
    <3>3. managers'[u] # <<>>
      BY <3>1, <3>2, <1>1 DEF PagesOK
    <3>4. \A v \in Users \ {u} : managers'[v] = managers[v] /\ deriving'[v] = deriving[v]
      BY <2>4, <3>2, <1>1 DEF PagesOK, ClientOK, EndDerivation
    <3>5. UNCHANGED <<run, posting>>
      BY <2>4 DEF EndDerivation
    <3> QED
      BY <3>3, <3>4, <3>5, <1>2
  <2> QED
    BY <1>7, <2>1, <2>2, <2>3, <2>4 DEF ByClient
<1>8. ASSUME NEW q, ValidateRules(q) \/ Serve(q) PROVE ClosedIdle'
  BY <1>8, <1>4 DEF ValidateRules, Serve, page
<1>9. CASE UNCHANGED vars
  BY <1>9, <1>4 DEF vars, page
<1> QED
  BY <1>6, <1>7, <1>8, <1>9 DEF Next, ByServer

\* The types that are initially and that every step keeps.
LEMMA TypeInvInductive == (Init => TypeInv) /\ (TypeInv /\ [Next]_vars => TypeInv')
<1>1. ASSUME Init PROVE TypeInv
  <2> USE ExchangeAssumption
  <2>1. PageOf(<<>>) /\ <<>> \in Seq(Managers)
    BY DEF PageOf
  <2>2. PagesOK
    BY <1>1, <2>1 DEF Init, PagesOK
  <2>3. ClientOK
    <3>1. Running(Idle)
      BY DEF Running, Runnings, Idle, KeySets, NoKey
    <3> QED
      BY <1>1, <3>1 DEF Init, ClientOK
  <2>4. ClosedIdle
    BY <1>1 DEF Init, ClosedIdle, Idle
  <2>5. ServerOK
    BY <1>1, FS_EmptySet DEF Init, ServerOK
  <2>6. BoundsOK
    BY <1>1 DEF Init, BoundsOK
  <2> QED
    BY <2>2, <2>3, <2>4, <2>5, <2>6 DEF TypeInv
<1>2. ASSUME TypeInv, [Next]_vars PROVE TypeInv'
  BY <1>2, PagesStep, ClientStep, ClosedStep, ServerStep, BoundsStep DEF TypeInv
<1> QED
  BY <1>1, <1>2

\* Profiles, pages, runs, bundles, requests and counters are of their types,
\* the managers of a page are two at most (init, index.ts), and what the server
\* handles stays within its bound.
THEOREM TypesHoldAlways == Spec => []TypeOK
<1>1. TypeInv => TypeOK
  <2> SUFFICES ASSUME TypeInv PROVE TypeOK
    OBVIOUS
  <2> USE ExchangeAssumption
  <2>1. ASSUME NEW u \in Users, NEW p \in {storage[u], file[u], Current(u)}
        PROVE  p = NoProfile \/ ValidFormat(p)
    BY CurrentOpen, ProfileFormat DEF TypeInv, PagesOK
  <2>2. ASSUME NEW u \in Users PROVE Last(u) \in 0..2 /\ made[u] \in 0..MaxMade[u] /\ accepted[u] \in Nat
    <3>1. managers[u] \in Seq(Managers)
      BY DEF TypeInv, PagesOK
    <3>4. Len(managers[u]) <= 2
      BY DEF TypeInv, PagesOK, PageOf
    <3>2. Last(u) \in 0..2
      <4>1. Len(managers[u]) \in Nat
        BY <3>1
      <4>2. Len(managers[u]) \in 0..2
        <5>1. \A n \in Nat : n <= 2 => n \in 0..2
          OBVIOUS
        <5> QED
          BY <4>1, <3>4, <5>1, Zenon
      <4> QED
        BY <4>2 DEF Last
    <3>3. made[u] \in Nat /\ made[u] <= MaxMade[u] /\ MaxMade[u] \in Nat
      BY DEF TypeInv, BoundsOK
    <3> QED
      BY <3>2, <3>3 DEF TypeInv, ServerOK
  <2>3. ASSUME NEW u \in Users, NEW r \in Runs[u] PROVE run[u][r].pc \in {"idle", "fetch"}
    <3>1. run[u][r] \in Runnings
      BY DEF TypeInv, ClientOK, Running
    <3> QED
      BY <3>1 DEF Runnings
  <2>4. bundles \subseteq posted /\ Cardinality(requests) <= MaxInFlight
    BY DEF TypeInv, ServerOK
  <2>5. inits \in 0..MaxInits /\ (\A u \in Users : faults[u] \in 0..MaxFaults[u]) /\ stale \subseteq Users
    BY DEF TypeInv, BoundsOK
  <2> QED
    BY <2>1, <2>2, <2>3, <2>4, <2>5 DEF TypeOK
<1> QED
  BY TypeInvInductive, <1>1, PTL DEF Spec

-----------------------------------------------------------------------------
(* The rate limit.                                                         *)

Passed(u, requests_) == {q \in requests_ : q.by = u /\ q.passed}
\* The rows of a user and the requests that have passed the count, together:
\* the last one that passed saw fewer rows than the threshold, and no more
\* requests are handled at a time than MaxInFlight.
QuotaInv ==
  \A u \in Users : accepted[u] + Cardinality(Passed(u, requests)) <= SpamThreshold + MaxInFlight - 1

\* Requests that have passed are few.
LEMMA PassedFinite ==
  ASSUME NEW S, IsFiniteSet(S), NEW u
  PROVE  /\ IsFiniteSet(Passed(u, S)) /\ Cardinality(Passed(u, S)) \in Nat
         /\ Cardinality(Passed(u, S)) <= Cardinality(S) /\ Cardinality(S) \in Nat
<1>1. Passed(u, S) \subseteq S
  BY DEF Passed
<1> HIDE DEF Passed
<1> QED
  BY <1>1, FS_Subset, FS_CardinalityType

\* A request that is answered without a row makes room.
LEMMA PassedShrink ==
  ASSUME NEW S, IsFiniteSet(S), NEW T \in SUBSET S, NEW u
  PROVE  Cardinality(Passed(u, T)) <= Cardinality(Passed(u, S))
<1>1. Passed(u, T) \subseteq Passed(u, S)
  BY DEF Passed
<1> QED
  BY <1>1, PassedFinite, FS_Subset

(* Every step keeps the count of accepted requests below the threshold plus *)
(* those in flight.                                                         *)
LEMMA QuotaStep == ASSUME TypeInv, QuotaInv, [Next]_vars PROVE QuotaInv'
<1> USE ExchangeAssumption
<1>1. IsFiniteSet(requests) /\ Cardinality(requests) <= MaxInFlight /\ accepted \in [Users -> Nat]
  BY DEF TypeInv, ServerOK
<1>2. ASSUME UNCHANGED accepted, \A u \in Users : Cardinality(Passed(u, requests')) <= Cardinality(Passed(u, requests)),
             IsFiniteSet(requests')
      PROVE  QuotaInv'
  <2>1. ASSUME NEW u \in Users
        PROVE  accepted'[u] + Cardinality(Passed(u, requests')) <= SpamThreshold + MaxInFlight - 1
    <3>1. accepted[u] \in Nat /\ accepted'[u] = accepted[u]
      BY <1>1, <1>2
    <3>2. Cardinality(Passed(u, requests)) \in Nat /\ Cardinality(Passed(u, requests')) \in Nat
      BY <1>1, <1>2, PassedFinite
    <3>3. Cardinality(Passed(u, requests')) <= Cardinality(Passed(u, requests))
      BY <1>2
    <3>4. accepted[u] + Cardinality(Passed(u, requests)) <= SpamThreshold + MaxInFlight - 1
      BY DEF QuotaInv
    <3> QED
      BY <3>1, <3>2, <3>3, <3>4
  <2> QED
    BY <2>1 DEF QuotaInv
<1>3. ASSUME UNCHANGED <<accepted, requests>> PROVE QuotaInv'
  BY <1>3 DEF QuotaInv
<1>4. ASSUME NEW u, NEW from, NEW kind, NEW content, Send(u, from, kind, content), UNCHANGED accepted
      PROVE  QuotaInv'
  <2> DEFINE new == [by |-> u, from |-> from, kind |-> kind, content |-> content, passed |-> FALSE]
  <2>1. requests' = requests \cup {new} /\ ~ new.passed
    BY <1>4 DEF Send
  <2> HIDE DEF new
  <2>2. ASSUME NEW v \in Users PROVE Passed(v, requests') = Passed(v, requests)
    BY <2>1 DEF Passed
  <2>3. IsFiniteSet(requests')
    BY <2>1, <1>1, FS_AddElement
  <2>4. \A v \in Users : Cardinality(Passed(v, requests')) <= Cardinality(Passed(v, requests))
    BY <2>2, <1>1, PassedFinite
  <2> QED
    BY <2>3, <2>4, <1>2, <1>4
<1>5. ASSUME NEW u \in Users, ByUser(u) PROVE QuotaInv'
  BY <1>5, <1>3 DEF ByUser, InitFromStorage, InitNewProfile, Reload, LoseBrowser, ExportToFile,
    RecoverFromFile, CreateDirectRoom, server
<1>6. ASSUME NEW u \in Users, ByClient(u) PROVE QuotaInv'
  <2>1. ASSUME NEW room, SaveKeyExchangeBundle(u, room) PROVE QuotaInv'
    BY <2>1, <1>3, <1>4 DEF SaveKeyExchangeBundle
  <2>2. ASSUME NEW r, StartRun(u, r) PROVE QuotaInv'
    BY <2>2, <1>3 DEF StartRun, server
  <2>3. ASSUME NEW r, FetchBundles(u, r) PROVE QuotaInv'
    BY <2>3, <1>3, <1>4 DEF FetchBundles
  <2>4. ASSUME NEW d, EndDerivation(u, d) PROVE QuotaInv'
    BY <2>4, <1>3 DEF EndDerivation, server
  <2> QED
    BY <1>6, <2>1, <2>2, <2>3, <2>4 DEF ByClient
<1>7. ASSUME NEW q \in requests, ValidateRules(q) PROVE QuotaInv'
  <2> DEFINE rest == requests \ {q}
             p    == [q EXCEPT !.passed = TRUE]
  <2>1. IsRequest(q)
    BY DEF TypeInv, ServerOK
  <2>2. UNCHANGED accepted
    BY <1>7 DEF ValidateRules
  <2>3. IsFiniteSet(rest) /\ Cardinality(rest) = Cardinality(requests) - 1 /\ Cardinality(requests) \in Nat
    BY <1>1, FS_RemoveElement, FS_CardinalityType
  <2>4. CASE requests' = rest
    BY <2>2, <2>3, <2>4, <1>1, <1>2, PassedShrink
  <2>5. CASE requests' = rest \cup {p} /\ accepted[q.by] < SpamThreshold
    <3>1. p.by = q.by
      BY <2>1 DEF IsRequest
    <3>2. IsFiniteSet(requests') /\ Cardinality(requests') <= MaxInFlight
      <4> HIDE DEF p, rest
      <4>1. Cardinality(requests') \in {Cardinality(rest), Cardinality(rest) + 1} /\ IsFiniteSet(requests')
        BY <2>5, <2>3, FS_AddElement
      <4> QED
        BY <4>1, <2>3, <1>1
    <3>3. ASSUME NEW v \in Users
          PROVE  accepted[v] + Cardinality(Passed(v, requests')) <= SpamThreshold + MaxInFlight - 1
      <4>1. accepted[v] \in Nat
        BY <1>1
      <4>2. CASE v = q.by
        <5>1. Cardinality(Passed(v, requests')) \in Nat /\ Cardinality(Passed(v, requests')) <= MaxInFlight
          BY <3>2, PassedFinite
        <5> QED
          BY <5>1, <4>1, <4>2, <2>5
      <4>3. CASE v # q.by
        <5>1. Passed(v, requests') = Passed(v, requests)
          BY <4>3, <3>1, <2>5 DEF Passed
        <5> QED
          BY <5>1 DEF QuotaInv
      <4> QED
        BY <4>2, <4>3
    <3> QED
      BY <3>3, <2>2 DEF QuotaInv
  <2> HIDE DEF p, rest
  <2>6. requests' = rest \/ (requests' = rest \cup {p} /\ q \notin Spam)
    BY <1>7 DEF ValidateRules, p, rest
  <2>7. q \notin Spam => accepted[q.by] < SpamThreshold
    BY <1>1, <2>1 DEF Spam, IsRequest
  <2> QED
    BY <2>4, <2>5, <2>6, <2>7
<1>8. ASSUME NEW q \in requests, Serve(q) PROVE QuotaInv'
  <2>1. IsRequest(q) /\ q.by \in Users
    BY DEF TypeInv, ServerOK, IsRequest
  <2>2. requests' = requests \ {q} /\ q \in Passed(q.by, requests) /\ accepted' = [accepted EXCEPT ![q.by] = @ + 1]
    BY <1>8 DEF Serve, Passed
  <2>3. ASSUME NEW v \in Users
        PROVE  accepted'[v] + Cardinality(Passed(v, requests')) <= SpamThreshold + MaxInFlight - 1
    <3>1. accepted[v] \in Nat /\ IsFiniteSet(Passed(v, requests))
      BY <1>1, PassedFinite
    <3>2. accepted[v] + Cardinality(Passed(v, requests)) <= SpamThreshold + MaxInFlight - 1
      BY DEF QuotaInv
    <3>3. CASE v = q.by
      <4>1. Passed(v, requests') = Passed(v, requests) \ {q}
        BY <2>2, <3>3 DEF Passed
      <4>2. /\ Cardinality(Passed(v, requests)) \in Nat
            /\ Cardinality(Passed(v, requests')) = Cardinality(Passed(v, requests)) - 1
        BY <4>1, <3>1, <3>3, <2>2, FS_RemoveElement, FS_CardinalityType
      <4>3. accepted'[v] = accepted[v] + 1
        BY <2>1, <2>2, <3>3, <1>1
      <4> QED
        BY <4>2, <4>3, <3>1, <3>2
    <3>4. CASE v # q.by
      <4>1. Passed(v, requests') = Passed(v, requests)
        BY <2>2, <3>4 DEF Passed
      <4>2. accepted'[v] = accepted[v]
        BY <2>2, <3>4, <1>1
      <4> QED
        BY <4>1, <4>2, <3>2
    <3> QED
      BY <3>3, <3>4
  <2> QED
    BY <2>3 DEF QuotaInv
<1>9. CASE UNCHANGED vars
  BY <1>9, <1>3 DEF vars, server
<1> QED
  BY <1>5, <1>6, <1>7, <1>8, <1>9 DEF Next, ByServer

\* The spam threshold of the bundles is exceeded by no more than the requests
\* that are handled at the same time, whatever their number and order
\* (validateMessageRules).
THEOREM QuotaHolds == Spec => []QuotaBound
<1>1. Init => QuotaInv
  <2>1. ASSUME Init, NEW u \in Users
        PROVE  accepted[u] + Cardinality(Passed(u, requests)) <= SpamThreshold + MaxInFlight - 1
    <3>1. Passed(u, requests) = {} /\ accepted[u] = 0
      BY <2>1 DEF Init, Passed
    <3> QED
      BY <3>1, FS_EmptySet, ExchangeAssumption
  <2> QED
    BY <2>1 DEF QuotaInv
<1>2. TypeInv /\ QuotaInv => QuotaBound
  <2>1. ASSUME TypeInv, QuotaInv, NEW u \in Users PROVE accepted[u] <= SpamThreshold + MaxInFlight - 1
    <3>1. Cardinality(Passed(u, requests)) \in Nat /\ accepted[u] \in Nat
      BY <2>1, PassedFinite DEF TypeInv, ServerOK
    <3> QED
      BY <3>1, <2>1, ExchangeAssumption DEF QuotaInv
  <2> QED
    BY <2>1 DEF QuotaBound
<1>3. TypeInv /\ QuotaInv /\ [Next]_vars => QuotaInv'
  BY QuotaStep
<1> QED
  BY TypeInvInductive, <1>1, <1>2, <1>3, PTL DEF Spec

-----------------------------------------------------------------------------
(* The keys.  What follows is about pages on which init is called once:    *)
(* the managers of a page then are one, whose profile is in the storage.   *)

SenderOf(b)   == Opened(b, b.receiver_public_key).sender_public_key
DhOf(b)       == Opened(b, b.receiver_public_key).dh_public_key
ReceiverOf(b) == b.receiver_public_key

\* Numbers and keys that v has generated among the first m[v].
Number(i, v, m) == \E n \in 1..m[v] : i = <<v, n>>
KeyOf(k, v, m)  == \E n \in 1..m[v] : k = {<<v, n>>}
Known(k, m)     == \E v \in Users : KeyOf(k, v, m)
OwnedBy(k, v)   == \E n \in Nat : k = {<<v, n>>}

SameRoom(s, t) ==
  t.id = s.id /\ t.dh = s.dh /\ t.recipient_public_key = s.recipient_public_key
Listed(s, p) == \E t \in DirectRooms(p) : SameRoom(s, t)

\* A profile of u: rooms have different ids and different recipients.
RoomOf(s, u, m) ==
  /\ Number(s.id, u, m) /\ s.dh # NoKey /\ Known(s.recipient_public_key, m)
Distinct(rooms) ==
  \A s, t \in rooms : s.id = t.id \/ s.recipient_public_key = t.recipient_public_key => s = t
ProfileOf(p, u, m) ==
  /\ KeyOf(OwnKey(p), u, m)
  /\ p.rooms["public"] = {} /\ p.rooms["private"] = {}
  /\ \A s \in DirectRooms(p) : RoomOf(s, u, m)
  /\ Distinct(DirectRooms(p))

\* The profile u can go on with: the one in the storage or, in a new browser,
\* the exported one.
Kept(u) == IF storage[u] = NoProfile THEN file[u] ELSE storage[u]

\* The bundles that are being prepared, are on their way, or were saved, and
\* those that are gone or about to be deleted.
Prepared(u) == {Bundle(room.dh, OwnKey(storage[u]), room.recipient_public_key) : room \in posting[u]}
Content(kind) == UNION {q.content : q \in {q \in requests : q.kind = kind}}
Sent  == posted \cup Content("create") \cup UNION {Prepared(u) : u \in Users}
Taken == (posted \ bundles) \cup Content("delete")

OnePage ==
  \A u \in Users : managers[u] # <<>> =>
    storage[u] # NoProfile /\ managers[u] = <<[profile |-> storage[u], object |-> 1]>>
Owners ==
  \A u \in Users : \A p \in {storage[u], file[u]} \ {NoProfile} : ProfileOf(p, u, made)
SentKnown == \A b \in Sent : Known(SenderOf(b), made) /\ Known(ReceiverOf(b), made)
\* Who sent a bundle has kept the room that it was prepared for,
HasRoomFor(p, b) ==
  \E s \in DirectRooms(p) : s.recipient_public_key = ReceiverOf(b) /\ s.dh = DhOf(b)
SentFromRooms ==
  \A u \in Users \ stale : Kept(u) # NoProfile =>
    \A b \in Sent : SenderOf(b) = OwnKey(Kept(u)) => HasRoomFor(Kept(u), b)
\* and sends nobody two keys under one identity.
OneKeyEach ==
  \A v \in Users \ stale : \A b, c \in Sent :
    OwnedBy(SenderOf(b), v) /\ SenderOf(b) = SenderOf(c) /\ ReceiverOf(b) = ReceiverOf(c)
      => DhOf(b) = DhOf(c)
\* A bundle of k for p, which carries the key dh.
From(b, k, p, dh) == SenderOf(b) = k /\ ReceiverOf(b) = OwnKey(p) /\ DhOf(b) = dh
Justified(s, p, posted_) ==
  \E b \in posted_ : \E dh \in KeySets : From(b, s.recipient_public_key, p, dh) /\ s.symmetric_key = s.dh \cup dh
KeysFromBundles ==
  \A u \in Users : \A p \in {storage[u], file[u]} : \A s \in DirectRooms(p) :
    HasKey(s) => Justified(s, p, posted)
RunCurrent(s, p) ==
  s.pc = "fetch" => s.object = 1 /\ s.own = OwnKey(p) /\ \A t \in s.rooms : Listed(t, p)
RunsCurrent == \A u \in Users : \A r \in Runs[u] : RunCurrent(run[u][r], storage[u])
CallCurrent(d, p, posted_) ==
  d.object = 1 /\ Listed(d.room, p) /\ \E b \in posted_ : From(b, d.room.recipient_public_key, p, d.dh)
CallsCurrent == \A u \in Users : \A d \in deriving[u] : CallCurrent(d, storage[u], posted)
\* A bundle that is gone was used, or its derivation was lost.
UsedBy(b, p, calls, lost) ==
  \E s \in DirectRooms(p) : s.recipient_public_key = SenderOf(b) /\
    (HasKey(s) \/ lost = TRUE \/ \E d \in calls : d.room.id = s.id)
TakenUsed ==
  \A u \in Users \ stale : Kept(u) # NoProfile =>
    \A b \in Taken : ReceiverOf(b) = OwnKey(Kept(u)) => UsedBy(b, Kept(u), deriving[u], dropped[u])
TakenPosted == Taken \subseteq posted

KeysInv ==
  /\ OnePage /\ Owners /\ SentKnown /\ SentFromRooms /\ OneKeyEach
  /\ KeysFromBundles /\ RunsCurrent /\ CallsCurrent /\ TakenUsed /\ TakenPosted

-----------------------------------------------------------------------------
(* Lemmas about keys, bundles and rooms.                                   *)

\* A bundle says who sent it, to whom, and which key.
BundleOf(b, dh, k, to) == DhOf(b) = dh /\ SenderOf(b) = k /\ ReceiverOf(b) = to

(* The content of a bundle is what its sender put there.                    *)
LEMMA BundleFacts ==
  ASSUME NEW dh, NEW k, NEW to
  PROVE  BundleOf(Bundle(dh, k, to), dh, k, to)
BY DEF BundleOf, DhOf, SenderOf, ReceiverOf, Bundle, Opened, encryptMessageAsymmetric,
  decryptMessageAsymmetric

\* Bundles with equal hashes and receivers are equal (createBundle, deleteBundles).
LEMMA BundleSame ==
  ASSUME NEW b, NEW c, IsBundle(b), IsBundle(c), c.content_hash = b.content_hash,
         c.receiver_public_key = b.receiver_public_key
  PROVE  b = c
<1>1. PICK d1, s1, r1 \in KeySets : b = Bundle(d1, s1, r1)
  BY DEF IsBundle
<1>2. PICK d2, s2, r2 \in KeySets : c = Bundle(d2, s2, r2)
  BY DEF IsBundle
<1>3. d1 = d2 /\ s1 = s2 /\ r1 = r2
  BY <1>1, <1>2 DEF Bundle, hash
<1> QED
  BY <1>1, <1>2, <1>3

\* Whose a key is.
LEMMA KeyFacts ==
  ASSUME NEW k, NEW v, NEW w, NEW m, m[v] \in Nat, m[w] \in Nat
  PROVE  /\ KeyOf(k, v, m) /\ KeyOf(k, w, m) => v = w
         /\ KeyOf(k, v, m) => k # {<<w, m[w] + 1>>} /\ k # NoKey
         /\ KeyOf(k, v, m) => OwnedBy(k, v)
         /\ OwnedBy(k, v) /\ KeyOf(k, w, m) => v = w
         /\ OwnedBy(k, v) /\ OwnedBy(k, w) => v = w
<1>1. ASSUME NEW x, NEW y, NEW i, NEW j, NEW l, l = {<<x, i>>}, l = {<<y, j>>} PROVE x = y /\ i = j
  <2>1. <<x, i>> \in {<<x, i>>}
    OBVIOUS
  <2>2. <<x, i>> \in {<<y, j>>}
    BY <1>1, <2>1, Zenon
  <2> QED
    BY <2>2
<1>2. ASSUME KeyOf(k, v, m) PROVE OwnedBy(k, v) /\ k # NoKey
  BY <1>2 DEF KeyOf, OwnedBy, NoKey
<1>3. ASSUME OwnedBy(k, v), OwnedBy(k, w) PROVE v = w
  <2>1. PICK i \in Nat : k = {<<v, i>>}
    BY <1>3 DEF OwnedBy
  <2>2. PICK j \in Nat : k = {<<w, j>>}
    BY <1>3 DEF OwnedBy
  <2> QED
    BY <1>1, <2>1, <2>2, Zenon
<1>4. ASSUME KeyOf(k, v, m) PROVE k # {<<w, m[w] + 1>>}
  <2>1. PICK n \in 1..m[v] : k = {<<v, n>>}
    BY <1>4 DEF KeyOf
  <2>2. v = w => n # m[w] + 1
    OBVIOUS
  <2> DEFINE j == m[w] + 1
  <2> HIDE DEF j
  <2>3. k = {<<w, j>>} => v = w /\ n = j
    BY <1>1, <2>1, Zenon
  <2> QED
    BY <2>2, <2>3 DEF j
<1>5. KeyOf(k, w, m) => OwnedBy(k, w)
  BY DEF KeyOf, OwnedBy
<1> QED
  BY <1>2, <1>3, <1>4, <1>5

\* Keys stay known.
LEMMA KeyGrows ==
  ASSUME NEW k, NEW m, NEW n, \A v \in Users : m[v] \in Nat /\ n[v] \in Nat /\ m[v] <= n[v]
  PROVE  /\ \A v \in Users : KeyOf(k, v, m) => KeyOf(k, v, n)
         /\ Known(k, m) => Known(k, n)
         /\ \A v \in Users : Number(k, v, m) => Number(k, v, n)
<1>1. ASSUME NEW v \in Users PROVE 1..m[v] \subseteq 1..n[v]
  OBVIOUS
<1> QED
  BY <1>1 DEF KeyOf, Known, Number

\* A profile stays one of its user.
LEMMA ProfileGrows ==
  ASSUME NEW p, NEW u \in Users, NEW m, NEW n,
         \A v \in Users : m[v] \in Nat /\ n[v] \in Nat /\ m[v] <= n[v], ProfileOf(p, u, m)
  PROVE  ProfileOf(p, u, n)
<1>1. ASSUME NEW s, RoomOf(s, u, m) PROVE RoomOf(s, u, n)
  BY <1>1, KeyGrows DEF RoomOf
<1>2. KeyOf(OwnKey(p), u, n)
  BY KeyGrows DEF ProfileOf
<1> QED
  BY <1>1, <1>2 DEF ProfileOf

\* The direct rooms of a profile, and of none.
LEMMA DirectFacts ==
  /\ DirectRooms(NoProfile) = {}
  /\ \A p \in Profiles : DirectRooms(p) = p.rooms["direct"] /\ DirectRooms(p) \subseteq Rooms
<1>1. ASSUME NEW p \in Profiles PROVE p.rooms["direct"] \subseteq Rooms /\ p # NoProfile
  BY ExchangeAssumption DEF Profiles, RoomTypes
<1> QED
  BY <1>1 DEF DirectRooms

-----------------------------------------------------------------------------
(* What the steps do to the profile of an open page.                       *)

\* An open page works on the profile in the storage.
LEMMA SyncedPage ==
  ASSUME TypeInv, OnePage, NEW u \in Users, managers[u] # <<>>
  PROVE  /\ storage[u] \in Profiles /\ storage[u] # NoProfile /\ Kept(u) = storage[u]
         /\ KeyProfile(u) = storage[u] /\ Current(u) = storage[u]
         /\ managers[u] = <<[profile |-> storage[u], object |-> 1]>>
         /\ managers[u][1].object = 1 /\ Last(u) = 1
<1>1. storage[u] # NoProfile /\ managers[u] = <<[profile |-> storage[u], object |-> 1]>>
  BY DEF OnePage
<1>2. storage[u] \in Profiles
  BY <1>1 DEF TypeInv, PagesOK
<1> QED
  BY <1>1, <1>2 DEF Kept, KeyProfile, Current, Last

\* The count of the calls of init on open pages does not go back,
LEMMA InitsZero == ASSUME TypeInv, [Next]_vars, inits' = 0 PROVE inits = 0
<1>1. inits \in Nat
  BY ExchangeAssumption DEF TypeInv, BoundsOK
<1>2. inits' \in {inits, inits + 1}
  <2>1. ASSUME NEW u \in Users, ByUser(u) PROVE inits' \in {inits, inits + 1}
    BY <2>1 DEF ByUser, InitFromStorage, InitNewProfile, Reload, LoseBrowser, ExportToFile,
      RecoverFromFile, CreateDirectRoom, CountInit, bounds
  <2>2. ASSUME NEW u \in Users, ByClient(u) PROVE inits' \in {inits, inits + 1}
    BY <2>2 DEF ByClient, SaveKeyExchangeBundle, StartRun, FetchBundles, EndDerivation, bounds
  <2>3. ASSUME NEW q, ValidateRules(q) \/ Serve(q) PROVE inits' \in {inits, inits + 1}
    BY <2>3 DEF ValidateRules, Serve
  <2>4. UNCHANGED vars => inits' \in {inits, inits + 1}
    BY DEF vars, bounds
  <2> QED
    BY <2>1, <2>2, <2>3, <2>4 DEF Next, ByServer
<1> QED
  BY <1>1, <1>2

\* and is zero only as long as pages are closed when init is called.
LEMMA FirstInit ==
  ASSUME TypeInv, NEW u \in Users, CountInit(u), inits' = 0
  PROVE  managers[u] = <<>>
<1>1. inits \in Nat
  BY ExchangeAssumption DEF TypeInv, BoundsOK
<1> QED
  BY <1>1 DEF CountInit

\* init of a closed page leaves one manager.
LEMMA InstallFirst ==
  ASSUME NEW u \in Users, NEW p, Install(u, <<>>, p)
  PROVE  managers' = [managers EXCEPT ![u] = <<[profile |-> p, object |-> 1]>>]
BY DEF Install

\* An operation on the profile of an open page gives it the profile q.
EditOf(u, q) ==
  /\ managers[u] # <<>> /\ storage[u] \in Profiles /\ q \in Profiles /\ SameOwner(storage[u], q)
  /\ storage' = [storage EXCEPT ![u] = q]
  /\ managers' = [managers EXCEPT ![u] = <<[profile |-> q, object |-> 1]>>]
  /\ UNCHANGED <<file, stale>>

Adding(p, q, room) ==
  /\ DirectRooms(q) = DirectRooms(p) \cup {room} /\ room \in Rooms /\ ~ HasKey(room)
  /\ \A s \in DirectRooms(p) : s.recipient_public_key # room.recipient_public_key
\* create_direct_room adds a room with a recipient who had none.
CreatesRoom(u, q, room) ==
  /\ EditOf(u, q) /\ Adding(storage[u], q, room)
  /\ room.id = Fresh(u) /\ room.dh = {Fresh(u)} /\ Known(room.recipient_public_key, made)
  /\ posting' = [posting EXCEPT ![u] = @ \cup {room}]
  /\ made' = [made EXCEPT ![u] = @ + 1]
  /\ UNCHANGED <<run, deriving, server, dropped>>

(* create_direct_room adds one room without a key and posts it.             *)
LEMMA CreateRoomStep ==
  ASSUME TypeInv, KeysInv, NEW u \in Users, NEW k \in PublicKeys, CreateDirectRoom(u, k)
  PROVE  \E q, room : CreatesRoom(u, q, room)
<1> DEFINE room == DirectRoom(Fresh(u), k, generateECDHKeyPair(Fresh(u)))
           q == AddRoom(storage[u], "direct", room)
<1>1. room \in Rooms /\ k \in KeySets
  BY FreshRoom DEF TypeInv
<1>2. managers[u] # <<>> /\ Current(u) = storage[u]
  BY CurrentOpen, SyncedPage DEF CreateDirectRoom, TypeInv, KeysInv
<1>3. storage[u] \in Profiles /\ Last(u) = 1 /\ managers[u] = <<[profile |-> storage[u], object |-> 1]>>
  BY <1>2, SyncedPage DEF KeysInv
<1>4. Edit(u, q) /\ CanAddDirectRoom(storage[u], room)
  BY <1>2 DEF CreateDirectRoom
<1>5. room.id = Fresh(u) /\ room.dh = {Fresh(u)} /\ room.recipient_public_key = k /\ ~ HasKey(room)
  BY DEF DirectRoom, generateECDHKeyPair, HasKey
<1>6. Known(k, made)
  <2>1. PICK v \in Users : Current(v) # NoProfile /\ k = OwnKey(Current(v))
    BY DEF PublicKeys, OwnKey
  <2>2. managers[v] # <<>> /\ Current(v) = storage[v]
    BY <2>1, CurrentOpen, SyncedPage DEF TypeInv, KeysInv
  <2>3. ProfileOf(storage[v], v, made)
    BY <2>1, <2>2 DEF KeysInv, Owners
  <2> QED
    BY <2>1, <2>2, <2>3 DEF ProfileOf, Known
<1>7. posting' = [posting EXCEPT ![u] = @ \cup {room}] /\ made' = [made EXCEPT ![u] = @ + 1]
  BY DEF CreateDirectRoom, Make
<1>8. UNCHANGED <<file, stale, run, deriving, server, dropped>>
  BY DEF CreateDirectRoom
<1> HIDE DEF room
<1>9. q \in Profiles /\ SameOwner(storage[u], q) /\ q.rooms["direct"] = storage[u].rooms["direct"] \cup {room}
  BY <1>1, <1>3, AddRoomFacts
<1>10. Adding(storage[u], q, room)
  BY <1>1, <1>3, <1>4, <1>5, <1>9, DirectFacts DEF Adding, CanAddDirectRoom
<1> HIDE DEF q
<1>11. /\ storage' = [storage EXCEPT ![u] = q]
       /\ managers' = [managers EXCEPT ![u] = [managers[u] EXCEPT ![1].profile = q]]
  BY <1>3, <1>4 DEF Edit
<1>12. [managers[u] EXCEPT ![1].profile = q] = <<[profile |-> q, object |-> 1]>>
  BY <1>3
<1>13. EditOf(u, q)
  BY <1>2, <1>3, <1>8, <1>9, <1>11, <1>12 DEF EditOf
<1>14. CreatesRoom(u, q, room)
  BY <1>5, <1>6, <1>7, <1>8, <1>10, <1>13 DEF CreatesRoom
<1> QED
  BY <1>14

\* The room t of p has become k, with the key derived from dh.
Keying(p, q, t, k, dh) ==
  /\ t \in DirectRooms(p) /\ k \in Rooms /\ SameRoom(t, k) /\ k.symmetric_key = t.dh \cup dh
  /\ DirectRooms(q) = (DirectRooms(p) \ {t}) \cup {k}
\* deriveRoomSecretKey keys the room it was called for.
KeysRoom(u, d, q, t, k) ==
  /\ EditOf(u, q) /\ Keying(storage[u], q, t, k, d.dh) /\ SameRoom(t, d.room)
  /\ d \in deriving[u] /\ deriving' = [deriving EXCEPT ![u] = @ \ {d}]
  /\ UNCHANGED <<made, run, posting, server>>
  /\ \A v \in Users : dropped[v] = TRUE => dropped'[v] = TRUE

(* A derivation that ends gives its room the key of both sides, if it still *)
(* waits for one.                                                           *)
LEMMA EndDerivationStep ==
  ASSUME TypeInv, KeysInv, NEW u \in Users, NEW d \in deriving[u], EndDerivation(u, d)
  PROVE  \E q, t, k : KeysRoom(u, d, q, t, k)
<1> DEFINE q == DeriveRoomSecretKey(storage[u], d.room, d.dh)
<1>1. managers[u] # <<>> /\ d.room \in Rooms /\ d.dh \in KeySets
  BY DEF TypeInv, ClosedIdle, ClientOK, Calls
<1>2. /\ storage[u] \in Profiles /\ KeyProfile(u) = storage[u] /\ managers[u][1].object = 1
      /\ managers[u] = <<[profile |-> storage[u], object |-> 1]>>
  BY <1>1, SyncedPage DEF KeysInv
<1>3. CallCurrent(d, storage[u], posted)
  BY DEF KeysInv, CallsCurrent
<1>4. d.object = 1
  BY <1>3 DEF CallCurrent
<1>5. /\ managers' = [managers EXCEPT ![u][1].profile = q] /\ storage' = [storage EXCEPT ![u] = q]
      /\ deriving' = [deriving EXCEPT ![u] = @ \ {d}]
      /\ UNCHANGED <<file, stale, made, run, posting, server>>
  BY <1>2, <1>4 DEF EndDerivation, bounds
<1>6. ASSUME NEW v \in Users, dropped[v] = TRUE PROVE dropped'[v] = TRUE
  <2>1. dropped' = [dropped EXCEPT ![u] = @ \/ FALSE] /\ dropped = [x \in Users |-> dropped[x]]
    BY <1>2, <1>4 DEF EndDerivation, TypeInv, BoundsOK
  <2> QED
    BY <2>1, <1>6
<1>7. PICK t \in DirectRooms(storage[u]) : SameRoom(d.room, t)
  BY <1>3 DEF CallCurrent, Listed
<1>8. /\ q \in Profiles /\ SameOwner(storage[u], q)
      /\ q.rooms["direct"] = {IF r.id = d.room.id THEN Keyed(d.room, d.dh) ELSE r : r \in storage[u].rooms["direct"]}
  BY <1>1, <1>2, DeriveFacts
<1> DEFINE k == Keyed(d.room, d.dh)
<1>9. /\ k \in Rooms /\ k.id = d.room.id /\ k.dh = d.room.dh
      /\ k.recipient_public_key = d.room.recipient_public_key /\ k.symmetric_key = d.room.dh \cup d.dh
  BY <1>1, KeyedFacts
<1>10. Distinct(DirectRooms(storage[u]))
  <2>1. storage[u] # NoProfile
    BY <1>1, SyncedPage DEF KeysInv
  <2> QED
    BY <2>1 DEF KeysInv, Owners, ProfileOf
<1> HIDE DEF k, q
<1>11. ASSUME NEW r \in DirectRooms(storage[u]) PROVE r.id = d.room.id <=> r = t
  BY <1>7, <1>10 DEF Distinct, SameRoom
<1>12. DirectRooms(q) = {IF r.id = d.room.id THEN k ELSE r : r \in DirectRooms(storage[u])}
  BY <1>2, <1>8, DirectFacts DEF k
<1>13. DirectRooms(q) = (DirectRooms(storage[u]) \ {t}) \cup {k}
  BY <1>11, <1>12
<1>14. Keying(storage[u], q, t, k, d.dh) /\ SameRoom(t, d.room)
  BY <1>7, <1>9, <1>13 DEF Keying, SameRoom
<1>15. EditOf(u, q)
  <2>1. [managers[u] EXCEPT ![1].profile = q] = <<[profile |-> q, object |-> 1]>>
    BY <1>2
  <2>2. managers' = [managers EXCEPT ![u] = [managers[u] EXCEPT ![1].profile = q]]
    BY <1>5
  <2> QED
    BY <2>1, <2>2, <1>1, <1>2, <1>5, <1>8 DEF EditOf
<1>16. KeysRoom(u, d, q, t, k)
  BY <1>5, <1>6, <1>14, <1>15 DEF KeysRoom
<1> QED
  BY <1>16

-----------------------------------------------------------------------------
(* What any step does, as far as the invariant is concerned.               *)

\* Nobody forgets that a bundle was saved or a profile out of date; numbers
\* are not used again.
LEMMA Growth ==
  ASSUME TypeInv, [Next]_vars
  PROVE  /\ posted \subseteq posted' /\ stale \subseteq stale'
         /\ \A v \in Users : made[v] \in Nat /\ made'[v] \in Nat /\ made[v] <= made'[v]
<1>1. made \in [Users -> Nat]
  BY DEF TypeInv, BoundsOK
<1>2. ASSUME UNCHANGED <<posted, stale, made>>
      PROVE  /\ posted \subseteq posted' /\ stale \subseteq stale'
             /\ \A v \in Users : made[v] \in Nat /\ made'[v] \in Nat /\ made[v] <= made'[v]
  BY <1>1, <1>2
<1>3. ASSUME NEW u \in Users, Make(u), UNCHANGED <<posted, stale>>
      PROVE  /\ posted \subseteq posted' /\ stale \subseteq stale'
             /\ \A v \in Users : made[v] \in Nat /\ made'[v] \in Nat /\ made[v] <= made'[v]
  BY <1>1, <1>3 DEF Make
<1>4. ASSUME NEW u \in Users, ByUser(u)
      PROVE  /\ posted \subseteq posted' /\ stale \subseteq stale'
             /\ \A v \in Users : made[v] \in Nat /\ made'[v] \in Nat /\ made[v] <= made'[v]
  <2>1. CASE InitFromStorage(u) \/ Reload(u) \/ ExportToFile(u)
    BY <2>1, <1>2 DEF InitFromStorage, Reload, ExportToFile, server, bounds
  <2>2. CASE LoseBrowser(u) \/ RecoverFromFile(u)
    BY <2>2, <1>1 DEF LoseBrowser, RecoverFromFile, server
  <2>3. ASSUME NEW k, InitNewProfile(u) \/ CreateDirectRoom(u, k) PROVE Make(u) /\ UNCHANGED <<posted, stale>>
    BY <2>3 DEF InitNewProfile, CreateDirectRoom, server
  <2> QED
    BY <1>3, <1>4, <2>1, <2>2, <2>3 DEF ByUser
<1>5. ASSUME NEW u \in Users, ByClient(u) PROVE UNCHANGED <<posted, stale, made>>
  BY <1>5 DEF ByClient, SaveKeyExchangeBundle, StartRun, FetchBundles, EndDerivation, server, bounds
<1>6. ASSUME NEW q, ValidateRules(q) PROVE UNCHANGED <<posted, stale, made>>
  BY <1>6 DEF ValidateRules
<1>7. ASSUME NEW q, Serve(q) PROVE posted \subseteq posted' /\ UNCHANGED <<stale, made>>
  BY <1>7 DEF Serve
<1>8. UNCHANGED vars => UNCHANGED <<posted, stale, made>>
  BY DEF vars, server, bounds
<1> QED
  BY <1>1, <1>2, <1>4, <1>5, <1>6, <1>7, <1>8 DEF Next, ByServer

NewProfileOf(u, p) ==
  /\ p \in Profiles /\ OwnKey(p) = {Fresh(u)} /\ DirectRooms(p) = {}
  /\ p.rooms["public"] = {} /\ p.rooms["private"] = {}
Idly(u) == managers[u] = <<>> /\ run'[u] = run[u] /\ deriving'[u] = deriving[u]
\* What can happen to the profiles of u.
SameProfiles(u)  == storage'[u] = storage[u] /\ file'[u] = file[u]
StartsAnew(u, p) ==
  /\ Idly(u) /\ NewProfileOf(u, p) /\ storage'[u] = p /\ file'[u] = file[u] /\ made'[u] = made[u] + 1
Restores(u) == Idly(u) /\ storage[u] = NoProfile /\ storage'[u] = file[u] /\ file'[u] = file[u]
Loses(u) ==
  /\ storage'[u] = NoProfile /\ file'[u] = file[u] /\ managers'[u] = <<>>
  /\ u \in stale' \/ storage[u] \in {NoProfile, file[u]}
Exports(u) ==
  /\ storage[u] # NoProfile /\ storage'[u] = storage[u] /\ file'[u] = storage[u]
  /\ run'[u] = run[u] /\ deriving'[u] = deriving[u]
Creates(u) == \E q, room : CreatesRoom(u, q, room)
Keys(u)    == \E d \in deriving[u] : \E q, t, k : KeysRoom(u, d, q, t, k)
ProfileStep(u) ==
  \/ SameProfiles(u) \/ (\E p : StartsAnew(u, p)) \/ Restores(u) \/ Loses(u) \/ Exports(u)
  \/ Creates(u) \/ Keys(u)

\* There is nothing else that can happen to them.
LEMMA ProfileSteps ==
  ASSUME TypeInv, KeysInv, [Next]_vars, inits' = 0, NEW v \in Users
  PROVE  ProfileStep(v)
<1>1. /\ storage = [x \in Users |-> storage[x]] /\ file = [x \in Users |-> file[x]]
      /\ managers = [x \in Users |-> managers[x]] /\ made = [x \in Users |-> made[x]]
  BY DEF TypeInv, PagesOK, BoundsOK
<1>2. ASSUME UNCHANGED <<storage, file>> PROVE ProfileStep(v)
  BY <1>2 DEF ProfileStep, SameProfiles
<1>3. ASSUME NEW u \in Users, ByUser(u) PROVE ProfileStep(v)
  <2>1. CASE InitFromStorage(u) \/ Reload(u)
    BY <2>1, <1>2 DEF InitFromStorage, Reload
  <2>2. CASE InitNewProfile(u)
    <3>1. managers[u] = <<>>
      BY <2>2, FirstInit DEF InitNewProfile
    <3> DEFINE p == NewProfile(u, "root", "leaves", generateKeyPair(Fresh(u)), u)
    <3>2. storage' = [storage EXCEPT ![u] = p] /\ made' = [made EXCEPT ![u] = @ + 1] /\ UNCHANGED <<file, run, deriving>>
      BY <2>2 DEF InitNewProfile, Make
    <3>3. generateKeyPair(Fresh(u)) \in KeySets /\ generateKeyPair(Fresh(u)) = {Fresh(u)}
      BY DEF generateKeyPair, Fresh, KeySets, TypeInv, BoundsOK
    <3>4. /\ p \in Profiles /\ OwnKey(p) = {Fresh(u)}
          /\ p.rooms["public"] = {} /\ p.rooms["private"] = {} /\ p.rooms["direct"] = {}
      BY <3>3, NewProfileFacts
    <3> HIDE DEF p
    <3>5. NewProfileOf(u, p)
      BY <3>4, DirectFacts DEF NewProfileOf
    <3>6. CASE v = u
      <4>1. StartsAnew(v, p)
        BY <3>1, <3>2, <3>5, <3>6, <1>1 DEF StartsAnew, Idly
      <4> QED
        BY <4>1 DEF ProfileStep
    <3>7. CASE v # u
      BY <3>2, <3>7, <1>1 DEF ProfileStep, SameProfiles
    <3> QED
      BY <3>6, <3>7
  <2>3. CASE LoseBrowser(u)
    <3>1. /\ storage' = [storage EXCEPT ![u] = NoProfile] /\ UNCHANGED file
          /\ managers' = [managers EXCEPT ![u] = <<>>]
          /\ u \in stale' \/ storage[u] \in {NoProfile, file[u]}
      BY <2>3 DEF LoseBrowser, Close
    <3>2. CASE v = u
      <4>1. Loses(v)
        BY <3>1, <3>2, <1>1 DEF Loses
      <4> QED
        BY <4>1 DEF ProfileStep
    <3>3. CASE v # u
      BY <3>1, <3>3, <1>1 DEF ProfileStep, SameProfiles
    <3> QED
      BY <3>2, <3>3
  <2>4. CASE ExportToFile(u)
    <3>1. managers[u] # <<>> /\ Current(u) = storage[u] /\ storage[u] # NoProfile
      BY <2>4, CurrentOpen, SyncedPage DEF ExportToFile, TypeInv, KeysInv
    <3>2. file' = [file EXCEPT ![u] = storage[u]] /\ UNCHANGED <<storage, run, deriving>>
      BY <2>4, <3>1 DEF ExportToFile, ExportProfile, page
    <3>3. CASE v = u
      <4>1. Exports(v)
        BY <3>1, <3>2, <3>3, <1>1 DEF Exports
      <4> QED
        BY <4>1 DEF ProfileStep
    <3>4. CASE v # u
      BY <3>2, <3>4, <1>1 DEF ProfileStep, SameProfiles
    <3> QED
      BY <3>3, <3>4
  <2>5. CASE RecoverFromFile(u)
    <3>1. managers[u] = <<>> /\ storage[u] = NoProfile
      BY <2>5, FirstInit DEF RecoverFromFile, CanLoadProfile
    <3>2. storage' = [storage EXCEPT ![u] = file[u]] /\ UNCHANGED <<file, run, deriving>>
      BY <2>5 DEF RecoverFromFile
    <3>3. CASE v = u
      <4>1. Restores(v)
        BY <3>1, <3>2, <3>3, <1>1 DEF Restores, Idly
      <4> QED
        BY <4>1 DEF ProfileStep
    <3>4. CASE v # u
      BY <3>2, <3>4, <1>1 DEF ProfileStep, SameProfiles
    <3> QED
      BY <3>3, <3>4
  <2>6. ASSUME NEW k \in PublicKeys, CreateDirectRoom(u, k) PROVE ProfileStep(v)
    <3>1. PICK q, room : CreatesRoom(u, q, room)
      BY <2>6, CreateRoomStep
    <3>2. v = u => Creates(v)
      BY <3>1 DEF Creates
    <3>3. v # u => SameProfiles(v)
      BY <3>1, <1>1 DEF CreatesRoom, EditOf, SameProfiles
    <3> QED
      BY <3>2, <3>3 DEF ProfileStep
  <2> QED
    BY <1>3, <2>1, <2>2, <2>3, <2>4, <2>5, <2>6 DEF ByUser
<1>4. ASSUME NEW u \in Users, ByClient(u) PROVE ProfileStep(v)
  <2>1. ASSUME NEW d \in deriving[u], EndDerivation(u, d) PROVE ProfileStep(v)
    <3>1. PICK q, t, k : KeysRoom(u, d, q, t, k)
      BY <2>1, EndDerivationStep
    <3>2. v = u => Keys(v)
      BY <3>1 DEF Keys
    <3>3. v # u => SameProfiles(v)
      BY <3>1, <1>1 DEF KeysRoom, EditOf, SameProfiles
    <3> QED
      BY <3>2, <3>3 DEF ProfileStep
  <2>2. ASSUME NEW x, SaveKeyExchangeBundle(u, x) \/ StartRun(u, x) \/ FetchBundles(u, x)
        PROVE  UNCHANGED <<storage, file>>
    BY <2>2 DEF SaveKeyExchangeBundle, StartRun, FetchBundles
  <2> QED
    BY <1>2, <1>4, <2>1, <2>2 DEF ByClient
<1>5. ASSUME NEW q, ValidateRules(q) \/ Serve(q) PROVE UNCHANGED <<storage, file>>
  BY <1>5 DEF ValidateRules, Serve
<1>6. UNCHANGED vars => UNCHANGED <<storage, file>>
  BY DEF vars
<1> QED
  BY <1>2, <1>3, <1>4, <1>5, <1>6 DEF Next, ByServer

\* A bundle is prepared for a new room only.
LEMMA PostingStep ==
  ASSUME TypeInv, KeysInv, [Next]_vars, inits' = 0, NEW v \in Users
  PROVE  posting'[v] \subseteq posting[v] \/ Creates(v)
<1>1. posting \in [Users -> SUBSET Rooms]
  BY DEF TypeInv, ClientOK
<1>2. ASSUME NEW u \in Users, ByUser(u) PROVE posting'[v] \subseteq posting[v] \/ Creates(v)
  <2>1. ASSUME NEW k \in PublicKeys, CreateDirectRoom(u, k) PROVE posting'[v] \subseteq posting[v] \/ Creates(v)
    <3>1. PICK q, room : CreatesRoom(u, q, room)
      BY <2>1, CreateRoomStep
    <3> QED
      BY <3>1, <1>1 DEF Creates, CreatesRoom
  <2>2. CASE Reload(u) \/ LoseBrowser(u)
    BY <2>2, <1>1 DEF Reload, LoseBrowser, Close
  <2>3. CASE InitFromStorage(u) \/ InitNewProfile(u) \/ ExportToFile(u) \/ RecoverFromFile(u)
    BY <2>3 DEF InitFromStorage, InitNewProfile, ExportToFile, RecoverFromFile, page
  <2> QED
    BY <1>2, <2>1, <2>2, <2>3 DEF ByUser
<1>3. ASSUME NEW u \in Users, ByClient(u) PROVE posting'[v] \subseteq posting[v]
  BY <1>1, <1>3 DEF ByClient, SaveKeyExchangeBundle, StartRun, FetchBundles, EndDerivation
<1>4. ASSUME NEW q, ValidateRules(q) \/ Serve(q) PROVE UNCHANGED posting
  BY <1>4 DEF ValidateRules, Serve, page
<1>5. UNCHANGED vars => UNCHANGED posting
  BY DEF vars, page
<1> QED
  BY <1>2, <1>3, <1>4, <1>5 DEF Next, ByServer

\* The bundle for the room that u creates.
NewBundle(u, room) == Bundle(room.dh, OwnKey(storage[u]), room.recipient_public_key)

\* The bundles being prepared.
LEMMA PreparedStep ==
  ASSUME TypeInv, TypeInv', KeysInv, [Next]_vars, inits' = 0, NEW v \in Users
  PROVE  \/ Prepared(v)' \subseteq Prepared(v)
         \/ \E q, room : CreatesRoom(v, q, room) /\ Prepared(v)' \subseteq Prepared(v) \cup {NewBundle(v, room)}
<1>1. CASE ~ Creates(v)
  <2>1. posting'[v] \subseteq posting[v]
    BY <1>1, PostingStep
  <2>2. ASSUME OwnKey(storage'[v]) = OwnKey(storage[v]) PROVE Prepared(v)' \subseteq Prepared(v)
    BY <2>1, <2>2 DEF Prepared
  <2>3. CASE SameProfiles(v) \/ Exports(v)
    BY <2>2, <2>3 DEF SameProfiles, Exports
  <2>4. CASE posting'[v] = {}
    BY <2>4 DEF Prepared
  <2>5. CASE (\E p : StartsAnew(v, p)) \/ Restores(v)
    <3>1. posting[v] = {}
      BY <2>5 DEF StartsAnew, Restores, Idly, TypeInv, ClosedIdle
    <3> QED
      BY <3>1, <2>1, <2>4
  <2>6. CASE Loses(v)
    BY <2>6, <2>4 DEF Loses, TypeInv, ClosedIdle
  <2>7. CASE Keys(v)
    <3>1. PICK q : EditOf(v, q)
      BY <2>7 DEF Keys, KeysRoom
    <3>2. storage'[v] = q
      BY <3>1 DEF EditOf, TypeInv, PagesOK
    <3> QED
      BY <3>1, <3>2, <2>2 DEF EditOf, SameOwner
  <2> QED
    BY <1>1, <2>3, <2>5, <2>6, <2>7, ProfileSteps DEF ProfileStep
<1>2. CASE Creates(v)
  <2>1. PICK q, room : CreatesRoom(v, q, room)
    BY <1>2 DEF Creates
  <2>2. storage'[v] = q /\ OwnKey(q) = OwnKey(storage[v]) /\ posting'[v] = posting[v] \cup {room}
    BY <2>1 DEF CreatesRoom, EditOf, SameOwner, TypeInv, PagesOK, ClientOK
  <2>3. Prepared(v)' \subseteq Prepared(v) \cup {NewBundle(v, room)}
    BY <2>2 DEF Prepared, NewBundle
  <2> QED
    BY <2>1, <2>3
<1> QED
  BY <1>1, <1>2

\* The bundles a run uses.
Used(u, r) ==
  UsedBundles({m \in Matches(run[u][r].rooms, run[u][r].own) : Usable(m, run[u][r].own)}, run[u][r].own)

\* The derivations that a run starts with the bundles it has fetched.
Fetched(u, r) ==
  {[room |-> m.room, object |-> run[u][r].object, dh |-> Opened(m.bundle, run[u][r].own).dh_public_key] :
     m \in {m \in Matches(run[u][r].rooms, run[u][r].own) : Usable(m, run[u][r].own)}}

\* A run that takes bundles derives the keys they carry.
Takes(u, r) == FetchBundles(u, r) /\ Fetched(u, r) \subseteq deriving'[u]

\* The requests to create and to delete.
LEMMA ContentStep ==
  ASSUME TypeInv, KeysInv, [Next]_vars
  PROVE  /\ \/ Content("create")' \subseteq Content("create")
            \/ \E u \in Users : \E b \in Prepared(u) : Content("create")' \subseteq Content("create") \cup {b}
         /\ \/ Content("delete")' \subseteq Content("delete")
            \/ \E u \in Users : \E r \in Runs[u] :
                 Takes(u, r) /\ Content("delete")' \subseteq Content("delete") \cup Used(u, r)
<1>1. ASSUME UNCHANGED requests PROVE \A k : Content(k)' = Content(k)
  BY <1>1 DEF Content
<1>2. ASSUME NEW u, NEW from, NEW kind, NEW content, Send(u, from, kind, content)
      PROVE  \A k : Content(k)' \subseteq IF k = kind THEN Content(k) \cup content ELSE Content(k)
  BY <1>2 DEF Content, Send
<1>3. ASSUME NEW u \in Users, ByUser(u) PROVE UNCHANGED requests
  BY <1>3 DEF ByUser, InitFromStorage, InitNewProfile, Reload, LoseBrowser, ExportToFile,
    RecoverFromFile, CreateDirectRoom, server
<1>4. ASSUME NEW u \in Users, NEW room \in posting[u], SaveKeyExchangeBundle(u, room), ~ UNCHANGED requests
      PROVE  /\ \E b \in Prepared(u) : Content("create")' \subseteq Content("create") \cup {b}
             /\ Content("delete")' \subseteq Content("delete")
  <2>1. managers[u] # <<>>
    BY DEF TypeInv, ClosedIdle
  <2>2. KeyProfile(u) = storage[u]
    BY <2>1, SyncedPage DEF KeysInv
  <2> DEFINE b == Bundle(room.dh, OwnKey(storage[u]), room.recipient_public_key)
  <2>3. Send(u, room.id, "create", {b})
    BY <2>2, <1>4 DEF SaveKeyExchangeBundle, OwnKey
  <2>4. b \in Prepared(u)
    BY DEF Prepared
  <2> HIDE DEF b
  <2> QED
    BY <2>3, <2>4, <1>2
<1>5. ASSUME NEW u \in Users, NEW r \in Runs[u], FetchBundles(u, r), ~ UNCHANGED requests
      PROVE  /\ Content("create")' \subseteq Content("create")
             /\ Takes(u, r) /\ Content("delete")' \subseteq Content("delete") \cup Used(u, r)
  <2>1. Send(u, r, "delete", Used(u, r))
    BY <1>5 DEF FetchBundles, Used
  <2>2. deriving' = [deriving EXCEPT ![u] = @ \cup Fetched(u, r)]
    BY <1>5 DEF FetchBundles, Fetched
  <2>3. Takes(u, r)
    BY <2>2, <1>5 DEF Takes, TypeInv, ClientOK
  <2> QED
    BY <2>1, <2>3, <1>2
<1>6. ASSUME NEW u \in Users, ByClient(u), ~ UNCHANGED requests
      PROVE  \/ \E room \in posting[u] : SaveKeyExchangeBundle(u, room)
             \/ \E r \in Runs[u] : FetchBundles(u, r)
  BY <1>6 DEF ByClient, StartRun, EndDerivation, server
<1>7. ASSUME NEW q \in requests, ValidateRules(q) \/ Serve(q) PROVE \A k : Content(k)' \subseteq Content(k)
  <2> DEFINE p == [q EXCEPT !.passed = TRUE]
  <2>1. IsRequest(q)
    BY DEF TypeInv, ServerOK
  <2>2. p.kind = q.kind /\ p.content = q.content
    BY <2>1 DEF IsRequest
  <2>3. requests' \subseteq requests \cup {p}
    BY <1>7 DEF ValidateRules, Serve
  <2> HIDE DEF p
  <2> QED
    BY <2>2, <2>3 DEF Content
<1>8. UNCHANGED vars => UNCHANGED requests
  BY DEF vars, server
<1>9. CASE UNCHANGED requests
  BY <1>1, <1>9
<1>10. CASE ~ UNCHANGED requests
  BY <1>3, <1>4, <1>5, <1>6, <1>7, <1>8, <1>10 DEF Next, ByServer
<1> QED
  BY <1>9, <1>10

\* Only what was requested is saved or deleted.
LEMMA PostedStep ==
  ASSUME TypeInv, [Next]_vars
  PROVE  /\ posted' \subseteq posted \cup Content("create")
         /\ posted' \ bundles' \subseteq (posted \ bundles) \cup Content("delete")
<1>1. ASSUME NEW q \in requests, Serve(q)
      PROVE  /\ posted' \subseteq posted \cup Content("create")
             /\ posted' \ bundles' \subseteq (posted \ bundles) \cup Content("delete")
  <2>1. PICK served \in SUBSET q.content :
          \/ /\ q.kind = "create"
             /\ bundles' = bundles \cup Created(served) /\ posted' = posted \cup Created(served)
          \/ q.kind = "delete" /\ bundles' = bundles \ Deleted(served) /\ UNCHANGED posted
    BY <1>1 DEF Serve
  <2>2. CASE q.kind = "create"
    <3>1. served \subseteq Content("create")
      BY <2>2 DEF Content
    <3> QED
      BY <2>1, <2>2, <3>1 DEF Created
  <2>3. CASE q.kind = "delete"
    <3>1. served \subseteq Content("delete")
      BY <2>3 DEF Content
    <3>2. ASSUME NEW b \in Deleted(served) PROVE b \in served
      <4>1. PICK c \in served : /\ c.content_hash = b.content_hash
                                /\ c.receiver_public_key = b.receiver_public_key
        BY DEF Deleted
      <4>2. b \in bundles
        BY DEF Deleted
      <4>3. IsBundle(b) /\ IsBundle(c)
        BY <4>1, <4>2 DEF TypeInv, ServerOK, IsRequest
      <4>4. b = c
        BY <4>1, <4>3, BundleSame
      <4> QED
        BY <4>1, <4>4
    <3> QED
      BY <2>1, <2>3, <3>1, <3>2
  <2> QED
    BY <2>1, <2>2, <2>3
<1>2. ASSUME NEW u \in Users, ByUser(u) \/ ByClient(u) PROVE UNCHANGED <<bundles, posted>>
  BY <1>2 DEF ByUser, InitFromStorage, InitNewProfile, Reload, LoseBrowser, ExportToFile,
    RecoverFromFile, CreateDirectRoom, ByClient, SaveKeyExchangeBundle, StartRun, FetchBundles,
    EndDerivation, server
<1>3. ASSUME NEW q, ValidateRules(q) PROVE UNCHANGED <<bundles, posted>>
  BY <1>3 DEF ValidateRules
<1>4. UNCHANGED vars => UNCHANGED <<bundles, posted>>
  BY DEF vars, server
<1> QED
  BY <1>1, <1>2, <1>3, <1>4 DEF Next, ByServer

\* All the bundles that are sent were, except one for a new room.
LEMMA SentStep ==
  ASSUME TypeInv, TypeInv', KeysInv, [Next]_vars, inits' = 0, NEW b \in Sent'
  PROVE  b \in Sent \/ \E u \in Users : \E q, room : CreatesRoom(u, q, room) /\ b = NewBundle(u, room)
<1>1. posted \subseteq Sent /\ Content("create") \subseteq Sent /\ \A u \in Users : Prepared(u) \subseteq Sent
  BY DEF Sent
<1>2. Content("create")' \subseteq Sent
  BY <1>1, ContentStep
<1>3. posted' \subseteq Sent
  BY <1>1, PostedStep
<1>4. ASSUME NEW u \in Users, b \in Prepared(u)'
      PROVE  b \in Sent \/ \E v \in Users : \E q, room : CreatesRoom(v, q, room) /\ b = NewBundle(v, room)
  BY <1>1, <1>4, PreparedStep
<1>5. b \in posted' \/ b \in Content("create")' \/ \E u \in Users : b \in Prepared(u)'
  BY DEF Sent
<1> QED
  BY <1>2, <1>3, <1>4, <1>5

\* All the bundles that are taken were, except those a run uses.
LEMMA TakenStep ==
  ASSUME TypeInv, KeysInv, [Next]_vars, NEW b \in Taken'
  PROVE  b \in Taken \/ \E u \in Users : \E r \in Runs[u] : Takes(u, r) /\ b \in Used(u, r)
<1>1. posted' \ bundles' \subseteq Taken
  BY PostedStep DEF Taken
<1>2. b \in posted' \ bundles' \/ b \in Content("delete")'
  BY DEF Taken
<1>3. Content("delete") \subseteq Taken
  BY DEF Taken
<1> QED
  BY <1>1, <1>2, <1>3, ContentStep

\* What a run has read is the profile in the storage.
Started(u, s) ==
  /\ managers[u] # <<>> /\ s.object = 1 /\ s.own = OwnKey(storage[u])
  /\ s.rooms \subseteq DirectRooms(storage[u])

(* A run stays as it is, ends, or has just started from the profile of the  *)
(* page.                                                                    *)
LEMMA RunStep ==
  ASSUME TypeInv, KeysInv, [Next]_vars, inits' = 0, NEW v \in Users, NEW r \in Runs[v]
  PROVE  run'[v][r] = run[v][r] \/ run'[v][r].pc = "idle" \/ Started(v, run'[v][r])
<1>1. /\ run = [x \in Users |-> run[x]] /\ \A x \in Users : run[x] = [y \in Runs[x] |-> run[x][y]]
  BY DEF TypeInv, ClientOK
<1>2. ASSUME NEW u \in Users, ByUser(u) PROVE run'[v][r] = run[v][r] \/ run'[v][r].pc = "idle"
  <2>1. CASE Reload(u) \/ LoseBrowser(u)
    BY <2>1, <1>1 DEF Reload, LoseBrowser, Close, Idle
  <2>2. ASSUME NEW k, InitFromStorage(u) \/ InitNewProfile(u) \/ ExportToFile(u) \/ RecoverFromFile(u)
                      \/ CreateDirectRoom(u, k)
        PROVE  UNCHANGED run
    BY <2>2 DEF InitFromStorage, InitNewProfile, ExportToFile, RecoverFromFile, CreateDirectRoom, page
  <2> QED
    BY <1>2, <2>1, <2>2 DEF ByUser
<1>3. ASSUME NEW u \in Users, NEW x \in Runs[u], StartRun(u, x)
      PROVE  run'[v][r] = run[v][r] \/ Started(v, run'[v][r])
  <2> DEFINE s == [pc |-> "fetch", rooms |-> RoomsAvailableForKeyExchange(KeyProfile(u)),
                   object |-> managers[u][1].object, own |-> KeyProfile(u).user_public_key]
  <2>1. managers[u] # <<>> /\ run' = [run EXCEPT ![u][x] = s]
    BY <1>3 DEF StartRun
  <2>2. /\ s.object = 1 /\ s.own = OwnKey(storage[u])
        /\ s.rooms = RoomsAvailableForKeyExchange(storage[u]) /\ storage[u] \in Profiles
    BY <2>1, SyncedPage DEF KeysInv, OwnKey
  <2>3. s.rooms \subseteq DirectRooms(storage[u])
    BY <2>2, DirectFacts DEF RoomsAvailableForKeyExchange
  <2>4. Started(u, s)
    BY <2>1, <2>2, <2>3 DEF Started
  <2> HIDE DEF s
  <2> QED
    BY <2>1, <2>4, <1>1
<1>4. ASSUME NEW u \in Users, ByClient(u), \A x \in Runs[u] : ~ StartRun(u, x)
      PROVE  run'[v][r] = run[v][r] \/ run'[v][r].pc = "idle"
  <2>1. ASSUME NEW x \in Runs[u], FetchBundles(u, x) PROVE run'[v][r] = run[v][r] \/ run'[v][r].pc = "idle"
    BY <2>1, <1>1 DEF FetchBundles, Idle
  <2>2. ASSUME NEW x, SaveKeyExchangeBundle(u, x) \/ EndDerivation(u, x) PROVE UNCHANGED run
    BY <2>2 DEF SaveKeyExchangeBundle, EndDerivation
  <2> QED
    BY <1>4, <2>1, <2>2 DEF ByClient
<1>5. ASSUME NEW q, ValidateRules(q) \/ Serve(q) PROVE UNCHANGED run
  BY <1>5 DEF ValidateRules, Serve, page
<1>6. UNCHANGED vars => UNCHANGED run
  BY DEF vars, page
<1> QED
  BY <1>2, <1>3, <1>4, <1>5, <1>6 DEF Next, ByServer

\* Where derivations come from, and where they go to: a key, or nowhere.
LEMMA CallStep ==
  ASSUME TypeInv, KeysInv, [Next]_vars, inits' = 0, NEW v \in Users
  PROVE  /\ \/ deriving'[v] \subseteq deriving[v]
            \/ \E r \in Runs[v] : FetchBundles(v, r) /\ deriving'[v] \subseteq deriving[v] \cup Fetched(v, r)
         /\ \/ deriving[v] \subseteq deriving'[v] \/ dropped'[v] = TRUE
            \/ \E d \in deriving[v] : \E q, t, k : KeysRoom(v, d, q, t, k)
         /\ dropped[v] = TRUE => dropped'[v] = TRUE
<1>1. deriving \in [Users -> SUBSET Calls] /\ dropped = [x \in Users |-> dropped[x]]
  BY DEF TypeInv, ClientOK, BoundsOK
<1> DEFINE From1 == deriving'[v] \subseteq deriving[v]
           From2 == \E r \in Runs[v] : FetchBundles(v, r) /\ deriving'[v] \subseteq deriving[v] \cup Fetched(v, r)
           To1   == deriving[v] \subseteq deriving'[v] \/ dropped'[v] = TRUE
           To2   == \E d \in deriving[v] : \E q, t, k : KeysRoom(v, d, q, t, k)
           Lost  == dropped[v] = TRUE => dropped'[v] = TRUE
           Goal  == (From1 \/ From2) /\ (To1 \/ To2) /\ Lost
<1>2. ASSUME UNCHANGED <<deriving, dropped>> PROVE Goal
  BY <1>2
<1>3. ASSUME NEW u \in Users, ByUser(u) PROVE Goal
  <2>1. CASE Reload(u) \/ LoseBrowser(u)
    <3>1. /\ deriving' = [deriving EXCEPT ![u] = {}]
          /\ dropped' = [dropped EXCEPT ![u] = @ \/ deriving[u] # {}]
      BY <2>1 DEF Reload, LoseBrowser, Close
    <3>2. Lost
      BY <3>1, <1>1
    <3>3. CASE v = u
      <4>1. deriving'[v] = {} /\ (deriving[v] # {} => dropped'[v] = TRUE)
        BY <3>1, <3>3, <1>1
      <4> QED
        BY <4>1, <3>2
    <3>4. CASE v # u
      BY <3>1, <3>2, <3>4, <1>1
    <3> QED
      BY <3>3, <3>4
  <2>2. ASSUME NEW k, InitFromStorage(u) \/ InitNewProfile(u) \/ ExportToFile(u) \/ RecoverFromFile(u)
                      \/ CreateDirectRoom(u, k)
        PROVE  UNCHANGED <<deriving, dropped>>
    BY <2>2 DEF InitFromStorage, InitNewProfile, ExportToFile, RecoverFromFile, CreateDirectRoom, page
  <2> QED
    BY <1>2, <1>3, <2>1, <2>2 DEF ByUser
<1>4. ASSUME NEW u \in Users, ByClient(u) PROVE Goal
  <2>1. ASSUME NEW r \in Runs[u], FetchBundles(u, r) PROVE Goal
    <3>1. /\ deriving' = [deriving EXCEPT ![u] = @ \cup Fetched(u, r)] \/ UNCHANGED deriving
          /\ UNCHANGED dropped
      BY <2>1 DEF FetchBundles, Fetched
    <3> HIDE DEF Fetched
    <3>2. CASE v = u
      BY <3>1, <3>2, <2>1, <1>1
    <3>3. CASE v # u
      BY <3>1, <3>3, <1>1
    <3> QED
      BY <3>2, <3>3
  <2>2. ASSUME NEW d \in deriving[u], EndDerivation(u, d) PROVE Goal
    <3>1. PICK q, t, k : KeysRoom(u, d, q, t, k)
      BY <2>2, EndDerivationStep
    <3>2. deriving' = [deriving EXCEPT ![u] = @ \ {d}] /\ Lost
      BY <3>1 DEF KeysRoom
    <3>3. From1
      BY <3>2, <1>1
    <3>4. CASE v = u
      BY <3>1, <3>2, <3>3, <3>4
    <3>5. CASE v # u
      BY <3>2, <3>3, <3>5, <1>1
    <3> QED
      BY <3>4, <3>5
  <2>3. ASSUME NEW x, SaveKeyExchangeBundle(u, x) \/ StartRun(u, x) PROVE UNCHANGED <<deriving, dropped>>
    BY <2>3 DEF SaveKeyExchangeBundle, StartRun
  <2> QED
    BY <1>2, <1>4, <2>1, <2>2, <2>3 DEF ByClient
<1>5. ASSUME NEW q, ValidateRules(q) \/ Serve(q) PROVE UNCHANGED <<deriving, dropped>>
  BY <1>5 DEF ValidateRules, Serve, page
<1>6. UNCHANGED vars => UNCHANGED <<deriving, dropped>>
  BY DEF vars, page
<1>7. Goal
  <2> HIDE DEF Goal
  <2> QED
    BY <1>2, <1>3, <1>4, <1>5, <1>6 DEF Next, ByServer
<1> QED
  BY <1>7

-----------------------------------------------------------------------------
(* The parts of the invariant.                                             *)

(* Without a second init the key exchange manager and the facade share one  *)
(* profile manager.                                                         *)
LEMMA OnePageStep ==
  ASSUME TypeInv, KeysInv, [Next]_vars, inits' = 0
  PROVE  OnePage'
<1>1. /\ storage = [x \in Users |-> storage[x]] /\ managers = [x \in Users |-> managers[x]] /\ OnePage
  BY DEF TypeInv, PagesOK, KeysInv
<1>2. ASSUME UNCHANGED <<storage, managers>> PROVE OnePage'
  BY <1>1, <1>2 DEF OnePage
<1>3. ASSUME NEW u \in Users, NEW p, p # NoProfile,
             managers' = [managers EXCEPT ![u] = <<[profile |-> p, object |-> 1]>>],
             storage' = [storage EXCEPT ![u] = p]
      PROVE  OnePage'
  BY <1>1, <1>3 DEF OnePage
<1>4. ASSUME NEW u \in Users, managers' = [managers EXCEPT ![u] = <<>>],
             \A v \in Users \ {u} : storage'[v] = storage[v]
      PROVE  OnePage'
  BY <1>1, <1>4 DEF OnePage
<1>5. ASSUME NEW u \in Users, NEW q, EditOf(u, q) PROVE OnePage'
  <2>1. q # NoProfile
    BY <1>5, ExchangeAssumption DEF EditOf
  <2> QED
    BY <2>1, <1>3, <1>5 DEF EditOf
<1>6. ASSUME NEW u \in Users, ByUser(u) PROVE OnePage'
  <2>1. CASE InitFromStorage(u)
    <3>1. managers[u] = <<>> /\ storage[u] # NoProfile /\ Install(u, <<>>, storage[u]) /\ UNCHANGED storage
      BY <2>1, FirstInit DEF InitFromStorage, CanLoadProfile
    <3>2. storage' = [storage EXCEPT ![u] = storage[u]]
      BY <3>1, <1>1
    <3> QED
      BY <3>1, <3>2, InstallFirst, <1>3
  <2>2. CASE InitNewProfile(u)
    <3> DEFINE p == NewProfile(u, "root", "leaves", generateKeyPair(Fresh(u)), u)
    <3>1. managers[u] = <<>> /\ Install(u, <<>>, p) /\ storage' = [storage EXCEPT ![u] = p]
      BY <2>2, FirstInit DEF InitNewProfile
    <3>2. generateKeyPair(Fresh(u)) \in KeySets
      BY DEF generateKeyPair, Fresh, KeySets, TypeInv, BoundsOK
    <3>3. p # NoProfile
      BY <3>2, NewProfileFacts, ExchangeAssumption
    <3> HIDE DEF p
    <3> QED
      BY <3>1, <3>3, InstallFirst, <1>3
  <2>3. CASE Reload(u)
    BY <2>3, <1>4 DEF Reload, Close
  <2>4. CASE LoseBrowser(u)
    BY <2>4, <1>1, <1>4 DEF LoseBrowser, Close
  <2>5. CASE ExportToFile(u)
    BY <2>5, <1>2 DEF ExportToFile, page
  <2>6. CASE RecoverFromFile(u)
    <3> DEFINE recovered == [i \in DOMAIN managers[u] |->
           IF i = Last(u) THEN [profile |-> file[u], object |-> managers[u][i].object + 1]
           ELSE managers[u][i]]
    <3>1. managers[u] = <<>> /\ file[u] # NoProfile /\ Install(u, recovered, file[u])
          /\ storage' = [storage EXCEPT ![u] = file[u]]
      BY <2>6, FirstInit DEF RecoverFromFile
    <3>2. DOMAIN managers[u] = {}
      BY <3>1
    <3>3. recovered = <<>>
      BY <3>2
    <3> HIDE DEF recovered
    <3> QED
      BY <3>1, <3>3, InstallFirst, <1>3
  <2>7. ASSUME NEW k \in PublicKeys, CreateDirectRoom(u, k) PROVE OnePage'
    BY <2>7, CreateRoomStep, <1>5 DEF CreatesRoom
  <2> QED
    BY <1>6, <2>1, <2>2, <2>3, <2>4, <2>5, <2>6, <2>7 DEF ByUser
<1>7. ASSUME NEW u \in Users, ByClient(u) PROVE OnePage'
  <2>1. ASSUME NEW d \in deriving[u], EndDerivation(u, d) PROVE OnePage'
    BY <2>1, EndDerivationStep, <1>5 DEF KeysRoom
  <2>2. ASSUME NEW x, SaveKeyExchangeBundle(u, x) \/ StartRun(u, x) \/ FetchBundles(u, x) PROVE OnePage'
    BY <2>2, <1>2 DEF SaveKeyExchangeBundle, StartRun, FetchBundles
  <2> QED
    BY <1>7, <2>1, <2>2 DEF ByClient
<1>8. ASSUME NEW q, ValidateRules(q) \/ Serve(q) PROVE OnePage'
  BY <1>8, <1>2 DEF ValidateRules, Serve, page
<1>9. UNCHANGED vars => UNCHANGED <<storage, managers>>
  BY DEF vars, page
<1> QED
  BY <1>2, <1>6, <1>7, <1>8, <1>9 DEF Next, ByServer

\* What an edit keeps of a profile.
LEMMA EditFacts ==
  ASSUME TypeInv, NEW u \in Users, NEW q, EditOf(u, q)
  PROVE  /\ storage'[u] = q /\ file'[u] = file[u] /\ q # NoProfile /\ storage[u] # NoProfile
         /\ OwnKey(q) = OwnKey(storage[u]) /\ Kept(u) = storage[u]
<1>1. q # NoProfile /\ storage[u] # NoProfile
  BY ExchangeAssumption DEF EditOf
<1> QED
  BY <1>1 DEF EditOf, SameOwner, Kept, TypeInv, PagesOK

\* A new room, with its fresh number and a recipient who had none, and a room
\* that gets its key leave the rooms of a profile different from each other.
LEMMA AddingOwner ==
  ASSUME TypeInv, TypeInv', NEW u \in Users, NEW q, NEW room, CreatesRoom(u, q, room),
         ProfileOf(storage[u], u, made), [Next]_vars
  PROVE  ProfileOf(q, u, made')
<1>1. \A v \in Users : made[v] \in Nat /\ made'[v] \in Nat /\ made[v] <= made'[v]
  BY Growth
<1>2. ProfileOf(storage[u], u, made')
  BY <1>1, ProfileGrows
<1>3. made'[u] = made[u] + 1
  BY DEF CreatesRoom, TypeInv, BoundsOK
<1>4. RoomOf(room, u, made')
  <2>1. Number(room.id, u, made')
    BY <1>1, <1>3 DEF CreatesRoom, Fresh, Number
  <2>2. room.dh # NoKey
    BY DEF CreatesRoom, NoKey
  <2>3. Known(room.recipient_public_key, made')
    BY <1>1, KeyGrows DEF CreatesRoom
  <2> QED
    BY <2>1, <2>2, <2>3 DEF RoomOf
<1>5. DirectRooms(q) = DirectRooms(storage[u]) \cup {room}
  BY DEF CreatesRoom, Adding
<1>6. ASSUME NEW s \in DirectRooms(storage[u])
      PROVE  s.id # room.id /\ s.recipient_public_key # room.recipient_public_key
  <2>1. Number(s.id, u, made)
    BY DEF ProfileOf, RoomOf
  <2>2. PICK n \in 1..made[u] : s.id = <<u, n>>
    BY <2>1 DEF Number
  <2>3. n # made[u] + 1
    BY <1>1
  <2>4. s.id # room.id
    BY <2>2, <2>3 DEF CreatesRoom, Fresh
  <2> QED
    BY <2>4 DEF CreatesRoom, Adding
<1>7. Distinct(DirectRooms(q))
  BY <1>2, <1>5, <1>6 DEF ProfileOf, Distinct
<1>8. SameOwner(storage[u], q)
  BY DEF CreatesRoom, EditOf
<1> QED
  BY <1>2, <1>4, <1>5, <1>7, <1>8 DEF ProfileOf, SameOwner

(* Deriving a key does not change whose profile it is.                      *)
LEMMA KeyingOwner ==
  ASSUME NEW p, NEW q, NEW t, NEW k, NEW dh, NEW u, NEW m,
         SameOwner(p, q), Keying(p, q, t, k, dh), ProfileOf(p, u, m)
  PROVE  ProfileOf(q, u, m)
<1>1. RoomOf(t, u, m) /\ Distinct(DirectRooms(p))
  BY DEF Keying, ProfileOf
<1>2. RoomOf(k, u, m)
  BY <1>1 DEF Keying, SameRoom, RoomOf
<1>3. Distinct(DirectRooms(q))
  BY <1>1 DEF Keying, SameRoom, Distinct
<1> QED
  BY <1>2, <1>3 DEF Keying, ProfileOf, SameOwner

(* A profile stays with the user and the browser generation that made it.   *)
LEMMA OwnersStep ==
  ASSUME TypeInv, TypeInv', KeysInv, [Next]_vars, inits' = 0
  PROVE  Owners'
<1>1. \A v \in Users : made[v] \in Nat /\ made'[v] \in Nat /\ made[v] <= made'[v]
  BY Growth
<1>2. ASSUME NEW u \in Users, NEW p \in {storage[u], file[u]}, p # NoProfile
      PROVE  ProfileOf(p, u, made) /\ ProfileOf(p, u, made')
  <2>1. ProfileOf(p, u, made)
    BY <1>2 DEF KeysInv, Owners
  <2> QED
    BY <2>1, <1>1, ProfileGrows
<1>3. ASSUME NEW u \in Users, NEW p \in {storage'[u], file'[u]}, p # NoProfile
      PROVE  ProfileOf(p, u, made')
  <2>1. CASE SameProfiles(u) \/ Restores(u) \/ Loses(u) \/ Exports(u)
    BY <2>1, <1>2, <1>3 DEF SameProfiles, Restores, Loses, Exports
  <2>2. ASSUME NEW n, StartsAnew(u, n) PROVE ProfileOf(p, u, made')
    <3>1. CASE p = file[u]
      BY <3>1, <1>2, <1>3
    <3>2. CASE p = n
      <4>1. OwnKey(n) = {<<u, made'[u]>>} /\ made'[u] \in 1..made'[u]
        BY <2>2, <1>1 DEF StartsAnew, NewProfileOf, Fresh
      <4>2. KeyOf(OwnKey(n), u, made')
        BY <4>1 DEF KeyOf
      <4> QED
        BY <4>2, <3>2, <2>2 DEF ProfileOf, StartsAnew, NewProfileOf, Distinct
    <3> QED
      BY <3>1, <3>2, <2>2, <1>3 DEF StartsAnew
  <2>3. CASE Creates(u)
    <3>1. PICK q, room : CreatesRoom(u, q, room)
      BY <2>3 DEF Creates
    <3>2. p \in {q, file[u]} /\ ProfileOf(storage[u], u, made)
      BY <3>1, <1>2, <1>3, EditFacts DEF CreatesRoom
    <3> QED
      BY <3>1, <3>2, <1>2, <1>3, AddingOwner
  <2>4. CASE Keys(u)
    <3>1. PICK d, q, t, k : d \in deriving[u] /\ KeysRoom(u, d, q, t, k)
      BY <2>4 DEF Keys
    <3>2. p \in {q, file[u]} /\ ProfileOf(storage[u], u, made')
      BY <3>1, <1>2, <1>3, EditFacts DEF KeysRoom
    <3>3. ProfileOf(q, u, made')
      BY <3>1, <3>2, KeyingOwner DEF KeysRoom, EditOf
    <3> QED
      BY <3>2, <3>3, <1>2, <1>3
  <2> QED
    BY <2>1, <2>2, <2>3, <2>4, ProfileSteps DEF ProfileStep
<1> QED
  BY <1>3 DEF Owners

\* The new bundle goes from a user to the recipient of the room.
LEMMA NewBundleFacts ==
  ASSUME KeysInv, TypeInv, NEW u \in Users, NEW q, NEW room, CreatesRoom(u, q, room),
         NEW b, b = NewBundle(u, room)
  PROVE  /\ SenderOf(b) = OwnKey(storage[u]) /\ ReceiverOf(b) = room.recipient_public_key
         /\ DhOf(b) = room.dh /\ KeyOf(SenderOf(b), u, made) /\ Known(ReceiverOf(b), made)
<1>1. SenderOf(b) = OwnKey(storage[u]) /\ ReceiverOf(b) = room.recipient_public_key /\ DhOf(b) = room.dh
  BY BundleFacts DEF NewBundle, BundleOf
<1>2. ProfileOf(storage[u], u, made)
  <2>1. storage[u] # NoProfile
    BY EditFacts DEF CreatesRoom
  <2> QED
    BY <2>1 DEF KeysInv, Owners
<1> QED
  BY <1>1, <1>2 DEF ProfileOf, CreatesRoom

(* The numbers in bundles and rooms are of key pairs that were generated.   *)
LEMMA SentKnownStep ==
  ASSUME TypeInv, TypeInv', KeysInv, [Next]_vars, inits' = 0
  PROVE  SentKnown'
<1>1. ASSUME NEW b \in Sent' PROVE Known(SenderOf(b), made) /\ Known(ReceiverOf(b), made)
  <2>1. CASE b \in Sent
    BY <2>1 DEF KeysInv, SentKnown
  <2>2. ASSUME NEW u \in Users, NEW q, NEW room, CreatesRoom(u, q, room), b = NewBundle(u, room)
        PROVE  Known(SenderOf(b), made) /\ Known(ReceiverOf(b), made)
    BY <2>2, NewBundleFacts DEF Known
  <2> QED
    BY <2>1, <2>2, SentStep
<1>2. ASSUME NEW b \in Sent' PROVE Known(SenderOf(b), made') /\ Known(ReceiverOf(b), made')
  BY <1>1, Growth, KeyGrows
<1> QED
  BY <1>2 DEF SentKnown

\* Rooms stay, with their recipients and their own keys; a key they have
\* derived is one of the same partner.
Keeps(p, q) == \A s \in DirectRooms(p) : \E t \in DirectRooms(q) :
  SameRoom(s, t) /\ (HasKey(s) => HasKey(t))

(* Adding a room keeps the others with their keys.                          *)
LEMMA AddingKeeps == ASSUME NEW p, NEW q, NEW room, Adding(p, q, room) PROVE Keeps(p, q)
BY DEF Adding, Keeps, SameRoom

(* Deriving a key keeps the other rooms, and the keys they have.            *)
LEMMA KeyingKeeps ==
  ASSUME NEW p, NEW q, NEW t, NEW k, NEW dh, Keying(p, q, t, k, dh), t.dh # NoKey
  PROVE  Keeps(p, q)
<1>1. HasKey(k)
  BY DEF Keying, HasKey, NoKey
<1>2. ASSUME NEW s \in DirectRooms(p)
      PROVE  \E r \in DirectRooms(q) : SameRoom(s, r) /\ (HasKey(s) => HasKey(r))
  <2>1. CASE s = t
    BY <2>1, <1>1 DEF Keying
  <2>2. CASE s # t
    BY <2>2 DEF Keying, SameRoom
  <2> QED
    BY <2>1, <2>2
<1> QED
  BY <1>2 DEF Keeps

\* The profile u goes on with is the same, a new one, or an edit.
EditsKept(u, q) ==
  /\ EditOf(u, q) /\ Keeps(storage[u], q) /\ Kept(u) = storage[u] /\ storage[u] # NoProfile
  /\ OwnKey(q) = OwnKey(storage[u])

(* What is kept of a user grows by rooms and keys, or starts anew with a    *)
(* new profile.                                                             *)
LEMMA KeptStep ==
  ASSUME TypeInv, TypeInv', KeysInv, [Next]_vars, inits' = 0, NEW u \in Users, u \notin stale', NEW n, n = Kept(u)'
  PROVE  n = Kept(u) \/ StartsAnew(u, n) \/ EditsKept(u, n)
<1>1. n = IF storage'[u] = NoProfile THEN file'[u] ELSE storage'[u]
  BY DEF Kept
<1>2. CASE SameProfiles(u) \/ Restores(u) \/ Loses(u) \/ Exports(u)
  BY <1>1, <1>2 DEF SameProfiles, Restores, Loses, Exports, Kept
<1>3. ASSUME NEW p, StartsAnew(u, p) PROVE n = p
  BY <1>1, <1>3, ExchangeAssumption DEF StartsAnew, NewProfileOf
<1>4. ASSUME NEW q, EditOf(u, q), Keeps(storage[u], q) PROVE n = q /\ EditsKept(u, q)
  BY <1>1, <1>4, EditFacts DEF EditsKept
<1>5. CASE Creates(u)
  <2>1. PICK q, room : CreatesRoom(u, q, room)
    BY <1>5 DEF Creates
  <2>2. EditOf(u, q) /\ Keeps(storage[u], q)
    BY <2>1, AddingKeeps DEF CreatesRoom
  <2> QED
    BY <2>2, <1>4
<1>6. CASE Keys(u)
  <2>1. PICK d, q, t, k : d \in deriving[u] /\ KeysRoom(u, d, q, t, k)
    BY <1>6 DEF Keys
  <2>2. ProfileOf(storage[u], u, made) /\ t \in DirectRooms(storage[u])
    BY <2>1, EditFacts DEF KeysRoom, Keying, KeysInv, Owners
  <2>3. t.dh # NoKey
    BY <2>2 DEF ProfileOf, RoomOf
  <2>4. EditOf(u, q) /\ Keeps(storage[u], q)
    BY <2>1, <2>3, KeyingKeeps DEF KeysRoom
  <2> QED
    BY <2>4, <1>4
<1> QED
  BY <1>2, <1>3, <1>5, <1>6, ProfileSteps DEF ProfileStep

(* Every bundle was sent from a room its sender still has.                  *)
LEMMA SentFromRoomsStep ==
  ASSUME TypeInv, TypeInv', KeysInv, [Next]_vars, inits' = 0, Owners'
  PROVE  SentFromRooms'
<1>1. stale \subseteq stale' /\ \A v \in Users : made[v] \in Nat /\ made'[v] \in Nat /\ made[v] <= made'[v]
  BY Growth
<1>2. ASSUME NEW u \in Users, u \notin stale', NEW n, n = Kept(u)', n # NoProfile,
             NEW b \in Sent', SenderOf(b) = OwnKey(n)
      PROVE  HasRoomFor(n, b)
  <2>1. ProfileOf(n, u, made')
    BY <1>2 DEF Kept, Owners
  <2>2. KeyOf(SenderOf(b), u, made')
    BY <2>1, <1>2 DEF ProfileOf
  <2>3. ASSUME NEW w \in Users, NEW q, NEW room, CreatesRoom(w, q, room), b = NewBundle(w, room)
        PROVE  HasRoomFor(n, b)
    <3>1. /\ ReceiverOf(b) = room.recipient_public_key /\ DhOf(b) = room.dh
          /\ KeyOf(SenderOf(b), w, made)
      BY <2>3, NewBundleFacts
    <3>2. KeyOf(SenderOf(b), w, made')
      BY <3>1, <1>1, KeyGrows
    <3>3. u = w
      BY <3>2, <2>2, <1>1, KeyFacts
    <3>4. n = q
      BY <3>3, <2>3, <1>2, EditFacts DEF Kept, CreatesRoom
    <3> QED
      BY <3>1, <3>4, <2>3 DEF HasRoomFor, CreatesRoom, Adding
  <2>4. CASE b \in Sent
    <3>1. Known(SenderOf(b), made)
      BY <2>4 DEF KeysInv, SentKnown
    <3>2. CASE n = Kept(u)
      BY <3>2, <2>4, <1>1, <1>2 DEF KeysInv, SentFromRooms
    <3>3. CASE StartsAnew(u, n)
      <4>1. OwnKey(n) = {<<u, made[u] + 1>>}
        BY <3>3 DEF StartsAnew, NewProfileOf, Fresh
      <4>2. PICK v \in Users : KeyOf(SenderOf(b), v, made)
        BY <3>1 DEF Known
      <4> QED
        BY <4>1, <4>2, <1>1, <1>2, KeyFacts
    <3>4. CASE EditsKept(u, n)
      <4>1. SenderOf(b) = OwnKey(Kept(u)) /\ Kept(u) # NoProfile /\ Kept(u) = storage[u]
        BY <3>4, <1>2 DEF EditsKept
      <4>2. HasRoomFor(storage[u], b)
        BY <4>1, <2>4, <1>1, <1>2 DEF KeysInv, SentFromRooms
      <4> QED
        BY <4>2, <3>4 DEF HasRoomFor, EditsKept, Keeps, SameRoom
    <3> QED
      BY <3>2, <3>3, <3>4, <1>2, KeptStep
  <2> QED
    BY <2>3, <2>4, SentStep
<1> QED
  BY <1>2 DEF SentFromRooms

(* A number is in one room of one user only.                                *)
LEMMA OneKeyEachStep ==
  ASSUME TypeInv, TypeInv', KeysInv, [Next]_vars, inits' = 0
  PROVE  OneKeyEach'
<1>1. stale \subseteq stale' /\ \A v \in Users : made[v] \in Nat
  BY Growth
<1>2. ASSUME NEW v \in Users, v \notin stale', NEW b, NEW u \in Users, NEW q, NEW room,
             CreatesRoom(u, q, room), b = NewBundle(u, room),
             NEW c \in Sent, OwnedBy(SenderOf(c), v), SenderOf(b) = SenderOf(c), ReceiverOf(b) = ReceiverOf(c)
      PROVE  FALSE
  <2>1. /\ SenderOf(b) = OwnKey(storage[u]) /\ ReceiverOf(b) = room.recipient_public_key
        /\ KeyOf(SenderOf(b), u, made)
    BY <1>2, NewBundleFacts
  <2>2. u = v
    BY <2>1, <1>1, <1>2, KeyFacts
  <2>3. Kept(u) = storage[u] /\ storage[u] # NoProfile
    BY <1>2, EditFacts DEF CreatesRoom
  <2>4. HasRoomFor(storage[u], c)
    BY <2>1, <2>2, <2>3, <1>1, <1>2 DEF KeysInv, SentFromRooms
  <2> QED
    BY <2>1, <2>4, <1>2 DEF HasRoomFor, CreatesRoom, Adding
<1>3. ASSUME NEW v \in Users, v \notin stale', NEW b \in Sent', NEW c \in Sent',
             OwnedBy(SenderOf(b), v), SenderOf(b) = SenderOf(c), ReceiverOf(b) = ReceiverOf(c)
      PROVE  DhOf(b) = DhOf(c)
  <2>1. OwnedBy(SenderOf(c), v)
    BY <1>3
  <2>2. CASE b \in Sent /\ c \in Sent
    BY <2>2, <1>1, <1>3 DEF KeysInv, OneKeyEach
  <2>3. CASE b \in Sent /\ c \notin Sent
    BY <2>1, <2>3, <1>2, <1>3, SentStep
  <2>4. CASE b \notin Sent /\ c \in Sent
    BY <2>1, <2>4, <1>2, <1>3, SentStep
  <2>5. CASE b \notin Sent /\ c \notin Sent
    <3>1. PICK u, q, room : u \in Users /\ CreatesRoom(u, q, room) /\ b = NewBundle(u, room)
      BY <2>5, SentStep
    <3>2. PICK w, q2, room2 : w \in Users /\ CreatesRoom(w, q2, room2) /\ c = NewBundle(w, room2)
      BY <2>5, SentStep
    <3>3. KeyOf(SenderOf(b), u, made) /\ KeyOf(SenderOf(c), w, made) /\ DhOf(b) = room.dh /\ DhOf(c) = room2.dh
      BY <3>1, <3>2, NewBundleFacts
    <3>4. u = w
      BY <3>1, <3>2, <3>3, <1>1, <1>3, KeyFacts
    <3> QED
      BY <3>1, <3>2, <3>3, <3>4 DEF CreatesRoom
  <2> QED
    BY <2>2, <2>3, <2>4, <2>5
<1> QED
  BY <1>3 DEF OneKeyEach

(* A key comes from the own number and that of a bundle addressed to the    *)
(* room.                                                                    *)
LEMMA KeysFromBundlesStep ==
  ASSUME TypeInv, TypeInv', KeysInv, [Next]_vars, inits' = 0
  PROVE  KeysFromBundles'
<1>1. ASSUME NEW u \in Users, NEW p \in {storage[u], file[u]}, NEW s \in DirectRooms(p), HasKey(s)
      PROVE  Justified(s, p, posted')
  <2>1. Justified(s, p, posted)
    BY <1>1 DEF KeysInv, KeysFromBundles
  <2>2. posted \subseteq posted'
    BY Growth
  <2> QED
    BY <2>1, <2>2 DEF Justified
<1>2. ASSUME NEW s, NEW p, NEW q, Justified(s, p, posted'), OwnKey(q) = OwnKey(p) PROVE Justified(s, q, posted')
  BY <1>2 DEF Justified, From
<1>3. ASSUME NEW u \in Users, NEW p \in {storage'[u], file'[u]}, NEW s \in DirectRooms(p), HasKey(s)
      PROVE  Justified(s, p, posted')
  <2>1. CASE p \in {storage[u], file[u]}
    BY <2>1, <1>1, <1>3
  <2>2. CASE SameProfiles(u) \/ Restores(u) \/ Exports(u)
    BY <2>1, <2>2, <1>3 DEF SameProfiles, Restores, Exports
  <2>3. CASE Loses(u)
    BY <2>1, <2>3, <1>3, DirectFacts DEF Loses
  <2>4. ASSUME NEW n, StartsAnew(u, n) PROVE Justified(s, p, posted')
    BY <2>1, <2>4, <1>3 DEF StartsAnew, NewProfileOf
  <2>5. CASE Creates(u)
    <3>1. PICK q, room : CreatesRoom(u, q, room)
      BY <2>5 DEF Creates
    <3>2. p \in {q, file[u]} /\ OwnKey(q) = OwnKey(storage[u])
      BY <3>1, <1>3, EditFacts DEF CreatesRoom
    <3>3. p = q => s \in DirectRooms(storage[u])
      BY <3>1, <1>3 DEF CreatesRoom, Adding
    <3>4. p = q => Justified(s, storage[u], posted')
      BY <3>3, <1>1, <1>3
    <3> QED
      BY <3>2, <3>4, <2>1, <1>2
  <2>6. CASE Keys(u)
    <3>1. PICK d, q, t, k : d \in deriving[u] /\ KeysRoom(u, d, q, t, k)
      BY <2>6 DEF Keys
    <3>2. p \in {q, file[u]} /\ OwnKey(q) = OwnKey(storage[u])
      BY <3>1, <1>3, EditFacts DEF KeysRoom
    <3>3. CASE p = q /\ s # k
      <4>1. s \in DirectRooms(storage[u])
        BY <3>1, <3>3, <1>3 DEF KeysRoom, Keying
      <4>2. Justified(s, storage[u], posted')
        BY <4>1, <1>1, <1>3
      <4> QED
        BY <4>2, <3>2, <3>3, <1>2
    <3>4. CASE p = q /\ s = k
      <4>1. d.dh \in KeySets
        BY <3>1 DEF TypeInv, ClientOK, Calls
      <4>2. PICK b \in posted : From(b, d.room.recipient_public_key, storage[u], d.dh)
        BY <3>1 DEF KeysInv, CallsCurrent, CallCurrent
      <4>3. b \in posted'
        BY Growth
      <4>4. s.recipient_public_key = d.room.recipient_public_key /\ s.symmetric_key = s.dh \cup d.dh
        BY <3>1, <3>4 DEF KeysRoom, Keying, SameRoom
      <4>5. Justified(s, storage[u], posted')
        BY <4>1, <4>2, <4>3, <4>4 DEF Justified
      <4> QED
        BY <4>5, <3>2, <3>4, <1>2
    <3> QED
      BY <3>2, <3>3, <3>4, <2>1
  <2> QED
    BY <2>2, <2>3, <2>4, <2>5, <2>6, ProfileSteps DEF ProfileStep
<1> QED
  BY <1>3 DEF KeysFromBundles

\* A room that is listed stays so when the profile is edited.
LEMMA ListedKept ==
  ASSUME NEW p, NEW q, Keeps(p, q)
  PROVE  \A s : Listed(s, p) => Listed(s, q)
BY DEF Keeps, Listed, SameRoom

\* An edit, with what it keeps.
LEMMA EditKeeps ==
  ASSUME TypeInv, KeysInv, NEW u \in Users, Creates(u) \/ Keys(u)
  PROVE  \E q : /\ EditsKept(u, q) /\ storage'[u] = q /\ run'[u] = run[u]
                /\ deriving'[u] \subseteq deriving[u]
<1>1. CASE Creates(u)
  <2>1. PICK q, room : CreatesRoom(u, q, room)
    BY <1>1 DEF Creates
  <2>2. EditOf(u, q) /\ Keeps(storage[u], q) /\ UNCHANGED <<run, deriving>>
    BY <2>1, AddingKeeps DEF CreatesRoom
  <2> QED
    BY <2>2, EditFacts DEF EditsKept
<1>2. CASE Keys(u)
  <2>1. PICK d, q, t, k : d \in deriving[u] /\ KeysRoom(u, d, q, t, k)
    BY <1>2 DEF Keys
  <2>2. ProfileOf(storage[u], u, made) /\ t \in DirectRooms(storage[u])
    BY <2>1, EditFacts DEF KeysRoom, Keying, KeysInv, Owners
  <2>3. t.dh # NoKey
    BY <2>2 DEF ProfileOf, RoomOf
  <2>4. EditOf(u, q) /\ Keeps(storage[u], q)
    BY <2>1, <2>3, KeyingKeeps DEF KeysRoom
  <2>5. UNCHANGED run /\ deriving'[u] \subseteq deriving[u]
    BY <2>1 DEF KeysRoom, TypeInv, ClientOK
  <2> QED
    BY <2>4, <2>5, EditFacts DEF EditsKept
<1> QED
  BY <1>1, <1>2

(* The rooms of a run that is under way are rooms of the page.              *)
LEMMA RunsCurrentStep ==
  ASSUME TypeInv, TypeInv', KeysInv, [Next]_vars, inits' = 0
  PROVE  RunsCurrent'
<1>1. ASSUME NEW u \in Users, NEW r \in Runs[u] PROVE RunCurrent(run'[u][r], storage'[u])
  <2>1. RunCurrent(run[u][r], storage[u])
    BY DEF KeysInv, RunsCurrent
  <2>2. managers[u] = <<>> => run[u][r].pc = "idle"
    BY DEF TypeInv, ClosedIdle
  <2>3. ASSUME NEW s, s.pc = "idle" PROVE RunCurrent(s, storage'[u])
    BY <2>3 DEF RunCurrent
  <2>4. CASE SameProfiles(u)
    <3>1. CASE run'[u][r] = run[u][r]
      BY <3>1, <2>1, <2>4 DEF SameProfiles
    <3>2. CASE Started(u, run'[u][r])
      <4>1. \A s \in DirectRooms(storage[u]) : Listed(s, storage[u])
        BY DEF Listed, SameRoom
      <4> QED
        BY <4>1, <3>2, <2>4 DEF SameProfiles, Started, RunCurrent
    <3> QED
      BY <3>1, <3>2, <2>3, RunStep
  <2>5. CASE (\E p : StartsAnew(u, p)) \/ Restores(u)
    BY <2>2, <2>3, <2>5 DEF StartsAnew, Restores, Idly
  <2>6. CASE Loses(u)
    <3>1. run'[u][r].pc = "idle"
      BY <2>6 DEF Loses, TypeInv, ClosedIdle
    <3> QED
      BY <3>1, <2>3
  <2>7. CASE Exports(u)
    BY <2>1, <2>7 DEF Exports
  <2>8. CASE Creates(u) \/ Keys(u)
    <3>1. PICK q : EditsKept(u, q) /\ storage'[u] = q /\ run'[u] = run[u]
      BY <2>8, EditKeeps
    <3> QED
      BY <3>1, <2>1, ListedKept DEF EditsKept, RunCurrent
  <2> QED
    BY <2>4, <2>5, <2>6, <2>7, <2>8, ProfileSteps DEF ProfileStep
<1> QED
  BY <1>1 DEF RunsCurrent

\* What a run fetches is for its user, and from the recipients of rooms.
LEMMA FetchedFacts ==
  ASSUME TypeInv, KeysInv, NEW u \in Users, NEW r \in Runs[u], FetchBundles(u, r)
  PROVE  /\ \A d \in Fetched(u, r) : CallCurrent(d, storage[u], posted)
         /\ \A b \in Used(u, r) :
              /\ b \in posted /\ ReceiverOf(b) = OwnKey(storage[u])
              /\ \E d \in Fetched(u, r) : SenderOf(b) = d.room.recipient_public_key
         /\ managers[u] # <<>> /\ UNCHANGED <<storage, file>>
<1>1. RunCurrent(run[u][r], storage[u]) /\ run[u][r].pc = "fetch"
  BY DEF KeysInv, RunsCurrent, FetchBundles
<1>2. /\ run[u][r].object = 1 /\ run[u][r].own = OwnKey(storage[u])
      /\ \A t \in run[u][r].rooms : Listed(t, storage[u])
  BY <1>1 DEF RunCurrent
<1> DEFINE use == {m \in Matches(run[u][r].rooms, run[u][r].own) : Usable(m, run[u][r].own)}
           call(m) == [room |-> m.room, object |-> run[u][r].object,
                       dh |-> Opened(m.bundle, run[u][r].own).dh_public_key]
<1>3. ASSUME NEW m \in use
      PROVE  /\ m.bundle \in posted /\ ReceiverOf(m.bundle) = OwnKey(storage[u])
             /\ SenderOf(m.bundle) = m.room.recipient_public_key
             /\ CallCurrent(call(m), storage[u], posted)
  <2>1. m.room \in run[u][r].rooms /\ m.bundle \in bundles /\ m.bundle.receiver_public_key = run[u][r].own
    BY DEF Matches
  <2>2. m.bundle \in posted /\ ReceiverOf(m.bundle) = OwnKey(storage[u])
    BY <2>1, <1>2 DEF ReceiverOf, TypeInv, ServerOK
  <2>3. SenderOf(m.bundle) = m.room.recipient_public_key /\ DhOf(m.bundle) = call(m).dh
    BY <2>1 DEF SenderOf, DhOf, Usable
  <2>4. call(m).object = 1 /\ call(m).room = m.room /\ Listed(m.room, storage[u])
    BY <2>1, <1>2
  <2>5. From(m.bundle, m.room.recipient_public_key, storage[u], call(m).dh)
    BY <2>2, <2>3 DEF From
  <2> HIDE DEF call, use
  <2> QED
    BY <2>2, <2>3, <2>4, <2>5 DEF CallCurrent
<1>4. \A d \in Fetched(u, r) : \E m \in use : d = call(m)
  BY DEF Fetched
<1>5. \A m \in use : call(m) \in Fetched(u, r) /\ call(m).room = m.room
  BY DEF Fetched
<1>6. \A b \in Used(u, r) : \E m \in use : b = m.bundle
  BY DEF Used, UsedBundles
<1>7. managers[u] # <<>>
  BY <1>1 DEF TypeInv, ClosedIdle
<1>8. UNCHANGED <<storage, file>>
  BY DEF FetchBundles
<1> HIDE DEF call, use
<1>9. ASSUME NEW b \in Used(u, r)
      PROVE  /\ b \in posted /\ ReceiverOf(b) = OwnKey(storage[u])
             /\ \E d \in Fetched(u, r) : SenderOf(b) = d.room.recipient_public_key
  BY <1>3, <1>5, <1>6
<1>10. \A d \in Fetched(u, r) : CallCurrent(d, storage[u], posted)
  BY <1>3, <1>4
<1> QED
  BY <1>7, <1>8, <1>9, <1>10

(* A derivation or posting under way is of a room of the page.              *)
LEMMA CallsCurrentStep ==
  ASSUME TypeInv, TypeInv', KeysInv, [Next]_vars, inits' = 0
  PROVE  CallsCurrent'
<1>1. posted \subseteq posted'
  BY Growth
<1>2. ASSUME NEW d, NEW p, NEW q, CallCurrent(d, p, posted), OwnKey(q) = OwnKey(p), Listed(d.room, q)
      PROVE  CallCurrent(d, q, posted')
  BY <1>1, <1>2 DEF CallCurrent, From
<1>3. ASSUME NEW u \in Users, NEW d \in deriving'[u] PROVE CallCurrent(d, storage'[u], posted')
  <2>1. ASSUME d \in deriving[u]
        PROVE  CallCurrent(d, storage[u], posted) /\ Listed(d.room, storage[u]) /\ managers[u] # <<>>
    BY <2>1 DEF KeysInv, CallsCurrent, CallCurrent, TypeInv, ClosedIdle
  <2>2. CASE SameProfiles(u) /\ d \in deriving[u]
    BY <2>1, <2>2, <1>2 DEF SameProfiles
  <2>3. CASE d \notin deriving[u]
    <3>1. PICK r \in Runs[u] : FetchBundles(u, r) /\ d \in Fetched(u, r)
      BY <2>3, <1>3, CallStep
    <3>2. CallCurrent(d, storage[u], posted) /\ UNCHANGED storage
      BY <3>1, FetchedFacts
    <3>3. Listed(d.room, storage[u])
      BY <3>2 DEF CallCurrent
    <3> QED
      BY <3>2, <3>3, <1>2
  <2>4. CASE (\E p : StartsAnew(u, p)) \/ Restores(u)
    BY <2>1, <2>4, <1>3 DEF StartsAnew, Restores, Idly
  <2>5. CASE Loses(u)
    BY <2>5, <1>3 DEF Loses, TypeInv, ClosedIdle
  <2>6. CASE Exports(u)
    BY <2>1, <2>6, <1>2, <1>3 DEF Exports
  <2>7. CASE Creates(u) \/ Keys(u)
    <3>1. PICK q : EditsKept(u, q) /\ storage'[u] = q /\ deriving'[u] \subseteq deriving[u]
      BY <2>7, EditKeeps
    <3>2. OwnKey(q) = OwnKey(storage[u]) /\ Listed(d.room, q)
      BY <3>1, <2>1, <1>3, ListedKept DEF EditsKept
    <3> QED
      BY <3>1, <3>2, <2>1, <1>2, <1>3
  <2> QED
    BY <2>2, <2>3, <2>4, <2>5, <2>6, <2>7, ProfileSteps DEF ProfileStep
<1> QED
  BY <1>3 DEF CallsCurrent

(* Only bundles that were posted are taken.                                 *)
LEMMA TakenPostedStep ==
  ASSUME TypeInv, KeysInv, [Next]_vars
  PROVE  TakenPosted'
<1>1. ASSUME NEW b \in Taken' PROVE b \in posted
  <2>1. ASSUME NEW u \in Users, NEW r \in Runs[u], Takes(u, r), b \in Used(u, r) PROVE b \in posted
    BY <2>1, FetchedFacts DEF Takes
  <2> QED
    BY <2>1, TakenStep DEF KeysInv, TakenPosted
<1> QED
  BY <1>1, Growth DEF TakenPosted

(* A bundle that was taken gave its room a key, or is being derived, or was *)
(* dropped.                                                                 *)
LEMMA TakenUsedStep ==
  ASSUME TypeInv, TypeInv', KeysInv, [Next]_vars, inits' = 0, Owners'
  PROVE  TakenUsed'
<1>1. stale \subseteq stale' /\ \A v \in Users : made[v] \in Nat /\ made'[v] \in Nat /\ made[v] <= made'[v]
  BY Growth
<1>2. ASSUME NEW u \in Users, u \notin stale', NEW n, n = Kept(u)', n # NoProfile,
             NEW b \in Taken, ReceiverOf(b) = OwnKey(n)
      PROVE  UsedBy(b, n, deriving'[u], dropped'[u])
  <2>1. b \in Sent
    BY DEF KeysInv, TakenPosted, Sent
  <2>2. ASSUME Kept(u) # NoProfile, OwnKey(Kept(u)) = OwnKey(n)
        PROVE  UsedBy(b, Kept(u), deriving[u], dropped[u])
    BY <2>2, <1>1, <1>2 DEF KeysInv, TakenUsed
  <2>3. ASSUME NEW p, NEW q, Keeps(p, q), UsedBy(b, p, deriving[u], dropped[u]),
               deriving[u] \subseteq deriving'[u] \/ dropped'[u] = TRUE
        PROVE  UsedBy(b, q, deriving'[u], dropped'[u])
    <3>1. dropped[u] = TRUE => dropped'[u] = TRUE
      BY CallStep
    <3>2. PICK s \in DirectRooms(p) : s.recipient_public_key = SenderOf(b) /\
            (HasKey(s) \/ dropped[u] = TRUE \/ \E d \in deriving[u] : d.room.id = s.id)
      BY <2>3 DEF UsedBy
    <3>3. PICK t \in DirectRooms(q) : SameRoom(s, t) /\ (HasKey(s) => HasKey(t))
      BY <2>3 DEF Keeps
    <3>4. t.recipient_public_key = SenderOf(b) /\ t.id = s.id
      BY <3>2, <3>3 DEF SameRoom
    <3> QED
      BY <3>1, <3>2, <3>3, <3>4, <2>3 DEF UsedBy
  <2>4. CASE Keys(u)
    <3>1. PICK d, q, t, k : d \in deriving[u] /\ KeysRoom(u, d, q, t, k)
      BY <2>4 DEF Keys
    <3>2. /\ Kept(u) = storage[u] /\ storage[u] # NoProfile /\ OwnKey(q) = OwnKey(storage[u])
          /\ storage'[u] = q /\ q # NoProfile
      BY <3>1, EditFacts DEF KeysRoom
    <3>3. n = q
      BY <3>2, <1>2 DEF Kept
    <3>4. ProfileOf(storage[u], u, made) /\ t \in DirectRooms(storage[u])
      BY <3>1, <3>2 DEF KeysRoom, Keying, KeysInv, Owners
    <3>5. t.dh # NoKey /\ Distinct(DirectRooms(storage[u]))
      BY <3>4 DEF ProfileOf, RoomOf
    <3>6. Keeps(storage[u], q)
      BY <3>1, <3>5, KeyingKeeps DEF KeysRoom
    <3>7. PICK s \in DirectRooms(storage[u]) : s.recipient_public_key = SenderOf(b) /\
            (HasKey(s) \/ dropped[u] = TRUE \/ \E c \in deriving[u] : c.room.id = s.id)
      BY <3>2, <3>3, <2>2 DEF UsedBy
    <3>8. PICK r \in DirectRooms(q) : SameRoom(s, r) /\ (HasKey(s) => HasKey(r))
      BY <3>6 DEF Keeps
    <3>9. r.recipient_public_key = SenderOf(b) /\ r.id = s.id
      BY <3>7, <3>8 DEF SameRoom
    <3>10. CASE HasKey(s) \/ dropped[u] = TRUE
      BY <3>3, <3>8, <3>9, <3>10, CallStep DEF UsedBy
    <3>11. ASSUME NEW c \in deriving[u], c.room.id = s.id PROVE UsedBy(b, n, deriving'[u], dropped'[u])
      <4>1. CASE c = d
        <5>1. s.id = t.id
          BY <3>1, <3>11, <4>1 DEF KeysRoom, SameRoom
        <5>2. s = t
          BY <5>1, <3>4, <3>5 DEF Distinct
        <5>3. k \in DirectRooms(q) /\ k.recipient_public_key = SenderOf(b) /\ HasKey(k)
          BY <5>2, <3>1, <3>5, <3>7 DEF KeysRoom, Keying, SameRoom, HasKey, NoKey
        <5> QED
          BY <5>3, <3>3 DEF UsedBy
      <4>2. CASE c # d
        <5>1. c \in deriving'[u]
          BY <3>1, <4>2 DEF KeysRoom, TypeInv, ClientOK
        <5> QED
          BY <5>1, <3>3, <3>9, <3>11 DEF UsedBy
      <4> QED
        BY <4>1, <4>2
    <3> QED
      BY <3>7, <3>10, <3>11
  <2>5. CASE ~ Keys(u)
    <3>1. deriving[u] \subseteq deriving'[u] \/ dropped'[u] = TRUE
      BY <2>5, CallStep DEF Keys
    <3>2. CASE n = Kept(u)
      <4>1. Keeps(n, n)
        BY DEF Keeps, SameRoom
      <4> QED
        BY <4>1, <3>1, <3>2, <2>2, <2>3, <1>2
    <3>3. CASE StartsAnew(u, n)
      <4>1. OwnKey(n) = {<<u, made[u] + 1>>}
        BY <3>3 DEF StartsAnew, NewProfileOf, Fresh
      <4>2. PICK v \in Users : KeyOf(ReceiverOf(b), v, made)
        BY <2>1 DEF KeysInv, SentKnown, Known
      <4> QED
        BY <4>1, <4>2, <1>1, <1>2, KeyFacts
    <3>4. CASE EditsKept(u, n)
      <4>1. /\ Kept(u) = storage[u] /\ storage[u] # NoProfile /\ Keeps(storage[u], n)
            /\ OwnKey(n) = OwnKey(storage[u])
        BY <3>4 DEF EditsKept
      <4> QED
        BY <4>1, <3>1, <2>2, <2>3
    <3> QED
      BY <3>2, <3>3, <3>4, <1>2, KeptStep
  <2> QED
    BY <2>4, <2>5
<1>3. ASSUME NEW u \in Users, u \notin stale', NEW n, n = Kept(u)', n # NoProfile, NEW b,
             ReceiverOf(b) = OwnKey(n), NEW w \in Users, NEW r \in Runs[w], Takes(w, r), b \in Used(w, r)
      PROVE  UsedBy(b, n, deriving'[u], dropped'[u])
  <2>1. /\ ReceiverOf(b) = OwnKey(storage[w]) /\ managers[w] # <<>> /\ UNCHANGED <<storage, file>>
        /\ \A d \in Fetched(w, r) : CallCurrent(d, storage[w], posted)
    BY <1>3, FetchedFacts DEF Takes
  <2>2. PICK d \in Fetched(w, r) : SenderOf(b) = d.room.recipient_public_key
    BY <1>3, FetchedFacts DEF Takes
  <2>3. storage[w] # NoProfile
    BY <2>1, SyncedPage DEF KeysInv
  <2>4. KeyOf(OwnKey(storage[w]), w, made')
    BY <2>1, <2>3 DEF Owners, ProfileOf
  <2>5. KeyOf(OwnKey(n), u, made')
    BY <1>3 DEF Kept, Owners, ProfileOf
  <2>6. u = w
    BY <2>1, <2>4, <2>5, <1>1, <1>3, KeyFacts
  <2>7. n = storage[u]
    BY <2>1, <2>3, <2>6, <1>3 DEF Kept
  <2>8. PICK t \in DirectRooms(n) : SameRoom(d.room, t)
    BY <2>1, <2>6, <2>7 DEF CallCurrent, Listed
  <2>9. d \in deriving'[u]
    BY <2>6, <1>3 DEF Takes
  <2> QED
    BY <2>2, <2>8, <2>9 DEF UsedBy, SameRoom
<1>4. ASSUME NEW u \in Users, u \notin stale', NEW n, n = Kept(u)', n # NoProfile,
             NEW b \in Taken', ReceiverOf(b) = OwnKey(n)
      PROVE  UsedBy(b, n, deriving'[u], dropped'[u])
  BY <1>2, <1>3, <1>4, TakenStep
<1> QED
  BY <1>4 DEF TakenUsed

-----------------------------------------------------------------------------
(* The theorems.                                                           *)

\* The invariant: pages on which init is called once.
KeysInvariant == inits = 0 => KeysInv

\* The invariant holds when nothing has happened, and every step keeps it.
THEOREM KeysInductive ==
  /\ Init => TypeInv /\ KeysInvariant
  /\ TypeInv /\ KeysInvariant /\ [Next]_vars => TypeInv' /\ KeysInvariant'
<1>1. ASSUME Init PROVE KeysInv
  <2>1. posted = {} /\ bundles = {} /\ requests = {} /\ \A u \in Users : posting[u] = {}
    BY <1>1 DEF Init
  <2>2. Sent = {} /\ Taken = {}
    BY <2>1 DEF Sent, Taken, Content, Prepared
  <2>3. /\ \A u \in Users : /\ storage[u] = NoProfile /\ file[u] = NoProfile /\ managers[u] = <<>>
                            /\ deriving[u] = {} /\ \A r \in Runs[u] : run[u][r].pc = "idle"
    BY <1>1 DEF Init, Idle
  <2>4. OnePage /\ Owners /\ KeysFromBundles /\ CallsCurrent
    BY <2>3, DirectFacts DEF OnePage, Owners, KeysFromBundles, CallsCurrent
  <2>5. SentKnown /\ SentFromRooms /\ OneKeyEach /\ TakenUsed /\ TakenPosted
    BY <2>2 DEF SentKnown, SentFromRooms, OneKeyEach, TakenUsed, TakenPosted
  <2>6. RunsCurrent
    BY <2>3 DEF RunsCurrent, RunCurrent
  <2> QED
    BY <2>4, <2>5, <2>6 DEF KeysInv
<1>2. ASSUME TypeInv, KeysInvariant, [Next]_vars, inits' = 0 PROVE KeysInv'
  <2>1. KeysInv /\ TypeInv'
    BY <1>2, InitsZero, TypeInvInductive DEF KeysInvariant
  <2>2. Owners'
    BY <1>2, <2>1, OwnersStep
  <2> QED
    BY <1>2, <2>1, <2>2, OnePageStep, SentKnownStep, SentFromRoomsStep, OneKeyEachStep, KeysFromBundlesStep,
       RunsCurrentStep, CallsCurrentStep, TakenUsedStep, TakenPostedStep DEF KeysInv
<1> QED
  BY <1>1, <1>2, TypeInvInductive DEF KeysInvariant

\* The facade works on the profile in the storage ("continuously synced with
\* the profile stored in the selected storage provider", profile/index.ts).
THEOREM StorageSyncedHolds == Spec => []StorageSynced
<1>1. TypeInv /\ KeysInvariant => StorageSynced
  BY SyncedPage DEF KeysInvariant, KeysInv, StorageSynced
<1> QED
  BY KeysInductive, <1>1, PTL DEF Spec

\* The only room with an id is the one that is found (getRoomById).
LEMMA RoomFound ==
  ASSUME NEW p \in Profiles, p.rooms["public"] = {}, p.rooms["private"] = {},
         Distinct(DirectRooms(p)), NEW s \in DirectRooms(p)
  PROVE  RoomById(p, s.id).room = s
<1> DEFINE having(t) == {[type |-> t, room |-> r] : r \in {r \in p.rooms[t] : r.id = s.id}}
           found == [type |-> "direct", room |-> s]
<1>1. having("public") = {} /\ having("private") = {}
  OBVIOUS
<1>2. having("direct") = {found}
  <2>1. p.rooms["direct"] = DirectRooms(p)
    BY DirectFacts
  <2>2. \A r \in DirectRooms(p) : r.id = s.id <=> r = s
    BY DEF Distinct
  <2> QED
    BY <2>1, <2>2
<1>3. RoomsById(p, s.id) = {found}
  <2>1. RoomsById(p, s.id) = IF having("public") # {} THEN having("public")
          ELSE IF having("private") # {} THEN having("private") ELSE having("direct")
    BY DEF RoomsById
  <2> HIDE DEF having, found
  <2> QED
    BY <2>1, <1>1, <1>2
<1>4. RoomById(p, s.id) = found
  <2> HIDE DEF found
  <2> QED
    BY <1>3 DEF RoomById
<1> QED
  BY <1>4

\* The key of a room is made of the two that the partners have generated for
\* their rooms with each other.
LEMMA PartnersKey ==
  ASSUME TypeInv, KeysInv, NEW u \in Users \ stale, NEW v \in Users \ stale,
         managers[u] # <<>>, managers[v] # <<>>,
         NEW s \in DirectRooms(storage[u]), NEW t \in DirectRooms(storage[v]),
         HasKey(s), s.recipient_public_key = OwnKey(storage[v]), t.recipient_public_key = OwnKey(storage[u])
  PROVE  s.symmetric_key = s.dh \cup t.dh
<1>1. PICK b \in posted, dh \in KeySets :
         From(b, s.recipient_public_key, storage[u], dh) /\ s.symmetric_key = s.dh \cup dh
  BY DEF KeysInv, KeysFromBundles, Justified
<1>2. b \in Sent /\ SenderOf(b) = OwnKey(storage[v]) /\ ReceiverOf(b) = OwnKey(storage[u]) /\ DhOf(b) = dh
  BY <1>1 DEF From, Sent
<1>3. Kept(v) = storage[v] /\ storage[v] # NoProfile
  BY SyncedPage DEF KeysInv
<1>4. HasRoomFor(storage[v], b) /\ Distinct(DirectRooms(storage[v]))
  BY <1>2, <1>3 DEF KeysInv, SentFromRooms, Owners, ProfileOf
<1>5. dh = t.dh
  BY <1>2, <1>4 DEF HasRoomFor, Distinct
<1> QED
  BY <1>1, <1>5

\* Two users who have derived keys for their rooms with each other can read
\* each other's messages, whatever runs overlapped, bundles were fetched twice
\* or derivations ended late (deriveRoomSecretKey, encryptMessageForRoom).
THEOREM KeysAgreeHolds == Spec => []KeysAgree
<1>1. ASSUME TypeInv, KeysInv, NEW u \in Users \ stale, NEW v \in Users \ stale,
             NEW s \in DirectRooms(Current(u)), NEW t \in DirectRooms(Current(v)),
             HasKey(s), s.recipient_public_key = OwnKey(Current(v)),
             HasKey(t), t.recipient_public_key = OwnKey(Current(u))
      PROVE  decryptMessageSymmetric(encryptMessageForRoom(Current(u), s.id, "text"), t.symmetric_key) = "text"
  <2>1. managers[u] # <<>> /\ managers[v] # <<>>
    BY <1>1, DirectFacts DEF Current
  <2>2. /\ Current(u) = storage[u] /\ Current(v) = storage[v] /\ storage[u] \in Profiles
        /\ storage[u] # NoProfile
    BY <1>1, <2>1, SyncedPage DEF KeysInv
  <2>3. s.symmetric_key = s.dh \cup t.dh /\ t.symmetric_key = t.dh \cup s.dh
    BY <1>1, <2>1, <2>2, PartnersKey
  <2>4. ProfileOf(storage[u], u, made)
    BY <1>1, <2>2 DEF KeysInv, Owners
  <2>5. RoomById(storage[u], s.id).room = s
    BY <1>1, <2>2, <2>4, RoomFound DEF ProfileOf
  <2>6. encryptMessageForRoom(Current(u), s.id, "text") = encryptMessageSymmetric("text", t.symmetric_key)
    BY <2>2, <2>3, <2>5 DEF encryptMessageForRoom
  <2> QED
    BY <1>1, <2>6 DEF encryptMessageSymmetric, decryptMessageSymmetric, HasKey
<1>2. TypeInv /\ KeysInvariant => KeysAgree
  BY <1>1 DEF KeysInvariant, KeysAgree
<1> QED
  BY KeysInductive, <1>2, PTL DEF Spec

\* A room that waits for its key has not lost the bundle it needs: it is on the
\* server, its derivation is going on, or the page was closed during it.
THEOREM NoBundleLostHolds == Spec => []NoBundleLost
<1>1. ASSUME TypeInv, KeysInv, NEW u \in Users \ stale, NEW r \in DirectRooms(storage[u]),
             NEW b \in Addressed(u, r), b \notin bundles
      PROVE  HasKey(r) \/ dropped[u] \/ \E d \in deriving[u] : d.room.id = r.id
  <2>1. b \in posted /\ ReceiverOf(b) = OwnKey(storage[u]) /\ SenderOf(b) = r.recipient_public_key
    BY DEF Addressed, ReceiverOf, SenderOf
  <2>2. b \in Taken
    BY <1>1, <2>1 DEF Taken
  <2>3. storage[u] # NoProfile
    BY DirectFacts
  <2>4. Kept(u) = storage[u]
    BY <2>3 DEF Kept
  <2>5. UsedBy(b, storage[u], deriving[u], dropped[u])
    BY <1>1, <2>1, <2>2, <2>3, <2>4 DEF KeysInv, TakenUsed
  <2>6. Distinct(DirectRooms(storage[u]))
    BY <1>1, <2>3 DEF KeysInv, Owners, ProfileOf
  <2> QED
    BY <2>1, <2>5, <2>6 DEF UsedBy, Distinct
<1>2. TypeInv /\ KeysInvariant => NoBundleLost
  BY <1>1 DEF KeysInvariant, NoBundleLost
<1> QED
  BY KeysInductive, <1>2, PTL DEF Spec

\* A second derivation for a room gives it the key it has.
LEMMA KeyedTwice ==
  ASSUME TypeInv, KeysInv, stale = {}, NEW u \in Users, NEW d, NEW q, NEW t, NEW k,
         KeysRoom(u, d, q, t, k), HasKey(t)
  PROVE  k = t
<1>1. t \in DirectRooms(storage[u]) /\ storage[u] \in Profiles /\ SameRoom(t, k) /\ SameRoom(t, d.room) /\ k \in Rooms
  BY DEF KeysRoom, Keying, EditOf
<1>2. PICK b \in posted, dh \in KeySets :
         From(b, t.recipient_public_key, storage[u], dh) /\ t.symmetric_key = t.dh \cup dh
  BY <1>1 DEF KeysInv, KeysFromBundles, Justified
<1>3. PICK c \in posted : From(c, d.room.recipient_public_key, storage[u], d.dh)
  BY DEF KeysInv, CallsCurrent, CallCurrent, KeysRoom
<1>4. /\ b \in Sent /\ c \in Sent /\ SenderOf(b) = SenderOf(c) /\ ReceiverOf(b) = ReceiverOf(c)
      /\ DhOf(b) = dh /\ DhOf(c) = d.dh
  BY <1>1, <1>2, <1>3 DEF From, Sent, SameRoom
<1>5. PICK v \in Users : KeyOf(SenderOf(b), v, made)
  BY <1>4 DEF KeysInv, SentKnown, Known
<1>6. OwnedBy(SenderOf(b), v)
  BY <1>5, KeyFacts DEF TypeInv, BoundsOK
<1>7. dh = d.dh
  BY <1>4, <1>6 DEF KeysInv, OneKeyEach
<1>8. k.symmetric_key = t.symmetric_key
  BY <1>2, <1>7 DEF KeysRoom, Keying
<1>9. t \in Rooms
  BY <1>1, DirectFacts
<1> QED
  BY <1>1, <1>8, <1>9 DEF SameRoom, Rooms

\* A key that has reached the storage stays: no later run of the task, no edit
\* of the profile, reload or recovery of a current file replaces or blanks it.
THEOREM KeyKeptHolds == Spec => KeyKept
<1>1. ASSUME TypeInv, KeysInvariant, [Next]_vars, NEW u \in Users,
             storage'[u] # NoProfile, inits' = 0, stale' = {},
             NEW r \in DirectRooms(storage[u]), HasKey(r), OwnKey(storage'[u]) = OwnKey(storage[u])
      PROVE  r \in DirectRooms(storage'[u])
  <2>1. KeysInv /\ stale = {} /\ \A v \in Users : made[v] \in Nat
    BY <1>1, InitsZero, Growth DEF KeysInvariant
  <2>2. storage[u] # NoProfile
    BY DirectFacts
  <2>3. CASE SameProfiles(u) \/ Restores(u) \/ Loses(u) \/ Exports(u)
    BY <2>2, <2>3, <1>1 DEF SameProfiles, Restores, Loses, Exports
  <2>4. ASSUME NEW p, StartsAnew(u, p) PROVE FALSE
    <3>1. KeyOf(OwnKey(storage[u]), u, made)
      BY <2>1, <2>2 DEF KeysInv, Owners, ProfileOf
    <3>2. OwnKey(storage'[u]) = {<<u, made[u] + 1>>}
      BY <2>4 DEF StartsAnew, NewProfileOf, Fresh
    <3> QED
      BY <3>1, <3>2, <2>1, <1>1, KeyFacts
  <2>5. CASE Creates(u)
    BY <2>5, <1>1, EditFacts DEF Creates, CreatesRoom, Adding
  <2>6. CASE Keys(u)
    <3>1. PICK d, q, t, k : d \in deriving[u] /\ KeysRoom(u, d, q, t, k)
      BY <2>6 DEF Keys
    <3>2. storage'[u] = q /\ DirectRooms(q) = (DirectRooms(storage[u]) \ {t}) \cup {k}
      BY <3>1, <1>1, EditFacts DEF KeysRoom, Keying
    <3>3. r = t => k = t
      BY <3>1, <2>1, <1>1, KeyedTwice
    <3> QED
      BY <3>2, <3>3
  <2> QED
    BY <2>1, <2>3, <2>4, <2>5, <2>6, <1>1, ProfileSteps DEF ProfileStep
<1> DEFINE KeepsKeys ==
      \A u \in Users : storage'[u] # NoProfile /\ inits' = 0 /\ stale' = {}
       => \A r \in DirectRooms(storage[u]) :
            HasKey(r) /\ OwnKey(storage'[u]) = OwnKey(storage[u]) => r \in DirectRooms(storage'[u])
<1>2. TypeInv /\ KeysInvariant /\ [Next]_vars => KeepsKeys
  BY <1>1
<1>3. KeyKept <=> [][KeepsKeys]_vars
  BY DEF KeyKept
<1> HIDE DEF KeepsKeys
<1> QED
  BY KeysInductive, <1>2, <1>3, PTL DEF Spec
=============================================================================
