---------------------------- MODULE WebAppProofs ----------------------------
(***************************************************************************)
(* Proofs about WebApp for every bound on calls, texts, submissions and    *)
(* events: its types, that the rooms the application shows are kept, that  *)
(* the list has every room once, that what is sent is what was submitted,  *)
(* and that a text only leaves the box when it was sent.  Each invariant   *)
(* is proved from a lemma that says what a step can do to the profile, to  *)
(* the calls, to the list of rooms or to the box, whichever step it is.    *)
(***************************************************************************)
EXTENDS WebApp, TLAPS

-----------------------------------------------------------------------------
(* Profiles.                                                               *)

OwnKeys(p) ==
  \A t \in RoomTypes : \A r \in p.rooms[t] : r.symmetric_key \in {NoKey, generateSymmetricKey(r.id)}
GoodProfile(p) == p \in Profiles /\ OwnKeys(p)

\* A profile is not NoProfile, and has the keys that validateFormat asks for.
LEMMA ProfileFormat ==
  ASSUME NEW p \in Profiles PROVE ValidFormat(p) /\ p # NoProfile
BY WebAppAssumption DEF Profiles, ValidFormat, ProfileKeys

\* The ids of the rooms of a profile.
LEMMA RoomsOfProfile ==
  ASSUME NEW p \in Profiles, NEW n
  PROVE  n \in MyRooms(p) <=> \E t \in RoomTypes : \E r \in p.rooms[t] : r.id = n
<1>1. p # NoProfile
  BY ProfileFormat
<1> QED
  BY <1>1 DEF MyRooms, RoomIds

\* A profile that was just made has no rooms.
LEMMA RegisteredFacts == GoodProfile(Registered) /\ MyRooms(Registered) = {}
<1>1. Registered \in Profiles
  BY DEF Registered, NewProfile, Profiles
<1>2. \A t \in RoomTypes : Registered.rooms[t] = {}
  BY DEF Registered, NewProfile
<1> QED
  BY <1>1, <1>2, RoomsOfProfile DEF GoodProfile, OwnKeys

\* A room that is made with the key of its number.
NewRoom(room) ==
  room \in Rooms /\ room.symmetric_key \in {NoKey, generateSymmetricKey(room.id)}

\* addPublicRoom, addPrivateRoom and addDirectRoom add the room to those of its
\* type, and change nothing else.
LEMMA AddRoomFacts ==
  ASSUME NEW p, GoodProfile(p), NEW type \in RoomTypes, NEW room, NewRoom(room),
         NEW q, q = AddRoom(p, type, room)
  PROVE  GoodProfile(q) /\ MyRooms(q) = MyRooms(p) \cup {room.id}
<1>1. p \in Profiles /\ p.rooms \in [RoomTypes -> SUBSET Rooms]
  BY DEF GoodProfile, Profiles
<1> DEFINE new == [p.rooms EXCEPT ![type] = @ \cup {room}]
<1>2. q = [p EXCEPT !.rooms = new]
  BY DEF AddRoom
<1>3. new \in [RoomTypes -> SUBSET Rooms]
  BY <1>1 DEF NewRoom
<1>4. \A t \in RoomTypes : new[t] = IF t = type THEN p.rooms[t] \cup {room} ELSE p.rooms[t]
  BY <1>1
<1> HIDE DEF new
<1>5. q \in Profiles /\ q.rooms = new
  BY <1>1, <1>2, <1>3 DEF Profiles
<1>6. OwnKeys(q)
  BY <1>4, <1>5 DEF OwnKeys, NewRoom, GoodProfile
<1>7. ASSUME NEW n PROVE n \in MyRooms(q) <=> n \in MyRooms(p) \cup {room.id}
  <2>1. n \in MyRooms(q) <=> \E t \in RoomTypes : \E r \in new[t] : r.id = n
    BY <1>5, RoomsOfProfile
  <2>2. n \in MyRooms(p) <=> \E t \in RoomTypes : \E r \in p.rooms[t] : r.id = n
    BY <1>1, RoomsOfProfile
  <2> QED
    BY <2>1, <2>2, <1>4
<1> QED
  BY <1>5, <1>6, <1>7 DEF GoodProfile

\* The rooms that the application makes.
LEMMA NewRoomFacts ==
  ASSUME NEW n \in Nat
  PROVE  /\ NewRoom(Room(n, generateSymmetricKey(n))) /\ Room(n, generateSymmetricKey(n)).id = n
         /\ NewRoom(DirectRoom(n, "friend", generateECDHKeyPair(n)))
         /\ DirectRoom(n, "friend", generateECDHKeyPair(n)).id = n
BY DEF NewRoom, Rooms, Room, DirectRoom, generateSymmetricKey, generateECDHKeyPair, NoKey

\* The exported profile has the old room.
LEMMA ExportedFacts == GoodProfile(Exported) /\ MyRooms(Exported) = {Old}
<1>1. NewRoom(Room(Old, generateSymmetricKey(Old))) /\ Room(Old, generateSymmetricKey(Old)).id = Old
  BY NewRoomFacts DEF Old
<1> QED
  BY <1>1, RegisteredFacts, AddRoomFacts DEF Exported, RoomTypes

\* What a message for a room is encrypted with: the key of the room.
LEMMA EncryptedForRoom ==
  ASSUME NEW p, GoodProfile(p), NEW n \in MyRooms(p), NEW text,
         encryptMessageForRoom(p, n, text) # Failed
  PROVE  decryptMessageSymmetric(encryptMessageForRoom(p, n, text), generateSymmetricKey(n)) = text
<1>0. PICK t \in RoomTypes : \E r \in p.rooms[t] : r.id = n
  BY RoomsOfProfile DEF GoodProfile
<1>1. PICK r \in p.rooms[t] : r.id = n
  BY <1>0
<1>2. [type |-> t, room |-> r] \in {[type |-> t, room |-> x] : x \in {x \in p.rooms[t] : x.id = n}}
  BY <1>1
<1>3. RoomsById(p, n) # {}
  BY <1>1, <1>2 DEF RoomsById, RoomTypes
<1>4. ASSUME NEW f \in RoomsById(p, n) PROVE \E s \in RoomTypes : f.room \in p.rooms[s] /\ f.room.id = n
  BY <1>4 DEF RoomsById, RoomTypes
<1>5. PICK f : f = RoomById(p, n) /\ f \in RoomsById(p, n)
  BY <1>3 DEF RoomById
<1>6. f.room.symmetric_key \in {NoKey, generateSymmetricKey(n)}
  BY <1>4, <1>5 DEF GoodProfile, OwnKeys
<1>7. f.room.symmetric_key # NoKey
  BY <1>5 DEF encryptMessageForRoom, encryptMessageSymmetric
<1> QED
  BY <1>5, <1>6, <1>7 DEF encryptMessageForRoom, encryptMessageSymmetric, decryptMessageSymmetric

-----------------------------------------------------------------------------
(* Types.                                                                  *)

ScreenNames == {"closed", "r-procedure", "public", "dashboard"}
Stored(p)   == p = NoProfile \/ GoodProfile(p)

ProfilesOK ==
  /\ Stored(storage) /\ memory \in {NoProfile, storage} /\ MyRooms(storage) \subseteq 0..made
  /\ memory # NoProfile => loaded = TRUE
  /\ \A i \in inits : i.stage = "fetch" => loaded = TRUE
ScreensOK ==
  /\ route \in ScreenNames /\ opened \in ScreenNames /\ syncs \in Nat
  /\ route # "closed" => opened # "closed"
  /\ route = "closed" => memory = NoProfile /\ inits = {} /\ calls = {} /\ syncs = 0
BoundsOK == made \in Nat \ {0} /\ typed \in Nat
CallKinds == RoomTypes \cup {"join"}
CallRecords == [n : Nat, kind : CallKinds, added : BOOLEAN, here : BOOLEAN]
IsCall(c) ==
  /\ c \in CallRecords /\ Old < c.n /\ c.n <= made
  /\ c.added = TRUE => c.kind = "direct"
  /\ c.here = TRUE => Shows("public")
CallsOK  == \A c \in calls : IsCall(c)
NoticeOK == notice \in {"", "added", "error"} /\ (notice # "" => Shows("public"))
StoreOK  == DOMAIN listed \subseteq Nat /\ active \in Nat \cup {None}
Submissions == [text : 1..typed, room : Nat, again : BOOLEAN]
SendRecords == [n : Nat, text : Nat, room : Nat, here : BOOLEAN, old : Profiles \cup {NoProfile, None}]
IsSending(s) ==
  /\ s \in SendRecords /\ s.n \in 1..Len(asked)
  /\ s.text = asked[s.n].text /\ s.room = asked[s.n].room
  /\ s.old = None \/ Stored(s.old)
BoxOK ==
  /\ input \in 0..typed /\ (input # 0 => HasBox)
  /\ asked \in Seq(Submissions) /\ \A s \in sending : IsSending(s)
  /\ \A m \in sent : m.n \in 1..Len(asked)
TypeInv ==
  ProfilesOK /\ ScreensOK /\ BoundsOK /\ CallsOK /\ NoticeOK /\ StoreOK /\ BoxOK

\* The fields of a call.
LEMMA CallFields ==
  ASSUME NEW c, IsCall(c)
  PROVE  /\ c.n \in Nat /\ Old < c.n /\ c.n <= made
         /\ c.kind \in CallKinds /\ c.added \in BOOLEAN /\ c.here \in BOOLEAN
BY DEF IsCall, CallRecords

\* What happens to the record of a call.
LEMMA CallEdits ==
  ASSUME NEW c \in CallRecords
  PROVE  /\ LET d == [c EXCEPT !.here = FALSE]
            IN  d \in CallRecords /\ d.n = c.n /\ d.kind = c.kind /\ d.added = c.added /\ d.here = FALSE
         /\ LET d == [c EXCEPT !.added = TRUE]
            IN  d \in CallRecords /\ d.n = c.n /\ d.kind = c.kind /\ d.added = TRUE /\ d.here = c.here
BY DEF CallRecords

\* What a step can do to the profile: forget the one in memory or load the one
\* stored, put another in the place of both, or add the room of a call to it.
Unreplaced == /\ storage' = storage /\ astray' = astray
              /\ memory' \in {NoProfile, memory} \/ (memory' = storage /\ loaded = TRUE)
Replaced   == /\ storage' \in {Registered, Exported} /\ memory' = storage'
              /\ astray' = Astray /\ loaded = TRUE
AddedRoom(n) ==
  \/ memory = NoProfile /\ UNCHANGED <<memory, storage>> /\ astray' = astray \cup {n}
  \/ /\ memory # NoProfile /\ memory' = storage' /\ astray' = astray
     /\ GoodProfile(storage') /\ MyRooms(storage') = MyRooms(memory) \cup {n}
RoomOf(c)  == IF c.kind = "join" THEN Invited ELSE c.n

\* A direct room is there, and its bundle is to be posted.
StillPublic   == Shows("public") => Shows("public")'
CallGoesOn(c) ==
  /\ calls' = (calls \ {c}) \cup {[c EXCEPT !.added = TRUE]} /\ made' = made
  /\ c.kind = "direct" /\ c.added = FALSE /\ StillPublic
  /\ Add("direct", NewDirect(c))
RoomAdded(c)  == AddedRoom(RoomOf(c)) /\ (c.kind = "join" \/ calls' = calls \ {c} \/ CallGoesOn(c))

\* Adding a room of a call.
LEMMA AddStep ==
  ASSUME TypeInv, NEW c \in calls, NEW type \in RoomTypes, NEW room, NewRoom(room),
         room.id = RoomOf(c), Add(type, room)
  PROVE  AddedRoom(RoomOf(c))
<1>1. CASE memory = NoProfile
  BY <1>1 DEF Add, AddedRoom
<1>2. CASE memory # NoProfile
  <2>1. GoodProfile(memory)
    BY <1>2 DEF TypeInv, ProfilesOK, Stored
  <2>2. storage' = AddRoom(memory, type, room) /\ memory' = storage' /\ astray' = astray
    BY <1>2 DEF Add, Edit
  <2>3. GoodProfile(storage') /\ MyRooms(storage') = MyRooms(memory) \cup {room.id}
    BY <2>1, <2>2, AddRoomFacts
  <2> QED
    BY <1>2, <2>2, <2>3 DEF AddedRoom
<1> QED
  BY <1>1, <1>2

\* A direct room is added, or the friend has one.
LEMMA AddDirectStep ==
  ASSUME TypeInv, NEW c \in calls, AddDirect(c)
  PROVE  CallGoesOn(c) \/ (calls' = calls \ {c} /\ made' = made /\ UNCHANGED <<memory, storage, astray>>)
<1>1. IsCall(c)
  BY DEF TypeInv, CallsOK
<1>2. c.added = FALSE /\ c.kind = "direct" /\ UNCHANGED <<route, syncing, made>>
  BY <1>1, CallFields DEF AddDirect, screen, bounds
<1> QED
  BY <1>2 DEF AddDirect, CallGoesOn, StillPublic, Shows

\* The room of a direct call is added before its bundle is posted.
LEMMA GoesOnAdds ==
  ASSUME TypeInv, NEW c \in calls, CallGoesOn(c) PROVE AddedRoom(RoomOf(c)) /\ RoomOf(c) = c.n
<1>1. c.n \in Nat /\ RoomOf(c) = c.n /\ "direct" \in RoomTypes
  BY CallFields DEF TypeInv, CallsOK, CallGoesOn, RoomOf, RoomTypes
<1> QED
  BY <1>1, AddStep, NewRoomFacts DEF NewDirect, CallGoesOn

\* The room of the invitation is added when the server has answered.
LEMMA JoinAdds ==
  ASSUME TypeInv, NEW c \in calls, EndJoin(c) PROVE AddedRoom(RoomOf(c)) /\ RoomOf(c) = Invited
<1>1. RoomOf(c) = Invited /\ "public" \in RoomTypes /\ Invited \in Nat
  BY DEF EndJoin, RoomOf, RoomTypes, Invited
<1>2. Add("public", InvitedRoom)
  BY DEF EndJoin
<1> QED
  BY <1>1, <1>2, AddStep, NewRoomFacts DEF InvitedRoom

\* A public or private room is added when its call ends.
LEMMA EndCreateAdds ==
  ASSUME TypeInv, NEW c \in calls, EndCreate(c) PROVE AddedRoom(RoomOf(c)) /\ RoomOf(c) = c.n
<1>1. c.n \in Nat /\ RoomOf(c) = c.n /\ c.kind \in RoomTypes
  BY CallFields DEF TypeInv, CallsOK, EndCreate, RoomOf, RoomTypes
<1>2. Add(c.kind, Room(c.n, generateSymmetricKey(c.n)))
  BY DEF EndCreate
<1> QED
  BY <1>1, <1>2, AddStep, NewRoomFacts

\* The profile is replaced by a registration and a recovery; rooms are added by
\* the calls that end or, for a direct room, that go on to post its bundle.
LEMMA ProfileStep ==
  ASSUME TypeInv, [Next]_vars
  PROVE  Unreplaced \/ Replaced \/ \E c \in calls : RoomAdded(c)
<1> USE DEF data
<1>1. CASE UNCHANGED <<storage, memory, astray>>
  BY <1>1 DEF Unreplaced
<1>2. CASE OpenPage \/ Reload \/ Register \/ Recover
  BY <1>2 DEF OpenPage, Reload, Register, Recover, Unreplaced, Replaced
<1>3. ASSUME NEW i \in inits, GoOn(i) \/ EndInit(i) \/ FailInit(i)
      PROVE  Unreplaced \/ Replaced
  <2>1. i.stage = "fetch" => loaded = TRUE
    BY DEF TypeInv, ProfilesOK
  <2> QED
    BY <1>3, <2>1 DEF GoOn, EndInit, FailInit, Unreplaced, Replaced
<1>4. ASSUME NEW c \in calls, EndCreate(c) PROVE RoomAdded(c)
  BY <1>4, EndCreateAdds DEF RoomAdded, EndCreate, ShowCreated
<1>5. ASSUME NEW c \in calls, AddDirect(c)
      PROVE  UNCHANGED <<storage, memory, astray>> \/ RoomAdded(c)
  <2>1. CASE calls' = calls \ {c} /\ UNCHANGED <<memory, storage, astray>>
    BY <2>1
  <2>2. CASE CallGoesOn(c)
    BY <2>2, GoesOnAdds DEF RoomAdded
  <2> QED
    BY <1>5, <2>1, <2>2, AddDirectStep
<1>6. ASSUME NEW c \in calls, EndJoin(c) PROVE RoomAdded(c)
  BY <1>6, JoinAdds DEF RoomAdded, EndJoin
<1>7. ASSUME NEW c \in calls, FailCreate(c) \/ EndDirect(c) \/ FailJoin(c)
      PROVE  UNCHANGED <<storage, memory, astray>>
  BY <1>7 DEF FailCreate, EndDirect, FailJoin
<1>8. ASSUME NEW kind, Create(kind) PROVE UNCHANGED <<storage, memory, astray>>
  BY <1>8 DEF Create
<1>9. ASSUME NEW r, SetActive(r) PROVE UNCHANGED <<storage, memory, astray>>
  BY <1>9 DEF SetActive
<1>10. ASSUME NEW s, EndSend(s) PROVE UNCHANGED <<storage, memory, astray>>
  BY <1>10 DEF EndSend
<1>11. CASE EndSync \/ Back \/ ClickJoin \/ GoToRooms \/ Type \/ Submit \/ UNCHANGED vars
  BY <1>11 DEF EndSync, Back, ClickJoin, GoToRooms, Show, Type, Submit, vars, Unreplaced
<1> QED
  BY <1>1, <1>2, <1>3, <1>4, <1>5, <1>6, <1>7, <1>8, <1>9, <1>10, <1>11
     DEF Next, Initialising, Creating, Joining

\* What a step can do to the calls: end some, leave the screen they were made
\* from, make one, or go on with one to the bundle of a direct room.
CallsKept   == /\ calls' \subseteq calls /\ made' = made
               /\ StillPublic \/ calls' = {}
CallsLeft   == calls' = Gone(calls) /\ made' = made
CallMade    == \E kind \in CallKinds, here \in BOOLEAN :
                 /\ Call(kind, here) /\ StillPublic /\ (here = TRUE => Shows("public"))
                 /\ route # "closed"

\* Every step does one of these.
LEMMA CallsStep ==
  ASSUME TypeInv, [Next]_vars
  PROVE  CallsKept \/ CallsLeft \/ CallMade \/ \E c \in calls : CallGoesOn(c)
<1> USE DEF StillPublic, Shows, screen, bounds
<1>1. ASSUME UNCHANGED <<calls, made, screen>> PROVE CallsKept
  BY <1>1 DEF CallsKept
<1>2. ASSUME UNCHANGED made, Mount PROVE CallsKept \/ CallsLeft
  BY <1>2 DEF CallsKept, CallsLeft, Mount, MountInvitation
<1>3. CASE OpenPage \/ Reload \/ Register \/ Recover
  BY <1>3 DEF OpenPage, Reload, Register, Recover, NoScreen, CallsKept
<1>4. ASSUME NEW i, GoOn(i) PROVE CallsKept
  BY <1>4, <1>1 DEF GoOn
<1>5. ASSUME NEW i, EndInit(i) \/ FailInit(i) PROVE CallsKept \/ CallsLeft
  <2>1. UNCHANGED made /\ Mount
    BY <1>5 DEF EndInit, FailInit
  <2> QED
    BY <2>1, <1>2
<1>6. CASE EndSync \/ Back \/ GoToRooms
  <2>1. UNCHANGED made /\ Mount
    BY <1>6 DEF EndSync, Back, GoToRooms, Show
  <2> QED
    BY <2>1, <1>2
<1>7. ASSUME NEW kind \in RoomTypes, Create(kind) PROVE CallMade
  BY <1>7 DEF Create, CallMade, CallKinds
<1>8. CASE ClickJoin
  BY <1>8 DEF ClickJoin, CallMade, CallsKept, CallKinds
<1>9. ASSUME NEW c \in calls, EndCreate(c) \/ FailCreate(c) \/ EndDirect(c) \/ EndJoin(c) \/ FailJoin(c)
      PROVE  CallsKept
  BY <1>9 DEF EndCreate, FailCreate, EndDirect, EndJoin, FailJoin, ShowCreated, CallsKept
<1>10. ASSUME NEW c \in calls, AddDirect(c) PROVE CallsKept \/ CallGoesOn(c)
  <2>1. UNCHANGED screen
    BY <1>10 DEF AddDirect
  <2> QED
    BY <2>1, <1>10, AddDirectStep DEF CallsKept
<1>11. ASSUME NEW r, SetActive(r) PROVE CallsKept
  BY <1>11, <1>1 DEF SetActive
<1>12. ASSUME NEW s, EndSend(s) PROVE CallsKept
  BY <1>12, <1>1 DEF EndSend
<1>13. CASE Type \/ Submit \/ UNCHANGED vars
  BY <1>13, <1>1 DEF Type, Submit, vars
<1> QED
  BY <1>3, <1>4, <1>5, <1>6, <1>7, <1>8, <1>9, <1>10, <1>11, <1>12, <1>13
     DEF Next, Initialising, Creating, Joining

\* What a step can do to the box: nothing, empty it when it goes away or is
\* closed, move the messages under way to the old manager, type, submit, send.
StillBox  == HasBox => HasBox'
Written   == <<asked, sent, typed>>
BoxKept   == UNCHANGED <<box, Written>> /\ StillBox
BoxLeft   == /\ input' = 0 /\ sending' = {[s EXCEPT !.here = FALSE] : s \in sending}
             /\ UNCHANGED Written /\ ~ (HasBox /\ HasBox')
BoxClosed == input' = 0 /\ sending' = {} /\ UNCHANGED Written /\ ~ HasBox'
BoxMoved  == /\ sending' = {[s EXCEPT !.old = IF @ = None THEN memory ELSE @] : s \in sending}
             /\ UNCHANGED <<input, Written>> /\ StillBox

\* Every step does one of these.
LEMMA BoxStep ==
  ASSUME TypeInv, [Next]_vars
  PROVE  \/ BoxKept \/ BoxLeft \/ BoxClosed \/ BoxMoved \/ (Type /\ StillBox) \/ (Submit /\ StillBox)
         \/ \E s \in sending : EndSend(s) /\ StillBox
<1> USE DEF StillBox, HasBox, Shows, screen, bounds, store, box, Written
<1>1. ASSUME UNCHANGED <<route, syncing, active, box, Written>> PROVE BoxKept
  BY <1>1 DEF BoxKept
<1>2. ASSUME UNCHANGED Written, MountBox PROVE BoxKept \/ BoxLeft
  BY <1>2 DEF BoxKept, BoxLeft, MountBox
<1>3. CASE OpenPage \/ Reload \/ Register \/ Recover
  BY <1>3 DEF OpenPage, Reload, Register, Recover, NoScreen, BoxKept, BoxClosed
<1>4. ASSUME NEW i, GoOn(i) PROVE BoxMoved
  BY <1>4 DEF GoOn, BoxMoved
<1>5. ASSUME NEW i, EndInit(i) \/ FailInit(i) PROVE BoxKept \/ BoxLeft
  <2>1. UNCHANGED Written /\ MountBox
    BY <1>5 DEF EndInit, FailInit, Mount
  <2> QED
    BY <2>1, <1>2
<1>6. CASE EndSync \/ Back \/ GoToRooms
  <2>1. UNCHANGED Written /\ MountBox
    BY <1>6 DEF EndSync, Back, GoToRooms, Show, Mount
  <2> QED
    BY <2>1, <1>2
<1>7. ASSUME NEW c, FailCreate(c) \/ AddDirect(c) \/ EndJoin(c) \/ FailJoin(c) PROVE BoxKept
  BY <1>7, <1>1 DEF FailCreate, AddDirect, EndJoin, FailJoin
<1>8. ASSUME NEW c, EndCreate(c) PROVE BoxKept \/ BoxLeft
  BY <1>8, <1>2 DEF EndCreate, ShowCreated
<1>9. ASSUME NEW c, EndDirect(c) PROVE BoxKept \/ BoxLeft
  <2>1. (UNCHANGED Written /\ MountBox) \/ UNCHANGED <<route, syncing, active, box, Written>>
    BY <1>9 DEF EndDirect, ShowCreated
  <2> QED
    BY <2>1, <1>1, <1>2
<1>10. ASSUME NEW r, SetActive(r) PROVE BoxKept \/ BoxLeft
  BY <1>10, <1>2 DEF SetActive
<1>11. ASSUME NEW kind, Create(kind) PROVE BoxKept
  BY <1>11, <1>1 DEF Create
<1>12. CASE ClickJoin \/ UNCHANGED vars
  BY <1>12, <1>1 DEF ClickJoin, vars
<1>13. CASE Type \/ Submit
  BY <1>13 DEF Type, Submit
<1>14. ASSUME NEW s, EndSend(s) PROVE StillBox
  BY <1>14 DEF EndSend
<1> QED
  BY <1>3, <1>4, <1>5, <1>6, <1>7, <1>8, <1>9, <1>10, <1>11, <1>12, <1>13, <1>14
     DEF Next, Initialising, Creating, Joining

\* The types of the calls.
LEMMA CallsTyped == ASSUME TypeInv, [Next]_vars PROVE CallsOK' /\ BoundsOK'
<1> USE DEF Old
<1>0. made \in Nat \ {0} /\ \A c \in calls : IsCall(c)
  BY DEF TypeInv, BoundsOK, CallsOK
<1>1. typed' \in Nat
  <2>1. typed' \in {typed, typed + 1}
    <3>1. ASSUME NEW s, EndSend(s) PROVE typed' = typed
      BY <3>1 DEF EndSend
    <3> QED
      BY <3>1, BoxStep DEF BoxKept, BoxLeft, BoxClosed, BoxMoved, Written, Type, Submit, bounds
  <2> QED
    BY <2>1 DEF TypeInv, BoundsOK
<1>2. ASSUME NEW c \in calls, made' \in {made, made + 1}, StillPublic PROVE IsCall(c)'
  <2>1. IsCall(c) /\ c.n \in Nat
    BY <1>0, CallFields
  <2> QED
    BY <1>0, <1>2, <2>1 DEF IsCall, StillPublic
<1>3. ASSUME CallsKept PROVE CallsOK'
  BY <1>2, <1>3 DEF CallsKept, CallsOK
<1>4. ASSUME CallsLeft PROVE CallsOK'
  <2>1. ASSUME NEW c \in calls PROVE IsCall([c EXCEPT !.here = FALSE])'
    <3>1. IsCall(c) /\ made' = made
      BY <1>0, <1>4 DEF CallsLeft
    <3> QED
      BY <3>1, CallEdits DEF IsCall
  <2> QED
    BY <2>1, <1>4 DEF CallsLeft, CallsOK, Gone
<1>5. ASSUME CallMade PROVE CallsOK'
  <2>1. PICK kind \in CallKinds, here \in BOOLEAN :
          Call(kind, here) /\ StillPublic /\ (here = TRUE => Shows("public"))
    BY <1>5 DEF CallMade
  <2>2. PICK new : new = [n |-> made + 1, kind |-> kind, added |-> FALSE, here |-> here]
    OBVIOUS
  <2>3. /\ new \in CallRecords /\ new.n = made + 1 /\ new.here = here /\ new.added = FALSE
        /\ made' = made + 1 /\ calls' = calls \cup {new}
    BY <1>0, <2>1, <2>2 DEF CallRecords, Call
  <2>4. IsCall(new)'
    BY <1>0, <2>1, <2>3 DEF IsCall, StillPublic
  <2> QED
    BY <2>1, <2>3, <2>4, <1>2 DEF CallsOK
<1>6. ASSUME NEW c \in calls, CallGoesOn(c) PROVE CallsOK'
  <2>1. IsCall([c EXCEPT !.added = TRUE])'
    <3>1. IsCall(c) /\ made' = made /\ c.kind = "direct" /\ StillPublic
      BY <1>0, <1>6 DEF CallGoesOn
    <3> QED
      BY <3>1, CallEdits DEF IsCall, StillPublic
  <2> QED
    BY <2>1, <1>2, <1>6 DEF CallsOK, CallGoesOn
<1>7. made' \in {made, made + 1}
  BY CallsStep DEF CallsKept, CallsLeft, CallMade, Call, CallGoesOn
<1> QED
  BY <1>0, <1>1, <1>3, <1>4, <1>5, <1>6, <1>7, CallsStep DEF BoundsOK, TypeInv

\* A loaded page has a profile manager until it is reloaded.
LEMMA LoadedStep ==
  ASSUME TypeInv, [Next]_vars
  PROVE  /\ loaded' = TRUE \/ UNCHANGED loaded \/ (memory' = NoProfile /\ inits' = {})
         /\ \A i \in inits' : i.stage = "fetch" => i \in inits \/ loaded' = TRUE
<1> USE DEF data
<1>1. ASSUME UNCHANGED <<loaded, inits>> PROVE loaded' = loaded /\ inits' \subseteq inits
  BY <1>1
<1>2. CASE Reload
  BY <1>2 DEF Reload
<1>20. ASSUME OpenPage \/ Register \/ Recover
       PROVE  loaded' = loaded /\ \A i \in inits' : i.stage = "fetch" => i \in inits
  BY <1>20 DEF OpenPage, Register, Recover
<1>3. ASSUME NEW i \in inits, GoOn(i) PROVE loaded' = TRUE
  BY <1>3 DEF GoOn
<1>4. ASSUME NEW i \in inits, EndInit(i) \/ FailInit(i) PROVE loaded' = loaded /\ inits' \subseteq inits
  BY <1>4 DEF EndInit, FailInit
<1>5. CASE EndSync \/ Back \/ ClickJoin \/ GoToRooms \/ Type \/ Submit \/ UNCHANGED vars
  BY <1>5 DEF EndSync, Back, ClickJoin, GoToRooms, Show, Type, Submit, vars
<1>6. ASSUME NEW c, EndCreate(c) \/ FailCreate(c) \/ AddDirect(c) \/ EndDirect(c) \/ EndJoin(c) \/ FailJoin(c)
      PROVE  UNCHANGED <<loaded, inits>>
  BY <1>6 DEF EndCreate, FailCreate, AddDirect, EndDirect, EndJoin, FailJoin
<1>7. ASSUME NEW x, Create(x) \/ SetActive(x) \/ EndSend(x) PROVE UNCHANGED <<loaded, inits>>
  BY <1>7 DEF Create, SetActive, EndSend
<1> QED
  BY <1>2, <1>20, <1>3, <1>4, <1>5, <1>6, <1>7 DEF Next, Initialising, Creating, Joining

\* The types of the profile.
LEMMA ProfilesTyped == ASSUME TypeInv, [Next]_vars PROVE ProfilesOK'
<1>0. /\ Stored(storage) /\ memory \in {NoProfile, storage} /\ MyRooms(storage) \subseteq 0..made
      /\ memory # NoProfile => loaded = TRUE
      /\ made \in Nat \ {0}
  BY DEF TypeInv, ProfilesOK, BoundsOK
<1>1. made' \in {made, made + 1}
  BY CallsStep DEF CallsKept, CallsLeft, CallMade, Call, CallGoesOn
<1> DEFINE Good == Stored(storage)' /\ memory' \in {NoProfile, storage'} /\ MyRooms(storage)' \subseteq 0..made'
                   /\ (memory' # NoProfile => memory # NoProfile \/ loaded = TRUE)
<1>2. ASSUME Unreplaced PROVE Good
  BY <1>0, <1>1, <1>2 DEF Unreplaced, Stored, MyRooms
<1>3. ASSUME Replaced PROVE Good
  <2>1. Stored(storage)' /\ memory' = storage' /\ MyRooms(storage)' \subseteq {Old} /\ loaded = TRUE
    BY <1>3, RegisteredFacts, ExportedFacts DEF Replaced, Stored
  <2> QED
    BY <2>1, <1>0, <1>1 DEF Old
<1>4. ASSUME NEW c \in calls, RoomAdded(c) PROVE Good
  <2>1. RoomOf(c) \in 0..made
    <3>1. IsCall(c)
      BY DEF TypeInv, CallsOK
    <3> QED
      BY <3>1, <1>0, CallFields DEF RoomOf, Invited
  <2> QED
    BY <1>0, <1>1, <1>4, <2>1 DEF RoomAdded, AddedRoom, Stored, MyRooms
<1>5. Good
  BY <1>2, <1>3, <1>4, ProfileStep
<1>6. \A i \in inits' : i.stage = "fetch" => loaded' = TRUE
  BY LoadedStep DEF TypeInv, ProfilesOK
<1> QED
  BY <1>0, <1>5, <1>6, LoadedStep DEF ProfilesOK

\* The screens, and that nothing is under way on a closed page.
LEMMA ScreensTyped == ASSUME TypeInv, [Next]_vars PROVE ScreensOK'
<1> USE DEF ScreensOK, ScreenNames, screen, data, Shows, HasBox
<1>0. ScreensOK /\ syncs \in Nat
  BY DEF TypeInv
<1>1. ASSUME UNCHANGED <<route, opened, syncs>>, route # "closed" PROVE ScreensOK'
  BY <1>0, <1>1
<1>2. CASE OpenPage
  BY <1>0, <1>2 DEF OpenPage
<1>3. CASE Reload
  BY <1>3 DEF Reload
<1>4. CASE Register \/ Recover
  BY <1>4, <1>1 DEF Register, Recover, NoScreen
<1>5. ASSUME NEW i \in inits PROVE route # "closed"
  BY <1>0
<1>6. ASSUME NEW i \in inits, GoOn(i) PROVE ScreensOK'
  BY <1>6, <1>5, <1>1 DEF GoOn
<1>7. ASSUME NEW i \in inits, EndInit(i) \/ FailInit(i) PROVE ScreensOK'
  <2>1. /\ opened' = opened /\ route' \in {route, "dashboard", "r-procedure"}
        /\ syncs' \in {syncs, syncs + 1}
    BY <1>7 DEF EndInit, FailInit
  <2> QED
    BY <2>1, <1>0, <1>5
<1>8. CASE EndSync
  <2>1. syncs > 0 /\ syncs' = syncs - 1 /\ UNCHANGED <<route, opened>>
    BY <1>8 DEF EndSync
  <2> QED
    BY <2>1, <1>0
<1>9. CASE Back \/ GoToRooms
  <2>1. /\ route \in {"dashboard", "public"} /\ route' \in {opened, "dashboard"}
        /\ UNCHANGED <<opened, syncs, memory, inits>> /\ Mount
    BY <1>9 DEF Back, GoToRooms, Show
  <2>2. route' # "closed"
    BY <1>9, <1>0 DEF Back, GoToRooms, Show
  <2> QED
    BY <2>1, <2>2, <1>0
<1>10. ASSUME NEW c \in calls PROVE route # "closed"
  BY <1>0
<1>11. ASSUME NEW c \in calls, EndCreate(c) \/ FailCreate(c) \/ AddDirect(c) \/ EndDirect(c) \/ EndJoin(c) \/ FailJoin(c)
       PROVE  UNCHANGED <<route, opened, syncs>>
  BY <1>11 DEF EndCreate, FailCreate, AddDirect, EndDirect, EndJoin, FailJoin, ShowCreated
<1>12. ASSUME NEW x, Create(x) \/ SetActive(x)
       PROVE UNCHANGED <<route, opened, syncs>> /\ route = "dashboard"
  BY <1>12 DEF Create, SetActive
<1>13. CASE ClickJoin \/ Type \/ Submit
  BY <1>13, <1>1 DEF ClickJoin, Type, Submit
<1>14. ASSUME NEW s, EndSend(s) PROVE UNCHANGED <<route, opened, syncs, memory, inits, calls>>
  BY <1>14 DEF EndSend
<1>15. CASE UNCHANGED vars
  BY <1>15, <1>0 DEF vars
<1> QED
  BY <1>0, <1>1, <1>2, <1>3, <1>4, <1>6, <1>7, <1>8, <1>9, <1>10, <1>11, <1>12, <1>13, <1>14, <1>15
     DEF Next, Initialising, Creating, Joining

\* What a step can do to the notice of the invitation: keep it while the
\* invitation is shown, take it away, or tell how a call of the screen ended.
LEMMA NoticeStep ==
  ASSUME TypeInv, [Next]_vars
  PROVE  \/ notice' = notice /\ StillPublic
         \/ notice' = ""
         \/ notice' = "error" /\ Shows("public") /\ StillPublic
         \/ \E c \in calls : notice' = "added" /\ EndJoin(c) /\ Shows("public") /\ StillPublic
<1> USE DEF StillPublic, Shows, screen
<1>1. ASSUME Mount PROVE (notice' = notice /\ StillPublic) \/ notice' = ""
  BY <1>1 DEF Mount, MountInvitation
<1>2. CASE OpenPage \/ Reload \/ Register \/ Recover
  BY <1>2 DEF OpenPage, Reload, Register, Recover, NoScreen
<1>3. ASSUME NEW i, GoOn(i) PROVE UNCHANGED <<notice, screen>>
  BY <1>3 DEF GoOn
<1>4. ASSUME NEW i, EndInit(i) \/ FailInit(i) PROVE Mount
  BY <1>4 DEF EndInit, FailInit
<1>5. CASE EndSync \/ Back \/ GoToRooms
  <2>1. Mount
    BY <1>5 DEF EndSync, Back, GoToRooms, Show
  <2> QED
    BY <2>1, <1>1
<1>6. CASE ClickJoin
  BY <1>6 DEF ClickJoin
<1>7. ASSUME NEW c, EndCreate(c) \/ FailCreate(c) \/ AddDirect(c) \/ EndDirect(c) PROVE UNCHANGED <<notice, screen>>
  BY <1>7 DEF EndCreate, FailCreate, AddDirect, EndDirect, ShowCreated
<1>8. ASSUME NEW c \in calls PROVE c.here \in BOOLEAN /\ (c.here = TRUE => Shows("public"))
  <2>1. IsCall(c)
    BY DEF TypeInv, CallsOK
  <2> QED
    BY <2>1, CallFields DEF IsCall
<1>9. ASSUME NEW c \in calls, EndJoin(c)
      PROVE  UNCHANGED screen /\ ((notice' = "added" /\ Shows("public")) \/ notice' = notice)
  BY <1>8, <1>9 DEF EndJoin, Notify
<1>10. ASSUME NEW c \in calls, FailJoin(c)
       PROVE  UNCHANGED screen /\ ((notice' = "error" /\ Shows("public")) \/ notice' = notice)
  BY <1>8, <1>10 DEF FailJoin, Notify
<1>11. ASSUME NEW x, Create(x) \/ SetActive(x) \/ EndSend(x) PROVE UNCHANGED <<notice, screen>>
  BY <1>11 DEF Create, SetActive, EndSend
<1>12. CASE Type \/ Submit \/ UNCHANGED vars
  BY <1>12 DEF Type, Submit, vars
<1> QED
  BY <1>1, <1>2, <1>3, <1>4, <1>5, <1>6, <1>7, <1>9, <1>10, <1>11, <1>12
     DEF Next, Initialising, Creating, Joining

\* The notice is shown on the screen of the invitation.
LEMMA NoticeTyped == ASSUME TypeInv, [Next]_vars PROVE NoticeOK'
<1>1. NoticeOK
  BY DEF TypeInv
<1> QED
  BY <1>1, NoticeStep DEF NoticeOK, StillPublic

\* What a step can do to the list of rooms: nothing, empty it, read it from the
\* profile, or add the room of a call that ends.
AddedStay    == \A c \in calls : c.added = TRUE => \E d \in calls' : d.n = c.n /\ d.added = TRUE
RoomsWatched ==
  /\ Shows("dashboard") /\ AddedStay
  /\ memory' = memory \/ \E c \in calls : CallGoesOn(c)
ListKept ==
  /\ UNCHANGED <<listed, unlisted, reread>>
  /\ Shows("dashboard")' => memory' = NoProfile \/ RoomsWatched
ListEmptied == listed' = <<>> /\ unlisted' = {} /\ reread' = reread /\ ~ Shows("dashboard")' /\ calls' = {}
ListRead    == GetRooms /\ (calls' = calls \/ calls' = Gone(calls)) /\ memory' \in {memory, storage'}
ListGrown(c) ==
  /\ listed' = Created(listed, c.n) /\ calls' = calls \ {c} /\ active' = c.n
  /\ UNCHANGED <<unlisted, reread>>
  /\ EndCreate(c) \/ (c.added = TRUE /\ EndDirect(c))
ListMissed(c) ==
  /\ UNCHANGED <<listed, reread>> /\ calls' = calls \ {c}
  /\ \/ c.added = TRUE /\ EndDirect(c) /\ unlisted' = unlisted \cup {c.n}
     \/ /\ EndJoin(c)
        /\ unlisted' = IF Shows("dashboard") THEN unlisted \cup {Invited} ELSE unlisted
ActiveKept == active' = active \/ active' = None \/ (active' \in DOMAIN listed /\ listed' = listed)

\* Every step does one of these.
LEMMA ListStep ==
  ASSUME TypeInv, [Next]_vars
  PROVE  \/ (ListKept \/ ListEmptied \/ ListRead \/ \E c \in calls : ListMissed(c)) /\ ActiveKept
         \/ \E c \in calls : ListGrown(c)
<1> USE DEF store, screen, data, Shows
<1>1. ASSUME UNCHANGED <<listed, unlisted, reread, route, syncing, memory, calls>> PROVE ListKept
  BY <1>1 DEF ListKept, RoomsWatched, AddedStay
<1>2. ASSUME Mount, memory' = memory, Shows("dashboard") PROVE RoomsWatched
  <2>1. ASSUME NEW c \in calls, calls' = Gone(calls) PROVE \E d \in calls' : d.n = c.n /\ d.added = c.added
    <3>1. IsCall(c)
      BY DEF TypeInv, CallsOK
    <3>2. PICK d : d = [c EXCEPT !.here = FALSE]
      OBVIOUS
    <3>3. d.n = c.n /\ d.added = c.added
      BY <3>1, <3>2, CallEdits DEF IsCall
    <3>4. d \in calls'
      BY <2>1, <3>2 DEF Gone
    <3> QED
      BY <3>3, <3>4
  <2> QED
    BY <1>2, <2>1 DEF RoomsWatched, AddedStay, Mount, MountInvitation
<1>3. ASSUME MountRooms, Mount, UNCHANGED <<active, memory, loaded>>
      PROVE  ActiveKept /\ (ListKept \/ ListRead)
  <2>1. CASE GetRooms
    BY <1>3, <2>1 DEF ListRead, ActiveKept, Mount, MountInvitation
  <2>2. CASE UNCHANGED <<listed, unlisted, reread>> /\ ~ GetRooms
    <3>1. Shows("dashboard")' /\ ~ Shows("dashboard") => memory' = NoProfile
      BY <1>3, <2>2 DEF MountRooms, TypeInv, ProfilesOK
    <3> QED
      BY <1>2, <1>3, <2>2, <3>1 DEF ListKept, ActiveKept
  <2> QED
    BY <1>3, <2>1, <2>2 DEF MountRooms
<1>4. CASE OpenPage
  BY <1>4 DEF OpenPage, ListKept, ActiveKept, TypeInv, ScreensOK
<1>5. CASE Register \/ Recover
  BY <1>5 DEF Register, Recover, NoScreen, ListKept, ActiveKept
<1>6. CASE Reload
  BY <1>6 DEF Reload, ListEmptied, ActiveKept
<1>7. ASSUME NEW i, GoOn(i) PROVE ListKept /\ ActiveKept
  BY <1>7 DEF GoOn, ListKept, ActiveKept
<1>8. ASSUME NEW i, EndInit(i) PROVE ListRead /\ ActiveKept
  BY <1>8 DEF EndInit, ListRead, ActiveKept, Mount, MountInvitation
<1>9. ASSUME NEW i, FailInit(i) PROVE ActiveKept /\ (ListKept \/ ListRead)
  BY <1>9, <1>3 DEF FailInit
<1>10. CASE EndSync \/ Back \/ GoToRooms
  <2>1. MountRooms /\ Mount /\ UNCHANGED <<active, memory, loaded>>
    BY <1>10 DEF EndSync, Back, GoToRooms, Show
  <2> QED
    BY <2>1, <1>3
<1>11. ASSUME NEW d, calls' = calls \cup {d}, UNCHANGED <<listed, unlisted, reread, route, syncing, memory>>
       PROVE  ListKept
  BY <1>11 DEF ListKept, RoomsWatched, AddedStay
<1>12. ASSUME NEW x, Create(x) PROVE ListKept /\ ActiveKept
  BY <1>12, <1>11 DEF Create, Call, ActiveKept
<1>13. CASE ClickJoin
  BY <1>13, <1>1, <1>11 DEF ClickJoin, Call, ActiveKept
<1>14. ASSUME NEW c \in calls, EndCreate(c) PROVE ListGrown(c)
  BY <1>14 DEF EndCreate, ShowCreated, ListGrown
<1>15. ASSUME NEW c \in calls PROVE IsCall(c) /\ c.added \in BOOLEAN
  BY CallFields DEF TypeInv, CallsOK
<1>16. ASSUME NEW c \in calls, c.added = FALSE, calls' = calls \ {c},
              UNCHANGED <<listed, unlisted, reread, route, syncing, memory>>
       PROVE  ListKept
  BY <1>16 DEF ListKept, RoomsWatched, AddedStay
<1>17. ASSUME NEW c \in calls, FailCreate(c) \/ FailJoin(c) PROVE ListKept /\ ActiveKept
  <2>1. c.added = FALSE
    BY <1>15, <1>17 DEF FailCreate, FailJoin, IsCall
  <2> QED
    BY <2>1, <1>16, <1>17 DEF FailCreate, FailJoin, ActiveKept
<1>18. ASSUME NEW c \in calls, AddDirect(c) PROVE ListKept /\ ActiveKept
  <2>1. c.added = FALSE /\ UNCHANGED <<listed, active, unlisted, reread, route, syncing>>
    BY <1>15, <1>18 DEF AddDirect
  <2>2. ASSUME CallGoesOn(c), Shows("dashboard") PROVE RoomsWatched
    BY <2>1, <2>2 DEF CallGoesOn, RoomsWatched, AddedStay
  <2> QED
    BY <1>18, <1>16, <2>1, <2>2, AddDirectStep DEF ListKept, ActiveKept
<1>19. ASSUME NEW c \in calls, EndDirect(c) PROVE ListGrown(c) \/ (ListMissed(c) /\ ActiveKept)
  <2>1. c.added = TRUE
    BY <1>15, <1>19 DEF EndDirect
  <2> QED
    BY <2>1, <1>19 DEF EndDirect, ShowCreated, ListGrown, ListMissed, ActiveKept
<1>20. ASSUME NEW c \in calls, EndJoin(c) PROVE ListMissed(c) /\ ActiveKept
  BY <1>20 DEF EndJoin, ListMissed, ActiveKept
<1>21. ASSUME NEW r, SetActive(r) PROVE ListKept /\ ActiveKept
  BY <1>21, <1>1 DEF SetActive, ActiveKept
<1>22. ASSUME NEW s, EndSend(s) PROVE ListKept /\ ActiveKept
  BY <1>22, <1>1 DEF EndSend, ActiveKept
<1>23. CASE Type \/ Submit \/ UNCHANGED vars
  BY <1>23, <1>1 DEF Type, Submit, vars, ActiveKept
<1> QED
  BY <1>4, <1>5, <1>6, <1>7, <1>8, <1>9, <1>10, <1>12, <1>13, <1>14, <1>17, <1>18, <1>19, <1>20,
     <1>21, <1>22, <1>23 DEF Next, Initialising, Creating, Joining

\* The rooms of a profile, as a list.
LEMMA RoomsOfFacts ==
  ASSUME NEW p PROVE DOMAIN RoomsOf(p) = MyRooms(p) /\ \A r \in MyRooms(p) : RoomsOf(p)[r] = 1
BY DEF RoomsOf

\* A room that is appended.
LEMMA PlusFacts ==
  ASSUME NEW list, NEW r
  PROVE  /\ DOMAIN Created(list, r) = DOMAIN list \cup {r}
         /\ \A s \in DOMAIN list \ {r} : list[s] = 1 => Created(list, r)[s] = 1
         /\ r \notin DOMAIN list => Created(list, r)[r] = 1
BY DEF Created, Plus

\* The rooms listed and open have numbers.
LEMMA StoreTyped == ASSUME TypeInv, [Next]_vars PROVE StoreOK'
<1>1. StoreOK
  BY DEF TypeInv
<1>2. \A c \in calls : c.n \in Nat
  BY CallFields DEF TypeInv, CallsOK
<1>3. ASSUME DOMAIN listed' \subseteq Nat, ActiveKept PROVE StoreOK'
  BY <1>1, <1>3 DEF StoreOK, ActiveKept
<1>4. CASE ListKept /\ ActiveKept
  BY <1>1, <1>3, <1>4 DEF ListKept, StoreOK
<1>5. CASE ListEmptied /\ ActiveKept
  BY <1>3, <1>5 DEF ListEmptied
<1>6. CASE ListRead /\ ActiveKept
  <2>0. made' \in Nat /\ MyRooms(storage)' \subseteq 0..made' /\ memory' \in {NoProfile, storage'}
    BY ProfilesTyped, CallsTyped DEF ProfilesOK, BoundsOK
  <2>1. MyRooms(storage)' \subseteq Nat
    BY <2>0
  <2>2. MyRooms(memory)' \subseteq Nat
    BY <2>0, <2>1 DEF MyRooms
  <2>3. DOMAIN listed' = MyRooms(memory)'
    BY <1>6, RoomsOfFacts DEF ListRead, GetRooms, MyRooms
  <2> QED
    BY <2>2, <2>3, <1>3, <1>6
<1>7. ASSUME NEW c \in calls, ListMissed(c), ActiveKept PROVE StoreOK'
  BY <1>1, <1>3, <1>7 DEF ListMissed, StoreOK
<1>8. ASSUME NEW c \in calls, ListGrown(c) PROVE StoreOK'
  <2>1. DOMAIN listed' = DOMAIN listed \cup {c.n} /\ active' = c.n /\ c.n \in Nat
    BY <1>2, <1>8, PlusFacts DEF ListGrown
  <2> QED
    BY <2>1, <1>1 DEF StoreOK
<1> QED
  BY <1>4, <1>5, <1>6, <1>7, <1>8, ListStep

\* What the record of a message under way is, and how it changes.
LEMMA SendingEdits ==
  ASSUME NEW s \in SendRecords, NEW p \in Profiles \cup {NoProfile, None}
  PROVE  /\ LET z == [s EXCEPT !.here = FALSE]
            IN  z \in SendRecords /\ z.n = s.n /\ z.text = s.text /\ z.room = s.room
                /\ z.old = s.old /\ z.here = FALSE
         /\ LET z == [s EXCEPT !.old = p]
            IN  z \in SendRecords /\ z.n = s.n /\ z.text = s.text /\ z.room = s.room
                /\ z.old = p /\ z.here = s.here
BY DEF SendRecords

\* What has been submitted grows only, and so do the texts.
LEMMA AskedStep ==
  ASSUME TypeInv, [Next]_vars
  PROVE  /\ asked' \in Seq(Submissions') /\ Len(asked) <= Len(asked') /\ Len(asked) \in Nat
         /\ \A k \in 1..Len(asked) : asked'[k] = asked[k] /\ asked[k] \in Submissions
<1>0. asked \in Seq(Submissions) /\ Len(asked) \in Nat
  BY DEF TypeInv, BoxOK
<1>1. ASSUME UNCHANGED <<asked, typed>> PROVE asked' \in Seq(Submissions') /\ asked' = asked
  BY <1>0, <1>1 DEF Submissions
<1>2. CASE BoxKept \/ BoxLeft \/ BoxClosed \/ BoxMoved
  BY <1>0, <1>1, <1>2 DEF BoxKept, BoxLeft, BoxClosed, BoxMoved, Written
<1>3. ASSUME NEW s, EndSend(s) PROVE UNCHANGED <<asked, typed>>
  BY <1>3 DEF EndSend
<1>4. CASE Type
  <2>1. typed \in Nat /\ typed' = typed + 1 /\ asked' = asked
    BY <1>4 DEF Type, TypeInv, BoundsOK
  <2>2. 1..typed \subseteq 1..typed'
    BY <2>1
  <2>3. Submissions \subseteq Submissions'
    BY <2>2 DEF Submissions
  <2>4. asked \in Seq(Submissions')
    BY <1>0, <2>3
  <2> QED
    BY <2>1, <2>4, <1>0
<1>5. CASE Submit
  <2>1. PICK new : new = [text |-> input, room |-> active, again |-> \E s \in sending : s.here /\ s.text = input]
    OBVIOUS
  <2>2. input \in 1..typed /\ active \in Nat
    <3>1. input \in 0..typed /\ typed \in Nat /\ input # 0
      BY <1>5 DEF Submit, TypeInv, BoxOK, BoundsOK
    <3>2. active \in Nat
      BY <1>5 DEF Submit, HasBox, TypeInv, StoreOK
    <3> QED
      BY <3>1, <3>2
  <2>3. new \in Submissions
    <3>1. (\E s \in sending : s.here /\ s.text = input) \in BOOLEAN
      OBVIOUS
    <3> QED
      BY <3>1, <2>1, <2>2 DEF Submissions
  <2>4. asked' = Append(asked, new) /\ typed' = typed
    BY <1>5, <2>1 DEF Submit, bounds
  <2>5. Submissions' = Submissions
    BY <2>4 DEF Submissions
  <2> HIDE DEF Submissions
  <2> QED
    BY <1>0, <2>3, <2>4, <2>5
<1> QED
  BY <1>0, <1>1, <1>2, <1>3, <1>4, <1>5, BoxStep

\* A message under way stays one whose submission is known.
LEMMA StillSending ==
  ASSUME TypeInv, [Next]_vars, NEW s \in sending
  PROVE  \A z \in {s, [s EXCEPT !.here = FALSE], [s EXCEPT !.old = memory]} : IsSending(z)'
<1>0. IsSending(s) /\ Len(asked) \in Nat
  BY AskedStep DEF TypeInv, BoxOK
<1>1. s \in SendRecords /\ s.n \in 1..Len(asked')
      /\ s.text = asked'[s.n].text /\ s.room = asked'[s.n].room /\ (s.old = None \/ Stored(s.old))
  BY <1>0, AskedStep DEF IsSending
<1>2. Stored(memory) /\ memory \in Profiles \cup {NoProfile, None}
  BY DEF TypeInv, ProfilesOK, Stored, GoodProfile
<1>3. PICK z : z = [s EXCEPT !.here = FALSE]
  OBVIOUS
<1>4. PICK y : y = [s EXCEPT !.old = memory]
  OBVIOUS
<1>5. IsSending(s)' /\ IsSending(z)' /\ IsSending(y)'
  BY <1>1, <1>2, <1>3, <1>4, SendingEdits DEF IsSending
<1> QED
  BY <1>3, <1>4, <1>5

\* The texts, what was submitted and what is under way.
LEMMA BoxTyped == ASSUME TypeInv, [Next]_vars PROVE BoxOK'
<1>0. /\ input \in 0..typed /\ (input # 0 => HasBox) /\ typed \in Nat
      /\ \A s \in sending : s.n \in 1..Len(asked)
      /\ \A m \in sent : m.n \in 1..Len(asked)
  BY DEF TypeInv, BoxOK, BoundsOK, IsSending
<1>1. Len(asked') \in Nat /\ 1..Len(asked) \subseteq 1..Len(asked') /\ asked' \in Seq(Submissions')
  BY AskedStep
<1>2. ASSUME NEW s, IsSending(s), EndSend(s)
      PROVE  /\ input' \in {0, input} /\ typed' = typed /\ sending' \subseteq sending
             /\ \A m \in sent' : m \in sent \/ m.n = s.n
  BY <1>2 DEF EndSend, ClearText, TextAfterFailure
<1> DEFINE InputOK == input' \in 0..typed' /\ (input' # 0 => HasBox')
<1>3. InputOK
  <2>1. ASSUME BoxKept \/ BoxLeft \/ BoxClosed \/ BoxMoved PROVE InputOK
    BY <1>0, <2>1 DEF BoxKept, BoxLeft, BoxClosed, BoxMoved, Written, StillBox, box
  <2>2. ASSUME Type, StillBox PROVE InputOK
    BY <1>0, <2>2 DEF Type, StillBox
  <2>3. ASSUME Submit, StillBox PROVE InputOK
    BY <1>0, <2>3 DEF Submit, StillBox, bounds
  <2>4. ASSUME NEW s \in sending, EndSend(s), StillBox PROVE InputOK
    <3>1. IsSending(s)
      BY DEF TypeInv, BoxOK
    <3> QED
      BY <3>1, <1>0, <1>2, <2>4 DEF StillBox
  <2> QED
    BY <2>1, <2>2, <2>3, <2>4, BoxStep
<1> HIDE DEF InputOK
<1>4. \A s \in sending' : IsSending(s)'
  <2>1. ASSUME sending' \subseteq sending PROVE <1>4!:
    BY <2>1, StillSending
  <2>2. CASE BoxKept \/ BoxClosed
    BY <2>2, <2>1 DEF BoxKept, BoxClosed, box
  <2>3. CASE BoxLeft
    BY <2>3, StillSending DEF BoxLeft
  <2>4. CASE BoxMoved
    <3>1. ASSUME NEW s \in sending
          PROVE  [s EXCEPT !.old = IF @ = None THEN memory ELSE @] \in {s, [s EXCEPT !.old = memory]}
      <4>1. s \in SendRecords
        BY DEF TypeInv, BoxOK, IsSending
      <4>2. CASE s.old = None
        BY <4>2
      <4>3. CASE s.old # None
        <5>1. [s EXCEPT !.old = IF @ = None THEN memory ELSE @] = [s EXCEPT !.old = s.old]
          BY <4>3
        <5>2. [s EXCEPT !.old = s.old] = s
          BY <4>1 DEF SendRecords
        <5> QED
          BY <5>1, <5>2
      <4> QED
        BY <4>2, <4>3
    <3>2. ASSUME NEW z \in sending' PROVE IsSending(z)'
      <4>1. PICK s \in sending : z = [s EXCEPT !.old = IF @ = None THEN memory ELSE @]
        BY <2>4 DEF BoxMoved
      <4>2. z \in {s, [s EXCEPT !.old = memory]}
        BY <4>1, <3>1
      <4> QED
        BY <4>2, StillSending
    <3> QED
      BY <3>2
  <2>5. CASE Type
    BY <2>5, <2>1 DEF Type
  <2>6. CASE Submit
    <3>1. PICK new : new = [n |-> Len(asked'), text |-> input, room |-> active, here |-> TRUE, old |-> None]
      OBVIOUS
    <3>2. sending' = sending \cup {new}
      BY <2>6, <3>1 DEF Submit
    <3>3. input \in Nat /\ active \in Nat
      BY <2>6, <1>0 DEF Submit, HasBox, TypeInv, StoreOK
    <3>4. Len(asked') \in 1..Len(asked') /\ asked'[Len(asked')].text = input /\ asked'[Len(asked')].room = active
      <4>1. PICK a : a = [text |-> input, room |-> active, again |-> \E s \in sending : s.here /\ s.text = input]
        OBVIOUS
      <4>2. asked' = Append(asked, a) /\ asked \in Seq(Submissions)
        BY <2>6, <4>1 DEF Submit, TypeInv, BoxOK
      <4>3. Len(asked') = Len(asked) + 1 /\ Len(asked) \in Nat
        BY <4>2
      <4>4. asked'[Len(asked) + 1] = a
        BY <4>2
      <4> QED
        BY <4>1, <4>3, <4>4
    <3>5. IsSending(new)'
      BY <3>1, <3>3, <3>4 DEF IsSending, SendRecords
    <3> QED
      BY <3>2, <3>5, StillSending
  <2>7. ASSUME NEW s \in sending, EndSend(s) PROVE <1>4!:
    BY <2>7, <2>1 DEF EndSend
  <2> QED
    BY <2>2, <2>3, <2>4, <2>5, <2>6, <2>7, BoxStep
<1>5. \A m \in sent' : m.n \in 1..Len(asked')
  <2>1. ASSUME UNCHANGED sent PROVE <1>5!:
    BY <2>1, <1>0, <1>1
  <2>2. CASE BoxKept \/ BoxLeft \/ BoxClosed \/ BoxMoved \/ Type \/ Submit
    BY <2>2, <2>1 DEF BoxKept, BoxLeft, BoxClosed, BoxMoved, Written, Type, Submit
  <2>3. ASSUME NEW s \in sending, EndSend(s) PROVE <1>5!:
    <3>1. IsSending(s)
      BY DEF TypeInv, BoxOK
    <3> QED
      BY <2>3, <3>1, <1>0, <1>1, <1>2
  <2> QED
    BY <2>2, <2>3, BoxStep
<1> QED
  BY <1>1, <1>3, <1>4, <1>5 DEF BoxOK, InputOK

\* TypeInv is inductive.
LEMMA TypeInvInductive ==
  /\ Init => TypeInv
  /\ TypeInv /\ [Next]_vars => TypeInv'
<1>1. ASSUME Init PROVE TypeInv
  <2>1. BoxOK
    <3>1. asked = <<>> /\ sending = {} /\ sent = {} /\ input = 0 /\ typed = 0
      BY <1>1 DEF Init
    <3>2. asked \in Seq(Submissions)
      BY <3>1
    <3> QED
      BY <3>1, <3>2 DEF BoxOK
  <2>2. ProfilesOK
    <3>1. /\ storage = NoProfile \/ storage = Exported
          /\ memory = NoProfile /\ inits = {} /\ made = 1
      BY <1>1 DEF Init, Old
    <3>2. MyRooms(NoProfile) = {}
      BY DEF MyRooms
    <3> QED
      BY <3>1, <3>2, ExportedFacts DEF ProfilesOK, Stored, Old
  <2>3. ScreensOK /\ CallsOK /\ NoticeOK
    BY <1>1 DEF Init, ScreensOK, ScreenNames, CallsOK, NoticeOK
  <2>4. BoundsOK /\ StoreOK
    <3>1. listed = <<>> /\ active = None /\ made = 1 /\ typed = 0
      BY <1>1 DEF Init, Old
    <3> QED
      BY <3>1 DEF BoundsOK, StoreOK
  <2> QED
    BY <2>1, <2>2, <2>3, <2>4 DEF TypeInv
<1>2. ASSUME TypeInv, [Next]_vars PROVE TypeInv'
  BY <1>2, ProfilesTyped, ScreensTyped, CallsTyped, NoticeTyped, StoreTyped, BoxTyped DEF TypeInv
<1> QED
  BY <1>1, <1>2

\* The types of WebApp, and where texts and notices can be.
THEOREM TypesHoldAlways == Spec => []TypeOK
<1>1. TypeInv => TypeOK
  <2> SUFFICES ASSUME TypeInv PROVE TypeOK
    OBVIOUS
  <2>1. \A p \in {memory, storage} : p = NoProfile \/ ValidFormat(p)
    BY ProfileFormat DEF TypeInv, ProfilesOK, Stored, GoodProfile
  <2>2. memory # NoProfile => loaded
    BY DEF TypeInv, ProfilesOK
  <2>3. \A c \in calls : c.kind \in RoomTypes \cup {"join"} /\ c.n \in Old + 1 .. made
    <3> SUFFICES ASSUME NEW c \in calls PROVE c.kind \in CallKinds /\ c.n \in Old + 1 .. made
      BY DEF CallKinds
    <3>1. IsCall(c) /\ made \in Nat
      BY DEF TypeInv, CallsOK, BoundsOK
    <3> QED
      BY <3>1, CallFields DEF Old
  <2>4. \A m \in sent : m.n \in DOMAIN asked
    BY DEF TypeInv, BoxOK
  <2> QED
    BY <2>1, <2>2, <2>3, <2>4 DEF TypeOK, TypeInv, ScreensOK, ScreenNames, BoxOK, NoticeOK
<1> QED
  BY <1>1, TypeInvInductive, PTL DEF Spec

-----------------------------------------------------------------------------
(* The rooms that are shown.                                               *)

Known == MyRooms(storage) \cup astray
ListedKnown == DOMAIN listed \cup ({active} \ {None}) \subseteq Known
AddedKnown  == \A c \in calls : c.added = TRUE => c.n \in Known
JoinKnown   == notice = "added" => Invited \in Known

\* The number of rooms in the list is bounded by the calls made; the calls have
\* different numbers; the room of a call that has not ended is in no profile
\* and in no list, but the direct room of a call that posts its bundle, which
\* can be in a list that was read meanwhile.
ListedNumbers == DOMAIN listed \subseteq 0..made
OneCallEach   == \A c, d \in calls : c.n = d.n => c = d
Pending       == \A c \in calls : c.added = FALSE => c.n \notin MyRooms(storage) \cup DOMAIN listed
AddedReread   == \A c \in calls : c.added = TRUE /\ c.n \in DOMAIN listed => c.n \in reread
ListedOnce    == \A r \in DOMAIN listed \ reread : listed[r] = 1
MissingKnown  ==
  Shows("dashboard") =>
    MyRooms(memory) \subseteq DOMAIN listed \cup unlisted \cup {c.n : c \in {c \in calls : c.added = TRUE}}

RoomsInv ==
  /\ ListedKnown /\ AddedKnown /\ JoinKnown
  /\ ListedNumbers /\ OneCallEach /\ Pending /\ AddedReread /\ ListedOnce /\ MissingKnown

\* A room stays known.
LEMMA KnownStep ==
  ASSUME TypeInv, [Next]_vars PROVE Known \subseteq Known' /\ MyRooms(memory)' \subseteq Known'
<1>1. memory \in {NoProfile, storage} /\ memory' \in {NoProfile, storage'}
  BY ProfilesTyped DEF TypeInv, ProfilesOK
<1>2. MyRooms(memory)' \subseteq MyRooms(storage)'
  BY <1>1 DEF MyRooms
<1>3. CASE Unreplaced
  BY <1>2, <1>3 DEF Unreplaced, Known, MyRooms
<1>4. CASE Replaced
  BY <1>2, <1>4 DEF Replaced, Known, Astray
<1>5. ASSUME NEW c \in calls, AddedRoom(RoomOf(c)) PROVE Known \subseteq Known'
  BY <1>1, <1>5 DEF AddedRoom, Known, MyRooms
<1> QED
  BY <1>2, <1>3, <1>4, <1>5, ProfileStep DEF Known, RoomAdded

\* The room that was added is known.
LEMMA AddedIsKnown ==
  ASSUME NEW n, AddedRoom(n) PROVE n \in Known'
BY DEF AddedRoom, Known, MyRooms

\* Every call is one of those before, perhaps without its screen; or it has
\* just been made; or its direct room has just been added.
LEMMA Heirs ==
  ASSUME TypeInv, [Next]_vars, NEW d \in calls'
  PROVE  \/ \E c \in calls : d.n = c.n /\ d.kind = c.kind /\ d.added = c.added
         \/ d.n = made + 1 /\ made' = made + 1 /\ d.added = FALSE
         \/ \E c \in calls : CallGoesOn(c) /\ d.n = c.n /\ d.added = TRUE
<1>1. \A c \in calls : IsCall(c)
  BY DEF TypeInv, CallsOK
<1>2. CASE CallsKept
  BY <1>2 DEF CallsKept
<1>3. CASE CallsLeft
  <2>1. PICK c \in calls : d = [c EXCEPT !.here = FALSE]
    BY <1>3 DEF CallsLeft, Gone
  <2>2. d.n = c.n /\ d.kind = c.kind /\ d.added = c.added
    BY <1>1, <2>1, CallEdits DEF IsCall
  <2> QED
    BY <2>2
<1>4. CASE CallMade
  BY <1>4 DEF CallMade, Call
<1>5. ASSUME NEW c \in calls, CallGoesOn(c), d \notin calls PROVE d.n = c.n /\ d.added = TRUE
  <2>1. d = [c EXCEPT !.added = TRUE]
    BY <1>5 DEF CallGoesOn
  <2> QED
    BY <1>1, <2>1, CallEdits DEF IsCall
<1> QED
  BY <1>2, <1>3, <1>4, <1>5, CallsStep

\* What is shown stays known.
LEMMA KnownInductive ==
  ASSUME TypeInv, ListedKnown, AddedKnown, JoinKnown, [Next]_vars
  PROVE  ListedKnown' /\ AddedKnown' /\ JoinKnown'
<1> USE KnownStep
<1>1. AddedKnown'
  <2> SUFFICES ASSUME NEW d \in calls', d.added = TRUE PROVE d.n \in Known'
    BY DEF AddedKnown
  <2>1. ASSUME NEW c \in calls, CallGoesOn(c) PROVE c.n \in Known'
    BY <2>1, GoesOnAdds, AddedIsKnown
  <2> QED
    BY <2>1, Heirs DEF AddedKnown
<1>2. JoinKnown'
  <2>1. ASSUME NEW c \in calls, EndJoin(c) PROVE Invited \in Known'
    BY <2>1, JoinAdds, AddedIsKnown
  <2> QED
    BY <2>1, NoticeStep DEF JoinKnown
<1>3. ListedKnown'
  <2>1. ASSUME ActiveKept, DOMAIN listed' \subseteq Known' PROVE ListedKnown'
    BY <2>1 DEF ListedKnown, ActiveKept
  <2>2. CASE ListKept /\ ActiveKept
    BY <2>1, <2>2 DEF ListKept, ListedKnown
  <2>3. CASE ListEmptied /\ ActiveKept
    BY <2>1, <2>3 DEF ListEmptied
  <2>4. CASE ListRead /\ ActiveKept
    <3>1. DOMAIN listed' = MyRooms(memory)'
      BY <2>4, RoomsOfFacts DEF ListRead, GetRooms, MyRooms
    <3> QED
      BY <2>1, <2>4, <3>1
  <2>5. ASSUME NEW c \in calls, ListMissed(c), ActiveKept PROVE ListedKnown'
    BY <2>1, <2>5 DEF ListMissed, ListedKnown
  <2>6. ASSUME NEW c \in calls, ListGrown(c) PROVE ListedKnown'
    <3>1. DOMAIN listed' = DOMAIN listed \cup {c.n} /\ active' = c.n
      BY <2>6, PlusFacts DEF ListGrown
    <3>2. CASE EndCreate(c)
      BY <3>1, <3>2, EndCreateAdds, AddedIsKnown DEF ListedKnown
    <3>3. CASE c.added = TRUE
      BY <3>1, <3>3 DEF ListedKnown, AddedKnown
    <3> QED
      BY <2>6, <3>2, <3>3 DEF ListGrown
  <2> QED
    BY <2>2, <2>3, <2>4, <2>5, <2>6, ListStep
<1> QED
  BY <1>1, <1>2, <1>3

\* The list only has rooms whose calls were made.
LEMMA NumbersInductive ==
  ASSUME TypeInv, ListedNumbers, [Next]_vars PROVE ListedNumbers'
<1>0. made' \in {made, made + 1}
  BY CallsStep DEF CallsKept, CallsLeft, CallMade, Call, CallGoesOn
<1>1. made \in Nat /\ made' \in Nat /\ made <= made'
  BY <1>0 DEF TypeInv, BoundsOK
<1>2. 0..made \subseteq 0..made'
  BY <1>1
<1>3. MyRooms(memory)' \subseteq 0..made'
  BY ProfilesTyped DEF ProfilesOK, MyRooms
<1>4. \A c \in calls : c.n \in 0..made
  <2> SUFFICES ASSUME NEW c \in calls PROVE c.n \in 0..made
    OBVIOUS
  <2>1. c.n \in Nat /\ c.n <= made
    BY CallFields DEF TypeInv, CallsOK
  <2> QED
    BY <2>1, <1>1
<1>5. CASE ListRead
  <2>1. DOMAIN listed' = MyRooms(memory)'
    BY <1>5, RoomsOfFacts DEF ListRead, GetRooms, MyRooms
  <2> QED
    BY <2>1, <1>3 DEF ListedNumbers
<1>6. ASSUME NEW c \in calls, ListGrown(c) PROVE ListedNumbers'
  <2>1. DOMAIN listed' = DOMAIN listed \cup {c.n}
    BY <1>6, PlusFacts DEF ListGrown
  <2> QED
    BY <2>1, <1>2, <1>4 DEF ListedNumbers
<1>7. CASE ListKept \/ ListEmptied \/ \E c \in calls : ListMissed(c)
  BY <1>7, <1>2 DEF ListKept, ListEmptied, ListMissed, ListedNumbers
<1> QED
  BY <1>5, <1>6, <1>7, ListStep

\* No two calls have the same number.
LEMMA OneCallInductive ==
  ASSUME TypeInv, OneCallEach, [Next]_vars PROVE OneCallEach'
<1>1. \A c \in calls : IsCall(c) /\ c.n \in Nat /\ c.n <= made
  BY CallFields DEF TypeInv, CallsOK
<1>2. made \in Nat
  BY DEF TypeInv, BoundsOK
<1>3. CASE CallsKept
  BY <1>3 DEF CallsKept, OneCallEach
<1>4. CASE CallsLeft
  <2> SUFFICES ASSUME NEW d \in calls', NEW e \in calls', d.n = e.n PROVE d = e
    BY DEF OneCallEach
  <2>1. PICK c \in calls : d = [c EXCEPT !.here = FALSE]
    BY <1>4 DEF CallsLeft, Gone
  <2>2. PICK b \in calls : e = [b EXCEPT !.here = FALSE]
    BY <1>4 DEF CallsLeft, Gone
  <2>3. d.n = c.n /\ e.n = b.n
    BY <1>1, <2>1, <2>2, CallEdits DEF IsCall
  <2> QED
    BY <2>1, <2>2, <2>3 DEF OneCallEach
<1>5. CASE CallMade
  <2>0. PICK kind \in CallKinds, here \in BOOLEAN : Call(kind, here)
    BY <1>5 DEF CallMade
  <2>1. PICK new : new = [n |-> made', kind |-> kind, added |-> FALSE, here |-> here]
    OBVIOUS
  <2>2. calls' = calls \cup {new} /\ new.n = made + 1
    BY <2>0, <2>1 DEF Call
  <2> QED
    BY <1>1, <1>2, <2>2 DEF OneCallEach
<1>6. ASSUME NEW c \in calls, CallGoesOn(c) PROVE OneCallEach'
  <2>1. PICK d : d = [c EXCEPT !.added = TRUE]
    OBVIOUS
  <2>2. d.n = c.n /\ calls' = (calls \ {c}) \cup {d}
    BY <1>1, <1>6, <2>1, CallEdits DEF CallGoesOn, IsCall
  <2> QED
    BY <2>2 DEF OneCallEach
<1> QED
  BY <1>3, <1>4, <1>5, <1>6, CallsStep

\* The number of a call that waits is not that of any room.
LEMMA PendingInductive ==
  ASSUME TypeInv, ListedNumbers, OneCallEach, Pending, [Next]_vars PROVE Pending'
<1> SUFFICES ASSUME NEW d \in calls', d.added = FALSE
             PROVE  d.n \notin MyRooms(storage)' /\ d.n \notin DOMAIN listed'
  BY DEF Pending
<1>0. made \in Nat /\ MyRooms(storage) \subseteq 0..made
  BY DEF TypeInv, BoundsOK, ProfilesOK
<1>1. d.n \in Nat /\ Old < d.n
  BY CallsTyped, CallFields DEF CallsOK, IsCall, CallRecords
<1>2. d.n \notin MyRooms(storage) /\ d.n \notin DOMAIN listed
  <2>1. CASE d.n = made + 1
    BY <1>0, <2>1 DEF ListedNumbers
  <2> QED
    BY <2>1, Heirs DEF Pending
<1>3. ASSUME NEW c \in calls, calls' = calls \ {c} PROVE d.n # c.n
  BY <1>3 DEF OneCallEach
<1>4. ASSUME NEW c \in calls, CallGoesOn(c) PROVE d.n # c.n
  <2>1. IsCall(c)
    BY DEF TypeInv, CallsOK
  <2>2. d \in calls /\ d # c
    <3>1. PICK e : e = [c EXCEPT !.added = TRUE]
      OBVIOUS
    <3>2. e.added = TRUE /\ calls' = (calls \ {c}) \cup {e}
      BY <1>4, <2>1, <3>1, CallEdits DEF CallGoesOn, IsCall
    <3> QED
      BY <3>2
  <2> QED
    BY <2>2 DEF OneCallEach
<1>5. d.n \notin MyRooms(storage)'
  <2>1. CASE Unreplaced
    BY <1>2, <2>1 DEF Unreplaced, MyRooms
  <2>2. CASE Replaced
    <3>1. MyRooms(storage)' \subseteq {Old}
      BY <2>2, RegisteredFacts, ExportedFacts DEF Replaced
    <3> QED
      BY <3>1, <1>1 DEF Old
  <2>3. ASSUME NEW c \in calls, RoomAdded(c) PROVE d.n \notin MyRooms(storage)'
    <3>1. d.n # RoomOf(c)
      <4>1. CASE c.kind = "join"
        BY <4>1, <1>1 DEF RoomOf, Invited, Old
      <4>2. CASE c.kind # "join"
        BY <4>2, <2>3, <1>3, <1>4 DEF RoomAdded, RoomOf
      <4> QED
        BY <4>1, <4>2
    <3>2. memory \in {NoProfile, storage}
      BY DEF TypeInv, ProfilesOK
    <3> QED
      BY <1>2, <2>3, <3>1, <3>2 DEF RoomAdded, AddedRoom, MyRooms
  <2> QED
    BY <2>1, <2>2, <2>3, ProfileStep
<1>6. d.n \notin DOMAIN listed'
  <2>1. CASE ListRead
    <3>1. DOMAIN listed' = MyRooms(memory)'
      BY <2>1, RoomsOfFacts DEF ListRead, GetRooms, MyRooms
    <3>2. MyRooms(memory)' \subseteq MyRooms(storage)'
      BY ProfilesTyped DEF ProfilesOK, MyRooms
    <3> QED
      BY <3>1, <3>2, <1>5
  <2>2. ASSUME NEW c \in calls, ListGrown(c) PROVE d.n \notin DOMAIN listed'
    <3>1. DOMAIN listed' = DOMAIN listed \cup {c.n} /\ calls' = calls \ {c}
      BY <2>2, PlusFacts DEF ListGrown
    <3> QED
      BY <3>1, <1>2, <1>3
  <2>3. CASE ListKept \/ ListEmptied \/ \E c \in calls : ListMissed(c)
    BY <1>2, <2>3 DEF ListKept, ListEmptied, ListMissed
  <2> QED
    BY <2>1, <2>2, <2>3, ListStep
<1> QED
  BY <1>5, <1>6

\* A direct room that is in the list before its call ends was read into it.
LEMMA RereadInductive ==
  ASSUME TypeInv, OneCallEach, Pending, AddedReread, [Next]_vars PROVE AddedReread'
<1> SUFFICES ASSUME NEW d \in calls', d.added = TRUE, d.n \in DOMAIN listed' PROVE d.n \in reread'
  BY DEF AddedReread
<1>1. ASSUME d.n \in DOMAIN listed, reread \subseteq reread' PROVE d.n \in reread'
  <2>1. ASSUME NEW c \in calls, CallGoesOn(c) PROVE c.n \notin DOMAIN listed
    BY <2>1 DEF CallGoesOn, Pending
  <2> QED
    BY <1>1, <2>1, Heirs DEF AddedReread
<1>2. CASE ListRead
  <2>1. ASSUME NEW c \in calls, c.added = TRUE PROVE c.n \in reread'
    BY <1>2, <2>1 DEF ListRead, GetRooms
  <2>2. PICK c \in calls : d.n = c.n /\ d.added = c.added
    <3>1. CASE calls' = calls
      BY <3>1
    <3>2. CASE calls' = Gone(calls)
      <4>1. PICK c \in calls : d = [c EXCEPT !.here = FALSE]
        BY <3>2 DEF Gone
      <4>2. IsCall(c)
        BY DEF TypeInv, CallsOK
      <4> QED
        BY <4>1, <4>2, CallEdits DEF IsCall
    <3> QED
      BY <1>2, <3>1, <3>2 DEF ListRead
  <2> QED
    BY <2>1, <2>2
<1>3. ASSUME NEW c \in calls, ListGrown(c) PROVE d.n \in reread'
  <2>1. DOMAIN listed' = DOMAIN listed \cup {c.n} /\ calls' = calls \ {c} /\ reread' = reread
    BY <1>3, PlusFacts DEF ListGrown
  <2>2. d.n # c.n
    BY <2>1 DEF OneCallEach
  <2> QED
    BY <2>1, <2>2, <1>1
<1>4. CASE ListKept \/ ListEmptied \/ \E c \in calls : ListMissed(c)
  BY <1>4, <1>1 DEF ListKept, ListEmptied, ListMissed
<1> QED
  BY <1>2, <1>3, <1>4, ListStep

\* What is not read too early is in the list once.
LEMMA ListedOnceInductive ==
  ASSUME TypeInv, Pending, AddedReread, ListedOnce, [Next]_vars PROVE ListedOnce'
<1>1. CASE ListRead
  <2>1. DOMAIN listed' = MyRooms(memory)' /\ \A r \in MyRooms(memory)' : listed'[r] = 1
    BY <1>1, RoomsOfFacts DEF ListRead, GetRooms, MyRooms
  <2> QED
    BY <2>1 DEF ListedOnce
<1>2. ASSUME NEW c \in calls, ListGrown(c) PROVE ListedOnce'
  <2>1. IsCall(c) /\ c.added \in BOOLEAN
    BY CallFields DEF TypeInv, CallsOK
  <2>2. c.n \notin DOMAIN listed \/ c.n \in reread
    BY <2>1 DEF Pending, AddedReread
  <2>3. listed' = Created(listed, c.n) /\ reread' = reread
    BY <1>2 DEF ListGrown
  <2>4. /\ DOMAIN Created(listed, c.n) = DOMAIN listed \cup {c.n}
        /\ \A s \in DOMAIN listed \ {c.n} : listed[s] = 1 => Created(listed, c.n)[s] = 1
        /\ c.n \notin DOMAIN listed => Created(listed, c.n)[c.n] = 1
    BY PlusFacts
  <2> SUFFICES ASSUME NEW r \in DOMAIN listed' \ reread' PROVE listed'[r] = 1
    BY DEF ListedOnce
  <2> QED
    BY <2>2, <2>3, <2>4, Zenon DEF ListedOnce
<1>3. CASE ListKept \/ ListEmptied \/ \E c \in calls : ListMissed(c)
  BY <1>3 DEF ListKept, ListEmptied, ListMissed, ListedOnce
<1> QED
  BY <1>1, <1>2, <1>3, ListStep

\* Every room of the profile is in the list, missed it or is being added.
LEMMA MissingInductive ==
  ASSUME TypeInv, OneCallEach, MissingKnown, [Next]_vars PROVE MissingKnown'
<1> DEFINE Adding == {c.n : c \in {c \in calls : c.added = TRUE}}
<1> SUFFICES ASSUME Shows("dashboard")', NEW n \in MyRooms(memory)'
             PROVE  n \in DOMAIN listed' \/ n \in unlisted' \/ \E c \in calls' : c.added = TRUE /\ c.n = n
  BY DEF MissingKnown
<1>0. ASSUME Shows("dashboard"), n \in MyRooms(memory)
      PROVE  n \in DOMAIN listed \/ n \in unlisted \/ \E c \in calls : c.added = TRUE /\ c.n = n
  BY <1>0 DEF MissingKnown
<1>1. CASE ListRead
  BY <1>1, RoomsOfFacts DEF ListRead, GetRooms, MyRooms
<1>2. CASE ListEmptied
  BY <1>2 DEF ListEmptied
<1>3. CASE ListKept
  <2>1. memory' # NoProfile
    BY DEF MyRooms
  <2>2. RoomsWatched /\ UNCHANGED <<listed, unlisted>>
    BY <1>3, <2>1 DEF ListKept
  <2>3. CASE n \in MyRooms(memory)
    BY <2>2, <2>3, <1>0 DEF RoomsWatched, AddedStay
  <2>4. CASE n \notin MyRooms(memory)
    <3>1. PICK c \in calls : CallGoesOn(c)
      BY <2>2, <2>4 DEF RoomsWatched, MyRooms
    <3>2. n = c.n
      <4>1. AddedRoom(c.n)
        BY <3>1, GoesOnAdds
      <4> QED
        BY <4>1, <2>4 DEF AddedRoom, MyRooms
    <3>3. PICK d : d = [c EXCEPT !.added = TRUE]
      OBVIOUS
    <3>4. d.n = c.n /\ d.added = TRUE
      BY <3>3, CallEdits DEF TypeInv, CallsOK, IsCall
    <3>5. d \in calls'
      BY <3>1, <3>3 DEF CallGoesOn
    <3> QED
      BY <3>2, <3>4, <3>5
  <2> QED
    BY <2>3, <2>4
<1>4. ASSUME NEW c \in calls, ListMissed(c) PROVE n \in unlisted' \/ (n # c.n /\ n \in MyRooms(memory) /\ Shows("dashboard"))
                                                \/ (c.added = FALSE /\ n \in MyRooms(memory) /\ Shows("dashboard"))
  <2>1. IsCall(c) /\ c.added \in BOOLEAN
    BY CallFields DEF TypeInv, CallsOK
  <2>2. CASE EndDirect(c) /\ c.added = TRUE /\ unlisted' = unlisted \cup {c.n}
    <3>1. UNCHANGED data
      BY <2>2 DEF EndDirect
    <3>2. UNCHANGED <<route, syncing>>
      BY <2>2 DEF EndDirect, ShowCreated, screen
    <3> QED
      BY <2>2, <3>1, <3>2 DEF data, MyRooms, Shows
  <2>3. CASE EndJoin(c) /\ unlisted' = IF Shows("dashboard") THEN unlisted \cup {Invited} ELSE unlisted
    <3>1. Shows("dashboard")
      BY <2>3 DEF EndJoin, screen, Shows
    <3>2. c.added = FALSE
      BY <2>1, <2>3 DEF EndJoin, IsCall
    <3>3. AddedRoom(Invited)
      BY <2>3, JoinAdds
    <3>4. n = Invited \/ n \in MyRooms(memory)
      BY <3>3 DEF AddedRoom, MyRooms
    <3> QED
      BY <2>3, <3>1, <3>2, <3>4
  <2> QED
    BY <1>4, <2>2, <2>3 DEF ListMissed
<1>5. ASSUME NEW c \in calls, ListMissed(c) PROVE n \in DOMAIN listed' \/ n \in unlisted' \/ \E d \in calls' : d.added = TRUE /\ d.n = n
  <2>1. calls' = calls \ {c} /\ listed' = listed /\ unlisted \subseteq unlisted'
    BY <1>5 DEF ListMissed
  <2> QED
    BY <1>0, <1>4, <1>5, <2>1
<1>6. ASSUME NEW c \in calls, ListGrown(c) PROVE n \in DOMAIN listed' \/ n \in unlisted' \/ \E d \in calls' : d.added = TRUE /\ d.n = n
  <2>1. DOMAIN listed' = DOMAIN listed \cup {c.n} /\ calls' = calls \ {c} /\ unlisted' = unlisted
    BY <1>6, PlusFacts DEF ListGrown
  <2>2. n = c.n \/ n \in MyRooms(memory)
    <3>1. CASE EndCreate(c)
      BY <3>1, EndCreateAdds DEF AddedRoom, MyRooms
    <3>2. CASE EndDirect(c)
      BY <3>2 DEF EndDirect, data, MyRooms
    <3> QED
      BY <1>6, <3>1, <3>2 DEF ListGrown
  <2>3. Shows("dashboard")
    BY <1>6 DEF ListGrown, EndCreate, EndDirect, ShowCreated, screen, Shows
  <2> QED
    BY <1>0, <2>1, <2>2, <2>3
<1> QED
  BY <1>1, <1>2, <1>3, <1>5, <1>6, ListStep

\* The rooms that the application shows or reports as added stay in the profile
\* that a reload would find, or were added while it was missing or was replaced;
\* the list is complete and has every room once, with the exceptions named.
THEOREM RoomsInductive ==
  /\ Init => TypeInv /\ RoomsInv
  /\ TypeInv /\ RoomsInv /\ [Next]_vars => (TypeInv /\ RoomsInv)'
<1>1. ASSUME Init PROVE RoomsInv
  <2>1. listed = <<>> /\ active = None /\ calls = {} /\ notice = "" /\ route = "closed"
    BY <1>1 DEF Init
  <2>2. DOMAIN listed = {}
    <3>0. <<>> \in Seq(Nat) /\ Len(<<>>) = 0
      OBVIOUS
    <3>1. listed \in Seq(Nat) /\ Len(listed) = 0
      BY <2>1, <3>0, Zenon
    <3>2. DOMAIN listed = 1..Len(listed)
      BY <3>1
    <3> QED
      BY <3>1, <3>2
  <2> QED
    BY <2>1, <2>2 DEF RoomsInv, ListedKnown, AddedKnown, JoinKnown, ListedNumbers, OneCallEach, Pending,
      AddedReread, ListedOnce, MissingKnown, Shows
<1>2. ASSUME TypeInv, RoomsInv, [Next]_vars PROVE RoomsInv'
  BY <1>2, KnownInductive, NumbersInductive, OneCallInductive, PendingInductive, RereadInductive,
     ListedOnceInductive, MissingInductive DEF RoomsInv
<1> QED
  BY <1>1, <1>2, TypeInvInductive

\* What the application shows is in the stored profile (get_rooms,
\* reducers/chat.ts, persistProfile).
THEOREM ShownRoomsKeptHolds == Spec => []ShownRoomsKept
<1>1. TypeInv /\ RoomsInv => ShownRoomsKept
  BY DEF RoomsInv, ListedKnown, JoinKnown, Known, ShownRoomsKept
<1> QED
  BY <1>1, RoomsInductive, PTL DEF Spec

\* The list has the rooms of the profile, once (CREATE_DIRECT_ROOM, get_rooms).
THEOREM RoomsListedOnceHolds == Spec => []RoomsListedOnce
<1>1. TypeInv /\ RoomsInv => RoomsListedOnce
  <2> SUFFICES ASSUME TypeInv, RoomsInv PROVE RoomsListedOnce
    OBVIOUS
  <2>1. {c \in calls : c.added} = {c \in calls : c.added = TRUE}
    BY CallFields DEF TypeInv, CallsOK
  <2> QED
    BY <2>1 DEF RoomsInv, MissingKnown, ListedOnce, RoomsListedOnce
<1> QED
  BY <1>1, RoomsInductive, PTL DEF Spec

-----------------------------------------------------------------------------
(* What is sent.                                                           *)

\* A submission is under way or was sent once at most; a text that was sent,
\* or whose box is gone, is not in the box; an earlier submission of a text
\* that was not submitted again meanwhile came to nothing; and what was sent
\* is what was submitted.
OneEach      == \A s, z \in sending : s.n = z.n => s = z
SentOnce     == \A m \in sent : \A s \in sending : s.n # m.n
SentTextGone == \A m \in sent : asked[m.n].text # input
GoneTextGone == \A s \in sending : s.here = FALSE => s.text # input
CameToNothing(k) == (\A m \in sent : m.n # k) /\ (\A s \in sending : s.n # k)
AgainMarked  ==
  \A l \in 1..Len(asked) : asked[l].again = FALSE =>
    \A k \in 1..Len(asked) : k < l /\ asked[k].text = asked[l].text => CameToNothing(k)
SentRight    ==
  \A m \in sent :
    decryptMessageSymmetric(m.cipher, generateSymmetricKey(asked[m.n].room)) = asked[m.n].text
SentInv == OneEach /\ SentOnce /\ SentTextGone /\ GoneTextGone /\ AgainMarked /\ SentRight

\* What moves when an init makes another profile manager.
Moved(s) == [s EXCEPT !.old = IF @ = None THEN memory ELSE @]

\* The message is the same.
LEMMA MovedFacts ==
  ASSUME NEW s, IsSending(s)
  PROVE  Moved(s).n = s.n /\ Moved(s).text = s.text /\ Moved(s).here = s.here
BY DEF IsSending, SendRecords, Moved

\* The same for a message whose box has gone.
LEMMA LeftFacts ==
  ASSUME NEW s, IsSending(s)
  PROVE  LET z == [s EXCEPT !.here = FALSE]
         IN  z.n = s.n /\ z.text = s.text /\ z.here = FALSE
BY DEF IsSending, SendRecords

\* Every message under way was under way before, from the same box or from one
\* that is gone, or has just been submitted.
LEMMA SendingHeirs ==
  ASSUME TypeInv, [Next]_vars, NEW z \in sending'
  PROVE  \/ \E s \in sending : z.n = s.n /\ z.text = s.text /\ (z.here = s.here \/ (z.here = FALSE /\ input' = 0))
         \/ Submit /\ z.n = Len(asked) + 1 /\ Len(asked') = Len(asked) + 1 /\ z.text = input /\ z.here = TRUE
<1>1. \A s \in sending : IsSending(s)
  BY DEF TypeInv, BoxOK
<1>2. ASSUME sending' \subseteq sending PROVE \E s \in sending : z.n = s.n /\ z.text = s.text /\ z.here = s.here
  BY <1>2
<1>3. CASE BoxKept \/ BoxClosed \/ Type
  BY <1>2, <1>3 DEF BoxKept, BoxClosed, Type, box
<1>4. CASE BoxLeft
  BY <1>1, <1>4, LeftFacts DEF BoxLeft
<1>5. CASE BoxMoved
  <2>1. PICK s \in sending : z = Moved(s)
    BY <1>5 DEF BoxMoved, Moved
  <2> QED
    BY <1>1, <2>1, MovedFacts
<1>6. CASE Submit
  <2>1. PICK new : new = [n |-> Len(asked'), text |-> input, room |-> active, here |-> TRUE, old |-> None]
    OBVIOUS
  <2>2. PICK a : asked' = Append(asked, a)
    BY <1>6 DEF Submit
  <2>3. Len(asked') = Len(asked) + 1
    <3>1. asked \in Seq(Submissions)
      BY DEF TypeInv, BoxOK
    <3> QED
      BY <3>1, <2>2
  <2>4. sending' = sending \cup {new}
    BY <1>6, <2>1 DEF Submit
  <2> QED
    BY <1>6, <2>1, <2>3, <2>4
<1>7. ASSUME NEW s \in sending, EndSend(s) PROVE sending' \subseteq sending
  BY <1>7 DEF EndSend
<1> QED
  BY <1>2, <1>3, <1>4, <1>5, <1>6, <1>7, BoxStep

\* What is sent was under way, and no longer is.
LEMMA SentStep ==
  ASSUME TypeInv, [Next]_vars, NEW m \in sent', m \notin sent
  PROVE  \E s \in sending :
           /\ m = [n |-> s.n, cipher |-> encryptMessageForRoom(ProfileFor(s), RoomSentTo(s), s.text)]
           /\ m.n = s.n /\ CanSend(s) /\ sending' = sending \ {s} /\ UNCHANGED <<asked, typed>>
           /\ input' = ClearText(s)
<1>1. CASE BoxKept \/ BoxLeft \/ BoxClosed \/ BoxMoved \/ Type \/ Submit
  BY <1>1 DEF BoxKept, BoxLeft, BoxClosed, BoxMoved, Written, Type, Submit
<1>2. ASSUME NEW s \in sending, EndSend(s)
      PROVE  /\ m = [n |-> s.n, cipher |-> encryptMessageForRoom(ProfileFor(s), RoomSentTo(s), s.text)]
             /\ m.n = s.n /\ CanSend(s) /\ sending' = sending \ {s} /\ UNCHANGED <<asked, typed>>
             /\ input' = ClearText(s)
  BY <1>2 DEF EndSend
<1> QED
  BY <1>1, <1>2, BoxStep

\* The texts submitted up to now are not the next one.
LEMMA InputStep ==
  ASSUME TypeInv, [Next]_vars
  PROVE  \/ input' = 0 \/ input' = input
         \/ input' = typed + 1 /\ UNCHANGED <<sending, asked, sent>>
<1>1. CASE BoxKept \/ BoxLeft \/ BoxClosed \/ BoxMoved \/ Type \/ Submit
  BY <1>1 DEF BoxKept, BoxLeft, BoxClosed, BoxMoved, box, Type, Submit
<1>2. ASSUME NEW s \in sending, EndSend(s) PROVE input' = 0 \/ input' = input
  BY <1>2 DEF EndSend, ClearText, TextAfterFailure
<1> QED
  BY <1>1, <1>2, BoxStep

\* A submission keeps its text, which is one that was typed.
LEMMA SubmittedText ==
  ASSUME TypeInv, NEW k \in 1..Len(asked)
  PROVE  asked[k].text \in 1..typed /\ typed \in Nat
<1>1. asked[k] \in Submissions
  BY DEF TypeInv, BoxOK
<1> QED
  BY <1>1 DEF Submissions, TypeInv, BoundsOK

\* No submission is under way twice.
LEMMA OneEachInductive == ASSUME TypeInv, OneEach, [Next]_vars PROVE OneEach'
<1>1. \A s \in sending : IsSending(s) /\ s.n \in 1..Len(asked)
  BY DEF TypeInv, BoxOK, IsSending
<1>2. ASSUME sending' \subseteq sending PROVE OneEach'
  BY <1>2 DEF OneEach
<1>3. CASE BoxKept \/ BoxClosed \/ Type
  BY <1>2, <1>3 DEF BoxKept, BoxClosed, Type, box
<1>4. CASE BoxLeft
  <2> SUFFICES ASSUME NEW y \in sending', NEW z \in sending', y.n = z.n PROVE y = z
    BY DEF OneEach
  <2>1. PICK s \in sending : y = [s EXCEPT !.here = FALSE]
    BY <1>4 DEF BoxLeft
  <2>2. PICK t \in sending : z = [t EXCEPT !.here = FALSE]
    BY <1>4 DEF BoxLeft
  <2>3. y.n = s.n /\ z.n = t.n
    BY <1>1, <2>1, <2>2, LeftFacts
  <2> QED
    BY <2>1, <2>2, <2>3 DEF OneEach
<1>5. CASE BoxMoved
  <2> SUFFICES ASSUME NEW y \in sending', NEW z \in sending', y.n = z.n PROVE y = z
    BY DEF OneEach
  <2>1. PICK s \in sending : y = Moved(s)
    BY <1>5 DEF BoxMoved, Moved
  <2>2. PICK t \in sending : z = Moved(t)
    BY <1>5 DEF BoxMoved, Moved
  <2>3. y.n = s.n /\ z.n = t.n
    BY <1>1, <2>1, <2>2, MovedFacts
  <2> QED
    BY <2>1, <2>2, <2>3 DEF OneEach
<1>6. CASE Submit
  <2>1. PICK new : new = [n |-> Len(asked'), text |-> input, room |-> active, here |-> TRUE, old |-> None]
    OBVIOUS
  <2>2. PICK a : asked' = Append(asked, a)
    BY <1>6 DEF Submit
  <2>3. Len(asked') = Len(asked) + 1 /\ Len(asked) \in Nat
    <3>1. asked \in Seq(Submissions)
      BY DEF TypeInv, BoxOK
    <3> QED
      BY <3>1, <2>2
  <2>4. sending' = sending \cup {new} /\ new.n = Len(asked) + 1
    BY <1>6, <2>1, <2>3 DEF Submit
  <2> QED
    BY <1>1, <2>3, <2>4 DEF OneEach
<1>7. ASSUME NEW s \in sending, EndSend(s) PROVE sending' \subseteq sending
  BY <1>7 DEF EndSend
<1> QED
  BY <1>2, <1>3, <1>4, <1>5, <1>6, <1>7, BoxStep

\* What was sent is not under way.
LEMMA SentOnceInductive == ASSUME TypeInv, OneEach, SentOnce, [Next]_vars PROVE SentOnce'
<1> SUFFICES ASSUME NEW m \in sent', NEW z \in sending' PROVE z.n # m.n
  BY DEF SentOnce
<1>1. CASE m \in sent
  <2>1. m.n \in 1..Len(asked) /\ Len(asked) \in Nat
    BY <1>1, AskedStep DEF TypeInv, BoxOK
  <2>2. m.n # Len(asked) + 1
    BY <2>1
  <2> QED
    BY <1>1, <2>2, SendingHeirs DEF SentOnce
<1>2. CASE m \notin sent
  <2>1. PICK s \in sending : m.n = s.n /\ sending' = sending \ {s}
    BY <1>2, SentStep
  <2> QED
    BY <2>1 DEF OneEach
<1> QED
  BY <1>1, <1>2

\* What was sent is not in the box.
LEMMA SentTextInductive ==
  ASSUME TypeInv, SentTextGone, GoneTextGone, [Next]_vars PROVE SentTextGone'
<1> SUFFICES ASSUME NEW m \in sent' PROVE asked'[m.n].text # input'
  BY DEF SentTextGone
<1>1. CASE m \in sent
  <2>1. m.n \in 1..Len(asked)
    BY <1>1 DEF TypeInv, BoxOK
  <2>2. asked'[m.n] = asked[m.n] /\ asked[m.n].text \in 1..typed /\ typed \in Nat
    BY <2>1, AskedStep, SubmittedText
  <2>3. asked[m.n].text # input
    BY <1>1 DEF SentTextGone
  <2> QED
    BY <2>2, <2>3, InputStep
<1>2. CASE m \notin sent
  <2>1. PICK s \in sending : m.n = s.n /\ asked' = asked /\ input' = ClearText(s)
    BY <1>2, SentStep
  <2>2. IsSending(s)
    BY DEF TypeInv, BoxOK
  <2>3. s.n \in 1..Len(asked) /\ s.text = asked[s.n].text /\ s.here \in BOOLEAN
    BY <2>2 DEF IsSending, SendRecords
  <2>4. s.text # 0
    BY <2>3, SubmittedText
  <2>5. CASE s.here = TRUE
    BY <2>1, <2>3, <2>4, <2>5 DEF ClearText
  <2>6. CASE s.here = FALSE
    BY <2>1, <2>3, <2>6 DEF ClearText, GoneTextGone
  <2> QED
    BY <2>3, <2>5, <2>6
<1> QED
  BY <1>1, <1>2

\* What is sent from a box that is gone is not in the box.
LEMMA GoneTextInductive == ASSUME TypeInv, GoneTextGone, [Next]_vars PROVE GoneTextGone'
<1> SUFFICES ASSUME NEW z \in sending', z.here = FALSE PROVE z.text # input'
  BY DEF GoneTextGone
<1>1. PICK s \in sending : z.text = s.text /\ (z.here = s.here \/ input' = 0)
  BY SendingHeirs
<1>2. s.text \in 1..typed /\ typed \in Nat
  <2>1. s.n \in 1..Len(asked) /\ s.text = asked[s.n].text
    BY DEF TypeInv, BoxOK, IsSending
  <2> QED
    BY <2>1, SubmittedText
<1>3. CASE input' = 0
  BY <1>1, <1>2, <1>3
<1>4. CASE s.here = FALSE
  <2>1. s.text # input
    BY <1>4 DEF GoneTextGone
  <2> QED
    BY <1>1, <1>2, <2>1, InputStep
<1> QED
  BY <1>1, <1>3, <1>4

\* What came to nothing is never sent.
LEMMA NothingStays ==
  ASSUME TypeInv, [Next]_vars, NEW k \in 1..Len(asked), CameToNothing(k) PROVE CameToNothing(k)'
<1>1. ASSUME NEW m \in sent' PROVE m.n # k
  BY SentStep DEF CameToNothing
<1>2. ASSUME NEW z \in sending' PROVE z.n # k
  <2>1. k # Len(asked) + 1
    BY AskedStep
  <2> QED
    BY <2>1, SendingHeirs DEF CameToNothing
<1> QED
  BY <1>1, <1>2 DEF CameToNothing

\* A text that is sent twice was submitted again while it was being sent.
LEMMA AgainInductive ==
  ASSUME TypeInv, SentTextGone, GoneTextGone, AgainMarked, [Next]_vars PROVE AgainMarked'
<1> SUFFICES ASSUME NEW l \in 1..Len(asked'), asked'[l].again = FALSE,
                    NEW k \in 1..Len(asked'), k < l, asked'[k].text = asked'[l].text
             PROVE  CameToNothing(k)'
  BY DEF AgainMarked
<1>0. asked \in Seq(Submissions) /\ Len(asked) \in Nat /\ Len(asked') \in Nat
  BY AskedStep DEF TypeInv, BoxOK
<1>1. CASE l \in 1..Len(asked)
  <2>1. k \in 1..Len(asked) /\ asked'[k] = asked[k] /\ asked'[l] = asked[l]
    <3>1. k \in 1..Len(asked)
      BY <1>0, <1>1
    <3> QED
      BY <1>1, <3>1, AskedStep
  <2> QED
    BY <1>1, <2>1, NothingStays DEF AgainMarked
<1>2. CASE l \notin 1..Len(asked)
  <2>1. Submit
    <3>1. asked' # asked
      BY <1>2
    <3>2. ASSUME NEW s, EndSend(s) PROVE asked' = asked
      BY <3>2 DEF EndSend
    <3> QED
      BY <3>1, <3>2, BoxStep DEF BoxKept, BoxLeft, BoxClosed, BoxMoved, Written, Type
  <2>2. PICK a : a = [text |-> input, room |-> active, again |-> \E s \in sending : s.here /\ s.text = input]
    OBVIOUS
  <2>3. asked' = Append(asked, a) /\ sent' = sent
    BY <2>1, <2>2 DEF Submit
  <2>4. Len(asked') = Len(asked) + 1 /\ asked'[Len(asked) + 1] = a
    BY <1>0, <2>3
  <2>5. l = Len(asked) + 1 /\ k \in 1..Len(asked) /\ asked'[k] = asked[k]
    <3>1. l = Len(asked) + 1 /\ k \in 1..Len(asked)
      BY <1>0, <1>2, <2>4
    <3> QED
      BY <3>1, AskedStep
  <2>6. asked[k].text = input /\ ~ \E s \in sending : s.here /\ s.text = input
    BY <2>2, <2>4, <2>5
  <2>7. ASSUME NEW m \in sent PROVE m.n # k
    BY <2>6 DEF SentTextGone
  <2>8. ASSUME NEW s \in sending PROVE s.n # k
    <3>1. s.text = asked[s.n].text /\ s.here \in BOOLEAN
      BY DEF TypeInv, BoxOK, IsSending, SendRecords
    <3> QED
      BY <2>6, <3>1 DEF GoneTextGone
  <2>9. CameToNothing(k)
    BY <2>7, <2>8 DEF CameToNothing
  <2> QED
    BY <2>5, <2>9, NothingStays
<1> QED
  BY <1>1, <1>2

\* What is sent is what was submitted.
LEMMA RightInductive == ASSUME TypeInv, SentRight, [Next]_vars PROVE SentRight'
<1> SUFFICES ASSUME NEW m \in sent'
             PROVE decryptMessageSymmetric(m.cipher, generateSymmetricKey(asked'[m.n].room)) = asked'[m.n].text
  BY DEF SentRight
<1>1. CASE m \in sent
  <2>1. m.n \in 1..Len(asked)
    BY <1>1 DEF TypeInv, BoxOK
  <2> QED
    BY <1>1, <2>1, AskedStep DEF SentRight
<1>2. CASE m \notin sent
  <2>1. PICK s \in sending :
          /\ m = [n |-> s.n, cipher |-> encryptMessageForRoom(ProfileFor(s), RoomSentTo(s), s.text)]
          /\ m.n = s.n /\ CanSend(s) /\ asked' = asked
    BY <1>2, SentStep
  <2>2. m.cipher = encryptMessageForRoom(ProfileFor(s), s.room, s.text)
    BY <2>1 DEF RoomSentTo
  <2>3. s.text = asked[s.n].text /\ s.room = asked[s.n].room /\ (s.old = None \/ Stored(s.old))
    BY DEF TypeInv, BoxOK, IsSending
  <2>4. Stored(memory)
    BY DEF TypeInv, ProfilesOK, Stored
  <2>5. Stored(ProfileFor(s)) /\ s.room \in MyRooms(ProfileFor(s))
    BY <2>1, <2>3, <2>4 DEF ProfileFor, CanSend, RoomSentTo
  <2>6. GoodProfile(ProfileFor(s))
    BY <2>5 DEF Stored, MyRooms
  <2>7. encryptMessageForRoom(ProfileFor(s), s.room, s.text) # Failed
    BY <2>1 DEF CanSend, RoomSentTo
  <2>8. decryptMessageSymmetric(encryptMessageForRoom(ProfileFor(s), s.room, s.text),
                                generateSymmetricKey(s.room)) = s.text
    BY <2>5, <2>6, <2>7, EncryptedForRoom
  <2> QED
    BY <2>1, <2>2, <2>3, <2>8
<1> QED
  BY <1>1, <1>2

\* The invariant of the box is inductive.
THEOREM SentInductive ==
  /\ Init => TypeInv /\ SentInv
  /\ TypeInv /\ SentInv /\ [Next]_vars => (TypeInv /\ SentInv)'
<1>1. ASSUME Init PROVE SentInv
  <2>1. sending = {} /\ sent = {} /\ asked = <<>>
    BY <1>1 DEF Init
  <2>2. Len(asked) = 0
    BY <2>1
  <2> QED
    BY <2>1, <2>2 DEF SentInv, OneEach, SentOnce, SentTextGone, GoneTextGone, AgainMarked, SentRight
<1>2. ASSUME TypeInv, SentInv, [Next]_vars PROVE SentInv'
  BY <1>2, OneEachInductive, SentOnceInductive, SentTextInductive, GoneTextInductive, AgainInductive,
     RightInductive DEF SentInv
<1> QED
  BY <1>1, <1>2, TypeInvInductive

\* What is sent is the text submitted, for the room that was open then, and
\* twice only if it was submitted again (handleMessageSubmit, sendMessage).
THEOREM SentAsSubmittedHolds == Spec => []SentAsSubmitted
<1>1. TypeInv /\ SentInv => SentAsSubmitted
  <2> SUFFICES ASSUME TypeInv, SentInv PROVE SentAsSubmitted
    OBVIOUS
  <2>1. ASSUME NEW m \in sent, NEW l \in sent, m.n < l.n, asked[m.n].text = asked[l.n].text
        PROVE  asked[l.n].again
    <3>1. m.n \in 1..Len(asked) /\ l.n \in 1..Len(asked)
      BY DEF TypeInv, BoxOK
    <3>2. asked[l.n].again \in BOOLEAN
      <4>1. asked[l.n] \in Submissions
        BY <3>1 DEF TypeInv, BoxOK
      <4> QED
        BY <4>1 DEF Submissions
    <3>3. ~ CameToNothing(m.n)
      BY DEF CameToNothing
    <3> QED
      BY <2>1, <3>1, <3>2, <3>3 DEF SentInv, AgainMarked
  <2> QED
    BY <2>1 DEF SentInv, SentRight, SentAsSubmitted
<1> QED
  BY <1>1, SentInductive, PTL DEF Spec

\* A text disappears from the box that stays only when a message submitted from
\* that box was sent (handleMessageSubmit).
THEOREM TextKeptHolds == Spec => TextKept
<1> DEFINE Kept == input # 0 /\ input' = 0 /\ HasBox /\ HasBox'
                     => \E s \in sending \ sending' : s.here /\ \E m \in sent' \ sent : m.n = s.n
<1>1. ASSUME TypeInv, SentInv, [Next]_vars PROVE Kept
  <2> SUFFICES ASSUME input # 0, input' = 0, HasBox, HasBox'
               PROVE  \E s \in sending \ sending' : s.here /\ \E m \in sent' \ sent : m.n = s.n
    OBVIOUS
  <2>1. ~ (BoxKept \/ BoxLeft \/ BoxClosed \/ BoxMoved \/ Submit)
    BY DEF BoxKept, BoxLeft, BoxClosed, BoxMoved, box, Submit
  <2>2. ~ Type
    <3>1. typed \in Nat
      BY <1>1 DEF TypeInv, BoundsOK
    <3>2. typed + 1 # 0
      BY <3>1
    <3> QED
      BY <3>2 DEF Type
  <2>3. PICK s \in sending : EndSend(s)
    BY <1>1, <2>1, <2>2, BoxStep
  <2>4. PICK m : m = [n |-> s.n, cipher |-> encryptMessageForRoom(ProfileFor(s), RoomSentTo(s), s.text)]
    OBVIOUS
  <2>5. s.here /\ m \in sent' /\ s \notin sending'
    BY <2>3, <2>4 DEF EndSend, ClearText, TextAfterFailure
  <2>6. m.n = s.n /\ m \notin sent
    BY <1>1, <2>4 DEF SentInv, SentOnce
  <2> QED
    BY <2>5, <2>6
<1>2. TypeInv /\ SentInv /\ [Next]_vars => [Kept]_vars
  BY <1>1
<1>3. TextKept <=> [][Kept]_vars
  BY DEF TextKept
<1> HIDE DEF Kept
<1> QED
  BY <1>2, <1>3, SentInductive, PTL DEF Spec
=============================================================================
