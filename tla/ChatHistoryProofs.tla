-------------------------- MODULE ChatHistoryProofs --------------------------
(***************************************************************************)
(* Proofs about ChatHistory for every limit, length of an epoch, delay,    *)
(* age, clock and number of messages and events: its types, that nothing   *)
(* falls between two pages or behind a live message, that what is shown is *)
(* stored, and that the lists shown have no gaps.                          *)
(***************************************************************************)
EXTENDS ChatHistory, SequenceTheorems, FiniteSetTheorems, WellFoundedInduction, TLAPS

Times   == 1..MaxTime
Ciphers == {[sealed |-> "text", with |-> generateSymmetricKey(r)] : r \in Rooms}
Rows    == [epoch : 0..MaxTime, chat_type : {"public", "private"}, message_content : Ciphers]
Logs    == UNION {[S -> Rows] : S \in SUBSET Times}
Lists   == UNION {[S -> SUBSET Times] : S \in SUBSET Rooms}
Loads   == [kind : {"rooms", "room"}, rows : Lists]
Syncs   == [from : Nat, to : Nat, answer : Logs, next : Nat \cup {None}]

ServerOK  == now \in Times /\ log \in Logs /\ publicRooms \in SUBSET Rooms /\ air \in Seq(Times)
ProfileOK ==
  /\ profile \in Profiles \cup {NoProfile} /\ (pc # "closed" => profile # NoProfile)
  /\ \A r \in Rooms : db[r] # {} => r \in MyRooms
DbOK      == db \in [Rooms -> SUBSET Times]
SyncOK    ==
  /\ pc \in {"closed", "request", "save", "done"}
  /\ sync \in Syncs /\ Cardinality(DOMAIN sync.answer) <= Limit
  /\ pc # "save" => sync.answer = <<>>
ViewOK    == chatHistory \in Lists /\ loads \in SUBSET Loads /\ deleting \in SUBSET Rooms
EventsOK  == happened \in 0..MaxEvents
HistoryOK == missed \in SUBSET Times /\ hidden \in SUBSET Times /\ revived \in SUBSET Times

TypeInv == ServerOK /\ ProfileOK /\ DbOK /\ SyncOK /\ ViewOK /\ EventsOK /\ HistoryOK

-----------------------------------------------------------------------------
(* Sets of times.                                                          *)

\* A set of natural numbers that is not empty has a least element.
LEMMA SmallestExists ==
  ASSUME NEW T \in SUBSET Nat, T # {}
  PROVE  \E m \in T : \A k \in T : m <= k
<1> DEFINE R == OpToRel(<, Nat)
<1>1. IsWellFoundedOn(R, Nat)
  BY NatLessThanWellFounded, Zenon
<1>2. \A x, y \in Nat : <<x, y>> \in R <=> x < y
  BY DEF OpToRel
<1> HIDE DEF R
<1>3. PICK m \in T : \A k \in T : <<k, m>> \notin R
  BY <1>1, WFMin
<1>4. ASSUME NEW k \in T PROVE m <= k
  <2>1. k \in Nat /\ m \in Nat /\ ~ (k < m)
    BY <1>2, <1>3
  <2> QED
    BY <2>1
<1> QED
  BY <1>4

\* Max is the largest of a set that is bounded and not empty.
LEMMA MaxFacts ==
  ASSUME NEW n \in Nat, NEW S \in SUBSET (0..n), S # {}
  PROVE  Max(S) \in S /\ \A y \in S : y <= Max(S)
<1>1. PICK T \in SUBSET Nat : \A m \in Nat : m \in T <=> \A y \in S : y <= m
  <2>1. {m \in Nat : \A y \in S : y <= m} \in SUBSET Nat
    OBVIOUS
  <2> QED
    BY <2>1
<1>2. n \in T
  BY <1>1
<1>3. PICK m \in T : \A k \in T : m <= k
  BY <1>2, SmallestExists
<1>4. m \in S
  <2>1. SUFFICES ASSUME m \notin S PROVE FALSE
    OBVIOUS
  <2>2. \A y \in S : y \in Nat /\ y < m
    BY <1>1, <2>1
  <2>3. m - 1 \in Nat /\ \A y \in S : y <= m - 1
    <3>1. PICK x \in S : x \in Nat /\ x < m
      BY <2>2
    <3>2. m - 1 \in Nat
      BY <3>1
    <3>3. ASSUME NEW y \in S PROVE y <= m - 1
      <4>1. y \in Nat /\ y < m
        BY <2>2
      <4> QED
        BY <3>2, <4>1
    <3> QED
      BY <3>2, <3>3
  <2>4. m - 1 \in T
    BY <1>1, <2>3
  <2> QED
    BY <1>3, <2>4
<1>5. m \in S /\ \A y \in S : m >= y
  BY <1>1, <1>4
<1>6. Max(S) \in S /\ \A y \in S : Max(S) >= y
  BY <1>5, Zenon DEF Max
<1> QED
  BY <1>6

\* Sets of times are finite.
LEMMA TimesFinite ==
  ASSUME NEW S \in SUBSET Times
  PROVE  /\ IsFiniteSet(S) /\ Cardinality(S) \in Nat
         /\ \A T \in SUBSET S : Cardinality(T) <= Cardinality(S)
<1>1. MaxTime \in Nat
  BY HistoryAssumption
<1>2. IsFiniteSet(Times)
  BY <1>1, FS_Interval DEF Times
<1>3. IsFiniteSet(S)
  BY <1>2, FS_Subset
<1> QED
  BY <1>3, FS_Subset, FS_CardinalityType

\* The functions that model the collections and the lists.
LEMMA Empties == <<>> \in Logs /\ <<>> \in Lists /\ DOMAIN <<>> = {} /\ Cardinality({}) = 0
<1>1. <<>> \in [{} -> Rows] /\ <<>> \in [{} -> SUBSET Times] /\ DOMAIN <<>> = {}
  OBVIOUS
<1> QED
  BY <1>1, FS_EmptySet DEF Logs, Lists

(* A log or database row set has times as keys and well-formed rows.        *)
LEMMA LogFacts ==
  ASSUME NEW l \in Logs
  PROVE  /\ DOMAIN l \in SUBSET Times
         /\ \A t \in DOMAIN l : /\ l[t] \in Rows /\ l[t].epoch \in Nat /\ l[t].message_content \in Ciphers
         /\ DOMAIN l = {} => l = <<>>
<1>1. PICK S \in SUBSET Times : l \in [S -> Rows]
  BY DEF Logs
<1> QED
  BY <1>1, HistoryAssumption DEF Rows

(* A function from times to rows is a log.                                  *)
LEMMA LogOf ==
  ASSUME NEW S \in SUBSET Times, NEW l, l = [t \in S |-> l[t]], \A t \in S : l[t] \in Rows
  PROVE  l \in Logs /\ DOMAIN l = S
<1>1. l \in [S -> Rows]
  BY Zenon
<1> QED
  BY <1>1 DEF Logs

\* A message added to the log, and messages taken from it.
LEMMA WithFacts ==
  ASSUME NEW l \in Logs, NEW t \in Times, NEW row \in Rows, NEW m, m = With(l, t, row)
  PROVE  /\ m \in Logs /\ DOMAIN m = DOMAIN l \cup {t} /\ m[t] = row
         /\ \A s \in DOMAIN l \ {t} : m[s] = l[s]
<1>1. DOMAIN l \in SUBSET Times /\ \A s \in DOMAIN l : l[s] \in Rows
  BY LogFacts
<1>2. m = [s \in DOMAIN l \cup {t} |-> IF s = t THEN row ELSE l[s]]
  BY DEF With
<1>3. DOMAIN m = DOMAIN l \cup {t} /\ m[t] = row /\ \A s \in DOMAIN l \ {t} : m[s] = l[s]
  BY <1>2
<1>4. PICK S \in SUBSET Times : S = DOMAIN l \cup {t}
  BY <1>1
<1>5. m = [s \in S |-> m[s]] /\ \A s \in S : m[s] \in Rows
  BY <1>1, <1>2, <1>3, <1>4
<1>6. m \in Logs
  BY <1>5, LogOf
<1> QED
  BY <1>3, <1>6

(* Deleting rows (cleanup, DeleteRows) leaves the others as they were.      *)
LEMMA WithoutFacts ==
  ASSUME NEW l \in Logs, NEW D, NEW m, m = Without(l, D)
  PROVE  m \in Logs /\ DOMAIN m = DOMAIN l \ D /\ \A s \in DOMAIN m : m[s] = l[s]
<1>1. DOMAIN l \in SUBSET Times /\ \A s \in DOMAIN l : l[s] \in Rows
  BY LogFacts
<1>2. m = [s \in DOMAIN l \ D |-> l[s]]
  BY DEF Without
<1>3. DOMAIN m = DOMAIN l \ D /\ \A s \in DOMAIN m : m[s] = l[s]
  BY <1>2
<1>4. PICK S \in SUBSET Times : S = DOMAIN l \ D
  BY <1>1
<1>5. m = [s \in S |-> m[s]] /\ \A s \in S : m[s] \in Rows
  BY <1>1, <1>2, <1>3, <1>4
<1>6. m \in Logs
  BY <1>5, LogOf
<1> QED
  BY <1>3, <1>6

\* The messages of one page.
LEMMA PageLog ==
  ASSUME NEW l \in Logs, NEW S \in SUBSET DOMAIN l, NEW m, m = [t \in S |-> l[t]]
  PROVE  m \in Logs /\ DOMAIN m = S /\ \A t \in S : m[t] = l[t]
<1>1. S \in SUBSET Times /\ \A t \in S : l[t] \in Rows
  BY LogFacts
<1>2. DOMAIN m = S /\ \A t \in S : m[t] = l[t]
  OBVIOUS
<1>3. m = [t \in S |-> m[t]] /\ \A t \in S : m[t] \in Rows
  BY <1>1, <1>2
<1>4. m \in Logs
  BY <1>1, <1>3, LogOf
<1> QED
  BY <1>2, <1>4

\* The lists of the rooms.
LEMMA ListFacts ==
  ASSUME NEW l \in Lists
  PROVE  DOMAIN l \in SUBSET Rooms /\ \A r \in DOMAIN l : l[r] \in SUBSET Times
BY DEF Lists

(* A function from rooms to sets of times is a state of the reducer.        *)
LEMMA ListOf ==
  ASSUME NEW S \in SUBSET Rooms, NEW l, l = [r \in S |-> l[r]], \A r \in S : l[r] \in SUBSET Times
  PROVE  l \in Lists /\ DOMAIN l = S
<1>1. l \in [S -> SUBSET Times]
  BY Zenon
<1> QED
  BY <1>1 DEF Lists

(* The list shown for a room holds times.                                   *)
LEMMA ListIn ==
  ASSUME chatHistory \in Lists, NEW r \in Rooms
  PROVE  List(r) \in SUBSET Times
BY ListFacts DEF List

\* What is stored is stored for a room.
LEMMA InStored == \A t : t \in Stored <=> \E r \in Rooms : t \in db[r]
BY DEF Stored

(* The keys of the IndexedDB are times.                                     *)
LEMMA StoredTimes == ASSUME DbOK PROVE Stored \in SUBSET Times
BY InStored DEF DbOK

-----------------------------------------------------------------------------
(* The profile and the messages.                                           *)

\* A profile has rooms 1 and 2 at most, with the keys that were made for them.
LEMMA ProfileParts ==
  ASSUME NEW p \in Profiles
  PROVE  /\ p.rooms \in [RoomTypes -> SUBSET {NewRoom, OthersRoom}]
         /\ p = [Registered EXCEPT !.rooms = p.rooms]
         /\ p.user_public_key = p.user_private_key
         /\ ValidFormat(p)
<1>1. PICK R \in [RoomTypes -> SUBSET {NewRoom, OthersRoom}] : p = [Registered EXCEPT !.rooms = R]
  BY DEF Profiles
<1>2. p.rooms = R /\ p.user_public_key = p.user_private_key /\ DOMAIN p = ProfileKeys
  BY <1>1 DEF Registered, NewProfile, ProfileKeys
<1> QED
  BY <1>1, <1>2 DEF ValidFormat

(* The two rooms, field by field.                                           *)
LEMMA RoomParts ==
  /\ NewRoom.id = own /\ NewRoom.symmetric_key = generateSymmetricKey(own)
  /\ OthersRoom.id = others /\ OthersRoom.symmetric_key = generateSymmetricKey(others)
BY DEF NewRoom, OthersRoom, Room

(* Each room has a key of its own, and none of them is the missing key.     *)
LEMMA KeysDiffer ==
  /\ \A r, x : generateSymmetricKey(r) = generateSymmetricKey(x) <=> r = x
  /\ \A r : generateSymmetricKey(r) # NoKey
BY DEF generateSymmetricKey, NoKey

(* RoomIds returns the identifiers of the rooms in the profile.             *)
LEMMA RoomIdsOf ==
  ASSUME NEW p \in Profiles
  PROVE  /\ \A r : r \in RoomIds(p) <=> \E t \in RoomTypes : \E room \in p.rooms[t] : room.id = r
         /\ RoomIds(p) \in SUBSET Rooms
<1>1. \A r : r \in RoomIds(p) <=> \E t \in RoomTypes : \E room \in p.rooms[t] : room.id = r
  BY DEF RoomIds
<1>2. \A t \in RoomTypes : \A room \in p.rooms[t] : room.id \in Rooms
  BY ProfileParts, RoomParts DEF Rooms
<1> QED
  BY <1>1, <1>2

\* addPublicRoom and addPrivateRoom of one of the two rooms.
LEMMA AddRoomFacts ==
  ASSUME NEW p \in Profiles, NEW type \in RoomTypes, NEW room \in {NewRoom, OthersRoom},
         NEW q, q = AddRoom(p, type, room)
  PROVE  q \in Profiles /\ RoomIds(p) \subseteq RoomIds(q)
<1>1. PICK R \in [RoomTypes -> SUBSET {NewRoom, OthersRoom}] :
        R = p.rooms /\ p = [Registered EXCEPT !.rooms = R]
  BY ProfileParts
<1>2. PICK S \in [RoomTypes -> SUBSET {NewRoom, OthersRoom}] : S = [R EXCEPT ![type] = R[type] \cup {room}]
  <2>1. [R EXCEPT ![type] = R[type] \cup {room}] \in [RoomTypes -> SUBSET {NewRoom, OthersRoom}]
    OBVIOUS
  <2> QED
    BY <2>1
<1>3. q = [p EXCEPT !.rooms = S]
  BY <1>1, <1>2 DEF AddRoom
<1>4. q = [Registered EXCEPT !.rooms = S]
  BY <1>1, <1>3 DEF Registered, NewProfile
<1>5. q \in Profiles /\ q.rooms = S
  BY <1>4 DEF Profiles, Registered, NewProfile
<1>6. \A t \in RoomTypes : R[t] \subseteq S[t]
  BY <1>2
<1>7. ASSUME NEW r \in RoomIds(p) PROVE r \in RoomIds(q)
  <2>1. PICK t \in RoomTypes : \E x \in R[t] : x.id = r
    BY <1>1, RoomIdsOf
  <2>2. \E x \in q.rooms[t] : x.id = r
    BY <1>5, <1>6, <2>1
  <2> QED
    BY <1>5, <2>2, RoomIdsOf
<1> QED
  BY <1>5, <1>7

(* The profiles of a registration and of a recovery are well formed.        *)
LEMMA FirstProfiles == Registered \in Profiles /\ Recovered \in Profiles
<1>1. PICK R \in [RoomTypes -> SUBSET {NewRoom, OthersRoom}] : R = [t \in RoomTypes |-> {}]
  <2>1. [t \in RoomTypes |-> {}] \in [RoomTypes -> SUBSET {NewRoom, OthersRoom}]
    OBVIOUS
  <2> QED
    BY <2>1
<1>2. Registered = [Registered EXCEPT !.rooms = R]
  <2>1. Registered.rooms = R
    BY <1>1 DEF Registered, NewProfile
  <2>2. Registered = [Registered EXCEPT !.rooms = Registered.rooms]
    BY DEF Registered, NewProfile
  <2> QED
    BY <2>1, <2>2
<1>3. Registered \in Profiles
  BY <1>2 DEF Profiles
<1>4. TypeOf(others) \in RoomTypes
  BY DEF TypeOf, RoomTypes
<1> QED
  BY <1>3, <1>4, AddRoomFacts DEF Recovered

(* The rooms a client knows are rooms.                                      *)
LEMMA MyRoomsIn == ASSUME profile \in Profiles \cup {NoProfile} PROVE MyRooms \in SUBSET Rooms
BY RoomIdsOf DEF MyRooms

\* A message is encrypted with the key of its room, whether the user is in it or not.
LEMMA ContentFacts ==
  ASSUME profile \in Profiles \cup {NoProfile}, NEW r \in Rooms
  PROVE  Content(r) = [sealed |-> "text", with |-> generateSymmetricKey(r)]
<1>1. encryptMessageSymmetric("text", generateSymmetricKey(r)) = [sealed |-> "text", with |-> generateSymmetricKey(r)]
  BY KeysDiffer DEF encryptMessageSymmetric
<1>2. ASSUME r \in MyRooms
      PROVE  RoomById(profile, r).room.symmetric_key = generateSymmetricKey(r)
  <2>1. profile \in Profiles /\ r \in RoomIds(profile)
    BY <1>2 DEF MyRooms
  <2>2. PICK t \in RoomTypes : \E room \in profile.rooms[t] : room.id = r
    BY <2>1, RoomIdsOf
  <2> DEFINE having(u) == {[type |-> u, room |-> x] : x \in {x \in profile.rooms[u] : x.id = r}}
  <2>3. having(t) # {} /\ t \in {"public", "private", "direct"}
    BY <2>2 DEF RoomTypes
  <2>4. RoomsById(profile, r) # {} /\ \E u \in RoomTypes : RoomsById(profile, r) = having(u)
    BY <2>3 DEF RoomsById, RoomTypes
  <2>5. PICK u \in RoomTypes : RoomsById(profile, r) = having(u)
    BY <2>4
  <2>6. \A found \in having(u) : found.room \in profile.rooms[u] /\ found.room.id = r
    OBVIOUS
  <2> HIDE DEF having
  <2>7. RoomById(profile, r) \in having(u)
    BY <2>4, <2>5 DEF RoomById
  <2>8. RoomById(profile, r).room \in {NewRoom, OthersRoom} /\ RoomById(profile, r).room.id = r
    BY <2>1, <2>6, <2>7, ProfileParts
  <2> QED
    BY <2>8, RoomParts DEF own, others
<1> QED
  BY <1>1, <1>2 DEF Content, encryptMessageForRoom

(* Every ciphertext was made with the key of a room.                        *)
LEMMA CipherOf == \A c \in Ciphers : \E r \in Rooms : c.with = generateSymmetricKey(r)
BY DEF Ciphers

(* What is sent to a room is encrypted with the key of the room.            *)
LEMMA ContentIn ==
  ASSUME profile \in Profiles \cup {NoProfile}, NEW r \in Rooms
  PROVE  Content(r) \in Ciphers /\ Content(r).with = generateSymmetricKey(r)
BY ContentFacts DEF Ciphers

\* A message is saved for the room it was encrypted for and for no other.
LEMMA SaveFacts ==
  ASSUME profile \in Profiles, profile # NoProfile, DbOK, NEW t \in Times, NEW row \in Rows,
         NEW x \in Rooms, row.message_content.with = generateSymmetricKey(x), Save(t, row)
  PROVE  /\ profile' = profile
         /\ \/ db' = db /\ missed' = missed \cup {t}
            \/ x \in MyRooms /\ db' = [db EXCEPT ![x] = db[x] \cup {t}] /\ missed' = missed \ {t}
<1>1. PICK found : found = RoomsDecrypting(profile, row.chat_type, row.message_content)
  OBVIOUS
<1>2. ASSUME NEW r \in found PROVE r.id = x /\ r.id \in RoomIds(profile)
  <2>1. /\ r \in RoomsForChatType(profile, row.chat_type)
        /\ decryptMessageSymmetric(row.message_content, r.symmetric_key) # Failed
    BY <1>1 DEF RoomsDecrypting
  <2>2. row.chat_type \in RoomTypes /\ r \in profile.rooms[row.chat_type]
    BY <2>1 DEF RoomsForChatType
  <2>3. r \in {NewRoom, OthersRoom} /\ r.id \in RoomIds(profile)
    BY <2>2, ProfileParts, RoomIdsOf
  <2>4. r.symmetric_key = generateSymmetricKey(x)
    BY <2>1 DEF decryptMessageSymmetric
  <2> QED
    BY <2>3, <2>4, RoomParts, KeysDiffer
<1>3. PICK rooms : rooms = {r.id : r \in found}
  OBVIOUS
<1>4. /\ db' = [r \in Rooms |-> IF r \in rooms THEN db[r] \cup {t} ELSE db[r]]
      /\ missed' = (IF rooms = {} THEN missed \cup {t} ELSE missed \ {t})
      /\ profile' = profile
  BY <1>1, <1>3 DEF Save
<1>5. rooms = {} \/ (rooms = {x} /\ x \in RoomIds(profile))
  BY <1>2, <1>3
<1>6. CASE rooms = {}
  BY <1>4, <1>6 DEF DbOK
<1>7. CASE rooms = {x} /\ x \in RoomIds(profile)
  <2>1. x \in MyRooms
    BY <1>7 DEF MyRooms
  <2>2. db' = [db EXCEPT ![x] = db[x] \cup {t}]
    BY <1>4, <1>7 DEF DbOK
  <2>3. missed' = missed \ {t}
    BY <1>4, <1>7
  <2> QED
    BY <1>4, <2>1, <2>2, <2>3
<1> QED
  BY <1>5, <1>6, <1>7

-----------------------------------------------------------------------------
(* Pages, frames and reads.                                                *)

\* A page is the whole range unless it is full; what is left of the range has no
\* earlier epoch.
LEMMA PageFacts ==
  ASSUME ServerOK, NEW page \in Pages
  PROVE  /\ page \in SUBSET InRange /\ InRange \in SUBSET DOMAIN log /\ page \in SUBSET Times
         /\ Cardinality(page) <= Limit
         /\ Cardinality(page) # Limit => page = InRange
         /\ \A s \in page, t \in InRange \ page : log[s].epoch <= log[t].epoch
<1>1. /\ page \in SUBSET InRange /\ InRange \in SUBSET DOMAIN log
      /\ Cardinality(page) = IF Cardinality(InRange) < Limit THEN Cardinality(InRange) ELSE Limit
      /\ \A s \in page, t \in InRange \ page : log[s].epoch <= log[t].epoch
  BY DEF Pages, InRange
<1>2. InRange \in SUBSET Times
  BY <1>1, LogFacts DEF ServerOK
<1>3. IsFiniteSet(InRange) /\ Cardinality(InRange) \in Nat /\ Limit \in Nat
  BY <1>2, TimesFinite, HistoryAssumption
<1>4. Cardinality(page) <= Limit
  BY <1>1, <1>3
<1>5. Cardinality(page) # Limit => Cardinality(page) = Cardinality(InRange)
  BY <1>1
<1>6. Cardinality(page) = Cardinality(InRange) => page = InRange
  BY <1>1, <1>3, FS_Subset
<1> QED
  BY <1>1, <1>2, <1>4, <1>5, <1>6

\* The next page starts after the last epoch of a full one.
LEMMA NextFacts ==
  ASSUME ServerOK, NEW page \in Pages, Cardinality(page) = Limit
  PROVE  /\ NextFrom(page) \in Nat
         /\ \E s \in page : NextFrom(page) = log[s].epoch + 1
<1>1. page \in SUBSET DOMAIN log /\ page # {}
  BY PageFacts, HistoryAssumption, FS_EmptySet
<1>2. \A t \in page : log[t].epoch \in 0..MaxTime
  BY <1>1, LogFacts DEF ServerOK, Rows
<1>3. PICK E \in SUBSET (0..MaxTime) : E = {log[t].epoch : t \in page}
  BY <1>2
<1>4. E # {} /\ MaxTime \in Nat
  BY <1>1, <1>3, HistoryAssumption
<1>5. Max(E) \in E
  BY <1>4, MaxFacts
<1>6. NextFrom(page) = Max(E) + 1
  BY <1>3 DEF NextFrom
<1>7. PICK s \in page : Max(E) = log[s].epoch
  BY <1>3, <1>5
<1> QED
  BY <1>2, <1>6, <1>7, HistoryAssumption

\* The frames come in the order in which they were sent.
Sorted == \A i, j \in 1..Len(air) : i < j => air[i] < air[j]

(* OnTheWay is the set of the elements of the sequence air.                 *)
LEMMA AirIs ==
  ASSUME air \in Seq(Times)
  PROVE  /\ \A a : a \in OnTheWay <=> \E i \in 1..Len(air) : air[i] = a
         /\ OnTheWay \in SUBSET Times
         /\ air = <<>> => OnTheWay = {}
<1>1. DOMAIN air = 1..Len(air) /\ \A i \in 1..Len(air) : air[i] \in Times
  OBVIOUS
<1>2. air = <<>> => Len(air) = 0
  OBVIOUS
<1> QED
  BY <1>1, <1>2 DEF OnTheWay

(* Taking the first broadcast removes the earliest message that is on its   *)
(* way.                                                                     *)
LEMMA AirPop ==
  ASSUME air \in Seq(Times), Sorted, air # <<>>, air' = Tail(air)
  PROVE  /\ air' \in Seq(Times) /\ Sorted'
         /\ Head(air) \in OnTheWay /\ Head(air) \in Times
         /\ OnTheWay' = OnTheWay \ {Head(air)}
         /\ \A a \in OnTheWay : Head(air) <= a
<1>1. PICK n \in Nat : n = Len(air) /\ n > 0 /\ Len(Tail(air)) = n - 1
  OBVIOUS
<1>2. PICK b \in Seq(Times) : /\ b = Tail(air) /\ Len(b) = n - 1
                              /\ \A i \in 1..(n - 1) : b[i] = air[i + 1]
  <2>1. PICK b : b = Tail(air)
    OBVIOUS
  <2>2. b \in Seq(Times) /\ Len(b) = n - 1 /\ \A i \in 1..Len(b) : b[i] = air[i + 1]
    BY <1>1, <2>1, HeadTailProperties
  <2> QED
    BY <2>1, <2>2
<1>3. Head(air) = air[1] /\ 1 \in 1..n
  BY <1>1
<1>4. Times \subseteq Nat
  BY DEF Times
<1>5. \A i \in 1..n : air[i] \in Nat /\ air[i] \in Times
  <2>1. \A i \in 1..Len(air) : air[i] \in Times
    OBVIOUS
  <2> QED
    BY <1>1, <1>4, <2>1
<1>6. \A i, j \in 1..(n - 1) : i < j => b[i] < b[j]
  BY <1>1, <1>2 DEF Sorted
<1>7. Sorted' /\ air' \in Seq(Times)
  BY <1>2, <1>6 DEF Sorted
<1>8. \A i \in 1..n : i = 1 \/ air[1] < air[i]
  BY <1>1, <1>3 DEF Sorted
<1>9. \A a : a \in OnTheWay <=> \E i \in 1..n : air[i] = a
  BY <1>1, AirIs
<1>10. OnTheWay' = {b[i] : i \in 1..(n - 1)}
  <2>1. DOMAIN b = 1..(n - 1) /\ air' = b
    BY <1>2
  <2> QED
    BY <2>1 DEF OnTheWay
<1>11. ASSUME NEW a PROVE a \in OnTheWay' <=> a \in OnTheWay \ {air[1]}
  <2>1. ASSUME NEW i \in 1..(n - 1), b[i] = a PROVE a \in OnTheWay /\ a # air[1]
    <3>1. i + 1 \in 1..n /\ i + 1 # 1 /\ air[i + 1] = a
      BY <1>1, <1>2, <2>1
    <3> QED
      BY <1>3, <1>5, <1>8, <1>9, <3>1
  <2>2. ASSUME NEW i \in 1..n, air[i] = a, a # air[1] PROVE a \in OnTheWay'
    <3>1. i - 1 \in 1..(n - 1) /\ (i - 1) + 1 = i
      BY <1>1, <2>2
    <3>2. b[i - 1] = a
      BY <1>2, <2>2, <3>1
    <3> QED
      BY <1>10, <3>1, <3>2
  <2> QED
    BY <1>9, <1>10, <2>1, <2>2
<1>12. \A a \in OnTheWay : Head(air) <= a
  BY <1>3, <1>5, <1>8, <1>9
<1> QED
  BY <1>3, <1>5, <1>7, <1>9, <1>11, <1>12

(* A message later than all others can be broadcast last.                   *)
LEMMA AirAppend ==
  ASSUME air \in Seq(Times), Sorted, NEW t \in Times, air' = Append(air, t),
         \A a \in OnTheWay : a < t
  PROVE  air' \in Seq(Times) /\ Sorted' /\ OnTheWay' = OnTheWay \cup {t}
<1>1. PICK n \in Nat : n = Len(air)
  OBVIOUS
<1>2. PICK b \in Seq(Times) : /\ b = Append(air, t) /\ Len(b) = n + 1 /\ b[n + 1] = t
                              /\ \A i \in 1..n : b[i] = air[i]
  BY <1>1, AppendProperties
<1>3. \A a : a \in OnTheWay <=> \E i \in 1..n : air[i] = a
  BY <1>1, AirIs
<1>4. ASSUME NEW i \in 1..(n + 1), NEW j \in 1..(n + 1), i < j PROVE b[i] < b[j]
  <2>1. i \in 1..n /\ b[i] = air[i]
    BY <1>2, <1>4
  <2>2. CASE j = n + 1
    BY <1>2, <1>3, <2>1, <2>2
  <2>3. CASE j # n + 1
    <3>1. j \in 1..n /\ b[j] = air[j]
      BY <1>2, <2>3
    <3> QED
      BY <1>1, <1>4, <2>1, <3>1 DEF Sorted
  <2> QED
    BY <2>2, <2>3
<1>5. OnTheWay' = {b[i] : i \in 1..(n + 1)}
  BY <1>2 DEF OnTheWay
<1>6. ASSUME NEW a PROVE a \in OnTheWay' <=> a \in OnTheWay \cup {t}
  <2>1. n + 1 \in 1..(n + 1) /\ \A i \in 1..n : i \in 1..(n + 1)
    OBVIOUS
  <2>2. \A i \in 1..(n + 1) : i \in 1..n \/ i = n + 1
    OBVIOUS
  <2> QED
    BY <1>2, <1>3, <1>5, <2>1, <2>2
<1> QED
  BY <1>2, <1>4, <1>6 DEF Sorted

\* A read returns the last rows before a time: none of those that follow one is left out.
LEMMA ReadFacts ==
  ASSUME DbOK, NEW r \in Rooms, NEW before \in Nat
  PROVE  /\ getMessagesForRoom(r, before) \in SUBSET db[r]
         /\ \A s \in getMessagesForRoom(r, before), t \in db[r] :
              s < t /\ t < before => t \in getMessagesForRoom(r, before)
<1>1. getMessagesForRoom(r, before) \in SUBSET db[r]
  BY DEF getMessagesForRoom
<1>2. ASSUME NEW s \in getMessagesForRoom(r, before), NEW t \in db[r], s < t, t < before
      PROVE  t \in getMessagesForRoom(r, before)
  <2> DEFINE After(x) == {y \in db[r] : x < y /\ y < before}
  <2>1. s \in Nat /\ t \in Nat /\ db[r] \in SUBSET Times /\ Times \subseteq Nat
    BY <1>1 DEF DbOK, Times
  <2>2. After(t) \in SUBSET After(s) /\ After(s) \in SUBSET Times
    <3>1. ASSUME NEW y \in db[r], t < y PROVE s < y
      <4>1. y \in Nat
        BY <2>1
      <4> QED
        BY <1>2, <2>1, <3>1, <4>1
    <3>2. After(t) \subseteq After(s)
      BY <3>1
    <3>3. After(s) \subseteq db[r]
      OBVIOUS
    <3> QED
      BY <2>1, <3>2, <3>3
  <2>3. After(t) \in SUBSET Times
    BY <2>2
  <2>4. Cardinality(After(s)) < ShowLimit
    BY DEF getMessagesForRoom
  <2> HIDE DEF After
  <2>5. Cardinality(After(t)) <= Cardinality(After(s))
    BY <2>2, TimesFinite
  <2>6. Cardinality(After(t)) \in Nat /\ Cardinality(After(s)) \in Nat /\ ShowLimit \in Nat
    BY <2>2, <2>3, TimesFinite, HistoryAssumption
  <2>7. Cardinality(After(t)) < ShowLimit
    BY <2>4, <2>5, <2>6
  <2> QED
    BY <1>2, <2>7 DEF getMessagesForRoom, After
<1> QED
  BY <1>1, <1>2

\* What the client has nothing of it asks for from the start, and else from after the
\* newest message it has.
LEMMA FirstFromFacts ==
  ASSUME DbOK
  PROVE  /\ FirstFrom \in Nat
         /\ \A t \in Nat : t < FirstFrom <=> \E s \in Stored : t <= s
<1>1. CASE Stored = {}
  BY <1>1 DEF FirstFrom
<1>2. CASE Stored # {}
  <2>1. Stored \in SUBSET (0..MaxTime) /\ MaxTime \in Nat
    BY StoredTimes, HistoryAssumption DEF Times
  <2>2. PICK m \in Nat : m = Max(Stored) /\ m \in Stored /\ \A s \in Stored : s <= m
    <3>1. Max(Stored) \in Stored /\ \A s \in Stored : s <= Max(Stored)
      BY <1>2, <2>1, MaxFacts
    <3>2. Max(Stored) \in 0..MaxTime
      BY <2>1, <3>1, Zenon
    <3>3. Max(Stored) \in Nat
      BY <2>1, <3>2
    <3> QED
      BY <3>1, <3>3
  <2>3. FirstFrom = m + 1
    BY <1>2, <2>2 DEF FirstFrom, getMaxTimestampForAllMessages
  <2>4. \A s \in Stored : s \in Nat
    BY <2>1
  <2>5. \A t \in Nat : t < m + 1 <=> t <= m
    BY <2>2
  <2> QED
    BY <2>2, <2>3, <2>4, <2>5
<1> QED
  BY <1>1, <1>2

-----------------------------------------------------------------------------
(* Types.                                                                  *)

\* The locals of a synchronisation with another page, or another start.
LEMMA SyncParts ==
  ASSUME sync \in Syncs
  PROVE  /\ sync.from \in Nat /\ sync.to \in Nat /\ sync.answer \in Logs /\ sync.next \in Nat \cup {None}
         /\ \A a \in Logs : \A n \in Nat \cup {None} :
              LET s == [sync EXCEPT !.answer = a, !.next = n]
              IN  s \in Syncs /\ s.answer = a /\ s.next = n /\ s.from = sync.from /\ s.to = sync.to
         /\ \A a \in Logs :
              LET s == [sync EXCEPT !.answer = a]
              IN  s \in Syncs /\ s.answer = a /\ s.next = sync.next /\ s.from = sync.from /\ s.to = sync.to
         /\ \A f \in Nat :
              LET s == [sync EXCEPT !.from = f]
              IN  s \in Syncs /\ s.answer = sync.answer /\ s.next = sync.next /\ s.from = f /\ s.to = sync.to
BY DEF Syncs

(* A synchronisation that begins has no answer and no page to ask for next. *)
LEMMA NewSyncs ==
  /\ NoSync \in Syncs /\ NoSync.answer = <<>> /\ NoSync.next = None
  /\ \A f, t \in Nat :
       LET s == [NoSync EXCEPT !.from = f, !.to = t]
       IN  s \in Syncs /\ s.answer = <<>> /\ s.next = None /\ s.from = f /\ s.to = t
BY Empties DEF NoSync, Syncs

\* Saving a message of the log or of a page.
LEMMA SavedTypes ==
  ASSUME ProfileOK, DbOK, HistoryOK, pc # "closed", NEW t \in Times, NEW row \in Rows, Save(t, row)
  PROVE  /\ ProfileOK' /\ DbOK' /\ missed' \in SUBSET Times /\ profile' = profile
         /\ \A x : x \in Stored' => x \in Stored \cup {t}
         /\ Stored \subseteq Stored'
         /\ t \in Stored' \cup missed' /\ missed \subseteq missed' \cup {t}
<1>1. profile \in Profiles /\ profile # NoProfile
  BY DEF ProfileOK
<1>2. row.message_content \in Ciphers
  BY DEF Rows
<1>3. PICK x \in Rooms : row.message_content.with = generateSymmetricKey(x)
  BY <1>2, CipherOf
<1>4. profile' = profile /\ MyRooms' = MyRooms
  BY <1>1, <1>3, SaveFacts DEF MyRooms
<1>5. CASE db' = db /\ missed' = missed \cup {t}
  BY <1>1, <1>4, <1>5 DEF ProfileOK, DbOK, HistoryOK, Stored
<1>6. CASE x \in MyRooms /\ db' = [db EXCEPT ![x] = db[x] \cup {t}] /\ missed' = missed \ {t}
  <2>1. /\ db' \in [Rooms -> SUBSET Times] /\ db'[x] = db[x] \cup {t}
        /\ \A r \in Rooms \ {x} : db'[r] = db[r]
    BY <1>6 DEF DbOK
  <2>2. ProfileOK' /\ DbOK' /\ missed' \in SUBSET Times
    BY <1>1, <1>4, <1>6, <2>1 DEF ProfileOK, DbOK, HistoryOK
  <2>3. \A y : y \in Stored' <=> y \in Stored \cup {t}
    BY <2>1, InStored DEF Stored
  <2> QED
    BY <1>4, <1>6, <2>2, <2>3
<1> QED
  BY <1>1, <1>3, <1>5, <1>6, SaveFacts

\* A message of any member is stored and published.
LEMMA TypePersist ==
  ASSUME TypeInv, NEW r \in Rooms, Persist(r)
  PROVE  /\ TypeInv'
         /\ \E row \in Rows : row.epoch < now /\ row.message_content = Content(r) /\ log' = With(log, now, row)
         /\ now' = now + 1
<1>1. now \in Times /\ now \in Nat /\ log \in Logs /\ now' = now + 1 /\ now < MaxTime /\ MaxTime \in Nat
  BY HistoryAssumption DEF TypeInv, ServerOK, Times, Persist
<1>2. now' \in Times
  BY <1>1 DEF Times
<1>3. PICK e \in Epochs(now) :
        log' = With(log, now, [epoch |-> e, chat_type |-> TypeOf(r), message_content |-> Content(r)])
  BY DEF Persist
<1>4. e \in 0..MaxTime /\ e < now
  BY <1>1 DEF Epochs
<1>5. TypeOf(r) \in {"public", "private"}
  BY DEF TypeOf
<1>6. Content(r) \in Ciphers
  BY ContentIn DEF TypeInv, ProfileOK
<1>7. PICK row \in Rows : /\ row = [epoch |-> e, chat_type |-> TypeOf(r), message_content |-> Content(r)]
                          /\ row.epoch < now /\ row.message_content = Content(r)
  <2>1. PICK row : row = [epoch |-> e, chat_type |-> TypeOf(r), message_content |-> Content(r)]
    OBVIOUS
  <2>2. row.epoch = e /\ row.message_content = Content(r)
    BY <2>1
  <2>3. row \in Rows
    BY <1>4, <1>5, <1>6, <2>1 DEF Rows
  <2> QED
    BY <1>4, <2>1, <2>2, <2>3
<1>8. log' = With(log, now, row)
  BY <1>3, <1>7
<1>9. log' \in Logs
  BY <1>1, <1>8, WithFacts
<1>10. air' \in Seq(Times)
  BY <1>1 DEF Persist, TypeInv, ServerOK
<1>11. ServerOK' /\ UNCHANGED <<publicRooms, store, syncer, view, happened, history>>
  BY <1>2, <1>9, <1>10 DEF TypeInv, ServerOK, Persist
<1>12. TypeInv'
  BY <1>11 DEF TypeInv, ProfileOK, MyRooms, DbOK, SyncOK, ViewOK, EventsOK, HistoryOK,
               store, syncer, view, history
<1> QED
  BY <1>1, <1>7, <1>8, <1>12

\* The clock advances, and old messages are deleted.
LEMMA TypeServer ==
  ASSUME TypeInv, Tick \/ Cleanup
  PROVE  TypeInv' /\ log' \in Logs /\ DOMAIN log' \subseteq DOMAIN log /\ \A t \in DOMAIN log' : log'[t] = log[t]
<1>1. now \in Times /\ log \in Logs
  BY DEF TypeInv, ServerOK
<1>2. now' \in Times
  BY <1>1, HistoryAssumption DEF Times, Tick, Cleanup
<1>3. log' \in Logs /\ DOMAIN log' \subseteq DOMAIN log /\ \A t \in DOMAIN log' : log'[t] = log[t]
  <2>1. CASE Tick
    BY <1>1, <2>1 DEF Tick
  <2>2. CASE Cleanup
    <3>1. PICK old : log' = Without(log, old)
      BY <2>2 DEF Cleanup
    <3>2. PICK m : m = Without(log, old)
      OBVIOUS
    <3>3. m \in Logs /\ DOMAIN m = DOMAIN log \ old /\ \A s \in DOMAIN m : m[s] = log[s]
      BY <1>1, <3>2, WithoutFacts
    <3>4. log' = m
      BY <3>1, <3>2
    <3> QED
      BY <3>3, <3>4
  <2> QED
    BY <2>1, <2>2
<1>4. UNCHANGED <<publicRooms, air, store, syncer, view, happened, history>>
  BY DEF Tick, Cleanup
<1>5. ServerOK'
  BY <1>2, <1>3, <1>4 DEF TypeInv, ServerOK
<1> QED
  BY <1>3, <1>4, <1>5 DEF TypeInv, ProfileOK, MyRooms, DbOK, SyncOK, ViewOK, EventsOK, HistoryOK,
               store, syncer, view, history

\* The application starts, with a new profile or the stored one.
LEMMA TypeOpen ==
  ASSUME TypeInv, Register \/ Open
  PROVE  /\ TypeInv' /\ db' = db
         /\ Open => sync'.from = FirstFrom /\ sync'.to \in Nat /\ now <= sync'.to
<1>1. UNCHANGED <<server, air, db, view, happened, hidden, revived>> /\ pc = "closed" /\ sync.answer = <<>>
  BY DEF Register, Open, store, TypeInv, SyncOK
<1>2. ServerOK' /\ DbOK' /\ ViewOK' /\ EventsOK'
  BY <1>1 DEF TypeInv, ServerOK, DbOK, ViewOK, EventsOK, server, view
<1>3. CASE Register
  <2>1. profile = NoProfile /\ profile' = Registered /\ pc' = "done" /\ sync' = sync /\ missed' = DOMAIN log
    BY <1>3 DEF Register
  <2>2. \A r \in Rooms : db[r] = {}
    BY <2>1 DEF TypeInv, ProfileOK, MyRooms
  <2>3. ProfileOK'
    BY <1>1, <2>1, <2>2, FirstProfiles, HistoryAssumption DEF ProfileOK
  <2>4. SyncOK'
    BY <1>1, <2>1 DEF TypeInv, SyncOK
  <2>5. HistoryOK'
    BY <1>1, <2>1, LogFacts DEF TypeInv, HistoryOK, ServerOK
  <2> QED
    BY <1>1, <1>2, <1>3, <2>3, <2>4, <2>5 DEF TypeInv, Register, Open
<1>4. CASE Open
  <2>1. profile' = profile /\ profile # NoProfile /\ pc' = "request" /\ missed' \subseteq missed
    BY <1>4 DEF Open, CanLoadProfile, store
  <2>2. PICK d \in 0..Ahead : sync' = [NoSync EXCEPT !.from = FirstFrom, !.to = now + d]
    BY <1>4 DEF Open
  <2>3. FirstFrom \in Nat /\ now \in Nat /\ now + d \in Nat /\ now <= now + d
    BY FirstFromFacts, HistoryAssumption DEF TypeInv, ServerOK, Times
  <2>4. sync' \in Syncs /\ sync'.answer = <<>> /\ sync'.from = FirstFrom /\ sync'.to = now + d
    BY <2>2, <2>3, NewSyncs
  <2>5. SyncOK'
    BY <2>1, <2>4, Empties, HistoryAssumption DEF SyncOK
  <2>6. ProfileOK'
    BY <1>1, <2>1 DEF TypeInv, ProfileOK, MyRooms
  <2>7. HistoryOK'
    BY <1>1, <2>1 DEF TypeInv, HistoryOK
  <2> QED
    BY <1>1, <1>2, <2>3, <2>4, <2>5, <2>6, <2>7 DEF TypeInv
<1> QED
  BY <1>3, <1>4

(* Faults, scrolls and deletions stay within their bounds.                  *)
LEMMA EventStep == ASSUME EventsOK, Event \/ NoEvent PROVE EventsOK'
<1>1. CASE Event
  BY <1>1, HistoryAssumption DEF EventsOK, Event
<1>2. CASE NoEvent
  BY <1>2 DEF EventsOK, NoEvent
<1> QED
  BY <1>1, <1>2

\* A page of the range arrives, or none.
PageArrived(page) ==
  /\ page \in Pages /\ missed' = missed
  /\ DOMAIN sync'.answer = page /\ \A t \in page : sync'.answer[t] = log[t]
  /\ sync'.next = IF Cardinality(page) = Limit THEN NextFrom(page) ELSE None
NothingArrived ==
  /\ missed' = missed \cup (InRange \ Stored) /\ sync'.answer = <<>> /\ sync'.next = None

(* Fetch keeps the types; it is a failed request or the arrival of a page.  *)
LEMMA TypeFetch ==
  ASSUME TypeInv, Fetch
  PROVE  /\ TypeInv' /\ sync'.from = sync.from /\ sync'.to = sync.to
         /\ NothingArrived \/ \E page : PageArrived(page)
<1>1. /\ UNCHANGED <<server, air, store, view, hidden, revived>> /\ pc = "request" /\ pc' = "save"
      /\ sync \in Syncs /\ ServerOK
  BY DEF Fetch, TypeInv, SyncOK
<1>2. EventsOK'
  BY EventStep DEF TypeInv, Fetch
<1>3. /\ sync' \in Syncs /\ Cardinality(DOMAIN sync'.answer) <= Limit
      /\ sync'.from = sync.from /\ sync'.to = sync.to
      /\ NothingArrived \/ \E page : PageArrived(page)
  <2>1. ASSUME NEW page \in Pages, missed' = missed,
               sync' = [sync EXCEPT
                 !.answer = [t \in page |-> log[t]],
                 !.next = IF Cardinality(page) = Limit THEN NextFrom(page) ELSE None]
        PROVE  /\ sync' \in Syncs /\ Cardinality(DOMAIN sync'.answer) <= Limit
               /\ sync'.from = sync.from /\ sync'.to = sync.to
               /\ PageArrived(page)
    <3>1. PICK n : n = IF Cardinality(page) = Limit THEN NextFrom(page) ELSE None
      OBVIOUS
    <3>2. n \in Nat \cup {None}
      BY <1>1, <3>1, NextFacts
    <3>3. page \in SUBSET DOMAIN log /\ Cardinality(page) <= Limit /\ log \in Logs
      BY <1>1, PageFacts DEF ServerOK
    <3>4. PICK m : m = [t \in page |-> log[t]]
      OBVIOUS
    <3>5. m \in Logs /\ DOMAIN m = page /\ \A t \in page : m[t] = log[t]
      BY <3>3, <3>4, PageLog
    <3>6. sync' = [sync EXCEPT !.answer = m, !.next = n]
      BY <2>1, <3>1, <3>4
    <3>7. sync' \in Syncs /\ sync'.answer = m /\ sync'.next = n /\ sync'.from = sync.from /\ sync'.to = sync.to
      BY <1>1, <3>2, <3>5, <3>6, SyncParts
    <3> QED
      BY <2>1, <3>1, <3>3, <3>5, <3>7 DEF PageArrived
  <2>2. ASSUME sync' = [sync EXCEPT !.answer = <<>>, !.next = None],
               missed' = missed \cup (InRange \ Stored)
        PROVE  /\ sync' \in Syncs /\ Cardinality(DOMAIN sync'.answer) <= Limit
               /\ sync'.from = sync.from /\ sync'.to = sync.to
               /\ NothingArrived
    <3>1. /\ sync' \in Syncs /\ sync'.answer = <<>> /\ sync'.next = None
          /\ sync'.from = sync.from /\ sync'.to = sync.to
      <4>1. PICK e \in Logs, n \in Nat \cup {None} : e = <<>> /\ n = None
        BY Empties
      <4>2. sync' = [sync EXCEPT !.answer = e, !.next = n]
        BY <2>2, <4>1
      <4> QED
        BY <1>1, <4>1, <4>2, SyncParts
    <3> QED
      BY <2>2, <3>1, Empties, HistoryAssumption DEF NothingArrived
  <2> QED
    BY <2>1, <2>2 DEF Fetch
<1>4. missed' \in SUBSET Times
  <2>1. InRange \in SUBSET Times
    BY <1>1, LogFacts DEF ServerOK, InRange
  <2> QED
    BY <1>3, <2>1 DEF NothingArrived, PageArrived, TypeInv, HistoryOK
<1>5. SyncOK'
  BY <1>1, <1>3 DEF SyncOK
<1> QED
  BY <1>1, <1>2, <1>3, <1>4, <1>5 DEF TypeInv, ServerOK, ProfileOK, MyRooms, DbOK, ViewOK, HistoryOK,
               server, store, view

\* A message of the page is saved.
SavedOne(t) ==
  /\ t \in DOMAIN sync.answer /\ Save(t, sync.answer[t])
  /\ DOMAIN sync'.answer = DOMAIN sync.answer \ {t}
  /\ \A s \in DOMAIN sync'.answer : sync'.answer[s] = sync.answer[s]

(* SaveNext keeps the types and stores one message of the page.             *)
LEMMA TypeSaveNext ==
  ASSUME TypeInv, SaveNext
  PROVE  /\ TypeInv' /\ \E t : SavedOne(t)
         /\ sync'.from = sync.from /\ sync'.to = sync.to /\ sync'.next = sync.next
<1>1. PICK t \in DOMAIN sync.answer :
        Save(t, sync.answer[t]) /\ sync' = [sync EXCEPT !.answer = Without(sync.answer, {t})]
  BY DEF SaveNext
<1>2. /\ UNCHANGED <<server, air, pc, view, happened, hidden, revived>> /\ pc = "save" /\ sync \in Syncs
  BY DEF SaveNext, TypeInv, SyncOK
<1>3. PICK l \in Logs : l = sync.answer
  BY <1>2, SyncParts
<1>4. t \in Times /\ l[t] \in Rows /\ DOMAIN l \in SUBSET Times
  BY <1>1, <1>3, LogFacts
<1>5. ProfileOK' /\ DbOK' /\ missed' \in SUBSET Times
  BY <1>1, <1>2, <1>3, <1>4, SavedTypes DEF TypeInv
<1>6. PICK m, D : m = Without(l, D) /\ D = {t}
  OBVIOUS
<1>7. m \in Logs /\ DOMAIN m = DOMAIN l \ {t} /\ \A s \in DOMAIN m : m[s] = l[s]
  <2>1. m \in Logs /\ DOMAIN m = DOMAIN l \ D /\ \A s \in DOMAIN m : m[s] = l[s]
    BY <1>6, WithoutFacts
  <2> QED
    BY <1>6, <2>1
<1>8. sync' = [sync EXCEPT !.answer = m]
  BY <1>1, <1>3, <1>6
<1>9. /\ sync' \in Syncs /\ sync'.answer = m
      /\ sync'.from = sync.from /\ sync'.to = sync.to /\ sync'.next = sync.next
  BY <1>2, <1>7, <1>8, SyncParts
<1>10. Cardinality(DOMAIN m) <= Limit
  <2>1. Cardinality(DOMAIN m) <= Cardinality(DOMAIN l) /\ Cardinality(DOMAIN l) <= Limit
    BY <1>3, <1>4, <1>7, TimesFinite DEF TypeInv, SyncOK
  <2>2. Cardinality(DOMAIN m) \in Nat /\ Cardinality(DOMAIN l) \in Nat /\ Limit \in Nat
    BY <1>4, <1>7, TimesFinite, HistoryAssumption
  <2> QED
    BY <2>1, <2>2
<1>11. SyncOK'
  BY <1>2, <1>9, <1>10 DEF SyncOK
<1>12. SavedOne(t)
  BY <1>1, <1>3, <1>7, <1>9 DEF SavedOne
<1>13. ServerOK' /\ ViewOK' /\ EventsOK' /\ HistoryOK'
  BY <1>2, <1>5 DEF TypeInv, ServerOK, ViewOK, EventsOK, HistoryOK, server, view
<1> QED
  BY <1>5, <1>9, <1>11, <1>12, <1>13 DEF TypeInv

\* The next page is asked for, or the synchronisation ends.
LEMMA TypeEnds ==
  ASSUME TypeInv, NextPage \/ EndSync
  PROVE  /\ TypeInv' /\ sync'.answer = <<>> /\ pc = "save" /\ sync.answer = <<>>
         /\ NextPage => sync'.from = sync.next /\ sync'.to = sync.to
<1>1. /\ UNCHANGED <<server, air, store, chatHistory, deleting, happened, history>>
      /\ pc = "save" /\ sync \in Syncs /\ sync.answer = <<>>
  BY DEF NextPage, EndSync, TypeInv, SyncOK, view
<1>2. CASE NextPage
  <2>1. pc' = "request" /\ sync' = [sync EXCEPT !.from = sync.next] /\ sync.next \in Nat /\ loads' = loads
    BY <1>1, <1>2, SyncParts DEF NextPage, view
  <2>2. sync' \in Syncs /\ sync'.answer = <<>> /\ sync'.from = sync.next /\ sync'.to = sync.to
    BY <1>1, <2>1, SyncParts
  <2> QED
    BY <1>1, <1>2, <2>1, <2>2, Empties, HistoryAssumption
       DEF TypeInv, ServerOK, ProfileOK, MyRooms, DbOK, ViewOK, EventsOK, HistoryOK, SyncOK,
           server, store, view, history, NextPage, EndSync
<1>3. CASE EndSync
  <2>1. /\ pc' = "done" /\ sync' = NoSync
        /\ loads' = {[kind |-> "rooms", rows |-> [r \in MyRooms |-> getMessagesForRoom(r, sync.to)]]}
    BY <1>3 DEF EndSync
  <2>2. MyRooms \in SUBSET Rooms /\ sync.to \in Nat /\ DbOK
    BY <1>1, MyRoomsIn, SyncParts DEF TypeInv, ProfileOK
  <2>3. PICK l : l = [r \in MyRooms |-> getMessagesForRoom(r, sync.to)]
    OBVIOUS
  <2>4. \A r \in MyRooms : l[r] = getMessagesForRoom(r, sync.to) /\ l[r] \in SUBSET Times
    <3>1. \A r \in Rooms : getMessagesForRoom(r, sync.to) \in SUBSET db[r]
      BY <2>2, ReadFacts
    <3> QED
      BY <2>2, <2>3, <3>1 DEF DbOK
  <2>5. l = [r \in MyRooms |-> l[r]]
    BY <2>3
  <2>6. l \in Lists
    BY <2>2, <2>4, <2>5, ListOf
  <2>7. loads' \in SUBSET Loads
    BY <2>1, <2>3, <2>6 DEF Loads
  <2>8. SyncOK'
    <3>1. sync' \in Syncs /\ DOMAIN sync'.answer = {} /\ sync'.answer = <<>>
      BY <2>1, NewSyncs, Empties
    <3>2. Cardinality(DOMAIN sync'.answer) = 0 /\ 0 <= Limit
      BY <3>1, Empties, HistoryAssumption
    <3> QED
      BY <2>1, <3>1, <3>2 DEF SyncOK
  <2>9. ViewOK'
    BY <1>1, <2>7 DEF TypeInv, ViewOK
  <2> QED
    BY <1>1, <1>3, <2>1, <2>8, <2>9, NewSyncs
       DEF TypeInv, ServerOK, ProfileOK, MyRooms, DbOK, EventsOK, HistoryOK, server, store, history,
           NextPage, EndSync
<1> QED
  BY <1>2, <1>3

\* A frame arrives at the handler, or too early.
Received(t) ==
  IF pc = "done"
  THEN /\ Save(t, log[t])
       /\ DOMAIN chatHistory' = DOMAIN chatHistory \cup {r \in Rooms : t \in db'[r]}
       /\ \A r \in Rooms : List(r)' = IF t \in db'[r] THEN List(r) \cup {t} ELSE List(r)
  ELSE missed' = missed \cup ({t} \ Stored) /\ db' = db /\ chatHistory' = chatHistory

(* Receive keeps the types and handles the first broadcast.                 *)
LEMMA TypeReceive ==
  ASSUME TypeInv, Sorted, OnTheWay \in SUBSET DOMAIN log, Receive
  PROVE  TypeInv' /\ Received(Head(air))
<1>1. /\ UNCHANGED <<server, syncer, loads, deleting, happened, hidden, revived>>
      /\ air # <<>> /\ air' = Tail(air) /\ air \in Seq(Times)
  BY DEF Receive, TypeInv, ServerOK
<1>2. PICK t \in DOMAIN log : t = Head(air) /\ t \in Times /\ log[t] \in Rows
  BY <1>1, AirPop, LogFacts DEF TypeInv, ServerOK
<1>3. air' \in Seq(Times)
  BY <1>1, AirPop
<1>4. ServerOK' /\ SyncOK' /\ EventsOK'
  BY <1>1, <1>3 DEF TypeInv, ServerOK, SyncOK, EventsOK, server, syncer
<1>5. CASE pc = "done"
  <2>1. /\ Save(t, log[t])
        /\ chatHistory' = [r \in DOMAIN chatHistory \cup {r \in Rooms : t \in db'[r]} |->
                             IF t \in db'[r] THEN List(r) \cup {t} ELSE List(r)]
    BY <1>2, <1>5 DEF Receive
  <2>2. ProfileOK' /\ DbOK' /\ missed' \in SUBSET Times
    <3>1. pc' = pc
      BY <1>1 DEF syncer
    <3> QED
      BY <1>2, <1>5, <2>1, <3>1, SavedTypes DEF TypeInv
  <2>3. PICK S \in SUBSET Rooms : S = DOMAIN chatHistory \cup {r \in Rooms : t \in db'[r]}
    BY ListFacts DEF TypeInv, ViewOK
  <2>4. /\ chatHistory' = [r \in S |-> chatHistory'[r]]
        /\ \A r \in S : chatHistory'[r] = IF t \in db'[r] THEN List(r) \cup {t} ELSE List(r)
    BY <2>1, <2>3
  <2>5. \A r \in S : chatHistory'[r] \in SUBSET Times
    BY <1>2, <2>4, ListIn DEF TypeInv, ViewOK
  <2>6. chatHistory' \in Lists /\ DOMAIN chatHistory' = S
    BY <2>4, <2>5, ListOf
  <2>7. ASSUME NEW r \in Rooms PROVE List(r)' = IF t \in db'[r] THEN List(r) \cup {t} ELSE List(r)
    <3>1. List(r)' = IF r \in S THEN chatHistory'[r] ELSE {}
      BY <2>6 DEF List
    <3>2. CASE r \in S
      BY <2>4, <3>1, <3>2
    <3>3. CASE r \notin S
      <4>1. List(r) = {} /\ ~ (t \in db'[r])
        BY <2>3, <3>3 DEF List
      <4> QED
        BY <3>1, <3>3, <4>1
    <3> QED
      BY <3>2, <3>3
  <2>8. Received(t)
    BY <1>5, <2>1, <2>3, <2>6, <2>7 DEF Received
  <2>9. ViewOK' /\ HistoryOK'
    BY <1>1, <2>2, <2>6 DEF TypeInv, ViewOK, HistoryOK
  <2> QED
    BY <1>2, <1>4, <2>2, <2>8, <2>9 DEF TypeInv
<1>6. CASE pc # "done"
  <2>1. missed' = missed \cup ({t} \ Stored) /\ UNCHANGED <<store, chatHistory>>
    BY <1>2, <1>6 DEF Receive
  <2>2. Received(t)
    BY <1>6, <2>1 DEF Received, store
  <2> QED
    BY <1>1, <1>2, <1>4, <2>1, <2>2
       DEF TypeInv, ProfileOK, MyRooms, DbOK, ViewOK, HistoryOK, store, syncer
<1> QED
  BY <1>5, <1>6

\* A frame is lost, or the page is closed.
LEMMA TypeLose ==
  ASSUME TypeInv, Sorted, LoseBroadcast
  PROVE  TypeInv'
<1>1. /\ UNCHANGED <<server, store, syncer, view, revived>> /\ air # <<>> /\ air \in Seq(Times)
      /\ air' = Tail(air) /\ missed' = missed \cup ({Head(air)} \ Stored)
      /\ hidden' = IF pc = "done" THEN hidden \cup {Head(air)} ELSE hidden
  BY DEF LoseBroadcast, TypeInv, ServerOK
<1>2. air' \in Seq(Times) /\ Head(air) \in Times
  BY <1>1, AirPop
<1>3. EventsOK'
  BY EventStep DEF TypeInv, LoseBroadcast
<1>4. HistoryOK'
  BY <1>1, <1>2 DEF TypeInv, HistoryOK
<1> QED
  BY <1>1, <1>2, <1>3, <1>4
     DEF TypeInv, ServerOK, ProfileOK, MyRooms, DbOK, SyncOK, ViewOK, server, store, syncer, view

(* Closing the page keeps the types and ends the synchronisation.           *)
LEMMA TypeClose ==
  ASSUME TypeInv, Close
  PROVE  TypeInv' /\ sync'.answer = <<>>
<1>1. /\ UNCHANGED <<server, store, happened>> /\ pc' = "closed" /\ sync' = NoSync /\ air' = <<>>
      /\ chatHistory' = <<>> /\ loads' = {} /\ deleting' = {} /\ hidden' = {} /\ revived' = {}
      /\ missed' = missed \cup (IF pc = "done" THEN {} ELSE {t \in DOMAIN log : t < sync.to} \ Stored)
  BY DEF Close
<1>2. ServerOK'
  BY <1>1 DEF TypeInv, ServerOK, server
<1>3. DOMAIN log \in SUBSET Times
  BY LogFacts DEF TypeInv, ServerOK
<1>4. HistoryOK'
  BY <1>1, <1>3 DEF TypeInv, HistoryOK
<1>5. SyncOK' /\ sync'.answer = <<>>
  <2>1. sync' \in Syncs /\ DOMAIN sync'.answer = {} /\ sync'.answer = <<>>
    BY <1>1, NewSyncs, Empties
  <2>2. Cardinality(DOMAIN sync'.answer) = 0 /\ 0 <= Limit
    BY <2>1, Empties, HistoryAssumption
  <2> QED
    BY <1>1, <2>1, <2>2 DEF SyncOK
<1>6. ViewOK'
  BY <1>1, Empties DEF ViewOK
<1> QED
  BY <1>1, <1>2, <1>4, <1>5, <1>6 DEF TypeInv, ProfileOK, MyRooms, DbOK, EventsOK, store

\* A room is created or joined.
Joining == CreatePublicRoom \/ CreatePrivateRoom \/ JoinPublicRoom \/ JoinPrivateRoom

(* Creating or joining a room keeps the types and touches no message.       *)
LEMMA TypeJoin ==
  ASSUME TypeInv, Joining
  PROVE  TypeInv' /\ UNCHANGED <<now, log, air, db, syncer, view, happened, history>>
<1>1. profile \in Profiles /\ profile # NoProfile
  BY DEF Joining, CreatePublicRoom, CreatePrivateRoom, JoinPublicRoom, JoinPrivateRoom, TypeInv, ProfileOK
<1>2. decryptMessageAsymmetric(Invite(profile.user_public_key), profile.user_private_key) = OthersRoom
  BY <1>1, ProfileParts DEF decryptMessageAsymmetric, Invite, encryptMessageAsymmetric
<1>3. PICK type \in {"public", "private"}, room \in {NewRoom, OthersRoom} : Join(type, room)
  BY <1>2 DEF Joining, CreatePublicRoom, CreatePrivateRoom, JoinPublicRoom, JoinPrivateRoom
<1>4. publicRooms' \in SUBSET Rooms
  BY DEF Joining, CreatePublicRoom, CreatePrivateRoom, JoinPublicRoom, JoinPrivateRoom, createRoom,
         TypeInv, ServerOK, Rooms
<1>5. UNCHANGED <<now, log, air, db, syncer, view, happened, history>> /\ profile' = AddRoom(profile, type, room)
  BY <1>3 DEF Join
<1>6. profile' \in Profiles /\ RoomIds(profile) \subseteq RoomIds(profile')
  <2>1. PICK p, q : p = profile /\ q = AddRoom(p, type, room)
    OBVIOUS
  <2>2. type \in RoomTypes
    BY DEF RoomTypes
  <2>3. q \in Profiles /\ RoomIds(p) \subseteq RoomIds(q)
    BY <1>1, <2>1, <2>2, AddRoomFacts
  <2> QED
    BY <1>5, <2>1, <2>3
<1>7. profile' # NoProfile
  BY <1>6, HistoryAssumption
<1>8. MyRooms \subseteq MyRooms'
  BY <1>1, <1>6, <1>7 DEF MyRooms
<1>9. ProfileOK'
  BY <1>5, <1>6, <1>7, <1>8 DEF TypeInv, ProfileOK
<1> QED
  BY <1>4, <1>5, <1>9
     DEF TypeInv, ServerOK, DbOK, SyncOK, ViewOK, EventsOK, HistoryOK, syncer, view, history

\* Older rows of a room are read for its list.
Scrolled(r, t, l) ==
  /\ t \in List(r) \cup (db[r] \cap hidden) /\ l \in Loads /\ loads' = loads \cup {l}
  /\ l.kind = "room" /\ DOMAIN l.rows = {r} /\ l.rows[r] = getMessagesForRoom(r, t)

(* Scroll keeps the types and begins a read of older messages.              *)
LEMMA TypeScroll ==
  ASSUME TypeInv, NEW r \in Rooms, Scroll(r)
  PROVE  TypeInv' /\ \E t, l : Scrolled(r, t, l)
<1>1. UNCHANGED <<server, air, store, syncer, chatHistory, deleting, history>> /\ DbOK /\ chatHistory \in Lists
  BY DEF Scroll, TypeInv, ViewOK
<1>2. PICK t \in List(r) \cup (db[r] \cap hidden) :
        loads' = loads \cup {[kind |-> "room", rows |-> [s \in {r} |-> getMessagesForRoom(s, t)]]}
  BY DEF Scroll
<1>3. PICK R, rows : R \in SUBSET Rooms /\ R = {r} /\ rows = [s \in R |-> getMessagesForRoom(s, t)]
  OBVIOUS
<1>4. t \in Times /\ t \in Nat
  BY <1>1, <1>2, ListIn DEF DbOK, Times
<1>5. getMessagesForRoom(r, t) \in SUBSET Times
  BY <1>1, <1>4, ReadFacts DEF DbOK
<1>6. DOMAIN rows = {r} /\ rows[r] = getMessagesForRoom(r, t)
  BY <1>3
<1>7. rows = [s \in R |-> rows[s]] /\ \A s \in R : rows[s] \in SUBSET Times
  BY <1>3, <1>5, <1>6
<1>8. rows \in Lists
  BY <1>3, <1>7, ListOf
<1>9. PICK l : l = [kind |-> "room", rows |-> rows]
  OBVIOUS
<1>10. Scrolled(r, t, l)
  <2>1. l \in Loads /\ l.kind = "room" /\ l.rows = rows
    BY <1>8, <1>9 DEF Loads
  <2> QED
    BY <1>2, <1>3, <1>6, <1>9, <2>1 DEF Scrolled
<1>11. ViewOK'
  BY <1>1, <1>10 DEF Scrolled, TypeInv, ViewOK
<1>12. EventsOK'
  BY EventStep DEF TypeInv, Scroll
<1> QED
  BY <1>1, <1>10, <1>11, <1>12
     DEF TypeInv, ServerOK, ProfileOK, MyRooms, DbOK, SyncOK, HistoryOK, server, store, syncer, history

\* What was read replaces lists, or is added to one.
Replaced(l) ==
  /\ \A r \in Rooms : List(r)' = IF r \in DOMAIN l.rows THEN l.rows[r] ELSE List(r)
  /\ DOMAIN chatHistory' = DOMAIN chatHistory \cup DOMAIN l.rows
  /\ hidden' = hidden \cup UNION {List(r) \ l.rows[r] : r \in DOMAIN l.rows}
Added(l) ==
  /\ \A r \in Rooms : List(r)' = IF r \in DOMAIN chatHistory \cap DOMAIN l.rows THEN l.rows[r] \cup List(r)
                                 ELSE List(r)
  /\ DOMAIN chatHistory' = DOMAIN chatHistory
  /\ hidden' = hidden

(* The end of a read keeps the types; it replaces lists or adds to one.     *)
LEMMA TypeFinishLoad ==
  ASSUME TypeInv, NEW l \in loads, FinishLoad(l)
  PROVE  TypeInv' /\ l \in Loads /\ (Replaced(l) \/ Added(l))
<1>1. /\ UNCHANGED <<server, air, store, syncer, deleting, happened, missed>>
      /\ loads' = loads \ {l} /\ revived' = revived \cup UNION {l.rows[r] \ db[r] : r \in DOMAIN l.rows}
      /\ chatHistory \in Lists /\ DbOK /\ hidden \in SUBSET Times /\ revived \in SUBSET Times
  BY DEF FinishLoad, TypeInv, ViewOK, HistoryOK
<1>2. l \in Loads /\ l.rows \in Lists
  BY DEF TypeInv, ViewOK, Loads
<1>3. /\ DOMAIN l.rows \in SUBSET Rooms /\ \A r \in DOMAIN l.rows : l.rows[r] \in SUBSET Times
      /\ DOMAIN chatHistory \in SUBSET Rooms /\ \A r \in DOMAIN chatHistory : chatHistory[r] \in SUBSET Times
  BY <1>1, <1>2, ListFacts
<1>4. revived' \in SUBSET Times
  BY <1>1, <1>3
<1>5. CASE FinishRooms(l)
  <2>1. /\ chatHistory' = [r \in DOMAIN chatHistory \cup DOMAIN l.rows |->
                       IF r \in DOMAIN l.rows THEN l.rows[r] ELSE chatHistory[r]]
        /\ hidden' = hidden \cup UNION {List(r) \ l.rows[r] : r \in DOMAIN l.rows}
    BY <1>5 DEF FinishRooms
  <2>2. PICK S \in SUBSET Rooms : S = DOMAIN chatHistory \cup DOMAIN l.rows
    BY <1>3
  <2>3. /\ chatHistory' = [r \in S |-> chatHistory'[r]]
        /\ \A r \in S : chatHistory'[r] = IF r \in DOMAIN l.rows THEN l.rows[r] ELSE chatHistory[r]
    BY <2>1, <2>2
  <2>4. \A r \in S : chatHistory'[r] \in SUBSET Times
    BY <1>3, <2>2, <2>3
  <2>5. chatHistory' \in Lists /\ DOMAIN chatHistory' = S
    BY <2>3, <2>4, ListOf
  <2>6. \A r \in Rooms : List(r)' = IF r \in DOMAIN l.rows THEN l.rows[r] ELSE List(r)
    BY <2>2, <2>3, <2>5 DEF List
  <2>7. Replaced(l)
    BY <2>1, <2>2, <2>5, <2>6 DEF Replaced
  <2>8. hidden' \in SUBSET Times
    BY <1>1, <1>3, <2>1, ListIn
  <2>9. ViewOK' /\ HistoryOK'
    BY <1>1, <1>4, <2>5, <2>8 DEF TypeInv, ViewOK, HistoryOK
  <2> QED
    BY <1>1, <1>2, <2>7, <2>9
       DEF TypeInv, ServerOK, ProfileOK, MyRooms, DbOK, SyncOK, EventsOK, server, store, syncer
<1>6. CASE FinishRoom(l)
  <2>1. /\ chatHistory' = [r \in DOMAIN chatHistory |->
                       IF r \in DOMAIN l.rows THEN l.rows[r] \cup chatHistory[r] ELSE chatHistory[r]]
        /\ hidden' = hidden
    BY <1>6 DEF FinishRoom
  <2>2. PICK S \in SUBSET Rooms : S = DOMAIN chatHistory
    BY <1>3
  <2>3. /\ chatHistory' = [r \in S |-> chatHistory'[r]]
        /\ \A r \in S : chatHistory'[r] = IF r \in DOMAIN l.rows THEN l.rows[r] \cup chatHistory[r] ELSE chatHistory[r]
    BY <2>1, <2>2
  <2>4. \A r \in S : chatHistory'[r] \in SUBSET Times
    BY <1>3, <2>2, <2>3
  <2>5. chatHistory' \in Lists /\ DOMAIN chatHistory' = S
    BY <2>3, <2>4, ListOf
  <2>6. \A r \in Rooms : List(r)' = IF r \in DOMAIN chatHistory \cap DOMAIN l.rows THEN l.rows[r] \cup List(r)
                                    ELSE List(r)
    BY <2>2, <2>3, <2>5 DEF List
  <2>7. Added(l)
    BY <2>1, <2>2, <2>5, <2>6 DEF Added
  <2>9. ViewOK' /\ HistoryOK'
    BY <1>1, <1>4, <2>1, <2>5 DEF TypeInv, ViewOK, HistoryOK
  <2> QED
    BY <1>1, <1>2, <2>7, <2>9
       DEF TypeInv, ServerOK, ProfileOK, MyRooms, DbOK, SyncOK, EventsOK, server, store, syncer
<1> QED
  BY <1>5, <1>6 DEF FinishLoad

\* The rows of a room are deleted, and its list is emptied.
Deleted(r) ==
  /\ db'[r] = {} /\ \A x \in Rooms \ {r} : db'[x] = db[x]
  /\ missed' = missed \cup db[r]

(* Deleting a history keeps the types; its end empties all lists.           *)
LEMMA TypeDelete ==
  ASSUME TypeInv, NEW r \in Rooms, DeleteHistory(r) \/ FinishDelete(r)
  PROVE  /\ TypeInv' /\ Deleted(r)
         /\ FinishDelete(r) => /\ \A x \in Rooms : List(x)' = {}
                               /\ \A x \in Rooms : db[x] \subseteq hidden'
                               /\ hidden \subseteq hidden'
<1>1. /\ UNCHANGED <<server, air, profile, syncer, loads, revived>> /\ DbOK /\ DeleteRows(r)
      /\ deleting' \in SUBSET Rooms
  BY DEF DeleteHistory, FinishDelete, TypeInv, ViewOK
<1>2. Deleted(r) /\ DbOK'
  BY <1>1 DEF DeleteRows, Deleted, DbOK
<1>3. missed' \in SUBSET Times
  BY <1>1, <1>2 DEF Deleted, TypeInv, HistoryOK, DbOK
<1>4. ProfileOK'
  BY <1>1, <1>2 DEF Deleted, TypeInv, ProfileOK, MyRooms, syncer
<1>5. EventsOK'
  BY EventStep DEF TypeInv, DeleteHistory, FinishDelete, EventsOK
<1>6. CASE DeleteHistory(r)
  <2>1. chatHistory' = chatHistory /\ hidden' = hidden
    BY <1>6 DEF DeleteHistory
  <2>2. FinishDelete(r) => \A x \in Rooms : List(x)' = {} /\ db[x] \subseteq hidden' /\ hidden \subseteq hidden'
    <3>1. SUFFICES ASSUME FinishDelete(r)
                   PROVE  \A x \in Rooms : List(x)' = {} /\ db[x] \subseteq hidden' /\ hidden \subseteq hidden'
      OBVIOUS
    <3>2. chatHistory' = [s \in {r} |-> {}] /\ hidden' = hidden \cup UNION {db[s] : s \in Rooms}
      BY <3>1 DEF FinishDelete, EmptiedLists
    <3> QED
      BY <3>2 DEF List
  <2> QED
    BY <1>1, <1>2, <1>3, <1>4, <1>5, <2>1, <2>2
       DEF TypeInv, ServerOK, SyncOK, ViewOK, HistoryOK, server, syncer
<1>7. CASE FinishDelete(r)
  <2>1. chatHistory' = [s \in {r} |-> {}] /\ hidden' = hidden \cup UNION {db[s] : s \in Rooms}
    BY <1>7 DEF FinishDelete, EmptiedLists
  <2>2. PICK S \in SUBSET Rooms : S = {r}
    OBVIOUS
  <2>3. chatHistory' = [s \in S |-> chatHistory'[s]] /\ \A s \in S : chatHistory'[s] \in SUBSET Times
    BY <2>1, <2>2
  <2>4. chatHistory' \in Lists
    BY <2>3, ListOf
  <2>5. \A x \in Rooms : List(x)' = {} /\ db[x] \subseteq hidden' /\ hidden \subseteq hidden'
    BY <2>1 DEF List
  <2>6. hidden' \in SUBSET Times
    BY <1>1, <2>1 DEF TypeInv, HistoryOK, DbOK
  <2> QED
    BY <1>1, <1>2, <1>3, <1>4, <1>5, <2>4, <2>5, <2>6
       DEF TypeInv, ServerOK, SyncOK, ViewOK, HistoryOK, server, syncer
<1> QED
  BY <1>6, <1>7

(* The initial states are of the right types.                               *)
LEMMA InitTypes == ASSUME Init PROVE TypeInv
<1>1. /\ now = 1 /\ log = <<>> /\ air = <<>> /\ publicRooms \in SUBSET {others}
      /\ profile \in {NoProfile, Recovered} /\ db = [r \in Rooms |-> {}]
      /\ pc = "closed" /\ sync = NoSync
      /\ chatHistory = <<>> /\ loads = {} /\ deleting = {}
      /\ happened = 0 /\ missed = {} /\ hidden = {} /\ revived = {}
  BY DEF Init
<1>2. ServerOK
  BY <1>1, Empties, HistoryAssumption DEF ServerOK, Times, Rooms
<1>3. ProfileOK /\ DbOK
  BY <1>1, FirstProfiles DEF ProfileOK, DbOK
<1>4. SyncOK
  <2>1. sync \in Syncs /\ sync.answer = <<>>
    BY <1>1, NewSyncs
  <2>2. Cardinality(DOMAIN sync.answer) = 0 /\ 0 <= Limit
    BY <2>1, Empties, HistoryAssumption
  <2> QED
    BY <1>1, <2>1, <2>2 DEF SyncOK
<1>5. ViewOK /\ EventsOK /\ HistoryOK
  BY <1>1, Empties, HistoryAssumption DEF ViewOK, EventsOK, HistoryOK
<1> QED
  BY <1>2, <1>3, <1>4, <1>5 DEF TypeInv

(* A stuttering step keeps the types.                                       *)
LEMMA SameTypes == ASSUME TypeInv, UNCHANGED vars PROVE TypeInv'
BY DEF TypeInv, ServerOK, ProfileOK, MyRooms, DbOK, SyncOK, ViewOK, EventsOK, HistoryOK,
       vars, server, store, syncer, view, history

-----------------------------------------------------------------------------
(* The clock and the frames.                                               *)

\* Epochs are older than their messages, and messages older than the clock.
Kept     == DOMAIN sync.answer \cup Stored
ClockInv ==
  /\ \A t \in DOMAIN log : t < now /\ log[t].epoch < t
  /\ \A t \in DOMAIN sync.answer : t < now /\ sync.answer[t].epoch < t
  /\ \A t \in Stored : t < now

\* Frames are of messages in the log, in the order of the clock, and what there is of
\* messages later than one on its way is on its way too.
AirInv ==
  /\ Sorted /\ OnTheWay \subseteq DOMAIN log
  /\ pc = "closed" => air = <<>>
  /\ \A a \in OnTheWay : \A t \in DOMAIN log \cup Kept : a < t => t \in OnTheWay

BaseInv == TypeInv /\ ClockInv /\ AirInv

\* The times of all these are numbers.
LEMMA BaseFacts ==
  ASSUME BaseInv
  PROVE  /\ now \in Nat /\ DOMAIN log \in SUBSET Times /\ DOMAIN sync.answer \in SUBSET Times
         /\ Stored \in SUBSET Times /\ OnTheWay \in SUBSET Times /\ Times \subseteq Nat
         /\ sync.from \in Nat /\ sync.to \in Nat /\ sync.next \in Nat \cup {None} /\ None \notin Nat
         /\ \A t \in DOMAIN log : log[t].epoch \in Nat
         /\ \A r \in Rooms : db[r] \in SUBSET Times /\ List(r) \in SUBSET Times
<1>1. sync.answer \in Logs
  BY SyncParts DEF BaseInv, TypeInv, SyncOK
<1>2. Times \subseteq Nat /\ None \notin Nat
  BY HistoryAssumption DEF Times
<1>3. now \in Nat /\ log \in Logs /\ air \in Seq(Times) /\ DbOK /\ chatHistory \in Lists /\ sync \in Syncs
  BY <1>2 DEF BaseInv, TypeInv, ServerOK, ViewOK, SyncOK
<1>4. DOMAIN log \in SUBSET Times /\ \A t \in DOMAIN log : log[t].epoch \in Nat
  BY <1>3, LogFacts
<1>5. DOMAIN sync.answer \in SUBSET Times
  BY <1>1, LogFacts
<1>6. sync.from \in Nat /\ sync.to \in Nat /\ sync.next \in Nat \cup {None}
  BY <1>3, SyncParts
<1>7. Stored \in SUBSET Times /\ OnTheWay \in SUBSET Times
  BY <1>3, StoredTimes, AirIs
<1>8. \A r \in Rooms : db[r] \in SUBSET Times /\ List(r) \in SUBSET Times
  BY <1>3, ListIn DEF DbOK
<1> QED
  BY <1>2, <1>3, <1>4, <1>5, <1>6, <1>7, <1>8

\* Steps that neither send nor receive, and save only what the client has.
LEMMA BaseFrame ==
  ASSUME BaseInv, UNCHANGED <<now, log, air>>, pc' = "closed" => pc = "closed",
         \A t \in DOMAIN sync'.answer : \/ t \in DOMAIN sync.answer /\ sync'.answer[t] = sync.answer[t]
                                        \/ t \in DOMAIN log /\ sync'.answer[t] = log[t],
         \A t \in Stored' : t \in Kept
  PROVE  ClockInv' /\ AirInv'
<1>1. ClockInv'
  BY DEF BaseInv, ClockInv, Kept
<1>2. OnTheWay' = OnTheWay /\ Sorted'
  BY DEF BaseInv, AirInv, OnTheWay, Sorted
<1>3. \A t \in Kept' : t \in DOMAIN log \cup Kept
  BY DEF Kept
<1> QED
  BY <1>1, <1>2, <1>3 DEF BaseInv, AirInv

\* A message is sent.
Sent(r, row) ==
  /\ row.epoch < now /\ row.message_content = Content(r)
  /\ DOMAIN log' = DOMAIN log \cup {now} /\ log'[now] = row /\ \A t \in DOMAIN log \ {now} : log'[t] = log[t]

(* Persist stores a row with the present time on the server and broadcasts  *)
(* it.                                                                      *)
LEMMA SentFacts ==
  ASSUME BaseInv, NEW r \in Rooms, Persist(r)
  PROVE  TypeInv' /\ \E row \in Rows : Sent(r, row)
<1>1. PICK row \in Rows : row.epoch < now /\ row.message_content = Content(r) /\ log' = With(log, now, row)
  BY TypePersist DEF BaseInv
<1>2. TypeInv' /\ now \in Times /\ log \in Logs
  BY TypePersist DEF BaseInv, TypeInv, ServerOK
<1>3. PICK l \in Logs, n \in Times : l = log /\ n = now
  BY <1>2
<1>4. PICK m : m = With(l, n, row)
  OBVIOUS
<1>5. DOMAIN m = DOMAIN l \cup {n} /\ m[n] = row /\ \A t \in DOMAIN l \ {n} : m[t] = l[t]
  BY <1>1, <1>3, <1>4, WithFacts
<1>6. log' = m
  BY <1>1, <1>3, <1>4
<1>7. Sent(r, row)
  BY <1>1, <1>3, <1>5, <1>6 DEF Sent
<1> QED
  BY <1>1, <1>2, <1>7

(* Persist keeps the clock and the order of the broadcasts: its message is  *)
(* the latest.                                                              *)
LEMMA BasePersist == ASSUME BaseInv, NEW r \in Rooms, Persist(r) PROVE BaseInv'
<1>1. PICK row \in Rows : Sent(r, row)
  BY SentFacts
<1>2. TypeInv' /\ now' = now + 1 /\ now \in Times /\ log \in Logs /\ air \in Seq(Times)
  BY SentFacts DEF Persist, BaseInv, TypeInv, ServerOK
<1>3. /\ UNCHANGED <<store, syncer>>
      /\ air' = IF pc = "closed" THEN air ELSE Append(air, now)
  BY DEF Persist
<1>4. /\ DOMAIN log' = DOMAIN log \cup {now} /\ log'[now] = row /\ row.epoch < now
      /\ \A t \in DOMAIN log \ {now} : log'[t] = log[t]
  BY <1>1 DEF Sent
<1>5. \A t \in DOMAIN log : t < now /\ t \in Nat
  BY BaseFacts DEF BaseInv, ClockInv
<1>6. \A t \in DOMAIN log : log'[t] = log[t] /\ log[t].epoch < t
  BY <1>2, <1>4, <1>5, BaseFacts DEF BaseInv, ClockInv
<1>7. Stored' = Stored /\ sync' = sync /\ Kept' = Kept /\ pc' = pc
  BY <1>3 DEF store, syncer, Stored, Kept
<1>8. \A t \in Kept : t < now /\ t \in Nat
  BY BaseFacts DEF BaseInv, ClockInv, Kept
<1>9. ClockInv'
  <2>1. \A t \in Nat : t < now => t < now + 1
    BY BaseFacts
  <2>2. now < now + 1
    BY BaseFacts
  <2>3. \A t \in DOMAIN sync.answer : t < now + 1 /\ sync.answer[t].epoch < t
    BY <1>8, <2>1 DEF BaseInv, ClockInv, Kept
  <2>4. \A t \in Stored : t < now + 1
    BY <1>8, <2>1 DEF Kept
  <2>5. \A t \in DOMAIN log' : t < now + 1 /\ log'[t].epoch < t
    BY <1>4, <1>5, <1>6, <2>1, <2>2
  <2> QED
    BY <1>2, <1>7, <2>3, <2>4, <2>5 DEF ClockInv
<1>10. AirInv'
  <2>1. CASE pc = "closed"
    <3>1. air = <<>> /\ air' = <<>> /\ OnTheWay' = {} /\ Sorted'
      BY <1>2, <1>3, <2>1, AirIs DEF BaseInv, AirInv, OnTheWay, Sorted
    <3> QED
      BY <3>1 DEF AirInv
  <2>2. CASE pc # "closed"
    <3>1. Sorted /\ \A a \in OnTheWay : a < now
      BY <1>5 DEF BaseInv, AirInv
    <3>2. PICK m \in Times : m = now
      BY <1>2
    <3>3. air' = Append(air, m) /\ \A a \in OnTheWay : a < m
      BY <1>3, <2>2, <3>1, <3>2
    <3>4. Sorted' /\ OnTheWay' = OnTheWay \cup {m}
      BY <1>2, <3>1, <3>3, AirAppend
    <3>5. ASSUME NEW a \in OnTheWay', NEW t \in DOMAIN log' \cup Kept', a < t PROVE t \in OnTheWay'
      <4>1. CASE t = now
        BY <3>2, <3>4, <4>1
      <4>2. CASE t # now
        <5>1. t \in DOMAIN log \cup Kept /\ t < now /\ t \in Nat
          BY <1>4, <1>5, <1>7, <1>8, <4>2
        <5>2. a # now
          BY <3>5, <5>1, BaseFacts
        <5>3. a \in OnTheWay
          BY <3>2, <3>4, <5>2
        <5> QED
          BY <3>4, <3>5, <5>1, <5>3 DEF BaseInv, AirInv
      <4> QED
        BY <4>1, <4>2
    <3>6. OnTheWay' \subseteq DOMAIN log'
      BY <1>4, <3>2, <3>4 DEF BaseInv, AirInv
    <3> QED
      BY <1>7, <2>2, <3>4, <3>5, <3>6 DEF AirInv
  <2> QED
    BY <2>1, <2>2
<1> QED
  BY <1>2, <1>9, <1>10 DEF BaseInv

\* The clock moves, or old messages are deleted.
LEMMA BaseServer ==
  ASSUME BaseInv, Tick \/ Cleanup
  PROVE  /\ BaseInv' /\ now <= now' /\ DOMAIN log' \subseteq DOMAIN log
         /\ \A t \in DOMAIN log' : log'[t] = log[t]
<1>1. /\ UNCHANGED <<publicRooms, air, store, syncer, view, happened, history>> /\ TypeInv' /\ now \in Nat
  BY TypeServer, BaseFacts DEF Tick, Cleanup, BaseInv
<1>2. /\ now <= now' /\ now' \in Nat /\ DOMAIN log' \subseteq DOMAIN log
      /\ \A t \in DOMAIN log' : log'[t] = log[t]
      /\ OnTheWay \subseteq DOMAIN log'
  <2>1. CASE Tick
    BY <1>1, <2>1 DEF Tick, BaseInv, AirInv
  <2>2. CASE Cleanup
    <3>1. PICK l, old : /\ l = Without(log, old) /\ log' = l /\ now' = now
                        /\ \A i \in DOMAIN air : air[i] \notin old
      BY <2>2 DEF Cleanup
    <3>2. l \in Logs /\ DOMAIN l = DOMAIN log \ old /\ \A t \in DOMAIN l : l[t] = log[t]
      <4>1. log \in Logs
        BY DEF BaseInv, TypeInv, ServerOK
      <4> QED
        BY <3>1, <4>1, WithoutFacts
    <3>3. \A a \in OnTheWay : a \notin old
      BY <3>1 DEF OnTheWay
    <3> QED
      BY <1>1, <3>1, <3>2, <3>3 DEF BaseInv, AirInv
  <2> QED
    BY <2>1, <2>2
<1>3. Stored' = Stored /\ sync' = sync /\ Kept' = Kept /\ pc' = pc /\ air' = air
  BY <1>1 DEF store, syncer, Stored, Kept
<1>4. \A t \in Nat : t < now => t < now'
  BY <1>1, <1>2
<1>5. ClockInv'
  BY <1>2, <1>3, <1>4, BaseFacts DEF BaseInv, ClockInv
<1>6. OnTheWay' = OnTheWay /\ Sorted'
  BY <1>3 DEF BaseInv, AirInv, OnTheWay, Sorted
<1>7. AirInv'
  BY <1>2, <1>3, <1>6 DEF BaseInv, AirInv
<1> QED
  BY <1>1, <1>2, <1>5, <1>7 DEF BaseInv

\* The first frame arrives or is lost.
Popped == /\ Head(air) \in OnTheWay /\ OnTheWay' = OnTheWay \ {Head(air)} /\ \A a \in OnTheWay : Head(air) <= a

(* A step that takes the first broadcast keeps the base invariant.          *)
LEMMA BasePop ==
  ASSUME BaseInv, TypeInv', air # <<>>, air' = Tail(air), UNCHANGED <<now, log, syncer>>,
         \A t \in Stored' : t \in Stored \cup {Head(air)}
  PROVE  BaseInv' /\ Popped
<1>1. air \in Seq(Times) /\ Sorted /\ OnTheWay \subseteq DOMAIN log /\ pc' = pc /\ sync' = sync
  BY DEF BaseInv, TypeInv, ServerOK, AirInv, syncer
<1>2. Popped /\ Sorted'
  BY <1>1, AirPop DEF Popped
<1>3. PICK h : h = Head(air) /\ h \in OnTheWay /\ h \in DOMAIN log /\ h \in Nat
  BY <1>1, <1>2, BaseFacts DEF Popped
<1>4. \A t \in Kept' : t \in Kept \cup {h}
  BY <1>1, <1>3 DEF Kept
<1>5. ClockInv'
  BY <1>1, <1>3 DEF BaseInv, ClockInv
<1>6. ASSUME NEW a \in OnTheWay', NEW t \in DOMAIN log' \cup Kept', a < t PROVE t \in OnTheWay'
  <2>1. a \in OnTheWay /\ a \in Nat /\ h <= a
    BY <1>2, <1>3, BaseFacts DEF Popped
  <2>2. t # h
    BY <1>3, <1>6, <2>1
  <2>3. t \in DOMAIN log \cup Kept
    BY <1>4, <2>2
  <2> QED
    BY <1>2, <1>3, <1>6, <2>1, <2>2, <2>3 DEF BaseInv, AirInv, Popped
<1>7. AirInv'
  <2>1. pc # "closed"
    BY <1>1 DEF BaseInv, AirInv
  <2> QED
    BY <1>1, <1>2, <1>6, <2>1 DEF AirInv, Popped
<1> QED
  BY <1>2, <1>5, <1>7 DEF BaseInv

(* Receive keeps the base invariant.                                        *)
LEMMA BaseReceive == ASSUME BaseInv, Receive PROVE BaseInv' /\ Popped /\ Received(Head(air))
<1>1. /\ UNCHANGED <<server, syncer, loads, deleting, happened, hidden, revived>>
      /\ air # <<>> /\ air' = Tail(air)
  BY DEF Receive
<1>2. TypeInv' /\ Received(Head(air))
  BY TypeReceive DEF BaseInv, AirInv
<1>3. Head(air) \in DOMAIN log /\ Head(air) \in Times /\ log[Head(air)] \in Rows
  BY <1>1, AirPop, LogFacts DEF BaseInv, AirInv, TypeInv, ServerOK
<1>4. \A t \in Stored' : t \in Stored \cup {Head(air)}
  <2>1. CASE pc = "done"
    <3>1. Save(Head(air), log[Head(air)])
      BY <1>2, <2>1 DEF Received
    <3>2. pc # "closed" /\ ProfileOK /\ DbOK /\ HistoryOK
      BY <2>1 DEF BaseInv, TypeInv
    <3> QED
      BY <1>3, <3>1, <3>2, SavedTypes
  <2>2. CASE pc # "done"
    BY <1>2, <2>2 DEF Received, Stored
  <2> QED
    BY <2>1, <2>2
<1> QED
  BY <1>1, <1>2, <1>4, BasePop DEF server

(* A lost broadcast keeps the base invariant.                               *)
LEMMA BaseLose == ASSUME BaseInv, LoseBroadcast PROVE BaseInv' /\ Popped
<1>1. TypeInv'
  BY TypeLose DEF BaseInv, AirInv
<1> QED
  BY <1>1, BasePop DEF LoseBroadcast, server, store, Stored

\* The remaining steps.
LEMMA BaseClose == ASSUME BaseInv, Close PROVE BaseInv'
<1>1. TypeInv' /\ sync'.answer = <<>>
  BY TypeClose DEF BaseInv
<1>2. UNCHANGED <<now, log, db>> /\ air' = <<>>
  BY DEF Close, server, store
<1>3. OnTheWay' = {} /\ Sorted'
  BY <1>2, Empties DEF OnTheWay, Sorted
<1>4. ClockInv'
  BY <1>1, <1>2, Empties DEF BaseInv, ClockInv, Stored
<1> QED
  BY <1>1, <1>2, <1>3, <1>4 DEF BaseInv, AirInv

(* Registering the handler and opening the page keep the base invariant.    *)
LEMMA BaseStart == ASSUME BaseInv, Register \/ Open PROVE BaseInv'
<1>1. TypeInv' /\ UNCHANGED <<now, log, air, db>> /\ pc' # "closed"
  BY TypeOpen DEF BaseInv, Register, Open, server, store
<1>2. sync'.answer = <<>>
  BY <1>1 DEF Register, Open, TypeInv, SyncOK
<1>3. Stored' = Stored
  BY <1>1 DEF Stored
<1>4. ClockInv' /\ AirInv'
  BY <1>1, <1>2, <1>3, Empties, BaseFrame DEF Kept
<1> QED
  BY <1>1, <1>4 DEF BaseInv

(* The steps of a synchronisation keep the base invariant.                  *)
LEMMA BaseSync == ASSUME BaseInv, Syncing PROVE BaseInv'
<1>1. CASE Fetch
  <2>1. TypeInv' /\ (NothingArrived \/ \E page : PageArrived(page))
    BY <1>1, TypeFetch DEF BaseInv
  <2>2. UNCHANGED <<now, log, air, db>> /\ pc' = "save"
    BY <1>1 DEF Fetch, server, store
  <2>3. \A t \in DOMAIN sync'.answer : t \in DOMAIN log /\ sync'.answer[t] = log[t]
    <3>1. CASE NothingArrived
      BY <3>1, Empties DEF NothingArrived
    <3>2. ASSUME NEW page, PageArrived(page) PROVE \A t \in DOMAIN sync'.answer : t \in DOMAIN log /\ sync'.answer[t] = log[t]
      BY <3>2, PageFacts DEF PageArrived, BaseInv, TypeInv
    <3> QED
      BY <2>1, <3>1, <3>2
  <2>4. Stored' = Stored
    BY <2>2 DEF Stored
  <2>5. ClockInv' /\ AirInv'
    BY <2>2, <2>3, <2>4, BaseFrame DEF Kept
  <2> QED
    BY <2>1, <2>5 DEF BaseInv
<1>2. CASE SaveNext
  <2>1. TypeInv'
    BY <1>2, TypeSaveNext DEF BaseInv
  <2>2. PICK t : SavedOne(t)
    BY <1>2, TypeSaveNext DEF BaseInv
  <2>3. UNCHANGED <<now, log, air>> /\ pc' = "save" /\ pc = "save"
    BY <1>2 DEF SaveNext, server
  <2>4. \A s \in Stored' : s \in Kept
    <3>1. PICK l \in Logs : l = sync.answer
      BY SyncParts DEF BaseInv, TypeInv, SyncOK
    <3>2. t \in Times /\ sync.answer[t] \in Rows
      BY <2>2, <3>1, LogFacts DEF SavedOne
    <3> QED
      BY <2>2, <2>3, <3>2, SavedTypes DEF SavedOne, BaseInv, TypeInv, Kept
  <2>5. ClockInv' /\ AirInv'
    BY <2>2, <2>3, <2>4, BaseFrame DEF SavedOne
  <2> QED
    BY <2>1, <2>5 DEF BaseInv
<1>3. CASE NextPage \/ EndSync
  <2>1. TypeInv' /\ sync'.answer = <<>>
    BY <1>3, TypeEnds DEF BaseInv
  <2>2. UNCHANGED <<now, log, air, db>> /\ pc' # "closed"
    BY <1>3 DEF NextPage, EndSync, server, store
  <2>3. Stored' = Stored
    BY <2>2 DEF Stored
  <2>4. ClockInv' /\ AirInv'
    BY <2>1, <2>2, <2>3, Empties, BaseFrame DEF Kept
  <2> QED
    BY <2>1, <2>4 DEF BaseInv
<1> QED
  BY <1>1, <1>2, <1>3 DEF Syncing

(* Steps that touch only rooms, lists and the database keep the base        *)
(* invariant.                                                               *)
LEMMA BaseView ==
  ASSUME BaseInv, \/ Joining \/ UNCHANGED vars \/ \E l \in loads : FinishLoad(l)
                  \/ \E r \in Rooms : Scroll(r) \/ DeleteHistory(r) \/ FinishDelete(r)
  PROVE  BaseInv'
<1>1. ASSUME TypeInv', UNCHANGED <<now, log, air, pc, sync>>, \A t \in Stored' : t \in Stored PROVE BaseInv'
  BY <1>1, BaseFrame DEF BaseInv, Kept
<1>2. CASE Joining
  BY <1>1, <1>2, TypeJoin DEF BaseInv, syncer, Stored
<1>3. CASE UNCHANGED vars
  BY <1>1, <1>3, SameTypes DEF BaseInv, vars, server, store, syncer, Stored
<1>4. ASSUME NEW l \in loads, FinishLoad(l) PROVE BaseInv'
  <2>1. TypeInv'
    BY <1>4, TypeFinishLoad DEF BaseInv
  <2> QED
    BY <1>1, <1>4, <2>1 DEF FinishLoad, server, store, syncer, Stored
<1>5. ASSUME NEW r \in Rooms, Scroll(r) PROVE BaseInv'
  <2>1. TypeInv'
    BY <1>5, TypeScroll DEF BaseInv
  <2> QED
    BY <1>1, <1>5, <2>1 DEF Scroll, server, store, syncer, Stored
<1>6. ASSUME NEW r \in Rooms, DeleteHistory(r) \/ FinishDelete(r) PROVE BaseInv'
  <2>1. TypeInv' /\ Deleted(r)
    BY <1>6, TypeDelete DEF BaseInv
  <2>2. UNCHANGED <<now, log, air, pc, sync>>
    BY <1>6 DEF DeleteHistory, FinishDelete, server, syncer
  <2>3. \A t \in Stored' : t \in Stored
    <3>1. \A x \in Rooms : db'[x] \subseteq db[x]
      BY <2>1 DEF Deleted
    <3> QED
      BY <3>1 DEF Stored
  <2> QED
    BY <1>1, <2>1, <2>2, <2>3
<1> QED
  BY <1>2, <1>3, <1>4, <1>5, <1>6

\* The types, the clock and the frames are kept by every step.
THEOREM BaseInductive == Spec => []BaseInv
<1>1. Init => BaseInv
  <2>1. SUFFICES ASSUME Init PROVE BaseInv
    OBVIOUS
  <2>2. TypeInv
    BY <2>1, InitTypes
  <2>3. log = <<>> /\ sync.answer = <<>> /\ air = <<>> /\ Stored = {}
    BY <2>1, NewSyncs DEF Init, Stored
  <2>4. OnTheWay = {} /\ Sorted
    BY <2>3, Empties DEF OnTheWay, Sorted
  <2> QED
    BY <2>2, <2>3, <2>4, Empties DEF BaseInv, ClockInv, AirInv
<1>2. BaseInv /\ [Next]_vars => BaseInv'
  BY BasePersist, BaseServer, BaseReceive, BaseLose, BaseClose, BaseStart, BaseSync, BaseView DEF Next, Joining
<1> QED
  BY <1>1, <1>2, PTL DEF Spec

-----------------------------------------------------------------------------
(* Each message is of one room, and is stored and shown for no other.      *)

\* Message t is stored, shown or about to be shown for room r.
Seen(t, r) == t \in db[r] \/ t \in List(r) \/ \E l \in loads : r \in DOMAIN l.rows /\ t \in l.rows[r]

\* f names the room of every message: it was encrypted with the key of that room.
Belongs(f, t, row) == row.message_content.with = generateSymmetricKey(f[t])
Owned(f) ==
  /\ \A t \in DOMAIN log : Belongs(f, t, log[t])
  /\ \A t \in DOMAIN sync.answer : Belongs(f, t, sync.answer[t])
  /\ \A r \in Rooms, t \in Times : Seen(t, r) => f[t] = r /\ t < now
OwnInv == \E f \in [Times -> Rooms] : Owned(f)

\* Message t of the log, or of the page being saved, is of room r.
OfRoom(t, r) ==
  \/ t \in DOMAIN log /\ log[t].message_content.with = generateSymmetricKey(r)
  \/ t \in DOMAIN sync.answer /\ sync.answer[t].message_content.with = generateSymmetricKey(r)

\* A step that shows or stores nothing but messages of the room, and sends none.
OwnFrame ==
  /\ now <= now' /\ now' \in Nat
  /\ \A t \in DOMAIN log' : t \in DOMAIN log /\ log'[t] = log[t]
  /\ \A t \in DOMAIN sync'.answer : \/ t \in DOMAIN sync.answer /\ sync'.answer[t] = sync.answer[t]
                                    \/ t \in DOMAIN log /\ sync'.answer[t] = log[t]
  /\ \A r \in Rooms, t \in Times : Seen(t, r)' => Seen(t, r) \/ OfRoom(t, r)

(* Steps that add no row anywhere leave every message in its own room.      *)
LEMMA OwnKept == ASSUME BaseInv, OwnInv, OwnFrame PROVE OwnInv'
<1>1. PICK f \in [Times -> Rooms] : Owned(f)
  BY DEF OwnInv
<1>2. now \in Nat /\ Times \subseteq Nat /\ now <= now' /\ now' \in Nat
  BY BaseFacts DEF OwnFrame
<1>3. ASSUME NEW r \in Rooms, NEW t \in Times, Seen(t, r)' PROVE f[t] = r /\ t < now'
  <2>1. CASE Seen(t, r)
    BY <1>1, <1>2, <2>1 DEF Owned
  <2>2. CASE OfRoom(t, r)
    <3>1. t < now
      BY <2>2 DEF OfRoom, BaseInv, ClockInv
    <3>2. generateSymmetricKey(r) = generateSymmetricKey(f[t])
      BY <1>1, <2>2 DEF OfRoom, Owned, Belongs
    <3>3. f[t] = r
      BY <3>2, KeysDiffer
    <3> QED
      BY <1>2, <3>1, <3>3
  <2> QED
    BY <1>3, <2>1, <2>2 DEF OwnFrame
<1>4. \A t \in DOMAIN log' : Belongs(f, t, log'[t])
  BY <1>1 DEF OwnFrame, Owned
<1>5. \A t \in DOMAIN sync'.answer : Belongs(f, t, sync'.answer[t])
  BY <1>1 DEF OwnFrame, Owned
<1>6. Owned(f)'
  BY <1>3, <1>4, <1>5 DEF Owned, Belongs
<1> QED
  BY <1>6 DEF OwnInv

\* A message that is saved is saved for its room.
LEMMA SavedFor ==
  ASSUME ProfileOK, DbOK, pc # "closed", NEW t \in Times, NEW row \in Rows, Save(t, row)
  PROVE  \A r \in Rooms : \A s \in db'[r] :
           s \in db[r] \/ (s = t /\ row.message_content.with = generateSymmetricKey(r))
<1>1. profile \in Profiles /\ profile # NoProfile
  BY DEF ProfileOK
<1>2. PICK x \in Rooms : row.message_content.with = generateSymmetricKey(x)
  BY CipherOf DEF Rows
<1>3. db' = db \/ db' = [db EXCEPT ![x] = db[x] \cup {t}]
  BY <1>1, <1>2, SaveFacts
<1> QED
  BY <1>2, <1>3 DEF DbOK

\* A new message gets the number of its room.
LEMMA OwnPersist == ASSUME BaseInv, OwnInv, NEW x \in Rooms, Persist(x) PROVE OwnInv'
<1>1. PICK row \in Rows : Sent(x, row)
  BY SentFacts
<1>2. now' = now + 1 /\ now \in Times /\ now \in Nat /\ log \in Logs /\ UNCHANGED <<store, syncer, view>>
  BY BaseFacts DEF BaseInv, TypeInv, ServerOK, Persist
<1>3. row.message_content.with = generateSymmetricKey(x)
  BY <1>1, ContentIn DEF Sent, BaseInv, TypeInv, ProfileOK
<1>4. DOMAIN log' = DOMAIN log \cup {now} /\ log'[now] = row /\ \A t \in DOMAIN log \ {now} : log'[t] = log[t]
  BY <1>1 DEF Sent
<1>5. PICK f \in [Times -> Rooms] : Owned(f)
  BY DEF OwnInv
<1>6. PICK g \in [Times -> Rooms] : g[now] = x /\ \A t \in Times \ {now} : g[t] = f[t]
  <2>1. [f EXCEPT ![now] = x] \in [Times -> Rooms]
    BY <1>2
  <2>2. [f EXCEPT ![now] = x][now] = x /\ \A t \in Times \ {now} : [f EXCEPT ![now] = x][t] = f[t]
    BY <1>2
  <2> QED
    BY <2>1, <2>2
<1>7. \A t \in DOMAIN log' : Belongs(g, t, log'[t])
  <2>1. \A t \in DOMAIN log : t \in Times /\ Belongs(f, t, log[t])
    BY <1>5, BaseFacts DEF Owned
  <2> QED
    BY <1>3, <1>4, <1>6, <2>1 DEF Belongs
<1>8. \A t \in DOMAIN sync.answer : Belongs(g, t, sync.answer[t])
  <2>1. \A t \in DOMAIN sync.answer : t \in Times /\ t # now /\ Belongs(f, t, sync.answer[t])
    BY <1>2, <1>5, BaseFacts DEF Owned, BaseInv, ClockInv
  <2> QED
    BY <1>6, <2>1 DEF Belongs
<1>9. ASSUME NEW r \in Rooms, NEW t \in Times, Seen(t, r)' PROVE g[t] = r /\ t < now + 1
  <2>1. Seen(t, r)
    BY <1>2, <1>9 DEF Seen, List, store, view
  <2>2. f[t] = r /\ t < now /\ t \in Nat
    BY <1>5, <2>1, BaseFacts DEF Owned
  <2>3. t # now /\ t < now + 1
    BY <1>2, <2>2
  <2> QED
    BY <1>6, <2>2, <2>3
<1>10. Owned(g)'
  BY <1>2, <1>7, <1>8, <1>9 DEF Owned, Belongs, syncer
<1> QED
  BY <1>10 DEF OwnInv

(* A message is saved under the room whose key decrypts it.                 *)
LEMMA OwnSave ==
  ASSUME BaseInv, OwnInv, SaveNext \/ Receive
  PROVE  OwnInv'
<1>1. CASE SaveNext
  <2>1. PICK t : SavedOne(t)
    BY <1>1, TypeSaveNext DEF BaseInv
  <2>2. UNCHANGED <<now, log, chatHistory, loads>> /\ pc = "save" /\ now <= now /\ now \in Nat
    BY <1>1, BaseFacts DEF SaveNext, server, view
  <2>3. PICK l \in Logs : l = sync.answer
    BY SyncParts DEF BaseInv, TypeInv, SyncOK
  <2>4. t \in Times /\ sync.answer[t] \in Rows /\ t \in DOMAIN sync.answer
    BY <2>1, <2>3, LogFacts DEF SavedOne
  <2>5. \A r \in Rooms : \A s \in db'[r] : s \in db[r] \/ OfRoom(s, r)
    BY <2>1, <2>2, <2>4, SavedFor DEF SavedOne, OfRoom, BaseInv, TypeInv
  <2>6. OwnFrame
    BY <2>1, <2>2, <2>5 DEF OwnFrame, SavedOne, Seen, List
  <2> QED
    BY <2>6, OwnKept
<1>2. CASE Receive
  <2>1. Received(Head(air)) /\ UNCHANGED <<now, log, sync, loads>> /\ now <= now /\ now \in Nat
    BY <1>2, BaseReceive, BaseFacts DEF Receive, server, syncer
  <2>2. PICK t : t = Head(air) /\ t \in DOMAIN log /\ t \in Times /\ log[t] \in Rows
    <3>1. Head(air) \in DOMAIN log
      BY <1>2, BaseReceive DEF Popped, BaseInv, AirInv
    <3> QED
      BY <3>1, LogFacts DEF BaseInv, TypeInv, ServerOK
  <2>3. \A r \in Rooms : \A s \in db'[r] : s \in db[r] \/ (s = t /\ OfRoom(t, r))
    BY <2>1, <2>2, SavedFor DEF Received, OfRoom, BaseInv, TypeInv
  <2>4. \A r \in Rooms : \A s \in List(r)' : s \in List(r) \/ s \in db'[r]
    BY <2>1, <2>2 DEF Received, List
  <2>5. OwnFrame
    BY <2>1, <2>3, <2>4 DEF OwnFrame, Seen
  <2> QED
    BY <2>5, OwnKept
<1> QED
  BY <1>1, <1>2

(* Pages and their ends move no message to another room.                    *)
LEMMA OwnSync == ASSUME BaseInv, OwnInv, Fetch \/ NextPage \/ EndSync PROVE OwnInv'
<1>1. UNCHANGED <<now, log, db, chatHistory>> /\ now <= now /\ now \in Nat
  <2>1. UNCHANGED <<now, log, db, chatHistory>>
    BY DEF Fetch, NextPage, EndSync, server, store, view
  <2> QED
    BY <2>1, BaseFacts
<1>2. CASE Fetch
  <2>1. NothingArrived \/ \E page : PageArrived(page)
    BY <1>2, TypeFetch DEF BaseInv
  <2>2. \A t \in DOMAIN sync'.answer : t \in DOMAIN log /\ sync'.answer[t] = log[t]
    <3>1. CASE NothingArrived
      BY <3>1, Empties DEF NothingArrived
    <3>2. ASSUME NEW page, PageArrived(page) PROVE \A t \in DOMAIN sync'.answer : t \in DOMAIN log /\ sync'.answer[t] = log[t]
      BY <3>2, PageFacts DEF PageArrived, BaseInv, TypeInv
    <3> QED
      BY <2>1, <3>1, <3>2
  <2>3. loads' = loads
    BY <1>2 DEF Fetch, view
  <2>4. OwnFrame
    BY <1>1, <2>2, <2>3 DEF OwnFrame, Seen, List
  <2> QED
    BY <2>4, OwnKept
<1>3. CASE NextPage \/ EndSync
  <2>1. sync'.answer = <<>>
    BY <1>3, TypeEnds DEF BaseInv
  <2>2. ASSUME NEW r \in Rooms, NEW t \in Times, Seen(t, r)' PROVE Seen(t, r)
    <3>1. CASE NextPage
      BY <1>1, <2>2, <3>1 DEF Seen, List, NextPage, view
    <3>2. CASE EndSync
      <4>1. loads' = {[kind |-> "rooms", rows |-> [x \in MyRooms |-> getMessagesForRoom(x, sync.to)]]}
        BY <3>2 DEF EndSync
      <4>2. \A l \in loads' : r \in DOMAIN l.rows => l.rows[r] = getMessagesForRoom(r, sync.to)
        BY <4>1
      <4>3. getMessagesForRoom(r, sync.to) \subseteq db[r]
        BY DEF getMessagesForRoom
      <4> QED
        BY <1>1, <2>2, <4>2, <4>3 DEF Seen, List
    <3> QED
      BY <1>3, <3>1, <3>2
  <2>3. OwnFrame
    BY <1>1, <2>1, <2>2, Empties DEF OwnFrame
  <2> QED
    BY <2>3, OwnKept
<1> QED
  BY <1>2, <1>3

\* Steps of the lists: what they show was read before, or is stored.
LEMMA OwnView ==
  ASSUME BaseInv, OwnInv, \/ \E l \in loads : FinishLoad(l)
                          \/ \E r \in Rooms : Scroll(r) \/ DeleteHistory(r) \/ FinishDelete(r)
  PROVE  OwnInv'
<1>1. ASSUME UNCHANGED <<now, log, sync>>, \A r \in Rooms, t \in Times : Seen(t, r)' => Seen(t, r) PROVE OwnInv'
  BY <1>1, OwnKept, BaseFacts DEF OwnFrame
<1>2. ASSUME NEW l \in loads, FinishLoad(l) PROVE OwnInv'
  <2>1. Replaced(l) \/ Added(l)
    BY <1>2, TypeFinishLoad DEF BaseInv
  <2>2. UNCHANGED <<now, log, db, sync>> /\ loads' = loads \ {l}
    BY <1>2 DEF FinishLoad, server, store, syncer
  <2>3. ASSUME NEW r \in Rooms, NEW t \in List(r)' PROVE t \in List(r) \/ (r \in DOMAIN l.rows /\ t \in l.rows[r])
    BY <2>1, <2>3 DEF Replaced, Added
  <2>4. \A r \in Rooms, t \in Times : Seen(t, r)' => Seen(t, r)
    BY <2>2, <2>3 DEF Seen
  <2> QED
    BY <1>1, <2>2, <2>4
<1>3. ASSUME NEW r \in Rooms, Scroll(r) PROVE OwnInv'
  <2>1. PICK t, l : Scrolled(r, t, l)
    BY <1>3, TypeScroll DEF BaseInv
  <2>2. UNCHANGED <<now, log, db, sync, chatHistory>>
    BY <1>3 DEF Scroll, server, store, syncer
  <2>3. l.rows[r] \subseteq db[r] /\ DOMAIN l.rows = {r} /\ loads' = loads \cup {l}
    BY <2>1 DEF Scrolled, getMessagesForRoom
  <2>4. \A x \in Rooms, s \in Times : Seen(s, x)' => Seen(s, x)
    BY <2>2, <2>3 DEF Seen, List
  <2> QED
    BY <1>1, <2>2, <2>4
<1>4. ASSUME NEW r \in Rooms, DeleteHistory(r) \/ FinishDelete(r) PROVE OwnInv'
  <2>1. Deleted(r) /\ (FinishDelete(r) => \A x \in Rooms : List(x)' = {})
    BY <1>4, TypeDelete DEF BaseInv
  <2>2. UNCHANGED <<now, log, sync, loads>>
    BY <1>4 DEF DeleteHistory, FinishDelete, server, syncer
  <2>3. \A x \in Rooms : List(x)' \subseteq List(x)
    BY <1>4, <2>1 DEF DeleteHistory, List
  <2>4. \A x \in Rooms : db'[x] \subseteq db[x]
    BY <2>1 DEF Deleted
  <2>5. \A x \in Rooms, s \in Times : Seen(s, x)' => Seen(s, x)
    BY <2>2, <2>3, <2>4 DEF Seen
  <2> QED
    BY <1>1, <2>2, <2>5
<1> QED
  BY <1>2, <1>3, <1>4

(* The remaining steps move no message to another room.                     *)
LEMMA OwnRest ==
  ASSUME BaseInv, OwnInv,
         Tick \/ Cleanup \/ Register \/ Open \/ LoseBroadcast \/ Close \/ Joining \/ UNCHANGED vars
  PROVE  OwnInv'
<1>1. /\ db' = db /\ now' \in Nat /\ now <= now'
      /\ \A t \in DOMAIN log' : t \in DOMAIN log /\ log'[t] = log[t]
  <2>1. CASE Tick \/ Cleanup
    BY <2>1, BaseServer, BaseFacts DEF Tick, Cleanup, store, BaseInv, TypeInv, ServerOK, Times
  <2>2. CASE Register \/ Open \/ LoseBroadcast \/ Close \/ Joining \/ UNCHANGED vars
    <3>1. UNCHANGED <<now, log, db>>
      BY <2>2, TypeJoin DEF BaseInv, Register, Open, LoseBroadcast, Close, vars, server, store
    <3> QED
      BY <3>1, BaseFacts
  <2> QED
    BY <2>1, <2>2
<1>2. sync'.answer = <<>> \/ sync' = sync
  <2>1. CASE Open
    <3>1. TypeInv' /\ pc' = "request"
      BY <2>1, TypeOpen DEF BaseInv, Open
    <3> QED
      BY <3>1 DEF TypeInv, SyncOK
  <2>2. CASE Close
    BY <2>2, TypeClose DEF BaseInv
  <2>3. CASE Joining
    BY <2>3, TypeJoin DEF BaseInv, syncer
  <2> QED
    BY <2>1, <2>2, <2>3 DEF Tick, Cleanup, Register, LoseBroadcast, vars, syncer
<1>3. UNCHANGED <<chatHistory, loads>> \/ (chatHistory' = <<>> /\ loads' = {})
  <2>1. CASE Joining
    BY <2>1, TypeJoin DEF BaseInv, view
  <2> QED
    BY <2>1 DEF Tick, Cleanup, Register, Open, LoseBroadcast, Close, vars, view
<1>4. \A r \in Rooms, t \in Times : Seen(t, r)' => Seen(t, r)
  <2>1. CASE UNCHANGED <<chatHistory, loads>>
    BY <1>1, <2>1 DEF Seen, List
  <2>2. CASE chatHistory' = <<>> /\ loads' = {}
    <3>1. \A r \in Rooms : List(r)' = {}
      BY <2>2, Empties DEF List
    <3> QED
      BY <1>1, <2>2, <3>1 DEF Seen
  <2> QED
    BY <1>3, <2>1, <2>2
<1>5. OwnFrame
  BY <1>1, <1>2, <1>4, Empties DEF OwnFrame
<1> QED
  BY <1>5, OwnKept

\* Every message is of one room.
THEOREM OwnInductive == Spec => []OwnInv
<1>1. Init => OwnInv
  <2>1. SUFFICES ASSUME Init PROVE OwnInv
    OBVIOUS
  <2>2. /\ log = <<>> /\ sync.answer = <<>> /\ db = [r \in Rooms |-> {}]
        /\ chatHistory = <<>> /\ loads = {}
    BY <2>1, NewSyncs DEF Init
  <2>3. PICK f \in [Times -> Rooms] : TRUE
    <3>1. [t \in Times |-> own] \in [Times -> Rooms]
      BY DEF Rooms
    <3> QED
      BY <3>1
  <2>4. \A r \in Rooms, t \in Times : ~ Seen(t, r)
    BY <2>2, Empties DEF Seen, List
  <2>5. Owned(f)
    BY <2>2, <2>4, Empties DEF Owned
  <2> QED
    BY <2>5 DEF OwnInv
<1>2. BaseInv /\ OwnInv /\ [Next]_vars => OwnInv'
  BY OwnPersist, OwnSave, OwnSync, OwnView, OwnRest DEF Next, Syncing, Joining
<1>3. Spec => []BaseInv
  BY BaseInductive
<1> QED
  BY <1>1, <1>2, <1>3, PTL DEF Spec

-----------------------------------------------------------------------------
(* Nothing falls between two pages, or behind a live message.              *)

\* What the client is still owed: it is in the page being saved, or it is on its way
\* and later than everything the client has, or it will be asked for.
Owed     == DOMAIN log \ (Stored \cup missed)
Paging   == pc = "request" \/ (pc = "save" /\ sync.next # None)
Start    == IF pc = "request" THEN sync.from ELSE sync.next
Later(t) == t \in OnTheWay /\ \A s \in Kept : s < t
Asked(t) ==
  \/ t \in DOMAIN sync.answer
  \/ t \in OnTheWay /\ sync.to <= t
  \/ Start <= t /\ t < sync.to
PageInv  ==
  /\ pc \in {"request", "save"} => \A s \in Kept : s < sync.to
  /\ pc = "closed" => \A t \in Owed : \A s \in Stored : s < t
  /\ pc # "closed" /\ ~ Paging => \A t \in Owed : t \in DOMAIN sync.answer \/ Later(t)
  /\ Paging => Start <= now /\ \A t \in Owed : Asked(t)

\* Steps after which the client has no more than before, and is owed no more.
LEMMA PageFrame ==
  ASSUME BaseInv, PageInv, UNCHANGED <<pc, sync>>, now <= now', now' \in Nat,
         OnTheWay' = OnTheWay, Stored' \subseteq Stored, Owed' \subseteq Owed
  PROVE  PageInv'
<1>1. Kept' \subseteq Kept
  BY DEF Kept
<1>2. \A t \in Owed : Later(t) => Later(t)'
  BY <1>1 DEF Later
<1>3. \A t \in Owed : Asked(t) => Asked(t)'
  BY DEF Asked, Start
<1>4. Paging => Start \in Nat
  BY BaseFacts DEF Paging, Start
<1>5. Paging' = Paging /\ Start' = Start
  BY DEF Paging, Start
<1>6. Paging => Start' <= now'
  <2>1. \A n \in Nat : n <= now => n <= now'
    BY BaseFacts
  <2> QED
    BY <1>4, <1>5, <2>1 DEF PageInv
<1> QED
  BY <1>1, <1>2, <1>3, <1>5, <1>6 DEF PageInv

(* A new message is owed to nobody, or will be asked for or broadcast.      *)
LEMMA PagePersist == ASSUME BaseInv, PageInv, NEW r \in Rooms, Persist(r) PROVE PageInv'
<1>1. DOMAIN log' = DOMAIN log \cup {now}
  BY SentFacts DEF Sent
<1>2. /\ UNCHANGED <<pc, sync>> /\ Stored' = Stored /\ missed' = missed /\ Kept' = Kept
      /\ now' = now + 1 /\ now \in Nat
      /\ air' = IF pc = "closed" THEN air ELSE Append(air, now)
  BY BaseFacts DEF Persist, store, syncer, history, Stored, Kept
<1>3. Owed' \subseteq Owed \cup {now}
  BY <1>1, <1>2 DEF Owed
<1>4. \A s \in Kept : s < now
  BY DEF BaseInv, ClockInv, Kept
<1>5. pc # "closed" => OnTheWay' = OnTheWay \cup {now}
  <2>1. SUFFICES ASSUME pc # "closed" PROVE OnTheWay' = OnTheWay \cup {now}
    OBVIOUS
  <2>2. PICK n \in Times : n = now
    BY DEF BaseInv, TypeInv, ServerOK
  <2>3. \A a \in OnTheWay : a < n
    BY <2>2 DEF BaseInv, AirInv, ClockInv
  <2> QED
    BY <1>2, <2>1, <2>2, <2>3, AirAppend DEF BaseInv, TypeInv, ServerOK, AirInv
<1>6. Paging' = Paging /\ Start' = Start
  BY <1>2 DEF Paging, Start
<1>7. pc # "closed" => \A t \in Owed : (Later(t) => Later(t)') /\ (Asked(t) => Asked(t)')
  BY <1>2, <1>5, <1>6 DEF Later, Asked
<1>0. PICK n : n = now
  OBVIOUS
<1>8. pc # "closed" => Later(n)'
  BY <1>0, <1>2, <1>4, <1>5 DEF Later
<1>9. Paging /\ Start <= now => Asked(n)'
  <2>1. sync.to <= now \/ now < sync.to
    BY <1>2, BaseFacts
  <2> QED
    BY <1>0, <1>2, <1>5, <1>6, <2>1 DEF Asked, Paging
<1>10. Paging /\ Start <= now => Start <= now + 1
  <2>1. Paging => Start \in Nat
    BY BaseFacts DEF Paging, Start
  <2> QED
    BY <1>2, <2>1
<1>11. pc = "closed" => \A t \in Owed' : \A s \in Stored' : s < t
  BY <1>2, <1>3, <1>4 DEF PageInv, Kept
<1>12. pc # "closed" /\ ~ Paging => \A t \in Owed' : t \in DOMAIN sync'.answer \/ Later(t)'
  <2>1. SUFFICES ASSUME pc # "closed", ~ Paging, NEW t \in Owed'
                 PROVE  t \in DOMAIN sync.answer \/ Later(t)'
    BY <1>2
  <2>2. CASE t = now
    BY <1>0, <1>8, <2>1, <2>2
  <2>3. CASE t # now
    BY <1>3, <1>7, <2>1, <2>3 DEF PageInv
  <2> QED
    BY <2>2, <2>3
<1>13. Paging => Start' <= now' /\ \A t \in Owed' : Asked(t)'
  <2>1. SUFFICES ASSUME Paging PROVE Start' <= now' /\ \A t \in Owed' : Asked(t)'
    OBVIOUS
  <2>2. Start <= now /\ pc # "closed" /\ \A t \in Owed : Asked(t)
    BY <2>1 DEF PageInv, Paging
  <2>3. Start' <= now'
    BY <1>2, <1>6, <1>10, <2>1, <2>2
  <2>4. ASSUME NEW t \in Owed' PROVE Asked(t)'
    <3>1. CASE t = now
      BY <1>0, <1>9, <2>1, <2>2, <3>1
    <3>2. CASE t # now
      BY <1>3, <1>7, <2>2, <3>2
    <3> QED
      BY <3>1, <3>2
  <2> QED
    BY <2>3, <2>4
<1> QED
  BY <1>2, <1>6, <1>11, <1>12, <1>13 DEF PageInv

\* The application starts: all it is owed is asked for, from the newest it has.
LEMMA PageStart == ASSUME BaseInv, PageInv, Register \/ Open PROVE PageInv'
<1>1. /\ UNCHANGED <<now, log>> /\ Stored' = Stored /\ pc = "closed"
      /\ \A t \in DOMAIN log : t \in Nat /\ t < now
      /\ \A s \in Stored : s \in Nat /\ s < now
      /\ now \in Nat
  <2>1. UNCHANGED <<now, log>> /\ Stored' = Stored /\ pc = "closed"
    BY DEF Register, Open, server, store, Stored
  <2> QED
    BY <2>1, BaseFacts DEF BaseInv, ClockInv
<1>2. CASE Register
  <2>1. pc' = "done" /\ missed' = DOMAIN log
    BY <1>2 DEF Register
  <2>2. Owed' = {} /\ ~ Paging'
    BY <1>1, <2>1 DEF Owed, Paging
  <2> QED
    BY <2>1, <2>2 DEF PageInv
<1>3. CASE Open
  <2>1. pc' = "request" /\ missed' = {t \in missed : t < FirstFrom}
    BY <1>3 DEF Open
  <2>2. /\ sync'.from = FirstFrom /\ sync'.to \in Nat /\ now <= sync'.to /\ sync'.answer = <<>>
        /\ FirstFrom \in Nat /\ \A t \in Nat : t < FirstFrom <=> \E s \in Stored : t <= s
    BY <1>3, <2>1, TypeOpen, FirstFromFacts DEF BaseInv, TypeInv, SyncOK
  <2>3. Kept' = Stored
    BY <1>1, <2>2, Empties DEF Kept
  <2>4. \A s \in Kept' : s < sync'.to
    BY <1>1, <2>2, <2>3
  <2>5. FirstFrom <= now
    <3>1. SUFFICES ASSUME now < FirstFrom PROVE FALSE
      BY <1>1, <2>2
    <3>2. PICK s \in Stored : now <= s
      BY <1>1, <2>2, <3>1
    <3> QED
      BY <1>1, <3>2
  <2>6. ASSUME NEW t \in Owed' PROVE Asked(t)'
    <3>1. t \in DOMAIN log /\ t \notin Stored /\ t \in Nat /\ t < now /\ t < sync'.to
      BY <1>1, <2>2 DEF Owed
    <3>2. FirstFrom <= t
      <4>1. SUFFICES ASSUME t < FirstFrom PROVE FALSE
        BY <2>2, <3>1
      <4>2. t \in Owed
        BY <1>1, <2>1, <4>1 DEF Owed
      <4>3. PICK s \in Stored : t <= s
        BY <2>2, <3>1, <4>1
      <4>4. s < t
        BY <1>1, <4>2 DEF PageInv
      <4> QED
        BY <1>1, <3>1, <4>3, <4>4
    <3> QED
      BY <2>1, <2>2, <3>1, <3>2 DEF Asked, Start
  <2> QED
    BY <1>1, <2>1, <2>2, <2>4, <2>5, <2>6 DEF PageInv, Paging, Start
<1> QED
  BY <1>2, <1>3

\* A page cut by epoch leaves nothing of the range before the start of the next.
LEMMA PageFetch == ASSUME BaseInv, PageInv, Fetch PROVE PageInv'
<1>1. /\ pc = "request" /\ pc' = "save" /\ UNCHANGED <<now, log>> /\ Stored' = Stored /\ OnTheWay' = OnTheWay
      /\ sync.answer = <<>> /\ Paging
  <2>1. pc = "request" /\ pc' = "save" /\ UNCHANGED <<now, log>> /\ Stored' = Stored /\ OnTheWay' = OnTheWay
    <3>1. pc = "request" /\ pc' = "save" /\ UNCHANGED <<server, air, store>>
      BY DEF Fetch
    <3> QED
      BY <3>1 DEF server, store, Stored, OnTheWay
  <2>2. sync.answer = <<>> /\ Paging
    BY <2>1 DEF BaseInv, TypeInv, SyncOK, Paging
  <2> QED
    BY <2>1, <2>2
<1>2. sync'.from = sync.from /\ sync'.to = sync.to /\ (NothingArrived \/ \E page : PageArrived(page))
  BY TypeFetch DEF BaseInv
<1>3. /\ \A t \in DOMAIN log : t \in Nat /\ t < now /\ log[t].epoch \in Nat /\ log[t].epoch < t
      /\ \A s \in Stored : s \in Nat /\ s < sync.to
      /\ sync.from \in Nat /\ sync.to \in Nat /\ now \in Nat /\ None \notin Nat
  BY <1>1, BaseFacts DEF BaseInv, ClockInv, PageInv, Kept
<1>4. ASSUME NEW t \in Owed
      PROVE  (t \in OnTheWay /\ sync.to <= t) \/ t \in InRange
  <2>1. Asked(t) /\ t \in DOMAIN log /\ t \notin DOMAIN sync.answer
    BY <1>1, Empties DEF PageInv, Owed
  <2> QED
    BY <1>1, <2>1 DEF Asked, Start, InRange
<1>5. CASE NothingArrived
  <2>1. missed' = missed \cup (InRange \ Stored) /\ sync'.answer = <<>> /\ sync'.next = None
    BY <1>5 DEF NothingArrived
  <2>2. Kept' = Stored /\ ~ Paging'
    BY <1>1, <2>1, Empties DEF Kept, Paging
  <2>3. ASSUME NEW t \in Owed' PROVE Later(t)'
    <3>1. t \in Owed /\ t \notin InRange
      BY <1>1, <2>1 DEF Owed
    <3>2. t \in OnTheWay /\ sync.to <= t /\ t \in Nat
      BY <1>3, <1>4, <3>1 DEF Owed
    <3> QED
      BY <1>1, <1>3, <2>2, <3>2 DEF Later
  <2> QED
    BY <1>1, <1>2, <1>3, <2>2, <2>3 DEF PageInv
<1>6. ASSUME NEW page, PageArrived(page) PROVE PageInv'
  <2>1. /\ page \in Pages /\ missed' = missed /\ DOMAIN sync'.answer = page
        /\ sync'.next = IF Cardinality(page) = Limit THEN NextFrom(page) ELSE None
    BY <1>6 DEF PageArrived
  <2>2. /\ page \in SUBSET InRange
        /\ Cardinality(page) # Limit => page = InRange
        /\ \A s \in page, t \in InRange \ page : log[s].epoch <= log[t].epoch
    BY <2>1, PageFacts DEF BaseInv, TypeInv
  <2>3. \A t \in InRange : t \in DOMAIN log /\ t < sync.to
    BY DEF InRange
  <2>4. \A s \in Kept' : s < sync.to
    BY <1>1, <1>3, <2>1, <2>2, <2>3 DEF Kept
  <2>5. Owed' = Owed
    BY <1>1, <2>1 DEF Owed
  <2>6. \A t \in Owed : t \in OnTheWay /\ sync.to <= t => Later(t)'
    <3>1. \A s \in Kept' : s \in Nat
      BY <1>1, <1>3, <2>1, <2>2, <2>3 DEF Kept
    <3>2. \A t \in Owed : t \in Nat
      BY <1>3 DEF Owed
    <3> QED
      BY <1>1, <1>3, <2>4, <3>1, <3>2 DEF Later
  <2>7. CASE Cardinality(page) # Limit
    <3>1. ~ Paging' /\ page = InRange
      BY <1>1, <2>1, <2>2, <2>7 DEF Paging
    <3>2. \A t \in Owed' : t \in DOMAIN sync'.answer \/ Later(t)'
      BY <1>4, <2>1, <2>5, <2>6, <3>1
    <3> QED
      BY <1>1, <1>2, <2>4, <3>1, <3>2 DEF PageInv
  <2>8. CASE Cardinality(page) = Limit
    <3>1. sync'.next \in Nat /\ \E s \in page : sync'.next = log[s].epoch + 1
      BY <2>1, <2>8, NextFacts DEF BaseInv, TypeInv
    <3>2. PICK s \in page : sync'.next = log[s].epoch + 1
      BY <3>1
    <3>3. s \in DOMAIN log
      BY <2>2, <2>3
    <3>4. Paging' /\ Start' = sync'.next
      BY <1>1, <1>3, <3>1 DEF Paging, Start
    <3>5. Start' <= now'
      BY <1>1, <1>3, <3>2, <3>3, <3>4
    <3>6. ASSUME NEW t \in Owed' PROVE Asked(t)'
      <4>1. CASE t \in OnTheWay /\ sync.to <= t
        BY <1>1, <1>2, <4>1 DEF Asked
      <4>2. CASE t \in page
        BY <2>1, <4>2 DEF Asked
      <4>3. CASE t \in InRange \ page
        <5>1. log[s].epoch <= log[t].epoch /\ t \in DOMAIN log /\ t < sync.to
          BY <2>2, <2>3, <4>3
        <5>2. log[s].epoch + 1 <= t
          BY <1>3, <3>3, <5>1
        <5> QED
          BY <1>2, <3>2, <3>4, <5>1, <5>2 DEF Asked
      <4> QED
        BY <1>4, <2>5, <3>6, <4>1, <4>2, <4>3
    <3> QED
      BY <1>1, <1>2, <2>4, <3>4, <3>5, <3>6 DEF PageInv
  <2> QED
    BY <2>7, <2>8
<1> QED
  BY <1>2, <1>5, <1>6

(* Saving a message of the page takes it off what is owed.                  *)
LEMMA PageSave == ASSUME BaseInv, PageInv, SaveNext PROVE PageInv'
<1>1. PICK t : SavedOne(t)
  BY TypeSaveNext DEF BaseInv
<1>2. /\ sync'.from = sync.from /\ sync'.to = sync.to /\ sync'.next = sync.next
      /\ UNCHANGED <<now, log, pc>> /\ OnTheWay' = OnTheWay /\ pc = "save"
      /\ DOMAIN sync'.answer = DOMAIN sync.answer \ {t} /\ t \in DOMAIN sync.answer
  BY <1>1, TypeSaveNext DEF BaseInv, SaveNext, server, OnTheWay, SavedOne
<1>3. /\ \A x : x \in Stored' => x \in Stored \cup {t}
      /\ Stored \subseteq Stored' /\ t \in Stored' \cup missed' /\ missed \subseteq missed' \cup {t}
  <2>1. PICK l \in Logs : l = sync.answer
    BY SyncParts DEF BaseInv, TypeInv, SyncOK
  <2>2. t \in Times /\ sync.answer[t] \in Rows
    BY <1>2, <2>1, LogFacts
  <2> QED
    BY <1>1, <1>2, <2>2, SavedTypes DEF SavedOne, BaseInv, TypeInv
<1>4. Kept' \subseteq Kept /\ Owed' \subseteq Owed /\ t \notin Owed'
  BY <1>2, <1>3 DEF Kept, Owed
<1>5. Paging' = Paging /\ Start' = Start
  BY <1>2 DEF Paging, Start
<1>6. \A x \in Owed' : (Later(x) => Later(x)') /\ (Asked(x) => Asked(x)')
  BY <1>2, <1>4, <1>5 DEF Later, Asked
<1>7. \A x \in Owed' : x \in DOMAIN sync.answer => x \in DOMAIN sync'.answer
  BY <1>2, <1>4
<1> QED
  BY <1>2, <1>4, <1>5, <1>6, <1>7 DEF PageInv

(* When a page is done, the next begins no later than what is still owed.   *)
LEMMA PageEnds == ASSUME BaseInv, PageInv, NextPage \/ EndSync PROVE PageInv'
<1>1. /\ UNCHANGED <<now, log, missed>> /\ Stored' = Stored /\ OnTheWay' = OnTheWay
      /\ pc = "save" /\ sync.answer = <<>> /\ sync'.answer = <<>>
  <2>1. UNCHANGED <<now, log, missed>> /\ Stored' = Stored /\ OnTheWay' = OnTheWay
    BY DEF NextPage, EndSync, server, store, history, Stored, OnTheWay
  <2> QED
    BY <2>1, TypeEnds DEF BaseInv
<1>2. Owed' = Owed /\ Kept' = Kept
  BY <1>1 DEF Owed, Kept
<1>3. CASE NextPage
  <2>1. pc' = "request" /\ sync.next # None /\ sync'.from = sync.next /\ sync'.to = sync.to
    BY <1>3, TypeEnds DEF NextPage, BaseInv
  <2>2. Paging /\ Paging' /\ Start' = Start
    BY <1>1, <2>1 DEF Paging, Start
  <2>3. \A t \in Owed : Asked(t) => Asked(t)'
    BY <1>1, <2>1, <2>2 DEF Asked
  <2> QED
    BY <1>1, <1>2, <2>1, <2>2, <2>3 DEF PageInv
<1>4. CASE EndSync
  <2>1. pc' = "done" /\ sync.next = None /\ ~ Paging /\ ~ Paging'
    BY <1>1, <1>4 DEF EndSync, Paging
  <2>2. \A t \in Owed' : Later(t)'
    BY <1>1, <1>2, <2>1, Empties DEF PageInv, Later
  <2> QED
    BY <2>1, <2>2 DEF PageInv
<1> QED
  BY <1>3, <1>4

\* The first frame is taken from the air: what is still owed is later.
LEMMA PagePop ==
  ASSUME BaseInv, PageInv, Popped, UNCHANGED <<now, pc, sync>>, pc # "closed",
         \A t \in Stored' : t \in Stored \cup {Head(air)},
         pc \in {"request", "save"} => Stored' \subseteq Stored,
         Owed' \subseteq Owed, Head(air) \notin Owed'
  PROVE  PageInv'
<1>1. PICK h : h = Head(air) /\ h \in Nat
  BY BaseFacts DEF Popped
<1>2. OnTheWay' = OnTheWay \ {h} /\ \A a \in OnTheWay : h <= a /\ a \in Nat
  BY <1>1, BaseFacts DEF Popped
<1>3. Paging' = Paging /\ Start' = Start
  BY DEF Paging, Start
<1>4. ASSUME NEW t \in Owed', Later(t) PROVE Later(t)'
  <2>1. t # h /\ t \in OnTheWay /\ t \in Nat /\ h < t
    BY <1>1, <1>2, <1>4 DEF Later
  <2>2. \A s \in Kept' : s \in Kept \/ s = h
    BY <1>1 DEF Kept
  <2> QED
    BY <1>2, <1>4, <2>1, <2>2 DEF Later
<1>5. \A t \in Owed' : Asked(t) => Asked(t)'
  BY <1>1, <1>2, <1>3 DEF Asked
<1>6. pc \in {"request", "save"} => Kept' \subseteq Kept
  BY DEF Kept
<1> QED
  BY <1>3, <1>4, <1>5, <1>6 DEF PageInv

(* A broadcast that arrives is stored, and one that is lost counts as       *)
(* missed.                                                                  *)
LEMMA PageFrames == ASSUME BaseInv, PageInv, Receive \/ LoseBroadcast PROVE PageInv'
<1>1. Popped /\ UNCHANGED <<now, log, pc, sync>> /\ pc # "closed"
  <2>1. UNCHANGED <<now, log, pc, sync>> /\ air # <<>>
    BY DEF Receive, LoseBroadcast, server, syncer
  <2> QED
    BY <2>1, BaseReceive, BaseLose DEF BaseInv, AirInv
<1>2. PICK h : h = Head(air) /\ h \in DOMAIN log /\ h \in Times /\ log[h] \in Rows
  BY <1>1, LogFacts DEF Popped, BaseInv, AirInv, TypeInv, ServerOK
<1>3. CASE Receive /\ pc = "done"
  <2>1. Save(h, log[h])
    BY <1>2, <1>3, BaseReceive DEF Received
  <2>2. /\ \A x : x \in Stored' => x \in Stored \cup {h}
        /\ Stored \subseteq Stored' /\ h \in Stored' \cup missed' /\ missed \subseteq missed' \cup {h}
    BY <1>1, <1>2, <2>1, SavedTypes DEF BaseInv, TypeInv
  <2>3. Owed' \subseteq Owed /\ h \notin Owed'
    BY <1>1, <2>2 DEF Owed
  <2> QED
    BY <1>1, <1>2, <1>3, <2>2, <2>3, PagePop
<1>4. CASE ~ (Receive /\ pc = "done")
  <2>1. missed' = missed \cup ({h} \ Stored) /\ Stored' = Stored
    BY <1>2, <1>4 DEF Receive, LoseBroadcast, store, Stored
  <2>2. Owed' \subseteq Owed /\ h \notin Owed'
    BY <1>1, <2>1 DEF Owed
  <2> QED
    BY <1>1, <1>2, <2>1, <2>2, PagePop
<1> QED
  BY <1>3, <1>4

(* Closing the page counts what its synchronisation still owed as missed.   *)
LEMMA PageClose == ASSUME BaseInv, PageInv, Close PROVE PageInv'
<1>1. /\ UNCHANGED log /\ Stored' = Stored /\ pc # "closed" /\ pc' = "closed"
      /\ missed' = missed \cup (IF pc = "done" THEN {} ELSE {t \in DOMAIN log : t < sync.to} \ Stored)
  BY DEF Close, server, store, Stored
<1>2. ASSUME NEW t \in Owed', NEW s \in Stored PROVE s < t
  <2>1. t \in Owed /\ t \in Nat /\ s \in Nat /\ sync.to \in Nat
    BY <1>1, BaseFacts DEF Owed
  <2>2. CASE pc = "done"
    <3>1. sync.answer = <<>> /\ ~ Paging
      BY <2>2 DEF BaseInv, TypeInv, SyncOK, Paging
    <3> QED
      BY <1>1, <2>1, <3>1, Empties DEF PageInv, Later, Kept
  <2>3. CASE pc # "done"
    <3>1. pc \in {"request", "save"}
      BY <1>1, <2>3 DEF BaseInv, TypeInv, SyncOK
    <3>2. s < sync.to
      BY <3>1 DEF PageInv, Kept
    <3>3. ~ (t < sync.to)
      BY <1>1, <1>2, <2>3 DEF Owed
    <3> QED
      BY <2>1, <3>2, <3>3
  <2> QED
    BY <2>2, <2>3
<1> QED
  BY <1>1, <1>2 DEF PageInv, Paging

(* The remaining steps leave what is owed and asked for as it was.          *)
LEMMA PageRest ==
  ASSUME BaseInv, PageInv,
         \/ Tick \/ Cleanup \/ Joining \/ UNCHANGED vars \/ \E l \in loads : FinishLoad(l)
         \/ \E r \in Rooms : Scroll(r) \/ DeleteHistory(r) \/ FinishDelete(r)
  PROVE  PageInv'
<1>1. CASE Tick \/ Cleanup
  <2>1. UNCHANGED <<pc, sync, db, missed>> /\ OnTheWay' = OnTheWay
    BY <1>1 DEF Tick, Cleanup, store, syncer, history, OnTheWay
  <2>2. now <= now' /\ now' \in Nat /\ DOMAIN log' \subseteq DOMAIN log
    BY <1>1, BaseServer DEF BaseInv, TypeInv, ServerOK, Times
  <2> QED
    BY <2>1, <2>2, PageFrame DEF Stored, Owed
<1>2. ASSUME UNCHANGED <<now, log, air, pc, sync>>, Stored' \subseteq Stored,
             Stored \cup missed \subseteq Stored' \cup missed'
      PROVE  PageInv'
  <2>1. OnTheWay' = OnTheWay /\ Owed' \subseteq Owed
    BY <1>2 DEF OnTheWay, Owed
  <2> QED
    BY <1>2, <2>1, PageFrame, BaseFacts
<1>3. CASE Joining
  BY <1>2, <1>3, TypeJoin DEF BaseInv, syncer, history, Stored
<1>4. CASE UNCHANGED vars
  BY <1>2, <1>4 DEF vars, server, store, syncer, history, Stored
<1>5. ASSUME NEW l \in loads, FinishLoad(l) PROVE PageInv'
  BY <1>2, <1>5 DEF FinishLoad, server, store, syncer, Stored
<1>6. ASSUME NEW r \in Rooms, Scroll(r) PROVE PageInv'
  BY <1>2, <1>6 DEF Scroll, server, store, syncer, history, Stored
<1>7. ASSUME NEW r \in Rooms, DeleteHistory(r) \/ FinishDelete(r) PROVE PageInv'
  <2>1. Deleted(r)
    BY <1>7, TypeDelete DEF BaseInv
  <2>2. UNCHANGED <<now, log, air, pc, sync>>
    BY <1>7 DEF DeleteHistory, FinishDelete, server, syncer
  <2>3. Stored' \subseteq Stored /\ Stored \cup missed \subseteq Stored' \cup missed'
    BY <2>1 DEF Deleted, Stored
  <2> QED
    BY <1>2, <2>2, <2>3
<1> QED
  BY <1>1, <1>3, <1>4, <1>5, <1>6, <1>7

\* What the client is owed will be asked for or is on its way, whatever the clocks,
\* the sizes of the pages and the epochs in them.
THEOREM PageInductive == Spec => []PageInv
<1>1. Init => PageInv
  <2>1. SUFFICES ASSUME Init PROVE PageInv
    OBVIOUS
  <2>2. log = <<>> /\ pc = "closed"
    BY <2>1 DEF Init
  <2>3. Owed = {}
    BY <2>2, Empties DEF Owed
  <2> QED
    BY <2>2, <2>3 DEF PageInv, Paging
<1>2. BaseInv /\ PageInv /\ [Next]_vars => PageInv'
  BY PagePersist, PageStart, PageFetch, PageSave, PageEnds, PageFrames, PageClose, PageRest
     DEF Next, Syncing, Joining
<1>3. Spec => []BaseInv
  BY BaseInductive
<1> QED
  BY <1>1, <1>2, <1>3, PTL DEF Spec

\* NoHoles: syncMessagesForAllRooms, with its pages cut by epoch, and the handler for
\* live messages together leave out no message the client is owed.
THEOREM NoHolesHolds == Spec => []NoHoles
<1>1. BaseInv /\ PageInv => NoHoles
  <2>1. SUFFICES ASSUME BaseInv, PageInv PROVE NoHoles
    OBVIOUS
  <2>2. ASSUME pc = "done", NEW t \in DOMAIN log PROVE t \in Stored \cup missed \cup OnTheWay
    <3>1. sync.answer = <<>> /\ ~ Paging
      BY <2>1, <2>2 DEF BaseInv, TypeInv, SyncOK, Paging
    <3> QED
      BY <2>1, <2>2, <3>1, Empties DEF PageInv, Later, Owed
  <2>3. ASSUME pc = "closed", NEW t \in DOMAIN log, t < FirstFrom PROVE t \in Stored \cup missed
    <3>1. SUFFICES ASSUME t \in Owed PROVE FALSE
      BY <2>3 DEF Owed
    <3>2. t \in Nat /\ \A s \in Stored : s \in Nat /\ s < t
      BY <2>1, <2>3, <3>1, BaseFacts DEF PageInv
    <3>3. PICK s \in Stored : t <= s
      BY <2>1, <2>3, <3>2, FirstFromFacts DEF BaseInv, TypeInv
    <3> QED
      BY <3>2, <3>3
  <2> QED
    BY <2>2, <2>3 DEF NoHoles
<1> QED
  BY <1>1, BaseInductive, PageInductive, PTL

-----------------------------------------------------------------------------
(* The lists.                                                              *)

\* What is shown for each room is stored for it, was brought back, or is being deleted.
ShownOK == \A r \in Rooms : List(r) \subseteq db[r] \cup revived \/ r \in deleting

\* Nothing is deleted, shown or brought back.
LEMMA ShownFrame ==
  ASSUME ShownOK, UNCHANGED <<chatHistory, deleting, revived>>, \A r \in Rooms : db[r] \subseteq db'[r]
  PROVE  ShownOK'
BY DEF ShownOK, List

(* Saving a message shows nothing that is not stored.                       *)
LEMMA ShownSave == ASSUME BaseInv, ShownOK, SaveNext \/ Receive PROVE ShownOK'
<1>1. /\ UNCHANGED <<deleting, revived>> /\ \A r \in Rooms : db[r] \subseteq db'[r]
      /\ SaveNext => chatHistory' = chatHistory
  <2>1. UNCHANGED <<deleting, revived>> /\ (SaveNext => chatHistory' = chatHistory)
    BY DEF SaveNext, Receive, view
  <2>2. db' = db \/ \E t, row : Save(t, row)
    BY DEF SaveNext, Receive, store
  <2>3. ASSUME NEW t, NEW row, Save(t, row) PROVE \A r \in Rooms : db[r] \subseteq db'[r]
    BY <2>3 DEF Save
  <2> QED
    BY <2>1, <2>2, <2>3
<1>2. CASE SaveNext
  BY <1>1, <1>2, ShownFrame
<1>3. CASE Receive
  <2>1. Received(Head(air))
    BY <1>3, BaseReceive
  <2>2. \A r \in Rooms : \A t \in List(r)' : t \in List(r) \/ t \in db'[r]
    BY <2>1 DEF Received, List
  <2> QED
    BY <1>1, <2>2 DEF ShownOK
<1> QED
  BY <1>2, <1>3

(* Lists read from the database show what was stored at the read, or is in  *)
(* revived.                                                                 *)
LEMMA ShownView ==
  ASSUME BaseInv, ShownOK, \/ Close \/ \E l \in loads : FinishLoad(l)
                           \/ \E r \in Rooms : DeleteHistory(r) \/ FinishDelete(r)
  PROVE  ShownOK'
<1>1. CASE Close
  BY <1>1, Empties DEF Close, ShownOK, List
<1>2. ASSUME NEW l \in loads, FinishLoad(l) PROVE ShownOK'
  <2>1. Replaced(l) \/ Added(l)
    BY <1>2, TypeFinishLoad DEF BaseInv
  <2>2. /\ UNCHANGED <<db, deleting>> /\ revived \subseteq revived'
        /\ \A r \in DOMAIN l.rows : l.rows[r] \subseteq db[r] \cup revived'
    BY <1>2 DEF FinishLoad, store
  <2> QED
    BY <2>1, <2>2 DEF Replaced, Added, ShownOK
<1>3. ASSUME NEW r \in Rooms, DeleteHistory(r) PROVE ShownOK'
  <2>1. Deleted(r) /\ UNCHANGED <<chatHistory, revived>> /\ deleting' = deleting \cup {r}
    BY <1>3, TypeDelete DEF BaseInv, DeleteHistory
  <2> QED
    BY <2>1 DEF Deleted, ShownOK, List
<1>4. ASSUME NEW r \in Rooms, FinishDelete(r) PROVE ShownOK'
  <2>1. \A x \in Rooms : List(x)' = {}
    BY <1>4, TypeDelete DEF BaseInv
  <2> QED
    BY <2>1 DEF ShownOK
<1> QED
  BY <1>1, <1>2, <1>3, <1>4

(* The remaining steps change neither the lists nor what is stored beneath  *)
(* them.                                                                    *)
LEMMA ShownRest ==
  ASSUME BaseInv, ShownOK,
         \/ Tick \/ Cleanup \/ Register \/ Open \/ Fetch \/ NextPage \/ EndSync \/ LoseBroadcast
         \/ Joining \/ UNCHANGED vars \/ \E r \in Rooms : Persist(r) \/ Scroll(r)
  PROVE  ShownOK'
<1>1. UNCHANGED <<chatHistory, deleting, revived, db>>
  <2>1. CASE Joining
    BY <2>1, TypeJoin DEF BaseInv, view, history
  <2> QED
    BY <2>1 DEF Tick, Cleanup, Register, Open, Fetch, NextPage, EndSync, LoseBroadcast, vars, Persist,
                Scroll, store, view, history
<1> QED
  BY <1>1, ShownFrame

\* ShownStored: a message the application shows is in the database of the browser,
\* unless its room is being deleted, or a read brought it back.
THEOREM ShownStoredHolds == Spec => []ShownStored
<1>1. Init => ShownOK
  BY Empties DEF Init, ShownOK, List
<1>2. BaseInv /\ ShownOK /\ [Next]_vars => ShownOK'
  BY ShownSave, ShownView, ShownRest DEF Next, Syncing, Joining
<1>3. BaseInv /\ ShownOK => ShownStored
  <2>1. SUFFICES ASSUME BaseInv, ShownOK, NEW r \in DOMAIN chatHistory
                 PROVE  chatHistory[r] \subseteq db[r] \cup revived \/ r \in deleting
    BY DEF ShownStored
  <2>2. r \in Rooms /\ List(r) = chatHistory[r]
    BY <2>1, ListFacts DEF BaseInv, TypeInv, ViewOK, List
  <2> QED
    BY <2>1, <2>2 DEF ShownOK
<1> QED
  BY <1>1, <1>2, <1>3, BaseInductive, PTL DEF Spec

\* What follows a message of S in a room is in T, or on its way, or hidden.
Follows(r, S, T) == \A t \in db[r] \ hidden : (\E s \in S : s < t) => t \in T \cup OnTheWay
ListInv ==
  /\ pc # "done" => chatHistory = <<>> /\ loads = {} /\ hidden = {} /\ deleting = {}
  /\ \A r \in Rooms : Follows(r, List(r), List(r)) /\ Follows(r, db[r] \cap hidden, List(r))
  /\ \A l \in loads, r \in Rooms : r \in DOMAIN l.rows => Follows(r, l.rows[r], l.rows[r] \cup List(r))

\* There are no lists and no reads under way.
LEMMA NoLists ==
  ASSUME chatHistory' = <<>>, loads' = {}, hidden' = {}, pc' # "done" => deleting' = {}
  PROVE  ListInv'
<1>1. \A r \in Rooms : List(r)' = {}
  BY Empties DEF List
<1> QED
  BY <1>1 DEF ListInv, Follows

\* Nothing is stored, read or shown.
LEMMA ListFrame ==
  ASSUME ListInv, UNCHANGED <<chatHistory, loads, hidden>>, OnTheWay \subseteq OnTheWay',
         pc' # "done" => pc # "done", deleting' = deleting \/ (pc = "done" /\ pc' = "done"),
         \A r \in Rooms : db'[r] \subseteq db[r]
  PROVE  ListInv'
<1>1. ASSUME NEW r \in Rooms, NEW S, NEW T, Follows(r, S, T)
      PROVE  \A t \in db'[r] \ hidden' : (\E s \in S : s < t) => t \in T \cup OnTheWay'
  BY <1>1 DEF Follows
<1>2. \A r \in Rooms : List(r)' = List(r) /\ (db[r] \cap hidden)' \subseteq db[r] \cap hidden
  BY DEF List
<1>3. ASSUME NEW r \in Rooms PROVE (Follows(r, List(r), List(r)) /\ Follows(r, db[r] \cap hidden, List(r)))'
  <2>1. Follows(r, List(r), List(r)) /\ Follows(r, db[r] \cap hidden, List(r))
    BY DEF ListInv
  <2>2. \A t \in db'[r] \ hidden' : (\E s \in List(r) : s < t) => t \in List(r) \cup OnTheWay'
    BY <1>1, <2>1
  <2>3. \A t \in db'[r] \ hidden' : (\E s \in db[r] \cap hidden : s < t) => t \in List(r) \cup OnTheWay'
    BY <1>1, <2>1
  <2> QED
    BY <1>2, <2>2, <2>3 DEF Follows
<1>4. ASSUME NEW l \in loads', NEW r \in Rooms, r \in DOMAIN l.rows
      PROVE  Follows(r, l.rows[r], l.rows[r] \cup List(r))'
  <2>1. Follows(r, l.rows[r], l.rows[r] \cup List(r))
    BY <1>4 DEF ListInv
  <2>2. \A t \in db'[r] \ hidden' : (\E s \in l.rows[r] : s < t) => t \in l.rows[r] \cup List(r) \cup OnTheWay'
    BY <1>1, <1>4, <2>1
  <2> QED
    BY <1>2, <1>4, <2>2 DEF Follows
<1> QED
  BY <1>3, <1>4 DEF ListInv

\* The first frame is taken from the air: all that follows its message is still there.
LEMMA FollowsPop ==
  ASSUME BaseInv, Popped, NEW r \in Rooms, NEW S, NEW T, Follows(r, S, T), NEW S2, NEW T2,
         S2 \subseteq S \cup {Head(air)}, T \subseteq T2,
         \A t \in db'[r] \ hidden' : \/ t = Head(air) /\ t \in T2
                                     \/ t # Head(air) /\ t \in db[r] \ hidden
  PROVE  \A t \in db'[r] \ hidden' : (\E s \in S2 : s < t) => t \in T2 \cup OnTheWay'
<1>1. PICK h : h = Head(air) /\ h \in OnTheWay /\ OnTheWay' = OnTheWay \ {h}
  BY DEF Popped
<1>2. ASSUME NEW t \in db'[r] \ hidden', NEW s \in S2, s < t, t # h PROVE t \in T2 \cup OnTheWay'
  <2>1. t \in db[r] \ hidden
    BY <1>1, <1>2
  <2>2. CASE s \in S
    BY <1>1, <1>2, <2>1, <2>2 DEF Follows
  <2>3. CASE s = h
    <3>1. t \in Kept
      BY <2>1, InStored DEF Kept
    <3>2. t \in OnTheWay
      BY <1>1, <1>2, <2>3, <3>1 DEF BaseInv, AirInv
    <3> QED
      BY <1>1, <1>2, <3>2
  <2> QED
    BY <1>1, <1>2, <2>2, <2>3
<1>3. ASSUME NEW t \in db'[r] \ hidden', t = h PROVE t \in T2
  BY <1>1, <1>3
<1> QED
  BY <1>2, <1>3

(* A broadcast that is handled or lost leaves no gap behind it in any list. *)
LEMMA ListPop ==
  ASSUME BaseInv, ListInv, Popped, pc = "done", UNCHANGED <<pc, loads>>, hidden \subseteq hidden',
         hidden' \subseteq hidden \cup {Head(air)},
         \A r \in Rooms : /\ db'[r] \subseteq db[r] \cup {Head(air)}
                          /\ List(r) \subseteq List(r)' /\ List(r)' \subseteq List(r) \cup {Head(air)}
                          /\ Head(air) \in db'[r] \ hidden' => Head(air) \in List(r)'
  PROVE  ListInv'
<1>1. \A r \in Rooms : \A t \in db'[r] \ hidden' : \/ t = Head(air) /\ t \in List(r)'
                                                   \/ t # Head(air) /\ t \in db[r] \ hidden
  OBVIOUS
<1>2. ASSUME NEW r \in Rooms PROVE Follows(r, List(r), List(r))' /\ Follows(r, db[r] \cap hidden, List(r))'
  <2>1. PICK S, T, H : S = List(r) /\ T = List(r)' /\ H = db'[r] \cap hidden'
    OBVIOUS
  <2>2. Follows(r, S, S) /\ Follows(r, db[r] \cap hidden, S)
    BY <2>1 DEF ListInv
  <2>3. S \subseteq T /\ T \subseteq S \cup {Head(air)} /\ H \subseteq (db[r] \cap hidden) \cup {Head(air)}
    BY <2>1
  <2>4. \A t \in db'[r] \ hidden' : \/ t = Head(air) /\ t \in T
                                    \/ t # Head(air) /\ t \in db[r] \ hidden
    BY <1>1, <2>1
  <2>5. \A t \in db'[r] \ hidden' : (\E s \in T : s < t) => t \in T \cup OnTheWay'
    BY <2>2, <2>3, <2>4, FollowsPop
  <2>6. PICK G : G = db[r] \cap hidden
    OBVIOUS
  <2>7. \A t \in db'[r] \ hidden' : (\E s \in H : s < t) => t \in T \cup OnTheWay'
    BY <2>2, <2>3, <2>4, <2>6, FollowsPop
  <2> QED
    BY <2>1, <2>5, <2>7 DEF Follows
<1>3. ASSUME NEW l \in loads', NEW r \in Rooms, r \in DOMAIN l.rows
      PROVE  Follows(r, l.rows[r], l.rows[r] \cup List(r))'
  <2>1. PICK S, T, U : S = l.rows[r] /\ T = l.rows[r] \cup List(r) /\ U = l.rows[r] \cup List(r)'
    OBVIOUS
  <2>2. Follows(r, S, T) /\ T \subseteq U
    BY <1>3, <2>1 DEF ListInv
  <2>3. \A t \in db'[r] \ hidden' : \/ t = Head(air) /\ t \in U
                                    \/ t # Head(air) /\ t \in db[r] \ hidden
    BY <1>1, <2>1
  <2>4. \A t \in db'[r] \ hidden' : (\E s \in S : s < t) => t \in U \cup OnTheWay'
    BY <2>2, <2>3, FollowsPop
  <2> QED
    BY <2>1, <2>4 DEF Follows
<1> QED
  BY <1>2, <1>3 DEF ListInv

\* A frame arrives or is lost; a list or the history of what is hidden has it.
LEMMA ListFrames == ASSUME BaseInv, ListInv, Receive \/ LoseBroadcast PROVE ListInv'
<1>1. CASE pc # "done"
  BY <1>1, NoLists DEF ListInv, Receive, LoseBroadcast, syncer, view
<1>2. CASE Receive /\ pc = "done"
  <2>1. Popped /\ Received(Head(air)) /\ UNCHANGED <<pc, loads, hidden>>
    BY <1>2, BaseReceive DEF Receive, syncer
  <2>2. PICK t : t = Head(air) /\ t \in DOMAIN log /\ t \in Times /\ log[t] \in Rows
    BY <2>1, LogFacts DEF Popped, BaseInv, AirInv, TypeInv, ServerOK
  <2>3. \A r \in Rooms : \A s \in db'[r] : s \in db[r] \/ s = t
    BY <1>2, <2>1, <2>2, SavedFor DEF Received, BaseInv, TypeInv
  <2>4. ASSUME NEW r \in Rooms
        PROVE  /\ db'[r] \subseteq db[r] \cup {t}
               /\ List(r) \subseteq List(r)' /\ List(r)' \subseteq List(r) \cup {t}
               /\ t \in db'[r] \ hidden' => t \in List(r)'
    <3>1. List(r)' = IF t \in db'[r] THEN List(r) \cup {t} ELSE List(r)
      BY <1>2, <2>1, <2>2 DEF Received
    <3> QED
      BY <2>3, <3>1
  <2> QED
    BY <1>2, <2>1, <2>2, <2>4, ListPop
<1>3. CASE LoseBroadcast /\ pc = "done"
  <2>1. Popped /\ UNCHANGED <<pc, loads, db, chatHistory>> /\ hidden' = hidden \cup {Head(air)}
    BY <1>3, BaseLose DEF LoseBroadcast, store, syncer, view
  <2>2. \A r \in Rooms : List(r)' = List(r)
    BY <2>1 DEF List
  <2> QED
    BY <1>3, <2>1, <2>2, ListPop
<1> QED
  BY <1>1, <1>2, <1>3

\* The rooms are read when the synchronisation ends: all it stored is older than its end.
LEMMA ListEnds == ASSUME BaseInv, PageInv, ListInv, EndSync PROVE ListInv'
<1>1. /\ chatHistory' = <<>> /\ hidden' = {} /\ pc' = "done" /\ UNCHANGED <<db, air>>
      /\ loads' = {[kind |-> "rooms", rows |-> [r \in MyRooms |-> getMessagesForRoom(r, sync.to)]]}
  BY DEF EndSync, ListInv, store, history
<1>2. \A r \in Rooms : List(r)' = {}
  BY <1>1, Empties DEF List
<1>3. ASSUME NEW l \in loads', NEW r \in Rooms, r \in DOMAIN l.rows
      PROVE  Follows(r, l.rows[r], l.rows[r] \cup List(r))'
  <2>1. l.rows[r] = getMessagesForRoom(r, sync.to)
    BY <1>1, <1>3
  <2>2. \A t \in db[r] : t < sync.to
    <3>1. \A t \in db[r] : t \in Kept
      BY InStored DEF Kept
    <3> QED
      BY <3>1 DEF PageInv, EndSync
  <2>3. \A s \in l.rows[r], t \in db[r] : s < t => t \in l.rows[r]
    BY <2>1, <2>2, ReadFacts, BaseFacts DEF BaseInv, TypeInv
  <2> QED
    BY <1>1, <2>3 DEF Follows
<1> QED
  BY <1>1, <1>2, <1>3 DEF ListInv, Follows

\* Older rows are read: with those of the list they leave nothing out.
LEMMA ListScroll == ASSUME BaseInv, ListInv, NEW r \in Rooms, Scroll(r) PROVE ListInv'
<1>1. PICK t0, l0 : Scrolled(r, t0, l0)
  BY TypeScroll DEF BaseInv
<1>2. /\ t0 \in List(r) \cup (db[r] \cap hidden) /\ loads' = loads \cup {l0}
      /\ DOMAIN l0.rows = {r} /\ l0.rows[r] = getMessagesForRoom(r, t0)
  BY <1>1 DEF Scrolled
<1>3. UNCHANGED <<db, air, pc, sync, chatHistory, deleting, hidden>>
  BY DEF Scroll, store, syncer, history
<1>4. pc = "done"
  BY <1>2, Empties DEF ListInv, List
<1>5. List(r)' = List(r) /\ OnTheWay' = OnTheWay /\ \A x \in Rooms : List(x)' = List(x)
  BY <1>3 DEF List, OnTheWay
<1>6. t0 \in Nat /\ \A t \in db[r] : t \in Nat
  BY <1>2, BaseFacts
<1>7. ASSUME NEW t \in db[r] \ hidden, NEW s \in l0.rows[r], s < t
      PROVE  t \in l0.rows[r] \cup List(r) \cup OnTheWay
  <2>1. CASE t < t0
    BY <1>2, <1>6, <1>7, <2>1, ReadFacts DEF BaseInv, TypeInv
  <2>2. CASE t = t0
    BY <1>2, <1>7, <2>2
  <2>3. CASE t0 < t
    BY <1>2, <1>7, <2>3 DEF ListInv, Follows
  <2> QED
    BY <1>6, <1>7, <2>1, <2>2, <2>3
<1>8. ASSUME NEW l \in loads', NEW x \in Rooms, x \in DOMAIN l.rows
      PROVE  Follows(x, l.rows[x], l.rows[x] \cup List(x))'
  <2>1. CASE l \in loads
    <3>1. Follows(x, l.rows[x], l.rows[x] \cup List(x))
      BY <1>8, <2>1 DEF ListInv
    <3> QED
      BY <1>3, <1>5, <3>1 DEF Follows
  <2>2. CASE l = l0
    <3>1. x = r
      BY <1>2, <1>8, <2>2
    <3> QED
      BY <1>3, <1>5, <1>7, <2>2, <3>1 DEF Follows
  <2> QED
    BY <1>2, <1>8, <2>1, <2>2
<1>9. ASSUME NEW x \in Rooms PROVE (Follows(x, List(x), List(x)) /\ Follows(x, db[x] \cap hidden, List(x)))'
  <2>1. Follows(x, List(x), List(x)) /\ Follows(x, db[x] \cap hidden, List(x))
    BY DEF ListInv
  <2> QED
    BY <1>3, <1>5, <2>1 DEF Follows
<1> QED
  BY <1>3, <1>4, <1>8, <1>9 DEF ListInv

\* A read replaces lists: what they lose is hidden from then on.
LEMMA ListReplaced == ASSUME BaseInv, OwnInv, ListInv, NEW l \in loads, FinishLoad(l) PROVE ListInv'
<1>1. /\ UNCHANGED <<db, air, pc, sync, deleting>> /\ loads' = loads \ {l} /\ pc = "done"
      /\ (Replaced(l) \/ Added(l)) /\ DOMAIN l.rows \in SUBSET Rooms
  <2>1. l.rows \in Lists
    BY DEF BaseInv, TypeInv, ViewOK, Loads
  <2>2. UNCHANGED <<db, air, pc, sync, deleting>> /\ loads' = loads \ {l}
    BY DEF FinishLoad, store, syncer
  <2>3. pc = "done"
    BY DEF ListInv
  <2> QED
    BY <2>1, <2>2, <2>3, TypeFinishLoad, ListFacts DEF BaseInv
<1>2. OnTheWay' = OnTheWay
  BY <1>1 DEF OnTheWay
<1>3. PICK f \in [Times -> Rooms] : Owned(f)
  BY DEF OwnInv
<1>4. \A x, y \in Rooms : \A t \in db[x] : t \in List(y) => x = y
  BY <1>3, BaseFacts DEF Owned, Seen
<1>5. /\ hidden \subseteq hidden'
      /\ \A x \in Rooms : \A t \in db[x] :
           /\ t \in hidden' => t \in hidden \/ t \in List(x)
           /\ t \in List(x) => t \in hidden' \/ t \in List(x)'
      /\ \A x \in Rooms : \A s \in List(x)' : s \in List(x) \/ (x \in DOMAIN l.rows /\ s \in l.rows[x])
      /\ \A x \in Rooms : x \in DOMAIN l.rows => l.rows[x] \subseteq List(x)' \/ List(x)' \subseteq List(x)
  <2>1. CASE Added(l)
    BY <2>1 DEF Added
  <2>2. CASE Replaced(l)
    <3>1. hidden' = hidden \cup UNION {List(x) \ l.rows[x] : x \in DOMAIN l.rows}
      BY <2>2 DEF Replaced
    <3>2. \A x \in Rooms : List(x)' = IF x \in DOMAIN l.rows THEN l.rows[x] ELSE List(x)
      BY <2>2 DEF Replaced
    <3>3. ASSUME NEW x \in Rooms, NEW t \in db[x], t \in hidden' PROVE t \in hidden \/ t \in List(x)
      <4>1. t \in hidden \/ \E y \in DOMAIN l.rows : t \in List(y)
        BY <3>1, <3>3
      <4> QED
        BY <1>1, <1>4, <3>3, <4>1
    <3>4. \A x \in Rooms : \A t \in List(x) : t \in hidden' \/ t \in List(x)'
      BY <3>1, <3>2
    <3> QED
      BY <3>1, <3>2, <3>3, <3>4
  <2> QED
    BY <1>1, <2>1, <2>2
<1>6. ASSUME NEW x \in Rooms, NEW t \in db[x] \ hidden', NEW s \in List(x)', s < t
      PROVE  t \in List(x)' \cup OnTheWay
  <2>1. t \in db[x] \ hidden
    BY <1>5, <1>6
  <2>2. CASE s \in List(x)
    <3>1. t \in List(x) \cup OnTheWay
      BY <1>6, <2>1, <2>2 DEF ListInv, Follows
    <3> QED
      BY <1>5, <1>6, <3>1
  <2>3. CASE s \notin List(x)
    <3>1. x \in DOMAIN l.rows /\ s \in l.rows[x]
      BY <1>5, <1>6, <2>3
    <3>2. t \in l.rows[x] \cup List(x) \cup OnTheWay
      BY <1>6, <2>1, <3>1 DEF ListInv, Follows
    <3>3. l.rows[x] \subseteq List(x)'
      BY <1>5, <1>6, <2>3, <3>1
    <3> QED
      BY <1>5, <1>6, <3>2, <3>3
  <2> QED
    BY <2>2, <2>3
<1>7. ASSUME NEW x \in Rooms, NEW t \in db[x] \ hidden', NEW s \in db[x] \cap hidden', s < t
      PROVE  t \in List(x)' \cup OnTheWay
  <2>1. t \in db[x] \ hidden /\ (s \in hidden \/ s \in List(x))
    BY <1>5, <1>7
  <2>2. t \in List(x) \cup OnTheWay
    BY <1>7, <2>1 DEF ListInv, Follows
  <2> QED
    BY <1>5, <1>7, <2>2
<1>8. ASSUME NEW k \in loads', NEW x \in Rooms, x \in DOMAIN k.rows,
             NEW t \in db[x] \ hidden', NEW s \in k.rows[x], s < t
      PROVE  t \in k.rows[x] \cup List(x)' \cup OnTheWay
  <2>1. k \in loads /\ t \in db[x] \ hidden
    BY <1>1, <1>5, <1>8
  <2>2. t \in k.rows[x] \cup List(x) \cup OnTheWay
    BY <1>8, <2>1 DEF ListInv, Follows
  <2> QED
    BY <1>5, <1>8, <2>2
<1>9. \A x \in Rooms : Follows(x, List(x), List(x))' /\ Follows(x, db[x] \cap hidden, List(x))'
  BY <1>1, <1>2, <1>6, <1>7 DEF Follows
<1>10. \A k \in loads', x \in Rooms : x \in DOMAIN k.rows => Follows(x, k.rows[x], k.rows[x] \cup List(x))'
  BY <1>1, <1>2, <1>8 DEF Follows
<1> QED
  BY <1>1, <1>9, <1>10 DEF ListInv

\* The rows of a room are deleted; the lists that go are hidden.
LEMMA ListDelete ==
  ASSUME BaseInv, ListInv, NEW r \in Rooms, DeleteHistory(r) \/ FinishDelete(r)
  PROVE  ListInv'
<1>1. Deleted(r) /\ \A x \in Rooms : db'[x] \subseteq db[x]
  BY TypeDelete DEF BaseInv, Deleted
<1>2. CASE DeleteHistory(r)
  <2>1. UNCHANGED <<chatHistory, loads, hidden>> /\ OnTheWay' = OnTheWay /\ pc = "done" /\ pc' = "done"
    BY <1>2 DEF DeleteHistory, syncer, OnTheWay
  <2> QED
    BY <1>1, <2>1, ListFrame
<1>3. CASE FinishDelete(r)
  <2>1. \A x \in Rooms : db[x] \subseteq hidden'
    BY <1>3, TypeDelete DEF BaseInv
  <2>2. \A x \in Rooms : db'[x] \ hidden' = {}
    BY <1>1, <2>1
  <2>3. pc = "done" /\ pc' = pc
    BY <1>3 DEF FinishDelete, ListInv, syncer
  <2> QED
    BY <2>2, <2>3 DEF ListInv, Follows
<1> QED
  BY <1>2, <1>3

(* Steps of the server, of rooms and of synchronisations leave no gap in a  *)
(* list.                                                                    *)
LEMMA ListRest ==
  ASSUME BaseInv, ListInv,
         \/ Tick \/ Cleanup \/ Register \/ Open \/ Fetch \/ SaveNext \/ NextPage \/ Close
         \/ Joining \/ UNCHANGED vars \/ \E r \in Rooms : Persist(r)
  PROVE  ListInv'
<1>1. CASE Register \/ Open \/ Fetch \/ SaveNext \/ NextPage
  <2>1. pc # "done" /\ UNCHANGED <<chatHistory, loads, deleting, hidden>>
    BY <1>1 DEF Register, Open, Fetch, SaveNext, NextPage, view, history
  <2>2. chatHistory' = <<>> /\ loads' = {} /\ hidden' = {} /\ deleting' = {}
    BY <2>1 DEF ListInv
  <2> QED
    BY <2>2, NoLists
<1>2. CASE Close
  BY <1>2, NoLists DEF Close
<1>3. ASSUME UNCHANGED <<pc, db, chatHistory, loads, deleting, hidden>>, OnTheWay \subseteq OnTheWay'
      PROVE  ListInv'
  BY <1>3, ListFrame
<1>4. CASE Tick \/ Cleanup
  BY <1>3, <1>4 DEF Tick, Cleanup, store, syncer, view, history, OnTheWay
<1>5. CASE Joining
  BY <1>3, <1>5, TypeJoin DEF BaseInv, syncer, view, history, OnTheWay
<1>6. CASE UNCHANGED vars
  BY <1>3, <1>6 DEF vars, store, syncer, view, history, OnTheWay
<1>7. ASSUME NEW r \in Rooms, Persist(r) PROVE ListInv'
  <2>1. /\ UNCHANGED <<pc, db, chatHistory, loads, deleting, hidden>>
        /\ air' = IF pc = "closed" THEN air ELSE Append(air, now)
    BY <1>7 DEF Persist, store, syncer, view, history
  <2>2. OnTheWay \subseteq OnTheWay'
    <3>1. CASE air' = air
      BY <3>1 DEF OnTheWay
    <3>2. CASE air' = Append(air, now)
      <4>1. PICK n \in Times : n = now
        BY DEF BaseInv, TypeInv, ServerOK
      <4>2. \A a \in OnTheWay : a < n
        BY <4>1 DEF BaseInv, AirInv, ClockInv
      <4> QED
        BY <3>2, <4>1, <4>2, AirAppend DEF BaseInv, TypeInv, ServerOK, AirInv
    <3> QED
      BY <2>1, <3>1, <3>2
  <2> QED
    BY <1>3, <2>1, <2>2
<1> QED
  BY <1>1, <1>2, <1>4, <1>5, <1>6, <1>7

(* ListInv is inductive: no list has a gap, and no read under way would     *)
(* make one.                                                                *)
THEOREM ListInductive == Spec => []ListInv
<1>1. Init => ListInv
  BY Empties DEF Init, ListInv, List, Follows
<1>2. BaseInv /\ OwnInv /\ PageInv /\ ListInv /\ [Next]_vars => ListInv'
  BY ListFrames, ListEnds, ListScroll, ListReplaced, ListDelete, ListRest DEF Next, Syncing, Joining
<1> QED
  BY <1>1, <1>2, BaseInductive, OwnInductive, PageInductive, PTL DEF Spec

\* ListsWithoutGaps: whatever the reads of the database, the live messages, the
\* scrolling and the deletions do to each other, a list shows everything stored from
\* its oldest message on, but for what an older read or a deletion took away.
THEOREM ListsWithoutGapsHolds == Spec => []ListsWithoutGaps
<1>1. BaseInv /\ ListInv => ListsWithoutGaps
  <2>1. SUFFICES ASSUME BaseInv, ListInv, NEW r \in DOMAIN chatHistory, NEW t \in db[r] \ hidden,
                        \E s \in chatHistory[r] : s < t
                 PROVE  t \in chatHistory[r] \cup OnTheWay
    BY DEF ListsWithoutGaps
  <2>2. r \in Rooms /\ List(r) = chatHistory[r]
    BY <2>1, ListFacts DEF BaseInv, TypeInv, ViewOK, List
  <2> QED
    BY <2>1, <2>2 DEF ListInv, Follows
<1> QED
  BY <1>1, BaseInductive, ListInductive, PTL

\* TypeOK: the profile stays valid, a page is no longer than the limit, and a message
\* is stored for one room, which is in the profile.
THEOREM TypesHoldAlways == Spec => []TypeOK
<1>1. BaseInv /\ OwnInv => TypeOK
  <2>1. SUFFICES ASSUME BaseInv, OwnInv PROVE TypeOK
    OBVIOUS
  <2>2. now \in 1..MaxTime /\ DOMAIN log \subseteq 1..MaxTime /\ publicRooms \subseteq Rooms
    BY <2>1, BaseFacts DEF BaseInv, TypeInv, ServerOK, Times
  <2>3. profile = NoProfile \/ ValidFormat(profile)
    BY <2>1, ProfileParts DEF BaseInv, TypeInv, ProfileOK
  <2>4. pc \in {"closed", "request", "save", "done"} /\ Cardinality(DOMAIN sync.answer) <= Limit
    BY <2>1 DEF BaseInv, TypeInv, SyncOK
  <2>5. \A r \in Rooms : db[r] \subseteq 1..MaxTime /\ (db[r] # {} => r \in MyRooms)
    BY <2>1 DEF BaseInv, TypeInv, ProfileOK, DbOK, Times
  <2>6. db[own] \cap db[others] = {}
    <3>1. PICK f \in [Times -> Rooms] : Owned(f)
      BY <2>1 DEF OwnInv
    <3>2. own \in Rooms /\ others \in Rooms /\ own # others
      BY DEF own, others, Rooms
    <3> QED
      BY <2>1, <3>1, <3>2, BaseFacts DEF Owned, Seen
  <2>7. DOMAIN chatHistory \subseteq Rooms /\ deleting \subseteq Rooms /\ happened \in 0..MaxEvents
    BY <2>1, ListFacts DEF BaseInv, TypeInv, ViewOK, EventsOK
  <2>8. {missed, hidden, revived} \subseteq SUBSET (1..MaxTime)
    BY <2>1 DEF BaseInv, TypeInv, HistoryOK, Times
  <2> QED
    BY <2>2, <2>3, <2>4, <2>5, <2>6, <2>7, <2>8 DEF TypeOK
<1> QED
  BY <1>1, BaseInductive, OwnInductive, PTL
=============================================================================
