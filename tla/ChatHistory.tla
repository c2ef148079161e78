----------------------------- MODULE ChatHistory -----------------------------
(***************************************************************************)
(* The chat history of one client: the messages the server keeps           *)
(* (message.statics.ts, cleanup.ts), their download in pages when the app  *)
(* starts (syncMessagesForAllRooms), the messages that arrive live, the    *)
(* database of the browser, and the lists the web application shows        *)
(* (reducers/chat.ts, ChatMessagesWrapper.tsx).  A message is named by its *)
(* timestamp.  Room 1 is created by the user, room 2 by somebody else.     *)
(***************************************************************************)
EXTENDS Profile, Naturals, FiniteSetsExt, Sequences

CONSTANTS
  None,
  Limit,       \* ChatService.MESSAGE_COUNT_LIMIT
  ShowLimit,   \* LocalChatDB.MAX_NUMBER_OF_MESSAGES_TO_FETCH_FROM_DB
  EpochLength, \* length of an epoch
  Delay,       \* how old the epoch of a message can be when it is stored
  Keep,        \* age at which the cleanup job deletes a message
  Ahead,       \* how far the clock of the client can be ahead of the server's
  MaxTime, MaxMessages,   \* bounds
  MaxEvents    \* bound: faults, and what the user does with the lists of the rooms

own    == 1
others == 2
Rooms  == {own, others}

NewRoom    == Room(own, generateSymmetricKey(own))
OthersRoom == Room(others, generateSymmetricKey(others))
Registered == NewProfile("identity", "root", "leaves", generateKeyPair(0), 0)
Profiles   == {[Registered EXCEPT !.rooms = rooms] : rooms \in [RoomTypes -> SUBSET {NewRoom, OthersRoom}]}

ASSUME HistoryAssumption ==
  /\ {Limit, ShowLimit, EpochLength, MaxTime} \subseteq Nat \ {0}
  /\ {Delay, Keep, Ahead, MaxMessages, MaxEvents} \subseteq Nat
  /\ None \notin Nat /\ NoProfile \notin Profiles

VARIABLES
  now,          \* the clock of the server
  log,          \* log[t]: the message in the database of the server
  publicRooms,  \* rooms in the database of the server
  air,          \* messages broadcast to the client and not yet received
  profile,      \* the profile, in memory and in the storage
  db,           \* db[r]: the messages of room r in the IndexedDB
  pc,           \* closed, request, save or done: synchronised, handler registered
  sync,         \* the locals of syncMessagesForAllRooms
  chatHistory,  \* chatHistory[r]: the messages in the list of room r, if it has one
  loads,        \* results of reads of the IndexedDB that are under way
  deleting,     \* rooms whose list is about to be emptied
  happened,     \* how many of these events there were
  missed,       \* history: messages no synchronisation up to now owes the client
  hidden,       \* history: messages an older read, a deletion or a lost
                \* broadcast kept from a list
  revived       \* history: messages a read showed after their deletion

server  == <<now, log, publicRooms>>
store   == <<profile, db>>
syncer  == <<pc, sync>>
view    == <<chatHistory, loads, deleting>>
history == <<missed, hidden, revived>>
vars    == <<server, air, store, syncer, view, happened, history>>

NoSync == [from |-> 0, to |-> 0, answer |-> <<>>, next |-> None]

TypeOf(r)  == IF r \in publicRooms THEN "public" ELSE "private"
\* A profile recovered in a new browser, with room 2.
Recovered  == AddRoom(Registered, TypeOf(others), OthersRoom)

Init ==
  /\ now = 1 /\ log = <<>> /\ air = <<>>
  /\ publicRooms \in SUBSET {others}          \* otherwise room 2 is private
  /\ profile \in {NoProfile, Recovered} /\ db = [r \in Rooms |-> {}]
  /\ pc = "closed" /\ sync = NoSync
  /\ chatHistory = <<>> /\ loads = {} /\ deleting = {}
  /\ happened = 0 /\ missed = {} /\ hidden = {} /\ revived = {}

Event   == happened < MaxEvents /\ happened' = happened + 1
NoEvent == UNCHANGED happened

With(f, x, y)  == [z \in DOMAIN f \cup {x} |-> IF z = x THEN y ELSE f[z]]
Without(f, S)  == [z \in DOMAIN f \ S |-> f[z]]
Stored         == UNION {db[r] : r \in Rooms}
OnTheWay       == {air[i] : i \in DOMAIN air}
MyRooms        == IF profile = NoProfile THEN {} ELSE RoomIds(profile)

-----------------------------------------------------------------------------
(* The server.                                                             *)

\* verifyEpoch: an epoch is the start of a period, by the clock of the sender.
Epochs(ts) == {e \in 0..(ts - 1) : e % EpochLength = 0 /\ ts - e <= Delay}

\* No page is full of messages that are older by epoch than the page's start:
\* the loop over the pages would ask for it for ever.
Sparse(l) ==
  \A f \in 1..MaxTime : Cardinality({t \in DOMAIN l : t >= f /\ l[t].epoch < f}) < Limit

Content(r) == IF r \in MyRooms THEN encryptMessageForRoom(profile, r, "text")
              ELSE encryptMessageSymmetric("text", generateSymmetricKey(r))

\* persistMessage and the publication, for a message of any member of the room.
Persist(r) ==
  /\ now < MaxTime /\ Cardinality(DOMAIN log) < MaxMessages
  /\ r = others \/ r \in MyRooms
  /\ \E e \in Epochs(now) :
       log' = With(log, now, [epoch |-> e, chat_type |-> TypeOf(r), message_content |-> Content(r)])
  /\ Sparse(log')
  /\ now' = now + 1
  /\ air' = IF pc = "closed" THEN air ELSE Append(air, now)
  /\ UNCHANGED <<publicRooms, store, syncer, view, happened, history>>

Tick ==
  /\ now < MaxTime /\ now' = now + 1
  /\ UNCHANGED <<log, publicRooms, air, store, syncer, view, happened, history>>

\* runMessageCleanupJob.  Nothing is in the air for that long.
Cleanup ==
  LET old == {t \in DOMAIN log : t + Keep < now} IN
  /\ old # {} /\ \A i \in DOMAIN air : air[i] \notin old
  /\ log' = Without(log, old)
  /\ UNCHANGED <<now, publicRooms, air, store, syncer, view, happened, history>>

-----------------------------------------------------------------------------
(* The page: start of the app, synchronisation, live messages.             *)

\* A new user needs no history, having no rooms: the handler is registered at once.
Register ==
  /\ pc = "closed" /\ profile = NoProfile
  /\ profile' = Registered
  /\ pc' = "done" /\ missed' = DOMAIN log
  /\ UNCHANGED <<server, air, db, sync, view, happened, hidden, revived>>

\* init with a stored profile, and sync_message_history.  The branch for a
\* client that has nothing stored is never taken: -1 has become 0.
getMaxTimestampForAllMessages == IF Stored = {} THEN None ELSE Max(Stored)
FirstFrom == IF Stored = {} THEN 0 ELSE getMaxTimestampForAllMessages + 1

Open ==
  /\ pc = "closed" /\ CanLoadProfile(profile)
  /\ pc' = "request"
  /\ \E d \in 0..Ahead : sync' = [NoSync EXCEPT !.from = FirstFrom, !.to = now + d]
  /\ missed' = {t \in missed : t < FirstFrom}
  /\ UNCHANGED <<server, air, store, view, happened, hidden, revived>>

InRange == {t \in DOMAIN log : sync.from <= t /\ t < sync.to}

\* getMessagesInTimeRange: the rows of the range, sorted and cut by epoch.
AnyPage == SUBSET InRange                                         \* mutant
Pages ==
  {S \in SUBSET InRange :
     /\ Cardinality(S) = IF Cardinality(InRange) < Limit THEN Cardinality(InRange) ELSE Limit
     /\ \A s \in S, t \in InRange \ S : log[s].epoch <= log[t].epoch}

NextByTimestamp(page) == Max(page) + 1                            \* mutant
NextSameEpoch(page)   == Max({log[t].epoch : t \in page})         \* mutant
\* returnedToTimestamp + 1
NextFrom(page) == Max({log[t].epoch : t \in page}) + 1

\* The request is answered, or refused because the range is empty, or fails.
Fetch ==
  /\ pc = "request" /\ pc' = "save"
  /\ \/ /\ sync.from < sync.to
        /\ \E page \in Pages :
             sync' = [sync EXCEPT
               !.answer = [t \in page |-> log[t]],
               !.next = IF Cardinality(page) = Limit THEN NextFrom(page) ELSE None]
        /\ NoEvent /\ UNCHANGED missed
     \/ /\ IF sync.from < sync.to THEN Event ELSE NoEvent
        /\ sync' = [sync EXCEPT !.answer = <<>>, !.next = None]
        /\ missed' = missed \cup (InRange \ Stored)
  /\ UNCHANGED <<server, air, store, view, hidden, revived>>

\* decryptMessage, and saveMessage when a room has the key.
Save(t, message) ==
  LET rooms == {r.id : r \in RoomsDecrypting(profile, message.chat_type, message.message_content)}
  IN  /\ db' = [r \in Rooms |-> IF r \in rooms THEN db[r] \cup {t} ELSE db[r]]
      /\ missed' = IF rooms = {} THEN missed \cup {t} ELSE missed \ {t}
      /\ UNCHANGED profile

\* The messages of a page are saved in the order of their epochs.
SaveNext ==
  /\ pc = "save"
  /\ \E t \in DOMAIN sync.answer :
       /\ \A s \in DOMAIN sync.answer : sync.answer[t].epoch <= sync.answer[s].epoch
       /\ Save(t, sync.answer[t])
       /\ sync' = [sync EXCEPT !.answer = Without(@, {t})]
  /\ UNCHANGED <<server, air, pc, view, happened, hidden, revived>>

NextPage ==
  /\ pc = "save" /\ sync.answer = <<>> /\ sync.next # None
  /\ pc' = "request" /\ sync' = [sync EXCEPT !.from = sync.next]
  /\ UNCHANGED <<server, air, store, view, happened, history>>

\* getMessagesForRoom: the last rows before a time, in falling order.
OldestRows(r, before) ==                                          \* mutant
  {t \in db[r] : t < before /\ Cardinality({s \in db[r] : s < t}) < ShowLimit}
getMessagesForRoom(r, before) ==
  {t \in db[r] : t < before /\ Cardinality({s \in db[r] : t < s /\ s < before}) < ShowLimit}

\* The synchronisation ends, loadMessagesFromDb reads the rooms and the handler
\* for live messages is registered.
EndSync ==
  /\ pc = "save" /\ sync.answer = <<>> /\ sync.next = None
  /\ pc' = "done" /\ sync' = NoSync
  /\ loads' = {[kind |-> "rooms", rows |-> [r \in MyRooms |-> getMessagesForRoom(r, sync.to)]]}
  /\ UNCHANGED <<server, air, store, chatHistory, deleting, happened, history>>

List(r) == IF r \in DOMAIN chatHistory THEN chatHistory[r] ELSE {}

\* messageHandlerForRooms: the message is saved and added to its list.  One that
\* arrives before the handler is registered is lost.
Receive ==
  /\ air # <<>> /\ air' = Tail(air)
  /\ LET t == Head(air) IN
     IF pc = "done"
     THEN /\ Save(t, log[t])
          /\ chatHistory' = [r \in DOMAIN chatHistory \cup {r \in Rooms : t \in db'[r]} |->
                               IF t \in db'[r] THEN List(r) \cup {t} ELSE List(r)]
     ELSE /\ missed' = missed \cup ({t} \ Stored)
          /\ UNCHANGED <<store, chatHistory>>
  /\ UNCHANGED <<server, syncer, loads, deleting, happened, hidden, revived>>

LoseBroadcast ==
  /\ air # <<>> /\ Event
  /\ air' = Tail(air) /\ missed' = missed \cup ({Head(air)} \ Stored)
  /\ hidden' = IF pc = "done" THEN hidden \cup {Head(air)} ELSE hidden
  /\ UNCHANGED <<server, store, syncer, view, revived>>

\* The page is closed or reloaded, perhaps in the middle of a synchronisation.
Close ==
  /\ pc # "closed" /\ pc' = "closed" /\ sync' = NoSync
  /\ air' = <<>>
  /\ missed' = missed \cup (IF pc = "done" THEN {} ELSE {t \in DOMAIN log : t < sync.to} \ Stored)
  /\ chatHistory' = <<>> /\ loads' = {} /\ deleting' = {}
  /\ hidden' = {} /\ revived' = {}
  /\ UNCHANGED <<server, store, happened>>

-----------------------------------------------------------------------------
(* Rooms.                                                                  *)

Join(type, room) ==
  /\ room.id \notin MyRooms /\ CanAddRoom(profile, type, room)
  /\ profile' = AddRoom(profile, type, room)
  /\ UNCHANGED <<now, log, air, db, syncer, view, happened, history>>

\* The server's collection of public rooms.
createRoom(uuid)    == publicRooms' = publicRooms \cup {uuid}
getPublicRoom(uuid) == uuid \in publicRooms

\* create_public_room: the server is told first.
CreatePublicRoom == pc = "done" /\ Join("public", NewRoom) /\ createRoom(own)

CreatePrivateRoom ==
  pc = "done" /\ Join("private", NewRoom) /\ UNCHANGED publicRooms

\* join_public_room, from the screen of an invitation: the answer to a click made
\* before the synchronisation can arrive while it runs.
JoinPublicRoom ==
  /\ pc # "closed" /\ getPublicRoom(others)
  /\ Join("public", OthersRoom)
  /\ UNCHANGED publicRooms

\* invite_private_room by a member, for the public key of the user.
Invite(publicKey) == encryptMessageAsymmetric(OthersRoom, publicKey)

JoinPrivateRoom ==
  /\ pc = "done" /\ others \notin publicRooms
  /\ Join("private", decryptMessageAsymmetric(Invite(profile.user_public_key), profile.user_private_key))
  /\ UNCHANGED publicRooms

-----------------------------------------------------------------------------
(* The lists of the application.                                           *)

\* The list of r is scrolled to its top: rows before the message that was the
\* oldest of the list when the scroll listener was attached are read.
Scroll(r) ==
  /\ Event
  /\ \E t \in List(r) \cup (db[r] \cap hidden) :
       loads' = loads \cup {[kind |-> "room", rows |-> [s \in {r} |-> getMessagesForRoom(s, t)]]}
  /\ UNCHANGED <<server, air, store, syncer, chatHistory, deleting, history>>

\* LOAD_MESSAGES_FOR_ROOMS replaces the lists by what was read ...
FinishRooms(l) ==
  /\ l.kind = "rooms"
  /\ chatHistory' = [r \in DOMAIN chatHistory \cup DOMAIN l.rows |->
                       IF r \in DOMAIN l.rows THEN l.rows[r] ELSE chatHistory[r]]
  /\ hidden' = hidden \cup UNION {List(r) \ l.rows[r] : r \in DOMAIN l.rows}

\* ... LOAD_MESSAGES_FOR_ROOM adds to the list, and throws if there is none.
FinishRoom(l) ==
  /\ l.kind = "room"
  /\ chatHistory' = [r \in DOMAIN chatHistory |->
                       IF r \in DOMAIN l.rows THEN l.rows[r] \cup chatHistory[r] ELSE chatHistory[r]]
  /\ UNCHANGED hidden

FinishLoad(l) ==
  /\ FinishRooms(l) \/ FinishRoom(l)
  /\ loads' = loads \ {l}
  /\ revived' = revived \cup UNION {l.rows[r] \ db[r] : r \in DOMAIN l.rows}
  /\ UNCHANGED <<server, air, store, syncer, deleting, happened, missed>>

\* handleMessagesDeleting deletes the rows, and when that is done dispatches an
\* action that deletes them once more ...
DeleteRows(r) == db' = [db EXCEPT ![r] = {}] /\ missed' = missed \cup db[r]

DeleteHistory(r) ==
  /\ Event /\ pc = "done" /\ r \in MyRooms
  /\ DeleteRows(r)
  /\ deleting' = deleting \cup {r}
  /\ UNCHANGED <<server, air, profile, syncer, chatHistory, loads, hidden, revived>>

\* ... and whose reducer leaves an empty list, and no list of another room.
KeptLists(r)    == [s \in {r} |-> List(r)]                         \* mutant
EmptiedLists(r) == [s \in {r} |-> {}]
FinishDelete(r) ==
  /\ r \in deleting /\ deleting' = deleting \ {r}
  /\ DeleteRows(r)
  /\ chatHistory' = EmptiedLists(r)
  /\ hidden' = hidden \cup UNION {db[s] : s \in Rooms}
  /\ UNCHANGED <<server, air, profile, syncer, loads, happened, revived>>

-----------------------------------------------------------------------------
Syncing == Fetch \/ SaveNext \/ NextPage \/ EndSync

Next ==
  \/ Tick \/ Cleanup
  \/ \E r \in Rooms : Persist(r) \/ Scroll(r) \/ DeleteHistory(r) \/ FinishDelete(r)
  \/ Register \/ Open \/ Syncing \/ Receive \/ LoseBroadcast \/ Close
  \/ CreatePublicRoom \/ CreatePrivateRoom \/ JoinPublicRoom \/ JoinPrivateRoom
  \/ \E l \in loads : FinishLoad(l)

Spec == Init /\ [][Next]_vars

\* Each await of the synchronisation ends.
FairSpec == Spec /\ WF_vars(Syncing)

-----------------------------------------------------------------------------
(* Properties.                                                             *)

\* Types; a page is not longer than the limit; a message is stored in a room of
\* the profile and in no other.
TypeOK ==
  /\ now \in 1..MaxTime /\ DOMAIN log \subseteq 1..MaxTime /\ publicRooms \subseteq Rooms
  /\ profile = NoProfile \/ ValidFormat(profile)
  /\ pc \in {"closed", "request", "save", "done"}
  /\ Cardinality(DOMAIN sync.answer) <= Limit
  /\ \A r \in Rooms : /\ db[r] \subseteq 1..MaxTime
                      /\ db[r] # {} => r \in MyRooms
  /\ db[own] \cap db[others] = {}
  /\ DOMAIN chatHistory \subseteq Rooms /\ deleting \subseteq Rooms
  /\ happened \in 0..MaxEvents
  /\ {missed, hidden, revived} \subseteq SUBSET (1..MaxTime)

\* "Loads all messages from the server, from the max timestamp of the messages
\* stored locally until the provided toTimestamp" (chat/index.ts): once the
\* history is synchronised every message of the server is stored, or on its way
\* to the handler, or one that no room of the user opened, the user deleted,
\* or a fault or the gap before the handler took away.  Between two pages
\* cut by epoch nothing may fall through.  When the page is closed the same
\* holds of the messages older than the newest one stored, for which the next
\* synchronisation does not ask.  Closing it in mid-synchronisation is one of
\* the faults: messages are saved in the order of their epochs, so one with a
\* later timestamp can be stored and the ones before it never asked for again.
NoHoles ==
  /\ pc = "done" => DOMAIN log \subseteq Stored \cup missed \cup OnTheWay
  /\ pc = "closed" => {t \in DOMAIN log : t < FirstFrom} \subseteq Stored \cup missed

\* A message the application shows is in the database, unless its room is being
\* deleted or a read that was under way during the deletion brought it back.
ShownStored ==
  \A r \in DOMAIN chatHistory : chatHistory[r] \subseteq db[r] \cup revived \/ r \in deleting

\* A list has no gaps: from its oldest message on it has everything stored for
\* the room, whatever live messages, reads and scrolling did in between, except
\* what a read older than a live message, or a deletion in any room, took away,
\* and what was synchronised by a clock ahead of the server's and is still on its
\* way to the handler, or lost there.
ListsWithoutGaps ==
  \A r \in DOMAIN chatHistory : \A t \in db[r] \ hidden :
    (\E s \in chatHistory[r] : s < t) => t \in chatHistory[r] \cup OnTheWay

\* A synchronisation ends: the loop over the pages advances, whatever arrives
\* and is cleaned up in the meantime.
SyncEnds == pc \in {"request", "save"} ~> pc \in {"done", "closed"}
=============================================================================
