------------------------------- MODULE WebApp -------------------------------
(***************************************************************************)
(* The web application (src/app) on one page of the browser: the screens,  *)
(* the rooms in the Redux store (reducers/chat.ts), the creation of rooms, *)
(* the invitation to a public room, and the box in which a message is      *)
(* typed, over the facade of the client library (index.ts).  Each promise  *)
(* of the facade that waits for the network, the identity wallet or a      *)
(* proof is a call under way: other clicks, other calls and an init of the *)
(* library can come before its end.  What needs only microtasks is one     *)
(* step.  Keys of direct rooms arrive in KeyExchange; here they have none. *)
(***************************************************************************)
EXTENDS Profile, Naturals, Sequences, FiniteSets

CONSTANTS
  None,
  MaxCalls,    \* bound: rooms created or joined
  MaxTexts,    \* bound: texts typed
  MaxSubmits,  \* bound: messages submitted
  MaxEvents    \* bound: failures, reloads and further inits

\* The profiles of the browser: room n has the key made of n, or none yet.
Rooms ==
  [id : Nat, symmetric_key : SUBSET Nat]
    \cup [id : Nat, symmetric_key : {NoKey}, recipient_public_key : {"friend"}, dh : SUBSET Nat]
Profiles ==
  [rln_identity_commitment : {"identity"}, root_hash : {"root"}, leaves : {"leaves"},
   user_private_key : {generateKeyPair(0)}, user_public_key : {generateKeyPair(0)},
   rooms : [RoomTypes -> SUBSET Rooms], contacts : {<<>>}, username : {""}, user_id : {0}]

ASSUME WebAppAssumption ==
  /\ NoProfile \notin Profiles
  /\ {MaxCalls, MaxTexts, MaxSubmits, MaxEvents} \subseteq Nat
  /\ None \notin Nat

Invited == 0    \* the public room of the invitation
Old     == 1    \* a private room of the exported profile

VARIABLES
  storage,   \* the profile in localStorage
  memory,    \* inMemoryProfile of profile_manager
  loaded,    \* profile_manager is not null
  inits,     \* calls of init under way
  route,     \* the screen: closed, r-procedure, public or dashboard
  opened,    \* the screen of the address with which the page was opened
  syncs,     \* synchronisations of the history under way
  syncing,   \* chatHistorySyncing: the spinner replaces the screen
  listed,    \* listed[r]: how often room r is in the list of rooms
  active,    \* currentActiveRoom
  calls,     \* rooms being created or joined
  notice,    \* notificationMessage of the invitation: empty, added or error
  input,     \* inputValue: number of the text, 0 when empty
  sending,   \* send_message calls under way
  made, typed, events,  \* how many calls, texts and events there were
  asked,     \* history: what was submitted
  sent,      \* history: what was sent
  astray,    \* history: rooms whose profile was missing or replaced
  unlisted,  \* history: rooms added without the list, since it was last read
  reread     \* history: direct rooms in the list before their creation ended

data   == <<storage, memory, loaded>>
screen == <<route, opened, syncs, syncing>>
store  == <<listed, active>>
box    == <<input, sending>>
bounds == <<made, typed, events>>
vars   == <<data, inits, screen, store, calls, notice, box, bounds, asked, sent,
            astray, unlisted, reread>>

Registered == NewProfile("identity", "root", "leaves", generateKeyPair(0), 0)
Exported   == AddRoom(Registered, "private", Room(Old, generateSymmetricKey(Old)))

Init ==
  /\ storage \in {NoProfile, Exported} /\ memory = NoProfile /\ loaded = FALSE
  /\ inits = {}
  /\ route = "closed" /\ opened = "closed" /\ syncs = 0 /\ syncing = FALSE
  /\ listed = <<>> /\ active = None
  /\ calls = {} /\ notice = "" /\ input = 0 /\ sending = {}
  /\ made = Old /\ typed = 0 /\ events = 0
  /\ asked = <<>> /\ sent = {} /\ astray = {} /\ unlisted = {} /\ reread = {}

Event   == events < MaxEvents /\ events' = events + 1
NoEvent == UNCHANGED events

-----------------------------------------------------------------------------
(* What is mounted.  A component that goes away takes its state with it.   *)

Shows(screenName) == route = screenName /\ ~ syncing
HasBox == Shows("dashboard") /\ active # None

MyRooms(p)     == IF p = NoProfile THEN {} ELSE RoomIds(p)
RoomsOf(p)     == [r \in MyRooms(p) |-> 1]
Plus(list, r)  == [s \in DOMAIN list \cup {r} |->
                     (IF s \in DOMAIN list THEN list[s] ELSE 0) + (IF s = r THEN 1 ELSE 0)]

\* GET_ROOMS replaces the list by the rooms of the profile.
GetRooms ==
  /\ listed' = RoomsOf(memory')
  /\ unlisted' = {}
  /\ reread' = reread \cup {c.n : c \in {c \in calls : c.added}}

\* ChatRooms reads the rooms when it is mounted; without a manager that fails.
MountRooms ==
  IF Shows("dashboard")' /\ ~ Shows("dashboard") /\ loaded' THEN GetRooms
  ELSE UNCHANGED <<listed, unlisted, reread>>

MountBox ==
  IF HasBox /\ HasBox' THEN UNCHANGED box
  ELSE input' = 0 /\ sending' = {[s EXCEPT !.here = FALSE] : s \in sending}

Gone(cs) == {[c EXCEPT !.here = FALSE] : c \in cs}
MountInvitation ==
  IF Shows("public") /\ Shows("public")' THEN UNCHANGED <<calls, notice>>
  ELSE calls' = Gone(calls) /\ notice' = ""

Mount == MountBox /\ MountInvitation

NoScreen == UNCHANGED <<screen, store, calls, notice, box, unlisted, reread>>

-----------------------------------------------------------------------------
(* The page and init.                                                      *)

\* AppWrapper calls init once it is mounted, whatever the address.
OpenPage ==
  /\ route = "closed"
  /\ route' \in {"r-procedure", "public", "dashboard"} /\ opened' = route'
  /\ inits' = {[kind |-> "start", stage |-> "socket", n |-> 0]}
  /\ UNCHANGED <<data, syncs, syncing, store, calls, notice, box, bounds, asked, sent,
                 astray, unlisted, reread>>

Reload ==
  /\ route # "closed" /\ Event
  /\ route' = "closed" /\ opened' = "closed" /\ syncs' = 0 /\ syncing' = FALSE
  /\ memory' = NoProfile /\ loaded' = FALSE /\ inits' = {}
  /\ listed' = <<>> /\ active' = None
  /\ calls' = {} /\ notice' = "" /\ input' = 0 /\ sending' = {}
  /\ unlisted' = {}
  /\ UNCHANGED <<storage, made, typed, asked, sent, astray, reread>>

\* The rooms of the profile that is replaced, and direct rooms on their way.
Astray == astray \cup MyRooms(storage) \cup {c.n : c \in {c \in calls : c.added}}

\* The communication object is connected, the identity wallet answered, or the
\* tree that recover_profile asked for is there: init makes a ProfileManager,
\* whose profile is null until init has fetched the tree, and a ChatManager.
\* Messages under way stay with the old ones.
GoOn(i) ==
  /\ i.stage \in {"socket", "wallet", "tree"}
  /\ memory' = NoProfile /\ loaded' = TRUE /\ UNCHANGED storage
  /\ inits' = (inits \ {i}) \cup {[i EXCEPT !.stage = "fetch"]}
  /\ sending' = {[s EXCEPT !.old = IF @ = None THEN memory ELSE @] : s \in sending}
  /\ UNCHANGED <<screen, store, calls, notice, input, bounds, asked, sent, astray,
                 unlisted, reread>>

\* handleRegisterClick: init with the identity of the wallet.  The page has a
\* communication object by then, and init does not wait for its connection.
Register ==
  /\ Shows("r-procedure") /\ Event
  /\ inits' = inits \cup {[kind |-> "register", stage |-> "wallet", n |-> events']}
  /\ NoScreen /\ UNCHANGED <<data, made, typed, asked, sent, astray>>

\* handleRecoverClick, with the file of the exported profile.
Recover ==
  /\ Shows("r-procedure") /\ Event
  /\ loaded /\ ValidFormat(Exported)
  /\ memory' = Exported /\ storage' = Exported /\ UNCHANGED loaded
  /\ inits' = inits \cup {[kind |-> "recover", stage |-> "tree", n |-> events']}
  /\ astray' = Astray
  /\ NoScreen /\ UNCHANGED <<made, typed, asked, sent>>

\* init ends with a profile.  The rooms are read; after a registration there is
\* no history to synchronise.  AppWrapper stays with an invitation.
EndInit(i) ==
  /\ i.stage = "fetch"
  /\ i.kind = "register" \/ CanLoadProfile(storage)
  /\ memory' = IF i.kind = "register" THEN Registered ELSE storage
  /\ storage' = memory' /\ UNCHANGED loaded
  /\ inits' = inits \ {i}
  /\ astray' = IF i.kind = "register" THEN Astray ELSE astray
  /\ route' = IF i.kind = "start" /\ opened = "public" THEN route ELSE "dashboard"
  /\ IF i.kind = "register" THEN UNCHANGED <<syncs, syncing>>
     ELSE syncs' = syncs + 1 /\ syncing' = TRUE
  /\ UNCHANGED <<opened, active, bounds, asked, sent>>
  /\ GetRooms /\ Mount

\* "No profile exists", or no wallet.
FailInit(i) ==
  /\ \/ i.stage = "fetch" /\ i.kind # "register" /\ ~ CanLoadProfile(storage) /\ NoEvent
     \/ i.stage = "wallet" /\ Event
  /\ inits' = inits \ {i}
  /\ route' = "r-procedure"
  /\ UNCHANGED <<data, opened, syncs, syncing, active, made, typed, asked, sent, astray>>
  /\ MountRooms /\ Mount

\* RUN_SYNC_MESSAGE_HISTORY finishes, and the screen is mounted anew.
EndSync ==
  /\ syncs > 0 /\ syncs' = syncs - 1 /\ syncing' = FALSE
  /\ UNCHANGED <<data, inits, route, opened, active, bounds, asked, sent, astray>>
  /\ MountRooms /\ Mount

Show(screenName) ==
  /\ route' = screenName
  /\ UNCHANGED <<data, inits, opened, syncs, syncing, active, made, typed, asked, sent, astray>>
  /\ MountRooms /\ Mount

\* The Back button of the browser, from the rooms to where the page was opened.
Back == Shows("dashboard") /\ opened # "dashboard" /\ NoEvent /\ Show(opened)

-----------------------------------------------------------------------------
(* Rooms.                                                                  *)

EditInMemory(p) == memory' = p /\ UNCHANGED storage              \* mutant
Edit(p) == memory' = p /\ storage' = p

\* addPublicRoom, addPrivateRoom and addDirectRoom do nothing, and do not
\* fail, when there is no profile.
Add(type, room) ==
  IF memory = NoProfile THEN UNCHANGED <<memory, storage>> /\ astray' = astray \cup {room.id}
  ELSE Edit(AddRoom(memory, type, room)) /\ UNCHANGED astray

Call(kind, here) ==
  /\ made < Old + MaxCalls /\ made' = made + 1
  /\ calls' = calls \cup {[n |-> made', kind |-> kind, added |-> FALSE, here |-> here]}

\* The dialogues for new rooms and for the invite to a private room.
Create(kind) ==
  /\ Shows("dashboard") /\ loaded
  /\ Call(kind, FALSE)
  /\ UNCHANGED <<data, inits, screen, store, notice, box, typed, events, asked, sent,
                 astray, unlisted, reread>>

\* CREATE_PUBLIC_ROOM, CREATE_PRIVATE_ROOM, CREATE_DIRECT_ROOM succeed.
OnlyCreated(list, r) == [s \in {r} |-> 1]                         \* mutant
Created(list, r)     == Plus(list, r)
ShowCreated(c) ==
  /\ listed' = Created(listed, c.n) /\ active' = c.n
  /\ calls' = calls \ {c}
  /\ UNCHANGED <<screen, notice, unlisted, reread>>
  /\ MountBox

\* The server answered, or the key was made or decrypted.
EndCreate(c) ==
  /\ c.kind \in {"public", "private"}
  /\ Add(c.kind, Room(c.n, generateSymmetricKey(c.n)))
  /\ ShowCreated(c)
  /\ UNCHANGED <<loaded, inits, bounds, asked, sent>>

\* No answer of the server, an invite for another user.
FailCreate(c) ==
  /\ c.kind \in {"public", "private"} /\ Event
  /\ calls' = calls \ {c}
  /\ UNCHANGED <<data, inits, screen, store, notice, box, made, typed, asked, sent,
                 astray, unlisted, reread>>

\* create_direct_room: the room is added, if the friend has none, and then a
\* bundle is proved and posted.
NewDirect(c) == DirectRoom(c.n, "friend", generateECDHKeyPair(c.n))
AddDirect(c) ==
  /\ c.kind = "direct" /\ ~ c.added
  /\ IF memory = NoProfile \/ CanAddDirectRoom(memory, NewDirect(c))
     THEN /\ Add("direct", NewDirect(c))
          /\ calls' = (calls \ {c}) \cup {[c EXCEPT !.added = TRUE]}
     ELSE calls' = calls \ {c} /\ UNCHANGED <<memory, storage, astray>>
  /\ UNCHANGED <<loaded, inits, screen, store, notice, box, bounds, asked, sent,
                 unlisted, reread>>

EndDirect(c) ==
  /\ c.added
  /\ \/ ShowCreated(c) /\ NoEvent
     \/ /\ Event /\ calls' = calls \ {c} /\ unlisted' = unlisted \cup {c.n}
        /\ UNCHANGED <<screen, store, notice, box, reread>>
  /\ UNCHANGED <<data, inits, made, typed, asked, sent, astray>>

\* handleChatRoomCellClick and handleActiveChatClosing.
SetActive(r) ==
  /\ Shows("dashboard") /\ r \in DOMAIN listed \cup {None} /\ r # active
  /\ active' = r
  /\ UNCHANGED <<data, inits, screen, listed, calls, notice, bounds, asked, sent,
                 astray, unlisted, reread>>
  /\ MountBox

-----------------------------------------------------------------------------
(* The invitation to a public room.                                        *)

\* handlePublicRoomInvite: refused at once without a manager, or when the room
\* is in the profile; otherwise, without a profile too, the server is asked.
ClickJoin ==
  /\ Shows("public") /\ notice = ""
  /\ IF ~ loaded \/ Invited \in MyRooms(memory)
     THEN notice' = "error" /\ UNCHANGED <<calls, made>>
     ELSE Call("join", TRUE) /\ UNCHANGED notice
  /\ UNCHANGED <<data, inits, screen, store, box, typed, events, asked, sent, astray,
                 unlisted, reread>>

NotifyGone(c, text) == notice' = text                             \* mutant
Notify(c, text) == notice' = IF c.here THEN text ELSE notice

InvitedRoom == Room(Invited, generateSymmetricKey(Invited))
CanJoin == memory # NoProfile => CanAddRoom(memory, "public", InvitedRoom)

EndJoin(c) ==
  /\ c.kind = "join"
  /\ CanJoin
  /\ Add("public", InvitedRoom)
  /\ Notify(c, "added")
  /\ unlisted' = IF Shows("dashboard") THEN unlisted \cup {Invited} ELSE unlisted
  /\ calls' = calls \ {c}
  /\ UNCHANGED <<loaded, inits, screen, store, box, bounds, asked, sent, reread>>

\* "Room already exists", "Unknown room", or no answer.
FailJoin(c) ==
  /\ c.kind = "join"
  /\ IF CanJoin THEN Event ELSE NoEvent
  /\ Notify(c, "error")
  /\ calls' = calls \ {c}
  /\ UNCHANGED <<data, inits, screen, store, box, made, typed, asked, sent, astray,
                 unlisted, reread>>

GoToRooms == Shows("public") /\ notice # "" /\ NoEvent /\ Show("dashboard")

-----------------------------------------------------------------------------
(* Messages: components/Input.                                             *)

Type ==
  /\ HasBox /\ typed < MaxTexts
  /\ typed' = typed + 1 /\ input' = typed'
  /\ UNCHANGED <<data, inits, screen, store, calls, notice, sending, made, events, asked,
                 sent, astray, unlisted, reread>>

\* handleMessageSubmit, also while an earlier one is under way.
Submit ==
  /\ HasBox /\ input # 0 /\ Len(asked) < MaxSubmits
  /\ asked' = Append(asked, [text |-> input, room |-> active,
                             again |-> \E s \in sending : s.here /\ s.text = input])
  /\ sending' = sending \cup {[n |-> Len(asked'), text |-> input, room |-> active,
                              here |-> TRUE, old |-> None]}
  /\ UNCHANGED <<data, inits, screen, store, calls, notice, input, bounds, sent, astray,
                 unlisted, reread>>

\* sendMessage: the proof is there, and the text is encrypted for the room; it
\* throws when the room is not in the profile or has no key.
ProfileFor(s) == IF s.old = None THEN memory ELSE s.old
RoomSentTo(s) == s.room
CanSend(s) ==
  /\ RoomSentTo(s) \in MyRooms(ProfileFor(s))
  /\ encryptMessageForRoom(ProfileFor(s), RoomSentTo(s), s.text) # Failed

KeepText(s)  == input                                             \* mutant
ClearText(s) == IF s.here THEN 0 ELSE input
TextAfterFailure(s) == input

EndSend(s) ==
  /\ sending' = sending \ {s}
  /\ \/ /\ CanSend(s) /\ NoEvent
        /\ sent' = sent \cup {[n |-> s.n,
                              cipher |-> encryptMessageForRoom(ProfileFor(s), RoomSentTo(s), s.text)]}
        /\ input' = ClearText(s)
     \/ /\ IF CanSend(s) THEN Event ELSE NoEvent
        /\ input' = TextAfterFailure(s)
        /\ UNCHANGED sent
  /\ UNCHANGED <<data, inits, screen, store, calls, notice, made, typed, asked, astray,
                 unlisted, reread>>

-----------------------------------------------------------------------------
Initialising == \E i \in inits : GoOn(i) \/ EndInit(i) \/ FailInit(i)
Creating     == \E c \in calls : EndCreate(c) \/ FailCreate(c) \/ AddDirect(c) \/ EndDirect(c)
Joining      == \E c \in calls : EndJoin(c) \/ FailJoin(c)

Next ==
  \/ OpenPage \/ Reload \/ Register \/ Recover \/ Initialising \/ EndSync \/ Back
  \/ (\E kind \in RoomTypes : Create(kind)) \/ Creating
  \/ ClickJoin \/ Joining \/ GoToRooms
  \/ \E r \in DOMAIN listed \cup {None} : SetActive(r)
  \/ Type \/ Submit \/ \E s \in sending : EndSend(s)

Spec == Init /\ [][Next]_vars

-----------------------------------------------------------------------------
(* Properties.                                                             *)

\* A profile or none in memory and storage, none without a manager; a text is
\* in the box only while there is one.
TypeOK ==
  /\ \A p \in {memory, storage} : p = NoProfile \/ ValidFormat(p)
  /\ memory # NoProfile => loaded
  /\ route \in {"closed", "r-procedure", "public", "dashboard"} /\ syncs \in Nat
  /\ input # 0 => HasBox
  /\ \A c \in calls : c.kind \in RoomTypes \cup {"join"} /\ c.n \in Old + 1 .. made
  /\ \A m \in sent : m.n \in DOMAIN asked
  /\ notice \in {"", "added", "error"} /\ (notice # "" => Shows("public"))

\* A room the application shows, has open or reports as "successfully added" is
\* in the profile that a reload would find, whatever was created, joined or
\* recovered before (get_rooms, reducers/chat.ts, persistProfile); except rooms
\* that were added while the profile was missing, or in one that was replaced.
ShownRoomsKept ==
  /\ Shows("dashboard") =>
       DOMAIN listed \cup ({active} \ {None}) \subseteq MyRooms(storage) \cup astray
  /\ notice = "added" => Invited \in MyRooms(storage) \cup astray

\* The list has every room of the profile, once, in whatever order the promises
\* of several creations, of get_rooms and of an init end.  Missing are direct
\* rooms whose bundle is being posted or could not be, and a room joined by an
\* answer that came after the list was read; twice are direct rooms that were
\* read while their bundle was being posted (CREATE_DIRECT_ROOM appends).
RoomsListedOnce ==
  /\ Shows("dashboard") =>
       MyRooms(memory) \subseteq DOMAIN listed \cup unlisted \cup {c.n : c \in {c \in calls : c.added}}
  /\ \A r \in DOMAIN listed \ reread : listed[r] = 1

\* What is sent is the text submitted, for the room that was open then, although
\* another may be open, or the profile be replaced, once the proof is there; and
\* a text is sent twice only if it was submitted again while it was being sent:
\* nothing keeps the user from pressing Enter during the proof, and every message
\* counts towards the spam threshold (handleMessageSubmit, sendMessage).
SentAsSubmitted ==
  /\ \A m \in sent :
       decryptMessageSymmetric(m.cipher, generateSymmetricKey(asked[m.n].room)) = asked[m.n].text
  /\ \A m, l \in sent :
       m.n < l.n /\ asked[m.n].text = asked[l.n].text => asked[l.n].again

\* A text does not disappear from the box by itself: only when a message
\* submitted from this box was sent, so not when sending fails.
TextKept ==
  [][input # 0 /\ input' = 0 /\ HasBox /\ HasBox'
       => \E s \in sending \ sending' : s.here /\ \E m \in sent' \ sent : m.n = s.n]_vars
=============================================================================
