----------------------------- MODULE KeyExchange -----------------------------
(***************************************************************************)
(* Direct rooms and their keys: the facade (index.ts), the profile manager *)
(* and the key exchange manager of the client with the storage of the      *)
(* browser, and the key exchange service of the server.  A user creates a  *)
(* room and posts a bundle with its DH key for the recipient; a task that  *)
(* a timer starts every 30 s, whether or not the previous one has ended,   *)
(* fetches the bundles for the user, derives keys for the rooms that wait  *)
(* for one and deletes the bundles it used.  One action per await.         *)
(***************************************************************************)
EXTENDS Profile, Naturals, Sequences, FiniteSets

CONSTANTS
  Users,
  Runs,          \* Runs[u]: runs of the task of u that can overlap
  SpamThreshold, \* config.spamThreshold
  MaxInFlight,   \* bound: requests the server handles at the same time
  MaxMade,       \* MaxMade[u]: bound on the key pairs u generates
  MaxInits,      \* bound: calls of init on a page that is initialised
  MaxFaults      \* MaxFaults[u]: bound on reloads, lost browsers and failed requests of u

\* The profiles of the browsers, in whom a key is made from the numbers of the
\* pairs that their users have generated.
KeySets  == SUBSET (Users \X Nat)
Rooms    == [id : Users \X Nat, symmetric_key : KeySets, recipient_public_key : KeySets, dh : KeySets]
Profiles ==
  [rln_identity_commitment : Users, root_hash : {"root"}, leaves : {"leaves"},
   user_private_key : KeySets, user_public_key : KeySets,
   rooms : [RoomTypes -> SUBSET Rooms], contacts : {<<>>}, username : {""}, user_id : Users]

ASSUME ExchangeAssumption ==
  /\ NoProfile \notin Profiles
  /\ SpamThreshold \in Nat \ {0} /\ MaxInFlight \in Nat \ {0}
  /\ MaxMade \in [Users -> Nat] /\ MaxInits \in Nat /\ MaxFaults \in [Users -> Nat]

VARIABLES
  storage,   \* storage[u]: the profile in localStorage
  file,      \* file[u]: the profile exported last
  managers,  \* managers[u]: the profile managers of the page that are still
             \* referred to, with the profile of each and the object it is in:
             \* the one key_exchange_manager holds first, the facade's last.
             \* <<>>: the page is closed, or has found no profile
  run,       \* run[u][r]: a run of the task
  deriving,  \* deriving[u]: deriveRoomSecretKey calls that have not ended
  posting,   \* posting[u]: bundles saveKeyExchangeBundle is preparing
  bundles,   \* collection KeyExchangeBundle
  accepted,  \* accepted[u]: rows of keyExchangeRequestStats for u and the epoch
             \* in which all requests are made (a new one only makes more room)
  requests,  \* requests the server is handling
  made,      \* made[u]: key pairs u has generated
  inits, faults,
  posted,    \* history: bundles ever saved
  dropped,   \* dropped[u]: history: a derivation was lost
  stale      \* history: users who recovered a profile that was out of date

page   == <<managers, run, deriving, posting>>
server == <<bundles, accepted, requests, posted>>
bounds == <<made, inits, faults>>
vars   == <<storage, file, page, server, bounds, dropped, stale>>

Last(u)    == Len(managers[u])
Current(u) == IF managers[u] = <<>> THEN NoProfile ELSE managers[u][Last(u)].profile
Idle == [pc |-> "idle", rooms |-> {}, object |-> 0, own |-> NoKey]

Init ==
  /\ storage = [u \in Users |-> NoProfile] /\ file = [u \in Users |-> NoProfile]
  /\ managers = [u \in Users |-> <<>>]
  /\ run = [u \in Users |-> [r \in Runs[u] |-> Idle]]
  /\ deriving = [u \in Users |-> {}] /\ posting = [u \in Users |-> {}]
  /\ bundles = {} /\ posted = {} /\ requests = {}
  /\ accepted = [u \in Users |-> 0]
  /\ made = [u \in Users |-> 0]
  /\ inits = 0 /\ faults = [u \in Users |-> 0]
  /\ dropped = [u \in Users |-> FALSE] /\ stale = {}

Fresh(u)  == <<u, made[u] + 1>>
Make(u)   == made[u] < MaxMade[u] /\ made' = [made EXCEPT ![u] = @ + 1]
Fault(u)  == faults[u] < MaxFaults[u] /\ faults' = [faults EXCEPT ![u] = @ + 1]

-----------------------------------------------------------------------------
(* init, on a page that is opened or again on the same page.               *)

\* new ProfileManager with profile p.  The key exchange manager is built with
\* the first manager that has a profile and is never given another.
Install(u, older, p) ==
  managers' = [managers EXCEPT ![u] =
    IF older = <<>> THEN <<[profile |-> p, object |-> 1]>>
    ELSE <<older[1], [profile |-> p, object |-> 1]>>]
CountInit(u) == IF managers[u] = <<>> THEN inits' = inits
                ELSE inits < MaxInits /\ inits' = inits + 1

\* init with no identity commitment; it throws when nothing is stored.
InitFromStorage(u) ==
  /\ CanLoadProfile(storage[u])
  /\ CountInit(u)
  /\ Install(u, managers[u], storage[u])
  /\ UNCHANGED <<storage, file, run, deriving, posting, server, made, faults,
                 dropped, stale>>

InitNewProfile(u) ==
  /\ Make(u) /\ CountInit(u)
  /\ LET p == NewProfile(u, "root", "leaves", generateKeyPair(Fresh(u)), u)
     IN  Install(u, managers[u], p) /\ storage' = [storage EXCEPT ![u] = p]
  /\ UNCHANGED <<file, run, deriving, posting, server, faults, dropped, stale>>

Close(u) ==
  /\ managers' = [managers EXCEPT ![u] = <<>>]
  /\ run' = [run EXCEPT ![u] = [r \in Runs[u] |-> Idle]]
  /\ deriving' = [deriving EXCEPT ![u] = {}] /\ posting' = [posting EXCEPT ![u] = {}]
  /\ dropped' = [dropped EXCEPT ![u] = @ \/ deriving[u] # {}]

\* The page is closed or reloaded: what it was doing ends there.
Reload(u) ==
  /\ managers[u] # <<>>
  /\ Fault(u)
  /\ Close(u)
  /\ UNCHANGED <<storage, file, server, made, inits, stale>>

\* Another browser, or cleared data: the exported file is all that is left.
LoseBrowser(u) ==
  /\ file[u] # NoProfile /\ Fault(u)
  /\ Close(u)
  /\ storage' = [storage EXCEPT ![u] = NoProfile]
  /\ stale' = IF storage[u] \in {NoProfile, file[u]} THEN stale ELSE stale \cup {u}
  /\ UNCHANGED <<file, server, made, inits>>

-----------------------------------------------------------------------------
(* Operations of the facade's manager; each persists the whole profile.    *)

EditInMemory(u, p) ==                          \* mutant: persistProfile is forgotten
  /\ managers' = [managers EXCEPT ![u][Last(u)].profile = p]
  /\ UNCHANGED storage
Edit(u, p) ==
  /\ managers' = [managers EXCEPT ![u][Last(u)].profile = p]
  /\ storage' = [storage EXCEPT ![u] = p]

ExportToFile(u) ==
  /\ Current(u) # NoProfile /\ faults[u] < MaxFaults[u]
  /\ file' = [file EXCEPT ![u] = ExportProfile(Current(u))]
  /\ UNCHANGED <<storage, page, server, bounds, dropped, stale>>

\* recover_profile, after an init that may have found no profile, puts the file
\* in place of the facade's profile; the modal calls init right after it.
RecoverFromFile(u) ==
  /\ file[u] # NoProfile /\ ValidFormat(file[u])
  /\ managers[u] # <<>> \/ ~ CanLoadProfile(storage[u])
  /\ CountInit(u)
  /\ LET recovered == [i \in DOMAIN managers[u] |->
           IF i = Last(u) THEN [profile |-> file[u], object |-> managers[u][i].object + 1]
           ELSE managers[u][i]]
     IN  Install(u, recovered, file[u])
  /\ storage' = [storage EXCEPT ![u] = file[u]]
  /\ stale' = IF storage[u] \in {NoProfile, file[u]} THEN stale ELSE stale \cup {u}
  /\ UNCHANGED <<file, run, deriving, posting, server, made, faults, dropped>>

\* create_direct_room with a key taken from a contact or typed in; the room is
\* persisted before the bundle is prepared.
CreateDirectRoom(u, recipient) ==
  LET room == DirectRoom(Fresh(u), recipient, generateECDHKeyPair(Fresh(u))) IN
  /\ Current(u) # NoProfile /\ CanAddDirectRoom(Current(u), room)
  /\ Make(u)
  /\ Edit(u, AddRoom(Current(u), "direct", room))
  /\ posting' = [posting EXCEPT ![u] = @ \cup {room}]
  /\ UNCHANGED <<file, run, deriving, server, inits, faults, dropped, stale>>

-----------------------------------------------------------------------------
(* Requests.  The key exchange manager signs with the keys of its own      *)
(* profile manager and proves for the epoch of the moment.                 *)

KeyProfile(u) == managers[u][1].profile
Send(u, from, kind, content) ==
  /\ Cardinality(requests) < MaxInFlight
  /\ requests' = requests \cup {[by |-> u, from |-> from, kind |-> kind, content |-> content,
                                 passed |-> FALSE]}
Awaiting(u, r) == \E q \in requests : q.by = u /\ q.from = r

\* The content the receiver can decrypt, and its hash.
Bundle(dh, sender, receiver) ==
  [content_hash |-> hash(<<dh, sender>>), receiver_public_key |-> receiver,
   encrypted_key |-> encryptMessageAsymmetric([dh_public_key |-> dh, sender_public_key |-> sender],
                                              receiver)]

\* saveKeyExchangeBundle.  The request is not repeated when it fails, or when
\* the proof cannot be made.
SaveKeyExchangeBundle(u, room) ==
  /\ room \in posting[u]
  /\ posting' = [posting EXCEPT ![u] = @ \ {room}]
  /\ \/ Send(u, room.id, "create", {Bundle(room.dh, KeyProfile(u).user_public_key, room.recipient_public_key)})
        /\ UNCHANGED faults
     \/ Fault(u) /\ UNCHANGED requests
  /\ UNCHANGED <<storage, file, managers, run, deriving, bundles, accepted, posted,
                 made, inits, dropped, stale>>

-----------------------------------------------------------------------------
(* The task: scheduleKeyExchangeProtocol, runKeyExchangeProtocol.          *)

StartRun(u, r) ==
  /\ managers[u] # <<>> /\ run[u][r].pc = "idle" /\ ~ Awaiting(u, r)
  /\ run' = [run EXCEPT ![u][r] =
       [pc |-> "fetch", rooms |-> RoomsAvailableForKeyExchange(KeyProfile(u)),
        object |-> managers[u][1].object, own |-> KeyProfile(u).user_public_key]]
  /\ UNCHANGED <<storage, file, managers, deriving, posting, server, bounds, dropped, stale>>

\* The bundles of the server that a waiting room of the run has a use for: the
\* key is derived in the background, the run goes on to ask for the deletion of
\* the bundles it used, and does not look at the answer.
Matches(rooms, own) ==
  {[room |-> room, bundle |-> b] : room \in rooms, b \in {b \in bundles : b.receiver_public_key = own}}
Opened(b, own) == decryptMessageAsymmetric(b.encrypted_key, own)
UsableByReceiver(m, own) == m.room.recipient_public_key = m.bundle.receiver_public_key   \* mutant
Usable(m, own) == m.room.recipient_public_key = Opened(m.bundle, own).sender_public_key
UsedAll(use, own) == {b \in bundles : b.receiver_public_key = own}                        \* mutant
UsedBundles(use, own) == {m.bundle : m \in use}

FetchBundles(u, r) ==
  LET now == run[u][r]
      use == {m \in Matches(now.rooms, now.own) : Usable(m, now.own)}
      used == UsedBundles(use, now.own)
  IN
  /\ now.pc = "fetch"
  /\ run' = [run EXCEPT ![u][r] = Idle]
  /\ \/ /\ deriving' = [deriving EXCEPT ![u] = @ \cup
             {[room |-> m.room, object |-> now.object,
               dh |-> Opened(m.bundle, now.own).dh_public_key] : m \in use}]
        /\ IF used = {} THEN UNCHANGED <<requests, faults>>
           ELSE \/ Send(u, r, "delete", used) /\ UNCHANGED faults
                \/ Fault(u) /\ UNCHANGED requests
     \/ Fault(u) /\ UNCHANGED <<deriving, requests>>
  /\ UNCHANGED <<storage, file, managers, posting, bundles, accepted, posted, made, inits,
                 dropped, stale>>

\* deriveRoomSecretKey, which nobody awaits, ends: the key goes into the room
\* object the run was started with, and the manager persists its profile.  When
\* recover_profile has replaced that profile, the room is no longer part of it.
EndDerivation(u, d) ==
  LET live  == d.object = managers[u][1].object
      keyed == IF live THEN DeriveRoomSecretKey(KeyProfile(u), d.room, d.dh) ELSE KeyProfile(u)
  IN
  /\ d \in deriving[u]
  /\ deriving' = [deriving EXCEPT ![u] = @ \ {d}]
  /\ managers' = [managers EXCEPT ![u][1].profile = keyed]
  /\ storage' = [storage EXCEPT ![u] = keyed]
  /\ dropped' = [dropped EXCEPT ![u] = @ \/ ~ live]
  /\ UNCHANGED <<file, run, posting, server, bounds, stale>>

-----------------------------------------------------------------------------
(* The server: validateMessageRules, then createBundle or deleteBundles.   *)

NoSpam == {q \in requests : accepted[q.by] > SpamThreshold}          \* mutant
Spam   == {q \in requests : accepted[q.by] >= SpamThreshold}

\* The proof is checked and the rows of the epoch are counted; a request can
\* also fail here because the tree has changed or the epoch has passed.
ValidateRules(q) ==
  /\ q \in requests /\ ~ q.passed
  /\ \/ /\ requests' = (requests \ {q}) \cup {[p EXCEPT !.passed = TRUE] : p \in {q} \ Spam}
        /\ UNCHANGED faults
     \/ Fault(q.by) /\ requests' = requests \ {q}
  /\ UNCHANGED <<storage, file, page, bundles, accepted, posted, made, inits,
                 dropped, stale>>

Created(content) == {b \in content : \A c \in bundles : c.content_hash # b.content_hash}
Deleted(content) ==
  {b \in bundles : \E c \in content : /\ c.content_hash = b.content_hash
                                      /\ c.receiver_public_key = b.receiver_public_key}

\* The row is saved first; what follows can fail half way.
Serve(q) ==
  /\ q \in requests /\ q.passed
  /\ requests' = requests \ {q}
  /\ accepted' = [accepted EXCEPT ![q.by] = @ + 1]
  /\ \E served \in SUBSET q.content :
       /\ IF served = q.content THEN UNCHANGED faults ELSE Fault(q.by)
       /\ \/ /\ q.kind = "create"
             /\ bundles' = bundles \cup Created(served) /\ posted' = posted \cup Created(served)
          \/ /\ q.kind = "delete"
             /\ bundles' = bundles \ Deleted(served) /\ UNCHANGED posted
  /\ UNCHANGED <<storage, file, page, made, inits, dropped, stale>>

-----------------------------------------------------------------------------
PublicKeys == {Current(v).user_public_key : v \in {v \in Users : Current(v) # NoProfile}}

ByUser(u) ==
  \/ InitFromStorage(u) \/ InitNewProfile(u) \/ Reload(u) \/ LoseBrowser(u)
  \/ ExportToFile(u) \/ RecoverFromFile(u)
  \/ \E k \in PublicKeys : (Current(u) # NoProfile => k # Current(u).user_public_key) /\ CreateDirectRoom(u, k)
ByClient(u) ==
  \/ \E room \in posting[u] : SaveKeyExchangeBundle(u, room)
  \/ \E r \in Runs[u] : StartRun(u, r) \/ FetchBundles(u, r)
  \/ \E d \in deriving[u] : EndDerivation(u, d)
ByServer == \E q \in requests : ValidateRules(q) \/ Serve(q)

Next == (\E u \in Users : ByUser(u) \/ ByClient(u)) \/ ByServer

Spec == Init /\ [][Next]_vars

\* The timer keeps firing while the page is open, a run goes on after each
\* await, a derivation ends, and the server answers.  Users owe nothing.
FairSpec ==
  /\ Spec
  /\ \A u \in Users : /\ WF_vars(\E r \in Runs[u] : StartRun(u, r))
                      /\ WF_vars(\E r \in Runs[u] : FetchBundles(u, r))
                      /\ WF_vars(\E d \in deriving[u] : EndDerivation(u, d))
  /\ WF_vars(ByServer)

-----------------------------------------------------------------------------
(* Properties.                                                             *)

\* Every profile manager, storage and file holds a profile or none, and no
\* more than two managers of a page are in use.
TypeOK ==
  /\ \A u \in Users : /\ \A p \in {storage[u], file[u], Current(u)} : p = NoProfile \/ ValidFormat(p)
                      /\ Last(u) \in 0..2 /\ made[u] \in 0..MaxMade[u]
                      /\ \A r \in Runs[u] : run[u][r].pc \in {"idle", "fetch"}
                      /\ accepted[u] \in Nat
  /\ bundles \subseteq posted /\ Cardinality(requests) <= MaxInFlight
  /\ inits \in 0..MaxInits /\ \A u \in Users : faults[u] \in 0..MaxFaults[u]
  /\ stale \subseteq Users

DirectRooms(p) == IF p = NoProfile THEN {} ELSE p.rooms["direct"]
HasKey(room)   == room.symmetric_key # NoKey
OwnKey(p)      == p.user_public_key

\* Two users who have derived keys for their rooms with each other can read
\* each other's messages (deriveRoomSecretKey, encryptMessageForRoom), as long
\* as neither went back to an old profile: runs that overlap, bundles fetched
\* twice and derivations that end in any order make no difference.  (A second
\* init on a page is excluded here and below, as in StorageSynced: with a
\* third user it loses keys and rooms.)
KeysAgree ==
  inits = 0 => \A u, v \in Users \ stale :
    u # v => \A s \in DirectRooms(Current(u)), t \in DirectRooms(Current(v)) :
      /\ HasKey(s) /\ s.recipient_public_key = OwnKey(Current(v))
      /\ HasKey(t) /\ t.recipient_public_key = OwnKey(Current(u))
      => decryptMessageSymmetric(encryptMessageForRoom(Current(u), s.id, "text"), t.symmetric_key) = "text"

\* A key that has reached the storage stays: no later run of the task, no edit
\* of the profile, reload or recovery of a current file replaces or blanks it.
KeyKept ==
  [][\A u \in Users : storage'[u] # NoProfile /\ inits' = 0 /\ stale' = {}
       => \A r \in DirectRooms(storage[u]) :
            HasKey(r) /\ OwnKey(storage'[u]) = OwnKey(storage[u]) => r \in DirectRooms(storage'[u])]_vars

\* The profile on which the facade works is the one in the storage ("The
\* profile is kept in-memory, and continuously synced with the profile stored
\* in the selected storage provider", profile/index.ts): as long as init is not
\* called a second time on a page, which leaves the key exchange manager with
\* the profile manager of the first.
StorageSynced == inits = 0 => \A u \in Users : managers[u] # <<>> => storage[u] = Current(u)

\* The spam threshold of the bundles holds up to the requests that were past
\* the count when the last row was saved (validateMessageRules counts first
\* and saves last).
QuotaBound ==
  \A u \in Users : accepted[u] <= SpamThreshold + MaxInFlight - 1

\* What the room r of u has been sent.
Addressed(u, r) ==
  {b \in posted : /\ b.receiver_public_key = OwnKey(storage[u])
                  /\ Opened(b, OwnKey(storage[u])).sender_public_key = r.recipient_public_key}

\* A room that still waits for its key has not lost the bundle it needs: the
\* bundle is on the server, its derivation is going on, or the page was closed
\* (or its profile replaced) during the derivation, which nobody awaits.
NoBundleLost ==
  inits = 0 => \A u \in Users \ stale : \A r \in DirectRooms(storage[u]) : \A b \in Addressed(u, r) :
    \/ HasKey(r) \/ b \in bundles \/ dropped[u]
    \/ \E d \in deriving[u] : d.room.id = r.id

\* While the page stays open, a user whose room waits for a bundle that is on
\* the server gets keys until no room does (or somebody else takes the bundles).
Waits(u) ==
  /\ managers[u] # <<>>
  /\ \E r \in DirectRooms(storage[u]) : ~ HasKey(r) /\ Addressed(u, r) \cap bundles # {}
RoomsGetKeys == \A u \in Users : Waits(u) ~> ~ Waits(u)
=============================================================================
