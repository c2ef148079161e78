------------------------------ MODULE RootSync ------------------------------
(***************************************************************************)
(* How a client keeps its root and leaves: init of index.ts with the       *)
(* sockets of communication/, checkRootUpToDate and sendMessage of         *)
(* chat/index.ts, and the way of a TREE_UPDATE from the change of the tree *)
(* through Redis, the node synchroniser and the updates socket.  The tree  *)
(* is known by two version numbers, because root and leaves are read by    *)
(* two requests and a change writes a leaf before the root.  The edits of  *)
(* the profile that persist it between two refreshes are part of the page. *)
(***************************************************************************)
EXTENDS Profile, Naturals, FiniteSets

CONSTANTS
  Senders,     \* calls of checkRootUpToDate that can overlap
  opening,     \* the call of init
  Names, Keys, \* what the user types in as name and public key of a contact
  Usernames,   \* and as own name
  None,        \* the answer of api.ts to a failed request
  InOrder,     \* the sockets open in the order in which they were created
  MaxVersion,  \* bound: changes of the tree
  MaxFaults    \* bound: requests, events and connections lost, changes cut short

ASSUME RootSyncAssumption ==
  /\ opening \notin Senders /\ InOrder \in BOOLEAN
  /\ MaxVersion \in Nat /\ MaxFaults \in Nat /\ None \notin Nat

Readers == Senders \cup {opening}
Sockets == 1..3      \* messages, message-broadcast, updates
updates == 3

VARIABLES
  tree,       \* versions of the root and the leaves in the database; changing:
              \* a change has been begun whose TREE_UPDATE is not published
  redis,      \* events in the channel
  events,     \* events sent on the updates socket of the client
  sockets,    \* sockets[k]: connecting, open or closed
  waiting,    \* how many sockets waitForConnections has listened on; 4: it has ended
  listening,  \* receiveEvent has been called
  profile,    \* inMemoryProfile, which is also what the storage holds
  root_up_to_date,
  pc, got,    \* per reader: its next step, and the root and leaves it was sent
  faults,
  hit,        \* hit[s]: history: an event has arrived, or a request of s has
              \* failed, since s began
  missed      \* history: since the last event that arrived, one was lost or
              \* cut short, or its notice overwritten by a refresh it had hit

server  == <<tree, redis, events>>
network == <<sockets, waiting, listening>>
readers == <<pc, got, hit>>
vars    == <<server, network, profile, root_up_to_date, readers, faults, missed>>

Nothing == [root |-> None, leaves |-> None]

Init ==
  /\ tree = [root |-> 0, leaves |-> 0, changing |-> FALSE]
  /\ redis = 0 /\ events = 0
  /\ sockets = [k \in Sockets |-> "connecting"] /\ waiting = 1 /\ listening = FALSE
  /\ profile = NoProfile /\ root_up_to_date = TRUE
  /\ pc = [s \in Readers |-> IF s = opening THEN "connect" ELSE "idle"]
  /\ got = [s \in Readers |-> Nothing] /\ hit = [s \in Readers |-> FALSE]
  /\ faults = 0 /\ missed = FALSE

Fault   == faults < MaxFaults /\ faults' = faults + 1
NoFault == UNCHANGED faults

-----------------------------------------------------------------------------
(* The server: a change of the tree, and the event about it.               *)

\* appendUsers, updateUser: the leaf is saved first ...
ChangeLeaf ==
  /\ ~ tree.changing /\ tree.leaves < MaxVersion
  /\ tree' = [tree EXCEPT !.leaves = @ + 1, !.changing = TRUE]
  /\ UNCHANGED <<redis, events, network, profile, root_up_to_date, readers, faults, missed>>

\* ... and the root last.
ChangeRoot ==
  /\ tree.changing /\ tree.root # tree.leaves
  /\ tree' = [tree EXCEPT !.root = tree.leaves]
  /\ UNCHANGED <<redis, events, network, profile, root_up_to_date, readers, faults, missed>>

\* The synchronizer, or the handler that banned somebody, publishes.
Publish ==
  /\ tree.changing /\ tree.root = tree.leaves
  /\ tree' = [tree EXCEPT !.changing = FALSE]
  /\ redis' = redis + 1
  /\ UNCHANGED <<events, network, profile, root_up_to_date, readers, faults, missed>>

\* The node that changes the tree stops, or the publication fails.
CutShort ==
  /\ tree.changing /\ Fault
  /\ tree' = [tree EXCEPT !.changing = FALSE]
  /\ missed' = TRUE
  /\ UNCHANGED <<redis, events, network, profile, root_up_to_date, readers>>

\* handleMessageSync, broadcastEvent: to the sockets that are open now.  Redis
\* does not keep what a node was not there to hear.
Broadcast ==
  /\ redis > 0 /\ redis' = redis - 1
  /\ \/ /\ sockets[updates] = "open" /\ NoFault
        /\ events' = events + 1 /\ UNCHANGED missed
     \/ /\ IF sockets[updates] = "open" THEN Fault ELSE NoFault
        /\ missed' = TRUE /\ UNCHANGED events
  /\ UNCHANGED <<tree, network, profile, root_up_to_date, readers>>

-----------------------------------------------------------------------------
(* The sockets.                                                            *)

\* waitForConnections awaits one socket after the other and attaches the next
\* listener when the previous socket has opened: a socket that opens before its
\* turn is waited for in vain.  There is no listener for an error.
AwaitedBackwards(n) == 4 - n                     \* mutant
Awaited(n)          == n

OpenSocket(k) ==
  /\ sockets[k] = "connecting"
  /\ InOrder => \A j \in 1..(k - 1) : sockets[j] # "connecting"
  /\ sockets' = [sockets EXCEPT ![k] = "open"]
  /\ waiting' = IF waiting < 4 /\ Awaited(waiting) = k THEN waiting + 1 ELSE waiting
  /\ pc' = IF waiting' = 4 /\ pc[opening] = "connect"
           THEN [pc EXCEPT ![opening] = "root"] ELSE pc
  /\ UNCHANGED <<server, listening, profile, root_up_to_date, got, hit, faults, missed>>

\* Nobody connects again.
CloseSocket(k) ==
  /\ sockets[k] # "closed" /\ Fault
  /\ sockets' = [sockets EXCEPT ![k] = "closed"]
  /\ IF k = updates THEN events' = 0 /\ missed' = (missed \/ events > 0)
                    ELSE UNCHANGED <<events, missed>>
  /\ UNCHANGED <<tree, redis, waiting, listening, profile, root_up_to_date, readers>>

IgnoreUpdate    == UNCHANGED root_up_to_date     \* mutant
SetRootObsolete == root_up_to_date' = FALSE

\* syncRlnData, on every event of the updates socket.  An event that comes before
\* init has ended has no listener.
ReceiveEvent ==
  /\ events > 0 /\ events' = events - 1
  /\ IF listening
     THEN /\ SetRootObsolete /\ missed' = FALSE
          /\ hit' = [s \in Readers |-> pc[s] # "idle"]
     ELSE missed' = TRUE /\ UNCHANGED <<root_up_to_date, hit>>
  /\ UNCHANGED <<tree, redis, network, profile, pc, got, faults>>

-----------------------------------------------------------------------------
(* Reading root and leaves: init, checkRootUpToDate.                       *)

\* The server reads the answer; an exception is caught in api.ts.
Answer(s, field, to) ==
  /\ pc' = [pc EXCEPT ![s] = to]
  /\ \/ got' = [got EXCEPT ![s][field] = tree[field]] /\ NoFault /\ UNCHANGED hit
     \/ got' = [got EXCEPT ![s][field] = None] /\ Fault /\ hit' = [hit EXCEPT ![s] = TRUE]
  /\ UNCHANGED <<server, network, profile, root_up_to_date, missed>>

ReadRoot(s)   == pc[s] = "root" /\ Answer(s, "root", "leaves")
ReadLeaves(s) == pc[s] = "leaves" /\ Answer(s, "leaves", "store")

Old(s) == got[s].root # tree.root \/ got[s].leaves # tree.leaves

Updated(p, new) == UpdateLeaves(UpdateRootHash(p, new.root), new.leaves)

\* checkRootUpToDate ends: whatever was read counts as up to date.  sendMessage
\* goes on to prove with the leaves of the profile.
Store(s) ==
  /\ pc[s] = "store" /\ s # opening
  /\ profile' = Updated(profile, got[s])
  /\ root_up_to_date' = TRUE
  /\ pc' = [pc EXCEPT ![s] = "proving"]
  /\ missed' = (missed \/ (hit[s] /\ Old(s)))
  /\ UNCHANGED <<server, network, got, hit, faults>>

\* init stores what it read in a new profile, or in the one it has loaded, and
\* only then listens for events.
StoreInit ==
  /\ pc[opening] = "store"
  /\ profile' = NewProfile("identity", got[opening].root, got[opening].leaves, generateKeyPair(0), 0)
  /\ listening' = TRUE
  /\ pc' = [pc EXCEPT ![opening] = "idle"] /\ got' = [got EXCEPT ![opening] = Nothing]
  /\ hit' = [hit EXCEPT ![opening] = FALSE]
  /\ missed' = (missed \/ (hit[opening] /\ Old(opening)))
  /\ UNCHANGED <<server, sockets, waiting, root_up_to_date, faults>>

Ready(s) == listening /\ s # opening /\ pc[s] = "idle"

NeverObsolete  == FALSE                          \* mutant
IsRootObsolete == ~ root_up_to_date

\* sendMessage.  (The key exchange manager makes its proofs without this check.)
Begin(s) ==
  /\ Ready(s)
  /\ IF IsRootObsolete
     THEN /\ pc' = [pc EXCEPT ![s] = "root"] /\ UNCHANGED got
     ELSE /\ pc' = [pc EXCEPT ![s] = "proving"]
          /\ got' = [got EXCEPT ![s] = [root |-> profile.root_hash, leaves |-> profile.leaves]]
  /\ hit' = [hit EXCEPT ![s] = FALSE]
  /\ UNCHANGED <<server, network, profile, root_up_to_date, faults, missed>>

\* recover_profile: the file holds the root and leaves of the day it was made.
Recover(s) ==
  /\ Ready(s)
  /\ \E old \in 0..tree.leaves : profile' = Updated(profile, [root |-> old, leaves |-> old])
  /\ SetRootObsolete
  /\ pc' = [pc EXCEPT ![s] = "root"] /\ hit' = [hit EXCEPT ![s] = FALSE]
  /\ UNCHANGED <<server, network, got, faults, missed>>

\* The proof is made, the message sealed and handed to the socket.
SendMessage(s) ==
  /\ pc[s] = "proving"
  /\ pc' = [pc EXCEPT ![s] = "idle"] /\ got' = [got EXCEPT ![s] = Nothing]
  /\ hit' = [hit EXCEPT ![s] = FALSE]
  /\ UNCHANGED <<server, network, profile, root_up_to_date, faults, missed>>

-----------------------------------------------------------------------------
(* Edits of the profile: the username and the trusted contacts.            *)

Edit(p) ==
  /\ profile' = p
  /\ UNCHANGED <<server, network, root_up_to_date, readers, faults, missed>>

ChangeUsername(n) == Edit(UpdateUsername(profile, n))
AddContact(n, k)  == CanInsertContact(profile, n, k) /\ Edit(InsertContact(profile, n, k))
ChangeContact(old, new, k) ==
  CanUpdateContact(profile, old, new, k) /\ Edit(UpdateContact(profile, old, new, k))
RemoveContact(n)  == CanDeleteContact(profile, n) /\ Edit(DeleteContact(profile, n))

Edits ==
  /\ listening
  /\ \/ \E n \in Usernames : ChangeUsername(n)
     \/ \E n \in Names : \/ RemoveContact(n)
                         \/ \E k \in Keys : \/ AddContact(n, k)
                                            \/ \E m \in Names : ChangeContact(m, n, k)

Reading(s) == ReadRoot(s) \/ ReadLeaves(s)

Next ==
  \/ ChangeLeaf \/ ChangeRoot \/ Publish \/ CutShort \/ Broadcast
  \/ \E k \in Sockets : OpenSocket(k) \/ CloseSocket(k)
  \/ ReceiveEvent \/ StoreInit
  \/ \E s \in Readers : Reading(s) \/ Store(s) \/ Begin(s) \/ Recover(s) \/ SendMessage(s)
  \/ Edits

Spec == Init /\ [][Next]_vars

\* Sockets open unless the connection fails, and requests are answered.
FairSpec ==
  /\ Spec
  /\ \A k \in Sockets : WF_vars(OpenSocket(k))
  /\ WF_vars(Reading(opening)) /\ WF_vars(StoreInit)

-----------------------------------------------------------------------------
(* Properties.                                                             *)

Versions == 0..MaxVersion
Answers  == Versions \cup {None}

\* Types; what the profile and the readers hold was in the tree at some time;
\* no public key belongs to two contacts.
TypeOK ==
  /\ tree \in [root : Versions, leaves : Versions, changing : BOOLEAN]
  /\ redis \in Nat /\ events \in Nat /\ faults \in 0..MaxFaults
  /\ sockets \in [Sockets -> {"connecting", "open", "closed"}] /\ waiting \in 1..4
  /\ {listening, root_up_to_date, missed} \subseteq BOOLEAN
  /\ pc \in [Readers -> {"connect", "root", "leaves", "store", "proving", "idle"}]
  /\ got \in [Readers -> [root : Answers, leaves : Answers]] /\ hit \in [Readers -> BOOLEAN]
  /\ listening =>
       /\ ValidFormat(profile) /\ profile.root_hash \in Answers /\ profile.leaves \in Answers
       /\ \A m, n \in DOMAIN profile.contacts :
            profile.contacts[m] = profile.contacts[n] => m = n

\* A TREE_UPDATE has been sent, or the change it is about has not ended.
Coming == tree.changing \/ redis > 0 \/ events > 0

Outdated(root, leaves) == root # tree.root \/ leaves # tree.leaves

\* "updating the tree root and auth path in case it becomes obsolete": when the
\* profile is not that of the tree, the client knows (root_up_to_date is false),
\* or an update is on its way, or one was missed.  That is what a second
\* refresh, a change between the two requests, an event during init or a
\* recovered profile must not break.
NoticeOrCurrent ==
  listening /\ Outdated(profile.root_hash, profile.leaves)
    => ~ root_up_to_date \/ Coming \/ missed

\* A message is proved for the present leaves, unless an update has come since
\* the proof was begun, is on its way, or was missed (generateProof).
ProofsCurrent ==
  \A s \in Senders :
    pc[s] = "proving" /\ Outdated(got[s].root, got[s].leaves) => hit[s] \/ Coming \/ missed

\* init ends if no connection or request fails and the sockets open in order.
InitEnds == <>(listening \/ faults > 0)
=============================================================================
