--------------------------- MODULE MessageHandler ---------------------------
(***************************************************************************)
(* services/message_handler_service.ts with the services it awaits:        *)
(* request_stats.service.ts, user.service.ts (banUser, updateUser) and the *)
(* statics of their collections.  The web socket server starts one         *)
(* handler per frame and does not wait for it, so handlers interleave at   *)
(* every await; a delivery is one frame and its handler, and pc[d] is the  *)
(* database call or the publication the handler performs next.             *)
(*                                                                         *)
(* The members were synchronised before the socket server was created      *)
(* (create_server.ts), and no member is appended while this module runs.   *)
(***************************************************************************)
EXTENDS MerkleTree

CONSTANTS
  Deliveries,     \* frames that may reach the server
  Members,        \* identity commitments in the order of their leaves
  SpamThreshold,  \* config.spamThreshold
  AllowedDelay,   \* config.epochAllowedDelayThreshold, in epochs of 10 s
  MaxEpoch,       \* bound: the last epoch of the clock
  MaxInFlight,    \* bound: handlers running at the same time, on all nodes
  MaxRedelivered, \* bound: frames that repeat an earlier frame
  MaxKilled       \* bound: handlers ended by a crash or a database error

Users  == {Members[i] : i \in DOMAIN Members}
Epochs == 0..MaxEpoch

ASSUME HandlerAssumption ==
  /\ IsFiniteSet(Deliveries)
  /\ Members \in Seq(Users) /\ Len(Members) \in 1..Capacity /\ Zero \notin Users
  /\ SpamThreshold \in Nat /\ AllowedDelay \in Nat /\ MaxEpoch \in Nat
  /\ MaxInFlight \in Nat \ {0} /\ MaxRedelivered \in Nat /\ MaxKilled \in Nat

VARIABLES
  now,       \* the clock, rounded down to 10 s
  msg,       \* msg[d]: the RLN message of the frame
  view,      \* view[d]: the Merkle root its proof was made for
  pc,        \* pc[d]: where the handler of d stands
  held,      \* held[d]: the tree document the handler holds, as [pos, hash]
  tree,      \* collection MerkleTreeNode
  banned,    \* collection BannedUser, as [idCommitment, leafIndex]
  stats,     \* collection RequestStats: the deliveries that wrote a row
  messages,  \* collection Message: the deliveries that wrote a row
  broadcast, \* deliveries whose message was published to the other users
  announced  \* users whose ban was published as TREE_UPDATE

vars == <<now, msg, view, pc, held, tree, banned, stats, messages, broadcast, announced>>
treeVars == <<held, tree, banned, announced>>
dbVars   == <<stats, messages, broadcast>>
frameVars == <<now, msg, view>>

\* A proof fixes the sender's nullifier for the epoch and one point of the
\* line through the sender's secret: x_share is a hash of a random signal, so
\* the delivery that carried a signal first can stand for it.
Message   == [user : Users, epoch : Epochs, x : Deliveries]
NoMessage == [user |-> Members[1], epoch |-> 0]

Running == {"duplicate?", "root", "spam?", "shares", "banFind", "banSave",
            "zeroLeaf", "climb", "announce", "persist", "stats", "broadcast"}
Final   == {"badEpoch", "isDuplicate", "badProof", "noSecret", "banFailed",
            "banDone", "accepted", "killed"}

Active == {d \in Deliveries : pc[d] \in Running}
Sent   == {d \in Deliveries : pc[d] # "unsent"}
From(S, u, e) == {d \in S : msg[d].user = u /\ msg[d].epoch = e}

\* getSharesForEpochForUser, isSpamRequest: the rows with the message's epoch
\* and nullifier.  An aggregation without a match returns no count at all, so
\* a threshold of 0 acts as 1.
RowsOfAnyEpoch(d) == {r \in stats : msg[r].user = msg[d].user}         \* mutant
RowsLike(d) == From(stats, msg[d].user, msg[d].epoch)

IsSpamOneLate(d) == Cardinality(RowsLike(d)) > SpamThreshold            \* mutant
IsSpam(d) == LET n == Cardinality(RowsLike(d)) IN n # 0 /\ n >= SpamThreshold

Holding(p, h) == [pos |-> p, hash |-> h]

MembersTree ==
  LET t[i \in 0..Len(Members)] ==
        IF i = 0 THEN EmptyTree ELSE AppendLeaf(t[i - 1], Members[i], <<"group", i>>)
  IN  t[Len(Members)]

Init ==
  /\ now = 0
  /\ msg = [d \in Deliveries |-> NoMessage]
  /\ view = [d \in Deliveries |-> Zero]
  /\ pc = [d \in Deliveries |-> "unsent"]
  /\ held = [d \in Deliveries |-> Holding(<<0, 0>>, Zero)]
  /\ tree = MembersTree
  /\ banned = {} /\ stats = {} /\ messages = {} /\ broadcast = {} /\ announced = {}

Goto(d, l) == pc' = [pc EXCEPT ![d] = l]

-----------------------------------------------------------------------------
(* The environment: the clock, the clients and the web socket.             *)

Tick ==
  /\ now < MaxEpoch
  /\ now' = now + 1
  /\ UNCHANGED <<msg, view, pc, treeVars, dbVars>>

\* A client proves its membership with the leaves the server returned to it,
\* in the epoch of its clock, for a fresh random signal.
Send(d, u) ==
  /\ pc[d] = "unsent"
  /\ u \in LeafHashes(tree)
  /\ msg' = [msg EXCEPT ![d] = [user |-> u, epoch |-> now, x |-> d]]
  /\ view' = [view EXCEPT ![d] = ReferenceRoot(tree)]
  /\ Goto(d, "sent")
  /\ UNCHANGED <<now, treeVars, dbVars>>

\* The frame of o reaches the server once more, as d.
Redelivered == {d \in Sent : msg[d].x # d}
Redeliver(o, d) ==
  /\ pc[d] = "unsent" /\ o \in Sent
  /\ Cardinality(Redelivered) < MaxRedelivered
  /\ msg' = [msg EXCEPT ![d] = msg[o]]
  /\ view' = [view EXCEPT ![d] = view[o]]
  /\ Goto(d, "sent")
  /\ UNCHANGED <<now, treeVars, dbVars>>

-----------------------------------------------------------------------------
(* handleChatMessage, up to the spam rule.                                 *)

\* verifyEpoch: rejects a difference of AllowedDelay or more, either way.
EpochValid(e) == now - e < AllowedDelay /\ e - now < AllowedDelay

Receive(d) ==
  /\ pc[d] = "sent"
  /\ Cardinality(Active) < MaxInFlight
  /\ Goto(d, IF EpochValid(msg[d].epoch) THEN "duplicate?" ELSE "badEpoch")
  /\ UNCHANGED <<frameVars, treeVars, dbVars>>

SkipDuplicateCheck(d) ==                                                \* mutant
  /\ pc[d] = "duplicate?"
  /\ Goto(d, "root")
  /\ UNCHANGED <<frameVars, treeVars, dbVars>>

CheckDuplicate(d) ==
  /\ pc[d] = "duplicate?"
  /\ Goto(d, IF \E r \in RowsLike(d) : msg[r].x = msg[d].x THEN "isDuplicate" ELSE "root")
  /\ UNCHANGED <<frameVars, treeVars, dbVars>>

\* getRoot, then isZkProofValid against the root that was read, which touches
\* no shared state: the proof holds for exactly one root.
CheckProof(d) ==
  /\ pc[d] = "root"
  /\ \E r \in Roots(tree) :
       Goto(d, IF view[d] = tree[r].hash THEN "spam?" ELSE "badProof")
  /\ UNCHANGED <<frameVars, treeVars, dbVars>>

CheckSpam(d) ==
  /\ pc[d] = "spam?"
  /\ Goto(d, IF IsSpam(d) THEN "shares" ELSE "persist")
  /\ UNCHANGED <<frameVars, treeVars, dbVars>>

-----------------------------------------------------------------------------
(* The sender broke the spam rule: recover its secret, ban it, remove it.  *)

\* getUserFromShares uses two shares: two rows, in no specified order, or the
\* only row and the message itself.  Two shares with the same x do not define
\* a line and the recovery throws.
Shares(d) ==
  LET rows == RowsLike(d)
  IN  IF Cardinality(rows) >= 2 THEN {p \in rows \X rows : p[1] # p[2]} ELSE rows \X {d}

RecoverSecret(d) ==
  /\ pc[d] = "shares"
  /\ \E p \in Shares(d) :
       Goto(d, IF msg[p[1]].x = msg[p[2]].x THEN "noSecret" ELSE "banFind")
  /\ UNCHANGED <<frameVars, treeVars, dbVars>>

\* banUser: the leaf is looked up, then the row is saved; the unique indexes
\* of BannedUser refuse an identity or a leaf that is there already.
FindBannedLevel(d) ==            \* mutant: key.level read instead of key.index
  LET u == msg[d].user
  IN  /\ pc[d] = "banFind"
      /\ IF u \in LeafHashes(tree)
         THEN Goto(d, "banSave") /\ held' = [held EXCEPT ![d] = Holding(<<0, 0>>, u)]
         ELSE Goto(d, "banFailed") /\ UNCHANGED held
      /\ UNCHANGED <<frameVars, tree, banned, announced, dbVars>>

FindBanned(d) ==
  LET u == msg[d].user
  IN  /\ pc[d] = "banFind"
      /\ IF u \in LeafHashes(tree)
         THEN Goto(d, "banSave") /\ held' = [held EXCEPT ![d] = Holding(FindLeafByHash(tree, u), u)]
         ELSE Goto(d, "banFailed") /\ UNCHANGED held
      /\ UNCHANGED <<frameVars, tree, banned, announced, dbVars>>

ForgetBanned(d) ==                                 \* mutant: save not awaited
  /\ pc[d] = "banSave"
  /\ Goto(d, "zeroLeaf")
  /\ UNCHANGED <<frameVars, treeVars, dbVars>>

SaveBanned(d) ==
  LET row == [idCommitment |-> msg[d].user, leafIndex |-> held[d].pos[2]]
      clash == \E b \in banned : b.idCommitment = row.idCommitment \/ b.leafIndex = row.leafIndex
  IN  /\ pc[d] = "banSave"
      /\ Goto(d, IF clash THEN "banFailed" ELSE "zeroLeaf")
      /\ banned' = IF clash THEN banned ELSE banned \cup {row}
      /\ UNCHANGED <<frameVars, held, tree, announced, dbVars>>

\* updateUser: the first leaf with the user's commitment is set to zero ...
WroteLeafOnly(d, p, h) ==                               \* mutant: no climb
  /\ tree' = SetHash(tree, p, h)
  /\ held' = [held EXCEPT ![d] = Holding(p, h)]
  /\ Goto(d, "announce")

Wrote(d, p, h) ==
  /\ tree' = SetHash(tree, p, h)
  /\ held' = [held EXCEPT ![d] = Holding(p, h)]
  /\ Goto(d, IF tree[p].parent THEN "climb" ELSE "announce")

ZeroLeaf(d) ==
  /\ pc[d] = "zeroLeaf"
  /\ IF msg[d].user \in LeafHashes(tree)
     THEN Wrote(d, FindLeafByHash(tree, msg[d].user), Zero)
     ELSE Goto(d, "banFailed") /\ UNCHANGED <<held, tree>>
  /\ UNCHANGED <<frameVars, banned, announced, dbVars>>

\* ... and each round of the loop saves a new hash in the parent, computed from
\* the hash this handler wrote last and the sibling hash stored in that node.
\* Nothing in this module writes a sibling hash, so the read of the parent and
\* its save are one step.
Climb(d) ==
  LET p == held[d].pos
      node == [tree[p] EXCEPT !.hash = held[d].hash]
  IN  /\ pc[d] = "climb"
      /\ Wrote(d, ParentOf(p), ParentHash(node, p[2]))
      /\ UNCHANGED <<frameVars, banned, announced, dbVars>>

\* publish(TREE_UPDATE), then the handler throws.
AnnounceLeaf(d) ==                                  \* mutant: wrong payload
  /\ pc[d] = "announce"
  /\ announced' = announced \cup {held[d].pos}
  /\ Goto(d, "banDone")
  /\ UNCHANGED <<frameVars, held, tree, banned, dbVars>>

Announce(d) ==
  /\ pc[d] = "announce"
  /\ announced' = announced \cup {msg[d].user}
  /\ Goto(d, "banDone")
  /\ UNCHANGED <<frameVars, held, tree, banned, dbVars>>

-----------------------------------------------------------------------------
(* The message is accepted.                                                *)

PersistUncounted(d) ==                       \* mutant: saveMessage left out
  /\ pc[d] = "persist"
  /\ messages' = messages \cup {d}
  /\ Goto(d, "broadcast")
  /\ UNCHANGED <<frameVars, treeVars, stats, broadcast>>

Persist(d) ==
  /\ pc[d] = "persist"
  /\ messages' = messages \cup {d}
  /\ Goto(d, "stats")
  /\ UNCHANGED <<frameVars, treeVars, stats, broadcast>>

SaveStats(d) ==
  /\ pc[d] = "stats"
  /\ stats' = stats \cup {d}
  /\ Goto(d, "broadcast")
  /\ UNCHANGED <<frameVars, treeVars, messages, broadcast>>

Broadcast(d) ==
  /\ pc[d] = "broadcast"
  /\ broadcast' = broadcast \cup {d}
  /\ Goto(d, "accepted")
  /\ UNCHANGED <<frameVars, treeVars, stats, messages>>

-----------------------------------------------------------------------------
\* A node crashes with the handlers it runs, or a database call of one handler
\* fails and the handler throws: what was written stays, the rest never happens.
Killed == {d \in Deliveries : pc[d] = "killed"}
Kill(S) ==
  /\ S # {} /\ Cardinality(Killed) + Cardinality(S) <= MaxKilled
  /\ pc' = [d \in Deliveries |-> IF d \in S THEN "killed" ELSE pc[d]]
  /\ UNCHANGED <<frameVars, treeVars, dbVars>>

Step(d) ==
  \/ CheckDuplicate(d) \/ CheckProof(d) \/ CheckSpam(d)
  \/ RecoverSecret(d) \/ FindBanned(d) \/ SaveBanned(d)
  \/ ZeroLeaf(d) \/ Climb(d) \/ Announce(d)
  \/ Persist(d) \/ SaveStats(d) \/ Broadcast(d)

Next ==
  \/ Tick
  \/ \E d \in Deliveries :
       \/ \E u \in Users : Send(d, u)
       \/ \E o \in Deliveries : Redeliver(o, d)
       \/ Receive(d)
       \/ Step(d)
  \/ \E S \in SUBSET Active : Kill(S)

\* The event loop resumes every handler whose database call has returned.
Fairness == \A d \in Deliveries : WF_vars(Step(d))

Spec     == Init /\ [][Next]_vars
FairSpec == Spec /\ Fairness

-----------------------------------------------------------------------------
(* Properties.                                                             *)

TypeOK ==
  /\ now \in Epochs
  /\ pc \in [Deliveries -> Running \cup Final \cup {"unsent", "sent"}]
  /\ DOMAIN msg = Deliveries
  /\ \A d \in Sent : msg[d] \in Message
  /\ DOMAIN view = Deliveries
  /\ DOMAIN held = Deliveries
  /\ \A b \in banned : b.idCommitment \in Users
  /\ stats \subseteq Sent /\ messages \subseteq Sent /\ broadcast \subseteq Sent
  /\ announced \subseteq Users

\* isSpam takes a threshold of 0 for 1.
EffectiveThreshold == IF SpamThreshold = 0 THEN 1 ELSE SpamThreshold
Limit == EffectiveThreshold + MaxInFlight - 1

BannedIds == {b.idCommitment : b \in banned}

\* The spam rule is read (areSpamRulesViolated) and the row it counts is written
\* later (saveMessage), so handlers of one sender can pass it together.  They
\* can exceed the threshold by the number of other handlers running, never by
\* more: neither in the counted rows, nor in the history, apart from messages
\* whose handler was killed before it wrote its row.
SpamBound ==
  \A u \in Users, e \in Epochs :
    Cardinality(From(stats \cup (messages \ Killed), u, e)) <= Limit

\* "The identity of a user is revealed only when spamming": whoever is in
\* BannedUser sent more than SpamThreshold frames in one epoch.
RevealedOnlyIfSpamming ==
  \A u \in BannedIds : \E e \in Epochs :
    Cardinality(From(Sent, u, e)) > SpamThreshold

\* When banUser or updateUser throws, the sender is banned all the same: the
\* other handler that got there first has written the row.
FailedBanMeansBanned ==
  \A d \in Deliveries : pc[d] = "banFailed" => msg[d].user \in BannedIds

\* Between bans, the stored root is the root clients compute from the leaves,
\* as long as one leaf was removed at most and no removal was cut short.
Removing == {d \in Deliveries : pc[d] \in {"zeroLeaf", "climb"}}
RootRight == \A r \in Roots(tree) : tree[r].hash = ReferenceRoot(tree)
RootRightAfterFirstBan ==
  (Removing = {} /\ Killed = {} /\ Cardinality(BannedIds) <= 1) => RootRight

\* Once TREE_UPDATE was published for a banned user, no frame of that user gets
\* past the proof check any more, not even one whose proof was made before
\* (with one ban; a second one brings an old root back).
RemovedStaysOut ==
  [][\A d \in Deliveries :
       (pc[d] = "root" /\ pc'[d] = "spam?" /\ Cardinality(BannedIds) <= 1)
         => msg[d].user \notin announced]_vars

\* The duplicate check reads rows that are written later, too: a frame and its
\* copies are counted once when handlers run one after the other, and never
\* more often than handlers can overlap.
SignalBound ==
  \A x \in Deliveries : Cardinality({r \in stats : msg[r].x = x}) <= MaxInFlight

\* "Members will be removed if they spam": whoever is in BannedUser leaves the
\* tree at last.
BannedLeavesTree == \A u \in Users : u \in BannedIds ~> u \notin LeafHashes(tree)

\* And the rule is enforced to its end: a handler that finds the spam rule
\* broken makes the sender end up banned, out of the tree, and announced.
SpammerIsRemoved ==
  \A d \in Deliveries :
    pc[d] = "shares" ~> /\ msg[d].user \in BannedIds
                        /\ msg[d].user \notin LeafHashes(tree)
                        /\ msg[d].user \in announced

\* The handlers implement the rate limit promised by SpamPolicy.
Row(d)  == [id |-> d, sender |-> msg[d].user, period |-> msg[d].epoch]
Counted == {Row(d) : d \in stats}

Policy == INSTANCE SpamPolicy WITH
  Requests  <- Deliveries,
  Senders   <- Users,
  Periods   <- Epochs,
  Threshold <- EffectiveThreshold,
  Budget    <- Limit,
  counted   <- Counted,
  delivered <- broadcast,
  expelled  <- BannedIds

ImplementsPolicy == Policy!Spec
=============================================================================
