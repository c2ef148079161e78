------------------------ MODULE MessageHandlerProofs ------------------------
(***************************************************************************)
(* What the message handler guarantees for every number of deliveries, of  *)
(* members and of concurrent handlers, and for every spam threshold.       *)
(***************************************************************************)
EXTENDS MessageHandler, MerkleTreeProofs

\* No step of a handler or of its environment breaks the type invariant.
LEMMA TypeStep == TypeOK /\ [Next]_vars => TypeOK'
<1> SUFFICES ASSUME TypeOK, [Next]_vars PROVE TypeOK'
  OBVIOUS
<1> USE DEF TypeOK, Sent, Goto, frameVars, treeVars, dbVars
<1>1. CASE Tick
  BY <1>1, HandlerAssumption DEF Tick, Epochs
<1>2. ASSUME NEW d \in Deliveries, NEW u \in Users, Send(d, u) PROVE TypeOK'
  BY <1>2 DEF Send, Message
<1>3. ASSUME NEW d \in Deliveries, NEW o \in Deliveries, Redeliver(o, d) PROVE TypeOK'
  BY <1>3 DEF Redeliver
<1>4. ASSUME NEW d \in Deliveries, Receive(d) PROVE TypeOK'
  BY <1>4 DEF Receive, Running, Final
<1>5. ASSUME NEW d \in Deliveries, Step(d) PROVE TypeOK'
  <2>1. CASE CheckDuplicate(d)
    BY <2>1 DEF CheckDuplicate, Running, Final
  <2>2. CASE CheckProof(d)
    BY <2>2 DEF CheckProof, Running, Final
  <2>3. CASE CheckSpam(d)
    BY <2>3 DEF CheckSpam, Running, Final
  <2>4. CASE RecoverSecret(d)
    BY <2>4 DEF RecoverSecret, Running, Final
  <2>5. CASE FindBanned(d)
    BY <2>5 DEF FindBanned, Running, Final
  <2>6. CASE SaveBanned(d)
    BY <2>6 DEF SaveBanned, Running, Final, Message
  <2>7. CASE ZeroLeaf(d)
    BY <2>7 DEF ZeroLeaf, Wrote, Running, Final
  <2>8. CASE Climb(d)
    BY <2>8 DEF Climb, Wrote, Running, Final
  <2>9. CASE Announce(d)
    BY <2>9 DEF Announce, Running, Final, Message
  <2>10. CASE Persist(d)
    BY <2>10 DEF Persist, Running, Final
  <2>11. CASE SaveStats(d)
    BY <2>11 DEF SaveStats, Running, Final
  <2>12. CASE Broadcast(d)
    BY <2>12 DEF Broadcast, Running, Final
  <2> QED
    BY <1>5, <2>1, <2>2, <2>3, <2>4, <2>5, <2>6, <2>7, <2>8, <2>9, <2>10, <2>11, <2>12
    DEF Step
<1>6. ASSUME NEW S \in SUBSET Active, Kill(S) PROVE TypeOK'
  BY <1>6 DEF Kill, Active, Running, Final
<1>7. CASE UNCHANGED vars
  BY <1>7 DEF vars
<1> QED
  BY <1>1, <1>2, <1>3, <1>4, <1>5, <1>6, <1>7 DEF Next

\* Every variable keeps its type, and every row names a frame that was sent:
\* the type invariant of message_handler_service.ts and its collections.
THEOREM TypeCorrect == Spec => []TypeOK
<1>1. Init => TypeOK
  BY HandlerAssumption DEF Init, TypeOK, Epochs, Sent, NoMessage
<1> QED
  BY <1>1, TypeStep, PTL DEF Spec

-----------------------------------------------------------------------------
(* The inductive invariant.                                                *)

\* Where a handler can stand once it has written a row, and which rows it has
\* written by the time it stands there.
Bookkeeping ==
  /\ \A d \in stats : pc[d] \in {"broadcast", "accepted", "killed"}
  /\ \A d \in messages : pc[d] \in {"stats", "broadcast", "accepted", "killed"}
  /\ \A d \in Deliveries : pc[d] \in {"broadcast", "accepted"} => d \in stats
  /\ broadcast \subseteq stats

\* Deliveries that were counted or have passed the spam rule and will be.
Passed   == {d \in Deliveries : pc[d] \in {"persist", "stats"}}
Admitted == stats \cup Passed

AdmitBound ==
  \A u \in Users, e \in Epochs : Cardinality(From(Admitted, u, e)) <= Limit

InFlightBound == Cardinality(Active) <= MaxInFlight

\* A handler that recovers a secret has seen the threshold reached.
SpamSeen ==
  \A d \in Deliveries : pc[d] \in {"shares", "banFind", "banSave"} =>
    Cardinality(RowsLike(d)) >= EffectiveThreshold

\* A signal is that of the frame that carried it first, and copies are equal.
CopiesEqual == \A d \in Sent : msg[d].x \in Sent /\ msg[msg[d].x] = msg[d]

\* Deliveries that were counted or have passed the duplicate check.
Fresh == stats \cup {d \in Deliveries : pc[d] \in {"root", "spam?", "persist", "stats"}}

FreshBound ==
  \A x \in Deliveries : Cardinality({d \in Fresh : msg[d].x = x}) <= MaxInFlight

IndInv ==
  /\ TypeOK /\ Bookkeeping /\ InFlightBound /\ AdmitBound
  /\ SpamSeen /\ CopiesEqual /\ FreshBound /\ RevealedOnlyIfSpamming

-----------------------------------------------------------------------------
(* What one step can do to the sets the invariant counts.                  *)

SpamLabels == {"shares", "banFind", "banSave"}

MsgEffect   == Sent \subseteq Sent' /\ \A d \in Sent : msg'[d] = msg[d]
StatsEffect == stats \subseteq stats'
AdmitEffect ==
  \/ Admitted' \subseteq Admitted
  \/ \E d \in Active : ~ IsSpam(d) /\ stats' = stats /\ Admitted' = Admitted \cup {d}
ActiveEffect ==
  \/ Active' \subseteq Active
  \/ \E d \in Deliveries : Cardinality(Active) < MaxInFlight /\ Active' \subseteq Active \cup {d}
FreshEffect ==
  \/ Fresh' \subseteq Fresh
  \/ \E d \in Active : /\ \A r \in RowsLike(d) : msg[r].x # msg[d].x
                       /\ Fresh' = Fresh \cup {d}
BanEffect ==
  \/ BannedIds' = BannedIds
  \/ \E d \in Deliveries : pc[d] = "banSave" /\ BannedIds' = BannedIds \cup {msg[d].user}
SpamEffect ==
  \A d \in Deliveries : pc'[d] \in SpamLabels =>
    pc[d] \in SpamLabels \/ (pc[d] = "spam?" /\ IsSpam(d))

Effect ==
  /\ MsgEffect /\ StatsEffect /\ AdmitEffect /\ ActiveEffect
  /\ FreshEffect /\ BanEffect /\ SpamEffect /\ Bookkeeping'

\* Every step, of the environment, of a handler or of a crash, has this effect.
LEMMA StepEffect ==
  ASSUME TypeOK, Bookkeeping, [Next]_vars
  PROVE  Effect
<1> USE DEF TypeOK, Bookkeeping, Effect, MsgEffect, StatsEffect, AdmitEffect, ActiveEffect,
            FreshEffect, BanEffect, SpamEffect, SpamLabels, Sent, Active, Admitted, Passed,
            Fresh, BannedIds, Running, Goto, frameVars, treeVars, dbVars
<1>1. CASE Tick
  BY <1>1 DEF Tick
<1>2. ASSUME NEW d \in Deliveries, NEW u \in Users, Send(d, u) PROVE Effect
  BY <1>2 DEF Send
<1>3. ASSUME NEW d \in Deliveries, NEW o \in Deliveries, Redeliver(o, d) PROVE Effect
  BY <1>3 DEF Redeliver
<1>4. ASSUME NEW d \in Deliveries, Receive(d) PROVE Effect
  BY <1>4 DEF Receive
<1>5. ASSUME NEW d \in Deliveries, Step(d) PROVE Effect
  <2>1. CASE CheckDuplicate(d)
    BY <2>1 DEF CheckDuplicate
  <2>2. CASE CheckProof(d)
    BY <2>2 DEF CheckProof
  <2>3. CASE CheckSpam(d)
    BY <2>3 DEF CheckSpam
  <2>4. CASE RecoverSecret(d)
    BY <2>4 DEF RecoverSecret
  <2>5. CASE FindBanned(d)
    BY <2>5 DEF FindBanned
  <2>6. CASE SaveBanned(d)
    BY <2>6 DEF SaveBanned
  <2>7. CASE ZeroLeaf(d)
    BY <2>7 DEF ZeroLeaf, Wrote
  <2>8. CASE Climb(d)
    BY <2>8 DEF Climb, Wrote
  <2>9. CASE Announce(d)
    BY <2>9 DEF Announce
  <2>10. CASE Persist(d)
    BY <2>10 DEF Persist
  <2>11. CASE SaveStats(d)
    BY <2>11 DEF SaveStats
  <2>12. CASE Broadcast(d)
    BY <2>12 DEF Broadcast
  <2> QED
    BY <1>5, <2>1, <2>2, <2>3, <2>4, <2>5, <2>6, <2>7, <2>8, <2>9, <2>10, <2>11, <2>12
    DEF Step
<1>6. ASSUME NEW S \in SUBSET Active, Kill(S) PROVE Effect
  BY <1>6 DEF Kill
<1>7. CASE UNCHANGED vars
  BY <1>7 DEF vars, IsSpam, RowsLike, From
<1> QED
  BY <1>1, <1>2, <1>3, <1>4, <1>5, <1>6, <1>7 DEF Next

-----------------------------------------------------------------------------
(* Counting.                                                               *)

\* Rows of one sender and epoch, and of the deliveries that were sent.
LEMMA FromFinite ==
  ASSUME NEW S \in SUBSET Deliveries, NEW u, NEW e
  PROVE  /\ IsFiniteSet(S) /\ From(S, u, e) \subseteq S /\ IsFiniteSet(From(S, u, e))
         /\ Cardinality(From(S, u, e)) \in Nat /\ Cardinality(S) \in Nat
<1>1. IsFiniteSet(S)
  BY HandlerAssumption, FS_Subset
<1>2. From(S, u, e) \in SUBSET S
  BY DEF From
<1> QED
  BY <1>1, <1>2, FS_Subset, FS_CardinalityType

\* A subset is no larger.
LEMMA CardinalityMonotone ==
  ASSUME NEW T \in SUBSET Deliveries, NEW S \in SUBSET T
  PROVE  /\ Cardinality(S) \in Nat /\ Cardinality(T) \in Nat
         /\ Cardinality(S) <= Cardinality(T)
<1>1. IsFiniteSet(T)
  BY HandlerAssumption, FS_Subset
<1> QED
  BY <1>1, FS_Subset, FS_CardinalityType

\* A union is no larger than its parts together.
LEMMA CardinalityUnion ==
  ASSUME NEW S \in SUBSET Deliveries, NEW T \in SUBSET Deliveries
  PROVE  Cardinality(S \cup T) <= Cardinality(S) + Cardinality(T)
<1>1. IsFiniteSet(S) /\ IsFiniteSet(T) /\ IsFiniteSet(S \cap T)
  BY HandlerAssumption, FS_Subset
<1>2. Cardinality(S \cap T) \in Nat /\ Cardinality(S) \in Nat /\ Cardinality(T) \in Nat
  BY <1>1, FS_CardinalityType
<1>3. Cardinality(S \cup T) = Cardinality(S) + Cardinality(T) - Cardinality(S \cap T)
  BY <1>1, FS_Union
<1> QED
  BY <1>2, <1>3

\* The thresholds are numbers, and a sender that does not spam is below them.
LEMMA ThresholdFacts ==
  /\ EffectiveThreshold \in Nat \ {0}
  /\ Limit \in Nat /\ MaxInFlight \in Nat \ {0}
  /\ EffectiveThreshold >= SpamThreshold
  /\ Limit = EffectiveThreshold + MaxInFlight - 1
  BY HandlerAssumption DEF EffectiveThreshold, Limit

\* isSpamRequest compares the number of rows with the effective threshold.
LEMMA SpamRule ==
  ASSUME TypeOK, NEW d \in Deliveries
  PROVE  IF IsSpam(d) THEN Cardinality(RowsLike(d)) >= EffectiveThreshold
                      ELSE Cardinality(RowsLike(d)) < EffectiveThreshold
<1>1. Cardinality(RowsLike(d)) \in Nat
  BY FromFinite DEF RowsLike, TypeOK, Sent
<1> QED
  BY <1>1, HandlerAssumption DEF IsSpam, EffectiveThreshold

-----------------------------------------------------------------------------
(* The counts are kept by every step.                                      *)

\* Only Receive starts a handler, and it observes the bound on handlers.
LEMMA InFlightStep ==
  ASSUME TypeOK, InFlightBound, ActiveEffect
  PROVE  InFlightBound'
<1> USE DEF InFlightBound
<1>0. Active \in SUBSET Deliveries /\ Active' \in SUBSET Deliveries
  BY DEF Active
<1>1. CASE Active' \subseteq Active
  BY <1>0, <1>1, CardinalityMonotone, ThresholdFacts
<1>2. ASSUME NEW d \in Deliveries, Cardinality(Active) < MaxInFlight,
             Active' \subseteq Active \cup {d}
      PROVE  InFlightBound'
  <2>1. IsFiniteSet(Active) /\ Active \cup {d} \in SUBSET Deliveries
    BY <1>0, HandlerAssumption, FS_Subset
  <2>2. Cardinality(Active) \in Nat
    BY <2>1, FS_CardinalityType
  <2>3. Cardinality(Active \cup {d}) <= Cardinality(Active) + 1
    <3>1. Cardinality(Active \cup {d}) =
            IF d \in Active THEN Cardinality(Active) ELSE Cardinality(Active) + 1
      BY <2>1, FS_AddElement
    <3> QED
      BY <2>2, <3>1
  <2>4. Cardinality(Active') \in Nat /\ Cardinality(Active') <= Cardinality(Active \cup {d})
    BY <1>2, <2>1, CardinalityMonotone
  <2>5. Cardinality(Active \cup {d}) \in Nat
    BY <2>1, CardinalityMonotone
  <2> QED
    BY <1>2, <2>2, <2>3, <2>4, <2>5, ThresholdFacts
<1> QED
  BY <1>1, <1>2 DEF ActiveEffect

\* A handler passes the spam rule with fewer than EffectiveThreshold rows, and
\* whatever else of its sender has passed the rule without a row is in flight.
LEMMA AdmitStep ==
  ASSUME TypeOK, InFlightBound, AdmitBound, MsgEffect, AdmitEffect
  PROVE  AdmitBound'
<1> SUFFICES ASSUME NEW u \in Users, NEW e \in Epochs
             PROVE  Cardinality(From(Admitted, u, e)') <= Limit
  BY DEF AdmitBound
<1>0. /\ Admitted \subseteq Sent /\ Admitted \in SUBSET Deliveries
      /\ Active \in SUBSET Deliveries /\ stats \in SUBSET Deliveries
  BY DEF TypeOK, Admitted, Passed, Sent, Active
<1>1. CASE Admitted' \subseteq Admitted
  <2>1. From(Admitted, u, e)' \subseteq From(Admitted, u, e)
    BY <1>0, <1>1 DEF From, MsgEffect
  <2>2. From(Admitted, u, e) \in SUBSET Deliveries
    BY <1>0 DEF From
  <2>3. Cardinality(From(Admitted, u, e)) <= Limit
    BY DEF AdmitBound
  <2> QED
    BY <2>1, <2>2, <2>3, CardinalityMonotone, ThresholdFacts
<1>2. ASSUME NEW d \in Active, ~ IsSpam(d), stats' = stats, Admitted' = Admitted \cup {d}
      PROVE  Cardinality(From(Admitted, u, e)') <= Limit
  <2>0. d \in Sent /\ d \in Deliveries /\ msg'[d] = msg[d]
    BY DEF Active, Sent, Running, MsgEffect
  <2>1. CASE msg[d].user = u /\ msg[d].epoch = e
    <3>1. From(Admitted, u, e)' \subseteq RowsLike(d) \cup Active
      BY <1>0, <1>2, <2>0, <2>1 DEF From, RowsLike, Admitted, Passed, Active, Running, MsgEffect
    <3>2. RowsLike(d) \in SUBSET Deliveries
      BY <1>0 DEF RowsLike, From
    <3>3. Cardinality(RowsLike(d)) < EffectiveThreshold /\ Cardinality(Active) <= MaxInFlight
      BY <1>2, <2>0, SpamRule DEF InFlightBound
    <3>4. Cardinality(RowsLike(d) \cup Active) <= Cardinality(RowsLike(d)) + Cardinality(Active)
      BY <1>0, <3>2, CardinalityUnion
    <3>5. /\ Cardinality(From(Admitted, u, e)') <= Cardinality(RowsLike(d) \cup Active)
          /\ Cardinality(From(Admitted, u, e)') \in Nat
          /\ Cardinality(RowsLike(d) \cup Active) \in Nat
      BY <1>0, <3>1, <3>2, CardinalityMonotone
    <3>6. Cardinality(RowsLike(d)) \in Nat /\ Cardinality(Active) \in Nat
      BY <1>0, <3>2, CardinalityMonotone
    <3> QED
      BY <3>3, <3>4, <3>5, <3>6, ThresholdFacts
  <2>2. CASE ~ (msg[d].user = u /\ msg[d].epoch = e)
    <3>1. From(Admitted, u, e)' = From(Admitted, u, e)
      BY <1>0, <1>2, <2>0, <2>2 DEF From, MsgEffect
    <3> QED
      BY <3>1 DEF AdmitBound
  <2> QED
    BY <2>1, <2>2
<1> QED
  BY <1>1, <1>2 DEF AdmitEffect

\* A handler passes the duplicate check when no row has its signal, so every
\* copy of the signal that passed it without a row is in flight.
LEMMA FreshStep ==
  ASSUME TypeOK, InFlightBound, CopiesEqual, FreshBound, MsgEffect, FreshEffect
  PROVE  FreshBound'
<1> DEFINE Copies(S, x) == {d \in S : msg[d].x = x}
<1> SUFFICES ASSUME NEW x \in Deliveries
             PROVE  Cardinality(Copies(Fresh, x)') <= MaxInFlight
  BY DEF FreshBound
<1>0. /\ Fresh \subseteq Sent /\ Fresh \in SUBSET Deliveries
      /\ Active \in SUBSET Deliveries /\ stats \subseteq Sent
  BY DEF TypeOK, Fresh, Sent, Active
<1>1. CASE Fresh' \subseteq Fresh
  <2>1. Copies(Fresh, x)' \subseteq Copies(Fresh, x)
    BY <1>0, <1>1 DEF MsgEffect
  <2>2. Copies(Fresh, x) \in SUBSET Deliveries
    BY <1>0
  <2>3. Cardinality(Copies(Fresh, x)) <= MaxInFlight
    BY DEF FreshBound
  <2> QED
    BY <2>1, <2>2, <2>3, CardinalityMonotone, ThresholdFacts
<1>2. ASSUME NEW d \in Active, \A r \in RowsLike(d) : msg[r].x # msg[d].x,
             Fresh' = Fresh \cup {d}
      PROVE  Cardinality(Copies(Fresh, x)') <= MaxInFlight
  <2>0. d \in Sent /\ d \in Deliveries /\ msg'[d] = msg[d]
    BY DEF Active, Sent, Running, MsgEffect
  <2>1. CASE msg[d].x = x
    <3>1. \A r \in stats : msg[r].x # x
      <4>1. SUFFICES ASSUME NEW r \in stats, msg[r].x = x PROVE FALSE
        OBVIOUS
      <4>2. msg[r] = msg[d]
        BY <1>0, <2>0, <2>1, <4>1 DEF CopiesEqual
      <4>3. r \in RowsLike(d)
        BY <4>2 DEF RowsLike, From
      <4> QED
        BY <1>2, <4>2, <4>3
    <3>2. Copies(Fresh, x)' \subseteq Active
      BY <1>0, <1>2, <2>0, <3>1 DEF Fresh, Active, Running, MsgEffect
    <3> QED
      BY <1>0, <3>2, CardinalityMonotone, ThresholdFacts DEF InFlightBound
  <2>2. CASE msg[d].x # x
    <3>1. Copies(Fresh, x)' = Copies(Fresh, x)
      BY <1>0, <1>2, <2>0, <2>2 DEF MsgEffect
    <3> QED
      BY <3>1 DEF FreshBound
  <2> QED
    BY <2>1, <2>2
<1> QED
  BY <1>1, <1>2 DEF FreshEffect

\* Rows are only added, so what a handler has seen of them stays true.
LEMMA SpamSeenStep ==
  ASSUME TypeOK, SpamSeen, MsgEffect, StatsEffect, SpamEffect, TypeOK'
  PROVE  SpamSeen'
<1> SUFFICES ASSUME NEW d \in Deliveries, pc'[d] \in SpamLabels
             PROVE  Cardinality(RowsLike(d)') >= EffectiveThreshold
  BY DEF SpamSeen, SpamLabels
<1>1. pc[d] \in SpamLabels \/ (pc[d] = "spam?" /\ IsSpam(d))
  BY DEF SpamEffect
<1>2. Cardinality(RowsLike(d)) >= EffectiveThreshold
  BY <1>1, SpamRule DEF SpamSeen, SpamLabels
<1>3. d \in Sent
  BY <1>1 DEF Sent, SpamLabels
<1>4. RowsLike(d) \subseteq RowsLike(d)' /\ RowsLike(d)' \in SUBSET Deliveries
  BY <1>3 DEF RowsLike, From, MsgEffect, StatsEffect, TypeOK, Sent
<1> QED
  BY <1>2, <1>4, CardinalityMonotone, ThresholdFacts

\* Nothing but Send and Redeliver puts a message into a frame.
LEMMA CopiesStep ==
  ASSUME TypeOK, CopiesEqual, [Next]_vars
  PROVE  CopiesEqual'
<1> USE DEF TypeOK, CopiesEqual, Sent, Goto, frameVars, treeVars, dbVars
<1>1. CASE Tick
  BY <1>1 DEF Tick
<1>2. ASSUME NEW d \in Deliveries, NEW u \in Users, Send(d, u) PROVE CopiesEqual'
  BY <1>2 DEF Send
<1>3. ASSUME NEW d \in Deliveries, NEW o \in Deliveries, Redeliver(o, d) PROVE CopiesEqual'
  BY <1>3 DEF Redeliver
<1>4. ASSUME NEW d \in Deliveries, Receive(d) \/ Step(d) PROVE CopiesEqual'
  <2>1. msg' = msg
    BY <1>4 DEF Receive, Step, CheckDuplicate, CheckProof, CheckSpam, RecoverSecret, FindBanned,
                SaveBanned, ZeroLeaf, Climb, Announce, Persist, SaveStats, Broadcast
  <2>2. Sent' = Sent
    <3>1. pc[d] # "unsent"
      BY <1>4 DEF Receive, Step, CheckDuplicate, CheckProof, CheckSpam, RecoverSecret,
                  FindBanned, SaveBanned, ZeroLeaf, Climb, Announce, Persist, SaveStats, Broadcast
    <3>2. \E l : l # "unsent" /\ Goto(d, l)
      BY <1>4 DEF Receive, Step, CheckDuplicate, CheckProof, CheckSpam, RecoverSecret,
                  FindBanned, SaveBanned, ZeroLeaf, Climb, Wrote, Announce, Persist, SaveStats, Broadcast
    <3> QED
      BY <3>1, <3>2
  <2> QED
    BY <2>1, <2>2
<1>5. ASSUME NEW S \in SUBSET Active, Kill(S) PROVE CopiesEqual'
  BY <1>5 DEF Kill, Active, Running
<1>6. CASE UNCHANGED vars
  BY <1>6 DEF vars
<1> QED
  BY <1>1, <1>2, <1>3, <1>4, <1>5, <1>6 DEF Next

\* The handler that bans has seen the threshold reached by OTHER frames of the
\* sender's epoch, each with its row; its own frame is one more.
LEMMA RevealedStep ==
  ASSUME TypeOK, Bookkeeping, SpamSeen, RevealedOnlyIfSpamming, MsgEffect, BanEffect, TypeOK'
  PROVE  RevealedOnlyIfSpamming'
<1>1. ASSUME NEW u, NEW e \in Epochs, Cardinality(From(Sent, u, e)) > SpamThreshold
      PROVE  Cardinality(From(Sent, u, e)') > SpamThreshold
  <2>1. From(Sent, u, e) \subseteq From(Sent, u, e)' /\ From(Sent, u, e)' \in SUBSET Deliveries
    BY DEF From, MsgEffect, Sent
  <2> QED
    BY <1>1, <2>1, CardinalityMonotone, HandlerAssumption
<1>2. ASSUME NEW d \in Deliveries, pc[d] = "banSave"
      PROVE  \E e \in Epochs : Cardinality(From(Sent, msg[d].user, e)) > SpamThreshold
  <2>1. d \in Sent /\ d \notin stats /\ msg[d].epoch \in Epochs
    BY <1>2 DEF Sent, Bookkeeping, TypeOK, Message
  <2>2. RowsLike(d) \in SUBSET Deliveries /\ d \notin RowsLike(d)
    BY <2>1 DEF RowsLike, From, TypeOK, Sent
  <2>3. Cardinality(RowsLike(d)) >= EffectiveThreshold /\ Cardinality(RowsLike(d)) \in Nat
    BY <1>2, <2>2, CardinalityMonotone DEF SpamSeen
  <2>4. Cardinality(RowsLike(d) \cup {d}) = Cardinality(RowsLike(d)) + 1
    <3>1. IsFiniteSet(RowsLike(d))
      BY <2>2, HandlerAssumption, FS_Subset
    <3> QED
      BY <2>2, <3>1, FS_AddElement
  <2>5. /\ RowsLike(d) \cup {d} \subseteq From(Sent, msg[d].user, msg[d].epoch)
        /\ From(Sent, msg[d].user, msg[d].epoch) \in SUBSET Deliveries
    BY <2>1 DEF RowsLike, From, TypeOK, Sent
  <2>6. /\ Cardinality(RowsLike(d) \cup {d}) <= Cardinality(From(Sent, msg[d].user, msg[d].epoch))
        /\ Cardinality(From(Sent, msg[d].user, msg[d].epoch)) \in Nat
    BY <2>5, CardinalityMonotone
  <2>7. Cardinality(From(Sent, msg[d].user, msg[d].epoch)) > SpamThreshold
    BY <2>3, <2>4, <2>6, ThresholdFacts, HandlerAssumption
  <2> QED
    BY <2>1, <2>7
<1>3. \A u \in BannedIds' : \E e \in Epochs : Cardinality(From(Sent, u, e)) > SpamThreshold
  <2>1. CASE BannedIds' = BannedIds
    BY <2>1 DEF RevealedOnlyIfSpamming
  <2>2. CASE \E d \in Deliveries : pc[d] = "banSave" /\ BannedIds' = BannedIds \cup {msg[d].user}
    BY <1>2, <2>2 DEF RevealedOnlyIfSpamming
  <2> QED
    BY <2>1, <2>2 DEF BanEffect
<1> QED
  BY <1>1, <1>3 DEF RevealedOnlyIfSpamming

-----------------------------------------------------------------------------
(* The invariant, and what it says.                                        *)

\* A freshly started server satisfies the invariant.
LEMMA InitIndInv == Init => IndInv
<1> SUFFICES ASSUME Init PROVE IndInv
  OBVIOUS
<1> USE DEF Init
<1>1. TypeOK
  BY HandlerAssumption DEF TypeOK, Epochs, Sent, NoMessage
<1>2. Bookkeeping /\ SpamSeen /\ CopiesEqual
  BY DEF Bookkeeping, SpamSeen, CopiesEqual, Sent
<1>3. Active = {} /\ Admitted = {} /\ Fresh = {} /\ BannedIds = {}
  BY DEF Active, Running, Admitted, Passed, Fresh, BannedIds
<1>4. Cardinality({}) = 0 /\ \A u, e : From({}, u, e) = {}
  BY FS_EmptySet DEF From
<1>5. InFlightBound /\ AdmitBound /\ FreshBound
  <2>1. \A x \in Deliveries : {d \in Fresh : msg[d].x = x} = {}
    BY <1>3
  <2> QED
    BY <1>3, <1>4, <2>1, ThresholdFacts DEF InFlightBound, AdmitBound, FreshBound
<1>6. RevealedOnlyIfSpamming
  BY <1>3 DEF RevealedOnlyIfSpamming
<1> QED
  BY <1>1, <1>2, <1>5, <1>6 DEF IndInv

\* The invariant is inductive, and so it holds of every reachable state.
THEOREM Inductive == Spec => []IndInv
<1>1. IndInv /\ [Next]_vars => IndInv'
  <2> SUFFICES ASSUME IndInv, [Next]_vars PROVE IndInv'
    OBVIOUS
  <2>1. TypeOK'
    BY TypeStep DEF IndInv
  <2>2. Effect
    BY StepEffect DEF IndInv
  <2>3. InFlightBound'
    BY <2>2, InFlightStep DEF IndInv, Effect
  <2>4. AdmitBound'
    BY <2>2, AdmitStep DEF IndInv, Effect
  <2>5. SpamSeen'
    BY <2>1, <2>2, SpamSeenStep DEF IndInv, Effect
  <2>6. CopiesEqual'
    BY CopiesStep DEF IndInv
  <2>7. FreshBound'
    BY <2>2, FreshStep DEF IndInv, Effect
  <2>8. RevealedOnlyIfSpamming'
    BY <2>1, <2>2, RevealedStep DEF IndInv, Effect
  <2> QED
    BY <2>1, <2>2, <2>3, <2>4, <2>5, <2>6, <2>7, <2>8 DEF IndInv, Effect
<1> QED
  BY <1>1, InitIndInv, PTL DEF Spec

\* The rate limit: whatever the interleaving, at most EffectiveThreshold
\* messages per sender and epoch and one more per other handler in flight.
THEOREM RateLimit == Spec => []SpamBound
<1>1. IndInv => SpamBound
  <2> SUFFICES ASSUME IndInv, NEW u \in Users, NEW e \in Epochs
               PROVE  Cardinality(From(stats \cup (messages \ Killed), u, e)) <= Limit
    BY DEF SpamBound
  <2>1. stats \cup (messages \ Killed) \subseteq Admitted /\ Admitted \in SUBSET Deliveries
    BY DEF IndInv, TypeOK, Bookkeeping, Killed, Admitted, Passed, Sent
  <2>2. /\ From(stats \cup (messages \ Killed), u, e) \subseteq From(Admitted, u, e)
        /\ From(Admitted, u, e) \in SUBSET Deliveries
    BY <2>1 DEF From
  <2>3. Cardinality(From(Admitted, u, e)) <= Limit
    BY DEF IndInv, AdmitBound
  <2>4. /\ Cardinality(From(stats \cup (messages \ Killed), u, e)) \in Nat
        /\ Cardinality(From(Admitted, u, e)) \in Nat
        /\ Cardinality(From(stats \cup (messages \ Killed), u, e))
             <= Cardinality(From(Admitted, u, e))
    BY <2>2, CardinalityMonotone
  <2> QED
    BY <2>3, <2>4, ThresholdFacts
<1> QED
  BY <1>1, Inductive, PTL

\* Copies of a frame are counted once per handler that can overlap.
THEOREM CopiesCounted == Spec => []SignalBound
<1>1. IndInv => SignalBound
  <2> SUFFICES ASSUME IndInv, NEW x \in Deliveries
               PROVE  Cardinality({r \in stats : msg[r].x = x}) <= MaxInFlight
    BY DEF SignalBound
  <2>1. /\ {r \in stats : msg[r].x = x} \subseteq {r \in Fresh : msg[r].x = x}
        /\ {r \in Fresh : msg[r].x = x} \in SUBSET Deliveries
    BY DEF IndInv, TypeOK, Fresh, Sent
  <2>2. Cardinality({r \in Fresh : msg[r].x = x}) <= MaxInFlight
    BY DEF IndInv, FreshBound
  <2> QED
    BY <2>1, <2>2, CardinalityMonotone, ThresholdFacts
<1> QED
  BY <1>1, Inductive, PTL

\* Nobody is banned, and no secret stored, who did not send more frames in one
\* epoch than the threshold allows.
THEOREM OnlySpammersRevealed == Spec => []RevealedOnlyIfSpamming
<1>1. IndInv => RevealedOnlyIfSpamming
  BY DEF IndInv
<1> QED
  BY <1>1, Inductive, PTL

-----------------------------------------------------------------------------
(* The handlers implement SpamPolicy.                                      *)

\* SpamPolicy's copy of Cardinality is Cardinality.
LEMMA SameCardinality ==
  ASSUME NEW S
  PROVE  Policy!Cardinality(S) = Cardinality(S)
BY DEF Policy!Cardinality, Cardinality

\* SpamPolicy counts as many messages of a sender and epoch as there are rows.
LEMMA CountedRows ==
  ASSUME TypeOK, NEW u, NEW e
  PROVE  Cardinality(Policy!CountedOf(u, e)) = Cardinality(From(stats, u, e))
<1> DEFINE S == From(stats, u, e)
           T == Policy!CountedOf(u, e)
           f == [d \in S |-> Row(d)]
<1>1. IsFiniteSet(S)
  BY FromFinite DEF TypeOK, Sent
<1>2. T = {Row(d) : d \in S}
  BY DEF Policy!CountedOf, Counted, Row, From
<1>3. f \in Bijection(S, T)
  <2>1. f \in [S -> T]
    BY <1>2
  <2>2. \A c, d \in S : f[c] = f[d] => c = d
    BY DEF Row
  <2>3. \A t \in T : \E d \in S : f[d] = t
    BY <1>2
  <2> QED
    BY <2>1, <2>2, <2>3 DEF Bijection, Injection, Surjection, IsInjective
<1>4. ExistsBijection(S, T)
  BY <1>3 DEF ExistsBijection
<1> QED
  BY <1>1, <1>4, FS_Bijection

\* Only three steps of a handler change what SpamPolicy is about.
LEMMA QuietStep ==
  ASSUME TypeOK, [Next]_vars,
         \A d \in Deliveries : ~ SaveStats(d) /\ ~ Broadcast(d) /\ ~ SaveBanned(d)
  PROVE  stats' = stats /\ broadcast' = broadcast /\ banned' = banned
<1> USE DEF frameVars, treeVars, dbVars
<1>1. CASE Tick
  BY <1>1 DEF Tick
<1>2. ASSUME NEW d \in Deliveries,
             \/ \E u \in Users : Send(d, u)
             \/ \E o \in Deliveries : Redeliver(o, d)
             \/ Receive(d)
      PROVE  stats' = stats /\ broadcast' = broadcast /\ banned' = banned
  BY <1>2 DEF Send, Redeliver, Receive
<1>3. ASSUME NEW d \in Deliveries, Step(d)
      PROVE  stats' = stats /\ broadcast' = broadcast /\ banned' = banned
  BY <1>3 DEF Step, CheckDuplicate, CheckProof, CheckSpam, RecoverSecret, FindBanned,
              ZeroLeaf, Climb, Announce, Persist
<1>4. ASSUME NEW S \in SUBSET Active, Kill(S)
      PROVE  stats' = stats /\ broadcast' = broadcast /\ banned' = banned
  BY <1>4 DEF Kill
<1>5. CASE UNCHANGED vars
  BY <1>5 DEF vars
<1> QED
  BY <1>1, <1>2, <1>3, <1>4, <1>5 DEF Next

\* A step of the handlers is a step of SpamPolicy or leaves its state alone.
LEMMA PolicyStep ==
  ASSUME IndInv, [Next]_vars
  PROVE  [Policy!Next]_Policy!vars
<1>0. TypeOK /\ Bookkeeping /\ Effect
  BY StepEffect DEF IndInv
<1>1. \A d \in stats : msg'[d] = msg[d]
  BY <1>0 DEF Effect, MsgEffect, TypeOK
<1>2. ASSUME NEW d \in Deliveries, SaveStats(d) PROVE Policy!Next
  <2> DEFINE u == msg[d].user
             e == msg[d].epoch
  <2>1. d \in Passed /\ d \notin stats /\ u \in Users /\ e \in Epochs /\ msg' = msg
    BY <1>0, <1>2 DEF SaveStats, Passed, Bookkeeping, TypeOK, Sent, Message, frameVars
  <2>2. Cardinality(From(stats, u, e)) < Limit
    <3>1. From(stats, u, e) \cup {d} \subseteq From(Admitted, u, e) /\ d \notin From(stats, u, e)
      BY <2>1 DEF From, Admitted
    <3>2. From(Admitted, u, e) \in SUBSET Deliveries /\ From(stats, u, e) \in SUBSET Deliveries
      BY <1>0 DEF From, Admitted, Passed, TypeOK, Sent
    <3>3. Cardinality(From(Admitted, u, e)) <= Limit
      BY <2>1 DEF IndInv, AdmitBound
    <3>4. Cardinality(From(stats, u, e) \cup {d}) = Cardinality(From(stats, u, e)) + 1
      <4>1. IsFiniteSet(From(stats, u, e))
        BY <3>2, HandlerAssumption, FS_Subset
      <4> QED
        BY <3>1, <4>1, FS_AddElement
    <3>5. /\ Cardinality(From(stats, u, e) \cup {d}) <= Cardinality(From(Admitted, u, e))
          /\ Cardinality(From(Admitted, u, e)) \in Nat
          /\ Cardinality(From(stats, u, e)) \in Nat
      BY <3>1, <3>2, CardinalityMonotone
    <3> QED
      BY <3>3, <3>4, <3>5, ThresholdFacts
  <2>3. Cardinality(Policy!CountedOf(u, e)) < Limit
    BY <1>0, <2>2, CountedRows
  <2>4. /\ stats' = stats \cup {d} /\ broadcast' = broadcast /\ BannedIds' = BannedIds
    BY <1>2 DEF SaveStats, treeVars, BannedIds
  <2>5. Counted' = Counted \cup {Row(d)} /\ \A c \in Counted : c.id # d
    BY <2>1, <2>4 DEF Counted, Row
  <2>6. Counted' = Counted \cup {[id |-> d, sender |-> u, period |-> e]}
    BY <2>5 DEF Row
  <2>7. Policy!Count(d, u, e)
    BY <2>3, <2>4, <2>5, <2>6, SameCardinality DEF Policy!Count
  <2>8. \E v \in Users, f \in Epochs : Policy!Count(d, v, f)
    <3> HIDE DEF u, e
    <3> QED
      BY <2>1, <2>7
  <2> QED
    BY <2>8 DEF Policy!Next
<1>3. ASSUME NEW d \in Deliveries, Broadcast(d) PROVE Policy!Next
  <2>1. d \in stats
    BY <1>0, <1>3 DEF Broadcast, Bookkeeping
  <2>2. stats' = stats /\ broadcast' = broadcast \cup {d} /\ BannedIds' = BannedIds /\ msg' = msg
    BY <1>3 DEF Broadcast, treeVars, frameVars, BannedIds
  <2>3. Counted' = Counted
    BY <2>2 DEF Counted, Row
  <2>4. Row(d) \in Counted /\ Row(d).id = d
    BY <2>1 DEF Counted, Row
  <2>5. Policy!Deliver(d)
    BY <2>2, <2>3, <2>4 DEF Policy!Deliver
  <2> QED
    BY <2>5 DEF Policy!Next
<1>4. ASSUME NEW d \in Deliveries, SaveBanned(d) PROVE [Policy!Next]_Policy!vars
  <2> DEFINE u == msg[d].user
             e == msg[d].epoch
  <2>1. pc[d] = "banSave" /\ u \in Users /\ e \in Epochs /\ msg' = msg
    BY <1>0, <1>4 DEF SaveBanned, TypeOK, Sent, Message, frameVars
  <2>2. Cardinality(Policy!CountedOf(u, e)) >= EffectiveThreshold
    BY <1>0, <2>1, CountedRows DEF IndInv, SpamSeen, RowsLike
  <2>3. Counted' = Counted /\ broadcast' = broadcast
    BY <1>4, <2>1 DEF SaveBanned, dbVars, Counted, Row
  <2>4. BannedIds' = BannedIds \/ BannedIds' = BannedIds \cup {u}
    BY <1>4 DEF SaveBanned, BannedIds
  <2>5. CASE BannedIds' = BannedIds
    BY <2>3, <2>5 DEF Policy!vars
  <2>6. CASE BannedIds' = BannedIds \cup {u}
    BY <2>1, <2>2, <2>3, <2>6, SameCardinality DEF Policy!Next, Policy!Expel
  <2> QED
    BY <2>4, <2>5, <2>6
<1>5. CASE \A d \in Deliveries : ~ SaveStats(d) /\ ~ Broadcast(d) /\ ~ SaveBanned(d)
  <2>1. stats' = stats /\ broadcast' = broadcast /\ banned' = banned
    BY <1>0, <1>5, QuietStep
  <2>2. Counted' = Counted
    BY <1>1, <2>1 DEF Counted, Row
  <2> QED
    BY <2>1, <2>2 DEF Policy!vars, BannedIds
<1> QED
  BY <1>2, <1>3, <1>4, <1>5

\* The handlers, interleaved and killed in whatever way, keep the promise of
\* SpamPolicy about counting, delivering and expelling.
THEOREM Implements == Spec => ImplementsPolicy
<1>1. Init => Policy!Init
  BY DEF Init, Policy!Init, BannedIds, Counted
<1>2. IndInv /\ [Next]_vars => [Policy!Next]_Policy!vars
  BY PolicyStep
<1> QED
  BY <1>1, <1>2, Inductive, PTL DEF Spec, ImplementsPolicy, Policy!Spec

-----------------------------------------------------------------------------
(* The tree while users are banned.                                        *)

Size == Len(Members)

\* The tree the handlers start with: the members' commitments in their order,
\* all hashes right.
LEMMA MembersTreeFacts ==
  /\ Size \in 1..Capacity
  /\ Shape(MembersTree, Size)
  /\ Right(MembersTree, {})
  /\ \A i \in 0..(Size - 1) : MembersTree[<<0, i>>].hash = Members[i + 1]
<1> DEFINE Round(x, i) == AppendLeaf(x, Members[i], <<"group", i>>)
           Upto(f, k) == f = [i \in 0..k |-> IF i = 0 THEN EmptyTree ELSE Round(f[i - 1], i)]
           S == {k \in Nat : \E f : Upto(f, k)}
<1>0. Size \in 1..Capacity /\ Size \in Nat
  BY HandlerAssumption, Halving DEF Size
<1> HIDE DEF Round
<1>1. 0 \in S
  <2>1. Upto([i \in 0..0 |-> EmptyTree], 0)
    OBVIOUS
  <2> QED
    BY <2>1
<1>2. ASSUME NEW k \in 0..(Size - 1), k \in S PROVE k + 1 \in S
  <2>1. PICK f : Upto(f, k)
    BY <1>2
  <2> DEFINE g == [i \in 0..(k + 1) |-> IF i = k + 1 THEN Round(f[k], k + 1) ELSE f[i]]
  <2>2. ASSUME NEW i \in 0..(k + 1) PROVE g[i] = IF i = 0 THEN EmptyTree ELSE Round(g[i - 1], i)
    <3>1. CASE i = k + 1
      BY <3>1, <1>0
    <3>2. CASE i \in 0..k
      BY <3>2, <2>1, <1>0
    <3> QED
      BY <3>1, <3>2, <1>0
  <2>3. Upto(g, k + 1)
    BY <2>2
  <2> HIDE DEF g
  <2> QED
    BY <2>3, <1>0
<1>3. \E f : Upto(f, Size)
  <2>1. \A k \in 0..Size : k \in S
    <3> HIDE DEF S
    <3> QED
      BY <1>0, <1>1, <1>2, SetInduction
  <2>2. Size \in S
    <3> HIDE DEF S
    <3> QED
      BY <1>0, <2>1
  <2> HIDE DEF Upto
  <2> QED
    BY <2>2
<1> DEFINE t == CHOOSE f : Upto(f, Size)
<1>4. Upto(t, Size)
  <2> HIDE DEF Upto
  <2> QED
    BY <1>3
<1>5. MembersTree = t[Size]
  BY DEF MembersTree, Round, Size
<1> HIDE DEF t
<1>6. t[0] = EmptyTree
  BY <1>0, <1>4
<1>7. ASSUME NEW k \in 0..(Size - 1)
      PROVE  t[k + 1] = AppendLeaf(t[k], Members[k + 1], <<"group", k + 1>>)
  <2>1. t[k + 1] = Round(t[k], k + 1)
    BY <1>0, <1>4
  <2> QED
    BY <2>1 DEF Round
<1> DEFINE Built(k) == /\ Shape(t[k], k) /\ Right(t[k], {})
                       /\ \A i \in 0..(k - 1) : t[k][<<0, i>>].hash = Members[i + 1]
           B == {k \in 0..Size : Built(k)}
<1>8. 0 \in B
  BY <1>0, <1>6, EmptyTreeFacts
<1>9. ASSUME NEW k \in 0..(Size - 1), k \in B PROVE k + 1 \in B
  <2>1. PICK x, y : x = t[k] /\ y = t[k + 1] /\ y = AppendLeaf(x, Members[k + 1], <<"group", k + 1>>)
    BY <1>7
  <2>2. Shape(x, k) /\ Right(x, {}) /\ \A i \in 0..(k - 1) : x[<<0, i>>].hash = Members[i + 1]
    BY <1>9, <2>1
  <2>3. k \in 0..(Capacity - 1)
    BY <1>0, Halving
  <2>4. /\ Shape(y, k + 1) /\ Right(y, {})
        /\ Grown(x, y, k, Members[k + 1], <<"group", k + 1>>)
    BY <2>1, <2>2, <2>3, AppendLeafFacts
  <2>5. ASSUME NEW i \in 0..((k + 1) - 1) PROVE y[<<0, i>>].hash = Members[i + 1]
    <3>1. i = k \/ i \in 0..(k - 1)
      OBVIOUS
    <3> QED
      BY <2>2, <2>4, <3>1 DEF Grown
  <2>6. k + 1 \in 0..Size
    BY <1>0
  <2>7. Built(k + 1)
    BY <2>1, <2>4, <2>5
  <2> QED
    BY <2>6, <2>7
<1>10. \A k \in 0..Size : k \in B
  <2> HIDE DEF B
  <2> QED
    BY <1>0, <1>8, <1>9, SetInduction
<1> QED
  BY <1>0, <1>5, <1>10

\* What holds of the tree, of BannedUser and of the handlers that ban, however
\* they interleave: no handler changes the documents' places and links, a
\* leaf holds its member or zero, and a user without a leaf is banned.
LeafHash(i) == tree[<<0, i>>].hash

LeavesHold   == \A i \in 0..(Size - 1) : LeafHash(i) \in {Members[i + 1], Zero}
GoneIsBanned == \A u \in Users : u \in BannedIds \/ \E i \in 0..(Size - 1) : LeafHash(i) = u
RowsNameLeaves ==
  \A b \in banned : b.leafIndex \in 0..(Size - 1) /\ Members[b.leafIndex + 1] = b.idCommitment
BanHeld ==
  /\ \A d \in Deliveries : pc[d] \in {"zeroLeaf", "banFailed"} => msg[d].user \in BannedIds
  /\ \A d \in Deliveries : pc[d] = "banSave" =>
       \E i \in 0..(Size - 1) : held[d].pos = <<0, i>> /\ Members[i + 1] = msg[d].user
  /\ \A d \in Deliveries : pc[d] = "climb" => held[d].pos \in Nat \X Nat

BanInv == Shape(tree, Size) /\ LeavesHold /\ GoneIsBanned /\ RowsNameLeaves /\ BanHeld

\* The leaves of the tree, by index.
LEMMA LeavesOfTree ==
  ASSUME Shape(tree, Size), NEW u
  PROVE  /\ u \in LeafHashes(tree) <=> \E i \in 0..(Size - 1) : LeafHash(i) = u
         /\ u \in LeafHashes(tree) => \E i \in 0..(Size - 1) :
              FindLeafByHash(tree, u) = <<0, i>> /\ LeafHash(i) = u
<1>1. LeafPositions(tree) = {<<0, i>> : i \in 0..(Size - 1)}
  BY LeafCount
<1>2. u \in LeafHashes(tree) <=> \E i \in 0..(Size - 1) : LeafHash(i) = u
  BY <1>1 DEF LeafHashes, LeafHash
<1>3. ASSUME u \in LeafHashes(tree)
      PROVE  \E i \in 0..(Size - 1) : FindLeafByHash(tree, u) = <<0, i>> /\ LeafHash(i) = u
  <2> DEFINE hits == LeavesWithHash(tree, u)
  <2>1. hits \in SUBSET LeafPositions(tree) /\ \A p \in hits : tree[p].hash = u
    BY DEF LeavesWithHash
  <2>2. hits # {}
    BY <1>3 DEF LeafHashes, LeavesWithHash
  <2> HIDE DEF hits
  <2>3. PICK i \in 0..(Size - 1) : FirstOf(hits) = <<0, i>> /\ <<0, i>> \in hits
    BY <2>1, <2>2, FirstLeaf
  <2> QED
    BY <2>1, <2>3 DEF hits, FindLeafByHash, LeafHash
<1> QED
  BY <1>2, <1>3

\* A step that touches none of this keeps it.
LEMMA BanQuiet ==
  ASSUME BanInv, tree' = tree, banned' = banned, held' = held,
         \A d \in Deliveries : pc'[d] \in {"zeroLeaf", "banFailed", "banSave", "climb"}
           => pc'[d] = pc[d] /\ msg'[d] = msg[d]
  PROVE  BanInv'
BY DEF BanInv, LeavesHold, GoneIsBanned, RowsNameLeaves, BanHeld, LeafHash, BannedIds

(* findBanned keeps BanInv: a handler that goes on has a leaf with its      *)
(* secret.                                                                  *)
LEMMA FindBannedStep ==
  ASSUME TypeOK, BanInv, NEW d \in Deliveries, FindBanned(d)
  PROVE  BanInv'
<1> USE DEF Goto, frameVars, dbVars
<1>1. msg' = msg /\ tree' = tree /\ banned' = banned /\ msg[d].user \in Users
  BY DEF FindBanned, TypeOK, Sent, Message
<1>2. CASE msg[d].user \in LeafHashes(tree)
  <2>1. PICK i \in 0..(Size - 1) :
          FindLeafByHash(tree, msg[d].user) = <<0, i>> /\ LeafHash(i) = msg[d].user
    BY <1>2, LeavesOfTree DEF BanInv
  <2>2. Members[i + 1] = msg[d].user
    BY <1>1, <2>1, HandlerAssumption DEF BanInv, LeavesHold
  <2>3. pc' = [pc EXCEPT ![d] = "banSave"] /\ held'[d].pos = <<0, i>>
        /\ \A e \in Deliveries : e # d => held'[e] = held[e]
    BY <1>2, <2>1 DEF FindBanned, Holding, TypeOK
  <2>4. BanHeld'
    BY <1>1, <2>2, <2>3 DEF BanInv, BanHeld, BannedIds, TypeOK
  <2> QED
    BY <1>1, <2>4 DEF BanInv, LeavesHold, GoneIsBanned, RowsNameLeaves, LeafHash, BannedIds
<1>3. CASE msg[d].user \notin LeafHashes(tree)
  <2>1. msg[d].user \in BannedIds
    BY <1>1, <1>3, LeavesOfTree DEF BanInv, GoneIsBanned
  <2>2. BanHeld'
    BY <1>1, <1>3, <2>1 DEF FindBanned, BanInv, BanHeld, BannedIds, TypeOK
  <2> QED
    BY <1>1, <2>2 DEF BanInv, LeavesHold, GoneIsBanned, RowsNameLeaves, LeafHash, BannedIds
<1> QED
  BY <1>2, <1>3

(* Saving the banned row keeps BanInv: it succeeds only for the first ban   *)
(* of the sender.                                                           *)
LEMMA SaveBannedStep ==
  ASSUME TypeOK, BanInv, NEW d \in Deliveries, SaveBanned(d)
  PROVE  BanInv'
<1> USE DEF Goto, frameVars, dbVars
<1> DEFINE row == [idCommitment |-> msg[d].user, leafIndex |-> held[d].pos[2]]
           clash == \E b \in banned : b.idCommitment = row.idCommitment \/ b.leafIndex = row.leafIndex
<1>1. /\ msg' = msg /\ tree' = tree /\ held' = held
      /\ pc[d] = "banSave"
      /\ pc' = [pc EXCEPT ![d] = IF clash THEN "banFailed" ELSE "zeroLeaf"]
      /\ banned' = IF clash THEN banned ELSE banned \cup {row}
  BY DEF SaveBanned
<1>2. PICK i \in 0..(Size - 1) : held[d].pos = <<0, i>> /\ Members[i + 1] = msg[d].user
  BY <1>1 DEF BanInv, BanHeld
<1>3. row.idCommitment = msg[d].user /\ row.leafIndex = i
  BY <1>2
<1> HIDE DEF row
<1>4. BannedIds \subseteq BannedIds' /\ msg[d].user \in BannedIds'
  <2>1. CASE clash
    <3>1. PICK b \in banned : b.idCommitment = msg[d].user \/ b.leafIndex = i
      BY <1>3, <2>1
    <3>2. b.idCommitment = msg[d].user
      BY <1>2, <3>1 DEF BanInv, RowsNameLeaves
    <3> QED
      BY <1>1, <2>1, <3>2 DEF BannedIds
  <2>2. CASE ~ clash
    BY <1>1, <1>3, <2>2 DEF BannedIds
  <2> QED
    BY <2>1, <2>2
<1>5. RowsNameLeaves'
  BY <1>1, <1>2, <1>3 DEF BanInv, RowsNameLeaves
<1>6. BanHeld'
  <2>1. \A e \in Deliveries : e # d => pc'[e] = pc[e]
    BY <1>1 DEF TypeOK
  <2>2. pc'[d] \in {"banFailed", "zeroLeaf"}
    BY <1>1 DEF TypeOK
  <2> QED
    BY <1>1, <1>4, <2>1, <2>2 DEF BanInv, BanHeld
<1>7. GoneIsBanned'
  BY <1>1, <1>4 DEF BanInv, GoneIsBanned, LeafHash
<1> QED
  BY <1>1, <1>5, <1>6, <1>7 DEF BanInv, LeavesHold, LeafHash

\* What saving a hash at a position does to the leaves' values.
LEMMA LeafSaved ==
  ASSUME Shape(tree, Size), NEW p, NEW x, tree' = SetHash(tree, p, x)
  PROVE  /\ Shape(tree', Size)
         /\ \A i \in 0..(Size - 1) : LeafHash(i)' = (IF p = <<0, i>> THEN x ELSE LeafHash(i))
  BY SetHashShape, SetHashLeaves DEF LeafHash

(* Overwriting the leaf keeps BanInv, and the tree keeps its shape.         *)
LEMMA ZeroLeafStep ==
  ASSUME TypeOK, BanInv, NEW d \in Deliveries, ZeroLeaf(d)
  PROVE  BanInv'
<1> USE DEF Goto, frameVars, dbVars
<1>1. msg' = msg /\ banned' = banned /\ pc[d] = "zeroLeaf" /\ msg[d].user \in Users
  BY DEF ZeroLeaf, TypeOK, Sent, Message
<1>2. msg[d].user \in BannedIds
  BY <1>1 DEF BanInv, BanHeld
<1>3. CASE msg[d].user \in LeafHashes(tree)
  <2>1. PICK i \in 0..(Size - 1) :
          FindLeafByHash(tree, msg[d].user) = <<0, i>> /\ LeafHash(i) = msg[d].user
    BY <1>3, LeavesOfTree DEF BanInv
  <2>2. Wrote(d, <<0, i>>, Zero)
    BY <1>3, <2>1 DEF ZeroLeaf
  <2>3. /\ tree' = SetHash(tree, <<0, i>>, Zero)
        /\ held' = [held EXCEPT ![d] = Holding(<<0, i>>, Zero)]
        /\ pc' = [pc EXCEPT ![d] = IF tree[<<0, i>>].parent THEN "climb" ELSE "announce"]
    BY <2>2 DEF Wrote
  <2>4. /\ Shape(tree', Size)
        /\ \A k \in 0..(Size - 1) : LeafHash(k)' = (IF k = i THEN Zero ELSE LeafHash(k))
    <3>1. \A k \in 0..(Size - 1) : <<0, i>> = <<0, k>> <=> k = i
      OBVIOUS
    <3> QED
      BY <2>3, <3>1, LeafSaved DEF BanInv
  <2>5. LeavesHold'
    BY <2>4 DEF BanInv, LeavesHold
  <2>6. GoneIsBanned'
    BY <1>1, <1>2, <2>1, <2>4 DEF BanInv, GoneIsBanned, BannedIds
  <2>7. BanHeld'
    <3>1. \A e \in Deliveries : e # d => pc'[e] = pc[e] /\ held'[e] = held[e]
      BY <2>3 DEF TypeOK
    <3>2. pc'[d] \in {"climb", "announce"}
      BY <2>3 DEF TypeOK
    <3>3. held'[d].pos \in Nat \X Nat
      BY <2>3 DEF TypeOK, Holding
    <3> QED
      BY <1>1, <3>1, <3>2, <3>3 DEF BanInv, BanHeld, BannedIds
  <2> QED
    BY <1>1, <2>4, <2>5, <2>6, <2>7 DEF BanInv, RowsNameLeaves
<1>4. CASE msg[d].user \notin LeafHashes(tree)
  <2>1. tree' = tree /\ held' = held /\ pc' = [pc EXCEPT ![d] = "banFailed"]
    BY <1>4 DEF ZeroLeaf
  <2>2. BanHeld'
    BY <1>1, <1>2, <2>1 DEF BanInv, BanHeld, BannedIds, TypeOK
  <2> QED
    BY <1>1, <2>1, <2>2 DEF BanInv, LeavesHold, GoneIsBanned, RowsNameLeaves, LeafHash, BannedIds
<1> QED
  BY <1>3, <1>4

(* A round of updateUser keeps BanInv: it saves hashes of inner nodes only. *)
LEMMA ClimbUpStep ==
  ASSUME TypeOK, BanInv, NEW d \in Deliveries, Climb(d)
  PROVE  BanInv'
<1> USE DEF Goto, frameVars, dbVars
<1>1. msg' = msg /\ banned' = banned /\ pc[d] = "climb"
  BY DEF Climb
<1>2. PICK l \in Nat, i \in Nat : held[d].pos = <<l, i>>
  BY <1>1 DEF BanInv, BanHeld
<1>3. PICK up, h : Wrote(d, up, h) /\ up = <<l + 1, i \div 2>>
  BY <1>2 DEF Climb, ParentOf
<1>4. /\ tree' = SetHash(tree, up, h)
      /\ held' = [held EXCEPT ![d] = Holding(up, h)]
      /\ pc' = [pc EXCEPT ![d] = IF tree[up].parent THEN "climb" ELSE "announce"]
  BY <1>3 DEF Wrote
<1>5. Shape(tree', Size) /\ \A k \in 0..(Size - 1) : LeafHash(k)' = LeafHash(k)
  <2>1. \A k \in 0..(Size - 1) : up # <<0, k>>
    BY <1>3
  <2> QED
    BY <1>4, <2>1, LeafSaved DEF BanInv
<1>6. BanHeld'
  <2>1. \A e \in Deliveries : e # d => pc'[e] = pc[e] /\ held'[e] = held[e]
    BY <1>4 DEF TypeOK
  <2>2. pc'[d] \in {"climb", "announce"}
    BY <1>4 DEF TypeOK
  <2>3. held'[d].pos = up /\ up \in Nat \X Nat
    BY <1>3, <1>4 DEF TypeOK, Holding
  <2> QED
    BY <1>1, <2>1, <2>2, <2>3 DEF BanInv, BanHeld, BannedIds
<1> QED
  BY <1>1, <1>5, <1>6 DEF BanInv, LeavesHold, GoneIsBanned, RowsNameLeaves, BannedIds

\* No step breaks it.
LEMMA BanStep == TypeOK /\ BanInv /\ [Next]_vars => BanInv'
<1> SUFFICES ASSUME TypeOK, BanInv, [Next]_vars PROVE BanInv'
  OBVIOUS
<1> USE DEF TypeOK, Goto, frameVars, treeVars, dbVars
<1>1. CASE Tick
  BY <1>1, BanQuiet DEF Tick
<1>2. ASSUME NEW d \in Deliveries, NEW u \in Users, Send(d, u) PROVE BanInv'
  BY <1>2, BanQuiet DEF Send
<1>3. ASSUME NEW d \in Deliveries, NEW o \in Deliveries, Redeliver(o, d) PROVE BanInv'
  BY <1>3, BanQuiet DEF Redeliver
<1>4. ASSUME NEW d \in Deliveries, Receive(d) PROVE BanInv'
  BY <1>4, BanQuiet DEF Receive
<1>5. ASSUME NEW d \in Deliveries, Step(d) PROVE BanInv'
  <2>1. CASE CheckDuplicate(d)
    BY <2>1, BanQuiet DEF CheckDuplicate
  <2>2. CASE CheckProof(d)
    BY <2>2, BanQuiet DEF CheckProof
  <2>3. CASE CheckSpam(d)
    BY <2>3, BanQuiet DEF CheckSpam
  <2>4. CASE RecoverSecret(d)
    BY <2>4, BanQuiet DEF RecoverSecret
  <2>5. CASE FindBanned(d)
    BY <2>5, FindBannedStep
  <2>6. CASE SaveBanned(d)
    BY <2>6, SaveBannedStep
  <2>7. CASE ZeroLeaf(d)
    BY <2>7, ZeroLeafStep
  <2>8. CASE Climb(d)
    BY <2>8, ClimbUpStep
  <2>9. CASE Announce(d)
    BY <2>9, BanQuiet DEF Announce
  <2>10. CASE Persist(d)
    BY <2>10, BanQuiet DEF Persist
  <2>11. CASE SaveStats(d)
    BY <2>11, BanQuiet DEF SaveStats
  <2>12. CASE Broadcast(d)
    BY <2>12, BanQuiet DEF Broadcast
  <2> QED
    BY <1>5, <2>1, <2>2, <2>3, <2>4, <2>5, <2>6, <2>7, <2>8, <2>9, <2>10, <2>11, <2>12
    DEF Step
<1>6. ASSUME NEW S \in SUBSET Active, Kill(S) PROVE BanInv'
  BY <1>6, BanQuiet DEF Kill
<1>7. CASE UNCHANGED vars
  BY <1>7, BanQuiet DEF vars
<1> QED
  BY <1>1, <1>2, <1>3, <1>4, <1>5, <1>6, <1>7 DEF Next

(* The initial states satisfy BanInv.                                       *)
LEMMA InitBanInv == Init => BanInv
<1> SUFFICES ASSUME Init PROVE BanInv
  OBVIOUS
<1>1. /\ tree = MembersTree /\ banned = {}
      /\ \A d \in Deliveries : pc[d] = "unsent"
  BY DEF Init
<1>2. Shape(tree, Size) /\ \A i \in 0..(Size - 1) : LeafHash(i) = Members[i + 1]
  BY <1>1, MembersTreeFacts DEF LeafHash
<1>3. \A u \in Users : \E i \in 0..(Size - 1) : Members[i + 1] = u
  <2> SUFFICES ASSUME NEW u \in Users PROVE \E i \in 0..(Size - 1) : Members[i + 1] = u
    OBVIOUS
  <2>1. PICK k \in 1..Size : Members[k] = u
    BY HandlerAssumption DEF Users, Size
  <2>2. k - 1 \in 0..(Size - 1) /\ (k - 1) + 1 = k
    BY MembersTreeFacts, Halving
  <2> QED
    BY <2>1, <2>2
<1> QED
  BY <1>1, <1>2, <1>3 DEF BanInv, LeavesHold, GoneIsBanned, RowsNameLeaves, BanHeld

(* BanInv is inductive: the tree keeps its shape under all interleavings of *)
(* bans, and every ban row belongs to a handler that got it.                *)
THEOREM BanInductive == Spec => []BanInv
<1>1. TypeOK /\ BanInv /\ [Next]_vars => BanInv'
  BY BanStep
<1> QED
  BY <1>1, InitBanInv, TypeCorrect, PTL DEF Spec

\* When banUser or updateUser throws for a sender, that sender is banned all the
\* same: the row is there, or the leaf is gone because of the row.
THEOREM BanHolds == Spec => []FailedBanMeansBanned
<1>1. BanInv => FailedBanMeansBanned
  BY DEF BanInv, BanHeld, FailedBanMeansBanned
<1> QED
  BY <1>1, BanInductive, PTL

-----------------------------------------------------------------------------
(* The root after the first ban.                                           *)

\* A user's row is saved once, so one handler at most changes the user's leaf.
Banning   == {"zeroLeaf", "climb", "announce", "banDone"}
OneBanner ==
  /\ \A d \in Deliveries : pc[d] \in Banning => msg[d].user \in BannedIds
  /\ \A d, e \in Deliveries :
       pc[d] \in Banning /\ pc[e] \in Banning /\ msg[d].user = msg[e].user => d = e

\* With one ban there is one climb at most: the tree is as it was, or right up
\* to where that climb stands, or right.  Or the climb was cut short by a crash;
\* then the ban is never announced.
FewBans   == \A x, y \in BannedIds : x = y
Untouched ==
  /\ Right(tree, {}) /\ announced = {}
  /\ \A d \in Deliveries : pc[d] \notin {"climb", "announce", "banDone"}
ClimbsAt(d, m, k) ==
  /\ pc[d] = "climb"
  /\ held[d].pos = <<k, Above(m, k)>>
  /\ held[d].hash = tree[<<k, Above(m, k)>>].hash
  /\ Climbing(tree, Size, m, k)
Midway ==
  /\ announced = {}
  /\ \E d \in Deliveries, m \in 0..(Size - 1), k \in 0..(Levels - 1) :
       ClimbsAt(d, m, k) /\ \A e \in Deliveries : pc[e] \in Banning => e = d
Done    == BannedIds # {} /\ Removing = {} /\ \E m \in 0..(Size - 1) : Right(tree, {m})
Aborted == BannedIds # {} /\ announced = {} /\ Killed # {}
           /\ \A d \in Deliveries : pc[d] \notin Banning

RootInv == OneBanner /\ (FewBans => Untouched \/ Midway \/ Done \/ Aborted)

(* Steps that touch neither the tree nor a ban keep RootInv.                *)
LEMMA RootQuiet ==
  ASSUME RootInv, tree' = tree, banned' = banned, announced' = announced,
         \A d \in Deliveries : pc[d] = "climb" => held'[d] = held[d],
         \A d \in Deliveries : pc'[d] \in Banning => pc'[d] = pc[d] /\ msg'[d] = msg[d],
         \A d \in Deliveries : pc[d] \in {"climb", "killed"} => pc'[d] = pc[d]
  PROVE  RootInv'
<1>1. /\ BannedIds' = BannedIds /\ Removing' \subseteq Removing
      /\ Killed # {} => Killed' # {}
  BY DEF BannedIds, Killed, Removing, Banning
<1>2. OneBanner'
  BY <1>1 DEF RootInv, OneBanner
<1>3. ASSUME FewBans' PROVE (Untouched \/ Midway \/ Done \/ Aborted)'
  <2>1. Untouched \/ Midway \/ Done \/ Aborted
    BY <1>1, <1>3 DEF RootInv, FewBans
  <2>2. CASE Untouched
    BY <2>2 DEF Untouched, Banning
  <2>3. CASE Midway
    <3>1. PICK d \in Deliveries, m \in 0..(Size - 1), k \in 0..(Levels - 1) :
            ClimbsAt(d, m, k) /\ \A e \in Deliveries : pc[e] \in Banning => e = d
      BY <2>3 DEF Midway
    <3>2. ClimbsAt(d, m, k)' /\ \A e \in Deliveries : pc'[e] \in Banning => e = d
      BY <1>1, <3>1 DEF ClimbsAt
    <3> QED
      BY <2>3, <3>2 DEF Midway
  <2>4. CASE Done
    BY <1>1, <2>4 DEF Done
  <2>5. CASE Aborted
    BY <1>1, <2>5 DEF Aborted
  <2> QED
    BY <2>1, <2>2, <2>3, <2>4, <2>5
<1> QED
  BY <1>2, <1>3 DEF RootInv

(* A second ban row ends what RootInv promises; the first begins the        *)
(* removal.                                                                 *)
LEMMA RootSaveBanned ==
  ASSUME TypeOK, BanInv, RootInv, NEW d \in Deliveries, SaveBanned(d)
  PROVE  RootInv'
<1> USE DEF Goto, frameVars, dbVars
<1> DEFINE row == [idCommitment |-> msg[d].user, leafIndex |-> held[d].pos[2]]
           clash == \E b \in banned : b.idCommitment = row.idCommitment \/ b.leafIndex = row.leafIndex
<1>1. /\ msg' = msg /\ tree' = tree /\ held' = held
      /\ pc[d] = "banSave"
      /\ pc' = [pc EXCEPT ![d] = IF clash THEN "banFailed" ELSE "zeroLeaf"]
      /\ banned' = IF clash THEN banned ELSE banned \cup {row}
  BY DEF SaveBanned
<1>0. announced' = announced
  BY DEF SaveBanned
<1>2. row.idCommitment = msg[d].user
  OBVIOUS
<1> HIDE DEF row
<1>3. CASE clash
  <2>1. pc' = [pc EXCEPT ![d] = "banFailed"] /\ banned' = banned
    BY <1>1, <1>3
  <2> QED
    BY <1>0, <1>1, <2>1, RootQuiet DEF TypeOK, Banning
<1>4. CASE ~ clash
  <2>1. /\ pc' = [pc EXCEPT ![d] = "zeroLeaf"]
        /\ BannedIds' = BannedIds \cup {msg[d].user}
        /\ msg[d].user \notin BannedIds
    BY <1>1, <1>2, <1>4 DEF BannedIds
  <2>2. pc'[d] = "zeroLeaf" /\ \A e \in Deliveries : e # d => pc'[e] = pc[e]
    BY <2>1 DEF TypeOK
  <2>3. OneBanner'
    BY <1>1, <2>1, <2>2 DEF RootInv, OneBanner, Banning
  <2>4. ASSUME FewBans' PROVE Untouched'
    <3>1. BannedIds = {}
      BY <2>1, <2>4 DEF FewBans
    <3>2. Untouched
      <4>1. FewBans
        BY <3>1 DEF FewBans
      <4>2. ~ Midway
        BY <3>1 DEF Midway, ClimbsAt, RootInv, OneBanner, Banning
      <4>3. ~ Done /\ ~ Aborted
        BY <3>1 DEF Done, Aborted
      <4> QED
        BY <4>1, <4>2, <4>3 DEF RootInv
    <3> QED
      BY <1>0, <1>1, <2>2, <3>2 DEF Untouched
  <2> QED
    BY <2>3, <2>4 DEF RootInv
<1> QED
  BY <1>3, <1>4

(* Overwriting the only removed leaf leaves the nodes above it to be        *)
(* corrected.                                                               *)
LEMMA RootZeroLeaf ==
  ASSUME TypeOK, BanInv, RootInv, NEW d \in Deliveries, ZeroLeaf(d)
  PROVE  RootInv'
<1> USE DEF Goto, frameVars, dbVars
<1>1. msg' = msg /\ banned' = banned /\ announced' = announced /\ pc[d] = "zeroLeaf"
  BY DEF ZeroLeaf
<1>2. CASE msg[d].user \in LeafHashes(tree)
  <2>1. PICK m \in 0..(Size - 1) : FindLeafByHash(tree, msg[d].user) = <<0, m>>
    BY <1>2, LeavesOfTree DEF BanInv
  <2>2. Wrote(d, <<0, m>>, Zero)
    BY <1>2, <2>1 DEF ZeroLeaf
  <2>3. <<0, m>> \in DOMAIN tree /\ tree[<<0, m>>].parent = TRUE
    <3>1. Size \in Nat /\ Size <= Capacity
      BY MembersTreeFacts, Halving
    <3>2. <<0, m>> \in DOMAIN tree
      BY <3>1, PositionsFacts DEF BanInv, Shape
    <3>3. 0 \in 0..(Levels - 1) /\ m \in Nat
      BY <3>1, LevelsAssumption
    <3> QED
      BY <3>2, <3>3 DEF BanInv, Shape
  <2>4. /\ tree' = SetHash(tree, <<0, m>>, Zero)
        /\ held' = [held EXCEPT ![d] = Holding(<<0, m>>, Zero)]
        /\ pc' = [pc EXCEPT ![d] = "climb"]
    BY <2>2, <2>3 DEF Wrote
  <2>5. pc'[d] = "climb" /\ \A e \in Deliveries : e # d => pc'[e] = pc[e]
    BY <2>4 DEF TypeOK
  <2>6. BannedIds' = BannedIds /\ OneBanner'
    BY <1>1, <2>5 DEF RootInv, OneBanner, Banning, BannedIds
  <2>7. ASSUME FewBans' PROVE Midway'
    <3>1. FewBans
      BY <2>6, <2>7 DEF FewBans
    <3>2. Untouched
      <4>1. d \in Removing
        BY <1>1 DEF Removing
      <4>2. ~ Midway
        BY <1>1 DEF Midway, ClimbsAt, Banning
      <4>3. ~ Done /\ ~ Aborted
        BY <1>1, <4>1 DEF Done, Aborted, Banning
      <4> QED
        BY <3>1, <4>2, <4>3 DEF RootInv
    <3>3. \A e \in Deliveries : pc'[e] \in Banning => e = d
      <4>1. SUFFICES ASSUME NEW e \in Deliveries, pc'[e] \in Banning, e # d
                     PROVE  FALSE
        OBVIOUS
      <4>2. pc[e] = "zeroLeaf"
        BY <2>5, <3>2, <4>1 DEF Untouched, Banning
      <4>3. msg[d].user \in BannedIds /\ msg[e].user \in BannedIds
        BY <1>1, <4>2 DEF RootInv, OneBanner, Banning
      <4> QED
        BY <1>1, <3>1, <4>1, <4>2, <4>3 DEF FewBans, RootInv, OneBanner, Banning
    <3>4. Climbing(tree', Size, m, 0)
      BY <2>4, <3>2, LeafChanged DEF Untouched, BanInv
    <3>5. Above(m, 0) = m
      BY AboveFacts
    <3>6. held'[d].pos = <<0, m>> /\ held'[d].hash = Zero
      BY <2>4 DEF TypeOK, Holding
    <3>7. tree'[<<0, m>>].hash = Zero
      BY <2>4, SetHashLeaves DEF BanInv
    <3>8. ClimbsAt(d, m, 0)'
      BY <2>5, <3>4, <3>5, <3>6, <3>7 DEF ClimbsAt
    <3>9. 0 \in 0..(Levels - 1)
      BY LevelsAssumption
    <3> QED
      BY <1>1, <3>2, <3>3, <3>8, <3>9 DEF Midway, Untouched
  <2> QED
    BY <2>6, <2>7 DEF RootInv
<1>3. CASE msg[d].user \notin LeafHashes(tree)
  <2>1. tree' = tree /\ held' = held /\ pc' = [pc EXCEPT ![d] = "banFailed"]
    BY <1>3 DEF ZeroLeaf
  <2> QED
    BY <1>1, <2>1, RootQuiet DEF TypeOK, Banning
<1> QED
  BY <1>2, <1>3

(* Each round of the only removal corrects one node more, up to the root.   *)
LEMMA RootClimb ==
  ASSUME TypeOK, BanInv, RootInv, NEW d \in Deliveries, Climb(d)
  PROVE  RootInv'
<1> USE DEF Goto, frameVars, dbVars
<1>1. /\ msg' = msg /\ banned' = banned /\ announced' = announced
      /\ pc[d] = "climb" /\ d \in Removing
  BY DEF Climb, Removing
<1>2. PICK p : p = held[d].pos
  OBVIOUS
<1>3. PICK up, h : /\ up = ParentOf(p)
                   /\ h = ParentHash([tree[p] EXCEPT !.hash = held[d].hash], p[2])
                   /\ Wrote(d, up, h)
  BY <1>2 DEF Climb
<1>4. /\ tree' = SetHash(tree, up, h)
      /\ held' = [held EXCEPT ![d] = Holding(up, h)]
      /\ pc' = [pc EXCEPT ![d] = IF tree[up].parent THEN "climb" ELSE "announce"]
  BY <1>3 DEF Wrote
<1>5. pc'[d] \in {"climb", "announce"} /\ \A e \in Deliveries : e # d => pc'[e] = pc[e]
  BY <1>4 DEF TypeOK
<1>6. BannedIds' = BannedIds /\ OneBanner'
  BY <1>1, <1>5 DEF RootInv, OneBanner, Banning, BannedIds
<1>7. ASSUME FewBans' PROVE Midway' \/ Done'
  <2>1. FewBans
    BY <1>6, <1>7 DEF FewBans
  <2>2. Midway
    BY <1>1, <2>1 DEF RootInv, Untouched, Done, Aborted, Banning
  <2>3. PICK m \in 0..(Size - 1), k \in 0..(Levels - 1) :
          ClimbsAt(d, m, k) /\ \A e \in Deliveries : pc[e] \in Banning => e = d
    BY <1>1, <2>2 DEF Midway, Banning
  <2>4. PICK c \in Nat, b \in Nat : c = Above(m, k) /\ b = Above(m, k + 1) /\ b = c \div 2
    <3>1. m \in Nat /\ k \in 0..Levels /\ k + 1 \in 0..Levels
      BY MembersTreeFacts, Halving, LevelsAssumption
    <3> QED
      BY <3>1, AboveFacts
  <2>5. p = <<k, c>> /\ up = <<k + 1, b>>
    BY <1>2, <1>3, <2>3, <2>4 DEF ClimbsAt, ParentOf
  <2>6. <<k, c>> \in DOMAIN tree /\ <<k + 1, b>> \in DOMAIN tree
    <3>1. <<k, c>> \in Positions(Size) /\ <<k + 1, b>> \in Positions(Size)
      BY <2>4, LevelsAssumption DEF Positions
    <3> QED
      BY <3>1 DEF BanInv, Shape
  <2>7. h = ParentHash(tree[<<k, c>>], c)
    <3>1. held[d].hash = tree[p].hash
      BY <2>3, <2>4, <2>5 DEF ClimbsAt
    <3>2. [tree[p] EXCEPT !.hash = tree[p].hash] = tree[p]
      <4>1. IsNode(tree[p])
        BY <2>5, <2>6 DEF BanInv, Shape, IsTree
      <4>2. PICK x : x = tree[p]
        OBVIOUS
      <4>3. [x EXCEPT !.hash = x.hash] = x
        BY <4>1, <4>2, NodeUpdate DEF IsNode
      <4> QED
        BY <4>2, <4>3
    <3>3. p[2] = c
      BY <2>5
    <3> QED
      BY <1>3, <2>5, <3>1, <3>2, <3>3
  <2>8. tree' = ClimbStep(tree, <<k, Above(m, k)>>)
    BY <1>4, <2>4, <2>5, <2>7 DEF ClimbStep, ParentOf
  <2>9. Climbing(tree', Size, m, k + 1)
    BY <2>3, <2>8, ClimbRound DEF ClimbsAt, BanInv
  <2>10. \A e \in Deliveries : pc'[e] \in Banning => e = d
    BY <1>5, <2>3
  <2>11. CASE k + 1 < Levels
    <3>1. k + 1 \in 0..(Levels - 1)
      BY <2>11, LevelsAssumption
    <3>2. tree[up].parent = TRUE
      BY <2>5, <2>6, <3>1 DEF BanInv, Shape
    <3>3. pc'[d] = "climb" /\ held'[d].pos = up /\ held'[d].hash = h
      BY <1>4, <3>2 DEF TypeOK, Holding
    <3>4. tree'[up].hash = h
      <4>1. SavesHash(tree, tree', up, h)
        BY <1>4, SetHashFacts DEF BanInv, Shape
      <4> QED
        BY <2>5, <2>6, <4>1 DEF SavesHash
    <3>5. ClimbsAt(d, m, k + 1)'
      BY <2>4, <2>5, <2>9, <3>3, <3>4 DEF ClimbsAt
    <3> QED
      BY <1>1, <2>2, <2>10, <3>1, <3>5 DEF Midway
  <2>12. CASE k + 1 = Levels
    <3>1. b = 0
      <4>1. m \in 0..(Capacity - 1)
        BY MembersTreeFacts, Halving
      <4> QED
        BY <2>4, <2>12, <4>1, AboveFacts
    <3>2. tree[up].parent = FALSE
      BY <2>5, <2>6, <2>12, <3>1 DEF BanInv, Shape
    <3>3. pc'[d] = "announce"
      BY <1>4, <3>2 DEF TypeOK
    <3>4. Removing' = {}
      BY <2>10, <3>3 DEF Removing, Banning
    <3>5. Right(tree', {m})
      BY <2>9, <2>12, ClimbedToRoot
    <3>6. BannedIds' # {}
      BY <1>1, <1>6 DEF RootInv, OneBanner, Banning
    <3> QED
      BY <3>4, <3>5, <3>6 DEF Done
  <2> QED
    BY <2>11, <2>12, LevelsAssumption
<1> QED
  BY <1>6, <1>7 DEF RootInv

(* The removal is announced only when its root is right.                    *)
LEMMA RootAnnounce ==
  ASSUME TypeOK, RootInv, NEW d \in Deliveries, Announce(d)
  PROVE  RootInv'
<1> USE DEF Goto, frameVars, dbVars
<1>1. /\ msg' = msg /\ banned' = banned /\ tree' = tree /\ held' = held
      /\ pc[d] = "announce" /\ pc'[d] = "banDone"
      /\ \A e \in Deliveries : e # d => pc'[e] = pc[e]
  BY DEF Announce, TypeOK
<1>2. BannedIds' = BannedIds /\ Killed' = Killed /\ Removing' = Removing
  BY <1>1 DEF BannedIds, Killed, Removing
<1>3. OneBanner'
  BY <1>1, <1>2 DEF RootInv, OneBanner, Banning
<1>4. ASSUME FewBans' PROVE Done'
  <2>1. Done
    BY <1>1, <1>2, <1>4 DEF RootInv, FewBans, Untouched, Midway, ClimbsAt, Aborted, Banning
  <2> QED
    BY <1>1, <1>2, <2>1 DEF Done
<1> QED
  BY <1>3, <1>4 DEF RootInv

(* Every step keeps RootInv.                                                *)
LEMMA RootStep == TypeOK /\ BanInv /\ RootInv /\ [Next]_vars => RootInv'
<1> SUFFICES ASSUME TypeOK, BanInv, RootInv, [Next]_vars PROVE RootInv'
  OBVIOUS
<1>1. CASE Tick
  BY <1>1, RootQuiet DEF Tick, treeVars
<1>2. ASSUME NEW d \in Deliveries, NEW u \in Users, Send(d, u) PROVE RootInv'
  BY <1>2, RootQuiet DEF Send, TypeOK, Goto, treeVars, Banning
<1>3. ASSUME NEW d \in Deliveries, NEW o \in Deliveries, Redeliver(o, d) PROVE RootInv'
  BY <1>3, RootQuiet DEF Redeliver, TypeOK, Goto, treeVars, Banning
<1>4. ASSUME NEW d \in Deliveries, Receive(d) PROVE RootInv'
  BY <1>4, RootQuiet DEF Receive, TypeOK, Goto, treeVars, frameVars, Banning
<1>5. ASSUME NEW d \in Deliveries, Step(d) PROVE RootInv'
  <2> USE DEF TypeOK, Goto, treeVars, frameVars, Banning
  <2>1. CASE CheckDuplicate(d)
    BY <2>1, RootQuiet DEF CheckDuplicate
  <2>2. CASE CheckProof(d)
    BY <2>2, RootQuiet DEF CheckProof
  <2>3. CASE CheckSpam(d)
    BY <2>3, RootQuiet DEF CheckSpam
  <2>4. CASE RecoverSecret(d)
    BY <2>4, RootQuiet DEF RecoverSecret
  <2>5. CASE FindBanned(d)
    BY <2>5, RootQuiet DEF FindBanned
  <2>6. CASE SaveBanned(d)
    BY <2>6, RootSaveBanned
  <2>7. CASE ZeroLeaf(d)
    BY <2>7, RootZeroLeaf
  <2>8. CASE Climb(d)
    BY <2>8, RootClimb
  <2>9. CASE Announce(d)
    BY <2>9, RootAnnounce
  <2>10. CASE Persist(d)
    BY <2>10, RootQuiet DEF Persist
  <2>11. CASE SaveStats(d)
    BY <2>11, RootQuiet DEF SaveStats
  <2>12. CASE Broadcast(d)
    BY <2>12, RootQuiet DEF Broadcast
  <2> QED
    BY <1>5, <2>1, <2>2, <2>3, <2>4, <2>5, <2>6, <2>7, <2>8, <2>9, <2>10, <2>11, <2>12
    DEF Step
<1>6. ASSUME NEW S \in SUBSET Active, Kill(S) PROVE RootInv'
  <2>1. \A d \in Deliveries : pc'[d] \in Banning => pc'[d] = pc[d]
    BY <1>6 DEF Kill, Banning
  <2>2. msg' = msg /\ banned' = banned
    BY <1>6 DEF Kill, frameVars, treeVars
  <2>3. OneBanner'
    BY <2>1, <2>2 DEF RootInv, OneBanner, BannedIds
  <2>4. /\ tree' = tree /\ held' = held /\ announced' = announced /\ BannedIds' = BannedIds
        /\ Killed' # {} /\ Removing' \subseteq Removing
    BY <1>6 DEF Kill, Killed, Active, treeVars, BannedIds, Removing
  <2>5. CASE FewBans /\ Midway
    <3>1. PICK d \in Deliveries, m \in 0..(Size - 1), k \in 0..(Levels - 1) :
            ClimbsAt(d, m, k) /\ \A e \in Deliveries : pc[e] \in Banning => e = d
      BY <2>5 DEF Midway
    <3>2. CASE d \in S
      <4>1. \A e \in Deliveries : pc'[e] \notin Banning
        BY <1>6, <2>1, <3>1, <3>2 DEF Kill, Banning
      <4>2. BannedIds # {}
        BY <3>1 DEF ClimbsAt, RootInv, OneBanner, Banning
      <4> QED
        BY <2>3, <2>4, <2>5, <4>1, <4>2 DEF RootInv, Aborted, Midway
    <3>3. CASE d \notin S
      <4>1. ClimbsAt(d, m, k)'
        BY <1>6, <2>4, <3>1, <3>3 DEF Kill, ClimbsAt
      <4> QED
        BY <2>1, <2>3, <2>4, <2>5, <3>1, <4>1 DEF RootInv, Midway
    <3> QED
      BY <3>2, <3>3
  <2>6. CASE FewBans /\ Untouched
    BY <1>6, <2>3, <2>4, <2>6 DEF Kill, RootInv, Untouched
  <2>7. CASE FewBans /\ Done
    BY <2>3, <2>4, <2>7 DEF RootInv, Done
  <2>8. CASE FewBans /\ Aborted
    BY <2>1, <2>3, <2>4, <2>8 DEF RootInv, Aborted
  <2>9. CASE ~ FewBans
    BY <2>3, <2>4, <2>9 DEF RootInv, FewBans
  <2> QED
    BY <2>5, <2>6, <2>7, <2>8, <2>9 DEF RootInv
<1>7. CASE UNCHANGED vars
  BY <1>7, RootQuiet DEF vars
<1> QED
  BY <1>1, <1>2, <1>3, <1>4, <1>5, <1>6, <1>7 DEF Next

(* The initial states satisfy RootInv.                                      *)
LEMMA InitRootInv == Init => RootInv
<1> SUFFICES ASSUME Init PROVE RootInv
  OBVIOUS
<1>1. tree = MembersTree /\ announced = {} /\ \A d \in Deliveries : pc[d] = "unsent"
  BY DEF Init
<1> QED
  BY <1>1, MembersTreeFacts DEF RootInv, OneBanner, Banning, Untouched

(* BanInv and RootInv together are inductive: during the only removal the   *)
(* nodes that its handler has passed are right, as are all others after it. *)
THEOREM RootInductive == Spec => [](BanInv /\ RootInv)
<1>1. TypeOK /\ BanInv /\ RootInv /\ [Next]_vars => BanInv' /\ RootInv'
  BY BanStep, RootStep
<1> QED
  BY <1>1, InitBanInv, InitRootInv, TypeCorrect, PTL DEF Spec

\* A set of banned users of at most one element has no two elements.
LEMMA AtMostOneBan ==
  ASSUME TypeOK, Cardinality(BannedIds) <= 1
  PROVE  \A x, y \in BannedIds : x = y
<1>1. IsFiniteSet(BannedIds)
  <2>1. IsFiniteSet(Users)
    <3> DEFINE f == [i \in 1..Size |-> Members[i]]
    <3>1. f \in Surjection(1..Size, Users)
      BY HandlerAssumption DEF Surjection, Users, Size
    <3>2. IsFiniteSet(1..Size)
      BY MembersTreeFacts, FS_Interval, Halving
    <3> HIDE DEF f
    <3> QED
      BY <3>1, <3>2, FS_Surjection
  <2>2. BannedIds \in SUBSET Users
    BY DEF TypeOK, BannedIds
  <2> QED
    BY <2>1, <2>2, FS_Subset
<1>2. ASSUME NEW x \in BannedIds, NEW y \in BannedIds, x # y PROVE FALSE
  <2>1. IsFiniteSet({x}) /\ Cardinality({x}) = 1
    BY FS_Singleton
  <2>2. Cardinality({x} \cup {y}) = 2
    BY <1>2, <2>1, FS_AddElement
  <2>3. {x} \cup {y} \in SUBSET BannedIds
    BY <1>2
  <2>4. Cardinality({x} \cup {y}) <= Cardinality(BannedIds)
    BY <1>1, <2>3, FS_Subset
  <2>5. Cardinality(BannedIds) \in Nat
    BY <1>1, FS_CardinalityType
  <2> QED
    BY <2>2, <2>4, <2>5
<1> QED
  BY <1>2

\* After the first ban, once no handler is removing a leaf, the stored root is
\* the root the clients compute, for trees of any height, any number of members
\* and any number of concurrent handlers.
THEOREM RootHolds == Spec => []RootRightAfterFirstBan
<1>1. TypeOK /\ BanInv /\ RootInv => RootRightAfterFirstBan
  <2> SUFFICES ASSUME TypeOK, BanInv, RootInv, Removing = {}, Killed = {},
                      Cardinality(BannedIds) <= 1
               PROVE  RootRight
    BY DEF RootRightAfterFirstBan
  <2>1. FewBans
    BY AtMostOneBan DEF FewBans
  <2>2. ~ Midway /\ ~ Aborted
    BY DEF Midway, ClimbsAt, Removing, Aborted
  <2>3. \E A : Right(tree, A)
    BY <2>1, <2>2 DEF RootInv, Untouched, Done
  <2>4. Shape(tree, Size)
    BY DEF BanInv
  <2> QED
    BY <2>3, <2>4, RootOfRightTree DEF RootRight
<1> QED
  BY <1>1, RootInductive, TypeCorrect, PTL

-----------------------------------------------------------------------------
(* Nobody gets in with a proof made before the removal.                    *)

\* Identity commitments are registered once: a member has one leaf.
DistinctMembers == \A i, j \in DOMAIN Members : Members[i] = Members[j] => i = j

\* A frame's proof was made for the root of some list of as many leaves that
\* held its sender's, perhaps an older one.  A user whose leaf was overwritten
\* has no other.
ProofsHadLeaf ==
  \A d \in Sent : \E t : Shape(t, Size) /\ view[d] = ReferenceRoot(t) /\ msg[d].user \in LeafHashes(t)
NoLeafLeft ==
  /\ \A d \in Deliveries : pc[d] \in {"climb", "announce"} => msg[d].user \notin LeafHashes(tree)
  /\ \A u \in announced : u \notin LeafHashes(tree)
OutInv == ProofsHadLeaf /\ NoLeafLeft

\* A step that sends no frame, changes no leaf and announces nobody keeps it.
LEMMA OutQuiet ==
  ASSUME TypeOK, OutInv, msg' = msg, view' = view, LeafHashes(tree)' = LeafHashes(tree), announced' = announced,
         \A d \in Deliveries : pc'[d] \in {"climb", "announce"} => pc[d] \in {"climb", "announce"},
         \A d \in Deliveries : pc'[d] # "unsent" => pc[d] # "unsent"
  PROVE  OutInv'
BY DEF OutInv, ProofsHadLeaf, NoLeafLeft, Sent

\* A client proves with the leaves that the server returned to it, a copy of a
\* frame has the proof of its original.
LEMMA OutSend ==
  ASSUME TypeOK, BanInv, OutInv, NEW d \in Deliveries,
         \/ \E u \in Users : Send(d, u)
         \/ \E o \in Deliveries : Redeliver(o, d)
  PROVE  OutInv'
<1>1. /\ DOMAIN pc = Deliveries /\ DOMAIN msg = Deliveries /\ DOMAIN view = Deliveries
      /\ Shape(tree, Size)
  BY DEF TypeOK, BanInv
<1>2. /\ pc[d] = "unsent" /\ pc' = [pc EXCEPT ![d] = "sent"]
      /\ tree' = tree /\ announced' = announced
      /\ \A e \in Deliveries : e # d => msg'[e] = msg[e] /\ view'[e] = view[e]
  BY <1>1 DEF Send, Redeliver, Goto, treeVars
<1>3. \E t : Shape(t, Size) /\ view'[d] = ReferenceRoot(t) /\ msg'[d].user \in LeafHashes(t)
  <2>1. ASSUME NEW u \in Users, Send(d, u)
        PROVE  view'[d] = ReferenceRoot(tree) /\ msg'[d].user \in LeafHashes(tree)
    BY <1>1, <2>1 DEF Send
  <2>2. ASSUME NEW o \in Deliveries, Redeliver(o, d)
        PROVE  o \in Sent /\ view'[d] = view[o] /\ msg'[d] = msg[o]
    BY <1>1, <2>2 DEF Redeliver
  <2> QED
    BY <1>1, <2>1, <2>2 DEF OutInv, ProofsHadLeaf
<1>4. ProofsHadLeaf'
  <2>1. \A e \in Sent' : e = d \/ e \in Sent
    BY <1>1, <1>2 DEF Sent
  <2>2. ASSUME NEW e \in Sent' PROVE \E t : Shape(t, Size) /\ view'[e] = ReferenceRoot(t) /\ msg'[e].user \in LeafHashes(t)
    <3>1. CASE e = d
      BY <1>3, <3>1
    <3>2. CASE e # d
      <4>1. e \in Sent /\ view'[e] = view[e] /\ msg'[e] = msg[e]
        BY <1>2, <2>1, <3>2 DEF Sent
      <4> QED
        BY <4>1 DEF OutInv, ProofsHadLeaf
    <3> QED
      BY <3>1, <3>2
  <2> QED
    BY <2>2 DEF ProofsHadLeaf
<1>5. NoLeafLeft'
  BY <1>1, <1>2 DEF OutInv, NoLeafLeft
<1> QED
  BY <1>4, <1>5 DEF OutInv

\* updateUser overwrites the only leaf of the user.
LEMMA OutZeroLeaf ==
  ASSUME DistinctMembers, TypeOK, BanInv, OutInv, NEW d \in Deliveries, ZeroLeaf(d)
  PROVE  OutInv'
<1> USE DEF Goto, frameVars, dbVars
<1>1. /\ msg' = msg /\ view' = view /\ announced' = announced /\ pc[d] = "zeroLeaf"
      /\ msg[d].user \in Users /\ DOMAIN pc = Deliveries
  BY DEF ZeroLeaf, TypeOK, Sent, Message
<1>2. CASE msg[d].user \in LeafHashes(tree)
  <2>1. PICK i \in 0..(Size - 1) :
          FindLeafByHash(tree, msg[d].user) = <<0, i>> /\ LeafHash(i) = msg[d].user
    BY <1>2, LeavesOfTree DEF BanInv
  <2>2. Wrote(d, <<0, i>>, Zero)
    BY <1>2, <2>1 DEF ZeroLeaf
  <2>3. /\ tree' = SetHash(tree, <<0, i>>, Zero)
        /\ \A e \in Deliveries : e # d => pc'[e] = pc[e]
        /\ pc'[d] # "unsent"
    BY <1>1, <2>2 DEF Wrote
  <2>4. /\ Shape(tree', Size)
        /\ \A k \in 0..(Size - 1) : LeafHash(k)' = (IF k = i THEN Zero ELSE LeafHash(k))
    <3>1. \A k \in 0..(Size - 1) : <<0, i>> = <<0, k>> <=> k = i
      OBVIOUS
    <3> QED
      BY <2>3, <3>1, LeafSaved DEF BanInv
  <2>5. ASSUME NEW u \in Users, u \in LeafHashes(tree)' PROVE u \in LeafHashes(tree) /\ u # msg[d].user
    <3>1. PICK k \in 0..(Size - 1) : LeafHash(k)' = u
      <4>1. PICK w : w = tree'
        OBVIOUS
      <4>2. LeafPositions(w) = {<<0, j>> : j \in 0..(Size - 1)}
        BY <2>4, <4>1, LeafCount
      <4> QED
        BY <2>5, <4>1, <4>2 DEF LeafHashes, LeafHash
    <3>2. k # i /\ LeafHash(k) = u
      BY <2>4, <3>1, HandlerAssumption
    <3>3. u \in LeafHashes(tree)
      BY <3>2, LeavesOfTree DEF BanInv
    <3>4. Members[k + 1] = u /\ Members[i + 1] = msg[d].user
      BY <1>1, <2>1, <3>2, HandlerAssumption DEF BanInv, LeavesHold
    <3>5. k + 1 \in DOMAIN Members /\ i + 1 \in DOMAIN Members
      BY HandlerAssumption, MembersTreeFacts, Halving DEF Size
    <3>6. k + 1 # i + 1
      BY <3>2
    <3> QED
      BY <3>3, <3>4, <3>5, <3>6 DEF DistinctMembers
  <2>6. NoLeafLeft'
    <3>1. ASSUME NEW e \in Deliveries, pc'[e] \in {"climb", "announce"}
          PROVE  msg'[e].user \notin LeafHashes(tree)'
      <4>1. CASE e = d
        BY <1>1, <2>5, <4>1
      <4>2. CASE e # d
        <5>1. pc[e] \in {"climb", "announce"} /\ msg[e].user \in Users
          BY <2>3, <3>1, <4>2 DEF TypeOK, Sent, Message
        <5> QED
          BY <1>1, <2>5, <5>1 DEF OutInv, NoLeafLeft
      <4> QED
        BY <4>1, <4>2
    <3>2. ASSUME NEW u \in announced PROVE u \notin LeafHashes(tree)'
      BY <2>5 DEF OutInv, NoLeafLeft, TypeOK
    <3> QED
      BY <1>1, <3>1, <3>2 DEF NoLeafLeft
  <2>7. ProofsHadLeaf'
    BY <1>1, <2>3 DEF OutInv, ProofsHadLeaf, Sent
  <2> QED
    BY <2>6, <2>7 DEF OutInv
<1>3. CASE msg[d].user \notin LeafHashes(tree)
  <2>1. tree' = tree /\ pc' = [pc EXCEPT ![d] = "banFailed"]
    BY <1>3 DEF ZeroLeaf
  <2>2. LeafHashes(tree)' = LeafHashes(tree)
    BY <2>1
  <2> QED
    BY <1>1, <2>1, <2>2, OutQuiet
<1> QED
  BY <1>2, <1>3

\* A climb changes no leaf.
LEMMA OutClimb ==
  ASSUME TypeOK, BanInv, OutInv, NEW d \in Deliveries, Climb(d)
  PROVE  OutInv'
<1> USE DEF Goto, frameVars, dbVars
<1>1. /\ msg' = msg /\ view' = view /\ announced' = announced /\ pc[d] = "climb"
      /\ DOMAIN pc = Deliveries
  BY DEF Climb, TypeOK
<1>2. PICK l \in Nat, i \in Nat : held[d].pos = <<l, i>>
  BY <1>1 DEF BanInv, BanHeld
<1>3. PICK up, h : Wrote(d, up, h) /\ up = <<l + 1, i \div 2>>
  BY <1>2 DEF Climb, ParentOf
<1>4. /\ tree' = SetHash(tree, up, h)
      /\ \A e \in Deliveries : e # d => pc'[e] = pc[e]
      /\ pc'[d] \in {"climb", "announce"}
  BY <1>1, <1>3 DEF Wrote
<1>5. LeafHashes(tree)' = LeafHashes(tree)
  <2>1. PICK w : w = tree'
    OBVIOUS
  <2>2. \A k \in 0..(Size - 1) : up # <<0, k>>
    BY <1>3
  <2>3. Shape(w, Size) /\ \A k \in 0..(Size - 1) : w[<<0, k>>].hash = tree[<<0, k>>].hash
    BY <1>4, <2>1, <2>2, LeafSaved DEF BanInv, LeafHash
  <2>4. /\ LeafPositions(w) = {<<0, j>> : j \in 0..(Size - 1)}
        /\ LeafPositions(tree) = {<<0, j>> : j \in 0..(Size - 1)}
    BY <2>3, LeafCount DEF BanInv
  <2>5. LeafHashes(w) = LeafHashes(tree)
    BY <2>3, <2>4 DEF LeafHashes
  <2> QED
    BY <2>1, <2>5
<1> QED
  BY <1>1, <1>4, <1>5, OutQuiet

\* The user whose removal is published has no leaf.
LEMMA OutAnnounce ==
  ASSUME TypeOK, OutInv, NEW d \in Deliveries, Announce(d)
  PROVE  OutInv'
BY DEF OutInv, ProofsHadLeaf, NoLeafLeft, Sent, TypeOK, Announce, Goto, frameVars, dbVars

\* No step breaks it.
LEMMA OutStep == DistinctMembers /\ TypeOK /\ BanInv /\ OutInv /\ [Next]_vars => OutInv'
<1> SUFFICES ASSUME DistinctMembers, TypeOK, BanInv, OutInv, [Next]_vars PROVE OutInv'
  OBVIOUS
<1>0. /\ DOMAIN pc = Deliveries
      /\ tree' = tree => LeafHashes(tree)' = LeafHashes(tree)
  BY DEF TypeOK
<1> USE DEF Goto, frameVars, treeVars, dbVars
<1>1. CASE Tick
  BY <1>0, <1>1, OutQuiet DEF Tick
<1>2. ASSUME NEW d \in Deliveries, NEW u \in Users, Send(d, u) PROVE OutInv'
  BY <1>2, OutSend
<1>3. ASSUME NEW d \in Deliveries, NEW o \in Deliveries, Redeliver(o, d) PROVE OutInv'
  BY <1>3, OutSend
<1>4. ASSUME NEW d \in Deliveries, Receive(d) PROVE OutInv'
  BY <1>0, <1>4, OutQuiet DEF Receive
<1>5. ASSUME NEW d \in Deliveries, Step(d) PROVE OutInv'
  <2>1. CASE CheckDuplicate(d)
    BY <1>0, <2>1, OutQuiet DEF CheckDuplicate
  <2>2. CASE CheckProof(d)
    BY <1>0, <2>2, OutQuiet DEF CheckProof
  <2>3. CASE CheckSpam(d)
    BY <1>0, <2>3, OutQuiet DEF CheckSpam
  <2>4. CASE RecoverSecret(d)
    BY <1>0, <2>4, OutQuiet DEF RecoverSecret
  <2>5. CASE FindBanned(d)
    BY <1>0, <2>5, OutQuiet DEF FindBanned
  <2>6. CASE SaveBanned(d)
    BY <1>0, <2>6, OutQuiet DEF SaveBanned
  <2>7. CASE ZeroLeaf(d)
    BY <2>7, OutZeroLeaf
  <2>8. CASE Climb(d)
    BY <2>8, OutClimb
  <2>9. CASE Announce(d)
    BY <2>9, OutAnnounce
  <2>10. CASE Persist(d)
    BY <1>0, <2>10, OutQuiet DEF Persist
  <2>11. CASE SaveStats(d)
    BY <1>0, <2>11, OutQuiet DEF SaveStats
  <2>12. CASE Broadcast(d)
    BY <1>0, <2>12, OutQuiet DEF Broadcast
  <2> QED
    BY <1>5, <2>1, <2>2, <2>3, <2>4, <2>5, <2>6, <2>7, <2>8, <2>9, <2>10, <2>11, <2>12
    DEF Step
<1>6. ASSUME NEW S \in SUBSET Active, Kill(S) PROVE OutInv'
  BY <1>0, <1>6, OutQuiet DEF Kill, Active, Running
<1>7. CASE UNCHANGED vars
  BY <1>0, <1>7, OutQuiet DEF vars
<1> QED
  BY <1>1, <1>2, <1>3, <1>4, <1>5, <1>6, <1>7 DEF Next

\* The invariant behind RemovedStaysOut: proofs had a leaf, the removed have none.
THEOREM OutInductive == ASSUME DistinctMembers PROVE Spec => []OutInv
<1>1. Init => OutInv
  BY DEF Init, OutInv, ProofsHadLeaf, NoLeafLeft, Sent
<1>2. TypeOK /\ BanInv /\ OutInv /\ [Next]_vars => OutInv'
  BY OutStep
<1> QED
  BY <1>1, <1>2, TypeCorrect, BanInductive, PTL DEF Spec

\* The proof of a user who is gone is for a root that the server does not have.
LEMMA OldProofRejected ==
  ASSUME TypeOK, BanInv, RootInv, OutInv, Cardinality(BannedIds) <= 1,
         NEW d \in Deliveries, pc[d] = "root", CheckProof(d), msg[d].user \in announced
  PROVE  pc'[d] # "spam?"
<1>1. FewBans
  BY AtMostOneBan DEF FewBans
<1>2. PICK m \in 0..(Size - 1) : Right(tree, {m})
  BY <1>1 DEF RootInv, Untouched, Midway, Aborted, Done
<1>3. PICK t : Shape(t, Size) /\ view[d] = ReferenceRoot(t) /\ msg[d].user \in LeafHashes(t)
  BY DEF OutInv, ProofsHadLeaf, Sent
<1>4. ReferenceRoot(tree) # view[d]
  BY <1>3, SameRootSameMembers DEF OutInv, NoLeafLeft, BanInv
<1>5. ASSUME NEW r \in Roots(tree) PROVE tree[r].hash # view[d]
  BY <1>2, <1>4, RootOfRightTree DEF BanInv
<1> QED
  BY <1>5 DEF CheckProof, Goto, TypeOK

\* Once TREE_UPDATE was published for a banned user, no frame of that user gets
\* past the proof check any more, not even one whose proof was made before
\* (isZkProofValid against the root that findRoot returns).
THEOREM RemovedStaysOutHolds == ASSUME DistinctMembers PROVE Spec => RemovedStaysOut
<1>1. ASSUME TypeOK, BanInv, RootInv, OutInv, [Next]_vars, NEW d \in Deliveries,
             pc[d] = "root", pc'[d] = "spam?", Cardinality(BannedIds) <= 1
      PROVE  msg[d].user \notin announced
  <2>0. DOMAIN pc = Deliveries
    BY <1>1 DEF TypeOK
  <2> USE DEF Goto, frameVars, treeVars, dbVars
  <2>1. ASSUME NEW e \in Deliveries, Step(e) PROVE CheckProof(d)
    <3>1. e = d
      BY <1>1, <2>0, <2>1 DEF Step, CheckDuplicate, CheckProof, CheckSpam, RecoverSecret, FindBanned,
        SaveBanned, ZeroLeaf, Climb, Wrote, Announce, Persist, SaveStats, Broadcast
    <3> QED
      BY <1>1, <2>0, <2>1, <3>1 DEF Step, CheckDuplicate, CheckSpam, RecoverSecret, FindBanned,
        SaveBanned, ZeroLeaf, Climb, Announce, Persist, SaveStats, Broadcast
  <2>2. CASE \E e \in Deliveries : Step(e)
    BY <1>1, <2>1, <2>2, OldProofRejected
  <2>3. CASE ~ \E e \in Deliveries : Step(e)
    <3>1. \A e \in Deliveries, u \in Users : Send(e, u) => pc'[d] # "spam?"
      BY <1>1, <2>0 DEF Send
    <3>2. \A e \in Deliveries, o \in Deliveries : Redeliver(o, e) => pc'[d] # "spam?"
      BY <1>1, <2>0 DEF Redeliver
    <3>3. \A e \in Deliveries : Receive(e) => pc'[d] # "spam?"
      BY <1>1, <2>0 DEF Receive
    <3>4. \A S \in SUBSET Active : Kill(S) => pc'[d] # "spam?"
      BY <1>1, <2>0 DEF Kill
    <3>5. Tick \/ UNCHANGED vars => pc'[d] # "spam?"
      BY <1>1 DEF Tick, vars
    <3> QED
      BY <1>1, <2>3, <3>1, <3>2, <3>3, <3>4, <3>5 DEF Next
  <2> QED
    BY <2>2, <2>3
<1>2. TypeOK /\ BanInv /\ RootInv /\ OutInv /\ [Next]_vars
      => [\A d \in Deliveries :
            (pc[d] = "root" /\ pc'[d] = "spam?" /\ Cardinality(BannedIds) <= 1)
              => msg[d].user \notin announced]_vars
  BY <1>1
<1> QED
  BY <1>2, TypeCorrect, RootInductive, OutInductive, PTL DEF Spec, RemovedStaysOut
=============================================================================
