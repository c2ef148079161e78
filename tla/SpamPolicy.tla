----------------------------- MODULE SpamPolicy -----------------------------
(***************************************************************************)
(* What the chat server promises about rate limiting, without the way it   *)
(* is done: per sender and epoch at most Budget messages are counted, only *)
(* counted messages reach the other users, and a sender is expelled only   *)
(* when it used up at least Threshold messages of one epoch.               *)
(***************************************************************************)
EXTENDS Naturals, FiniteSets

CONSTANTS
  Requests,   \* the frames that reach the server
  Senders,    \* identity commitments
  Periods,    \* epochs
  Threshold,  \* messages of one epoch that justify an expulsion
  Budget      \* messages of one epoch that can be counted at all

VARIABLES
  counted,    \* the counted messages, as [id, sender, period]
  delivered,  \* the requests that were broadcast
  expelled    \* the senders that were banned

vars == <<counted, delivered, expelled>>

CountedOf(u, e) == {c \in counted : c.sender = u /\ c.period = e}

Init == counted = {} /\ delivered = {} /\ expelled = {}

Count(id, u, e) ==
  /\ \A c \in counted : c.id # id
  /\ Cardinality(CountedOf(u, e)) < Budget
  /\ counted' = counted \cup {[id |-> id, sender |-> u, period |-> e]}
  /\ UNCHANGED <<delivered, expelled>>

Deliver(id) ==
  /\ \E c \in counted : c.id = id
  /\ delivered' = delivered \cup {id}
  /\ UNCHANGED <<counted, expelled>>

Expel(u) ==
  /\ \E e \in Periods : Cardinality(CountedOf(u, e)) >= Threshold
  /\ expelled' = expelled \cup {u}
  /\ UNCHANGED <<counted, delivered>>

Next ==
  \/ \E id \in Requests, u \in Senders, e \in Periods : Count(id, u, e)
  \/ \E id \in Requests : Deliver(id)
  \/ \E u \in Senders : Expel(u)

Spec == Init /\ [][Next]_vars
=============================================================================
