---------------------------- MODULE TopicFanout ----------------------------
(***************************************************************************)
(* What a broker promises about one topic, whatever carries the messages.  *)
(*                                                                         *)
(* Publishing numbers the messages 0, 1, 2, ...  A subscriber is one call  *)
(* of consume(): it is handed messages in increasing order of offset, and  *)
(* a message is never handed to two subscribers of the same group.  A      *)
(* subscriber may miss messages (it joined late, it left, it was slow): the *)
(* promise is about order and duplication, groups do not share anything.   *)
(***************************************************************************)
EXTENDS Integers, Sequences

CONSTANTS
  Subs,      \* the subscribers: calls of consume()
  GroupOf    \* the consumer group each subscriber joins

VARIABLES
  published, \* number of messages published, which is the next offset
  delivered  \* per subscriber, the offsets handed to it, in order

vars == <<published, delivered>>

Init ==
  /\ published = 0
  /\ delivered = [s \in Subs |-> <<>>]

Publish ==
  /\ published' = published + 1
  /\ UNCHANGED delivered

\* Message m was not handed to s, and is newer than all that were.
Newer(m, s) == \A i \in 1..Len(delivered[s]) : delivered[s][i] < m

HandedTo(m, s) == \E i \in 1..Len(delivered[s]) : delivered[s][i] = m

Deliver(s) ==
  \E m \in 0..(published - 1) :
    /\ Newer(m, s)
    /\ \A t \in Subs \ {s} : GroupOf[t] = GroupOf[s] => ~HandedTo(m, t)
    /\ delivered' = [delivered EXCEPT ![s] = Append(@, m)]
    /\ UNCHANGED published

Next == Publish \/ \E s \in Subs : Deliver(s)

Spec == Init /\ [][Next]_vars
=============================================================================
