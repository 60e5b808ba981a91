--------------------------- MODULE InMemoryBroker ---------------------------
(***************************************************************************)
(* broker/memory.py: publish/subscribe over one bounded asyncio.Queue per  *)
(* consumer group, for one topic.  Topics share only _running and the sum  *)
(* of their drops.                                                         *)
(*                                                                         *)
(* A subscriber is one async generator returned by consume().  asyncio is  *)
(* single threaded, so a step is the code between two suspension points:   *)
(*                                                                         *)
(*   idle       consume() was not iterated yet: its body has not run       *)
(*   waiting    suspended in queue.get()                                   *)
(*   holding    suspended at `yield`: the caller has the message           *)
(*   abandoned  the caller left its `async for`; the event loop will run   *)
(*              aclose(), hence the finally block, in a task of its own    *)
(*   closed     the finally block has run                                  *)
(*                                                                         *)
(* The registry maps a group to the subscriber that owns the queue stored  *)
(* in _queues[topic][group].  A subscriber's queue outlives its entry: one *)
(* that was replaced, or cleared by stop(), still drains what it holds.    *)
(***************************************************************************)
EXTENDS Integers, Sequences, FiniteSets

CONSTANTS
  Groups,     \* consumer group names
  Subs,       \* generators: every call of consume() in a behaviour
  GroupOf,    \* the group each generator is asked to join
  MaxSize,    \* maxsize of every queue
  MaxPublish, \* bound on the messages published
  MaxStarts,  \* bound on the calls of start() that find the broker stopped
  Sentinel,   \* _SENTINEL, put by stop()
  None        \* no queue is registered

ASSUME BrokerAssumption ==
  /\ IsFiniteSet(Subs)
  /\ GroupOf \in [Subs -> Groups]
  /\ MaxSize \in Nat \ {0}
  /\ MaxPublish \in Nat
  /\ MaxStarts \in Nat
  /\ Sentinel \notin Nat
  /\ None \notin Subs

VARIABLES
  running,  \* self._running
  starts,   \* calls of start() so far
  offset,   \* self._offsets[topic]: the next offset
  registry, \* self._queues[topic]: group -> owner of the queue, or None
  queue,    \* per generator, its asyncio.Queue
  pc,       \* per generator, where it is suspended
  dropped,  \* self._dropped
  received, \* history: offsets yielded by each generator, in order
  since,    \* history: the next offset when the generator subscribed
  shed      \* history: offsets dropped because this generator's queue was full

vars == <<running, starts, offset, registry, queue, pc, dropped, received, since, shed>>

States == {"idle", "waiting", "holding", "abandoned", "closed"}

Init ==
  /\ running = FALSE
  /\ starts = 0
  /\ offset = 0
  /\ registry = [g \in Groups |-> None]
  /\ queue = [s \in Subs |-> <<>>]
  /\ pc = [s \in Subs |-> "idle"]
  /\ dropped = 0
  /\ received = [s \in Subs |-> <<>>]
  /\ since = [s \in Subs |-> 0]
  /\ shed = [s \in Subs |-> {}]

-----------------------------------------------------------------------------
\* Mutant: a second consume() of a group leaves the first queue registered.
EveryLiveQueue(s) == pc[s] \in {"waiting", "holding", "abandoned"}

\* Mutant: only a consumer that is already waiting is handed a message.
OnlyWaiting(s) == registry[GroupOf[s]] = s /\ pc[s] = "waiting"

Registered(s) == registry[GroupOf[s]] = s

Full(s) == Len(queue[s]) >= MaxSize

\* Mutant: a message goes to the head of the queue, only the sentinel to its end.
PutAtHead(item) ==
  queue' = [s \in Subs |->
              IF Registered(s) /\ ~Full(s)
                THEN IF item = Sentinel THEN Append(queue[s], item) ELSE <<item>> \o queue[s]
                ELSE queue[s]]

\* put_nowait of item on the queue of every registered generator with room.
PutToRegistered(item) ==
  queue' = [s \in Subs |-> IF Registered(s) /\ ~Full(s)
                             THEN Append(queue[s], item) ELSE queue[s]]

\* The finally block: whatever queue the group has now is popped, and the
\* generator's own queue is garbage from here on.
Release(s) ==
  /\ registry' = [registry EXCEPT ![GroupOf[s]] = None]
  /\ pc' = [pc EXCEPT ![s] = "closed"]
  /\ queue' = [queue EXCEPT ![s] = <<>>]

-----------------------------------------------------------------------------
Start ==
  /\ ~running
  /\ starts < MaxStarts
  /\ running' = TRUE
  /\ starts' = starts + 1
  /\ UNCHANGED <<offset, registry, queue, pc, dropped, received, since, shed>>

\* Mutant: _queues.clear() is forgotten.
StopKeepsQueues ==
  /\ running
  /\ running' = FALSE
  /\ PutToRegistered(Sentinel)
  /\ UNCHANGED <<starts, offset, registry, pc, dropped, received, since, shed>>

\* Mutant: no sentinel is put.
StopSilently ==
  /\ running
  /\ running' = FALSE
  /\ registry' = [g \in Groups |-> None]
  /\ UNCHANGED <<starts, offset, queue, pc, dropped, received, since, shed>>

\* A full queue gets no sentinel (QueueFull is suppressed).
Stop ==
  /\ running
  /\ running' = FALSE
  /\ PutToRegistered(Sentinel)
  /\ registry' = [g \in Groups |-> None]
  /\ UNCHANGED <<starts, offset, pc, dropped, received, since, shed>>

\* Mutant: QueueFull is suppressed and not counted.
PublishUncounted ==
  /\ running
  /\ offset < MaxPublish
  /\ offset' = offset + 1
  /\ PutToRegistered(offset)
  /\ shed' = [s \in Subs |-> IF Registered(s) /\ Full(s)
                               THEN shed[s] \union {offset} ELSE shed[s]]
  /\ UNCHANGED <<running, starts, registry, pc, dropped, received, since>>

\* Before start() and after stop() publish raises and changes nothing.
Publish ==
  LET refusing == {s \in Subs : Registered(s) /\ Full(s)} IN
  /\ running
  /\ offset < MaxPublish
  /\ offset' = offset + 1
  /\ PutToRegistered(offset)
  /\ dropped' = dropped + Cardinality(refusing)
  /\ shed' = [s \in Subs |-> IF s \in refusing THEN shed[s] \union {offset} ELSE shed[s]]
  /\ UNCHANGED <<running, starts, registry, pc, received, since>>

\* First step of the generator: register the queue, over any other of the
\* group.  On a broker that is not running the loop is not entered, and the
\* finally block pops the entry again.
Subscribe(s) ==
  /\ pc[s] = "idle"
  /\ since' = [since EXCEPT ![s] = offset]
  /\ \/ /\ running
        /\ registry' = [registry EXCEPT ![GroupOf[s]] = s]
        /\ pc' = [pc EXCEPT ![s] = "waiting"]
        /\ UNCHANGED queue
     \/ /\ ~running
        /\ Release(s)
  /\ UNCHANGED <<running, starts, offset, dropped, received, shed>>

\* Mutant: the message is yielded and left at the head of the queue.
TakeAndKeep(s) ==
  \/ /\ Head(queue[s]) = Sentinel
     /\ Release(s)
     /\ UNCHANGED received
  \/ /\ Head(queue[s]) # Sentinel
     /\ received' = [received EXCEPT ![s] = Append(@, Head(queue[s]))]
     /\ pc' = [pc EXCEPT ![s] = "holding"]
     /\ UNCHANGED <<registry, queue>>

\* queue.get() returns: the sentinel ends the loop, a message is yielded.
Take(s) ==
  \/ /\ Head(queue[s]) = Sentinel
     /\ Release(s)
     /\ UNCHANGED received
  \/ /\ Head(queue[s]) # Sentinel
     /\ received' = [received EXCEPT ![s] = Append(@, Head(queue[s]))]
     /\ queue' = [queue EXCEPT ![s] = Tail(@)]
     /\ pc' = [pc EXCEPT ![s] = "holding"]
     /\ UNCHANGED registry

\* The getter wakes up; _running is not read again before the yield.
Wake(s) ==
  /\ pc[s] = "waiting"
  /\ queue[s] # <<>>
  /\ Take(s)
  /\ UNCHANGED <<running, starts, offset, dropped, since, shed>>

\* The caller asks for the next message: `while self._running`, then get(),
\* which suspends only when the queue is empty.
Resume(s) ==
  /\ pc[s] = "holding"
  /\ \/ /\ ~running
        /\ Release(s)
        /\ UNCHANGED received
     \/ /\ running
        /\ queue[s] = <<>>
        /\ pc' = [pc EXCEPT ![s] = "waiting"]
        /\ UNCHANGED <<registry, queue, received>>
     \/ /\ running
        /\ queue[s] # <<>>
        /\ Take(s)
  /\ UNCHANGED <<running, starts, offset, dropped, since, shed>>

\* The caller breaks out of its loop: aclose() is left to the event loop.
Abandon(s) ==
  /\ pc[s] = "holding"
  /\ pc' = [pc EXCEPT ![s] = "abandoned"]
  /\ UNCHANGED <<running, starts, offset, registry, queue, dropped, received, since, shed>>

\* aclose() runs.
Finalise(s) ==
  /\ pc[s] = "abandoned"
  /\ Release(s)
  /\ UNCHANGED <<running, starts, offset, dropped, received, since, shed>>

\* The task awaiting the next message is cancelled inside queue.get().
Cancel(s) ==
  /\ pc[s] = "waiting"
  /\ Release(s)
  /\ UNCHANGED <<running, starts, offset, dropped, received, since, shed>>

Next ==
  \/ Start
  \/ Stop
  \/ Publish
  \/ \E s \in Subs :
       Subscribe(s) \/ Wake(s) \/ Resume(s) \/ Abandon(s) \/ Finalise(s) \/ Cancel(s)

Spec == Init /\ [][Next]_vars

\* The event loop runs every task that can run, and a caller that holds a
\* message comes back for the next one.  Nobody has to publish, subscribe,
\* cancel, start or stop.
Fairness ==
  \A s \in Subs : WF_vars(Wake(s)) /\ WF_vars(Resume(s)) /\ WF_vars(Finalise(s))

FairSpec == Spec /\ Fairness

-----------------------------------------------------------------------------
\* What flush() counts: messages queued for the registered generators.
Pending == [g \in Groups |-> IF registry[g] = None THEN 0 ELSE Len(queue[registry[g]])]

\* Everything a generator got or will still get from its queue, in order.
Stream(s) == received[s] \o queue[s]

Offsets(seq) == {seq[i] : i \in 1..Len(seq)} \ {Sentinel}

\* What a queue can hold.
Item == Nat \union {Sentinel}

TypeOK ==
  /\ running \in BOOLEAN
  /\ starts \in Nat
  /\ offset \in Nat
  /\ registry \in [Groups -> Subs \union {None}]
  /\ queue \in [Subs -> Seq(Item)]
  /\ pc \in [Subs -> States]
  /\ dropped \in Nat
  /\ received \in [Subs -> Seq(Nat)]
  /\ since \in [Subs -> Nat]
  /\ shed \in [Subs -> SUBSET Nat]

(***************************************************************************)
(* A queue never exceeds its capacity, and a queue that stop() marked ends *)
(* with its only sentinel: nothing is ever put behind it.                  *)
(***************************************************************************)
QueueShape ==
  \A s \in Subs :
    /\ Len(queue[s]) <= MaxSize
    /\ \A i \in 1..Len(queue[s]) : queue[s][i] = Sentinel => i = Len(queue[s])

(***************************************************************************)
(* An entry of the registry belongs to a generator of that group that has  *)
(* not run its finally block, and none survives stop().                    *)
(***************************************************************************)
RegistryLive ==
  \A g \in Groups :
    registry[g] # None =>
      /\ running
      /\ GroupOf[registry[g]] = g
      /\ pc[registry[g]] \in {"waiting", "holding", "abandoned"}

(***************************************************************************)
(* A generator that is registered holds no sentinel.                       *)
(***************************************************************************)
NoSentinelWhileRegistered ==
  \A s \in Subs : Registered(s) =>
    \A i \in 1..Len(queue[s]) : queue[s][i] # Sentinel

(***************************************************************************)
(* The three together: stop() can mark every live queue, a marked queue is *)
(* never written again, and the finally block of a replaced generator or   *)
(* of one that outlived a restart leaves the registry consistent.          *)
(***************************************************************************)
QueueDiscipline == QueueShape /\ RegistryLive /\ NoSentinelWhileRegistered

(***************************************************************************)
(* Offsets reach a generator in the order in which they were published,    *)
(* each at most once, however publishing, waking, stopping and restarting  *)
(* interleave, and without a gap if its queue never filled                 *)
(* (broker/memory.py mirrors "monotonic offsets within a topic").          *)
(***************************************************************************)
StreamIncreasing ==
  \A s \in Subs :
    /\ \A i \in 1..Len(Stream(s)) : Stream(s)[i] # Sentinel => Stream(s)[i] < offset
    /\ \A i, j \in 1..Len(Stream(s)) :
         i < j /\ Stream(s)[j] # Sentinel => Stream(s)[i] < Stream(s)[j]

GapsOnlyFromShedding ==
  \A s \in Subs : shed[s] = {} =>
    \A i \in 1..Len(received[s]) : received[s][i] = since[s] + i - 1

StreamInOrder == StreamIncreasing /\ GapsOnlyFromShedding

(***************************************************************************)
(* No message reaches two generators of one group, although consume() may  *)
(* replace a group's queue while the replaced generator still drains its   *)
(* own: a second consumer of a group never makes the pipeline handle a     *)
(* message twice.                                                          *)
(***************************************************************************)
AtMostOncePerGroup ==
  \A s, t \in Subs :
    s # t /\ GroupOf[s] = GroupOf[t] =>
      Offsets(Stream(s)) \intersect Offsets(Stream(t)) = {}

(***************************************************************************)
(* While a generator is registered, every offset published since it joined *)
(* was yielded by it, is in its queue, or was shed because that queue was  *)
(* full; and the broker's counter is exactly the number of messages shed.  *)
(* Load shedding is visible, and nothing else loses a message.             *)
(***************************************************************************)
EveryOffsetAccounted ==
  /\ \A s \in Subs : Registered(s) =>
       Offsets(Stream(s)) \union shed[s] = since[s]..(offset - 1)
  /\ dropped = Cardinality({d \in Subs \X (0..MaxPublish) : d[2] \in shed[d[1]]})

(***************************************************************************)
(* Once the broker is stopped for good, a generator that is registered     *)
(* runs to its end, although stop() cannot mark a queue that is full (base *)
(* class: "until the caller stops consuming or stop is called").  Nothing  *)
(* ends one that lost its entry before, to another of its group or to the  *)
(* finally block of the one it replaced: stop() no longer knows its queue. *)
(***************************************************************************)
Ousted(s) == running /\ ~Registered(s)

StopEndsIteration ==
  <>[]~running =>
    \A s \in Subs : Registered(s) ~> (pc[s] = "closed" \/ Ousted(s))

(***************************************************************************)
(* The broker implements the fan-out promise.                              *)
(***************************************************************************)
Fanout == INSTANCE TopicFanout WITH published <- offset, delivered <- received

FanoutSpec == Fanout!Spec
=============================================================================
