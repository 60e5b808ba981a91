----------------------------- MODULE KafkaBroker -----------------------------
(***************************************************************************)
(* broker/kafka.py: one topic of one partition, read by the generators of  *)
(* one consumer group.  Groups share the log and nothing else.             *)
(*                                                                         *)
(* The client (confluent-kafka over librdkafka) and the cluster are not    *)
(* under src/: they are modelled from the configuration the code gives     *)
(* them.  The producer is idempotent with acks=all: messages reach the log *)
(* in the order of produce(), or fail.  The consumer starts at the group's *)
(* committed offset, or at the end of the log when there is none ("latest")*)
(* and with enable.auto.commit a message counts as processed as soon as    *)
(* poll() hands it out: its offset is committed at any time after that, on *)
(* close() and when the partition moves to another member.  Other clients  *)
(* of the cluster may write to the topic too: what they write need not be  *)
(* a message publish() could have written.                                 *)
(*                                                                         *)
(* A generator is one call of consume():                                   *)
(*                                                                         *)
(*   idle       its body has not run                                       *)
(*   polling    suspended in to_thread(consumer.poll)                      *)
(*   returned   poll() has returned a message in its thread, the event     *)
(*              loop has not resumed the generator yet                     *)
(*   holding    suspended at `yield`: the caller has the message           *)
(*   abandoned  the caller left its loop; aclose() is due                  *)
(*   closed     the finally block has run                                  *)
(*   dead       the process died                                           *)
(***************************************************************************)
EXTENDS Integers, Sequences, FiniteSets

CONSTANTS
  Gens,       \* generators: every call of consume() in a behaviour
  QueueMax,   \* capacity of the producer's queue
  MaxPublish, \* bound on the messages written
  MaxStarts,  \* bound on the processes started
  MaxFaults,  \* bound on crashes and on sessions the cluster gives up
  MaxForeign, \* bound on those other clients wrote
  Foreign,    \* what they wrote, which no consumer can use
  None        \* no offset, no generator

ASSUME KafkaAssumption ==
  /\ IsFiniteSet(Gens)
  /\ QueueMax \in Nat \ {0}
  /\ MaxPublish \in Nat /\ MaxStarts \in Nat /\ MaxFaults \in Nat /\ MaxForeign \in Nat
  /\ Foreign \notin Nat
  /\ None \notin Nat /\ None \notin Gens

VARIABLES
  running,     \* self._running
  producer,    \* self._producer is not None
  pending,     \* the producer's queue: messages produced and not delivered
  consumers,   \* self._consumers
  pc,          \* per generator, where it is suspended
  got,         \* per generator, the offset poll() returned last, or None
  log,         \* the partition: the messages delivered to it
  committed,   \* the group's committed offset, or None
  member,      \* generators whose Consumer is not closed
  owner,       \* the member the partition is assigned to, or None
  position,    \* per generator, the next offset poll() hands out
  stored,      \* per generator, the offset to commit, or None
  published,   \* history: messages written by publish() or by another client
  starts,      \* history: calls of start()
  begin,       \* history: where the group's first assignment began, or None
  skipped,     \* history: offsets a later assignment jumped over
  taken,       \* history: offsets poll() handed out
  received,    \* history: per generator, the offsets yielded
  handled,     \* history: offsets the caller came back from
  interrupted, \* history: messages taken from a caller, or never given to it
  faults       \* history: crashes and lost sessions

brokerVars == <<running, producer, consumers>>
logVars == <<pending, log, published>>
groupVars == <<committed, member, owner, position, stored, begin, skipped, taken>>
genVars == <<pc, got, received, handled, interrupted>>
countVars == <<starts, faults>>
vars == <<brokerVars, logVars, groupVars, genVars, countVars>>

Init ==
  /\ running = FALSE /\ producer = FALSE /\ consumers = {}
  /\ pending = <<>> /\ log = <<>> /\ published = 0
  /\ committed = None /\ member = {} /\ owner = None /\ begin = None
  /\ skipped = {} /\ taken = {}
  /\ position = [g \in Gens |-> 0] /\ stored = [g \in Gens |-> None]
  /\ pc = [g \in Gens |-> "idle"] /\ got = [g \in Gens |-> None]
  /\ received = [g \in Gens |-> <<>>] /\ handled = {} /\ interrupted = 0
  /\ starts = 0 /\ faults = 0

-----------------------------------------------------------------------------
\* What the group has committed once the partition is taken from `owner` in
\* good order: on close() and on a rebalance the stored offset goes first.
Handover == IF owner # None /\ stored[owner] # None THEN stored[owner] ELSE committed

\* The owner loses the partition, and with it its place in the log.
Unassign ==
  /\ owner' = None
  /\ position' = [position EXCEPT ![owner] = 0]
  /\ stored' = [stored EXCEPT ![owner] = None]

\* The members in S leave the group by close().
LeaveGroup(S) ==
  /\ member' = member \ S
  /\ \/ owner \in S /\ committed' = Handover /\ Unassign
     \/ owner \notin S /\ UNCHANGED <<committed, owner, position, stored>>
  /\ UNCHANGED <<begin, skipped, taken>>

\* The finally block.
Finish(g) ==
  /\ LeaveGroup({g})
  /\ consumers' = consumers \ {g}
  /\ pc' = [pc EXCEPT ![g] = "closed"]
  /\ UNCHANGED <<running, producer>>

\* `while self._running`, then poll() in a thread.
Loop(g) ==
  \/ /\ running
     /\ pc' = [pc EXCEPT ![g] = "polling"]
     /\ UNCHANGED <<brokerVars, groupVars>>
  \/ ~running /\ Finish(g)

-----------------------------------------------------------------------------
\* start(), in a process that has just been started or was stopped.
Start ==
  /\ ~producer /\ starts < MaxStarts
  /\ running' = TRUE /\ producer' = TRUE /\ starts' = starts + 1
  /\ UNCHANGED <<consumers, logVars, groupVars, genVars, faults>>

\* stop() up to the producer's flush(), which runs in a thread.
StopRequest ==
  /\ running
  /\ running' = FALSE
  /\ UNCHANGED <<producer, consumers, logVars, groupVars, genVars, countVars>>

\* The rest of stop(): what ten seconds did not deliver is dropped with the
\* producer, and every consumer is closed, whatever its generator is doing.
StopEnd ==
  /\ ~running /\ producer
  /\ producer' = FALSE
  /\ pending' = <<>>
  /\ LeaveGroup(consumers)
  /\ consumers' = {}
  /\ UNCHANGED <<running, log, published, genVars, countVars>>

\* produce() raises BufferError on a full queue and RuntimeError without a
\* producer; neither changes anything.
Publish ==
  /\ producer /\ published < MaxPublish /\ Len(pending) < QueueMax
  /\ pending' = Append(pending, published)
  /\ published' = published + 1
  /\ UNCHANGED <<brokerVars, log, groupVars, genVars, countVars>>

\* The oldest message reaches the log, or fails and is only logged
\* (_on_delivery).
Deliver ==
  /\ pending # <<>>
  /\ pending' = Tail(pending)
  /\ log' = Append(log, Head(pending))
  /\ UNCHANGED <<brokerVars, published, groupVars, genVars, countVars>>

FailDelivery ==
  /\ pending # <<>>
  /\ pending' = Tail(pending)
  /\ UNCHANGED <<brokerVars, log, published, groupVars, genVars, countVars>>

Unusable == {o \in 0..(Len(log) - 1) : log[o + 1] = Foreign}

\* Another client of the cluster writes to the topic.
Intrude ==
  /\ Cardinality(Unusable) < MaxForeign /\ published < MaxPublish
  /\ log' = Append(log, Foreign)
  /\ published' = published + 1
  /\ UNCHANGED <<brokerVars, pending, groupVars, genVars, countVars>>

\* First step of the generator.
Subscribe(g) ==
  /\ pc[g] = "idle" /\ starts > 0
  /\ \/ /\ running
        /\ consumers' = consumers \union {g}
        /\ member' = member \union {g}
        /\ pc' = [pc EXCEPT ![g] = "polling"]
     \/ /\ ~running
        /\ pc' = [pc EXCEPT ![g] = "closed"]
        /\ UNCHANGED <<consumers, member>>
  /\ UNCHANGED <<running, producer, logVars, committed, owner, position, stored, begin,
                 skipped, taken, got, received, handled, interrupted, countVars>>

\* Mutant: the offset of the message is stored, not that of the next one.
PollReturnsBehind(g) ==
  /\ pc[g] = "polling" /\ owner = g /\ position[g] < Len(log)
  /\ pc' = [pc EXCEPT ![g] = "returned"]
  /\ got' = [got EXCEPT ![g] = position[g]]
  /\ position' = [position EXCEPT ![g] = @ + 1]
  /\ stored' = [stored EXCEPT ![g] = position[g]]
  /\ taken' = taken \union {position[g]}
  /\ UNCHANGED <<brokerVars, logVars, committed, member, owner, begin, skipped,
                 received, handled, interrupted, countVars>>

\* poll() hands out the next message, and its offset is stored.
PollReturns(g) ==
  /\ pc[g] = "polling" /\ owner = g /\ position[g] < Len(log)
  /\ pc' = [pc EXCEPT ![g] = "returned"]
  /\ got' = [got EXCEPT ![g] = position[g]]
  /\ position' = [position EXCEPT ![g] = @ + 1]
  /\ stored' = [stored EXCEPT ![g] = position[g] + 1]
  /\ taken' = taken \union {position[g]}
  /\ UNCHANGED <<brokerVars, logVars, committed, member, owner, begin, skipped,
                 received, handled, interrupted, countVars>>

\* Mutant: poll() is called without a timeout, and nothing wakes it up.
PollForever(g) ==
  /\ pc[g] = "polling"
  /\ ~running /\ g \notin member /\ starts = 0
  /\ Finish(g)
  /\ UNCHANGED <<logVars, got, received, handled, interrupted, countVars>>

\* poll() returns nothing or an error, or raises because stop() has closed
\* the consumer: the loop goes round, or the generator ends.
PollFails(g) ==
  /\ pc[g] = "polling"
  /\ ~running \/ g \notin member
  /\ Finish(g)
  /\ UNCHANGED <<logVars, got, received, handled, interrupted, countVars>>

\* The generator is resumed with the message and yields it.
Yield(g) ==
  /\ pc[g] = "returned" /\ got[g] \notin Unusable
  /\ pc' = [pc EXCEPT ![g] = "holding"]
  /\ received' = [received EXCEPT ![g] = Append(@, got[g])]
  /\ UNCHANGED <<brokerVars, logVars, groupVars, got, handled, interrupted, countVars>>

\* A foreign message without a value is passed over.
PassOver(g) ==
  /\ pc[g] = "returned" /\ got[g] \in Unusable
  /\ Loop(g)
  /\ UNCHANGED <<logVars, got, received, handled, interrupted, countVars>>

\* The key or a header of a foreign message is not UTF-8, and decode() raises:
\* the generator ends, and its caller's loop with it.
Undecodable(g) ==
  /\ pc[g] = "returned" /\ got[g] \in Unusable
  /\ Finish(g)
  /\ UNCHANGED <<logVars, got, received, handled, interrupted, countVars>>

\* The caller is done with the message and asks for the next one.
Resume(g) ==
  /\ pc[g] = "holding"
  /\ handled' = handled \union {got[g]}
  /\ Loop(g)
  /\ UNCHANGED <<logVars, got, received, interrupted, countVars>>

\* The caller leaves its loop, done with the message or in the middle of it
\* (`break`, an exception, a cancellation): aclose() is left to the event loop.
Abandon(g) ==
  /\ pc[g] = "holding"
  /\ pc' = [pc EXCEPT ![g] = "abandoned"]
  /\ \/ handled' = handled \union {got[g]} /\ UNCHANGED interrupted
     \/ interrupted' = interrupted + 1 /\ UNCHANGED handled
  /\ UNCHANGED <<brokerVars, logVars, groupVars, got, received, countVars>>

Finalise(g) ==
  /\ pc[g] = "abandoned"
  /\ Finish(g)
  /\ UNCHANGED <<logVars, got, received, handled, interrupted, countVars>>

\* The task awaiting poll() is cancelled.  The thread goes on: what it has
\* returned, or returns before close(), goes nowhere.
Cancel(g) ==
  /\ pc[g] \in {"polling", "returned"}
  /\ interrupted' =
       IF pc[g] = "returned" /\ got[g] \notin Unusable THEN interrupted + 1 ELSE interrupted
  /\ Finish(g)
  /\ UNCHANGED <<logVars, got, received, handled, countVars>>

-----------------------------------------------------------------------------
\* What an assignment at the end of the log jumps over: messages that came
\* since the group began and that nobody was handed.
JumpedOver == (begin..(Len(log) - 1)) \ taken

\* Mutant: the group starts at the end of the log whatever it has committed.
AssignLatest(g) ==
  /\ owner = None /\ g \in member
  /\ owner' = g
  /\ position' = [position EXCEPT ![g] = Len(log)]
  /\ stored' = [stored EXCEPT ![g] = None]
  /\ begin' = IF begin = None THEN Len(log) ELSE begin
  /\ skipped' = IF begin # None /\ committed = None THEN skipped \union JumpedOver ELSE skipped
  /\ UNCHANGED <<brokerVars, logVars, committed, member, taken, genVars, countVars>>

\* The cluster assigns the partition to a member.  As long as the group has
\* committed nothing, it starts at the end of the log once more.
Assign(g) ==
  /\ owner = None /\ g \in member
  /\ owner' = g
  /\ position' = [position EXCEPT ![g] = IF committed = None THEN Len(log) ELSE committed]
  /\ stored' = [stored EXCEPT ![g] = None]
  /\ begin' = IF begin = None THEN Len(log) ELSE begin
  /\ skipped' = IF begin # None /\ committed = None THEN skipped \union JumpedOver ELSE skipped
  /\ UNCHANGED <<brokerVars, logVars, committed, member, taken, genVars, countVars>>

\* The client commits in the background.
AutoCommit ==
  /\ committed # Handover
  /\ committed' = Handover
  /\ UNCHANGED <<brokerVars, logVars, member, owner, position, stored, begin,
                 skipped, taken, genVars, countVars>>

\* A rebalance takes the partition from its owner, which commits first.
Revoke ==
  /\ owner # None /\ member # {owner}
  /\ committed' = Handover
  /\ Unassign
  /\ UNCHANGED <<brokerVars, logVars, member, begin, skipped, taken, genVars, countVars>>

\* The cluster gives up the owner's session (a handler that took too long, a
\* network failure): nothing is committed, and the member will rejoin.
Evict ==
  /\ owner # None /\ faults < MaxFaults
  /\ Unassign
  /\ faults' = faults + 1
  /\ UNCHANGED <<brokerVars, logVars, committed, member, begin, skipped, taken, genVars, starts>>

\* The process dies: generators, queue and consumers go with it.
Crash ==
  LET alive == {g \in Gens : pc[g] \notin {"idle", "closed", "dead"}}
      robbed == {g \in alive : pc[g] \in {"returned", "holding"} /\ got[g] \notin Unusable}
  IN
  /\ producer /\ faults < MaxFaults
  /\ running' = FALSE /\ producer' = FALSE /\ consumers' = {}
  /\ pending' = <<>>
  /\ member' = {}
  /\ \/ owner # None /\ Unassign
     \/ owner = None /\ UNCHANGED <<owner, position, stored>>
  /\ pc' = [g \in Gens |-> IF g \in alive THEN "dead" ELSE pc[g]]
  /\ interrupted' = interrupted + Cardinality(robbed)
  /\ faults' = faults + 1
  /\ UNCHANGED <<log, published, committed, begin, skipped, taken, got, received,
                 handled, starts>>

ProcessStep == Start \/ StopRequest \/ StopEnd \/ Publish

GeneratorStep(g) ==
  \/ Subscribe(g) \/ PollReturns(g) \/ PollFails(g)
  \/ Yield(g) \/ PassOver(g) \/ Undecodable(g)
  \/ Resume(g) \/ Abandon(g) \/ Finalise(g) \/ Cancel(g)

ClusterStep ==
  \/ Deliver \/ FailDelivery \/ Intrude \/ AutoCommit \/ Revoke
  \/ \E g \in Gens : Assign(g)

Next ==
  \/ ProcessStep \/ ClusterStep \/ Evict \/ Crash
  \/ \E g \in Gens : GeneratorStep(g)

Spec == Init /\ [][Next]_vars

\* poll() returns within its timeout, the event loop resumes what it can, a
\* caller comes back for the next message, flush() ends within its timeout.
Fairness ==
  /\ WF_vars(StopEnd)
  /\ \A g \in Gens :
       /\ WF_vars(PollFails(g)) /\ WF_vars(Yield(g) \/ PassOver(g) \/ Undecodable(g))
       /\ WF_vars(Resume(g)) /\ WF_vars(Finalise(g))

FairSpec == Spec /\ Fairness

-----------------------------------------------------------------------------
InHand == {got[g] : g \in {h \in Gens : pc[h] \in {"returned", "holding"}}}

\* What the group has passed: up to where its owner reads on, or up to what
\* it has committed when nobody reads.
Passed ==
  LET place == IF owner # None THEN position[owner] ELSE committed
  IN IF place = None THEN {} ELSE begin..(place - 1)

KafkaTypeOK ==
  /\ running \in BOOLEAN /\ producer \in BOOLEAN
  /\ consumers \subseteq Gens /\ member \subseteq Gens
  /\ pending \in Seq(Nat) /\ log \in Seq(Nat \union {Foreign})
  /\ published \in Nat /\ starts \in Nat /\ faults \in Nat /\ interrupted \in Nat
  /\ committed \in Nat \union {None} /\ begin \in Nat \union {None}
  /\ owner \in member \union {None}
  /\ position \in [Gens -> Nat] /\ stored \in [Gens -> Nat \union {None}]
  /\ got \in [Gens -> Nat \union {None}]
  /\ received \in [Gens -> Seq(Nat)] /\ handled \subseteq Nat
  /\ skipped \subseteq Nat /\ taken \subseteq Nat

(***************************************************************************)
(* What a group may miss.  Of the usable messages that reached the topic   *)
(* since its first assignment and that it has passed, every one was        *)
(* handled or is in the hands of a caller, but for two kinds: those an     *)
(* interruption (a cancelled await or caller, a crash) took away after     *)
(* poll() had acknowledged them, one each; and those nobody was handed     *)
(* before the group was assigned anew with nothing committed yet, when it  *)
(* starts at "latest" again (`skipped`, without bound: a restart, a        *)
(* rebalance or a lost session before the first commit).  After the first  *)
(* commit only the former occur, whatever crashes, restarts or moves.      *)
(***************************************************************************)
OneLossPerInterruption ==
  Cardinality(Passed \ (handled \union InHand \union Unusable \union skipped)) <= interrupted

(***************************************************************************)
(* Until the first crash or lost session the transport keeps the promise   *)
(* it shares with the in-memory broker: every step of it is a step of      *)
(* TopicFanout, in order and at most once in the group, through rebalances,*)
(* cancellations, takeovers and a restart of the broker.  After a fault    *)
(* messages are delivered again.                                           *)
(***************************************************************************)
Fanout == INSTANCE TopicFanout WITH
  Subs <- Gens, GroupOf <- [g \in Gens |-> "group"],
  published <- Len(log), delivered <- received

FanoutUntilFault == [][faults' = 0 => Fanout!Next]_<<Len(log), received>>

(***************************************************************************)
(* The iterator ends once stop() is called (broker/base.py: "until the     *)
(* caller stops consuming or stop is called"), whatever the broker's       *)
(* consumers were doing when they were closed under them.                  *)
(***************************************************************************)
StopEndsPolling ==
  <>[]~running => \A g \in Gens : <>[](pc[g] \in {"idle", "closed", "dead"})
=============================================================================
