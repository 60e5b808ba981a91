------------------------ MODULE InMemoryBrokerProofs ------------------------
(***************************************************************************)
(* Theorems about InMemoryBroker, for any number of groups and generators, *)
(* any queue capacity and any number of messages and restarts.             *)
(***************************************************************************)
EXTENDS InMemoryBroker, SequenceTheorems, FiniteSetTheorems, TLAPS

-----------------------------------------------------------------------------
(***************************************************************************)
(* Two sequences end to end: adding to the second adds to the whole, and   *)
(* moving the head of the second to the end of the first changes nothing.  *)
(***************************************************************************)
LEMMA ConcatAppend ==
  ASSUME NEW S, NEW r \in Seq(S), NEW q \in Seq(S), NEW e \in S
  PROVE  r \o Append(q, e) = Append(r \o q, e)
<1>1. <<e>> \in Seq(S)
  OBVIOUS
<1>2. r \o q \in Seq(S)
  BY ConcatProperties
<1>3. /\ Append(q, e) = q \o <<e>>
      /\ Append(r \o q, e) = (r \o q) \o <<e>>
  BY <1>2, AppendIsConcat
<1>4. (r \o q) \o <<e>> = r \o (q \o <<e>>)
  BY <1>1, ConcatAssociative
<1>5. QED
  BY <1>3, <1>4

\* The head of q moves from the queue to what was received.
LEMMA ConcatHeadTail ==
  ASSUME NEW S, NEW r \in Seq(S), NEW q \in Seq(S), q # <<>>
  PROVE  Append(r, Head(q)) \o Tail(q) = r \o q
<1> DEFINE h == Head(q)
           t == Tail(q)
<1>1. h \in S /\ t \in Seq(S) /\ <<h>> \in Seq(S)
  BY HeadTailProperties
<1>2. q = <<h>> \o t
  BY HeadTailProperties
<1>3. Append(r, h) = r \o <<h>>
  BY <1>1, AppendIsConcat
<1>4. (r \o <<h>>) \o t = r \o (<<h>> \o t)
  <2> HIDE DEF h, t
  <2>1. QED
    BY <1>1, ConcatAssociative
<1>5. QED
  BY <1>2, <1>3, <1>4

\* Where the elements of two concatenated sequences are.
LEMMA ConcatIndex ==
  ASSUME NEW S, NEW r \in Seq(S), NEW q \in Seq(S)
  PROVE  /\ r \o q \in Seq(S)
         /\ Len(r) \in Nat
         /\ Len(q) \in Nat
         /\ Len(r \o q) = Len(r) + Len(q)
         /\ \A i \in 1..Len(r) : (r \o q)[i] = r[i]
         /\ \A i \in 1..Len(q) : (r \o q)[Len(r) + i] = q[i]
<1>1. Len(r) \in Nat /\ Len(q) \in Nat
  BY LenProperties
<1>2. QED
  BY <1>1, ConcatProperties

-----------------------------------------------------------------------------
(***************************************************************************)
(* Seen from the queues, a generator can do five things; Subscribe, Wake   *)
(* and Resume are each a choice between some of them.                      *)
(***************************************************************************)
Join(s) ==
  /\ pc[s] = "idle"
  /\ running
  /\ registry' = [registry EXCEPT ![GroupOf[s]] = s]
  /\ pc' = [pc EXCEPT ![s] = "waiting"]
  /\ since' = [since EXCEPT ![s] = offset]
  /\ UNCHANGED <<running, starts, offset, queue, dropped, received, shed>>

Park(s) ==
  /\ pc[s] = "holding"
  /\ pc' = [pc EXCEPT ![s] = "waiting"]
  /\ UNCHANGED <<running, starts, offset, registry, queue, dropped, received, since, shed>>

Yield(s) ==
  /\ pc[s] \in {"waiting", "holding"}
  /\ queue[s] # <<>>
  /\ Head(queue[s]) # Sentinel
  /\ received' = [received EXCEPT ![s] = Append(@, Head(queue[s]))]
  /\ queue' = [queue EXCEPT ![s] = Tail(@)]
  /\ pc' = [pc EXCEPT ![s] = "holding"]
  /\ UNCHANGED <<running, starts, offset, registry, dropped, since, shed>>

End(s) ==
  /\ Release(s)
  /\ \/ UNCHANGED since
     \/ pc[s] = "idle" /\ since' = [since EXCEPT ![s] = offset]
  /\ UNCHANGED <<running, starts, offset, dropped, received, shed>>

(***************************************************************************)
(* Every step of the broker is one of eight kinds.                         *)
(***************************************************************************)
LEMMA StepKinds ==
  ASSUME Next
  PROVE  \/ Start
         \/ Stop
         \/ Publish
         \/ \E s \in Subs : Join(s) \/ Park(s) \/ Yield(s) \/ End(s) \/ Abandon(s)
<1>1. CASE Start \/ Stop \/ Publish
  BY <1>1
<1>2. ASSUME NEW s \in Subs, Subscribe(s)
      PROVE  Join(s) \/ End(s)
  BY <1>2 DEF Subscribe, Join, End
<1>3. ASSUME NEW s \in Subs, Wake(s)
      PROVE  Yield(s) \/ End(s)
  BY <1>3 DEF Wake, Take, Yield, End
<1>4. ASSUME NEW s \in Subs, Resume(s)
      PROVE  Park(s) \/ Yield(s) \/ End(s)
  BY <1>4 DEF Resume, Take, Park, Yield, End
<1>5. ASSUME NEW s \in Subs, Finalise(s) \/ Cancel(s)
      PROVE  End(s)
  BY <1>5 DEF Finalise, Cancel, End
<1>6. QED
  BY <1>1, <1>2, <1>3, <1>4, <1>5 DEF Next

-----------------------------------------------------------------------------
(***************************************************************************)
(* Type correctness.  What it needs beyond the shape of each assignment:   *)
(* only a message is ever yielded, never the sentinel stop() puts into the *)
(* queue, and the drop counter stays a number because a publish meets      *)
(* finitely many queues.                                                   *)
(***************************************************************************)
LEMMA ItemFacts ==
  /\ Sentinel \in Item
  /\ \A m \in Nat : m \in Item /\ m # Sentinel
  /\ \A x \in Item : x # Sentinel => x \in Nat
  BY BrokerAssumption DEF Item

\* A new broker is well typed.
LEMMA TypeInit == Init => TypeOK
<1> SUFFICES ASSUME Init
             PROVE  TypeOK
  OBVIOUS
<1>1. queue \in [Subs -> Seq(Item)] /\ received \in [Subs -> Seq(Nat)]
  BY EmptySeq DEF Init
<1>2. pc \in [Subs -> States] /\ shed \in [Subs -> SUBSET Nat]
  BY DEF Init, States
<1>3. QED
  BY <1>1, <1>2 DEF Init, TypeOK

\* put_nowait keeps every queue well typed.
LEMMA PutType ==
  ASSUME TypeOK, NEW item \in Item, PutToRegistered(item)
  PROVE  queue' \in [Subs -> Seq(Item)]
  BY AppendProperties DEF TypeOK, PutToRegistered

\* Every step keeps the broker well typed.
LEMMA TypeNext ==
  ASSUME TypeOK, [Next]_vars
  PROVE  TypeOK'
<1> USE BrokerAssumption, ItemFacts
<1>1. CASE Start
  BY <1>1 DEF Start, TypeOK
<1>2. CASE Stop
  BY <1>2, PutType DEF Stop, TypeOK
<1>3. CASE Publish
  <2> DEFINE refusing == {s \in Subs : Registered(s) /\ Full(s)}
  <2>1. Cardinality(refusing) \in Nat
    BY FS_Subset, FS_CardinalityType
  <2>2. dropped' \in Nat
    BY <1>3, <2>1 DEF Publish, TypeOK
  <2>3. queue' \in [Subs -> Seq(Item)]
    BY <1>3, PutType DEF Publish, TypeOK
  <2>4. shed' \in [Subs -> SUBSET Nat]
    BY <1>3 DEF Publish, TypeOK
  <2>5. QED
    BY <1>3, <2>2, <2>3, <2>4 DEF Publish, TypeOK
<1>4. ASSUME NEW s \in Subs, Join(s)
      PROVE  TypeOK'
  BY <1>4 DEF Join, TypeOK, States
<1>5. ASSUME NEW s \in Subs, Park(s) \/ Abandon(s)
      PROVE  TypeOK'
  BY <1>5 DEF Park, Abandon, TypeOK, States
<1>6. ASSUME NEW s \in Subs, Yield(s)
      PROVE  TypeOK'
  <2>1. /\ Head(queue[s]) \in Nat
        /\ Tail(queue[s]) \in Seq(Item)
    BY <1>6, HeadTailProperties DEF Yield, TypeOK
  <2>2. Append(received[s], Head(queue[s])) \in Seq(Nat)
    BY <2>1, AppendProperties DEF TypeOK
  <2>3. QED
    BY <1>6, <2>1, <2>2 DEF Yield, TypeOK, States
<1>7. ASSUME NEW s \in Subs, End(s)
      PROVE  TypeOK'
  BY <1>7, EmptySeq DEF End, Release, TypeOK, States
<1>8. CASE UNCHANGED vars
  BY <1>8 DEF vars, TypeOK
<1>9. QED
  BY <1>1, <1>2, <1>3, <1>4, <1>5, <1>6, <1>7, <1>8, StepKinds

(***************************************************************************)
(* Every state of the broker is well typed; in particular a caller is      *)
(* never handed the sentinel that stop() puts into the queues.             *)
(***************************************************************************)
THEOREM BrokerTypeCorrect == Spec => []TypeOK
  BY TypeInit, TypeNext, PTL DEF Spec

-----------------------------------------------------------------------------
(***************************************************************************)
(* The queue discipline is inductive once one fact is added: a generator   *)
(* whose body has not run holds nothing, so that joining cannot register a *)
(* queue with a sentinel in it.                                            *)
(***************************************************************************)
IdleIsFresh ==
  \A s \in Subs : pc[s] = "idle" => queue[s] = <<>> /\ received[s] = <<>>

Disciplined == QueueDiscipline /\ IdleIsFresh

\* A new broker has empty queues and an empty registry.
LEMMA DisciplinedInit == Init => Disciplined
  BY BrokerAssumption
  DEF Init, Disciplined, QueueDiscipline, IdleIsFresh, QueueShape, RegistryLive,
      NoSentinelWhileRegistered, Registered

(***************************************************************************)
(* What put_nowait does to one queue: it appends to a registered queue     *)
(* with room, and that queue has no sentinel yet.                          *)
(***************************************************************************)
LEMMA PutShape ==
  ASSUME TypeOK, NEW item \in Item, PutToRegistered(item), NEW s \in Subs
  PROVE  \/ queue'[s] = queue[s]
         \/ /\ Registered(s)
            /\ ~Full(s)
            /\ queue'[s] = Append(queue[s], item)
            /\ Len(queue'[s]) = Len(queue[s]) + 1
            /\ \A i \in 1..Len(queue[s]) : queue'[s][i] = queue[s][i]
            /\ queue'[s][Len(queue[s]) + 1] = item
<1>1. queue[s] \in Seq(Item)
  BY DEF TypeOK
<1>2. queue'[s] = IF Registered(s) /\ ~Full(s) THEN Append(queue[s], item) ELSE queue[s]
  BY DEF PutToRegistered
<1>3. QED
  BY <1>1, <1>2, AppendProperties

\* A generator whose body has not run is not registered.
LEMMA PutLeavesIdle ==
  ASSUME TypeOK, Disciplined, NEW item \in Item, PutToRegistered(item),
         NEW s \in Subs, pc[s] = "idle"
  PROVE  queue'[s] = <<>>
<1>1. GroupOf[s] \in Groups /\ s # None
  BY BrokerAssumption
<1>2. ~Registered(s)
  BY <1>1 DEF Registered, Disciplined, QueueDiscipline, RegistryLive
<1>3. QED
  BY <1>2, PutShape DEF Disciplined, IdleIsFresh

\* A put respects the capacity and never follows a sentinel.
LEMMA PutKeepsShape ==
  ASSUME TypeOK, Disciplined, NEW item \in Item, PutToRegistered(item)
  PROVE  QueueShape'
<1> SUFFICES ASSUME NEW s \in Subs
             PROVE  /\ Len(queue'[s]) <= MaxSize
                    /\ \A i \in 1..Len(queue'[s]) :
                         queue'[s][i] = Sentinel => i = Len(queue'[s])
  BY DEF QueueShape
<1>1. /\ Len(queue[s]) \in Nat
      /\ MaxSize \in Nat
      /\ Len(queue[s]) <= MaxSize
      /\ \A i \in 1..Len(queue[s]) : queue[s][i] = Sentinel => i = Len(queue[s])
  BY BrokerAssumption, LenProperties DEF TypeOK, Disciplined, QueueDiscipline, QueueShape
<1>2. CASE queue'[s] = queue[s]
  BY <1>1, <1>2
<1>3. CASE queue'[s] # queue[s]
  <2>1. /\ Registered(s)
        /\ ~Full(s)
        /\ Len(queue'[s]) = Len(queue[s]) + 1
        /\ \A i \in 1..Len(queue[s]) : queue'[s][i] = queue[s][i]
    BY <1>3, PutShape
  <2>2. \A i \in 1..Len(queue[s]) : queue[s][i] # Sentinel
    BY <2>1 DEF Disciplined, QueueDiscipline, NoSentinelWhileRegistered
  <2>3. QED
    BY <1>1, <2>1, <2>2 DEF Full
<1>4. QED
  BY <1>2, <1>3

\* Every step keeps the queues disciplined.
LEMMA DisciplinedNext ==
  ASSUME TypeOK, Disciplined, [Next]_vars
  PROVE  Disciplined'
<1> USE BrokerAssumption, ItemFacts DEF Disciplined, QueueDiscipline
<1>1. CASE Start
  BY <1>1 DEF Start, IdleIsFresh, QueueShape, RegistryLive, NoSentinelWhileRegistered, Registered
<1>2. CASE Stop
  <2>1. QueueShape'
    BY <1>2, PutKeepsShape DEF Stop
  <2>2. RegistryLive' /\ NoSentinelWhileRegistered'
    BY <1>2 DEF Stop, RegistryLive, NoSentinelWhileRegistered, Registered
  <2>3. IdleIsFresh'
    BY <1>2, PutLeavesIdle DEF Stop, IdleIsFresh
  <2>4. QED
    BY <2>1, <2>2, <2>3
<1>3. CASE Publish
  <2>0. offset \in Item /\ PutToRegistered(offset) /\ offset # Sentinel
    BY <1>3 DEF Publish, TypeOK
  <2>1. QueueShape'
    BY <2>0, PutKeepsShape
  <2>2. RegistryLive'
    BY <1>3 DEF Publish, RegistryLive
  <2>3. NoSentinelWhileRegistered'
    <3> SUFFICES ASSUME NEW s \in Subs, Registered(s)', NEW i \in 1..Len(queue'[s])
                 PROVE  queue'[s][i] # Sentinel
      BY DEF NoSentinelWhileRegistered
    <3>1. Registered(s)
      BY <1>3 DEF Publish, Registered
    <3>2. \A j \in 1..Len(queue[s]) : queue[s][j] # Sentinel
      BY <3>1 DEF NoSentinelWhileRegistered
    <3>3. Len(queue[s]) \in Nat
      BY LenProperties DEF TypeOK
    <3>4. QED
      BY <2>0, <3>2, <3>3, PutShape
  <2>4. IdleIsFresh'
    BY <1>3, <2>0, PutLeavesIdle DEF Publish, IdleIsFresh
  <2>5. QED
    BY <2>1, <2>2, <2>3, <2>4
<1>4. ASSUME NEW s \in Subs, Join(s)
      PROVE  Disciplined'
  <2>1. RegistryLive'
    BY <1>4 DEF Join, RegistryLive, TypeOK
  <2>2. NoSentinelWhileRegistered'
    BY <1>4 DEF Join, NoSentinelWhileRegistered, Registered, IdleIsFresh, TypeOK
  <2>3. IdleIsFresh' /\ QueueShape'
    BY <1>4 DEF Join, IdleIsFresh, QueueShape, TypeOK
  <2>4. QED
    BY <2>1, <2>2, <2>3
<1>5. ASSUME NEW s \in Subs, Park(s) \/ Abandon(s)
      PROVE  Disciplined'
  <2>1. /\ pc'[s] \in {"waiting", "abandoned"}
        /\ \A t \in Subs : t # s => pc'[t] = pc[t]
    BY <1>5 DEF Park, Abandon, TypeOK
  <2>2. IdleIsFresh'
    BY <1>5, <2>1 DEF Park, Abandon, IdleIsFresh
  <2>3. RegistryLive'
    <3> SUFFICES ASSUME NEW g \in Groups, registry[g] # None
                 PROVE  /\ running
                        /\ GroupOf[registry[g]] = g
                        /\ pc'[registry[g]] \in {"waiting", "holding", "abandoned"}
      BY <1>5 DEF Park, Abandon, RegistryLive
    <3>1. registry[g] \in Subs
      BY DEF TypeOK
    <3>2. QED
      BY <2>1, <3>1 DEF RegistryLive
  <2>4. QueueShape' /\ NoSentinelWhileRegistered'
    BY <1>5 DEF Park, Abandon, QueueShape, NoSentinelWhileRegistered, Registered
  <2>5. QED
    BY <2>2, <2>3, <2>4
<1>6. ASSUME NEW s \in Subs, Yield(s)
      PROVE  Disciplined'
  <2>1. /\ Len(queue[s]) \in Nat \ {0}
        /\ Len(queue'[s]) = Len(queue[s]) - 1
        /\ \A i \in 1..Len(queue'[s]) : queue'[s][i] = queue[s][i + 1]
    BY <1>6, HeadTailProperties, LenProperties, EmptySeq DEF Yield, TypeOK
  <2>2. \A t \in Subs : t # s => queue'[t] = queue[t]
    BY <1>6 DEF Yield, TypeOK
  <2>3. QueueShape'
    <3> SUFFICES ASSUME NEW t \in Subs
                 PROVE  /\ Len(queue'[t]) <= MaxSize
                        /\ \A i \in 1..Len(queue'[t]) :
                             queue'[t][i] = Sentinel => i = Len(queue'[t])
      BY DEF QueueShape
    <3>1. CASE t = s
      <4> DEFINE before == Len(queue[s])
                 after == Len(queue'[s])
      <4>1. /\ before <= MaxSize
            /\ \A i \in 1..before : queue[s][i] = Sentinel => i = before
        BY DEF QueueShape
      <4>2. /\ before \in Nat
            /\ after = before - 1
            /\ \A i \in 1..after : queue'[s][i] = queue[s][i + 1]
        BY <2>1
      <4> HIDE DEF before, after
      <4>3. after <= MaxSize /\ \A i \in 1..after : queue'[s][i] = Sentinel => i = after
        BY <4>1, <4>2, BrokerAssumption
      <4>4. QED
        BY <3>1, <4>3 DEF after
    <3>2. CASE t # s
      BY <2>2, <3>2 DEF QueueShape
    <3>3. QED
      BY <3>1, <3>2
  <2>4. RegistryLive'
    BY <1>6 DEF Yield, RegistryLive, TypeOK
  <2>7. IdleIsFresh'
    BY <1>6 DEF Yield, IdleIsFresh, TypeOK
  <2>5. NoSentinelWhileRegistered'
    <3> SUFFICES ASSUME NEW t \in Subs, Registered(t), NEW i \in 1..Len(queue'[t])
                 PROVE  queue'[t][i] # Sentinel
      BY <1>6 DEF Yield, NoSentinelWhileRegistered, Registered
    <3>1. CASE t = s
      <4>1. /\ i + 1 \in 1..Len(queue[s])
            /\ queue'[s][i] = queue[s][i + 1]
        BY <2>1, <3>1
      <4>2. queue[s][i + 1] # Sentinel
        BY <3>1, <4>1 DEF NoSentinelWhileRegistered
      <4>3. QED
        BY <3>1, <4>1, <4>2
    <3>2. CASE t # s
      BY <2>2, <3>2 DEF NoSentinelWhileRegistered
    <3>3. QED
      BY <3>1, <3>2
  <2>6. QED
    BY <2>3, <2>4, <2>5, <2>7
<1>7. ASSUME NEW s \in Subs, End(s)
      PROVE  Disciplined'
  <2>1. /\ queue'[s] = <<>>
        /\ \A t \in Subs : t # s => queue'[t] = queue[t]
    BY <1>7 DEF End, Release, TypeOK
  <2>2. QueueShape'
    BY <2>1, EmptySeq DEF QueueShape
  <2>3. RegistryLive' /\ IdleIsFresh'
    BY <1>7 DEF End, Release, RegistryLive, IdleIsFresh, TypeOK
  <2>4. NoSentinelWhileRegistered'
    <3> SUFFICES ASSUME NEW t \in Subs, Registered(t)', NEW i \in 1..Len(queue'[t])
                 PROVE  queue'[t][i] # Sentinel
      BY DEF NoSentinelWhileRegistered
    <3>1. t # s /\ Registered(t)
      BY <1>7 DEF End, Release, Registered, TypeOK
    <3>2. QED
      BY <2>1, <3>1 DEF NoSentinelWhileRegistered
  <2>5. QED
    BY <2>2, <2>3, <2>4
<1>8. CASE UNCHANGED vars
  BY <1>8 DEF vars, IdleIsFresh, QueueShape, RegistryLive, NoSentinelWhileRegistered, Registered
<1>9. QED
  BY <1>1, <1>2, <1>3, <1>4, <1>5, <1>6, <1>7, <1>8, StepKinds

\* Type and discipline hold in every reachable state.
LEMMA DisciplinedAlways == Spec => [](TypeOK /\ Disciplined)
<1>1. Init => TypeOK /\ Disciplined
  BY TypeInit, DisciplinedInit
<1>2. TypeOK /\ Disciplined /\ [Next]_vars => (TypeOK /\ Disciplined)'
  BY TypeNext, DisciplinedNext
<1>3. QED
  BY <1>1, <1>2, PTL DEF Spec

(***************************************************************************)
(* No queue overflows, no sentinel is buried under a message, and the      *)
(* registry only holds live generators of the right group, none of them    *)
(* already told to stop: however groups are taken over, generators close   *)
(* late, and the broker stops and restarts.                                *)
(***************************************************************************)
THEOREM QueuesAreDisciplined == Spec => []QueueDiscipline
<1>1. TypeOK /\ Disciplined => QueueDiscipline
  BY DEF Disciplined
<1>2. QED
  BY <1>1, DisciplinedAlways, PTL

-----------------------------------------------------------------------------
(***************************************************************************)
(* Stream(s), what s got followed by what it will get, only ever grows at  *)
(* its end by a message or a sentinel, or loses the part still queued.     *)
(***************************************************************************)
LEMMA StreamIndex ==
  ASSUME TypeOK, NEW s \in Subs
  PROVE  /\ Stream(s) \in Seq(Item)
         /\ received[s] \in Seq(Item)
         /\ queue[s] \in Seq(Item)
         /\ Len(received[s]) \in Nat
         /\ Len(queue[s]) \in Nat
         /\ Len(Stream(s)) = Len(received[s]) + Len(queue[s])
         /\ \A i \in 1..Len(received[s]) : Stream(s)[i] = received[s][i] /\ received[s][i] \in Nat
         /\ \A i \in 1..Len(queue[s]) : Stream(s)[Len(received[s]) + i] = queue[s][i]
<1>1. /\ received[s] \in Seq(Nat)
      /\ queue[s] \in Seq(Item)
  BY DEF TypeOK
<1>2. received[s] \in Seq(Item)
  BY <1>1, SeqMonotonic, ItemFacts
<1>3. \A i \in 1..Len(received[s]) : received[s][i] \in Nat
  BY <1>1, ElementOfSeq
<1>4. /\ Stream(s) \in Seq(Item)
      /\ Len(received[s]) \in Nat
      /\ Len(queue[s]) \in Nat
      /\ Len(Stream(s)) = Len(received[s]) + Len(queue[s])
  BY <1>1, <1>2, ConcatIndex DEF Stream
<1>5. /\ \A i \in 1..Len(received[s]) : Stream(s)[i] = received[s][i]
      /\ \A i \in 1..Len(queue[s]) : Stream(s)[Len(received[s]) + i] = queue[s][i]
  <2>1. \A r, q \in Seq(Item) :
          /\ \A i \in 1..Len(r) : (r \o q)[i] = r[i]
          /\ \A i \in 1..Len(q) : (r \o q)[Len(r) + i] = q[i]
    BY ConcatIndex
  <2>2. QED
    BY <1>1, <1>2, <2>1, Zenon DEF Stream
<1>6. QED
  BY <1>1, <1>2, <1>3, <1>4, <1>5

\* Received positions are positions of the stream, and the next one is the head of the queue.
LEMMA StreamSplit ==
  ASSUME TypeOK, NEW s \in Subs
  PROVE  /\ \A i \in 1..Len(received[s]) : i \in 1..Len(Stream(s)) /\ i < Len(received[s]) + 1
         /\ queue[s] # <<>> => /\ Len(received[s]) + 1 \in 1..Len(Stream(s))
                               /\ Stream(s)[Len(received[s]) + 1] = Head(queue[s])
         /\ queue[s] = <<>> /\ received[s] = <<>> => Len(Stream(s)) = 0
<1> DEFINE m == Len(received[s])
           n == Len(queue[s])
           l == Len(Stream(s))
<1>1. m \in Nat /\ n \in Nat /\ l = m + n
  BY StreamIndex
<1>2. queue[s] # <<>> => n >= 1 /\ Head(queue[s]) = queue[s][1]
  BY <1>1, StreamIndex, EmptySeq, HeadTailProperties
<1>3. queue[s] = <<>> /\ received[s] = <<>> => m = 0 /\ n = 0
  BY EmptySeq
<1>4. \A i \in 1..n : Stream(s)[m + i] = queue[s][i]
  BY StreamIndex
<1> HIDE DEF m, n, l
<1>5. \A i \in 1..m : i \in 1..l /\ i < m + 1
  BY <1>1
<1>6. n >= 1 => m + 1 \in 1..l /\ 1 \in 1..n
  BY <1>1
<1>7. l = 0 \/ m # 0 \/ n # 0
  BY <1>1
<1>8. QED
  BY <1>2, <1>3, <1>4, <1>5, <1>6, <1>7 DEF m, l

\* put_nowait extends the stream of a registered queue with room, and no other.
LEMMA PutStream ==
  ASSUME TypeOK, NEW item \in Item, PutToRegistered(item),
         UNCHANGED received, NEW s \in Subs
  PROVE  Stream(s)' = IF Registered(s) /\ ~Full(s) THEN Append(Stream(s), item) ELSE Stream(s)
<1>1. received[s] \in Seq(Item) /\ queue[s] \in Seq(Item)
  BY StreamIndex
<1>2. queue'[s] = IF Registered(s) /\ ~Full(s) THEN Append(queue[s], item) ELSE queue[s]
  BY DEF PutToRegistered
<1>3. \A r, q \in Seq(Item) : r \o Append(q, item) = Append(r \o q, item)
  BY ConcatAppend
<1>4. QED
  BY <1>1, <1>2, <1>3 DEF Stream

\* Yielding moves a message along its stream and changes no stream.
LEMMA YieldStream ==
  ASSUME TypeOK, NEW s \in Subs, Yield(s), NEW t \in Subs
  PROVE  Stream(t)' = Stream(t)
<1>1. CASE t # s
  BY <1>1 DEF Yield, Stream, TypeOK
<1>2. CASE t = s
  <2>1. /\ queue[s] \in Seq(Item)
        /\ queue[s] # <<>>
        /\ received[s] \in Seq(Item)
    BY StreamIndex DEF Yield
  <2>2. Append(received[s], Head(queue[s])) \o Tail(queue[s]) = received[s] \o queue[s]
    BY <2>1, ConcatHeadTail
  <2>3. received'[s] = Append(received[s], Head(queue[s])) /\ queue'[s] = Tail(queue[s])
    BY DEF Yield, TypeOK
  <2>4. QED
    BY <1>2, <2>2, <2>3 DEF Stream
<1>3. QED
  BY <1>1, <1>2

\* The finally block forgets what is still queued.
LEMMA EndStream ==
  ASSUME TypeOK, NEW s \in Subs, End(s), NEW t \in Subs
  PROVE  Stream(t)' = IF t = s THEN received[s] ELSE Stream(t)
<1>1. CASE t # s
  BY <1>1 DEF End, Release, Stream, TypeOK
<1>2. CASE t = s
  <2>1. received'[s] = received[s] /\ queue'[s] = <<>>
    BY DEF End, Release, TypeOK
  <2>2. received[s] \o <<>> = received[s]
    BY StreamIndex, ConcatEmptySeq
  <2>3. QED
    BY <1>2, <2>1, <2>2 DEF Stream
<1>3. QED
  BY <1>1, <1>2

(***************************************************************************)
(* What one step of the broker can do to the stream of one generator.      *)
(***************************************************************************)
LEMMA StreamSteps ==
  ASSUME TypeOK, [Next]_vars, NEW t \in Subs
  PROVE  \/ Stream(t)' = Stream(t) /\ offset' \in {offset, offset + 1}
         \/ Registered(t) /\ Stream(t)' = Append(Stream(t), offset) /\ offset' = offset + 1
         \/ Registered(t) /\ Stream(t)' = Append(Stream(t), Sentinel) /\ offset' = offset
         \/ Stream(t)' = received[t] /\ offset' = offset
<1>1. CASE Start \/ UNCHANGED vars
  BY <1>1 DEF Start, vars, Stream
<1>2. CASE Stop
  BY <1>2, PutStream, ItemFacts DEF Stop
<1>3. CASE Publish
  BY <1>3, PutStream, ItemFacts DEF Publish, TypeOK
<1>4. ASSUME NEW s \in Subs, Join(s) \/ Park(s) \/ Abandon(s)
      PROVE  Stream(t)' = Stream(t) /\ offset' = offset
  BY <1>4 DEF Join, Park, Abandon, Stream
<1>5. ASSUME NEW s \in Subs, Yield(s)
      PROVE  Stream(t)' = Stream(t) /\ offset' = offset
  BY <1>5, YieldStream DEF Yield
<1>6. ASSUME NEW s \in Subs, End(s)
      PROVE  Stream(t)' \in {Stream(t), received[t]} /\ offset' = offset
  BY <1>6, EndStream DEF End
<1>7. QED
  BY <1>1, <1>2, <1>3, <1>4, <1>5, <1>6, StepKinds

-----------------------------------------------------------------------------
(***************************************************************************)
(* A sequence of this kind is ordered: messages below bound, ascending,    *)
(* with at most a sentinel behind them.                                    *)
(***************************************************************************)
Ascending(seq, bound) ==
  /\ \A i \in 1..Len(seq) : seq[i] # Sentinel => seq[i] < bound
  /\ \A i, j \in 1..Len(seq) : i < j /\ seq[j] # Sentinel => seq[i] < seq[j]

\* StreamIncreasing, one stream at a time.
LEMMA StreamsAscend ==
  ASSUME TypeOK, StreamIncreasing, NEW s \in Subs
  PROVE  Ascending(Stream(s), offset)
  BY DEF StreamIncreasing, Ascending

\* The next offset, or a sentinel, can follow a registered stream.
LEMMA AscendingMore ==
  ASSUME TypeOK, Disciplined, StreamIncreasing, NEW s \in Subs, Registered(s)
  PROVE  /\ Ascending(Append(Stream(s), offset), offset + 1)
         /\ Ascending(Append(Stream(s), Sentinel), offset)
<1> DEFINE str == Stream(s)
<1>1. /\ str \in Seq(Item)
      /\ Len(str) \in Nat
      /\ offset \in Nat
      /\ Sentinel \notin Nat /\ Sentinel \in Item /\ \A x \in Item : x \in Nat \/ x = Sentinel
  BY StreamIndex, LenProperties, BrokerAssumption, ItemFacts DEF TypeOK
<1>2. \A i \in 1..Len(str) : str[i] \in Nat
  <2> TAKE i \in 1..Len(str)
  <2> DEFINE k == i - Len(received[s])
  <2>0. /\ Len(received[s]) \in Nat
        /\ Len(queue[s]) \in Nat
        /\ Len(str) = Len(received[s]) + Len(queue[s])
        /\ \A j \in 1..Len(received[s]) : str[j] \in Nat
        /\ \A j \in 1..Len(queue[s]) : str[Len(received[s]) + j] = queue[s][j]
    BY StreamIndex
  <2>1. \A j \in 1..Len(queue[s]) : queue[s][j] # Sentinel
    BY DEF Disciplined, QueueDiscipline, NoSentinelWhileRegistered
  <2>2. str[i] \in Item
    BY <1>1, ElementOfSeq
  <2>3. CASE i <= Len(received[s])
    <3> HIDE DEF str
    <3>1. i \in 1..Len(received[s])
      BY <2>0, <2>3
    <3>2. QED
      BY <2>0, <3>1
  <2>4. CASE i > Len(received[s])
    <3>1. k \in 1..Len(queue[s]) /\ i = Len(received[s]) + k
      <4> DEFINE m == Len(received[s])
                 n == Len(queue[s])
                 l == Len(str)
      <4>1. m \in Nat /\ n \in Nat /\ l = m + n /\ i > m /\ i \in 1..l
        BY <2>0, <2>4
      <4> HIDE DEF m, n, l
      <4>2. i - m \in 1..n /\ i = m + (i - m)
        BY <4>1
      <4>3. QED
        BY <4>2 DEF m, n
    <3> HIDE DEF str
    <3>2. str[i] = queue[s][k]
      BY <2>0, <3>1
    <3>3. QED
      BY <1>1, <2>1, <2>2, <3>1, <3>2
  <2>5. QED
    BY <2>0, <2>3, <2>4
<1>3. Ascending(str, offset)
  BY StreamsAscend
<1>4. ASSUME NEW item \in Item
      PROVE  /\ Len(Append(str, item)) = Len(str) + 1
             /\ \A i \in 1..Len(str) : Append(str, item)[i] = str[i]
             /\ Append(str, item)[Len(str) + 1] = item
  BY <1>1, AppendProperties
<1>5. \A i \in 1..Len(str) : str[i] < offset
  BY <1>1, <1>2, <1>3 DEF Ascending
<1>6. \A i, j \in 1..Len(str) : i < j => str[i] < str[j]
  BY <1>1, <1>2, <1>3 DEF Ascending
<1>7. Ascending(Append(str, offset), offset + 1)
  BY <1>1, <1>2, <1>4, <1>5, <1>6 DEF Ascending
<1>8. Ascending(Append(str, Sentinel), offset)
  BY <1>1, <1>2, <1>4, <1>5, <1>6 DEF Ascending
<1>9. QED
  BY <1>7, <1>8

\* A shorter stream, or a larger bound, keeps the order.
LEMMA AscendingLess ==
  ASSUME TypeOK, StreamIncreasing, NEW s \in Subs
  PROVE  /\ Ascending(received[s], offset)
         /\ Ascending(Stream(s), offset + 1)
<1>1. /\ Ascending(Stream(s), offset)
      /\ offset \in Nat
      /\ Sentinel \notin Nat /\ Sentinel \in Item /\ \A x \in Item : x \in Nat \/ x = Sentinel
  BY StreamsAscend, BrokerAssumption, ItemFacts DEF TypeOK
<1>2. \A i \in 1..Len(received[s]) : i \in 1..Len(Stream(s))
  BY StreamSplit
<1>3. \A i \in 1..Len(Stream(s)) : Stream(s)[i] \in Item
  BY StreamIndex, ElementOfSeq
<1>4. Ascending(received[s], offset)
  BY <1>1, <1>2, StreamIndex DEF Ascending
<1>5. Ascending(Stream(s), offset + 1)
  BY <1>1, <1>3 DEF Ascending
<1>6. QED
  BY <1>4, <1>5

\* Every step keeps the streams in order.
LEMMA IncreasingNext ==
  ASSUME TypeOK, Disciplined, StreamIncreasing, [Next]_vars
  PROVE  StreamIncreasing'
<1> SUFFICES ASSUME NEW s \in Subs
             PROVE  Ascending(Stream(s)', offset')
  BY DEF StreamIncreasing, Ascending
<1>1. QED
  BY StreamSteps, AscendingMore, AscendingLess, StreamsAscend

-----------------------------------------------------------------------------
(***************************************************************************)
(* At most one generator of a group gains a message in a step, and it is   *)
(* the newest of all.                                                      *)
(***************************************************************************)
LEMMA OffsetsBounded ==
  ASSUME TypeOK, StreamIncreasing, NEW s \in Subs
  PROVE  /\ Offsets(Stream(s)) \subseteq Nat
         /\ \A o \in Offsets(Stream(s)) : o < offset
<1>1. /\ Stream(s) \in Seq(Item)
      /\ \A i \in 1..Len(Stream(s)) : Stream(s)[i] \in Item
  BY StreamIndex, ElementOfSeq
<1>2. Ascending(Stream(s), offset)
  BY StreamsAscend
<1>3. QED
  BY <1>1, <1>2, ItemFacts DEF Offsets, Ascending

\* Appending adds the message, a sentinel adds none.
LEMMA OffsetsOfAppend ==
  ASSUME TypeOK, NEW s \in Subs, NEW item \in Item
  PROVE  Offsets(Append(Stream(s), item)) = Offsets(Stream(s)) \union ({item} \ {Sentinel})
<1>1. Stream(s) \in Seq(Item) /\ Len(Stream(s)) \in Nat
  BY StreamIndex, LenProperties
<1>2. /\ Len(Append(Stream(s), item)) = Len(Stream(s)) + 1
      /\ \A i \in 1..Len(Stream(s)) : Append(Stream(s), item)[i] = Stream(s)[i]
      /\ Append(Stream(s), item)[Len(Stream(s)) + 1] = item
  BY <1>1, AppendProperties
<1>3. QED
  BY <1>1, <1>2 DEF Offsets

\* What was received is part of the stream.
LEMMA OffsetsOfReceived ==
  ASSUME TypeOK, NEW s \in Subs
  PROVE  Offsets(received[s]) \subseteq Offsets(Stream(s))
<1>1. \A i \in 1..Len(received[s]) : i \in 1..Len(Stream(s)) /\ Stream(s)[i] = received[s][i]
  BY StreamIndex, StreamSplit
<1>2. QED
  BY <1>1 DEF Offsets

\* A stream gains at most the newest offset, and only while registered.
LEMMA OffsetsSteps ==
  ASSUME TypeOK, [Next]_vars, NEW s \in Subs
  PROVE  Offsets(Stream(s)') \subseteq
           Offsets(Stream(s)) \union (IF Registered(s) THEN {offset} ELSE {})
<1>1. offset \in Item /\ Sentinel \in Item
  BY ItemFacts DEF TypeOK
<1>2. /\ Offsets(Append(Stream(s), offset)) \subseteq Offsets(Stream(s)) \union {offset}
      /\ Offsets(Append(Stream(s), Sentinel)) \subseteq Offsets(Stream(s))
  BY <1>1, OffsetsOfAppend
<1>3. QED
  BY <1>2, StreamSteps, OffsetsOfReceived

\* Every step keeps the groups free of duplicates.
LEMMA OncePerGroupNext ==
  ASSUME TypeOK, StreamIncreasing, AtMostOncePerGroup, [Next]_vars
  PROVE  AtMostOncePerGroup'
<1> SUFFICES ASSUME NEW s \in Subs, NEW t \in Subs, s # t, GroupOf[s] = GroupOf[t],
                    NEW o \in Offsets(Stream(s)'), o \in Offsets(Stream(t)')
             PROVE  FALSE
  BY DEF AtMostOncePerGroup, Offsets
<1>1. ~(Registered(s) /\ Registered(t))
  BY DEF Registered
<1>2. Offsets(Stream(s)) \intersect Offsets(Stream(t)) = {}
  BY DEF AtMostOncePerGroup
<1>3. offset \notin Offsets(Stream(s)) /\ offset \notin Offsets(Stream(t))
  BY OffsetsBounded DEF TypeOK
<1>4. QED
  BY <1>1, <1>2, <1>3, OffsetsSteps

-----------------------------------------------------------------------------
(***************************************************************************)
(* The account of one generator: what it got, will get and was refused is  *)
(* exactly what was published while it was registered, and its stream has  *)
(* no gap as long as nothing was refused.                                  *)
(***************************************************************************)
Unbroken(seq, first) == \A i \in 1..Len(seq) : seq[i] # Sentinel => seq[i] = first + i - 1

Account(s) ==
  /\ pc[s] = "idle" => shed[s] = {}
  /\ \A o \in shed[s] : o < offset
  /\ since[s] <= offset
  /\ shed[s] = {} => Unbroken(Stream(s), since[s])
  /\ Registered(s) =>
       /\ Offsets(Stream(s)) \union shed[s] = since[s]..(offset - 1)
       /\ shed[s] = {} => Len(Stream(s)) = offset - since[s]

Accounts == \A s \in Subs : Account(s)

\* A step that leaves the stream alone leaves its account balanced.
LEMMA AccountKept ==
  ASSUME TypeOK, NEW s \in Subs, Account(s), UNCHANGED <<shed, since>>,
         Stream(s)' = Stream(s), offset' \in {offset, offset + 1},
         Registered(s)' => Registered(s) /\ offset' = offset,
         pc'[s] = "idle" => pc[s] = "idle"
  PROVE  Account(s)'
<1>1. offset \in Nat /\ since[s] \in Nat /\ shed[s] \subseteq Nat
  BY DEF TypeOK
<1>2. /\ \A o \in shed[s] : o < offset'
      /\ since[s] <= offset'
  BY <1>1 DEF Account
<1>3. QED
  BY <1>2 DEF Account

\* A published offset is queued or refused, so the account grows by it.
LEMMA PublishAccount ==
  ASSUME TypeOK, Disciplined, Accounts, Publish, NEW s \in Subs
  PROVE  Account(s)'
<1> DEFINE str == Stream(s)
<1>1. /\ offset \in Nat /\ offset \in Item /\ since[s] \in Nat
      /\ shed[s] \subseteq Nat
      /\ str \in Seq(Item)
      /\ Len(str) \in Nat
  BY StreamIndex, LenProperties, ItemFacts DEF TypeOK
<1>2. /\ Account(s)
      /\ Registered(s)' <=> Registered(s)
      /\ offset' = offset + 1
      /\ since' = since
      /\ pc' = pc
      /\ shed'[s] = IF Registered(s) /\ Full(s) THEN shed[s] \union {offset} ELSE shed[s]
  BY DEF Publish, Accounts, Registered
<1>3. Stream(s)' = IF Registered(s) /\ ~Full(s) THEN Append(str, offset) ELSE str
  BY <1>1, PutStream DEF Publish
<1>4. pc[s] = "idle" => ~Registered(s)
  <2>1. GroupOf[s] \in Groups /\ s # None
    BY BrokerAssumption
  <2>2. QED
    BY <2>1 DEF Registered, Disciplined, QueueDiscipline, RegistryLive
<1>5. /\ \A o \in shed'[s] : o < offset'
      /\ since'[s] <= offset'
      /\ pc'[s] = "idle" => shed'[s] = {}
  BY <1>1, <1>2, <1>4 DEF Account
<1>6. CASE ~Registered(s)
  BY <1>2, <1>3, <1>5, <1>6 DEF Account
<1>7. CASE Registered(s) /\ Full(s)
  <2>1. Offsets(str) \union shed[s] = since[s]..(offset - 1) /\ since[s] <= offset
    BY <1>2, <1>7 DEF Account
  <2>2. Offsets(str) \union shed'[s] = since[s]..offset
    BY <1>1, <1>2, <1>7, <2>1
  <2>3. shed'[s] # {}
    BY <1>2, <1>7
  <2>4. offset' - 1 = offset
    BY <1>1, <1>2
  <2>5. QED
    BY <1>2, <1>3, <1>5, <1>7, <2>2, <2>3, <2>4 DEF Account
<1>8. CASE Registered(s) /\ ~Full(s)
  <2> DEFINE next == Append(str, offset)
  <2>1. /\ Offsets(str) \union shed[s] = since[s]..(offset - 1)
        /\ since[s] <= offset
        /\ shed[s] = {} => Unbroken(str, since[s]) /\ Len(str) = offset - since[s]
    BY <1>2, <1>8 DEF Account
  <2>2. Offsets(Append(str, offset)) = Offsets(str) \union {offset}
    BY <1>1, OffsetsOfAppend, ItemFacts
  <2>3. Offsets(next) \union shed[s] = since[s]..offset
    BY <1>1, <2>1, <2>2
  <2>4. /\ Len(Append(str, offset)) = Len(str) + 1
        /\ \A i \in 1..Len(str) : Append(str, offset)[i] = str[i]
        /\ Append(str, offset)[Len(str) + 1] = offset
    BY <1>1, AppendProperties
  <2>5. shed[s] = {} => /\ Unbroken(next, since[s])
                        /\ Len(next) = offset + 1 - since[s]
    <3> SUFFICES ASSUME shed[s] = {}
                 PROVE  /\ Unbroken(next, since[s])
                        /\ Len(next) = offset + 1 - since[s]
      OBVIOUS
    <3>1. Unbroken(str, since[s]) /\ Len(str) = offset - since[s]
      BY <2>1
    <3>2. Len(next) = offset + 1 - since[s]
      BY <1>1, <2>4, <3>1
    <3>3. Unbroken(next, since[s])
      BY <1>1, <2>4, <3>1 DEF Unbroken
    <3>4. QED
      BY <3>2, <3>3
  <2>6. offset' - 1 = offset
    BY <1>1, <1>2
  <2>7. Stream(s)' = next /\ shed'[s] = shed[s] /\ since'[s] = since[s]
    BY <1>2, <1>3, <1>8
  <2> HIDE DEF next
  <2>8. Offsets(Stream(s)') \union shed'[s] = since'[s]..(offset' - 1)
    BY <2>3, <2>6, <2>7
  <2>9. shed'[s] = {} => /\ Unbroken(Stream(s)', since'[s])
                         /\ Len(Stream(s)') = offset' - since'[s]
    BY <1>1, <1>2, <2>5, <2>7
  <2>10. QED
    BY <1>5, <2>8, <2>9 DEF Account
<1>9. QED
  BY <1>6, <1>7, <1>8

\* stop() clears the registry: the accounts are closed, without a gap.
LEMMA StopAccount ==
  ASSUME TypeOK, Disciplined, Accounts, Stop, NEW s \in Subs
  PROVE  Account(s)'
<1> DEFINE str == Stream(s)
<1>1. Sentinel \in Item /\ str \in Seq(Item) /\ Len(str) \in Nat
  BY StreamIndex, LenProperties, ItemFacts
<1>2. /\ Account(s)
      /\ offset' = offset /\ since' = since /\ pc' = pc /\ shed' = shed
  BY DEF Stop, Accounts
<1>3. ~Registered(s)'
  BY BrokerAssumption DEF Stop, Registered
<1>4. Stream(s)' = str \/ Stream(s)' = Append(str, Sentinel)
  BY <1>1, PutStream DEF Stop
<1>5. /\ Len(Append(str, Sentinel)) = Len(str) + 1
      /\ \A i \in 1..Len(str) : Append(str, Sentinel)[i] = str[i]
      /\ Append(str, Sentinel)[Len(str) + 1] = Sentinel
  BY <1>1, AppendProperties
<1>6. Unbroken(str, since[s]) => Unbroken(Append(str, Sentinel), since[s])
  BY <1>1, <1>5 DEF Unbroken
<1>7. QED
  BY <1>2, <1>3, <1>4, <1>6 DEF Account

\* A generator that joins starts with an empty account.
LEMMA JoinAccount ==
  ASSUME TypeOK, Disciplined, Accounts, NEW j \in Subs, Join(j), NEW s \in Subs
  PROVE  Account(s)'
<1>1. offset \in Nat /\ GroupOf[s] \in Groups /\ GroupOf[j] \in Groups
  BY BrokerAssumption DEF TypeOK
<1>2. CASE s # j
  <2>1. Registered(s)' => Registered(s)
    BY <1>1, <1>2 DEF Join, Registered, TypeOK
  <2>2. Stream(s)' = Stream(s) /\ offset' = offset /\ pc'[s] = pc[s] /\ shed' = shed /\ since'[s] = since[s]
    BY <1>2 DEF Join, Stream, TypeOK
  <2>3. QED
    BY <2>1, <2>2 DEF Account, Accounts
<1>3. CASE s = j
  <2>1. Stream(s)' = Stream(s) /\ Len(Stream(s)) = 0
    BY <1>3, StreamSplit DEF Join, Stream, Disciplined, IdleIsFresh
  <2>2. shed'[s] = {} /\ since'[s] = offset /\ offset' = offset /\ pc'[s] = "waiting"
    BY <1>3 DEF Join, Accounts, Account, TypeOK
  <2>3. Offsets(Stream(s)) = {} /\ offset..(offset - 1) = {} /\ offset - offset = 0 /\ offset <= offset
    BY <1>1, <2>1 DEF Offsets
  <2>4. Unbroken(Stream(s), offset)
    BY <2>1 DEF Unbroken
  <2>5. QED
    BY <2>1, <2>2, <2>3, <2>4 DEF Account
<1>4. QED
  BY <1>2, <1>3

\* A generator that ends keeps what it received, without a gap.
LEMMA EndAccount ==
  ASSUME TypeOK, Disciplined, Accounts, NEW e \in Subs, End(e), NEW s \in Subs
  PROVE  Account(s)'
<1>1. offset \in Nat /\ since[s] \in Nat /\ GroupOf[s] \in Groups /\ GroupOf[e] \in Groups
  BY BrokerAssumption DEF TypeOK
<1>2. CASE s # e
  <2>1. Registered(s)' => Registered(s)
    BY <1>1, <1>2, BrokerAssumption DEF End, Release, Registered, TypeOK
  <2>2. Stream(s)' = Stream(s) /\ offset' = offset /\ pc'[s] = pc[s] /\ shed' = shed /\ since'[s] = since[s]
    BY <1>2, EndStream DEF End, Release, TypeOK
  <2>3. QED
    BY <2>1, <2>2 DEF Account, Accounts
<1>3. CASE s = e
  <2>1. Stream(s)' = received[s]
    BY <1>3, EndStream
  <2>2. offset' = offset /\ shed' = shed /\ pc'[s] = "closed" /\ ~Registered(s)'
    BY <1>1, <1>3, BrokerAssumption DEF End, Release, Registered, TypeOK
  <2>3. /\ \A i \in 1..Len(received[s]) : i \in 1..Len(Stream(s))
        /\ \A i \in 1..Len(received[s]) : Stream(s)[i] = received[s][i]
    BY StreamIndex, StreamSplit
  <2>4. Unbroken(Stream(s), since[s]) => Unbroken(received[s], since[s])
    BY <2>3 DEF Unbroken
  <2>5. CASE since' = since
    BY <2>1, <2>2, <2>4, <2>5 DEF Account, Accounts
  <2>6. CASE pc[s] = "idle" /\ since'[s] = offset
    <3>1. Len(received[s]) = 0
      BY <2>6, EmptySeq DEF Disciplined, IdleIsFresh
    <3>2. Unbroken(received[s], offset) /\ offset <= offset
      BY <1>1, <3>1 DEF Unbroken
    <3>3. QED
      BY <2>1, <2>2, <2>6, <3>2 DEF Account, Accounts
  <2>7. QED
    BY <1>3, <2>5, <2>6 DEF End, TypeOK
<1>4. QED
  BY <1>2, <1>3

\* Every step keeps every account balanced.
LEMMA AccountsNext ==
  ASSUME TypeOK, Disciplined, Accounts, [Next]_vars
  PROVE  Accounts'
<1> SUFFICES ASSUME NEW s \in Subs
             PROVE  Account(s)'
  BY DEF Accounts
<1>1. Account(s)
  BY DEF Accounts
<1>2. CASE Start \/ UNCHANGED vars
  BY <1>1, <1>2, AccountKept DEF Start, vars, Stream, Registered
<1>3. ASSUME NEW t \in Subs, Park(t) \/ Abandon(t)
      PROVE  Account(s)'
  BY <1>1, <1>3, AccountKept DEF Park, Abandon, Stream, Registered, TypeOK
<1>4. ASSUME NEW t \in Subs, Yield(t)
      PROVE  Account(s)'
  BY <1>1, <1>4, AccountKept, YieldStream DEF Yield, Registered, TypeOK
<1>5. QED
  BY <1>2, <1>3, <1>4, StepKinds, PublishAccount, StopAccount, JoinAccount, EndAccount

(***************************************************************************)
(* The drop counter counts the pairs (generator, refused offset): the      *)
(* pairs a publish adds are new, one for each queue that refused it.       *)
(***************************************************************************)
ShedPairs == {d \in Subs \X (0..MaxPublish) : d[2] \in shed[d[1]]}

Counted == offset <= MaxPublish /\ dropped = Cardinality(ShedPairs)

\* Every publish is counted once for each queue that refuses it.
LEMMA CountedNext ==
  ASSUME TypeOK, Accounts, Counted, [Next]_vars
  PROVE  Counted'
<1>1. CASE Publish
  <2> DEFINE refusing == {s \in Subs : Registered(s) /\ Full(s)}
             fresh == refusing \X {offset}
  <2>1. /\ offset \in Nat
        /\ offset < MaxPublish
        /\ MaxPublish \in Nat
        /\ offset \in 0..MaxPublish
        /\ offset' = offset + 1
        /\ dropped' = dropped + Cardinality(refusing)
        /\ shed' = [s \in Subs |-> IF s \in refusing THEN shed[s] \union {offset} ELSE shed[s]]
    BY <1>1, BrokerAssumption DEF Publish, TypeOK
  <2>2. ShedPairs' = ShedPairs \union fresh
    BY <2>1 DEF ShedPairs
  <2>3. ShedPairs \intersect fresh = {}
    <3>1. \A s \in Subs : offset \notin shed[s]
      BY <2>1 DEF Accounts, Account
    <3>2. QED
      BY <3>1 DEF ShedPairs
  <2>4. IsFiniteSet(refusing) /\ IsFiniteSet({offset}) /\ Cardinality({offset}) = 1
    BY BrokerAssumption, FS_Subset, FS_Singleton
  <2>5. IsFiniteSet(fresh) /\ Cardinality(fresh) = Cardinality(refusing)
    <3> HIDE DEF refusing
    <3>1. IsFiniteSet(fresh) /\ Cardinality(fresh) = Cardinality(refusing) * Cardinality({offset})
      BY <2>4, FS_Product
    <3>2. Cardinality(refusing) \in Nat
      BY <2>4, FS_CardinalityType
    <3>3. QED
      BY <2>4, <3>1, <3>2
  <2>6. IsFiniteSet(ShedPairs)
    <3>1. IsFiniteSet(0..MaxPublish)
      BY <2>1, FS_Interval
    <3>2. IsFiniteSet(Subs \X (0..MaxPublish))
      BY <3>1, BrokerAssumption, FS_Product
    <3>3. ShedPairs \subseteq Subs \X (0..MaxPublish)
      BY DEF ShedPairs
    <3>4. QED
      BY <3>2, <3>3, FS_Subset
  <2>7. Cardinality(ShedPairs \union fresh) = Cardinality(ShedPairs) + Cardinality(fresh)
    <3> HIDE DEF fresh
    <3>1. Cardinality(ShedPairs \union fresh)
            = Cardinality(ShedPairs) + Cardinality(fresh) - Cardinality(ShedPairs \intersect fresh)
      BY <2>5, <2>6, FS_Union
    <3>2. Cardinality(ShedPairs) \in Nat /\ Cardinality(fresh) \in Nat
      BY <2>5, <2>6, FS_CardinalityType
    <3>3. QED
      BY <2>3, <3>1, <3>2, FS_EmptySet
  <2>8. dropped' = Cardinality(ShedPairs')
    <3> HIDE DEF refusing, fresh
    <3>1. QED
      BY <2>1, <2>2, <2>5, <2>7 DEF Counted
  <2>9. offset' <= MaxPublish
    BY <2>1
  <2>10. QED
    BY <2>8, <2>9 DEF Counted
<1>2. ASSUME UNCHANGED <<offset, dropped, shed>>
      PROVE  Counted'
  BY <1>2 DEF Counted, ShedPairs
<1>3. CASE Start \/ Stop \/ UNCHANGED vars
  BY <1>2, <1>3 DEF Start, Stop, vars
<1>4. ASSUME NEW s \in Subs, Join(s) \/ Park(s) \/ Yield(s) \/ End(s) \/ Abandon(s)
      PROVE  Counted'
  BY <1>2, <1>4 DEF Join, Park, Yield, End, Abandon
<1>5. QED
  BY <1>1, <1>3, <1>4, StepKinds

-----------------------------------------------------------------------------
(***************************************************************************)
(* All of it together is inductive.                                        *)
(***************************************************************************)
BrokerInv ==
  /\ TypeOK
  /\ Disciplined
  /\ StreamIncreasing
  /\ AtMostOncePerGroup
  /\ Accounts
  /\ Counted

\* A new broker satisfies the invariant.
LEMMA BrokerInvInit == Init => BrokerInv
<1> SUFFICES ASSUME Init
             PROVE  BrokerInv
  OBVIOUS
<1>1. TypeOK /\ Disciplined
  BY TypeInit, DisciplinedInit
<1>2. \A s \in Subs : received[s] = <<>> /\ queue[s] = <<>>
  BY DEF Init
<1>3. \A s \in Subs : Len(Stream(s)) = 0
  BY <1>1, <1>2, StreamSplit
<1>4. StreamIncreasing /\ AtMostOncePerGroup
  BY <1>3 DEF StreamIncreasing, AtMostOncePerGroup, Offsets
<1>5. Accounts
  <2>1. \A s \in Subs : ~Registered(s)
    BY BrokerAssumption DEF Init, Registered
  <2>2. QED
    BY <1>3, <2>1 DEF Init, Accounts, Account, Unbroken
<1>6. Counted
  <2>1. ShedPairs = {}
    BY DEF Init, ShedPairs
  <2>2. QED
    BY <2>1, FS_EmptySet, BrokerAssumption DEF Init, Counted
<1>7. QED
  BY <1>1, <1>4, <1>5, <1>6 DEF BrokerInv

\* The invariant holds in every reachable state.
LEMMA BrokerInvAlways == Spec => []BrokerInv
<1>1. BrokerInv /\ [Next]_vars => BrokerInv'
  BY TypeNext, DisciplinedNext, IncreasingNext, OncePerGroupNext, AccountsNext, CountedNext
  DEF BrokerInv
<1>2. QED
  BY <1>1, BrokerInvInit, PTL DEF Spec

(***************************************************************************)
(* Messages reach a generator in the order of their offsets, no message    *)
(* twice and, if its queue never refused one, none missing; what is still  *)
(* queued continues that order.  Takeover of the group, stop and restart   *)
(* do not break it.                                                        *)
(***************************************************************************)
THEOREM StreamsKeepOrder == Spec => []StreamInOrder
<1>1. BrokerInv => StreamInOrder
  <2> SUFFICES ASSUME BrokerInv, NEW s \in Subs, shed[s] = {}, NEW i \in 1..Len(received[s])
               PROVE  received[s][i] = since[s] + i - 1
    BY DEF BrokerInv, StreamInOrder, GapsOnlyFromShedding
  <2>1. /\ i \in 1..Len(Stream(s))
        /\ Stream(s)[i] = received[s][i]
        /\ received[s][i] \in Nat
    BY StreamIndex, StreamSplit DEF BrokerInv
  <2>2. Unbroken(Stream(s), since[s])
    BY DEF BrokerInv, Accounts, Account
  <2>3. QED
    BY <2>1, <2>2, ItemFacts DEF Unbroken
<1>2. QED
  BY <1>1, BrokerInvAlways, PTL

(***************************************************************************)
(* No message reaches two generators of one group, although a replaced     *)
(* generator goes on draining its own queue.                               *)
(***************************************************************************)
THEOREM NoSecondDelivery == Spec => []AtMostOncePerGroup
<1>1. BrokerInv => AtMostOncePerGroup
  BY DEF BrokerInv
<1>2. QED
  BY <1>1, BrokerInvAlways, PTL

(***************************************************************************)
(* A full queue is the only way to lose a message while registered, and    *)
(* the drop counter tells how often that happened.                         *)
(***************************************************************************)
THEOREM NothingLostSilently == Spec => []EveryOffsetAccounted
<1>1. BrokerInv => EveryOffsetAccounted
  BY DEF BrokerInv, Accounts, Account, Counted, ShedPairs, EveryOffsetAccounted
<1>2. QED
  BY <1>1, BrokerInvAlways, PTL

-----------------------------------------------------------------------------
(***************************************************************************)
(* The broker implements the fan-out promise: publishing is publishing,    *)
(* yielding is delivering, and every other step leaves what TopicFanout    *)
(* sees alone.                                                             *)
(***************************************************************************)
LEMMA YieldDelivers ==
  ASSUME BrokerInv, NEW s \in Subs, Yield(s)
  PROVE  Fanout!Deliver(s)
<1> USE DEF BrokerInv
<1> DEFINE m == Head(queue[s])
           k == Len(received[s]) + 1
<1>1. queue[s] # <<>> /\ m \in Nat
  BY StreamIndex, HeadTailProperties, ItemFacts DEF Yield
<1>2. k \in 1..Len(Stream(s)) /\ Stream(s)[k] = m
  BY <1>1, StreamSplit
<1>3. \A i \in 1..Len(received[s]) : i \in 1..Len(Stream(s)) /\ i < k
  BY StreamSplit
<1>4. \A i \in 1..Len(received[s]) : Stream(s)[i] = received[s][i]
  BY StreamIndex
<1>5. m # Sentinel /\ Ascending(Stream(s), offset)
  BY <1>1, ItemFacts, StreamsAscend
<1>6. \A i \in 1..Len(received[s]) : received[s][i] < m
  BY <1>2, <1>3, <1>4, <1>5 DEF Ascending
<1>7. m \in Offsets(Stream(s)) /\ m \in 0..(offset - 1)
  BY <1>1, <1>2, <1>5 DEF Ascending, Offsets, TypeOK
<1>8. \A t \in Subs \ {s} : GroupOf[t] = GroupOf[s] => ~Fanout!HandedTo(m, t)
  <2> SUFFICES ASSUME NEW t \in Subs, t # s, GroupOf[t] = GroupOf[s],
                      NEW i \in 1..Len(received[t]), received[t][i] = m
               PROVE  FALSE
    BY DEF Fanout!HandedTo
  <2>1. m \in Offsets(received[t])
    BY <1>5 DEF Offsets
  <2>2. m \in Offsets(Stream(t))
    BY <2>1, OffsetsOfReceived
  <2>3. QED
    BY <1>7, <2>2 DEF AtMostOncePerGroup
<1>9. received' = [received EXCEPT ![s] = Append(@, m)] /\ offset' = offset
  BY DEF Yield
<1>10. QED
  BY <1>6, <1>7, <1>8, <1>9 DEF Fanout!Deliver, Fanout!Newer

(***************************************************************************)
(* InMemoryBroker refines TopicFanout: the consumers of a topic see what   *)
(* the fan-out promise says, whichever generators they are split over.     *)
(***************************************************************************)
THEOREM BrokerImplementsFanout == Spec => FanoutSpec
<1>1. Init => Fanout!Init
  BY DEF Init, Fanout!Init
<1>2. BrokerInv /\ [Next]_vars => [Fanout!Next]_Fanout!vars
  <2> SUFFICES ASSUME BrokerInv, [Next]_vars
               PROVE  [Fanout!Next]_Fanout!vars
    OBVIOUS
  <2>1. CASE Publish
    BY <2>1 DEF Publish, Fanout!Next, Fanout!Publish
  <2>2. ASSUME NEW s \in Subs, Yield(s)
        PROVE  Fanout!Next
    BY <2>2, YieldDelivers DEF Fanout!Next
  <2>3. CASE Start \/ Stop \/ UNCHANGED vars
    BY <2>3 DEF Start, Stop, vars, Fanout!vars
  <2>4. ASSUME NEW s \in Subs, Join(s) \/ Park(s) \/ End(s) \/ Abandon(s)
        PROVE  UNCHANGED Fanout!vars
    BY <2>4 DEF Join, Park, End, Abandon, Fanout!vars
  <2>5. QED
    BY <2>1, <2>2, <2>3, <2>4, StepKinds
<1>3. QED
  BY <1>1, <1>2, BrokerInvAlways, PTL DEF Spec, FanoutSpec, Fanout!Spec
=============================================================================
