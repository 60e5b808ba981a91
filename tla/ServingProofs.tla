---------------------------- MODULE ServingProofs ----------------------------
(***************************************************************************)
(* What serves a match beside the API.  KafkaBroker, for any generators,   *)
(* capacity and bounds: auto-commit costs one message per interruption and *)
(* what an assignment before the first commit jumps over, and until the    *)
(* first crash or lost session the transport implements TopicFanout.       *)
(* InferenceWorker, for any stream, wirings, backlog and                   *)
(* number of failures: its counters account for every tick, and the store  *)
(* holds the newest prediction whose write was confirmed.                  *)
(***************************************************************************)
EXTENDS KafkaBroker, InferenceWorker, FiniteSetTheorems, TLAPS

Places == {"idle", "polling", "returned", "holding", "abandoned", "closed", "dead"}

\* What the broker, the producer and the generators keep.
LocalInv ==
  /\ running \in BOOLEAN /\ producer \in BOOLEAN /\ consumers \subseteq Gens
  /\ pending \in Seq(Nat) /\ log \in Seq(Nat \union {Foreign})
  /\ published \in Nat /\ starts \in Nat /\ faults \in Nat /\ interrupted \in Nat
  /\ pc \in [Gens -> Places]
  /\ got \in [Gens -> Nat \union {None}]
  /\ \A g \in Gens : pc[g] \in {"returned", "holding", "abandoned"} => got[g] \in Nat
  /\ received \in [Gens -> Seq(Nat)] /\ handled \subseteq Nat

\* Of what the group has passed, all that was not jumped over was handed out.
Covered == taken \union skipped

\* The group's place in the log: where the owner reads on is what it has
\* stored, or else what is committed, or else the end of the log it started
\* at.
Anchored ==
  /\ committed # None => begin \in Nat /\ begin..(committed - 1) \subseteq Covered
  /\ owner # None =>
       /\ begin \in Nat /\ begin..(position[owner] - 1) \subseteq Covered
       /\ stored[owner] # None => position[owner] = stored[owner]
       /\ stored[owner] = None /\ committed # None => position[owner] = committed

GroupInv ==
  /\ committed \in Nat \union {None} /\ begin \in Nat \union {None}
  /\ committed # None => begin # None
  /\ member \subseteq Gens /\ owner \in member \union {None}
  /\ position \in [Gens -> Nat] /\ stored \in [Gens -> Nat \union {None}]
  /\ taken \subseteq Nat /\ skipped \subseteq Nat /\ IsFiniteSet(taken)
  /\ Anchored

\* Handled, in the hands of a caller, or of use to nobody.
Settled == handled \union InHand \union Unusable

AtRisk == taken \ Settled

RiskBounded == Cardinality(AtRisk) <= interrupted

KafkaInv == LocalInv /\ GroupInv /\ RiskBounded

-----------------------------------------------------------------------------
LEMMA EmptyIsSeq == <<>> \in Seq(Nat)
OBVIOUS

LEMMA HeadAndTail ==
  ASSUME NEW s \in Seq(Nat), s # <<>>
  PROVE  Head(s) \in Nat /\ Tail(s) \in Seq(Nat)
OBVIOUS

LEMMA AppendKeeps ==
  ASSUME NEW s \in Seq(Nat), NEW n \in Nat
  PROVE  Append(s, n) \in Seq(Nat)
OBVIOUS

\* The log is written at its end only.
LEMMA LogWritten ==
  ASSUME LocalInv, NEW m \in Nat \union {Foreign}, log' = Append(log, m)
  PROVE  log' \in Seq(Nat \union {Foreign}) /\ Unusable \subseteq Unusable'
<1>1. log' \in Seq(Nat \union {Foreign}) /\ Len(log) \in Nat /\ Len(log') = Len(log) + 1
  BY DEF LocalInv
<1>2. \A i \in 1..Len(log) : log'[i] = log[i]
  BY DEF LocalInv
<1>3. \A o \in 0..(Len(log) - 1) : o + 1 \in 1..Len(log) /\ o \in 0..(Len(log') - 1)
  BY <1>1
<1> QED
  BY <1>1, <1>2, <1>3 DEF Unusable

LEMMA SameUnusable == ASSUME log' = log PROVE Unusable' = Unusable
BY DEF Unusable

\* A step may put at risk what it takes from a caller, and counts it.
LEMMA RiskKeeps ==
  ASSUME KafkaInv, NEW gone, IsFiniteSet(gone), NEW n \in Nat, Cardinality(gone) <= n,
         taken' \subseteq taken \union Settled',
         Settled \subseteq Settled' \union gone,
         interrupted' = interrupted + n
  PROVE  RiskBounded'
<1> USE DEF KafkaInv, LocalInv
<1>1. IsFiniteSet(AtRisk)
  BY FS_Subset DEF AtRisk, GroupInv
<1>2. AtRisk' \subseteq AtRisk \union gone
  BY DEF AtRisk
<1>3. /\ IsFiniteSet(AtRisk \union gone)
      /\ Cardinality(AtRisk \union gone) =
           Cardinality(AtRisk) + Cardinality(gone) - Cardinality(AtRisk \intersect gone)
  BY <1>1, FS_Union
<1>4. IsFiniteSet(AtRisk \intersect gone)
  BY <1>1, FS_Intersection
<1>5. /\ Cardinality(AtRisk) \in Nat /\ Cardinality(gone) \in Nat
      /\ Cardinality(AtRisk \intersect gone) \in Nat
      /\ Cardinality(AtRisk \union gone) \in Nat
  BY <1>1, <1>3, <1>4, FS_CardinalityType
<1>6. IsFiniteSet(AtRisk') /\ Cardinality(AtRisk') <= Cardinality(AtRisk \union gone)
  BY <1>2, <1>3, FS_Subset
<1>7. Cardinality(AtRisk') \in Nat
  BY <1>6, FS_CardinalityType
<1>8. Cardinality(AtRisk') <= interrupted'
  BY <1>3, <1>5, <1>6, <1>7 DEF RiskBounded
<1> QED
  BY <1>8 DEF RiskBounded

\* A step that takes nothing from anyone.
LEMMA RiskStays ==
  ASSUME KafkaInv, taken' \subseteq taken \union Settled', Settled \subseteq Settled',
         interrupted' = interrupted
  PROVE  RiskBounded'
<1>1. IsFiniteSet({}) /\ Cardinality({}) = 0
  BY FS_EmptySet
<1>2. 0 \in Nat /\ interrupted' = interrupted + 0 /\ Cardinality({}) <= 0
  BY <1>1 DEF KafkaInv, LocalInv
<1> QED
  BY <1>1, <1>2, RiskKeeps

-----------------------------------------------------------------------------
\* Steps of the group but for polls hand nothing out.
LEMMA UnassignKeeps ==
  ASSUME GroupInv, owner # None, Unassign, UNCHANGED <<begin, skipped, taken>>,
         committed' \in {committed, Handover}, member' \subseteq Gens
  PROVE  GroupInv'
<1> USE DEF GroupInv, Anchored
<1>1. owner' = None /\ owner \in Gens
  BY DEF Unassign
<1>2. /\ position' \in [Gens -> Nat]
      /\ stored' \in [Gens -> Nat \union {None}]
  BY <1>1 DEF Unassign
<1>3. committed' \in Nat \union {None} /\ (committed' # None => begin' \in Nat)
  BY <1>1 DEF Handover
<1>4. Covered' = Covered
  BY DEF Covered
<1>5. ASSUME committed' # None PROVE begin'..(committed' - 1) \subseteq Covered'
  <2>1. \/ committed' = committed
        \/ stored[owner] # None /\ committed' = position[owner]
    BY DEF Handover
  <2> QED
    BY <1>4, <1>5, <2>1
<1>6. begin' # None <=> begin # None
  OBVIOUS
<1> QED
  BY <1>1, <1>2, <1>3, <1>5, KafkaAssumption

LEMMA SameGroup ==
  ASSUME GroupInv, UNCHANGED <<committed, owner, position, stored, begin, skipped, taken>>,
         member' \subseteq Gens, owner \in member' \union {None}
  PROVE  GroupInv'
BY DEF GroupInv, Anchored, Covered

LEMMA LeaveKeeps ==
  ASSUME GroupInv, NEW S \in SUBSET Gens, LeaveGroup(S)
  PROVE  GroupInv' /\ taken' = taken
<1>1. None \notin S
  BY KafkaAssumption
<1>2. CASE owner \in S
  BY <1>1, <1>2, UnassignKeeps DEF LeaveGroup, GroupInv
<1>3. CASE owner \notin S
  BY <1>3, SameGroup DEF LeaveGroup, GroupInv
<1> QED
  BY <1>2, <1>3

\* The facts a generator's step settles, from its place before and after.
LEMMA InHandIs ==
  ASSUME LocalInv, NEW g \in Gens, NEW place \in Places,
         pc' = [pc EXCEPT ![g] = place], got' = got
  PROVE  /\ pc' \in [Gens -> Places]
         /\ InHand \subseteq InHand' \union {got[g]}
         /\ pc[g] \notin {"returned", "holding"} => InHand \subseteq InHand'
         /\ place \in {"returned", "holding"} => InHand \subseteq InHand'
         /\ place \notin {"returned", "holding", "abandoned"}
              => \A h \in Gens : pc'[h] \in {"returned", "holding", "abandoned"} => got'[h] \in Nat
<1>1. pc' \in [Gens -> Places] /\ pc'[g] = place /\ \A h \in Gens \ {g} : pc'[h] = pc[h]
  BY DEF LocalInv
<1> QED
  BY <1>1 DEF LocalInv, InHand

LEMMA FinishKeeps ==
  ASSUME LocalInv, GroupInv, NEW g \in Gens, Finish(g), got' = got
  PROVE  /\ GroupInv' /\ taken' = taken
         /\ consumers' \subseteq Gens /\ running' = running /\ producer' = producer
         /\ pc' = [pc EXCEPT ![g] = "closed"]
<1>1. GroupInv' /\ taken' = taken
  BY LeaveKeeps DEF Finish
<1> QED
  BY <1>1 DEF Finish, LocalInv

-----------------------------------------------------------------------------
\* The process: start, stop and publish.
LEMMA ProcessKeeps == KafkaInv /\ ProcessStep => KafkaInv'
<1> SUFFICES ASSUME KafkaInv, ProcessStep PROVE KafkaInv'
  OBVIOUS
<1> USE DEF KafkaInv
<1>1. UNCHANGED <<genVars, faults, log>>
  BY DEF ProcessStep, Start, StopRequest, StopEnd, Publish, logVars, countVars
<1>2. /\ running' \in BOOLEAN /\ producer' \in BOOLEAN /\ consumers' \subseteq Gens
      /\ pending' \in Seq(Nat) /\ published' \in Nat /\ starts' \in Nat
  <2>1. CASE Publish
    <3>1. pending' = Append(pending, published) /\ published' = published + 1
      BY <2>1 DEF Publish
    <3> QED
      BY <2>1, <3>1, AppendKeeps DEF Publish, LocalInv, countVars, brokerVars
  <2>2. CASE StopEnd
    BY <2>2, EmptyIsSeq DEF StopEnd, LocalInv, countVars
  <2>3. CASE Start
    BY <2>3 DEF Start, LocalInv, logVars
  <2>4. CASE StopRequest
    BY <2>4 DEF StopRequest, LocalInv, logVars, countVars
  <2> QED
    BY <2>1, <2>2, <2>3, <2>4 DEF ProcessStep
<1>3. LocalInv'
  BY <1>1, <1>2 DEF LocalInv, genVars
<1>4. GroupInv' /\ taken' = taken
  <2>1. CASE StopEnd
    BY <2>1, LeaveKeeps DEF StopEnd, LocalInv
  <2>2. CASE Start \/ StopRequest \/ Publish
    BY <2>2, SameGroup DEF Start, StopRequest, Publish, groupVars, GroupInv
  <2> QED
    BY <2>1, <2>2 DEF ProcessStep
<1>5. RiskBounded'
  <2>1. Settled' = Settled
    BY <1>1, SameUnusable DEF Settled, InHand, genVars
  <2> QED
    BY <1>1, <1>4, <2>1, RiskStays DEF genVars
<1> QED
  BY <1>3, <1>4, <1>5

\* The cluster and the client: deliveries, assignments and commits.
LEMMA ClusterKeeps == KafkaInv /\ (ClusterStep \/ Evict) => KafkaInv'
<1> SUFFICES ASSUME KafkaInv, ClusterStep \/ Evict PROVE KafkaInv'
  OBVIOUS
<1> USE DEF KafkaInv
<1>1. UNCHANGED <<genVars, brokerVars, starts>>
  BY DEF ClusterStep, Deliver, FailDelivery, Intrude, AutoCommit, Revoke, Assign, Evict, logVars,
         countVars
<1>2. /\ pending' \in Seq(Nat) /\ log' \in Seq(Nat \union {Foreign}) /\ faults' \in Nat
      /\ published' \in Nat /\ Unusable \subseteq Unusable'
  <2>1. CASE Deliver
    <3>1. /\ pending # <<>> /\ pending' = Tail(pending) /\ UNCHANGED <<faults, published>>
          /\ log' = Append(log, Head(pending))
      BY <2>1 DEF Deliver, countVars
    <3>2. Head(pending) \in Nat /\ pending' \in Seq(Nat)
      BY <3>1, HeadAndTail DEF LocalInv
    <3> QED
      BY <3>1, <3>2, LogWritten DEF LocalInv
  <2>2. CASE FailDelivery
    <3>1. /\ pending # <<>> /\ pending' = Tail(pending) /\ UNCHANGED <<faults, published, log>>
      BY <2>2 DEF FailDelivery, countVars
    <3>2. pending' \in Seq(Nat)
      BY <3>1, HeadAndTail DEF LocalInv
    <3> QED
      BY <3>1, <3>2, SameUnusable DEF LocalInv
  <2>3. CASE Intrude
    <3>1. /\ pending' = pending /\ faults' = faults /\ published' = published + 1
          /\ log' = Append(log, Foreign)
      BY <2>3 DEF Intrude, countVars
    <3>2. log' \in Seq(Nat \union {Foreign}) /\ Unusable \subseteq Unusable'
      BY <3>1, LogWritten
    <3>3. pending' \in Seq(Nat) /\ faults' \in Nat /\ published' \in Nat
      BY <3>1 DEF LocalInv
    <3> QED
      BY <3>2, <3>3
  <2>4. CASE AutoCommit \/ Revoke \/ Evict \/ \E g \in Gens : Assign(g)
    <3>1. UNCHANGED <<pending, log, published>> /\ faults' \in Nat
      BY <2>4 DEF AutoCommit, Revoke, Assign, Evict, LocalInv, logVars, countVars
    <3> QED
      BY <3>1, SameUnusable DEF LocalInv
  <2> QED
    BY <2>1, <2>2, <2>3, <2>4 DEF ClusterStep
<1>3. LocalInv'
  BY <1>1, <1>2 DEF LocalInv, genVars, brokerVars
<1>4. GroupInv' /\ taken' = taken
  <2>1. CASE Deliver \/ FailDelivery \/ Intrude
    BY <2>1, SameGroup DEF Deliver, FailDelivery, Intrude, groupVars, GroupInv
  <2>2. CASE AutoCommit
    <3>1. /\ owner # None /\ stored[owner] # None /\ owner \in Gens
          /\ committed' = stored[owner]
          /\ UNCHANGED <<member, owner, position, stored, begin, skipped, taken>>
      BY <2>2, KafkaAssumption DEF AutoCommit, Handover, GroupInv
    <3> QED
      BY <3>1, KafkaAssumption DEF GroupInv, Anchored, Covered
  <2>3. CASE Revoke
    BY <2>3, UnassignKeeps DEF Revoke, GroupInv
  <2>4. CASE Evict
    BY <2>4, UnassignKeeps DEF Evict, GroupInv
  <2>5. ASSUME NEW g \in Gens, Assign(g) PROVE GroupInv' /\ taken' = taken
    <3>1. /\ owner' = g /\ g \in member /\ g # None /\ member' = member
          /\ committed' = committed /\ taken' = taken
          /\ position' \in [Gens -> Nat] /\ stored' \in [Gens -> Nat \union {None}]
          /\ position'[g] = IF committed = None THEN Len(log) ELSE committed
          /\ stored'[g] = None
          /\ begin' = IF begin = None THEN Len(log) ELSE begin
          /\ skipped' = IF begin # None /\ committed = None
                          THEN skipped \union JumpedOver ELSE skipped
          /\ Len(log) \in Nat
      BY <2>5, KafkaAssumption DEF Assign, GroupInv, LocalInv
    <3>2. CASE begin = None
      <4>1. begin' = Len(log) /\ position'[g] = Len(log) /\ committed = None
        BY <3>1, <3>2 DEF GroupInv
      <4>2. skipped' = skipped /\ begin'..(position'[g] - 1) = {}
        BY <3>1, <3>2, <4>1
      <4> QED
        BY <3>1, <4>1, <4>2, KafkaAssumption DEF GroupInv, Anchored
    <3>3. CASE begin # None /\ committed = None
      <4>1. begin' = begin /\ begin \in Nat /\ position'[g] = Len(log)
            /\ skipped' = skipped \union ((begin..(Len(log) - 1)) \ taken)
        BY <3>1, <3>3 DEF GroupInv, JumpedOver
      <4>2. begin'..(position'[g] - 1) \subseteq Covered'
        BY <3>1, <4>1 DEF Covered
      <4>3. skipped' \subseteq Nat
        <5>1. begin..(Len(log) - 1) \subseteq Nat
          BY <3>1, <4>1
        <5> QED
          BY <4>1, <5>1 DEF GroupInv
      <4> QED
        BY <3>1, <3>3, <4>1, <4>2, <4>3 DEF GroupInv, Anchored
    <3>4. CASE begin # None /\ committed # None
      <4>1. UNCHANGED <<begin, skipped>> /\ position'[g] = committed
        BY <3>1, <3>4
      <4> QED
        BY <3>1, <3>4, <4>1 DEF GroupInv, Anchored, Covered
    <3> QED
      BY <3>2, <3>3, <3>4
  <2> QED
    BY <2>1, <2>2, <2>3, <2>4, <2>5 DEF ClusterStep
<1>5. RiskBounded'
  <2>1. Settled \subseteq Settled'
    BY <1>1, <1>2 DEF Settled, InHand, genVars
  <2> QED
    BY <1>1, <1>4, <2>1, RiskStays DEF genVars
<1> QED
  BY <1>3, <1>4, <1>5

-----------------------------------------------------------------------------
\* A generator takes a message from the owner's place in the log.
LEMMA PollKeeps ==
  ASSUME KafkaInv, NEW g \in Gens, PollReturns(g)
  PROVE  KafkaInv'
<1> USE DEF KafkaInv
<1>1. /\ pc[g] = "polling" /\ owner = g /\ g # None
      /\ pc' \in [Gens -> Places] /\ pc'[g] = "returned"
      /\ \A h \in Gens \ {g} : pc'[h] = pc[h] /\ got'[h] = got[h]
      /\ got' \in [Gens -> Nat \union {None}] /\ got'[g] = position[g]
      /\ position[g] \in Nat
      /\ position' \in [Gens -> Nat] /\ position'[g] = position[g] + 1
      /\ stored' \in [Gens -> Nat \union {None}] /\ stored'[g] = position[g] + 1
      /\ taken' = taken \union {position[g]}
      /\ UNCHANGED <<brokerVars, logVars, committed, member, owner, begin, skipped,
                     received, handled, interrupted, countVars>>
  BY KafkaAssumption DEF PollReturns, LocalInv, GroupInv, Places
<1>2. LocalInv'
  BY <1>1 DEF LocalInv, brokerVars, logVars, countVars
<1>3. stored'[g] # None
  BY <1>1, KafkaAssumption
<1>4. GroupInv'
  <2>1. begin \in Nat /\ begin..(position[g] - 1) \subseteq Covered
    BY <1>1 DEF GroupInv, Anchored
  <2>2. begin..position[g] \subseteq begin..(position[g] - 1) \union {position[g]}
    BY <1>1, <2>1
  <2>3. Covered' = Covered \union {position[g]}
    BY <1>1 DEF Covered
  <2>4. position'[g] - 1 = position[g]
    BY <1>1
  <2>5. begin'..(position'[g] - 1) \subseteq Covered'
    BY <1>1, <2>1, <2>2, <2>3, <2>4
  <2>6. IsFiniteSet(taken') /\ taken' \subseteq Nat
    BY <1>1, FS_AddElement DEF GroupInv
  <2>7. committed' # None => begin' \in Nat /\ begin'..(committed' - 1) \subseteq Covered'
    BY <1>1, <2>3 DEF GroupInv, Anchored
  <2>8. Anchored'
    BY <1>1, <1>3, <2>1, <2>5, <2>7 DEF Anchored
  <2> QED
    BY <1>1, <2>6, <2>8 DEF GroupInv
<1>5. Settled \subseteq Settled' /\ position[g] \in Settled'
  BY <1>1, SameUnusable DEF Settled, InHand, logVars
<1>6. taken' \subseteq taken \union Settled'
  BY <1>1, <1>5
<1>7. RiskBounded'
  BY <1>1, <1>5, <1>6, RiskStays
<1> QED
  BY <1>2, <1>4, <1>7

\* The generator begins, yields, and goes on when its caller is done or there
\* is nothing to yield.
LEMMA CallerKeeps ==
  ASSUME KafkaInv, NEW g \in Gens, Subscribe(g) \/ Yield(g) \/ Resume(g) \/ PassOver(g)
  PROVE  KafkaInv'
<1> USE DEF KafkaInv
<1>1. /\ UNCHANGED <<running, producer, logVars, got, interrupted, countVars>>
      /\ pc[g] \in Places
  BY DEF Subscribe, Yield, Resume, PassOver, Loop, Finish, LocalInv, brokerVars
<1>a. Unusable' = Unusable
  BY <1>1, SameUnusable DEF logVars
<1>2. CASE Subscribe(g)
  <2>1. PICK place \in Places :
          /\ pc' = [pc EXCEPT ![g] = place]
          /\ place \notin {"returned", "holding", "abandoned"}
    BY <1>2 DEF Subscribe, Places
  <2>2. /\ consumers' \subseteq Gens /\ member \subseteq member' /\ member' \subseteq Gens
        /\ UNCHANGED <<committed, owner, position, stored, begin, skipped, taken,
                       received, handled>>
    BY <1>2 DEF Subscribe, LocalInv, GroupInv
  <2>3. LocalInv'
    BY <1>1, <2>1, <2>2, InHandIs DEF LocalInv, logVars, countVars
  <2>4. GroupInv' /\ taken' = taken
    BY <2>2, SameGroup DEF GroupInv
  <2>5. Settled \subseteq Settled'
    BY <1>1, <1>a, <1>2, <2>1, <2>2, InHandIs DEF Settled, Subscribe
  <2> QED
    BY <1>1, <2>3, <2>4, <2>5, RiskStays
<1>3. CASE Yield(g)
  <2>1. /\ pc' = [pc EXCEPT ![g] = "holding"] /\ "holding" \in Places
        /\ pc[g] = "returned" /\ got[g] \in Nat
        /\ received' = [received EXCEPT ![g] = Append(@, got[g])]
        /\ UNCHANGED <<brokerVars, groupVars, handled>>
    BY <1>3 DEF Yield, LocalInv, Places
  <2>2. received' \in [Gens -> Seq(Nat)]
    BY <2>1 DEF LocalInv
  <2>3. \A h \in Gens : pc'[h] \in {"returned", "holding", "abandoned"} => got'[h] \in Nat
    BY <1>1, <2>1 DEF LocalInv
  <2>4. LocalInv'
    BY <1>1, <2>1, <2>2, <2>3, InHandIs DEF LocalInv, logVars, countVars, brokerVars
  <2>5. GroupInv' /\ taken' = taken
    BY <2>1, SameGroup DEF GroupInv, groupVars
  <2>6. Settled \subseteq Settled'
    BY <1>1, <1>a, <2>1, InHandIs DEF Settled
  <2> QED
    BY <1>1, <2>4, <2>5, <2>6, RiskStays
<1>4. CASE Resume(g) \/ PassOver(g)
  <2>1. /\ got[g] \in Nat /\ received' = received
        /\ handled \subseteq handled' /\ handled' \subseteq handled \union {got[g]}
        /\ got[g] \in handled' \union Unusable
    BY <1>4 DEF Resume, PassOver, LocalInv
  <2>2. /\ GroupInv' /\ taken' = taken /\ consumers' \subseteq Gens
        /\ \E place \in {"polling", "closed"} : pc' = [pc EXCEPT ![g] = place]
    <3>1. CASE Finish(g)
      BY <1>1, <3>1, FinishKeeps
    <3>2. CASE UNCHANGED <<brokerVars, groupVars>> /\ pc' = [pc EXCEPT ![g] = "polling"]
      BY <3>2, SameGroup DEF GroupInv, LocalInv, groupVars, brokerVars
    <3> QED
      BY <1>4, <3>1, <3>2 DEF Resume, PassOver, Loop
  <2>3. PICK place \in {"polling", "closed"} : pc' = [pc EXCEPT ![g] = place]
    BY <2>2
  <2>4. place \in Places /\ place \notin {"returned", "holding", "abandoned"}
    BY <2>3 DEF Places
  <2>5. LocalInv'
    BY <1>1, <2>1, <2>2, <2>3, <2>4, InHandIs DEF LocalInv, logVars, countVars
  <2>6. Settled \subseteq Settled'
    <3>1. InHand \subseteq InHand' \union {got[g]}
      BY <1>1, <2>3, <2>4, InHandIs
    <3> QED
      BY <1>a, <2>1, <3>1 DEF Settled
  <2> QED
    BY <1>1, <2>2, <2>5, <2>6, RiskStays
<1> QED
  BY <1>2, <1>3, <1>4

\* A generator whose caller went away, whose broker stopped, or which raised,
\* ends.
LEMMA EndingKeeps ==
  ASSUME KafkaInv, NEW g \in Gens,
         PollFails(g) \/ Abandon(g) \/ Finalise(g) \/ Cancel(g) \/ Undecodable(g)
  PROVE  KafkaInv'
<1> USE DEF KafkaInv
<1>1. UNCHANGED <<running, producer, logVars, got, received, countVars>>
  BY DEF PollFails, Abandon, Finalise, Cancel, Undecodable, Finish, brokerVars
<1>a. Unusable' = Unusable
  BY <1>1, SameUnusable DEF logVars
<1>2. CASE Abandon(g)
  <2>1. /\ pc' = [pc EXCEPT ![g] = "abandoned"] /\ "abandoned" \in Places
        /\ pc[g] = "holding" /\ got[g] \in Nat
        /\ UNCHANGED <<brokerVars, groupVars>>
        /\ \/ handled' = handled \union {got[g]} /\ interrupted' = interrupted
           \/ handled' = handled /\ interrupted' = interrupted + 1
    BY <1>2 DEF Abandon, LocalInv, Places
  <2>2. \A h \in Gens : pc'[h] \in {"returned", "holding", "abandoned"} => got'[h] \in Nat
    BY <1>1, <2>1 DEF LocalInv
  <2>3. LocalInv'
    <3>1. handled' \subseteq Nat /\ interrupted' \in Nat
      <4>1. handled \union {got[g]} \subseteq Nat
        BY <2>1 DEF LocalInv
      <4>2. interrupted \in Nat /\ interrupted + 1 \in Nat
        BY DEF LocalInv
      <4> QED
        BY <2>1, <4>1, <4>2 DEF LocalInv
    <3>2. pc' \in [Gens -> Places]
      BY <1>1, <2>1, InHandIs
    <3> QED
      BY <1>1, <2>1, <2>2, <3>1, <3>2 DEF LocalInv, logVars, countVars, brokerVars
  <2>4. GroupInv' /\ taken' = taken
    BY <2>1, SameGroup DEF GroupInv, groupVars
  <2>5. InHand \subseteq InHand' \union {got[g]}
    BY <1>1, <2>1, InHandIs
  <2>6. CASE handled' = handled \union {got[g]} /\ interrupted' = interrupted
    <3>1. Settled \subseteq Settled'
      BY <1>a, <2>5, <2>6 DEF Settled
    <3> QED
      BY <2>3, <2>4, <2>6, <3>1, RiskStays
  <2>7. CASE handled' = handled /\ interrupted' = interrupted + 1
    <3>1. IsFiniteSet({got[g]}) /\ Cardinality({got[g]}) = 1
      BY FS_Singleton
    <3>2. Settled \subseteq Settled' \union {got[g]}
      BY <1>a, <2>5, <2>7 DEF Settled
    <3>3. 1 \in Nat /\ Cardinality({got[g]}) <= 1
      BY <3>1
    <3> QED
      BY <2>3, <2>4, <2>7, <3>1, <3>2, <3>3, RiskKeeps
  <2> QED
    BY <2>1, <2>6, <2>7
<1>3. CASE PollFails(g) \/ Finalise(g) \/ Cancel(g) \/ Undecodable(g)
  <2>1. /\ Finish(g) /\ handled' = handled
    BY <1>3 DEF PollFails, Finalise, Cancel, Undecodable
  <2>2. /\ GroupInv' /\ taken' = taken /\ consumers' \subseteq Gens
        /\ pc' = [pc EXCEPT ![g] = "closed"] /\ "closed" \in Places
    BY <1>1, <2>1, FinishKeeps DEF Places
  <2>3. interrupted' \in Nat
    BY <1>3 DEF PollFails, Finalise, Cancel, Undecodable, LocalInv
  <2>4. LocalInv'
    BY <1>1, <2>1, <2>2, <2>3, InHandIs DEF LocalInv, logVars, countVars
  <2>5. CASE pc[g] \in {"returned", "holding"} /\ got[g] \notin Unusable
    <3>1. interrupted' = interrupted + 1
      BY <1>3, <2>5 DEF PollFails, Finalise, Cancel, Undecodable
    <3>2. IsFiniteSet({got[g]}) /\ Cardinality({got[g]}) = 1
      BY FS_Singleton
    <3>3. Settled \subseteq Settled' \union {got[g]}
      BY <1>1, <1>a, <2>1, <2>2, InHandIs DEF Settled
    <3>4. 1 \in Nat /\ Cardinality({got[g]}) <= 1
      BY <3>2
    <3> QED
      BY <2>2, <2>4, <3>1, <3>2, <3>3, <3>4, RiskKeeps
  <2>6. CASE ~(pc[g] \in {"returned", "holding"} /\ got[g] \notin Unusable)
    <3>1. interrupted' = interrupted
      BY <1>3, <2>6 DEF PollFails, Finalise, Cancel, Undecodable
    <3>2. InHand \subseteq InHand' \union Unusable
      BY <1>1, <2>2, <2>6, InHandIs
    <3>3. Settled \subseteq Settled'
      BY <1>a, <2>1, <3>2 DEF Settled
    <3> QED
      BY <2>2, <2>4, <3>1, <3>3, RiskStays
  <2> QED
    BY <2>5, <2>6
<1> QED
  BY <1>2, <1>3

\* A crash takes a message from every caller that has one.
LEMMA CrashKeeps == KafkaInv /\ Crash => KafkaInv'
<1> SUFFICES ASSUME KafkaInv, Crash PROVE KafkaInv'
  OBVIOUS
<1> USE DEF KafkaInv
<1> DEFINE alive == {g \in Gens : pc[g] \notin {"idle", "closed", "dead"}}
           hands == {g \in alive : pc[g] \in {"returned", "holding"} /\ got[g] \notin Unusable}
           gone == {got[g] : g \in hands}
<1>1. /\ running' = FALSE /\ producer' = FALSE /\ consumers' = {} /\ pending' = <<>>
      /\ pc' = [g \in Gens |-> IF g \in alive THEN "dead" ELSE pc[g]]
      /\ interrupted' = interrupted + Cardinality(hands)
      /\ faults' = faults + 1 /\ member' = {}
      /\ UNCHANGED <<log, published, committed, begin, skipped, taken, got, received, handled,
                     starts>>
  BY DEF Crash
<1>2. IsFiniteSet(hands)
  <2>1. hands \subseteq Gens
    OBVIOUS
  <2> QED
    BY <2>1, KafkaAssumption, FS_Subset
<1>3. /\ IsFiniteSet(gone) /\ Cardinality(gone) <= Cardinality(hands)
      /\ Cardinality(hands) \in Nat
  <2> DEFINE f == [g \in hands |-> got[g]]
  <2>1. f \in Surjection(hands, gone)
    BY DEF Surjection
  <2> HIDE DEF f, hands, gone
  <2> QED
    BY <1>2, <2>1, FS_Surjection, FS_CardinalityType
<1>4. GroupInv' /\ taken' = taken
  <2>1. CASE owner # None
    BY <1>1, <2>1, UnassignKeeps DEF Crash
  <2>2. CASE owner = None
    <3>1. UNCHANGED <<owner, position, stored>>
      BY <2>2 DEF Crash
    <3> QED
      BY <1>1, <2>2, <3>1, SameGroup
  <2> QED
    BY <2>1, <2>2
<1>5. pc' \in [Gens -> Places]
  BY <1>1 DEF LocalInv, Places
<1>6. \A g \in Gens : pc'[g] \notin {"polling", "returned", "holding", "abandoned"}
  BY <1>1 DEF LocalInv, Places
<1>7. pending' \in Seq(Nat) /\ faults' \in Nat /\ interrupted' \in Nat
  BY <1>1, <1>3 DEF LocalInv
<1>8. LocalInv'
  BY <1>1, <1>5, <1>6, <1>7 DEF LocalInv
<1>9. InHand \subseteq gone \union Unusable
  BY DEF InHand
<1>10. Settled \subseteq Settled' \union gone
  BY <1>1, <1>9, SameUnusable DEF Settled
<1>11. RiskBounded'
  <2> HIDE DEF gone, hands
  <2> QED
    BY <1>1, <1>3, <1>4, <1>10, RiskKeeps
<1> QED
  BY <1>4, <1>8, <1>11

LEMMA GroupStutterKeeps == KafkaInv /\ UNCHANGED vars => KafkaInv'
<1> SUFFICES ASSUME KafkaInv, UNCHANGED vars PROVE KafkaInv'
  OBVIOUS
<1> USE DEF KafkaInv, vars, brokerVars, logVars, groupVars, genVars, countVars
<1>1. LocalInv'
  BY DEF LocalInv
<1>2. GroupInv' /\ taken' = taken
  BY SameGroup DEF GroupInv
<1>3. Settled' = Settled
  BY SameUnusable DEF Settled, InHand
<1> QED
  BY <1>1, <1>2, <1>3, RiskStays

LEMMA KafkaInit == Init => KafkaInv
<1> SUFFICES ASSUME Init PROVE KafkaInv
  OBVIOUS
<1>1. LocalInv
  <2>1. <<>> \in Seq(Nat \union {Foreign})
    OBVIOUS
  <2> QED
    BY <2>1, EmptyIsSeq DEF Init, LocalInv, Places
<1>2. GroupInv
  BY FS_EmptySet DEF Init, GroupInv, Anchored
<1>3. AtRisk = {}
  BY DEF Init, AtRisk
<1> QED
  BY <1>1, <1>2, <1>3, FS_EmptySet DEF KafkaInv, RiskBounded, LocalInv, Init

-----------------------------------------------------------------------------
(***************************************************************************)
(* The inductive invariant: the owner reads on where the group's offsets   *)
(* say; what the group has passed was handed out or jumped over; and what  *)
(* was handed out exceeds what was handled, is in hand or is of no use by  *)
(* one message per interruption at most.                                   *)
(***************************************************************************)
THEOREM KafkaInvariant == Spec => []KafkaInv
<1>1. KafkaInv /\ [Next]_vars => KafkaInv'
  <2> SUFFICES ASSUME KafkaInv, [Next]_vars PROVE KafkaInv'
    OBVIOUS
  <2>1. CASE \E g \in Gens : GeneratorStep(g)
    BY <2>1, PollKeeps, CallerKeeps, EndingKeeps DEF GeneratorStep
  <2> QED
    BY <2>1, ProcessKeeps, ClusterKeeps, CrashKeeps, GroupStutterKeeps DEF Next
<1> QED
  BY <1>1, KafkaInit, PTL DEF Spec

(***************************************************************************)
(* The state of the transport is well typed: the partition belongs to a    *)
(* member, and offsets are counts.                                         *)
(***************************************************************************)
THEOREM KafkaTypeCorrect == Spec => []KafkaTypeOK
<1>1. KafkaInv => KafkaTypeOK
  BY DEF KafkaInv, LocalInv, GroupInv, KafkaTypeOK
<1> QED
  BY <1>1, KafkaInvariant, PTL

(***************************************************************************)
(* Acknowledging on poll() costs at most one message per interruption: of  *)
(* the usable messages the group has passed since its first assignment no  *)
(* more are unhandled and in nobody's hands, but for those an assignment   *)
(* with nothing committed jumped over, for any number of generators,       *)
(* crashes, evictions and restarts.                                        *)
(***************************************************************************)
THEOREM AtMostOneLossEach == Spec => []OneLossPerInterruption
<1>1. KafkaInv => OneLossPerInterruption
  <2> SUFFICES ASSUME KafkaInv PROVE OneLossPerInterruption
    OBVIOUS
  <2> DEFINE lost == Passed \ (handled \union InHand \union Unusable \union skipped)
  <2>0. Passed \subseteq Covered
    BY DEF Passed, KafkaInv, GroupInv, Anchored
  <2>1. lost \subseteq AtRisk
    BY <2>0 DEF AtRisk, Covered, Settled
  <2>2. IsFiniteSet(AtRisk)
    BY FS_Subset DEF AtRisk, KafkaInv, GroupInv
  <2>3. Cardinality(lost) <= Cardinality(AtRisk) /\ IsFiniteSet(lost)
    BY <2>1, <2>2, FS_Subset
  <2>4. Cardinality(lost) \in Nat /\ Cardinality(AtRisk) \in Nat
    BY <2>2, <2>3, FS_CardinalityType
  <2> QED
    BY <2>3, <2>4 DEF KafkaInv, LocalInv, RiskBounded, OneLossPerInterruption
<1> QED
  BY <1>1, KafkaInvariant, PTL

-----------------------------------------------------------------------------
\* The refinement, until the first crash or lost session.

\* Message m lies before a place in the log; it is in a sequence.
Before(m, mark) == mark # None /\ m < mark

Among(m, seq) == \E i \in 1..Len(seq) : seq[i] = m

\* What was yielded, or is about to be, the group has passed; and what is
\* about to be is in the log, in no other hands, and the newest for its
\* generator.
TakenOnce ==
  faults = 0 =>
    /\ \A g \in Gens : \A i \in 1..Len(received[g]) : Before(received[g][i], Handover)
    /\ \A g \in Gens : pc[g] = "returned" =>
         /\ Before(got[g], Handover) /\ got[g] < Len(log)
         /\ \A i \in 1..Len(received[g]) : received[g][i] < got[g]
         /\ \A h \in Gens \ {g} :
              ~Among(got[g], received[h]) /\ (pc[h] = "returned" => got[h] # got[g])

\* Only a poll moves the place where the group reads on.
LEMMA LeavePasses ==
  ASSUME GroupInv, NEW S \in SUBSET Gens, LeaveGroup(S)
  PROVE  Handover' = Handover
<1>1. None \notin S
  BY KafkaAssumption
<1> QED
  BY <1>1 DEF LeaveGroup, Unassign, Handover, GroupInv

LEMMA GroupPasses ==
  ASSUME KafkaInv, Next, faults' = 0, \A g \in Gens : ~PollReturns(g)
  PROVE  Handover' = Handover
<1> USE DEF KafkaInv
<1>1. ~Evict /\ ~Crash
  BY DEF Evict, Crash, LocalInv
<1>2. CASE ProcessStep
  <2>1. CASE StopEnd
    BY <2>1, LeavePasses DEF StopEnd, LocalInv
  <2>2. CASE Start \/ StopRequest \/ Publish
    BY <2>2 DEF Start, StopRequest, Publish, groupVars, Handover
  <2> QED
    BY <1>2, <2>1, <2>2 DEF ProcessStep
<1>3. CASE ClusterStep
  <2>1. CASE Deliver \/ FailDelivery \/ Intrude
    BY <2>1 DEF Deliver, FailDelivery, Intrude, groupVars, Handover
  <2>2. CASE AutoCommit
    BY <2>2 DEF AutoCommit, Handover
  <2>3. CASE Revoke
    BY <2>3 DEF Revoke, Unassign, Handover
  <2>4. ASSUME NEW g \in Gens, Assign(g) PROVE Handover' = Handover
    BY <2>4, KafkaAssumption DEF Assign, Handover, GroupInv
  <2> QED
    BY <1>3, <2>1, <2>2, <2>3, <2>4 DEF ClusterStep
<1>4. ASSUME NEW g \in Gens, GeneratorStep(g) PROVE Handover' = Handover
  <2>1. CASE Finish(g)
    BY <2>1, LeavePasses DEF Finish
  <2>2. CASE ~Finish(g)
    <3>1. Subscribe(g) \/ Yield(g) \/ Abandon(g) \/ Resume(g) \/ PassOver(g)
      BY <1>4, <2>2 DEF GeneratorStep, PollFails, Finalise, Cancel, Undecodable
    <3>2. UNCHANGED <<committed, owner, stored>>
      BY <2>2, <3>1 DEF Subscribe, Yield, Abandon, Resume, PassOver, Loop, groupVars
    <3> QED
      BY <3>2 DEF Handover
  <2> QED
    BY <2>1, <2>2
<1> QED
  BY <1>1, <1>2, <1>3, <1>4 DEF Next

\* Steps that hand out nothing.
LEMMA NothingTaken ==
  ASSUME TakenOnce, faults = 0, UNCHANGED <<got, received>>, Handover' = Handover,
         \A g \in Gens : pc'[g] = "returned" => pc[g] = "returned",
         Len(log) \in Nat, Len(log') \in Nat, Len(log') >= Len(log), got \in [Gens -> Nat \union {None}],
         \A g \in Gens : pc[g] = "returned" => got[g] \in Nat
  PROVE  TakenOnce'
<1>1. ASSUME NEW g \in Gens, pc'[g] = "returned"
      PROVE  /\ Before(got[g], Handover) /\ got[g] < Len(log')
             /\ \A i \in 1..Len(received[g]) : received[g][i] < got[g]
             /\ \A h \in Gens \ {g} :
                  ~Among(got[g], received[h]) /\ (pc'[h] = "returned" => got[h] # got[g])
  BY <1>1 DEF TakenOnce
<1> QED
  BY <1>1 DEF TakenOnce

\* A poll hands out a message that the group has not passed.
LEMMA PollTakes ==
  ASSUME KafkaInv, TakenOnce, faults = 0, NEW g \in Gens, PollReturns(g)
  PROVE  TakenOnce'
<1> USE DEF KafkaInv
<1>1. /\ pc[g] = "polling" /\ owner = g /\ owner # None
      /\ \A h \in Gens \ {g} : pc'[h] = pc[h] /\ got'[h] = got[h]
      /\ pc'[g] = "returned" /\ got'[g] = position[g]
      /\ position[g] \in Nat /\ position[g] < Len(log)
      /\ stored'[g] = position[g] + 1 /\ owner' = owner
      /\ received' = received /\ log' = log /\ faults' = faults
  BY KafkaAssumption DEF PollReturns, LocalInv, GroupInv, logVars, countVars
<1>2. Handover # None => Handover \in Nat /\ Handover <= position[g]
  BY <1>1 DEF Handover, GroupInv, Anchored
<1>3. Handover' = position[g] + 1 /\ Handover' # None
  BY <1>1, KafkaAssumption DEF Handover
<1>4. ASSUME NEW m \in Nat, Before(m, Handover)
      PROVE  Before(m, Handover') /\ m < position[g]
  BY <1>1, <1>2, <1>3, <1>4 DEF Before
<1>5. \A h \in Gens : /\ \A i \in 1..Len(received[h]) : received[h][i] \in Nat
                      /\ pc[h] = "returned" => got[h] \in Nat
  BY DEF LocalInv
<1>6. \A h \in Gens : \A i \in 1..Len(received[h]) :
        Before(received[h][i], Handover') /\ received[h][i] < position[g]
  BY <1>4, <1>5 DEF TakenOnce
<1>7. \A h \in Gens \ {g} : pc[h] = "returned" =>
        Before(got[h], Handover') /\ got[h] < position[g] /\ got[h] # position[g]
  BY <1>1, <1>4, <1>5 DEF TakenOnce
<1>8. Before(position[g], Handover')
  BY <1>1, <1>3 DEF Before
<1>9. \A h \in Gens : ~Among(position[g], received[h])
  BY <1>1, <1>5, <1>6 DEF Among
<1>10. \A h \in Gens : \A i \in 1..Len(received'[h]) : Before(received'[h][i], Handover')
  BY <1>1, <1>6
<1>11. ASSUME NEW h \in Gens, pc'[h] = "returned"
       PROVE  /\ Before(got'[h], Handover') /\ got'[h] < Len(log')
              /\ \A i \in 1..Len(received'[h]) : received'[h][i] < got'[h]
              /\ \A k \in Gens \ {h} :
                   ~Among(got'[h], received'[k]) /\ (pc'[k] = "returned" => got'[k] # got'[h])
  <2>1. CASE h = g
    BY <1>1, <1>6, <1>7, <1>8, <1>9, <2>1 DEF Among
  <2>2. CASE h # g
    BY <1>1, <1>7, <1>11, <2>2 DEF TakenOnce, Among
  <2> QED
    BY <2>1, <2>2
<1> QED
  BY <1>10, <1>11 DEF TakenOnce, Before, Among

LEMMA Appended ==
  ASSUME NEW s \in Seq(Nat), NEW n \in Nat
  PROVE  \A i \in 1..Len(Append(s, n)) :
           Append(s, n)[i] = n \/ \E j \in 1..Len(s) : Append(s, n)[i] = s[j]
<1> SUFFICES ASSUME NEW i \in 1..Len(Append(s, n))
             PROVE  Append(s, n)[i] = n \/ \E j \in 1..Len(s) : Append(s, n)[i] = s[j]
  OBVIOUS
<1>1. CASE i = Len(s) + 1
  BY <1>1
<1>2. CASE i # Len(s) + 1
  <2>1. i \in 1..Len(s) /\ Append(s, n)[i] = s[i]
    BY <1>2
  <2> QED
    BY <2>1
<1> QED
  BY <1>1, <1>2

\* A yield hands over what the poll had taken.
LEMMA YieldHands ==
  ASSUME KafkaInv, TakenOnce, faults = 0, NEW g \in Gens, Yield(g)
  PROVE  TakenOnce' /\ Fanout!Deliver(g)
<1> USE DEF KafkaInv
<1>1. /\ pc[g] = "returned" /\ got[g] \in Nat /\ got' = got /\ log' = log /\ faults' = faults
      /\ pc'[g] = "holding" /\ \A h \in Gens \ {g} : pc'[h] = pc[h]
      /\ received' = [received EXCEPT ![g] = Append(received[g], got[g])]
      /\ UNCHANGED groupVars
  BY DEF Yield, LocalInv, logVars, countVars
<1>2. /\ Before(got[g], Handover) /\ got[g] < Len(log)
      /\ \A i \in 1..Len(received[g]) : received[g][i] < got[g]
      /\ \A h \in Gens \ {g} :
           ~Among(got[g], received[h]) /\ (pc[h] = "returned" => got[h] # got[g])
  BY <1>1 DEF TakenOnce
<1>3. /\ received \in [Gens -> Seq(Nat)] /\ Len(received[g]) \in Nat
      /\ Len(log) \in Nat
  BY DEF LocalInv
<1>4. /\ received'[g] = Append(received[g], got[g])
      /\ \A h \in Gens \ {g} : received'[h] = received[h]
  BY <1>1, <1>3
<1>5. \A i \in 1..Len(received'[g]) :
        \/ received'[g][i] = got[g]
        \/ \E j \in 1..Len(received[g]) : received'[g][i] = received[g][j]
  BY <1>1, <1>3, <1>4, Appended
<1>6. Handover' = Handover
  BY <1>1 DEF Handover, groupVars
<1>7. \A h \in Gens : \A i \in 1..Len(received'[h]) : Before(received'[h][i], Handover')
  <2>1. \A i \in 1..Len(received[g]) : Before(received[g][i], Handover)
    BY DEF TakenOnce
  <2>2. \A i \in 1..Len(received'[g]) : Before(received'[g][i], Handover)
    BY <1>2, <1>5, <2>1
  <2>3. \A h \in Gens \ {g} : \A i \in 1..Len(received'[h]) : Before(received'[h][i], Handover)
    BY <1>4 DEF TakenOnce
  <2> QED
    BY <1>6, <2>2, <2>3 DEF Before
<1>8. ASSUME NEW h \in Gens, pc'[h] = "returned"
      PROVE  /\ Before(got'[h], Handover') /\ got'[h] < Len(log')
             /\ \A i \in 1..Len(received'[h]) : received'[h][i] < got'[h]
             /\ \A k \in Gens \ {h} :
                  ~Among(got'[h], received'[k]) /\ (pc'[k] = "returned" => got'[k] # got'[h])
  <2>1. h # g /\ pc[h] = "returned" /\ got[h] # got[g]
    BY <1>1, <1>2, <1>8
  <2>2. /\ Before(got[h], Handover) /\ got[h] < Len(log)
        /\ \A i \in 1..Len(received[h]) : received[h][i] < got[h]
        /\ \A k \in Gens \ {h} :
             ~Among(got[h], received[k]) /\ (pc[k] = "returned" => got[k] # got[h])
    BY <2>1 DEF TakenOnce
  <2>3. ~Among(got[h], received'[g])
    <3>1. ~Among(got[h], received[g])
      BY <2>1, <2>2
    <3> QED
      BY <1>5, <2>1, <3>1 DEF Among
  <2>4. \A k \in Gens \ {h, g} : ~Among(got[h], received'[k])
    BY <1>1, <1>4, <2>2 DEF Among
  <2> QED
    BY <1>1, <1>4, <1>6, <2>1, <2>2, <2>3, <2>4 DEF Before
<1>9. TakenOnce'
  BY <1>7, <1>8 DEF TakenOnce, Before, Among
<1>10. Fanout!Deliver(g)
  <2>1. got[g] \in 0..(Len(log) - 1)
    BY <1>1, <1>2, <1>3
  <2>2. Fanout!Newer(got[g], g)
    BY <1>2 DEF Fanout!Newer
  <2>3. \A t \in Gens \ {g} : ~Fanout!HandedTo(got[g], t)
    BY <1>2 DEF Among, Fanout!HandedTo
  <2> QED
    BY <1>1, <2>1, <2>2, <2>3 DEF Fanout!Deliver
<1> QED
  BY <1>9, <1>10

\* Every other step hands out nothing and yields nothing; the log may grow.
LEMMA OthersQuiet ==
  ASSUME KafkaInv, Next, faults' = 0, \A g \in Gens : ~PollReturns(g) /\ ~Yield(g)
  PROVE  /\ faults = 0 /\ UNCHANGED <<got, received>>
         /\ \A g \in Gens : pc'[g] = "returned" => pc[g] = "returned"
         /\ log' = log \/ \E m \in Nat \union {Foreign} : log' = Append(log, m)
<1> USE DEF KafkaInv
<1>1. ~Evict /\ ~Crash
  BY DEF Evict, Crash, LocalInv
<1>2. CASE ProcessStep
  BY <1>2 DEF ProcessStep, Start, StopRequest, StopEnd, Publish, logVars, genVars, countVars
<1>3. CASE ClusterStep
  <2>1. CASE Deliver
    <3>1. Head(pending) \in Nat
      BY <2>1, HeadAndTail DEF Deliver, LocalInv
    <3> QED
      BY <2>1, <3>1 DEF Deliver, genVars, countVars
  <2>2. CASE ~Deliver
    BY <1>3, <2>2 DEF ClusterStep, FailDelivery, Intrude, AutoCommit, Revoke, Assign, logVars,
                      genVars, countVars
  <2> QED
    BY <2>1, <2>2
<1>4. ASSUME NEW g \in Gens, GeneratorStep(g)
      PROVE  /\ faults = 0 /\ UNCHANGED <<got, received, log>>
             /\ \A h \in Gens : pc'[h] = "returned" => pc[h] = "returned"
  <2>1. \/ Subscribe(g) \/ PollFails(g) \/ Resume(g) \/ Abandon(g) \/ Finalise(g) \/ Cancel(g)
        \/ PassOver(g) \/ Undecodable(g)
    BY <1>4 DEF GeneratorStep
  <2>2. faults = 0 /\ UNCHANGED <<got, received, log>>
    BY <2>1 DEF Subscribe, PollFails, Resume, Abandon, Finalise, Cancel, PassOver, Undecodable,
                logVars, countVars
  <2>3. \/ pc' = [pc EXCEPT ![g] = "closed"] \/ pc' = [pc EXCEPT ![g] = "polling"]
        \/ pc' = [pc EXCEPT ![g] = "abandoned"]
    BY <2>1 DEF Subscribe, PollFails, Resume, Abandon, Finalise, Cancel, PassOver, Undecodable,
                Loop, Finish
  <2> QED
    BY <2>2, <2>3 DEF LocalInv
<1> QED
  BY <1>1, <1>2, <1>3, <1>4 DEF Next

LEMMA TakenOnceKept == KafkaInv /\ TakenOnce /\ [Next]_vars => TakenOnce'
<1> SUFFICES ASSUME KafkaInv, TakenOnce, [Next]_vars, faults' = 0 PROVE TakenOnce'
  BY DEF TakenOnce
<1> USE DEF KafkaInv
<1>1. Len(log) \in Nat /\ \A g \in Gens : pc[g] = "returned" => got[g] \in Nat
  BY DEF LocalInv
<1>2. CASE UNCHANGED vars
  <2>1. /\ faults = 0 /\ UNCHANGED <<got, received, pc, log, committed, owner, stored>>
    BY <1>2 DEF vars, logVars, groupVars, genVars, countVars
  <2> QED
    BY <1>1, <2>1, NothingTaken DEF Handover, LocalInv
<1>3. ASSUME Next PROVE faults = 0
  BY <1>3 DEF Next, ProcessStep, ClusterStep, GeneratorStep, Evict, Crash, LocalInv, countVars,
              Start, StopRequest, StopEnd, Publish, Deliver, FailDelivery, Intrude, AutoCommit,
              Revoke, Assign, Subscribe, PollReturns, PollFails, Yield, PassOver, Undecodable,
              Resume, Abandon, Finalise, Cancel
<1>4. CASE \E g \in Gens : PollReturns(g) \/ Yield(g)
  <2>1. Next
    BY <1>4 DEF Next, GeneratorStep
  <2> QED
    BY <1>3, <1>4, <2>1, PollTakes, YieldHands
<1>5. CASE Next /\ \A g \in Gens : ~PollReturns(g) /\ ~Yield(g)
  <2>1. Len(log') \in Nat /\ Len(log') >= Len(log)
    BY <1>1, <1>5, OthersQuiet DEF LocalInv
  <2> QED
    BY <1>1, <1>5, <2>1, OthersQuiet, GroupPasses, NothingTaken DEF LocalInv
<1> QED
  BY <1>2, <1>4, <1>5

LEMMA StepsOfFanout ==
  KafkaInv /\ TakenOnce /\ [Next]_vars => [faults' = 0 => Fanout!Next]_<<Len(log), received>>
<1> SUFFICES ASSUME KafkaInv, TakenOnce, [Next]_vars, faults' = 0
             PROVE  Fanout!Next \/ UNCHANGED <<Len(log), received>>
  OBVIOUS
<1> USE DEF KafkaInv
<1>1. CASE UNCHANGED vars
  BY <1>1 DEF vars, logVars, genVars
<1>2. ASSUME NEW g \in Gens, PollReturns(g) PROVE UNCHANGED <<Len(log), received>>
  BY <1>2 DEF PollReturns, logVars
<1>3. ASSUME NEW g \in Gens, Yield(g) PROVE Fanout!Next
  <2>1. faults = 0
    BY <1>3 DEF Yield, countVars
  <2> QED
    BY <1>3, <2>1, YieldHands DEF Fanout!Next
<1>4. CASE Next /\ \A g \in Gens : ~PollReturns(g) /\ ~Yield(g)
  <2>1. CASE log' = log
    BY <1>4, <2>1, OthersQuiet
  <2>2. ASSUME NEW m \in Nat \union {Foreign}, log' = Append(log, m) PROVE Fanout!Next
    <3>1. Len(log') = Len(log) + 1
      BY <2>2 DEF LocalInv
    <3> QED
      BY <1>4, <3>1, OthersQuiet DEF Fanout!Next, Fanout!Publish
  <2> QED
    BY <1>4, <2>1, <2>2, OthersQuiet
<1> QED
  BY <1>1, <1>2, <1>3, <1>4

(***************************************************************************)
(* The transport keeps the promise it shares with the in-memory broker     *)
(* until the first crash or lost session: appending to the log publishes,  *)
(* yielding delivers a newer message that no other generator of the group  *)
(* was handed, and every other step leaves what TopicFanout speaks of.     *)
(***************************************************************************)
THEOREM KafkaImplementsFanout == Spec => FanoutUntilFault
<1>1. Init => TakenOnce
  BY DEF Init, TakenOnce
<1> QED
  BY <1>1, TakenOnceKept, StepsOfFanout, KafkaInvariant, PTL DEF Spec, FanoutUntilFault

-----------------------------------------------------------------------------
Payloads == 1..Len(sent)

Counters == [ticks_seen : Nat, published : Nat, skipped : Nat, errors : Nat]

WorkerTypeOK ==
  /\ wiring.broker \in BOOLEAN
  /\ next \in 1..(Len(Stream) + 1)
  /\ phase \in {"idle", "storing"}
  /\ stats \in Counters
  /\ aborted \in Nat
  /\ sent \in Seq(1..Len(Stream))
  /\ framed \subseteq Payloads /\ saved \subseteq Payloads
  /\ entry \in [Matches -> 0..Len(sent)]
  /\ before \in 0..Len(sent)

\* A payload that is being stored was published first, and is not counted yet.
StoringIsFramed ==
  phase = "storing" =>
    /\ sent # <<>>
    /\ wiring.broker => Len(sent) \in framed /\ Frames > stats.published

WorkerInv ==
  WorkerTypeOK /\ StoringIsFramed /\ PredictionsAccounted /\ StoredIsLatest

-----------------------------------------------------------------------------
LEMMA EventTyped ==
  ASSUME NEW i \in 1..Len(Stream)
  PROVE  Stream[i].match \in Matches /\ Len(Stream) \in Nat
<1> DEFINE Events == [match : Matches, kind : Kinds, scoreable : BOOLEAN]
<1>1. Stream \in Seq(Events)
  BY WorkerAssumption
<1>2. \A e \in Events : e.match \in Matches
  OBVIOUS
<1> HIDE DEF Events
<1>3. Stream[i] \in Events /\ Len(Stream) \in Nat
  BY <1>1
<1> QED
  BY <1>2, <1>3

LEMMA BacklogStays ==
  ASSUME NEW n \in Nat \ {0}, NEW b \in Nat
  PROVE  Max({1, n - b}) \in Nat \ {0}
<1> DEFINE S == {1, n - b}
           top == IF n - b >= 1 THEN n - b ELSE 1
<1>1. top \in S /\ \A y \in S : top >= y
  OBVIOUS
<1>2. Max(S) \in S /\ \A y \in S : Max(S) >= y
  BY <1>1 DEF Max
<1> QED
  BY <1>2

\* What a step does to the counters.
LEMMA CountersAdd ==
  ASSUME stats \in Counters
  PROVE  /\ Tick => /\ stats' \in Counters /\ stats'.ticks_seen = stats.ticks_seen + 1
                     /\ stats'.published = stats.published /\ stats'.skipped = stats.skipped
                     /\ stats'.errors = stats.errors
         /\ Counted("skipped") =>
              /\ stats' \in Counters /\ stats'.ticks_seen = stats.ticks_seen + 1
              /\ stats'.published = stats.published /\ stats'.skipped = stats.skipped + 1
              /\ stats'.errors = stats.errors
         /\ Counted("published") =>
              /\ stats' \in Counters /\ stats'.ticks_seen = stats.ticks_seen + 1
              /\ stats'.published = stats.published + 1 /\ stats'.skipped = stats.skipped
              /\ stats'.errors = stats.errors
         /\ Counted("errors") =>
              /\ stats' \in Counters /\ stats'.ticks_seen = stats.ticks_seen + 1
              /\ stats'.published = stats.published /\ stats'.skipped = stats.skipped
              /\ stats'.errors = stats.errors + 1
<1>1. stats = [ticks_seen |-> stats.ticks_seen, published |-> stats.published,
               skipped |-> stats.skipped, errors |-> stats.errors]
  BY DEF Counters
<1>2. /\ stats.ticks_seen \in Nat /\ stats.published \in Nat /\ stats.skipped \in Nat
      /\ stats.errors \in Nat
  BY DEF Counters
<1>3. ASSUME Tick
      PROVE  stats' = [ticks_seen |-> stats.ticks_seen + 1, published |-> stats.published,
                       skipped |-> stats.skipped, errors |-> stats.errors]
  BY <1>1, <1>3 DEF Tick
<1>4. ASSUME Counted("skipped")
      PROVE  stats' = [ticks_seen |-> stats.ticks_seen + 1, published |-> stats.published,
                       skipped |-> stats.skipped + 1, errors |-> stats.errors]
  BY <1>1, <1>4 DEF Counted
<1>5. ASSUME Counted("published")
      PROVE  stats' = [ticks_seen |-> stats.ticks_seen + 1, published |-> stats.published + 1,
                       skipped |-> stats.skipped, errors |-> stats.errors]
  BY <1>1, <1>5 DEF Counted
<1>6. ASSUME Counted("errors")
      PROVE  stats' = [ticks_seen |-> stats.ticks_seen + 1, published |-> stats.published,
                       skipped |-> stats.skipped, errors |-> stats.errors + 1]
  BY <1>1, <1>6 DEF Counted
<1> QED
  BY <1>2, <1>3, <1>4, <1>5, <1>6 DEF Counters

LEMMA OutcomesAdd ==
  ASSUME stats \in Counters
  PROVE  /\ stats' = [stats EXCEPT !.published = @ + 1] =>
              /\ stats' \in Counters /\ stats'.ticks_seen = stats.ticks_seen
              /\ stats'.published = stats.published + 1 /\ stats'.skipped = stats.skipped
              /\ stats'.errors = stats.errors
         /\ stats' = [stats EXCEPT !.errors = @ + 1] =>
              /\ stats' \in Counters /\ stats'.ticks_seen = stats.ticks_seen
              /\ stats'.published = stats.published /\ stats'.skipped = stats.skipped
              /\ stats'.errors = stats.errors + 1
BY DEF Counters

LEMMA CountersAreNat ==
  ASSUME stats \in Counters
  PROVE  /\ stats.ticks_seen \in Nat /\ stats.published \in Nat /\ stats.skipped \in Nat
         /\ stats.errors \in Nat
BY DEF Counters

\* The frames of this worker: how many there are, and one more.
LEMMA FramesCounted ==
  ASSUME WorkerTypeOK
  PROVE  IsFiniteSet({i \in framed : i > before}) /\ Frames \in Nat
<1>1. Len(sent) \in Nat
  BY DEF WorkerTypeOK
<1>2. IsFiniteSet(1..Len(sent))
  BY <1>1, FS_Interval
<1>3. {i \in framed : i > before} \subseteq 1..Len(sent)
  BY DEF WorkerTypeOK, Payloads
<1> QED
  BY <1>2, <1>3, FS_Subset, FS_CardinalityType DEF Frames

LEMMA OneMoreFrame ==
  ASSUME WorkerTypeOK, framed' = framed \union {Len(sent) + 1}, before' = before
  PROVE  Frames' = Frames + 1
<1> DEFINE mine == {i \in framed : i > before}
<1>1. Len(sent) \in Nat /\ before \in 0..Len(sent) /\ framed \subseteq 1..Len(sent)
  BY DEF WorkerTypeOK, Payloads
<1>2. Len(sent) + 1 \notin mine /\ Len(sent) + 1 > before
  BY <1>1
<1>3. {i \in framed' : i > before'} = mine \union {Len(sent) + 1}
  BY <1>2
<1>4. IsFiniteSet(mine)
  BY FramesCounted
<1>5. Cardinality(mine \union {Len(sent) + 1}) = Cardinality(mine) + 1
  BY <1>2, <1>4, FS_AddElement
<1> QED
  BY <1>3, <1>5 DEF Frames

LEMMA SameFrames ==
  ASSUME UNCHANGED <<framed, before>> PROVE Frames' = Frames
BY DEF Frames

\* Steps that leave the payloads alone.
LEMMA SamePayloads ==
  ASSUME WorkerInv, UNCHANGED <<wiring, entry, sent, framed, saved, before>>
  PROVE  StoredIsLatest'
BY DEF WorkerInv, StoredIsLatest

\* A payload is appended; none of the older ones changes.
LEMMA PayloadAppended ==
  ASSUME WorkerInv, next \in 1..Len(Stream), sent' = Append(sent, next),
         framed \subseteq framed', framed' \subseteq framed \union {Len(sent) + 1},
         UNCHANGED <<wiring, entry, saved, before>>
  PROVE  /\ sent' \in Seq(1..Len(Stream)) /\ Len(sent') = Len(sent) + 1 /\ sent' # <<>>
         /\ framed' \subseteq Payloads' /\ saved' \subseteq Payloads'
         /\ entry' \in [Matches -> 0..Len(sent')] /\ before' \in 0..Len(sent')
         /\ StoredIsLatest'
<1> USE DEF WorkerInv
<1>1. Len(sent) \in Nat /\ sent \in Seq(1..Len(Stream))
  BY DEF WorkerTypeOK
<1>2. /\ sent' \in Seq(1..Len(Stream)) /\ Len(sent') = Len(sent) + 1
      /\ \A i \in 1..Len(sent) : sent'[i] = sent[i]
  BY <1>1
<1>3. sent' # <<>>
  BY <1>1, <1>2
<1>4. /\ framed \subseteq 1..Len(sent) /\ saved \subseteq 1..Len(sent)
      /\ entry \in [Matches -> 0..Len(sent)] /\ before \in 0..Len(sent)
  BY DEF WorkerTypeOK, Payloads
<1>5. framed' \subseteq Payloads' /\ saved' \subseteq Payloads'
  BY <1>1, <1>2, <1>4 DEF Payloads
<1>6. entry' \in [Matches -> 0..Len(sent')] /\ before' \in 0..Len(sent')
  BY <1>1, <1>2, <1>4
<1>7. StoredIsLatest'
  BY <1>1, <1>2, <1>4 DEF StoredIsLatest, Nothing
<1> QED
  BY <1>2, <1>3, <1>5, <1>6, <1>7

\* The payload in flight reaches the store.
LEMMA WriteKeeps ==
  ASSUME WorkerInv, phase = "storing", Written,
         saved' \in {saved, saved \union {Payload}}, UNCHANGED <<wiring, sent, framed>>
  PROVE  /\ entry' \in [Matches -> 0..Len(sent)] /\ saved' \subseteq Payloads
         /\ StoredIsLatest'
<1> USE DEF WorkerInv
<1>1. /\ sent \in Seq(1..Len(Stream)) /\ sent # <<>> /\ Len(sent) \in Nat \ {0}
      /\ Payload = Len(sent)
  BY DEF WorkerTypeOK, StoringIsFramed, Payload
<1>2. sent[Payload] \in 1..Len(Stream)
  BY <1>1
<1>3. Key \in Matches
  BY <1>2, EventTyped DEF Key
<1>4. /\ entry \in [Matches -> 0..Len(sent)] /\ saved \subseteq 1..Len(sent)
      /\ entry' = [entry EXCEPT ![Key] = Len(sent)]
  BY <1>1 DEF WorkerTypeOK, Payloads, Written
<1>5. entry' \in [Matches -> 0..Len(sent)] /\ saved' \subseteq Payloads
  <2>1. Len(sent) \in 0..Len(sent) /\ Len(sent) \in 1..Len(sent)
    BY <1>1
  <2>2. entry' \in [Matches -> 0..Len(sent)]
    BY <1>4, <2>1
  <2>3. saved' \subseteq 1..Len(sent)
    BY <1>1, <1>4, <2>1
  <2> QED
    BY <2>2, <2>3 DEF Payloads
<1>6. StoredIsLatest'
  <2> SUFFICES ASSUME NEW m \in Matches
               PROVE  /\ \A i \in saved' : Stream[sent[i]].match = m => entry'[m] >= i
                      /\ entry'[m] # Nothing =>
                           /\ Stream[sent[entry'[m]]].match = m
                           /\ wiring.broker => entry'[m] \in framed
    BY DEF StoredIsLatest
  <2>1. CASE m = Key
    <3>1. entry'[m] = Len(sent)
      BY <1>3, <1>4, <2>1
    <3>2. \A i \in saved' : i <= Len(sent)
      BY <1>1, <1>5 DEF Payloads
    <3>3. Stream[sent[Len(sent)]].match = m
      BY <1>1, <2>1 DEF Key
    <3> QED
      BY <1>1, <3>1, <3>2, <3>3 DEF StoringIsFramed
  <2>2. CASE m # Key
    <3>1. entry'[m] = entry[m]
      BY <1>3, <1>4, <2>2
    <3>2. \A i \in saved' : Stream[sent[i]].match = m => i \in saved
      BY <2>2 DEF Key
    <3> QED
      BY <3>1, <3>2 DEF StoredIsLatest
  <2> QED
    BY <2>1, <2>2
<1> QED
  BY <1>5, <1>6

-----------------------------------------------------------------------------
LEMMA WorkerInitInv == ASSUME WorkerInit PROVE WorkerInv
<1> USE DEF WorkerInit, Nothing
<1>1. wiring.broker \in BOOLEAN /\ Len(Stream) \in Nat
  BY WorkerAssumption
<1>2. sent \in Seq(1..Len(Stream)) /\ Len(sent) = 0
  OBVIOUS
<1>3. WorkerTypeOK
  BY <1>1, <1>2 DEF WorkerTypeOK, NoStats, NoPrediction, Payloads, Counters
<1>4. Frames = 0
  <2>1. {i \in framed : i > before} = {}
    OBVIOUS
  <2> QED
    BY <2>1, FS_EmptySet DEF Frames
<1> QED
  BY <1>3, <1>4
  DEF WorkerInv, StoringIsFramed, PredictionsAccounted, NoStats, Pending, StoredIsLatest,
      NoPrediction

\* Events that make no payload.
LEMMA SilentKeeps ==
  ASSUME WorkerInv, HandleOther \/ Skip \/ PredictRaises \/ Lose
  PROVE  WorkerInv'
<1> USE DEF WorkerInv
<1>1. /\ UNCHANGED <<wiring, phase, entry, sent, framed, saved, before>>
      /\ phase = "idle" /\ next <= Len(Stream) /\ next' = next + 1
  BY DEF HandleOther, Skip, PredictRaises, Lose, Scoreable, Delivered
<1>2. \/ UNCHANGED <<stats, aborted>>
      \/ Counted("skipped") /\ aborted' = aborted
      \/ Tick /\ aborted' = aborted + 1
  BY DEF HandleOther, Skip, PredictRaises, Lose
<1>3. stats \in Counters /\ stats' \in Counters
  BY <1>2, CountersAdd DEF WorkerTypeOK
<1>4. WorkerTypeOK'
  BY <1>1, <1>2, <1>3 DEF WorkerTypeOK, Payloads
<1>5. PredictionsAccounted'
  <2>1. /\ Frames' = Frames /\ Frames \in Nat /\ aborted \in Nat /\ Pending = 0
        /\ Pending' = 0 /\ wiring' = wiring
    BY <1>1, SameFrames, FramesCounted DEF WorkerTypeOK, Pending
  <2>2. /\ stats.ticks_seen \in Nat /\ stats.published \in Nat /\ stats.skipped \in Nat
        /\ stats.errors \in Nat
    BY <1>3, CountersAreNat
  <2>3. /\ stats.ticks_seen = stats.skipped + stats.published + stats.errors + aborted
        /\ wiring.broker => Frames \in
             stats.published..(stats.published + stats.errors + aborted)
    BY <2>1, <2>2 DEF PredictionsAccounted
  <2>4. CASE UNCHANGED <<stats, aborted>>
    BY <2>1, <2>4 DEF PredictionsAccounted
  <2>5. CASE Counted("skipped") /\ aborted' = aborted
    <3>1. /\ stats'.ticks_seen = stats.ticks_seen + 1 /\ stats'.skipped = stats.skipped + 1
          /\ stats'.published = stats.published /\ stats'.errors = stats.errors
      BY <1>3, <2>5, CountersAdd
    <3>2. stats'.ticks_seen
            = stats'.skipped + stats'.published + stats'.errors + aborted' + Pending'
      BY <2>1, <2>2, <2>3, <2>5, <3>1
    <3>3. wiring'.broker => Frames' \in
            stats'.published..(stats'.published + stats'.errors + aborted' + Pending')
      BY <2>1, <2>2, <2>3, <2>5, <3>1
    <3> QED
      BY <3>2, <3>3 DEF PredictionsAccounted
  <2>6. CASE Tick /\ aborted' = aborted + 1
    <3>1. /\ stats'.ticks_seen = stats.ticks_seen + 1 /\ stats'.skipped = stats.skipped
          /\ stats'.published = stats.published /\ stats'.errors = stats.errors
      BY <1>3, <2>6, CountersAdd
    <3>2. stats'.ticks_seen
            = stats'.skipped + stats'.published + stats'.errors + aborted' + Pending'
      BY <2>1, <2>2, <2>3, <2>6, <3>1
    <3>3. wiring'.broker => Frames' \in
            stats'.published..(stats'.published + stats'.errors + aborted' + Pending')
      BY <2>1, <2>2, <2>3, <2>6, <3>1
    <3> QED
      BY <3>2, <3>3 DEF PredictionsAccounted
  <2> QED
    BY <1>2, <2>4, <2>5, <2>6
<1> QED
  BY <1>1, <1>4, <1>5, SamePayloads DEF StoringIsFramed

\* A tick is scored: published, then stored, or refused by the broker.
LEMMA ScoreKeeps ==
  ASSUME WorkerInv, Score \/ PublishRaises
  PROVE  WorkerInv'
<1> USE DEF WorkerInv
<1>1. /\ phase = "idle" /\ next <= Len(Stream) /\ next' = next + 1
      /\ sent' = Append(sent, next)
      /\ UNCHANGED <<wiring, entry, saved, aborted, before>>
      /\ framed' \in {framed, framed \union {Len(sent) + 1}}
  BY DEF Score, PublishRaises, Scoreable, Delivered
<1>2. next \in 1..Len(Stream)
  BY <1>1, EventTyped, WorkerAssumption DEF WorkerTypeOK
<1>3. /\ sent' \in Seq(1..Len(Stream)) /\ Len(sent') = Len(sent) + 1 /\ sent' # <<>>
      /\ framed' \subseteq Payloads' /\ saved' \subseteq Payloads'
      /\ entry' \in [Matches -> 0..Len(sent')] /\ before' \in 0..Len(sent')
      /\ StoredIsLatest'
  BY <1>1, <1>2, PayloadAppended
<1>4. \/ Score /\ phase' = "storing" /\ Tick
      \/ Score /\ phase' = "idle" /\ Counted("published")
      \/ PublishRaises /\ phase' = "idle" /\ Counted("errors") /\ framed' = framed
  BY <1>1 DEF Score, PublishRaises
<1>5. Score => framed' = IF wiring.broker THEN framed \union {Len(sent) + 1} ELSE framed
  BY DEF Score
<1>6. stats \in Counters /\ stats' \in Counters
  BY <1>4, CountersAdd DEF WorkerTypeOK
<1>7. WorkerTypeOK'
  BY <1>1, <1>2, <1>3, <1>4, <1>6 DEF WorkerTypeOK
<1>8. StoringIsFramed'
  <2>1. CASE Score /\ phase' = "storing" /\ Tick
    <3>1. wiring.broker => Frames' = Frames + 1 /\ Len(sent') \in framed'
      BY <1>1, <1>3, <1>5, <2>1, OneMoreFrame
    <3>2. /\ wiring.broker => Frames \in Nat /\ Frames >= stats.published
          /\ stats.published \in Nat /\ stats'.published = stats.published
      <4>1. Frames \in Nat /\ stats.published \in Nat /\ stats.errors \in Nat
            /\ aborted \in Nat /\ Pending = 0
        BY <1>1, <1>6, FramesCounted, CountersAreNat DEF WorkerTypeOK, Pending
      <4> QED
        BY <1>6, <2>1, <4>1, CountersAdd DEF PredictionsAccounted
    <3> QED
      BY <1>1, <1>3, <3>1, <3>2 DEF StoringIsFramed
  <2>2. CASE phase' = "idle"
    BY <2>2 DEF StoringIsFramed
  <2> QED
    BY <1>4, <2>1, <2>2
<1>9. PredictionsAccounted'
  <2>0. /\ stats.ticks_seen \in Nat /\ stats.published \in Nat /\ stats.skipped \in Nat
        /\ stats.errors \in Nat /\ aborted \in Nat /\ Pending = 0
    BY <1>1, <1>6, CountersAreNat DEF WorkerTypeOK, Pending
  <2>1. Frames \in Nat /\ aborted \in Nat /\ (wiring.broker => Frames \in
                             stats.published..(stats.published + stats.errors + aborted))
    BY <2>0, FramesCounted DEF PredictionsAccounted
  <2>2. wiring.broker /\ Score => Frames' = Frames + 1
    BY <1>1, <1>5, OneMoreFrame
  <2>3. PublishRaises /\ framed' = framed => Frames' = Frames
    BY <1>1, SameFrames
  <2>4. stats.ticks_seen = stats.skipped + stats.published + stats.errors + aborted
    BY <2>0 DEF PredictionsAccounted
  <2>5. CASE Score /\ phase' = "storing" /\ Tick
    <3>1. /\ stats'.ticks_seen = stats.ticks_seen + 1 /\ stats'.skipped = stats.skipped
          /\ stats'.published = stats.published /\ stats'.errors = stats.errors
          /\ wiring' = wiring /\ aborted' = aborted /\ Pending' = 1
      BY <1>1, <1>6, <2>5, CountersAdd DEF Pending
    <3>2. stats'.ticks_seen
            = stats'.skipped + stats'.published + stats'.errors + aborted' + Pending'
      BY <2>0, <2>4, <3>1
    <3>3. CASE wiring.broker
      <4>1. Frames' = Frames + 1
        BY <2>2, <2>5, <3>3
      <4>2. Frames' \in
              stats'.published..(stats'.published + stats'.errors + aborted' + Pending')
        BY <2>0, <2>1, <3>1, <3>3, <4>1
      <4> QED
        BY <3>2, <4>2 DEF PredictionsAccounted
    <3>4. CASE ~wiring.broker
      BY <3>1, <3>2, <3>4 DEF PredictionsAccounted
    <3> QED
      BY <3>3, <3>4
  <2>6. CASE Score /\ phase' = "idle" /\ Counted("published")
    <3>1. /\ stats'.ticks_seen = stats.ticks_seen + 1 /\ stats'.skipped = stats.skipped
          /\ stats'.published = stats.published + 1 /\ stats'.errors = stats.errors
          /\ wiring' = wiring /\ aborted' = aborted /\ Pending' = 0
      BY <1>1, <1>6, <2>6, CountersAdd DEF Pending
    <3>2. stats'.ticks_seen
            = stats'.skipped + stats'.published + stats'.errors + aborted' + Pending'
      BY <2>0, <2>4, <3>1
    <3>3. CASE wiring.broker
      <4>1. Frames' = Frames + 1
        BY <2>2, <2>6, <3>3
      <4>2. Frames' \in
              stats'.published..(stats'.published + stats'.errors + aborted' + Pending')
        BY <2>0, <2>1, <3>1, <3>3, <4>1
      <4> QED
        BY <3>2, <4>2 DEF PredictionsAccounted
    <3>4. CASE ~wiring.broker
      BY <3>1, <3>2, <3>4 DEF PredictionsAccounted
    <3> QED
      BY <3>3, <3>4
  <2>7. CASE PublishRaises /\ phase' = "idle" /\ Counted("errors") /\ framed' = framed
    <3>1. /\ stats'.ticks_seen = stats.ticks_seen + 1 /\ stats'.skipped = stats.skipped
          /\ stats'.published = stats.published /\ stats'.errors = stats.errors + 1
          /\ wiring' = wiring /\ aborted' = aborted /\ Pending' = 0
      BY <1>1, <1>6, <2>7, CountersAdd DEF Pending
    <3>2. stats'.ticks_seen
            = stats'.skipped + stats'.published + stats'.errors + aborted' + Pending'
      BY <2>0, <2>4, <3>1
    <3>3. CASE wiring.broker
      <4>1. Frames' = Frames
        BY <2>3, <2>7, <3>3
      <4>2. Frames' \in
              stats'.published..(stats'.published + stats'.errors + aborted' + Pending')
        BY <2>0, <2>1, <3>1, <3>3, <4>1
      <4> QED
        BY <3>2, <4>2 DEF PredictionsAccounted
    <3>4. CASE ~wiring.broker
      BY <3>1, <3>2, <3>4 DEF PredictionsAccounted
    <3> QED
      BY <3>3, <3>4
  <2> QED
    BY <1>4, <2>5, <2>6, <2>7
<1> QED
  BY <1>3, <1>7, <1>8, <1>9

\* The write ends: confirmed, failed or cancelled, applied or not.
LEMMA WriteEnds ==
  ASSUME WorkerInv, SetReturns \/ SetFails \/ Cancelled
  PROVE  WorkerInv'
<1> USE DEF WorkerInv
<1>1. /\ phase = "storing" /\ phase' = "idle"
      /\ UNCHANGED <<wiring, next, sent, framed, before>>
      /\ saved' \in {saved, saved \union {Payload}}
      /\ Written \/ (entry' = entry /\ saved' = saved)
  BY DEF SetReturns, SetFails, Cancelled
<1>2. \/ stats' = [stats EXCEPT !.published = @ + 1] /\ aborted' = aborted
      \/ stats' = [stats EXCEPT !.errors = @ + 1] /\ aborted' = aborted
      \/ stats' = stats /\ aborted' = aborted + 1
  BY DEF SetReturns, SetFails, Cancelled
<1>3. /\ entry' \in [Matches -> 0..Len(sent)] /\ saved' \subseteq Payloads
      /\ StoredIsLatest'
  <2>1. CASE Written
    BY <1>1, <2>1, WriteKeeps
  <2>2. CASE entry' = entry /\ saved' = saved
    BY <1>1, <2>2, SamePayloads DEF WorkerTypeOK
  <2> QED
    BY <1>1, <2>1, <2>2
<1>4. stats \in Counters /\ stats' \in Counters /\ aborted \in Nat /\ aborted' \in Nat
  BY <1>2, OutcomesAdd DEF WorkerTypeOK
<1>5. WorkerTypeOK'
  BY <1>1, <1>3, <1>4 DEF WorkerTypeOK, Payloads
<1>6. PredictionsAccounted'
  <2>1. Frames' = Frames /\ Frames \in Nat
    BY <1>1, SameFrames, FramesCounted
  <2> QED
    <3>1. /\ stats.ticks_seen \in Nat /\ stats.published \in Nat /\ stats.skipped \in Nat
          /\ stats.errors \in Nat /\ Pending = 1 /\ Pending' = 0 /\ wiring' = wiring
      BY <1>1, <1>4, CountersAreNat DEF Pending
    <3>2. \/ /\ stats'.ticks_seen = stats.ticks_seen /\ stats'.skipped = stats.skipped
             /\ stats'.published = stats.published + 1 /\ stats'.errors = stats.errors
             /\ aborted' = aborted
          \/ /\ stats'.ticks_seen = stats.ticks_seen /\ stats'.skipped = stats.skipped
             /\ stats'.published = stats.published /\ stats'.errors = stats.errors + 1
             /\ aborted' = aborted
          \/ /\ stats'.ticks_seen = stats.ticks_seen /\ stats'.skipped = stats.skipped
             /\ stats'.published = stats.published /\ stats'.errors = stats.errors
             /\ aborted' = aborted + 1
      BY <1>2, <1>4, OutcomesAdd
    <3>3. stats.ticks_seen = stats.skipped + stats.published + stats.errors + aborted + 1
      BY <3>1 DEF PredictionsAccounted
    <3>4. stats'.ticks_seen
            = stats'.skipped + stats'.published + stats'.errors + aborted' + Pending'
      BY <1>4, <3>1, <3>2, <3>3
    <3>5. CASE wiring.broker
      <4>1. Frames \in stats.published..(stats.published + stats.errors + aborted + 1)
        BY <3>1, <3>5 DEF PredictionsAccounted
      <4>2. Frames > stats.published
        BY <1>1, <3>5 DEF StoringIsFramed
      <4>3. Frames <= stats.published + stats.errors + aborted + 1
        BY <1>4, <2>1, <3>1, <4>1
      <4>4. /\ stats'.published + stats'.errors + aborted'
                 = stats.published + stats.errors + aborted + 1
            /\ stats'.published \in Nat /\ stats'.published <= stats.published + 1
            /\ stats'.errors \in Nat
        BY <1>4, <3>1, <3>2
      <4>5. Frames' \in
              stats'.published..(stats'.published + stats'.errors + aborted' + Pending')
        BY <1>4, <2>1, <3>1, <4>2, <4>3, <4>4
      <4> QED
        BY <3>4, <4>5 DEF PredictionsAccounted
    <3>6. CASE ~wiring.broker
      BY <3>1, <3>4, <3>6 DEF PredictionsAccounted
    <3> QED
      BY <3>5, <3>6
<1> QED
  BY <1>1, <1>3, <1>5, <1>6 DEF StoringIsFramed

\* A new worker starts with nothing but the store.
LEMMA RestartKeeps ==
  ASSUME WorkerInv, Restart
  PROVE  WorkerInv'
<1> USE DEF WorkerInv
<1>1. /\ (phase = "storing" /\ Written) \/ entry' = entry
      /\ next' \in Max({1, next - Backlog})..next
      /\ stats' = NoStats /\ aborted' = 0 /\ phase' = "idle" /\ before' = Len(sent)
      /\ UNCHANGED <<wiring, sent, framed, saved>>
  BY DEF Restart
<1>2. entry' \in [Matches -> 0..Len(sent)] /\ StoredIsLatest'
  <2>1. CASE phase = "storing" /\ Written
    BY <1>1, <2>1, WriteKeeps
  <2>2. CASE entry' = entry
    BY <1>1, <2>2 DEF WorkerTypeOK, StoredIsLatest
  <2> QED
    BY <1>1, <2>1, <2>2
<1>3. next' \in 1..(Len(Stream) + 1)
  <2>1. next \in Nat \ {0} /\ Backlog \in Nat /\ Len(Stream) \in Nat
    BY WorkerAssumption DEF WorkerTypeOK
  <2>2. Max({1, next - Backlog}) \in Nat \ {0}
    BY <2>1, BacklogStays
  <2> QED
    BY <1>1, <2>1, <2>2 DEF WorkerTypeOK
<1>4. Len(sent) \in Nat
  BY DEF WorkerTypeOK
<1>5. WorkerTypeOK'
  BY <1>1, <1>2, <1>3, <1>4 DEF WorkerTypeOK, Payloads, NoStats, Counters
<1>6. Frames' = 0
  <2>1. {i \in framed' : i > before'} = {}
    <3>1. \A i \in framed : ~(i > Len(sent))
      BY <1>4 DEF WorkerTypeOK, Payloads
    <3> QED
      BY <1>1, <3>1
  <2> QED
    BY <2>1, FS_EmptySet DEF Frames
<1>7. PredictionsAccounted'
  BY <1>1, <1>6 DEF PredictionsAccounted, NoStats, Pending
<1> QED
  BY <1>1, <1>2, <1>5, <1>7 DEF StoringIsFramed

LEMMA ExpireKeeps ==
  ASSUME WorkerInv, NEW m \in Matches, Expire(m)
  PROVE  WorkerInv'
<1> USE DEF WorkerInv
<1>1. /\ entry' = [entry EXCEPT ![m] = Nothing]
      /\ saved' = {i \in saved : Stream[sent[i]].match # m}
      /\ UNCHANGED <<wiring, next, phase, stats, sent, framed, aborted, before>>
  BY DEF Expire
<1>2. WorkerTypeOK'
  <2>1. Len(sent) \in Nat /\ 0 \in 0..Len(sent)
    BY DEF WorkerTypeOK
  <2> QED
    BY <1>1, <2>1 DEF WorkerTypeOK, Payloads, Nothing
<1>3. StoredIsLatest'
  BY <1>1 DEF StoredIsLatest, WorkerTypeOK
<1>4. Frames' = Frames
  BY <1>1, SameFrames
<1>5. PredictionsAccounted'
  BY <1>1, <1>4 DEF PredictionsAccounted, Pending
<1> QED
  BY <1>1, <1>2, <1>3, <1>4, <1>5 DEF StoringIsFramed

LEMMA WorkerStutterKeeps == ASSUME WorkerInv, UNCHANGED workerVars PROVE WorkerInv'
BY DEF workerVars, WorkerInv, WorkerTypeOK, Payloads, StoringIsFramed, PredictionsAccounted, Frames,
       Pending, StoredIsLatest

-----------------------------------------------------------------------------
(***************************************************************************)
(* The inductive invariant: what is being stored was published first and   *)
(* is not counted yet, so a write, whoever reports it, stores an announced *)
(* prediction, and counting it keeps the counter below the topic.          *)
(***************************************************************************)
THEOREM WorkerInvariant == WorkerSpec => []WorkerInv
<1>1. WorkerInit => WorkerInv
  BY WorkerInitInv
<1>2. WorkerInv /\ [WorkerNext]_workerVars => WorkerInv'
  BY SilentKeeps, ScoreKeeps, WriteEnds, RestartKeeps, ExpireKeeps, WorkerStutterKeeps DEF WorkerNext
<1> QED
  BY <1>1, <1>2, PTL DEF WorkerSpec

(***************************************************************************)
(* Every tick is skipped, published, an error, aborted or pending, and the *)
(* counters bound what is on the topic.                                    *)
(***************************************************************************)
THEOREM TicksAlwaysAccounted ==
  WorkerSpec => []PredictionsAccounted
<1>1. WorkerInv => PredictionsAccounted
  BY DEF WorkerInv
<1> QED
  BY <1>1, WorkerInvariant, PTL

(***************************************************************************)
(* What the store holds is an announced prediction of its match, at least  *)
(* as new as the last confirmed write, across failures and restarts.       *)
(***************************************************************************)
THEOREM StoreAlwaysLatest == WorkerSpec => []StoredIsLatest
<1>1. WorkerInv => StoredIsLatest
  BY DEF WorkerInv
<1> QED
  BY <1>1, WorkerInvariant, PTL
=============================================================================
