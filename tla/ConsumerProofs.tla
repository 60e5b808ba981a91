--------------------------- MODULE ConsumerProofs ---------------------------
(***************************************************************************)
(* The consumer and the live command for any handlers, payloads, limits,   *)
(* groups and queue capacity: every handler sees what it is due exactly    *)
(* once and in order, the tallies are exact over stops, cancellations and  *)
(* further runs, and what the command reports as drained was handled.      *)
(***************************************************************************)
EXTENDS LivePipeline, InMemoryBrokerProofs

-----------------------------------------------------------------------------
(***************************************************************************)
(* Sequences as the consumer uses them.                                    *)
(***************************************************************************)
NoRepeats(seq) == \A i, j \in 1..Len(seq) : seq[i] = seq[j] => i = j

\* One more at the end.
LEMMA ElementsAppend ==
  ASSUME NEW S, NEW seq \in Seq(S), NEW e \in S
  PROVE  /\ Append(seq, e) \in Seq(S)
         /\ Len(Append(seq, e)) = Len(seq) + 1
         /\ Elements(Append(seq, e)) = Elements(seq) \union {e}
         /\ e \notin Elements(seq) /\ NoRepeats(seq) => NoRepeats(Append(seq, e))
<1> DEFINE more == Append(seq, e)
           n == Len(seq)
<1>1. /\ more \in Seq(S) /\ n \in Nat /\ Len(more) = n + 1
      /\ \A i \in 1..n : more[i] = seq[i]
      /\ more[n + 1] = e
  BY AppendProperties, LenProperties
<1>2. Elements(more) = {more[i] : i \in 1..(n + 1)}
  BY <1>1 DEF Elements
<1>3. Elements(seq) = {seq[i] : i \in 1..n}
  BY DEF Elements
<1> HIDE DEF more, n
<1>4. Elements(more) = Elements(seq) \union {e}
  BY <1>1, <1>2, <1>3
<1>5. ASSUME e \notin Elements(seq), NoRepeats(seq), NEW i \in 1..(n + 1), NEW j \in 1..(n + 1),
             more[i] = more[j]
      PROVE  i = j
  <2>1. \A k \in 1..n : seq[k] # e
    BY <1>3, <1>5
  <2>2. \A k, l \in 1..n : seq[k] = seq[l] => k = l
    BY <1>5 DEF NoRepeats, n
  <2>3. QED
    BY <1>1, <1>5, <2>1, <2>2
<1>6. QED
  BY <1>1, <1>4, <1>5 DEF NoRepeats, more, n

\* Two of them end to end.
LEMMA ElementsConcat ==
  ASSUME NEW S, NEW r \in Seq(S), NEW q \in Seq(S)
  PROVE  /\ r \o q \in Seq(S)
         /\ Elements(r \o q) = Elements(r) \union Elements(q)
         /\ NoRepeats(r) /\ NoRepeats(q) /\ Elements(r) \intersect Elements(q) = {}
              => NoRepeats(r \o q)
<1> DEFINE both == r \o q
           m == Len(r)
           n == Len(q)
<1>1. /\ both \in Seq(S) /\ m \in Nat /\ n \in Nat /\ Len(both) = m + n
      /\ \A i \in 1..m : both[i] = r[i]
      /\ \A i \in 1..n : both[m + i] = q[i]
  BY ConcatIndex
<1>2. /\ Elements(both) = {both[i] : i \in 1..(m + n)}
      /\ Elements(r) = {r[i] : i \in 1..m} /\ Elements(q) = {q[i] : i \in 1..n}
  BY <1>1 DEF Elements
<1> HIDE DEF both, m, n
<1>3. ASSUME NEW i \in 1..(m + n)
      PROVE  \/ i \in 1..m /\ both[i] = r[i]
             \/ i - m \in 1..n /\ both[i] = q[i - m] /\ i = m + (i - m)
  <2> SUFFICES ASSUME i \notin 1..m
               PROVE  i - m \in 1..n /\ both[i] = q[i - m] /\ i = m + (i - m)
    BY <1>1
  <2>1. i - m \in 1..n /\ m + (i - m) = i
    BY <1>1
  <2>2. QED
    BY <1>1, <2>1
<1>4. Elements(both) = Elements(r) \union Elements(q)
  <2>1. Elements(both) \subseteq Elements(r) \union Elements(q)
    BY <1>2, <1>3
  <2>2. \A i \in 1..m : i \in 1..(m + n)
    BY <1>1
  <2>3. \A i \in 1..n : m + i \in 1..(m + n)
    BY <1>1
  <2>4. QED
    BY <1>1, <1>2, <2>1, <2>2, <2>3
<1>5. ASSUME NoRepeats(r), NoRepeats(q), Elements(r) \intersect Elements(q) = {},
             NEW i \in 1..(m + n), NEW j \in 1..(m + n), both[i] = both[j]
      PROVE  i = j
  <2>0. \A k \in 1..m, l \in 1..n : r[k] # q[l]
    BY <1>2, <1>5
  <2>1. /\ \A k, l \in 1..m : r[k] = r[l] => k = l
        /\ \A k, l \in 1..n : q[k] = q[l] => k = l
    BY <1>5 DEF NoRepeats, m, n
  <2>2. CASE i \in 1..m /\ both[i] = r[i]
    BY <1>3, <1>5, <2>0, <2>1, <2>2
  <2>3. CASE i - m \in 1..n /\ both[i] = q[i - m] /\ i = m + (i - m)
    <3>1. CASE j \in 1..m /\ both[j] = r[j]
      BY <1>5, <2>0, <2>3, <3>1
    <3>2. CASE j - m \in 1..n /\ both[j] = q[j - m] /\ j = m + (j - m)
      <4>1. i - m = j - m
        BY <1>5, <2>1, <2>3, <3>2
      <4>2. QED
        BY <2>3, <3>2, <4>1
    <3>3. QED
      BY <1>3, <3>1, <3>2
  <2>4. QED
    BY <1>3, <2>2, <2>3
<1>6. QED
  BY <1>1, <1>4, <1>5 DEF NoRepeats, both

\* All but the first.
LEMMA ElementsTail ==
  ASSUME NEW S, NEW seq \in Seq(S), seq # <<>>
  PROVE  /\ Tail(seq) \in Seq(S) /\ Head(seq) \in Elements(seq)
         /\ Elements(Tail(seq)) \subseteq Elements(seq)
         /\ NoRepeats(seq) => /\ NoRepeats(Tail(seq))
                              /\ Elements(Tail(seq)) = Elements(seq) \ {Head(seq)}
<1> DEFINE rest == Tail(seq)
           n == Len(seq)
<1>1. /\ rest \in Seq(S) /\ n \in Nat \ {0} /\ Len(rest) = n - 1
      /\ \A i \in 1..(n - 1) : rest[i] = seq[i + 1]
      /\ Head(seq) = seq[1]
  BY HeadTailProperties, LenProperties, EmptySeq
<1>2. /\ Elements(rest) = {rest[i] : i \in 1..(n - 1)}
      /\ Elements(seq) = {seq[i] : i \in 1..n}
  BY <1>1 DEF Elements
<1> HIDE DEF rest, n
<1>3. \A i \in 1..(n - 1) : i + 1 \in 1..n /\ i + 1 # 1
  BY <1>1
<1>4. Elements(rest) \subseteq Elements(seq) /\ Head(seq) \in Elements(seq)
  BY <1>1, <1>2, <1>3
<1>5. ASSUME NoRepeats(seq)
      PROVE  NoRepeats(rest) /\ Elements(rest) = Elements(seq) \ {Head(seq)}
  <2>1. \A k, l \in 1..n : seq[k] = seq[l] => k = l
    BY <1>5 DEF NoRepeats, n
  <2>2. NoRepeats(rest)
    <3>1. \A i, j \in 1..(n - 1) : rest[i] = rest[j] => i = j
      <4> TAKE i, j \in 1..(n - 1)
      <4> HAVE rest[i] = rest[j]
      <4>1. i + 1 = j + 1
        BY <1>1, <1>3, <2>1
      <4>2. QED
        BY <1>1, <4>1
    <3>2. QED
      BY <1>1, <3>1 DEF NoRepeats
  <2>3. Head(seq) \notin Elements(rest)
    BY <1>1, <1>2, <1>3, <2>1
  <2>4. \A k \in 1..n : k # 1 => k - 1 \in 1..(n - 1) /\ k = (k - 1) + 1
    BY <1>1
  <2>5. Elements(seq) \ {Head(seq)} \subseteq Elements(rest)
    <3> SUFFICES ASSUME NEW k \in 1..n, seq[k] # Head(seq)
                 PROVE  seq[k] \in Elements(rest)
      BY <1>2
    <3>1. k - 1 \in 1..(n - 1) /\ rest[k - 1] = seq[k]
      BY <1>1, <2>4
    <3>2. QED
      BY <1>2, <3>1
  <2>6. QED
    BY <1>4, <2>2, <2>3, <2>5
<1>6. QED
  BY <1>1, <1>4, <1>5 DEF rest

\* Something larger than all the others at the end.
LEMMA IncreasingAppend ==
  ASSUME NEW seq \in Seq(Nat), NEW e \in Nat, Increasing(seq), \A x \in Elements(seq) : x < e
  PROVE  Increasing(Append(seq, e))
<1> DEFINE more == Append(seq, e)
           n == Len(seq)
<1>1. /\ n \in Nat /\ Len(more) = n + 1
      /\ \A i \in 1..n : more[i] = seq[i] /\ seq[i] \in Elements(seq)
      /\ more[n + 1] = e
  BY AppendProperties, LenProperties DEF Elements
<1>2. \A i, j \in 1..n : i < j => seq[i] < seq[j]
  BY DEF Increasing
<1> HIDE DEF more, n
<1>3. \A i, j \in 1..(n + 1) : i < j => more[i] < more[j]
  BY <1>1, <1>2
<1>4. QED
  BY <1>1, <1>3 DEF Increasing, more

\* Nothing in an empty sequence.
LEMMA ElementsEmpty ==
  /\ \A S : <<>> \in Seq(S)
  /\ Elements(<<>>) = {} /\ NoRepeats(<<>>) /\ Increasing(<<>>) /\ Len(<<>>) = 0
  BY EmptySeq DEF Elements, NoRepeats, Increasing

-----------------------------------------------------------------------------
(***************************************************************************)
(* What the consumer's invariant says beyond DispatchExact.                *)
(***************************************************************************)
HistoriesTyped ==
  /\ dispatched \in Seq(DOMAIN Content)
  /\ interrupted \subseteq Elements(dispatched)
  /\ joined \in [Handlers -> Nat] /\ \A h \in Handlers : joined[h] <= Len(dispatched)
  /\ seen \in [Handlers -> Seq(Nat)]

\* Where the loop is, the generator it iterates is; later ones are untouched.
InStep ==
  /\ task = "waiting" => pc[run] = "waiting"
  /\ task \in {"dispatching", "next", "leaving"} => pc[run] = "holding"
  /\ task # "idle" => run > 0
  /\ \A s \in Subs : s > run => pc[s] = "idle"

\* A handler is registered once, where it belongs.
HandlersKept ==
  \A type \in Types :
    NoRepeats(handlers[type]) /\ \A h \in Elements(handlers[type]) : Wants[h] = type

\* What was dispatched, in this run or an earlier one, precedes what is queued.
DispatchOrder ==
  /\ Increasing(dispatched)
  /\ \A o \in Elements(dispatched) : o < offset
  /\ run > 0 => \A o \in Elements(dispatched), x \in Offsets(queue[run]) : o < x

\* The handlers that want an event.
Interested(o) == {h \in Active : Wants[h] \in {Content[o], Every}}

\* In dispatch is the last event; those still to be awaited want it, and
\* were registered before it came.
InDispatch ==
  task = "dispatching" =>
    /\ dispatched # <<>> /\ stats.last = dispatched[Len(dispatched)]
    /\ stats.last \notin interrupted
    /\ NoRepeats(todo)
    /\ Elements(todo) \subseteq {h \in Interested(stats.last) : joined[h] < Len(dispatched)}

\* HandlersSeeEveryEvent for one handler; one that is not registered saw nothing.
Sighted(h) ==
  IF h \in Active
    THEN /\ Increasing(seen[h]) /\ Elements(seen[h]) \subseteq Due(h)
         /\ Due(h) \ (interrupted \union Elements(seen[h])) = Awaiting(h)
    ELSE seen[h] = <<>>

Sightings == \A h \in Handlers : Sighted(h)

\* TallyExact, and that max_events leaves room where the loop goes on.
Tallied ==
  run > 0 =>
    /\ Len(received[run]) \in {stats.consumed + stats.failed, stats.consumed + stats.failed + 1}
    /\ Len(received[run]) # stats.consumed + stats.failed => stopping /\ ~Iterating
    /\ limit # 0 => stats.consumed <= limit
    /\ limit # 0 /\ task \in {"waiting", "next"} => stats.consumed < limit

ErrorsBounded ==
  stats.errors + Cardinality(Elements(todo)) <= stats.consumed * Cardinality(Active)

ConsumerShape == ConsumerTypeOK /\ HistoriesTyped /\ InStep /\ HandlersKept

ConsumerInv ==
  /\ BrokerInv /\ ConsumerShape /\ DispatchOrder /\ InDispatch /\ Sightings
  /\ Tallied /\ ErrorsBounded

-----------------------------------------------------------------------------
(***************************************************************************)
(* Constants and generators.                                               *)
(***************************************************************************)
LEMMA ConstantFacts ==
  /\ \A s \in Subs : s \in Nat \ {0}
  /\ Cardinality(Subs) \in Nat
  /\ \A n \in 1..Cardinality(Subs) : n \in Subs
  /\ \A h \in Handlers : Wants[h] \in Types
  /\ \A o \in DOMAIN Content : Content[o] \in Types /\ Content[o] # Every
  /\ Every \in Types
  /\ DOMAIN Content = 0..(MaxPublish - 1) /\ MaxPublish \in Nat
<1>1. Cardinality(Subs) \in Nat
  BY FS_CardinalityType, BrokerAssumption
<1>2. \A s \in 1..Cardinality(Subs) : s \in Nat \ {0}
  BY <1>1
<1>3. Subs = 1..Cardinality(Subs)
  BY ConsumerAssumption
<1>4. \A s \in Subs : s \in Nat \ {0}
  BY <1>2, <1>3
<1>5. \A n \in 1..Cardinality(Subs) : n \in Subs
  BY <1>3
<1>6. QED
  BY <1>1, <1>4, <1>5, ConsumerAssumption, BrokerAssumption DEF Types

\* The generator in use is one of them.
LEMMA RunFacts ==
  ASSUME ConsumerTypeOK
  PROVE  /\ run \in Nat
         /\ run > 0 => run \in Subs
         /\ run + 1 \in Subs => run + 1 > run /\ run + 1 # run /\ run + 1 > 0
<1>1. run \in 0..Cardinality(Subs) /\ Cardinality(Subs) \in Nat
  BY ConstantFacts DEF ConsumerTypeOK
<1>2. run \in Nat /\ (run > 0 => run \in 1..Cardinality(Subs))
  BY <1>1
<1>3. run + 1 > run /\ run + 1 # run /\ run + 1 > 0
  BY <1>2
<1>4. QED
  BY <1>2, <1>3, ConstantFacts

(***************************************************************************)
(* The generator the loop iterates yields, waits or ends.                  *)
(***************************************************************************)
Fetch ==
  /\ task \in {"waiting", "next"}
  /\ Yield(run) /\ Accept(Head(queue[run]))
  /\ UNCHANGED <<run, limit, stopping, handlers, interrupted, joined, seen>>

Await ==
  /\ task = "next" /\ task' = "waiting"
  /\ Park(run)
  /\ UNCHANGED <<run, limit, stopping, stats, handlers, todo, dispatched,
                 interrupted, joined, seen>>

Finish ==
  /\ task \in {"waiting", "next"} /\ task' = "idle"
  /\ End(run) /\ UNCHANGED since
  /\ UNCHANGED <<run, limit, stopping, stats, handlers, todo, dispatched,
                 interrupted, joined, seen>>

LEMMA ReceiveKinds ==
  ASSUME TypeOK, ConsumerTypeOK, InStep, Receive
  PROVE  Fetch \/ Await \/ Finish
<1>1. run \in Subs
  BY RunFacts DEF Receive, InStep
<1>2. CASE Yield(run)
  <2>1. received[run] \in Seq(Item) /\ Head(queue[run]) \in Item
    BY <1>1, <1>2, StreamIndex, HeadTailProperties DEF Yield
  <2>2. received'[run] = Append(received[run], Head(queue[run])) /\ pc'[run] = "holding"
    BY <1>1, <1>2 DEF Yield, TypeOK
  <2>3. received'[run][Len(received'[run])] = Head(queue[run])
    <3>1. Len(received[run]) \in Nat
      BY <1>1, StreamIndex
    <3>2. QED
      BY <2>1, <2>2, <3>1, AppendProperties
  <2>4. QED
    BY <1>2, <2>2, <2>3 DEF Receive, Fetch
<1>3. CASE Park(run) /\ task = "next"
  <2>1. pc'[run] = "waiting"
    BY <1>1, <1>3 DEF Park, TypeOK
  <2>2. QED
    BY <1>3, <2>1 DEF Receive, Await
<1>4. CASE End(run) /\ UNCHANGED since
  <2>1. pc'[run] = "closed"
    BY <1>1, <1>4 DEF End, Release, TypeOK
  <2>2. QED
    BY <1>4, <2>1 DEF Receive, Finish
<1>5. \/ Yield(run)
      \/ Park(run) /\ task = "next"
      \/ End(run) /\ UNCHANGED since
  <2>1. CASE task = "waiting" /\ Wake(run)
    <3>1. CASE Head(queue[run]) = Sentinel
      BY <2>1, <3>1 DEF Wake, Take, End
    <3>2. CASE Head(queue[run]) # Sentinel
      BY <2>1, <3>2 DEF Wake, Take, Yield
    <3>3. QED
      BY <3>1, <3>2
  <2>2. CASE task = "next" /\ Resume(run)
    BY <2>2 DEF Resume, Take, Park, Yield, End
  <2>3. QED
    BY <2>1, <2>2 DEF Receive
<1>6. QED
  BY <1>2, <1>3, <1>4, <1>5

\* run() makes its generator join, or ends it at once on a stopped broker.
LEMMA RunKinds ==
  ASSUME NEW max \in Limits, Run(max)
  PROVE  /\ run + 1 \in Subs /\ pc[run + 1] = "idle"
         /\ \/ Join(run + 1) /\ task' = "waiting"
            \/ End(run + 1) /\ task' = "idle"
  BY DEF Run, Subscribe, Join, End

\* A step of the consumer is a step of the broker, or leaves it alone.
LEMMA ConsumerStepsBroker ==
  ASSUME ConsumerTypeOK, InStep, [ConsumerNext]_allVars
  PROVE  [Next]_vars
<1> USE RunFacts DEF Next
<1>1. CASE BrokerStep
  BY <1>1 DEF BrokerStep
<1>2. CASE (\E h \in Handlers : On(h)) \/ RequestStop \/ Handle \/ UNCHANGED allVars
  BY <1>2 DEF On, RequestStop, Handle, allVars
<1>3. ASSUME NEW max \in Limits, Run(max)
      PROVE  Next
  BY <1>3 DEF Run
<1>4. CASE Receive
  BY <1>4 DEF Receive, InStep
<1>5. CASE Leave \/ CancelRun
  BY <1>5 DEF Leave, CancelRun, InStep
<1>6. QED
  BY <1>1, <1>2, <1>3, <1>4, <1>5 DEF ConsumerNext

\* What a step can do to the consumer.
LEMMA ConsumerKinds ==
  ASSUME TypeOK, ConsumerTypeOK, InStep, [ConsumerNext]_allVars
  PROVE  \/ BrokerStep \/ RequestStop \/ Leave \/ Await \/ Finish \/ UNCHANGED allVars
         \/ Fetch \/ Handle \/ CancelRun
         \/ \E h \in Handlers : On(h)
         \/ \E max \in Limits : Run(max)
  BY ReceiveKinds DEF ConsumerNext

\* The steps that leave the handlers and what they have seen alone.
Untouched == UNCHANGED <<stats, handlers, todo, dispatched, interrupted, joined, seen>>

\* The handlers an event is given to.
LEMMA InterestedFacts ==
  ASSUME ConsumerTypeOK, HandlersKept, NEW o \in DOMAIN Content
  PROVE  /\ HandlersFor(Content[o]) \in Seq(Handlers)
         /\ NoRepeats(HandlersFor(Content[o]))
         /\ Elements(HandlersFor(Content[o])) = Interested(o)
<1> DEFINE typed == handlers[Content[o]]
           every == handlers[Every]
<1>1. /\ Content[o] \in Types /\ Every \in Types /\ Content[o] # Every
      /\ typed \in Seq(Handlers) /\ every \in Seq(Handlers)
  BY ConstantFacts DEF ConsumerTypeOK
<1>2. /\ NoRepeats(typed) /\ \A h \in Elements(typed) : Wants[h] = Content[o]
      /\ NoRepeats(every) /\ \A h \in Elements(every) : Wants[h] = Every
  BY <1>1 DEF HandlersKept
<1>3. Elements(typed) \intersect Elements(every) = {}
  BY <1>1, <1>2
<1>4. /\ typed \o every \in Seq(Handlers) /\ NoRepeats(typed \o every)
      /\ Elements(typed \o every) = Elements(typed) \union Elements(every)
  BY <1>1, <1>2, <1>3, ElementsConcat
<1>5. /\ \A i \in 1..Len(typed) : typed[i] \in Handlers
      /\ \A i \in 1..Len(every) : every[i] \in Handlers
  BY <1>1, ElementOfSeq
<1>6. Elements(typed) \subseteq Handlers /\ Elements(every) \subseteq Handlers
  BY <1>5 DEF Elements
<1> HIDE DEF typed, every
<1>7. Elements(typed) \union Elements(every) = Interested(o)
  BY <1>2, <1>6 DEF Interested, Active, typed, every
<1>8. QED
  BY <1>4, <1>7 DEF HandlersFor, typed, every

\* Registered handlers are handlers, finitely many.
LEMMA ActiveFacts ==
  /\ Active \subseteq Handlers /\ IsFiniteSet(Active) /\ Cardinality(Active) \in Nat
  BY ConsumerAssumption, FS_Subset, FS_CardinalityType DEF Active

\* What is fetched is the oldest in the queue.
LEMMA FetchedOffset ==
  ASSUME BrokerInv, ConsumerTypeOK, InStep, Fetch
  PROVE  /\ run \in Subs /\ run > 0
         /\ Head(queue[run]) \in DOMAIN Content \intersect Nat /\ Head(queue[run]) < offset
         /\ Head(queue[run]) \in Offsets(queue[run])
         /\ Offsets(queue'[run]) \subseteq Offsets(queue[run])
         /\ \A x \in Offsets(queue'[run]) : Head(queue[run]) < x
         /\ Len(received'[run]) = Len(received[run]) + 1
<1> DEFINE m == Len(received[run])
           n == Len(queue[run])
           o == Head(queue[run])
           rest == Tail(queue[run])
<1>1. run \in Subs /\ run > 0 /\ TypeOK
  BY RunFacts DEF Fetch, InStep, BrokerInv
<1>2. /\ queue[run] \in Seq(Item) /\ queue[run] # <<>> /\ o # Sentinel
      /\ queue'[run] = rest
      /\ received'[run] = Append(received[run], o)
  BY <1>1 DEF Fetch, Yield, TypeOK
<1>3. /\ o \in Item /\ rest \in Seq(Item) /\ Len(rest) = n - 1 /\ n \in Nat \ {0}
      /\ \A i \in 1..(n - 1) : rest[i] = queue[run][i + 1]
      /\ o = queue[run][1]
  BY <1>2, HeadTailProperties, LenProperties, EmptySeq
<1>4. o \in Nat
  BY <1>2, <1>3, ItemFacts
<1>5. Ascending(Stream(run), offset)
  BY <1>1, StreamsAscend DEF BrokerInv
<1>6. /\ m \in Nat /\ Len(Stream(run)) = m + n
      /\ \A i \in 1..n : Stream(run)[m + i] = queue[run][i]
  BY <1>1, StreamIndex
<1>7. /\ \A i \in 1..n : m + i \in 1..(m + n)
      /\ \A i \in 1..(n - 1) : i + 1 \in 1..n /\ m + 1 < m + (i + 1)
      /\ 1 \in 1..n /\ m + 1 \in 1..(m + n)
  <2>1. m \in Nat /\ n \in Nat \ {0}
    BY <1>3, <1>6
  <2> HIDE DEF m, n
  <2>2. QED
    BY <2>1
<1>8. 1 \in 1..n /\ m + 1 \in 1..(m + n)
  BY <1>7
<1>9. o < offset
  BY <1>2, <1>3, <1>5, <1>6, <1>8 DEF Ascending
<1>10. o \in DOMAIN Content
  <2>1. offset <= MaxPublish /\ offset \in Nat
    BY DEF BrokerInv, Counted, TypeOK
  <2>2. QED
    BY <1>4, <1>9, <2>1, ConstantFacts
<1>11. \A i \in 1..(n - 1) : rest[i] # Sentinel => o < rest[i]
  <2> SUFFICES ASSUME NEW i \in 1..(n - 1), rest[i] # Sentinel
               PROVE  o < rest[i]
    OBVIOUS
  <2>1. i + 1 \in 1..n /\ m + 1 < m + (i + 1)
    BY <1>7
  <2>2. Stream(run)[m + 1] < Stream(run)[m + (i + 1)]
    BY <1>3, <1>5, <1>6, <1>7, <1>8, <2>1 DEF Ascending
  <2>3. QED
    BY <1>3, <1>6, <1>8, <2>1, <2>2
<1>12. Offsets(rest) = {rest[i] : i \in 1..(n - 1)} \ {Sentinel}
  BY <1>3 DEF Offsets
<1>13. Offsets(queue[run]) = {queue[run][i] : i \in 1..n} \ {Sentinel}
  BY DEF Offsets
<1>14. Len(received'[run]) = m + 1
  BY <1>1, <1>2, <1>3, StreamIndex, AppendProperties
<1> HIDE DEF m, n, o, rest
<1>15. \A i \in 1..(n - 1) : i + 1 \in 1..n
  BY <1>7
<1>16. Offsets(rest) \subseteq Offsets(queue[run]) /\ o \in Offsets(queue[run])
  BY <1>2, <1>3, <1>8, <1>12, <1>13, <1>15
<1>17. \A x \in Offsets(rest) : o < x
  BY <1>11, <1>12
<1>18. QED
  BY <1>1, <1>2, <1>4, <1>9, <1>10, <1>14, <1>16, <1>17 DEF m, o

-----------------------------------------------------------------------------
(***************************************************************************)
(* Types, places and registrations are kept.                               *)
(***************************************************************************)
LEMMA AfterEventTyped ==
  \A n : AfterEvent(n) \in {"leaving", "next"}
  BY DEF AfterEvent

\* Counting keeps the counters what they are.
LEMMA StatsFacts ==
  ASSUME NEW st \in ConsumerStats
  PROVE  /\ st.consumed \in Nat /\ st.failed \in Nat /\ st.errors \in Nat
         /\ \A o \in 0..(MaxPublish - 1) :
              LET counted == [st EXCEPT !.consumed = @ + 1, !.last = o] IN
              /\ counted \in ConsumerStats /\ counted.consumed = st.consumed + 1
              /\ counted.failed = st.failed /\ counted.errors = st.errors /\ counted.last = o
         /\ LET counted == [st EXCEPT !.failed = @ + 1] IN
              /\ counted \in ConsumerStats /\ counted.failed = st.failed + 1
              /\ counted.consumed = st.consumed /\ counted.errors = st.errors
         /\ \A raises \in BOOLEAN :
              LET counted == [st EXCEPT !.errors = IF raises THEN @ + 1 ELSE @] IN
              /\ counted \in ConsumerStats /\ counted.errors \in {st.errors, st.errors + 1}
              /\ counted.consumed = st.consumed /\ counted.failed = st.failed
              /\ counted.last = st.last
<1> DEFINE Lasts == -1..(MaxPublish - 1)
<1>1. /\ \A o \in 0..(MaxPublish - 1) : o \in Lasts
      /\ ConsumerStats = [consumed : Nat, failed : Nat, errors : Nat, last : Lasts]
  BY ConstantFacts DEF ConsumerStats
<1> HIDE DEF Lasts
<1>2. st \in [consumed : Nat, failed : Nat, errors : Nat, last : Lasts]
  BY <1>1
<1>3. st.consumed \in Nat /\ st.failed \in Nat /\ st.errors \in Nat
  BY <1>2
<1>4. ASSUME NEW o \in 0..(MaxPublish - 1)
      PROVE  LET counted == [st EXCEPT !.consumed = @ + 1, !.last = o] IN
             /\ counted \in ConsumerStats /\ counted.consumed = st.consumed + 1
             /\ counted.failed = st.failed /\ counted.errors = st.errors /\ counted.last = o
  <2>1. o \in Lasts
    BY <1>1
  <2> DEFINE once == [st EXCEPT !.consumed = @ + 1]
  <2>2. once \in ConsumerStats
    BY <1>1, <1>2
  <2>3. [once EXCEPT !.last = o] \in ConsumerStats
    <3> HIDE DEF once
    <3>1. QED
      BY <1>1, <2>1, <2>2
  <2>4. [st EXCEPT !.consumed = @ + 1, !.last = o] = [once EXCEPT !.last = o]
    OBVIOUS
  <2>5. QED
    BY <1>2, <2>3, <2>4
<1>5. LET counted == [st EXCEPT !.failed = @ + 1] IN
      /\ counted \in ConsumerStats /\ counted.failed = st.failed + 1
      /\ counted.consumed = st.consumed /\ counted.errors = st.errors
  BY <1>1, <1>2
<1>6. ASSUME NEW raises \in BOOLEAN
      PROVE  LET counted == [st EXCEPT !.errors = IF raises THEN @ + 1 ELSE @] IN
             /\ counted \in ConsumerStats /\ counted.errors \in {st.errors, st.errors + 1}
             /\ counted.consumed = st.consumed /\ counted.failed = st.failed
             /\ counted.last = st.last
  BY <1>1, <1>2
<1>7. QED
  BY <1>3, <1>4, <1>5, <1>6

\* An event is dispatched.
LEMMA FetchTyped ==
  ASSUME BrokerInv, ConsumerShape, Fetch
  PROVE  ConsumerTypeOK' /\ HistoriesTyped'
<1> DEFINE o == Head(queue[run])
<1>1. o \in DOMAIN Content /\ o \in 0..(MaxPublish - 1)
  BY FetchedOffset, ConstantFacts DEF ConsumerShape
<1>2. UNCHANGED <<run, limit, stopping, handlers, interrupted, joined, seen>> /\ Accept(o)
  BY DEF Fetch
<1>3. ConsumerTypeOK /\ HistoriesTyped /\ HandlersKept
  BY DEF ConsumerShape
<1> HIDE DEF o
<1>4. todo = <<>>
  BY DEF Fetch, ConsumerShape, ConsumerTypeOK
<1>5. CASE UNCHANGED <<todo, dispatched>> /\ task' \in {"leaving", "next"} /\ stats' \in ConsumerStats
  BY <1>2, <1>3, <1>4, <1>5 DEF ConsumerTypeOK, HistoriesTyped
<1>6. CASE /\ stats' = [stats EXCEPT !.consumed = @ + 1, !.last = o]
           /\ todo' = HandlersFor(Content[o])
           /\ dispatched' = Append(dispatched, o)
           /\ task' = IF todo' = <<>> THEN AfterEvent(stats'.consumed) ELSE "dispatching"
  <2>1. todo' \in Seq(Handlers)
    BY <1>1, <1>3, <1>6, InterestedFacts
  <2>2. /\ dispatched' \in Seq(DOMAIN Content) /\ Len(dispatched') = Len(dispatched) + 1
        /\ Elements(dispatched') = Elements(dispatched) \union {o}
    BY <1>1, <1>3, <1>6, ElementsAppend DEF HistoriesTyped
  <2>4. stats' \in ConsumerStats
    BY <1>1, <1>3, <1>6, StatsFacts DEF ConsumerTypeOK
  <2>5. ConsumerTypeOK'
    <3>1. task' \in {"dispatching", "leaving", "next"} /\ (todo' # <<>> <=> task' = "dispatching")
      BY <1>6, AfterEventTyped
    <3>2. QED
      BY <1>2, <1>3, <2>1, <2>4, <3>1 DEF ConsumerTypeOK
  <2>6. HistoriesTyped'
    <3>1. Len(dispatched) \in Nat
      BY <1>3, LenProperties DEF HistoriesTyped
    <3>2. \A h \in Handlers : joined'[h] <= Len(dispatched')
      BY <1>2, <1>3, <2>2, <3>1 DEF HistoriesTyped
    <3>3. QED
      BY <1>2, <1>3, <2>2, <3>2 DEF HistoriesTyped
  <2>7. QED
    BY <2>5, <2>6
<1>7. QED
  <2>1. [stats EXCEPT !.failed = @ + 1] \in ConsumerStats /\ stats \in ConsumerStats
    BY <1>3, StatsFacts DEF ConsumerTypeOK
  <2>2. QED
    BY <1>2, <1>5, <1>6, <2>1 DEF Accept

\* A handler is awaited.
LEMMA HandleTyped ==
  ASSUME ConsumerTypeOK, HistoriesTyped, InDispatch, Handle
  PROVE  /\ ConsumerTypeOK' /\ HistoriesTyped'
         /\ Head(todo) \in Handlers /\ stats.last \in Nat
         /\ seen'[Head(todo)] = Append(seen[Head(todo)], stats.last)
         /\ \A h \in Handlers : h # Head(todo) => seen'[h] = seen[h]
         /\ stats'.consumed = stats.consumed /\ stats'.failed = stats.failed
         /\ stats'.last = stats.last /\ stats'.errors \in {stats.errors, stats.errors + 1}
<1>1. /\ Head(todo) \in Handlers /\ todo' \in Seq(Handlers)
      /\ todo # <<>>
  BY HeadTailProperties DEF Handle, ConsumerTypeOK
<1>2. stats.last \in Nat
  <2>1. dispatched # <<>> /\ stats.last = dispatched[Len(dispatched)]
    BY DEF Handle, InDispatch
  <2>2. Len(dispatched) \in 1..Len(dispatched)
    BY <2>1, LenProperties, EmptySeq DEF HistoriesTyped
  <2>3. stats.last \in 0..(MaxPublish - 1)
    BY <2>1, <2>2, ElementOfSeq, ConstantFacts DEF HistoriesTyped
  <2>4. QED
    BY <2>3
<1>3. /\ seen'[Head(todo)] = Append(seen[Head(todo)], stats.last)
      /\ \A h \in Handlers : h # Head(todo) => seen'[h] = seen[h]
      /\ seen' \in [Handlers -> Seq(Nat)]
  BY <1>1, <1>2, AppendProperties DEF Handle, HistoriesTyped
<1>4. /\ stats' \in ConsumerStats
      /\ stats'.consumed = stats.consumed /\ stats'.failed = stats.failed
      /\ stats'.last = stats.last /\ stats'.errors \in {stats.errors, stats.errors + 1}
  <2>1. stats \in ConsumerStats
    BY DEF ConsumerTypeOK
  <2>2. PICK raises \in BOOLEAN : stats' = [stats EXCEPT !.errors = IF raises THEN @ + 1 ELSE @]
    BY DEF Handle
  <2>3. QED
    BY <2>1, <2>2, StatsFacts
<1>5. task' \in {"dispatching", "leaving", "next"} /\ (todo' # <<>> <=> task' = "dispatching")
  BY AfterEventTyped DEF Handle
<1>6. ConsumerTypeOK'
  BY <1>1, <1>4, <1>5 DEF Handle, ConsumerTypeOK
<1>7. HistoriesTyped'
  BY <1>3 DEF Handle, HistoriesTyped
<1>8. QED
  BY <1>1, <1>2, <1>3, <1>4, <1>6, <1>7

\* A handler is registered.
LEMMA OnTyped ==
  ASSUME ConsumerShape, NEW h \in Handlers, On(h)
  PROVE  /\ ConsumerTypeOK' /\ HistoriesTyped' /\ HandlersKept'
         /\ Active' = Active \union {h} /\ h \notin Active
         /\ joined'[h] = Len(dispatched)
         /\ \A other \in Handlers : other # h => joined'[other] = joined[other]
<1>1. ConsumerTypeOK /\ HistoriesTyped /\ HandlersKept /\ Len(dispatched) \in Nat
  BY LenProperties DEF ConsumerShape, HistoriesTyped
<1> DEFINE home == Wants[h]
<1>2. home \in Types /\ handlers[home] \in Seq(Handlers) /\ h \notin Elements(handlers[home])
  BY <1>1, ConstantFacts DEF On, ConsumerTypeOK
<1>3. /\ handlers'[home] = Append(handlers[home], h)
      /\ \A type \in Types : type # home => handlers'[type] = handlers[type]
  BY <1>1, <1>2 DEF On, ConsumerTypeOK
<1>4. /\ Append(handlers[home], h) \in Seq(Handlers)
      /\ Elements(Append(handlers[home], h)) = Elements(handlers[home]) \union {h}
      /\ NoRepeats(handlers[home]) => NoRepeats(Append(handlers[home], h))
  BY <1>2, ElementsAppend
<1>5. ConsumerTypeOK'
  <2>1. handlers' \in [Types -> Seq(Handlers)]
    BY <1>1, <1>2, <1>4 DEF On, ConsumerTypeOK
  <2>2. QED
    BY <1>1, <2>1 DEF On, ConsumerTypeOK
<1>6. /\ joined' \in [Handlers -> Nat] /\ joined'[h] = Len(dispatched)
      /\ \A other \in Handlers : other # h => joined'[other] = joined[other]
  BY <1>1 DEF On, HistoriesTyped
<1>7. HistoriesTyped'
  <2>1. \A other \in Handlers : joined[other] <= Len(dispatched)
    BY <1>1 DEF HistoriesTyped
  <2>2. Len(dispatched) <= Len(dispatched)
    BY <1>1
  <2>3. \A other \in Handlers : joined'[other] <= Len(dispatched)
    BY <1>6, <2>1, <2>2
  <2>4. QED
    BY <1>1, <1>6, <2>3 DEF On, HistoriesTyped
<1>8. HandlersKept'
  BY <1>1, <1>2, <1>3, <1>4 DEF HandlersKept
<1>9. Active' = Active \union {h} /\ h \notin Active
  <2>1. \A other \in Handlers : other \in Elements(handlers'[Wants[other]])
          <=> other \in Elements(handlers[Wants[other]]) \/ other = h
    BY <1>2, <1>3, <1>4, ConstantFacts
  <2>2. QED
    BY <1>2, <2>1 DEF Active
<1>10. QED
  BY <1>5, <1>6, <1>7, <1>8, <1>9

\* A step that leaves the consumer's own data alone keeps it well typed.
LEMMA UntouchedTyped ==
  ASSUME ConsumerShape, Untouched, task' # "dispatching", task # "dispatching",
         task' \in {"idle", "waiting", "next", "leaving", "cancelled"},
         run' \in 0..Cardinality(Subs), limit' \in Limits \union {0}, stopping' \in BOOLEAN
  PROVE  ConsumerTypeOK' /\ HistoriesTyped' /\ HandlersKept'
  BY DEF ConsumerShape, Untouched, ConsumerTypeOK, HistoriesTyped, HandlersKept

\* Types and registrations, whatever the step.
LEMMA TypedNext ==
  ASSUME BrokerInv, ConsumerShape, InDispatch, [ConsumerNext]_allVars
  PROVE  ConsumerTypeOK' /\ HistoriesTyped' /\ HandlersKept'
<1> USE DEF ConsumerShape
<1>1. ASSUME UNCHANGED consumerVars
      PROVE  ConsumerTypeOK' /\ HistoriesTyped' /\ HandlersKept'
  BY <1>1 DEF consumerVars, ConsumerTypeOK, HistoriesTyped, HandlersKept
<1>2. CASE RequestStop
  BY <1>2 DEF RequestStop, ConsumerTypeOK, HistoriesTyped, HandlersKept
<1>3. CASE Leave \/ Await \/ Finish
  BY <1>3, UntouchedTyped DEF Leave, Await, Finish, Untouched, ConsumerTypeOK
<1>4. ASSUME NEW max \in Limits, Run(max)
      PROVE  ConsumerTypeOK' /\ HistoriesTyped' /\ HandlersKept'
  <2>1. run + 1 \in 0..Cardinality(Subs)
    BY <1>4, RunKinds, ConsumerAssumption, ConstantFacts
  <2>2. NoStats \in ConsumerStats
    <3>1. -1 \in -1..(MaxPublish - 1)
      BY ConstantFacts
    <3>2. QED
      BY <3>1 DEF NoStats, ConsumerStats
  <2>3. task' \in {"waiting", "idle"} /\ todo' = <<>>
    BY <1>4 DEF Run, ConsumerTypeOK
  <2>4. ConsumerTypeOK'
    BY <1>4, <2>1, <2>2, <2>3 DEF Run, ConsumerTypeOK
  <2>5. QED
    BY <1>4, <2>4 DEF Run, HistoriesTyped, HandlersKept
<1>5. CASE Fetch
  BY <1>5, FetchTyped DEF Fetch, HandlersKept
<1>6. CASE Handle
  BY <1>6, HandleTyped DEF Handle, HandlersKept
<1>7. CASE CancelRun
  <2>1. interrupted' \subseteq Elements(dispatched)
    <3>1. CASE task = "waiting"
      BY <1>7, <3>1 DEF CancelRun, HistoriesTyped
    <3>2. CASE task = "dispatching"
      <4>1. dispatched # <<>> /\ stats.last = dispatched[Len(dispatched)]
        BY <3>2 DEF InDispatch
      <4>2. Len(dispatched) \in 1..Len(dispatched)
        BY <4>1, LenProperties, EmptySeq DEF HistoriesTyped
      <4>3. stats.last \in Elements(dispatched)
        BY <4>1, <4>2 DEF Elements
      <4>4. QED
        BY <1>7, <3>2, <4>3 DEF CancelRun, HistoriesTyped
    <3>3. QED
      BY <1>7, <3>1, <3>2 DEF CancelRun
  <2>2. ConsumerTypeOK'
    BY <1>7, ElementsEmpty DEF CancelRun, ConsumerTypeOK
  <2>3. QED
    BY <1>7, <2>1, <2>2 DEF CancelRun, HistoriesTyped, HandlersKept
<1>8. ASSUME NEW h \in Handlers, On(h)
      PROVE  ConsumerTypeOK' /\ HistoriesTyped' /\ HandlersKept'
  BY <1>8, OnTyped
<1>9. QED
  BY <1>1, <1>2, <1>3, <1>4, <1>5, <1>6, <1>7, <1>8, ConsumerKinds
  DEF BrokerStep, allVars, consumerVars, BrokerInv

\* Only the generator in use is iterated, and only a left one is closed.
LEMMA InStepNext ==
  ASSUME BrokerInv, ConsumerShape, [ConsumerNext]_allVars
  PROVE  InStep'
<1> USE DEF ConsumerShape, BrokerInv
<1>1. TypeOK /\ InStep /\ ConsumerTypeOK /\ run \in Nat /\ (run > 0 => run \in Subs)
  BY RunFacts
<1>2. CASE BrokerStep
  <2>1. \A s \in Subs : pc[s] # "abandoned" => pc'[s] = pc[s]
    BY <1>1, <1>2 DEF BrokerStep, Start, Stop, Publish, Finalise, Release, TypeOK
  <2>2. UNCHANGED <<task, run>>
    BY <1>2 DEF BrokerStep, consumerVars
  <2>3. QED
    BY <1>1, <2>1, <2>2 DEF InStep
<1>3. CASE RequestStop \/ UNCHANGED allVars
  BY <1>1, <1>3 DEF RequestStop, allVars, vars, consumerVars, InStep
<1>4. ASSUME NEW h \in Handlers, On(h)
      PROVE  InStep'
  BY <1>1, <1>4 DEF On, vars, InStep
<1>5. CASE Handle
  <2>1. task' \in {"dispatching", "leaving", "next"} /\ UNCHANGED <<pc, run>> /\ task = "dispatching"
    BY <1>5, AfterEventTyped DEF Handle, vars
  <2>2. QED
    BY <1>1, <2>1 DEF InStep
<1>6. CASE Fetch
  <2>1. pc'[run] = "holding" /\ (\A s \in Subs : s # run => pc'[s] = pc[s]) /\ run' = run /\ run > 0
    BY <1>1, <1>6, FetchedOffset DEF Fetch, Yield, TypeOK
  <2>2. task' # "waiting"
    BY <1>6, AfterEventTyped DEF Fetch, Accept
  <2>3. QED
    BY <1>1, <2>1, <2>2 DEF InStep
<1>7. CASE Leave \/ Await \/ Finish \/ CancelRun
  <2>1. run \in Subs /\ run > 0 /\ run' = run
    BY <1>1, <1>7 DEF Leave, Await, Finish, CancelRun, InStep
  <2>2. \A s \in Subs : s # run => pc'[s] = pc[s]
    BY <1>1, <1>7, <2>1 DEF Leave, Await, Finish, CancelRun, Abandon, Cancel, Park, End, Release, TypeOK
  <2>3. \/ task' \in {"idle", "cancelled"}
        \/ task' = "waiting" /\ pc'[run] = "waiting"
    BY <1>1, <1>7, <2>1 DEF Leave, Await, Finish, CancelRun, Park, TypeOK
  <2>4. QED
    BY <1>1, <2>1, <2>2, <2>3 DEF InStep
<1>8. ASSUME NEW max \in Limits, Run(max)
      PROVE  InStep'
  <2>1. /\ run + 1 \in Subs /\ run' = run + 1
        /\ \/ Join(run + 1) /\ task' = "waiting"
           \/ End(run + 1) /\ task' = "idle"
    BY <1>8, RunKinds DEF Run
  <2>2. /\ \A s \in Subs : s # run + 1 => pc'[s] = pc[s]
        /\ task' = "waiting" => pc'[run + 1] = "waiting"
        /\ task' \in {"waiting", "idle"}
    BY <1>1, <2>1 DEF Join, End, Release, TypeOK
  <2>3. \A s \in Subs : s > run + 1 => s > run /\ s # run + 1
    BY <1>1, ConstantFacts
  <2>4. run + 1 > 0
    BY <1>1
  <2>5. QED
    BY <1>1, <2>1, <2>2, <2>3, <2>4 DEF InStep
<1>9. QED
  BY <1>1, <1>2, <1>3, <1>4, <1>5, <1>6, <1>7, <1>8, ConsumerKinds

-----------------------------------------------------------------------------
(***************************************************************************)
(* Dispatching goes up.                                                    *)
(***************************************************************************)
LEMMA OffsetGrows ==
  ASSUME TypeOK, [Next]_vars
  PROVE  offset' \in {offset, offset + 1} /\ offset' >= offset
<1>1. offset' \in {offset, offset + 1}
  BY StepKinds DEF Start, Stop, Publish, Join, Park, Yield, End, Abandon, vars
<1>2. QED
  BY <1>1 DEF TypeOK

\* A queue gains nothing but the offset published next.
LEMMA QueuesGrow ==
  ASSUME TypeOK, [Next]_vars, NEW s \in Subs
  PROVE  Offsets(queue'[s]) \subseteq Offsets(queue[s]) \union {offset}
<1>1. queue[s] \in Seq(Item) /\ offset \in Nat /\ offset \in Item /\ Sentinel \in Item
  BY ItemFacts DEF TypeOK
<1>2. \A item \in Item : Elements(Append(queue[s], item)) = Elements(queue[s]) \union {item}
  BY <1>1, ElementsAppend
<1>3. queue[s] # <<>> => Elements(Tail(queue[s])) \subseteq Elements(queue[s])
  BY <1>1, ElementsTail
<1>4. Elements(<<>>) = {}
  BY ElementsEmpty
<1>5. \/ queue'[s] \in {queue[s], <<>>, Append(queue[s], Sentinel), Append(queue[s], offset)}
      \/ queue[s] # <<>> /\ queue'[s] = Tail(queue[s])
  <2>1. CASE Start \/ UNCHANGED vars
    BY <2>1 DEF Start, vars
  <2>2. CASE Stop \/ Publish
    BY <2>2 DEF Stop, Publish, PutToRegistered
  <2>3. ASSUME NEW t \in Subs, Join(t) \/ Park(t) \/ Abandon(t)
        PROVE  queue' = queue
    BY <2>3 DEF Join, Park, Abandon
  <2>4. ASSUME NEW t \in Subs, Yield(t)
        PROVE  \/ queue'[s] = queue[s]
               \/ queue[s] # <<>> /\ queue'[s] = Tail(queue[s])
    <3>1. CASE s = t
      BY <2>4, <3>1 DEF Yield, TypeOK
    <3>2. CASE s # t
      BY <2>4, <3>2 DEF Yield, TypeOK
    <3>3. QED
      BY <3>1, <3>2
  <2>5. ASSUME NEW t \in Subs, End(t)
        PROVE  queue'[s] \in {queue[s], <<>>}
    BY <2>5 DEF End, Release, TypeOK
  <2>6. QED
    BY <2>1, <2>2, <2>3, <2>4, <2>5, StepKinds
<1>6. Elements(queue'[s]) \subseteq Elements(queue[s]) \union {offset, Sentinel}
  BY <1>1, <1>2, <1>3, <1>4, <1>5
<1>7. QED
  BY <1>6 DEF Offsets, Elements

LEMMA DispatchOrderNext ==
  ASSUME BrokerInv, ConsumerShape, DispatchOrder, [ConsumerNext]_allVars
  PROVE  DispatchOrder'
<1>1. TypeOK /\ ConsumerTypeOK /\ HistoriesTyped /\ InStep /\ [Next]_vars /\ offset \in Nat
  BY ConsumerStepsBroker DEF ConsumerShape, BrokerInv, TypeOK
<1>2. TypeOK' /\ offset' \in Nat /\ offset' >= offset
  BY <1>1, TypeNext, OffsetGrows DEF TypeOK
<1>3. \A o \in Elements(dispatched) : o \in Nat
  <2>1. \A i \in 1..Len(dispatched) : dispatched[i] \in 0..(MaxPublish - 1)
    BY <1>1, ElementOfSeq, ConstantFacts DEF HistoriesTyped
  <2>2. QED
    BY <2>1, ConstantFacts DEF Elements
<1>4. ASSUME UNCHANGED <<run, dispatched>>
      PROVE  DispatchOrder'
  <2>1. \A o \in Elements(dispatched) : o < offset'
    BY <1>1, <1>2, <1>3 DEF DispatchOrder
  <2>2. run > 0 => \A o \in Elements(dispatched), x \in Offsets(queue'[run]) : o < x
    <3> SUFFICES ASSUME run > 0, NEW o \in Elements(dispatched), NEW x \in Offsets(queue'[run])
                 PROVE  o < x
      OBVIOUS
    <3>1. x \in Offsets(queue[run]) \union {offset}
      BY <1>1, QueuesGrow, RunFacts
    <3>2. QED
      BY <3>1 DEF DispatchOrder
  <2>3. QED
    BY <1>4, <2>1, <2>2 DEF DispatchOrder
<1>5. ASSUME NEW max \in Limits, Run(max)
      PROVE  DispatchOrder'
  <2>1. run + 1 \in Subs /\ run' = run + 1 /\ queue'[run + 1] = <<>> /\ dispatched' = dispatched
    BY <1>1, <1>5, RunKinds DEF Run, Join, End, Release, BrokerInv, Disciplined, IdleIsFresh, TypeOK
  <2>2. Offsets(<<>>) = {}
    BY ElementsEmpty DEF Elements, Offsets
  <2>3. \A o \in Elements(dispatched) : o < offset'
    BY <1>1, <1>2, <1>3 DEF DispatchOrder
  <2>4. QED
    BY <2>1, <2>2, <2>3 DEF DispatchOrder
<1>6. CASE Fetch
  <2> DEFINE o == Head(queue[run])
  <2>1. /\ run \in Subs /\ o \in DOMAIN Content /\ o \in Nat /\ o < offset /\ o \in Offsets(queue[run])
        /\ Offsets(queue'[run]) \subseteq Offsets(queue[run])
        /\ \A x \in Offsets(queue'[run]) : o < x
        /\ run > 0
    BY <1>1, <1>6, FetchedOffset
  <2>2. run' = run /\ dispatched' \in {dispatched, Append(dispatched, o)} /\ offset' = offset
    BY <1>6 DEF Fetch, Accept, Yield
  <2>3. dispatched \in Seq(Nat) /\ \A x \in Elements(dispatched) : x < o /\ x < offset
    <3>1. DOMAIN Content \subseteq Nat
      BY ConstantFacts
    <3>2. QED
      BY <1>1, <2>1, <3>1, SeqMonotonic DEF DispatchOrder, HistoriesTyped
  <2> HIDE DEF o
  <2>4. Increasing(Append(dispatched, o)) /\ Elements(Append(dispatched, o)) = Elements(dispatched) \union {o}
    BY <2>1, <2>3, IncreasingAppend, ElementsAppend DEF DispatchOrder
  <2>5. CASE dispatched' = dispatched
    BY <1>4, <2>2, <2>5
  <2>6. CASE dispatched' = Append(dispatched, o)
    <3>1. \A p \in Elements(dispatched') : p < offset'
      BY <2>1, <2>2, <2>3, <2>4, <2>6
    <3>2. \A p \in Elements(dispatched'), x \in Offsets(queue'[run]) : p < x
      <4>1. \A p \in Elements(dispatched), x \in Offsets(queue[run]) : p < x
        BY <2>1 DEF DispatchOrder
      <4>2. QED
        BY <2>1, <2>4, <2>6, <4>1
    <3>3. QED
      BY <2>2, <2>4, <2>6, <3>1, <3>2 DEF DispatchOrder
  <2>7. QED
    BY <2>2, <2>5, <2>6
<1>7. QED
  BY <1>1, <1>4, <1>5, <1>6, ConsumerKinds
  DEF BrokerStep, RequestStop, Leave, Await, Finish, Handle, CancelRun, On, allVars, consumerVars

-----------------------------------------------------------------------------
(***************************************************************************)
(* What is in dispatch, and who has seen it.                               *)
(***************************************************************************)
\* The last event dispatched is the largest so far.
LEMMA LastFacts ==
  ASSUME ConsumerShape, DispatchOrder, InDispatch, task = "dispatching"
  PROVE  /\ stats.last \in Elements(dispatched) /\ stats.last \in Nat
         /\ stats.last = dispatched[Len(dispatched)] /\ Len(dispatched) \in Nat \ {0}
         /\ \A p \in Elements(dispatched) : p \in Nat /\ (p < stats.last \/ p = stats.last)
<1> DEFINE n == Len(dispatched)
<1>1. dispatched # <<>> /\ stats.last = dispatched[n] /\ dispatched \in Seq(DOMAIN Content)
  BY DEF InDispatch, ConsumerShape, HistoriesTyped
<1>2. n \in Nat \ {0}
  BY <1>1, LenProperties, EmptySeq
<1>3. \A i \in 1..n : dispatched[i] \in Nat
  <2>1. \A i \in 1..n : dispatched[i] \in 0..(MaxPublish - 1)
    BY <1>1, ElementOfSeq, ConstantFacts
  <2>2. QED
    BY <2>1, ConstantFacts
<1>4. Elements(dispatched) = {dispatched[i] : i \in 1..n}
  BY DEF Elements
<1>5. \A i, j \in 1..n : i < j => dispatched[i] < dispatched[j]
  BY DEF DispatchOrder, Increasing
<1> HIDE DEF n
<1>6. n \in 1..n /\ \A i \in 1..n : i < n \/ i = n
  BY <1>2
<1>7. QED
  BY <1>1, <1>2, <1>3, <1>4, <1>5, <1>6 DEF n

\* What is fetched comes after all that was dispatched.
LEMMA FetchIsNew ==
  ASSUME BrokerInv, ConsumerShape, DispatchOrder, Fetch
  PROVE  /\ \A p \in Elements(dispatched) : p \in Nat /\ p < Head(queue[run])
         /\ Head(queue[run]) \in DOMAIN Content \intersect Nat
         /\ Head(queue[run]) \notin interrupted
<1>1. /\ run > 0 /\ Head(queue[run]) \in Offsets(queue[run])
      /\ Head(queue[run]) \in DOMAIN Content \intersect Nat
  BY FetchedOffset DEF ConsumerShape
<1>2. \A p \in Elements(dispatched) : p < Head(queue[run])
  BY <1>1 DEF DispatchOrder
<1>3. \A p \in Elements(dispatched) : p \in Nat
  <2>1. \A i \in 1..Len(dispatched) : dispatched[i] \in 0..(MaxPublish - 1)
    BY ElementOfSeq, ConstantFacts DEF ConsumerShape, HistoriesTyped
  <2>2. QED
    BY <2>1, ConstantFacts DEF Elements
<1>4. Head(queue[run]) \notin Elements(dispatched)
  BY <1>1, <1>2
<1>5. QED
  BY <1>1, <1>2, <1>3, <1>4 DEF ConsumerShape, HistoriesTyped

(***************************************************************************)
(* Of what a fetch may do, only one thing concerns the handlers.           *)
(***************************************************************************)
Dispatch(o) ==
  /\ stats' = [stats EXCEPT !.consumed = @ + 1, !.last = o]
  /\ todo' = HandlersFor(Content[o])
  /\ dispatched' = Append(dispatched, o)
  /\ task' = IF todo' = <<>> THEN AfterEvent(stats'.consumed) ELSE "dispatching"

LEMMA AcceptKinds ==
  ASSUME NEW o, Accept(o)
  PROVE  \/ ~stopping /\ Dispatch(o)
         \/ /\ UNCHANGED <<todo, dispatched>> /\ task' \in {"leaving", "next"}
            /\ \/ stopping /\ stats' = stats /\ task' = "leaving"
               \/ ~stopping /\ stats' = [stats EXCEPT !.failed = @ + 1] /\ task' = "next"
  BY DEF Accept, Dispatch

LEMMA InDispatchNext ==
  ASSUME BrokerInv, ConsumerShape, DispatchOrder, InDispatch, [ConsumerNext]_allVars
  PROVE  InDispatch'
<1> USE DEF ConsumerShape
<1>1. SUFFICES ASSUME task' = "dispatching"
               PROVE  InDispatch'
  BY DEF InDispatch
<1>2. ASSUME UNCHANGED <<stats, handlers, todo, dispatched, interrupted, joined, task>>
      PROVE  InDispatch'
  BY <1>2 DEF InDispatch, Interested, Active
<1>3. ASSUME Fetch
      PROVE  InDispatch'
  <2>0. PICK o \in DOMAIN Content : o = Head(queue[run])
    BY <1>3, FetchIsNew
  <2>1. /\ o \notin interrupted /\ o \in 0..(MaxPublish - 1)
        /\ UNCHANGED <<handlers, interrupted, joined>>
    BY <1>3, <2>0, FetchIsNew, ConstantFacts DEF Fetch
  <2>2. Dispatch(o)
    BY <1>1, <1>3, <2>0, AcceptKinds DEF Fetch
  <2>3. /\ stats'.last = o
        /\ dispatched' \in Seq(DOMAIN Content) /\ Len(dispatched') = Len(dispatched) + 1
        /\ dispatched'[Len(dispatched) + 1] = o
    <3>1. stats \in ConsumerStats /\ dispatched \in Seq(DOMAIN Content)
      BY DEF ConsumerTypeOK, HistoriesTyped
    <3>2. stats'.last = o
      BY <2>1, <2>2, <3>1, StatsFacts DEF Dispatch
    <3>3. QED
      BY <2>1, <2>2, <3>1, <3>2, AppendProperties DEF Dispatch
  <2>4. Len(dispatched) \in Nat /\ dispatched' # <<>>
    <3>1. Len(dispatched) \in Nat /\ Len(<<>>) = 0
      BY LenProperties, ElementsEmpty DEF HistoriesTyped
    <3>2. QED
      BY <2>3, <3>1
  <2>5. NoRepeats(todo') /\ Elements(todo') = Interested(o)
    BY <2>1, <2>2, InterestedFacts DEF Dispatch
  <2>6. Active' = Active
    BY <2>1 DEF Active
  <2>7. \A h \in Handlers : joined'[h] < Len(dispatched')
    <3>1. \A h \in Handlers : joined[h] <= Len(dispatched) /\ joined[h] \in Nat
      BY DEF HistoriesTyped
    <3>2. QED
      BY <2>1, <2>3, <2>4, <3>1
  <2>8. Elements(todo') \subseteq {h \in Interested(stats.last)' : joined'[h] < Len(dispatched')}
    BY <2>3, <2>5, <2>6, <2>7, ActiveFacts DEF Interested
  <2>9. QED
    BY <2>1, <2>3, <2>4, <2>5, <2>8 DEF InDispatch
<1>4. ASSUME Handle
      PROVE  InDispatch'
  <2>1. stats'.last = stats.last /\ todo # <<>> /\ todo' = Tail(todo) /\ todo \in Seq(Handlers)
    BY <1>4, HandleTyped DEF Handle, ConsumerTypeOK
  <2>2. NoRepeats(todo') /\ Elements(todo') \subseteq Elements(todo)
    BY <1>4, <2>1, ElementsTail DEF InDispatch, Handle
  <2>3. UNCHANGED <<handlers, dispatched, interrupted, joined>> /\ task = "dispatching"
    BY <1>4 DEF Handle
  <2>4. QED
    BY <2>1, <2>2, <2>3 DEF InDispatch, Interested, Active
<1>5. ASSUME NEW h \in Handlers, On(h)
      PROVE  InDispatch'
  <2>1. /\ UNCHANGED <<task, stats, todo, dispatched, interrupted>>
        /\ Active' = Active \union {h} /\ h \notin Active
        /\ \A other \in Handlers : other # h => joined'[other] = joined[other]
    BY <1>5, OnTyped DEF On
  <2>2. InDispatch /\ task = "dispatching"
    BY <1>1, <2>1
  <2>3. \A other \in Elements(todo) : other \in Active /\ other \in Handlers /\ other # h
    BY <2>1, <2>2, ActiveFacts DEF InDispatch, Interested
  <2>4. QED
    BY <2>1, <2>2, <2>3 DEF InDispatch, Interested
<1>6. QED
  BY <1>1, <1>2, <1>3, <1>4, <1>5, ConsumerKinds
  DEF BrokerInv, BrokerStep, RequestStop, Leave, Await, Finish, CancelRun, Run, allVars, consumerVars

\* One more event is due to a registered handler if it wants its type.
LEMMA DueGrows ==
  ASSUME HistoriesTyped, NEW o \in DOMAIN Content, dispatched' = Append(dispatched, o),
         UNCHANGED joined, NEW h \in Handlers
  PROVE  Due(h)' = IF Wants[h] \in {Content[o], Every} THEN Due(h) \union {o} ELSE Due(h)
<1> DEFINE n == Len(dispatched)
           k == joined[h]
           more == Append(dispatched, o)
           due(seq, m) == {i \in k + 1..m : Wants[h] \in {Content[seq[i]], Every}}
<1>1. /\ dispatched \in Seq(DOMAIN Content) /\ k \in Nat /\ k <= n /\ n \in Nat
  BY LenProperties DEF HistoriesTyped
<1>2. /\ Len(more) = n + 1 /\ more[n + 1] = o
      /\ \A i \in 1..n : more[i] = dispatched[i]
  BY <1>1, AppendProperties
<1>3. Due(h) = {dispatched[i] : i \in due(dispatched, n)}
  BY DEF Due
<1>4. Due(h)' = {more[i] : i \in due(more, n + 1)}
  BY <1>2 DEF Due
<1>5. \A i : i \in k + 1..n => i \in 1..n
  <2> HIDE DEF k, n
  <2>1. QED
    BY <1>1
<1>6. \A i : i \in k + 1..(n + 1) <=> i \in k + 1..n \/ i = n + 1
  <2> HIDE DEF k, n
  <2>1. QED
    BY <1>1
<1> HIDE DEF k, n, more
<1>7. due(dispatched, n) = due(more, n)
  BY <1>2, <1>5
<1>8. {dispatched[i] : i \in due(dispatched, n)} = {more[i] : i \in due(more, n)}
  BY <1>2, <1>5
<1>9. due(more, n + 1) = IF Wants[h] \in {Content[o], Every} THEN due(more, n) \union {n + 1} ELSE due(more, n)
  BY <1>2, <1>6
<1> HIDE DEF due
<1>10. QED
  BY <1>2, <1>3, <1>4, <1>8, <1>9

\* Only dispatched events are due.
LEMMA DueDispatched ==
  ASSUME HistoriesTyped, NEW h \in Handlers
  PROVE  Due(h) \subseteq Elements(dispatched)
<1>1. Len(dispatched) \in Nat /\ joined[h] \in Nat
  BY LenProperties DEF HistoriesTyped
<1>2. joined[h] + 1..Len(dispatched) \subseteq 1..Len(dispatched)
  BY <1>1
<1>3. QED
  BY <1>2 DEF Due, Elements

LEMMA SightingsNext ==
  ASSUME BrokerInv, ConsumerShape, DispatchOrder, InDispatch, Sightings, [ConsumerNext]_allVars
  PROVE  Sightings'
<1> USE DEF ConsumerShape
<1> SUFFICES ASSUME NEW h \in Handlers
             PROVE  Sighted(h)'
  BY DEF Sightings
<1>1. Sighted(h)
  BY DEF Sightings
<1>2. task # "dispatching" => todo = <<>> /\ Elements(todo) = {} /\ Awaiting(h) = {}
  BY ElementsEmpty DEF ConsumerTypeOK, Awaiting
<1>3. ASSUME UNCHANGED <<handlers, todo, dispatched, interrupted, joined, seen>>,
             task # "dispatching" \/ stats'.last = stats.last
      PROVE  Sighted(h)'
  <2>1. Awaiting(h)' = Awaiting(h)
    BY <1>2, <1>3 DEF Awaiting
  <2>2. QED
    BY <1>1, <1>3, <2>1 DEF Sighted, Active, Due
<1>4. ASSUME NEW o \in DOMAIN Content, o = Head(queue[run]), Fetch, Dispatch(o)
      PROVE  Sighted(h)'
  <2>1. /\ \A p \in Elements(dispatched) : p \in Nat /\ p < o
        /\ o \in Nat /\ o \notin interrupted /\ o \in 0..(MaxPublish - 1)
    BY <1>4, FetchIsNew, ConstantFacts
  <2>2. UNCHANGED <<handlers, interrupted, joined, seen>> /\ Awaiting(h) = {} /\ Active' = Active
    BY <1>2, <1>4 DEF Fetch, Active
  <2>3. Due(h)' = IF Wants[h] \in {Content[o], Every} THEN Due(h) \union {o} ELSE Due(h)
    BY <1>4, <2>2, DueGrows DEF Dispatch
  <2>4. stats'.last = o
    BY <1>4, <2>1, StatsFacts DEF Dispatch, ConsumerTypeOK
  <2>5. h \in Elements(todo') <=> h \in Active /\ Wants[h] \in {Content[o], Every}
    BY <1>4, InterestedFacts DEF Dispatch, Interested
  <2>6. Awaiting(h)' = IF h \in Active /\ Wants[h] \in {Content[o], Every} THEN {o} ELSE {}
    BY <2>4, <2>5 DEF Awaiting
  <2>7. o \notin Due(h)
    BY <2>1, DueDispatched
  <2>8. QED
    BY <1>1, <2>1, <2>2, <2>3, <2>6, <2>7 DEF Sighted
<1>5. ASSUME Handle
      PROVE  Sighted(h)'
  <2> DEFINE e == stats.last
  <2>1. /\ seen'[Head(todo)] = Append(seen[Head(todo)], e)
        /\ \A other \in Handlers : other # Head(todo) => seen'[other] = seen[other]
        /\ stats'.last = e /\ e \in Nat
    BY <1>5, HandleTyped
  <2>2. /\ UNCHANGED <<handlers, dispatched, interrupted, joined>> /\ task = "dispatching"
        /\ todo # <<>> /\ todo' = Tail(todo) /\ todo \in Seq(Handlers)
    BY <1>5 DEF Handle, ConsumerTypeOK
  <2>3. /\ e \notin interrupted /\ NoRepeats(todo)
        /\ \A other \in Elements(todo) : other \in Active
    BY <2>2 DEF InDispatch, Interested
  <2>4. Head(todo) \in Elements(todo) /\ Elements(todo') = Elements(todo) \ {Head(todo)}
    BY <2>2, <2>3, ElementsTail
  <2>5. Active' = Active /\ Due(h)' = Due(h)
    BY <2>2 DEF Active, Due
  <2>6. CASE h # Head(todo)
    <3>1. Awaiting(h)' = Awaiting(h) /\ seen'[h] = seen[h]
      BY <2>1, <2>4, <2>6 DEF Awaiting
    <3>2. QED
      BY <1>1, <2>2, <2>5, <3>1 DEF Sighted
  <2>7. CASE h = Head(todo)
    <3>1. h \in Active /\ Awaiting(h) = {e} /\ Awaiting(h)' = {}
      BY <2>3, <2>4, <2>7 DEF Awaiting
    <3>2. /\ Increasing(seen[h]) /\ Elements(seen[h]) \subseteq Due(h)
          /\ Due(h) \ (interrupted \union Elements(seen[h])) = {e}
      BY <1>1, <3>1 DEF Sighted
    <3>3. seen[h] \in Seq(Nat) /\ \A p \in Elements(seen[h]) : p < e
      BY <2>2, <3>2, LastFacts, DueDispatched DEF HistoriesTyped
    <3>4. /\ Increasing(seen'[h])
          /\ Elements(seen'[h]) = Elements(seen[h]) \union {e}
      <4>1. seen'[h] = Append(seen[h], e) /\ e \in Nat
        BY <2>1, <2>7
      <4> HIDE DEF e
      <4>2. Increasing(Append(seen[h], e))
        BY <3>2, <3>3, <4>1, IncreasingAppend
      <4>3. Elements(Append(seen[h], e)) = Elements(seen[h]) \union {e}
        BY <3>3, <4>1, ElementsAppend
      <4>4. QED
        BY <4>1, <4>2, <4>3
    <3>5. QED
      BY <2>2, <2>5, <3>1, <3>2, <3>4 DEF Sighted
  <2>8. QED
    BY <2>6, <2>7
<1>6. ASSUME NEW new \in Handlers, On(new)
      PROVE  Sighted(h)'
  <2>1. /\ UNCHANGED <<stats, todo, dispatched, interrupted, seen>>
        /\ Active' = Active \union {new} /\ new \notin Active
        /\ joined'[new] = Len(dispatched)
        /\ \A other \in Handlers : other # new => joined'[other] = joined[other]
    BY <1>6, OnTyped DEF On
  <2>2. Awaiting(h)' = Awaiting(h)
    BY <2>1 DEF Awaiting
  <2>3. CASE h # new
    <3>1. Due(h)' = Due(h)
      BY <2>1, <2>3 DEF Due
    <3>2. QED
      BY <1>1, <2>1, <2>2, <2>3, <3>1 DEF Sighted
  <2>4. CASE h = new
    <3>1. Due(h)' = {}
      <4>1. Len(dispatched) \in Nat
        BY LenProperties DEF HistoriesTyped
      <4>2. Len(dispatched) + 1..Len(dispatched) = {}
        BY <4>1
      <4>3. QED
        BY <2>1, <2>4, <4>2 DEF Due
    <3>2. seen'[h] = <<>> /\ Increasing(seen'[h]) /\ Elements(seen'[h]) = {}
      BY <1>1, <2>1, <2>4, ElementsEmpty DEF Sighted
    <3>3. Awaiting(h) = {}
      <4>1. CASE task = "dispatching"
        BY <2>1, <2>4, <4>1 DEF InDispatch, Interested, Awaiting
      <4>2. QED
        BY <1>2, <4>1
    <3>4. QED
      BY <2>1, <2>2, <2>4, <3>1, <3>2, <3>3 DEF Sighted
  <2>5. QED
    BY <2>3, <2>4
<1>7. ASSUME CancelRun
      PROVE  Sighted(h)'
  <2>1. UNCHANGED <<stats, handlers, dispatched, joined, seen>> /\ Awaiting(h)' = {}
    BY <1>7, ElementsEmpty DEF CancelRun, Awaiting
  <2>2. Active' = Active /\ Due(h)' = Due(h)
    BY <2>1 DEF Active, Due
  <2>3. \/ interrupted' = interrupted /\ Awaiting(h) = {}
        \/ interrupted' = interrupted \union {stats.last}
    BY <1>2, <1>7 DEF CancelRun
  <2>4. Awaiting(h) \subseteq {stats.last}
    BY DEF Awaiting
  <2>5. QED
    BY <1>1, <2>1, <2>2, <2>3, <2>4 DEF Sighted
<1>8. ASSUME Fetch
      PROVE  Sighted(h)'
  <2>1. PICK o \in DOMAIN Content : o = Head(queue[run])
    BY <1>8, FetchIsNew
  <2>2. CASE Dispatch(o)
    BY <1>4, <1>8, <2>1, <2>2
  <2>3. CASE UNCHANGED <<todo, dispatched>>
    BY <1>3, <1>8, <2>3 DEF Fetch
  <2>4. QED
    BY <1>8, <2>1, <2>2, <2>3, AcceptKinds DEF Fetch
<1>9. QED
  BY <1>3, <1>5, <1>6, <1>7, <1>8, ConsumerKinds
  DEF BrokerInv, BrokerStep, RequestStop, Leave, Await, Finish, Run, allVars, consumerVars

-----------------------------------------------------------------------------
(***************************************************************************)
(* The tallies.                                                            *)
(***************************************************************************)
\* Only a fetch, or a new run, changes what the generator in use yielded.
LEMMA ReceivedKept ==
  ASSUME BrokerInv, ConsumerShape, [ConsumerNext]_allVars, ~Fetch,
         \A max \in Limits : ~Run(max)
  PROVE  run' = run /\ (run > 0 => received'[run] = received[run])
<1>1. TypeOK /\ ConsumerTypeOK /\ InStep
  BY DEF BrokerInv, ConsumerShape
<1>2. CASE BrokerStep
  BY <1>2 DEF BrokerStep, Start, Stop, Publish, Finalise, consumerVars
<1>3. CASE Await \/ Finish \/ Leave \/ CancelRun
  BY <1>3 DEF Await, Finish, Leave, CancelRun, Park, End, Abandon, Cancel
<1>4. CASE RequestStop \/ Handle \/ UNCHANGED allVars \/ \E h \in Handlers : On(h)
  BY <1>4 DEF RequestStop, Handle, On, vars, allVars, consumerVars
<1>5. QED
  BY <1>1, <1>2, <1>3, <1>4, ConsumerKinds

LEMMA TalliedNext ==
  ASSUME BrokerInv, ConsumerShape, Tallied, InDispatch, [ConsumerNext]_allVars
  PROVE  Tallied'
<1> USE DEF ConsumerShape
<1>1. /\ TypeOK /\ ConsumerTypeOK /\ InStep /\ stats \in ConsumerStats
      /\ stats.consumed \in Nat /\ stats.failed \in Nat /\ limit \in Nat
      /\ \A s \in Subs : Len(received[s]) \in Nat
      /\ run \in Nat /\ (run > 0 => run \in Subs)
  <2>1. stats \in ConsumerStats
    BY DEF ConsumerTypeOK
  <2>2. limit \in Nat
    BY ConsumerAssumption DEF ConsumerTypeOK
  <2>3. TypeOK
    BY DEF BrokerInv
  <2>4. QED
    BY <2>1, <2>2, <2>3, StatsFacts, StreamIndex, RunFacts
<1>2. ASSUME UNCHANGED <<run, stats, limit>>, stopping => stopping', run > 0 => received'[run] = received[run],
             \/ task' = task \/ ~Iterating'
             \/ task' = "waiting" /\ task = "next"
      PROVE  Tallied'
  BY <1>2 DEF Tallied, Iterating
<1>3. ASSUME NEW max \in Limits, Run(max)
      PROVE  Tallied'
  <2>1. run + 1 \in Subs /\ pc[run + 1] = "idle" /\ run' = run + 1 /\ limit' = max /\ max \in Nat
        /\ stats' = NoStats
    BY <1>3, RunKinds, ConsumerAssumption DEF Run
  <2>2. received' = received
    BY <1>3, RunKinds DEF Join, End
  <2>3. received[run + 1] = <<>>
    BY <2>1 DEF BrokerInv, Disciplined, IdleIsFresh
  <2>4. Len(received'[run']) = 0
    BY <2>1, <2>2, <2>3, ElementsEmpty
  <2>5. QED
    BY <2>1, <2>4 DEF Tallied, NoStats
<1>4. ASSUME Fetch
      PROVE  Tallied'
  <2>0. PICK o \in 0..(MaxPublish - 1) : o = Head(queue[run])
    BY <1>1, <1>4, FetchedOffset, ConstantFacts
  <2>1. /\ run > 0 /\ run' = run /\ limit' = limit /\ stopping' = stopping
        /\ Len(received'[run]) = Len(received[run]) + 1 /\ Accept(o)
        /\ task \in {"waiting", "next"}
    BY <1>1, <1>4, <2>0, FetchedOffset DEF Fetch
  <2>2. /\ Len(received[run]) = stats.consumed + stats.failed
        /\ limit # 0 => stats.consumed < limit
    BY <2>1 DEF Tallied, Iterating
  <2>3. CASE /\ task' = "leaving" /\ stopping /\ stats' = stats
    BY <1>1, <2>1, <2>2, <2>3 DEF Tallied, Iterating
  <2>4. CASE stats' = [stats EXCEPT !.failed = @ + 1]
    <3>1. stats'.consumed = stats.consumed /\ stats'.failed = stats.failed + 1
      BY <1>1, <2>4, StatsFacts
    <3>2. QED
      BY <1>1, <2>1, <2>2, <3>1 DEF Tallied
  <2>5. CASE Dispatch(o)
    <3>1. stats'.consumed = stats.consumed + 1 /\ stats'.failed = stats.failed
      BY <1>1, <2>5, StatsFacts DEF Dispatch
    <3>2. task' = IF todo' = <<>> THEN AfterEvent(stats.consumed + 1) ELSE "dispatching"
      BY <2>5, <3>1 DEF Dispatch
    <3>3. limit # 0 /\ task' \in {"waiting", "next"} => stats.consumed + 1 < limit
      BY <1>1, <3>2 DEF AfterEvent
    <3>4. QED
      BY <1>1, <2>1, <2>2, <3>1, <3>3 DEF Tallied
  <2>6. QED
    BY <2>1, <2>3, <2>4, <2>5, AcceptKinds
<1>5. ASSUME Handle
      PROVE  Tallied'
  <2>1. /\ UNCHANGED <<run, limit, stopping, received>> /\ task = "dispatching"
        /\ task' = IF todo' = <<>> THEN AfterEvent(stats.consumed) ELSE "dispatching"
        /\ stats'.consumed = stats.consumed /\ stats'.failed = stats.failed
    BY <1>5, HandleTyped DEF Handle, vars
  <2>2. limit # 0 /\ task' \in {"waiting", "next"} => stats.consumed < limit
    BY <1>1, <2>1 DEF AfterEvent
  <2>3. run > 0 => /\ Len(received[run]) = stats.consumed + stats.failed
                   /\ limit # 0 => stats.consumed <= limit
    BY <2>1 DEF Tallied, Iterating
  <2>4. QED
    BY <1>1, <2>1, <2>2, <2>3 DEF Tallied
<1>6. CASE Fetch \/ Handle \/ \E max \in Limits : Run(max)
  BY <1>3, <1>4, <1>5, <1>6
<1>7. CASE /\ ~Fetch /\ ~Handle /\ \A max \in Limits : ~Run(max)
  <2>1. run' = run /\ (run > 0 => received'[run] = received[run])
    BY <1>7, ReceivedKept
  <2>2. CASE BrokerStep \/ UNCHANGED allVars \/ RequestStop
    BY <1>2, <2>1, <2>2 DEF BrokerStep, RequestStop, allVars, consumerVars
  <2>3. CASE Leave \/ Await \/ Finish \/ CancelRun
    BY <1>2, <2>1, <2>3 DEF Leave, Await, Finish, CancelRun, Iterating
  <2>4. CASE \E h \in Handlers : On(h)
    BY <1>2, <2>1, <2>4 DEF On
  <2>5. QED
    BY <1>1, <1>7, <2>2, <2>3, <2>4, ConsumerKinds
<1>8. QED
  BY <1>6, <1>7

\* Each event costs each registered handler one error at most.
LEMMA ErrorsNext ==
  ASSUME BrokerInv, ConsumerShape, InDispatch, ErrorsBounded, [ConsumerNext]_allVars
  PROVE  ErrorsBounded'
<1> USE DEF ConsumerShape
<1> DEFINE k == Cardinality(Active)
           open == Cardinality(Elements(todo))
<1>1. /\ TypeOK /\ ConsumerTypeOK /\ InStep /\ stats \in ConsumerStats
      /\ stats.consumed \in Nat /\ stats.failed \in Nat /\ stats.errors \in Nat
      /\ k \in Nat /\ IsFiniteSet(Active)
  BY StatsFacts, ActiveFacts DEF ConsumerTypeOK, BrokerInv
<1>2. Elements(todo) \subseteq Active /\ IsFiniteSet(Elements(todo)) /\ open \in Nat
  <2>1. Elements(todo) \subseteq Active
    BY ElementsEmpty DEF ConsumerTypeOK, InDispatch, Interested
  <2>2. QED
    BY <1>1, <2>1, FS_Subset, FS_CardinalityType
<1>3. stats.errors + open <= stats.consumed * k
  BY DEF ErrorsBounded
<1>4. Cardinality(Elements(<<>>)) = 0
  BY ElementsEmpty, FS_EmptySet
<1>5. ASSUME UNCHANGED handlers, stats'.consumed = stats.consumed, stats'.errors = stats.errors,
             todo' = todo \/ todo' = <<>>
      PROVE  ErrorsBounded'
  <2>1. Active' = Active
    BY <1>5 DEF Active
  <2>2. Cardinality(Elements(todo')) \in {open, 0}
    BY <1>4, <1>5
  <2> HIDE DEF k, open
  <2>3. stats.errors <= stats.consumed * k
    <3>1. stats.consumed * k \in Nat
      BY <1>1
    <3>2. QED
      BY <1>1, <1>2, <1>3, <3>1
  <2>4. QED
    BY <1>1, <1>2, <1>3, <1>5, <2>1, <2>2, <2>3 DEF ErrorsBounded, k
<1>6. ASSUME NEW max \in Limits, Run(max)
      PROVE  ErrorsBounded'
  <2>1. todo' = <<>> /\ stats' = NoStats /\ Active' = Active
    BY <1>6 DEF Run, ConsumerTypeOK, Active
  <2>2. 0 * k = 0
    <3> HIDE DEF k
    <3>1. QED
      BY <1>1
  <2>3. QED
    BY <1>4, <2>1, <2>2 DEF ErrorsBounded, NoStats
<1>7. ASSUME NEW h \in Handlers, On(h)
      PROVE  ErrorsBounded'
  <2>1. Active' = Active \union {h} /\ h \notin Active /\ UNCHANGED <<stats, todo>>
    BY <1>7, OnTyped DEF On
  <2>2. Cardinality(Active') = k + 1
    BY <1>1, <2>1, FS_AddElement
  <2> HIDE DEF k, open
  <2>3. stats.consumed * (k + 1) = stats.consumed * k + stats.consumed /\ stats.consumed * k \in Nat
    BY <1>1
  <2>4. stats.errors + open <= stats.consumed * (k + 1)
    BY <1>1, <1>2, <1>3, <2>3
  <2>5. QED
    BY <2>1, <2>2, <2>4 DEF ErrorsBounded, open
<1>8. ASSUME Fetch
      PROVE  ErrorsBounded'
  <2>0. PICK o \in 0..(MaxPublish - 1) : o = Head(queue[run]) /\ o \in DOMAIN Content
    BY <1>1, <1>8, FetchedOffset, ConstantFacts
  <2>1. Accept(o) /\ UNCHANGED handlers /\ Active' = Active
    BY <1>8, <2>0 DEF Fetch, Active
  <2>2. CASE UNCHANGED todo /\ stats' \in {stats, [stats EXCEPT !.failed = @ + 1]}
    BY <1>1, <1>5, <2>1, <2>2, StatsFacts
  <2>3. CASE Dispatch(o)
    <3>1. stats'.consumed = stats.consumed + 1 /\ stats'.errors = stats.errors
      BY <1>1, <2>3, StatsFacts DEF Dispatch
    <3>2. Elements(todo') \subseteq Active
      BY <2>0, <2>3, InterestedFacts DEF Dispatch, Interested
    <3>3. Cardinality(Elements(todo')) <= k /\ Cardinality(Elements(todo')) \in Nat
      BY <1>1, <3>2, FS_Subset, FS_CardinalityType
    <3> DEFINE m == Cardinality(Elements(todo'))
    <3>4. m <= k /\ m \in Nat
      BY <3>3
    <3> HIDE DEF k, open, m
    <3>5. (stats.consumed + 1) * k = stats.consumed * k + k /\ stats.consumed * k \in Nat
      BY <1>1
    <3>6. stats.errors + m <= (stats.consumed + 1) * k
      BY <1>1, <1>2, <1>3, <3>4, <3>5
    <3>7. QED
      BY <2>1, <3>1, <3>6 DEF ErrorsBounded, k, m
  <2>4. QED
    BY <2>1, <2>2, <2>3, AcceptKinds
<1>9. ASSUME Handle
      PROVE  ErrorsBounded'
  <2>1. /\ stats'.consumed = stats.consumed /\ stats'.errors \in {stats.errors, stats.errors + 1}
        /\ UNCHANGED handlers /\ Active' = Active /\ task = "dispatching"
        /\ todo' = Tail(todo) /\ todo # <<>> /\ todo \in Seq(Handlers)
    BY <1>9, HandleTyped DEF Handle, Active, ConsumerTypeOK
  <2>2. Elements(todo') = Elements(todo) \ {Head(todo)} /\ Head(todo) \in Elements(todo)
    BY <2>1, ElementsTail DEF InDispatch
  <2>3. Cardinality(Elements(todo')) = open - 1
    BY <1>2, <2>2, FS_RemoveElement
  <2> DEFINE m == Cardinality(Elements(todo'))
  <2>4. m = open - 1
    BY <2>3
  <2> HIDE DEF k, open, m
  <2>5. stats'.errors + m <= stats.consumed * k
    <3>1. stats.consumed * k \in Nat
      BY <1>1
    <3>2. QED
      BY <1>1, <1>2, <1>3, <2>1, <2>4, <3>1
  <2>6. QED
    BY <2>1, <2>5 DEF ErrorsBounded, k, m
<1>10. CASE Fetch \/ Handle \/ (\E max \in Limits : Run(max)) \/ \E h \in Handlers : On(h)
  BY <1>6, <1>7, <1>8, <1>9, <1>10
<1>11. CASE BrokerStep \/ RequestStop \/ Leave \/ Await \/ Finish \/ CancelRun \/ UNCHANGED allVars
  BY <1>5, <1>11
  DEF BrokerStep, RequestStop, Leave, Await, Finish, CancelRun, allVars, consumerVars
<1>12. QED
  BY <1>1, <1>10, <1>11, ConsumerKinds

-----------------------------------------------------------------------------
\* A consumer that was never run has seen nothing.
LEMMA ConsumerInvInit == ConsumerInit => ConsumerInv
<1> SUFFICES ASSUME ConsumerInit
             PROVE  ConsumerInv
  OBVIOUS
<1> USE ElementsEmpty DEF ConsumerInit
<1>1. BrokerInv
  BY BrokerInvInit
<1>2. ConsumerTypeOK
  <2>1. NoStats \in ConsumerStats
    <3>1. -1 \in -1..(MaxPublish - 1)
      BY ConstantFacts
    <3>2. QED
      BY <3>1 DEF NoStats, ConsumerStats
  <2>2. 0 \in 0..Cardinality(Subs)
    BY ConstantFacts
  <2>3. QED
    BY <2>1, <2>2 DEF ConsumerTypeOK
<1>3. HistoriesTyped
  BY DEF HistoriesTyped
<1>4. InStep /\ HandlersKept /\ InDispatch
  BY DEF InStep, HandlersKept, InDispatch, Init
<1>5. DispatchOrder
  BY DEF DispatchOrder
<1>6. Active = {}
  BY ConstantFacts DEF Active
<1>7. Sightings /\ Tallied
  BY <1>6 DEF Sightings, Sighted, Tallied
<1>8. ErrorsBounded
  <2>1. Cardinality(Active) = 0 /\ Cardinality(Elements(todo)) = 0
    BY <1>6, FS_EmptySet
  <2>2. stats.errors = 0 /\ stats.consumed = 0
    BY DEF NoStats
  <2>3. QED
    BY <2>1, <2>2 DEF ErrorsBounded
<1>9. QED
  BY <1>1, <1>2, <1>3, <1>4, <1>5, <1>7, <1>8 DEF ConsumerInv, ConsumerShape

\* Every step keeps the invariant.
LEMMA ConsumerInvNext ==
  ASSUME ConsumerInv, [ConsumerNext]_allVars
  PROVE  ConsumerInv'
<1>1. [Next]_vars
  BY ConsumerStepsBroker DEF ConsumerInv, ConsumerShape
<1>2. BrokerInv'
  BY <1>1, TypeNext, DisciplinedNext, IncreasingNext, OncePerGroupNext, AccountsNext, CountedNext
  DEF ConsumerInv, BrokerInv
<1>3. ConsumerShape'
  BY TypedNext, InStepNext DEF ConsumerInv, ConsumerShape
<1>4. QED
  BY <1>2, <1>3, DispatchOrderNext, InDispatchNext, SightingsNext, TalliedNext, ErrorsNext
  DEF ConsumerInv

(***************************************************************************)
(* The consumer keeps its invariant through failing handlers, corrupt      *)
(* payloads, stops, cancellations and further runs.                        *)
(***************************************************************************)
THEOREM ConsumerInvariant == ConsumerSpec => []ConsumerInv
  BY ConsumerInvInit, ConsumerInvNext, PTL DEF ConsumerSpec

(***************************************************************************)
(* Nothing is handled twice, skipped or miscounted: every handler sees,    *)
(* once and in order, each event of its type dispatched since it was       *)
(* registered, unless that dispatch was cancelled; and the counters        *)
(* account for every message the generator yielded.                        *)
(***************************************************************************)
THEOREM DispatchAlwaysExact == ConsumerSpec => []DispatchExact
<1>1. ConsumerInv => DispatchExact
  <2> SUFFICES ASSUME ConsumerInv
               PROVE  DispatchExact
    OBVIOUS
  <2> USE DEF ConsumerInv, ConsumerShape
  <2>1. HandlersSeeEveryEvent
    BY ActiveFacts DEF Sightings, Sighted, DispatchOrder, HandlersSeeEveryEvent
  <2>2. TallyExact
    <3> DEFINE counted == stats.consumed + stats.failed
    <3>1. /\ stats.consumed \in Nat /\ stats.failed \in Nat /\ stats.errors \in Nat
      BY StatsFacts DEF ConsumerTypeOK
    <3>2. counted \in Nat
      BY <3>1
    <3>3. stats.errors <= stats.consumed * Cardinality(Active)
      <4> DEFINE open == Cardinality(Elements(todo))
                 most == stats.consumed * Cardinality(Active)
      <4>1. IsFiniteSet(Elements(todo))
        <5>1. Elements(todo) \subseteq Handlers
          BY ElementOfSeq DEF ConsumerTypeOK, Elements
        <5>2. QED
          BY <5>1, ConsumerAssumption, FS_Subset
      <4>2. open \in Nat /\ most \in Nat /\ stats.errors + open <= most
        BY <3>1, <4>1, ActiveFacts, FS_CardinalityType DEF ErrorsBounded
      <4> HIDE DEF open, most
      <4>3. stats.errors <= most
        BY <3>1, <4>2
      <4>4. QED
        BY <4>3 DEF most
    <3>4. run > 0 => Len(received[run]) \in counted..(IF stopping THEN counted + 1 ELSE counted)
      <4> HIDE DEF counted
      <4>1. run > 0 => \/ Len(received[run]) = counted
                       \/ Len(received[run]) = counted + 1 /\ stopping
        BY DEF Tallied, counted
      <4>2. QED
        BY <3>2, <4>1
    <3>5. run > 0 /\ limit # 0 => stats.consumed <= limit
      BY DEF Tallied
    <3>6. QED
      BY <3>3, <3>4, <3>5 DEF TallyExact
  <2>3. QED
    BY <2>1, <2>2 DEF DispatchExact
<1>2. QED
  BY <1>1, ConsumerInvariant, PTL

-----------------------------------------------------------------------------
(***************************************************************************)
(* The live command: one run of the consumer, while the main task goes     *)
(* from stage to stage.                                                    *)
(***************************************************************************)
Early == {"connect", "register", "spawn"}

Stages ==
  /\ main \in Early \union {"replaying", "flushing", "settling", "awaiting", "done"}
  /\ main \in Early => run = 0 /\ offset = 0 /\ task = "idle"
  /\ main \notin Early => run = 1
  /\ running <=> main \notin {"connect", "done"}
  /\ stopping => main \in {"awaiting", "done"}
  /\ drained => main \in {"settling", "awaiting", "done"}
  /\ main = "done" => task = "idle"
  /\ task # "cancelled"

\* --max-events bounds what is replayed.
ReplayBounded ==
  main \notin Early /\ limit # 0 =>
    offset <= limit /\ (main = "replaying" => offset < limit)

\* The one generator keeps its registration from the first offset on.
OwnsGroup ==
  run = 1 =>
    /\ since[1] = 0
    /\ running /\ pc[1] \in {"waiting", "holding", "abandoned"} => Registered(1)

\* Unless it was told to stop, the consumer leaves when all was replayed.
CaughtUp ==
  run = 1 /\ task \in {"leaving", "idle"} /\ ~stopping =>
    /\ limit # 0 /\ stats.consumed >= limit
    /\ dropped = 0 => stats.consumed + stats.failed = offset

\* What flush() found drained stays handled.
StaysDrained ==
  drained /\ dropped = 0 =>
    /\ stats.consumed + stats.failed = offset
    /\ Iterating => queue[1] = <<>>

LiveInv ==
  /\ ConsumerInv /\ Stages /\ ReplayBounded /\ OwnsGroup /\ CaughtUp /\ StaysDrained

\* A step of the command is a step of its consumer, or leaves it alone.
LEMMA LiveStepsConsumer ==
  ASSUME [LiveNext]_liveVars
  PROVE  [ConsumerNext]_allVars
  BY DEF LiveNext, MainTask, ConsumerTask, Connect, Register, Spawn, Replay, Flush, Settle,
         AwaitConsumer, liveVars, BrokerStep, ConsumerNext

\* While the consumer iterates, what it counted and what is queued add up.
LEMMA LiveCount ==
  ASSUME LiveInv, Iterating
  PROVE  /\ run = 1 /\ 1 \in Subs /\ running /\ Registered(1)
         /\ stats.consumed + stats.failed = Len(received[1])
         /\ Len(received[1]) \in Nat /\ Len(queue[1]) \in Nat
         /\ dropped = 0 => Len(received[1]) + Len(queue[1]) = offset
         /\ queue[1] # <<>> => Len(queue[1]) >= 1
<1> USE DEF LiveInv, ConsumerInv, ConsumerShape, BrokerInv
<1>1. run = 1 /\ running
  BY DEF Stages, Iterating
<1>2. 1 \in Subs
  BY <1>1, RunFacts
<1>3. Registered(1) /\ since[1] = 0
  BY <1>1 DEF OwnsGroup, InStep, Iterating
<1>4. stats.consumed + stats.failed = Len(received[1])
  BY <1>1 DEF Tallied
<1>5. Len(received[1]) \in Nat /\ Len(queue[1]) \in Nat /\ queue[1] \in Seq(Item)
      /\ Len(Stream(1)) = Len(received[1]) + Len(queue[1])
  BY <1>2, StreamIndex
<1>6. ASSUME dropped = 0
      PROVE  Len(received[1]) + Len(queue[1]) = offset
  <2>1. ShedPairs = {}
    <3>1. IsFiniteSet(Subs \X (0..MaxPublish))
      <4>1. IsFiniteSet(0..MaxPublish)
        BY BrokerAssumption, FS_Interval
      <4>2. QED
        BY <4>1, BrokerAssumption, FS_Product
    <3>2. IsFiniteSet(ShedPairs)
      BY <3>1, FS_Subset DEF ShedPairs
    <3>3. Cardinality(ShedPairs) = 0
      BY <1>6 DEF Counted
    <3>4. QED
      BY <3>2, <3>3, FS_EmptySet
  <2>2. shed[1] = {}
    <3>1. \A o \in shed[1] : o \in Nat /\ o < offset /\ offset <= MaxPublish /\ offset \in Nat
      BY <1>2 DEF TypeOK, Accounts, Account, Counted
    <3>2. \A o \in shed[1] : o \in 0..MaxPublish
      BY <3>1, BrokerAssumption
    <3>3. \A o \in shed[1] : <<1, o>> \in ShedPairs
      BY <1>2, <3>2 DEF ShedPairs
    <3>4. QED
      BY <2>1, <3>3
  <2>3. Len(Stream(1)) = offset - since[1]
    BY <1>2, <1>3, <2>2 DEF Accounts, Account
  <2>4. offset - since[1] = offset
    BY <1>3 DEF TypeOK
  <2>5. QED
    BY <1>5, <2>3, <2>4
<1>7. queue[1] # <<>> => Len(queue[1]) >= 1
  BY <1>5, EmptySeq
<1>8. QED
  BY <1>1, <1>2, <1>3, <1>4, <1>5, <1>6, <1>7

\* In the command the iterator never ends: nothing stops the broker before.
LEMMA LiveReceives ==
  ASSUME LiveInv, Receive
  PROVE  (Fetch \/ Await) /\ run = 1
<1> USE DEF LiveInv, ConsumerInv, ConsumerShape, BrokerInv
<1>1. Iterating
  BY DEF Receive, Iterating
<1>2. run = 1 /\ 1 \in Subs /\ running /\ Registered(1)
  BY <1>1, LiveCount
<1>3. queue[1] # <<>> => Head(queue[1]) # Sentinel
  <2>1. queue[1] \in Seq(Item)
    BY <1>2 DEF TypeOK
  <2>2. queue[1] # <<>> => 1 \in 1..Len(queue[1]) /\ Head(queue[1]) = queue[1][1]
    BY <2>1, LenProperties, EmptySeq, HeadTailProperties
  <2>3. QED
    BY <1>2, <2>2 DEF Disciplined, QueueDiscipline, NoSentinelWhileRegistered
<1>4. pc'[1] \in {"holding", "waiting"}
  <2>1. CASE Wake(1)
    BY <1>2, <1>3, <2>1 DEF Wake, Take, TypeOK
  <2>2. CASE Resume(1)
    BY <1>2, <1>3, <2>2 DEF Resume, Take, TypeOK
  <2>3. QED
    BY <1>2, <2>1, <2>2 DEF Receive
<1>5. ~Finish
  BY <1>2, <1>4 DEF Finish, End, Release, TypeOK
<1>6. QED
  BY <1>2, <1>5, ReceiveKinds

\* No message is refused twice: the counter of drops only grows.
LEMMA DroppedGrows ==
  ASSUME TypeOK, [Next]_vars, dropped' = 0
  PROVE  dropped = 0
<1>1. CASE Publish
  <2>1. Cardinality({s \in Subs : Registered(s) /\ Full(s)}) \in Nat
    BY BrokerAssumption, FS_Subset, FS_CardinalityType
  <2>2. QED
    BY <1>1, <2>1 DEF Publish, TypeOK
<1>2. QED
  BY <1>1, StepKinds DEF Start, Stop, Join, Park, Yield, End, Abandon, vars

(***************************************************************************)
(* A step of the main task.                                                *)
(***************************************************************************)
LiveKept == Stages' /\ ReplayBounded' /\ OwnsGroup' /\ CaughtUp' /\ StaysDrained'

\* Before the consumer runs.
LEMMA EarlyStep ==
  ASSUME LiveInv, Connect \/ Register
  PROVE  LiveKept
<1>1. run = 0 /\ run' = 0 /\ offset' = 0 /\ task' = "idle" /\ drained' = FALSE
  BY DEF LiveInv, Stages, Early, Connect, Register, Start, On, vars, consumerVars
<1>2. main' \in {"register", "spawn"} /\ running' /\ stopping' = FALSE
  BY DEF LiveInv, Stages, Early, Connect, Register, Start, On, vars, consumerVars
<1>3. QED
  BY <1>1, <1>2
  DEF LiveKept, Stages, Early, ReplayBounded, OwnsGroup, CaughtUp, StaysDrained

\* The consumer subscribes before anything is published.
LEMMA SpawnStep ==
  ASSUME LiveInv, Spawn
  PROVE  LiveKept
<1> USE DEF LiveInv, ConsumerInv, ConsumerShape, BrokerInv
<1>1. PICK max \in Limits : Run(max)
  BY DEF Spawn
<1>2. /\ run = 0 /\ offset = 0 /\ running /\ ~stopping /\ drained = FALSE
      /\ main' = "replaying" /\ drained' = FALSE
  BY DEF Stages, Early, Spawn
<1>3. 1 \in Subs /\ GroupOf[1] \in Groups
  BY <1>1, <1>2, RunKinds, BrokerAssumption
<1>4. run' = 1 /\ Subscribe(1) /\ task' = "waiting" /\ stopping' = FALSE /\ limit' = max /\ max \in Nat
  BY <1>1, <1>2, ConsumerAssumption DEF Run
<1>5. /\ since'[1] = 0 /\ registry'[GroupOf[1]] = 1 /\ offset' = 0 /\ running'
  BY <1>2, <1>3, <1>4 DEF Subscribe, TypeOK
<1>6. QED
  BY <1>2, <1>4, <1>5
  DEF LiveKept, Stages, Early, ReplayBounded, OwnsGroup, CaughtUp, StaysDrained, Registered

\* One more event, as long as max_events allows.
LEMMA ReplayStep ==
  ASSUME LiveInv, Replay
  PROVE  LiveKept
<1> USE DEF LiveInv, ConsumerInv, ConsumerShape, BrokerInv
<1>1. /\ main = "replaying" /\ run = 1 /\ running /\ ~stopping /\ drained = FALSE
      /\ offset \in Nat /\ offset' = offset + 1 /\ limit \in Nat
      /\ UNCHANGED <<task, run, limit, stopping, stats, running, registry, pc, since, drained>>
  BY ConsumerAssumption
  DEF Stages, Early, Replay, Publish, consumerVars, TypeOK, ConsumerTypeOK
<1>2. main' = IF offset' = MaxPublish \/ (limit # 0 /\ offset' >= limit) THEN "flushing" ELSE "replaying"
  BY DEF Replay
<1>3. Stages'
  BY <1>1, <1>2 DEF Stages, Early
<1>4. limit # 0 => offset < limit
  BY <1>1 DEF ReplayBounded, Early
<1>5. ReplayBounded'
  BY <1>1, <1>2, <1>4 DEF ReplayBounded
<1>6. OwnsGroup'
  BY <1>1 DEF OwnsGroup, Registered
<1>7. CaughtUp'
  <2>1. dropped' = 0 => dropped = 0
    BY DroppedGrows DEF Replay, Next
  <2>2. SUFFICES ASSUME task \in {"leaving", "idle"}, dropped' = 0
                 PROVE  FALSE
    BY <1>1 DEF CaughtUp
  <2>3. limit # 0 /\ stats.consumed >= limit /\ stats.consumed + stats.failed = offset
    BY <1>1, <2>1, <2>2 DEF CaughtUp
  <2>4. stats.consumed \in Nat /\ stats.failed \in Nat
    BY StatsFacts DEF ConsumerTypeOK
  <2>5. QED
    BY <1>1, <1>4, <2>3, <2>4
<1>8. StaysDrained'
  BY <1>1 DEF StaysDrained
<1>9. QED
  BY <1>3, <1>5, <1>6, <1>7, <1>8 DEF LiveKept

\* flush() finds the one queue empty, or not.
LEMMA FlushStep ==
  ASSUME LiveInv, Flush
  PROVE  LiveKept
<1> USE DEF LiveInv, ConsumerInv, ConsumerShape, BrokerInv
<1>1. /\ main = "flushing" /\ run = 1 /\ running /\ ~stopping /\ drained = FALSE
      /\ UNCHANGED allVars /\ main' \in {"flushing", "settling"}
      /\ drained' => main' = "settling" /\ \A g \in Groups : Pending[g] = 0
  BY DEF Stages, Early, Flush
<1>2. Stages' /\ ReplayBounded' /\ OwnsGroup' /\ CaughtUp'
  BY <1>1
  DEF Stages, Early, ReplayBounded, OwnsGroup, CaughtUp, Registered, allVars, vars, consumerVars
<1>3. ASSUME drained', dropped = 0
      PROVE  /\ stats.consumed + stats.failed = offset
             /\ Iterating => queue[1] = <<>>
  <2>1. CASE Iterating
    <3>1. /\ 1 \in Subs /\ GroupOf[1] \in Groups /\ registry[GroupOf[1]] = 1 /\ 1 # None
          /\ queue[1] \in Seq(Item)
      BY <2>1, LiveCount, BrokerAssumption DEF Registered, TypeOK
    <3>2. Len(queue[1]) = 0
      BY <1>1, <1>3, <3>1 DEF Pending
    <3>3. queue[1] = <<>>
      BY <3>1, <3>2, EmptySeq
    <3>4. QED
      BY <1>3, <2>1, <3>2, <3>3, LiveCount
  <2>2. CASE ~Iterating
    <3>1. task \in {"leaving", "idle"}
      BY <2>2 DEF Stages, Iterating, ConsumerTypeOK
    <3>2. QED
      BY <1>1, <1>3, <2>2, <3>1 DEF CaughtUp
  <2>3. QED
    BY <2>1, <2>2
<1>4. StaysDrained'
  BY <1>1, <1>3 DEF StaysDrained, Iterating, allVars, vars, consumerVars
<1>5. QED
  BY <1>2, <1>4 DEF LiveKept

\* The consumer is asked to stop, and awaited.
LEMMA EndStep ==
  ASSUME LiveInv, Settle \/ AwaitConsumer
  PROVE  LiveKept
<1> USE DEF LiveInv, ConsumerInv, ConsumerShape, BrokerInv
<1>1. /\ run = 1 /\ UNCHANGED <<task, run, limit, stats, offset, pc, since, dropped, drained>>
      /\ (Settle => stopping' /\ UNCHANGED <<queue, registry, running>>)
      /\ (AwaitConsumer => UNCHANGED stopping /\ ~running' /\ task = "idle")
      /\ main \in {"settling", "awaiting"} /\ main' \in {"awaiting", "done"}
      /\ (main' = "done" <=> AwaitConsumer)
  BY DEF Stages, Early, Settle, AwaitConsumer, RequestStop, Stop, consumerVars, vars
<1>2. Stages'
  BY <1>1 DEF Stages, Early
<1>3. ReplayBounded' /\ CaughtUp'
  BY <1>1 DEF ReplayBounded, CaughtUp, Early
<1>4. OwnsGroup'
  BY <1>1 DEF OwnsGroup, Registered
<1>5. StaysDrained'
  BY <1>1 DEF StaysDrained, Iterating
<1>6. QED
  BY <1>2, <1>3, <1>4, <1>5 DEF LiveKept

(***************************************************************************)
(* A step of the consumer's task.                                          *)
(***************************************************************************)
LEMMA ConsumerTaskStep ==
  ASSUME LiveInv, ConsumerTask
  PROVE  LiveKept
<1> USE DEF LiveInv, ConsumerInv, ConsumerShape, BrokerInv
<1>1. /\ UNCHANGED <<main, busy, drained>> /\ stats \in ConsumerStats
      /\ stats.consumed \in Nat /\ stats.failed \in Nat /\ limit \in Nat /\ offset \in Nat
  <2>1. stats \in ConsumerStats
    BY DEF ConsumerTypeOK
  <2>2. limit \in Nat /\ offset \in Nat
    BY ConsumerAssumption DEF ConsumerTypeOK, TypeOK
  <2>3. QED
    BY <2>1, <2>2, StatsFacts DEF ConsumerTask, mainVars
<1>2. CASE Receive
  <2>1. run = 1 /\ 1 \in Subs /\ running /\ Registered(1) /\ main \notin Early /\ (Fetch \/ Await)
    BY <1>2, LiveReceives, LiveCount DEF Receive, Iterating, Stages, Early
  <2>2. /\ UNCHANGED <<run, limit, stopping, running, registry, offset, dropped, since>>
        /\ pc'[1] \in {"holding", "waiting"}
    BY <2>1 DEF Fetch, Await, Yield, Park, TypeOK
  <2>3. task' \notin {"idle", "cancelled"} /\ main # "done"
    BY <1>2, <2>1, AfterEventTyped DEF Fetch, Accept, Await, Receive, Stages
  <2>4. Stages' /\ ReplayBounded' /\ OwnsGroup'
    BY <1>1, <2>1, <2>2, <2>3 DEF Stages, Early, ReplayBounded, OwnsGroup, Registered
  <2>5. CASE Await
    <3>1. task' = "waiting" /\ task = "next" /\ UNCHANGED <<stats, queue>>
      BY <2>5 DEF Await, Park
    <3>2. QED
      BY <1>1, <2>2, <2>4, <3>1 DEF LiveKept, CaughtUp, StaysDrained, Iterating
  <2>6. CASE Fetch
    <3>0. PICK o \in 0..(MaxPublish - 1) : o = Head(queue[run])
      BY <2>6, FetchedOffset, ConstantFacts
    <3>1. /\ stats.consumed + stats.failed = Len(received[1]) /\ Len(received[1]) \in Nat
          /\ Len(queue[1]) \in Nat /\ Len(queue[1]) >= 1 /\ queue[1] # <<>>
          /\ dropped = 0 => Len(received[1]) + Len(queue[1]) = offset
          /\ Accept(o) /\ Iterating
      BY <2>1, <2>6, <3>0, LiveCount DEF Fetch, Yield, Iterating
    <3>2. StaysDrained'
      BY <1>1, <2>2, <3>1 DEF StaysDrained
    <3>3. CaughtUp'
      <4>1. SUFFICES ASSUME task' = "leaving", ~stopping
                     PROVE  /\ limit # 0 /\ stats'.consumed >= limit
                            /\ dropped = 0 => stats'.consumed + stats'.failed = offset
        BY <2>2, <2>3 DEF CaughtUp
      <4>2. Dispatch(o)
        BY <3>1, <4>1, AcceptKinds
      <4>3. stats'.consumed = stats.consumed + 1 /\ stats'.failed = stats.failed
        BY <1>1, <4>2, StatsFacts DEF Dispatch
      <4>4. AfterEvent(stats.consumed + 1) = "leaving"
        BY <4>1, <4>2, <4>3 DEF Dispatch
      <4>5. limit # 0 /\ stats.consumed + 1 >= limit
        BY <4>4 DEF AfterEvent
      <4>6. offset <= limit
        BY <2>1, <4>5 DEF ReplayBounded
      <4>7. ASSUME dropped = 0
            PROVE  (stats.consumed + 1) + stats.failed = offset
        <5>1. PICK rest \in Nat : Len(queue[1]) = rest + 1
          <6>1. Len(queue[1]) - 1 \in Nat /\ Len(queue[1]) = (Len(queue[1]) - 1) + 1
            BY <3>1
          <6>2. QED
            BY <6>1
        <5>2. (stats.consumed + stats.failed) + (rest + 1) = offset
          BY <3>1, <4>7, <5>1
        <5>3. QED
          BY <1>1, <4>5, <4>6, <5>1, <5>2
      <4>8. QED
        BY <4>3, <4>5, <4>7
    <3>4. QED
      BY <2>4, <3>2, <3>3 DEF LiveKept
  <2>7. QED
    BY <2>1, <2>5, <2>6
<1>3. CASE Handle
  <2>1. /\ Iterating /\ task = "dispatching"
        /\ UNCHANGED <<run, limit, stopping, running, registry, offset, dropped, since, pc, queue>>
        /\ stats'.consumed = stats.consumed /\ stats'.failed = stats.failed
        /\ task' = IF todo' = <<>> THEN AfterEvent(stats.consumed) ELSE "dispatching"
    BY <1>3, HandleTyped DEF Handle, vars, Iterating
  <2>2. /\ run = 1 /\ running /\ Registered(1) /\ main \notin Early /\ main # "done"
        /\ stats.consumed + stats.failed = Len(received[1]) /\ Len(received[1]) \in Nat
        /\ Len(queue[1]) \in Nat
        /\ dropped = 0 => Len(received[1]) + Len(queue[1]) = offset
    BY <2>1, LiveCount DEF Stages, Early
  <2>3. task' \in {"dispatching", "leaving", "next"}
    BY <2>1, AfterEventTyped
  <2>4. Stages' /\ ReplayBounded' /\ OwnsGroup'
    BY <1>1, <2>1, <2>2, <2>3 DEF Stages, Early, ReplayBounded, OwnsGroup, Registered
  <2>5. StaysDrained'
    BY <1>1, <2>1 DEF StaysDrained
  <2>6. CaughtUp'
    <3>1. SUFFICES ASSUME task' = "leaving", ~stopping
                   PROVE  /\ limit # 0 /\ stats.consumed >= limit
                          /\ dropped = 0 => stats.consumed + stats.failed = offset
      BY <2>1, <2>3 DEF CaughtUp
    <3>2. limit # 0 /\ stats.consumed >= limit
      BY <2>1, <3>1 DEF AfterEvent
    <3>3. offset <= limit
      BY <2>2, <3>2 DEF ReplayBounded
    <3>4. ASSUME dropped = 0
          PROVE  stats.consumed + stats.failed = offset
      <4>1. (stats.consumed + stats.failed) + Len(queue[1]) = offset
        BY <2>2, <3>4
      <4>2. QED
        BY <1>1, <2>2, <3>2, <3>3, <4>1
    <3>5. QED
      BY <3>2, <3>4
  <2>7. QED
    BY <2>4, <2>5, <2>6 DEF LiveKept
<1>4. CASE Leave
  <2>1. /\ task = "leaving" /\ task' = "idle" /\ run \in Subs /\ run > 0
        /\ UNCHANGED <<run, limit, stopping, stats, running, registry, offset, dropped, since, queue>>
        /\ pc' = [pc EXCEPT ![run] = "abandoned"] /\ pc[run] = "holding"
    BY <1>4, RunFacts DEF Leave, Abandon, InStep
  <2>2. run = 1 /\ main \notin Early /\ main # "done"
    BY <2>1 DEF Stages, Early
  <2>3. Stages' /\ ReplayBounded'
    BY <1>1, <2>1, <2>2 DEF Stages, Early, ReplayBounded
  <2>4. OwnsGroup'
    BY <2>1, <2>2 DEF OwnsGroup, Registered, TypeOK
  <2>5. CaughtUp' /\ StaysDrained'
    BY <1>1, <2>1 DEF CaughtUp, StaysDrained, Iterating
  <2>6. QED
    BY <2>3, <2>4, <2>5 DEF LiveKept
<1>5. ASSUME NEW s \in Subs, Finalise(s), UNCHANGED consumerVars
      PROVE  LiveKept
  <2>1. UNCHANGED <<task, run, limit, stopping, stats, running, offset, dropped, since>>
    BY <1>5 DEF Finalise, consumerVars
  <2>2. Stages' /\ ReplayBounded' /\ CaughtUp'
    BY <1>1, <2>1 DEF Stages, ReplayBounded, CaughtUp, Early
  <2>3. run = 1 => s = 1
    <3>1. pc[s] = "abandoned" /\ ~(s > run) /\ s \in Nat \ {0}
      BY <1>5, ConstantFacts DEF Finalise, InStep
    <3>2. QED
      BY <3>1
  <2>4. OwnsGroup'
    BY <1>5, <2>1, <2>3 DEF OwnsGroup, Finalise, Release, TypeOK
  <2>5. StaysDrained'
    <3>1. Iterating => run = 1 /\ queue'[1] \in {queue[1], <<>>}
      BY <1>5, LiveCount DEF Finalise, Release, TypeOK
    <3>2. QED
      BY <1>1, <2>1, <3>1 DEF StaysDrained, Iterating
  <2>6. QED
    BY <2>2, <2>4, <2>5 DEF LiveKept
<1>6. QED
  BY <1>2, <1>3, <1>4, <1>5 DEF ConsumerTask

(***************************************************************************)
(* If flush() returned 0, what the consumer counted when the command ends  *)
(* is what was published.                                                  *)
(***************************************************************************)
THEOREM DrainedAlwaysHandled == LiveSpec => []DrainedMeansHandled
<1>1. LiveInit => LiveInv
  <2> SUFFICES ASSUME LiveInit
               PROVE  LiveInv
    OBVIOUS
  <2>1. ConsumerInv
    BY ConsumerInvInit DEF LiveInit
  <2>2. /\ main = "connect" /\ run = 0 /\ offset = 0 /\ task = "idle" /\ running = FALSE
        /\ stopping = FALSE /\ drained = FALSE
    BY DEF LiveInit, ConsumerInit, Init
  <2>3. QED
    BY <2>1, <2>2
    DEF LiveInv, Stages, Early, ReplayBounded, OwnsGroup, CaughtUp, StaysDrained
<1>2. LiveInv /\ [LiveNext]_liveVars => LiveInv'
  <2> SUFFICES ASSUME LiveInv, [LiveNext]_liveVars
               PROVE  LiveInv'
    OBVIOUS
  <2>1. ConsumerInv'
    BY LiveStepsConsumer, ConsumerInvNext DEF LiveInv
  <2>2. CASE LiveNext
    <3>1. LiveKept
      BY <2>2, EarlyStep, SpawnStep, ReplayStep, FlushStep, EndStep, ConsumerTaskStep
      DEF LiveNext, MainTask
    <3>2. QED
      BY <2>1, <3>1 DEF LiveInv, LiveKept
  <2>3. CASE UNCHANGED liveVars
    BY <2>1, <2>3
    DEF LiveInv, Stages, ReplayBounded, OwnsGroup, CaughtUp, StaysDrained, Iterating, Registered,
        liveVars, allVars, vars, consumerVars, mainVars
  <2>4. QED
    BY <2>2, <2>3
<1>3. LiveInv => DrainedMeansHandled
  BY DEF LiveInv, StaysDrained, DrainedMeansHandled
<1>4. QED
  BY <1>1, <1>2, <1>3, PTL DEF LiveSpec

=============================================================================
