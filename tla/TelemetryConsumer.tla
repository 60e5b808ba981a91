------------------------- MODULE TelemetryConsumer -------------------------
(***************************************************************************)
(* stream/consumer.py on the in-memory broker: one TelemetryConsumer, its  *)
(* successive calls of run(), and the handlers it dispatches to.           *)
(*                                                                         *)
(* The n-th run() iterates the n-th generator of the broker, so the steps  *)
(* of the run loop are joint steps with InMemoryBroker: what the generator *)
(* does is read off pc' and received', and the loop reacts in that step.   *)
(*                                                                         *)
(*   idle         run() was not called, or has returned                    *)
(*   waiting      suspended with the generator in queue.get()              *)
(*   dispatching  suspended in a handler                                   *)
(*   next         the loop body is over; the generator is resumed next     *)
(*   leaving      the loop is left by `break`                              *)
(*   cancelled    the task running run() was cancelled                     *)
(***************************************************************************)
EXTENDS InMemoryBroker

CONSTANTS
  Handlers,  \* the coroutines that may be registered
  Wants,     \* the event type each is registered for, or Every
  Every,     \* registered with None: every event
  Content,   \* offset -> event type of the payload, or Malformed
  Malformed, \* parse_event raises ValidationError
  Limits     \* values of max_events; 0 stands for None

ASSUME ConsumerAssumption ==
  /\ Subs = 1..Cardinality(Subs)
  /\ IsFiniteSet(Handlers)
  /\ DOMAIN Content = 0..(MaxPublish - 1)
  /\ \A o \in DOMAIN Content : Content[o] # Every
  /\ Limits \subseteq Nat

VARIABLES
  task,        \* where the call of run() is
  run,         \* calls of run() so far: the generator in use
  limit,       \* max_events of this run
  stopping,    \* _stop_event
  stats,       \* _stats
  handlers,    \* _handlers: per event type, what is registered, in that order
  todo,        \* handlers of the current event still to be awaited
  dispatched,  \* history: offsets given to _dispatch, over all runs
  interrupted, \* history: offsets whose dispatch was cancelled
  joined,      \* history: per handler, Len(dispatched) when it registered
  seen         \* history: per handler, the offsets it was invoked with

consumerVars == <<task, run, limit, stopping, stats, handlers, todo,
                  dispatched, interrupted, joined, seen>>

allVars == <<vars, consumerVars>>

ConsumerStats == [consumed : Nat, failed : Nat, errors : Nat, last : -1..(MaxPublish - 1)]

NoStats == [consumed |-> 0, failed |-> 0, errors |-> 0, last |-> -1]

\* The keys _handlers may have.
Types == {Wants[h] : h \in Handlers} \union {Content[o] : o \in DOMAIN Content} \union {Every}

ConsumerInit ==
  /\ Init
  /\ task = "idle" /\ run = 0 /\ limit = 0 /\ stopping = FALSE
  /\ stats = NoStats
  /\ handlers = [type \in Types |-> <<>>] /\ todo = <<>>
  /\ dispatched = <<>> /\ interrupted = {}
  /\ joined = [h \in Handlers |-> 0]
  /\ seen = [h \in Handlers |-> <<>>]

-----------------------------------------------------------------------------
\* Those registered for the type, then those registered for every event.
HandlersFor(type) == handlers[type] \o handlers[Every]

Elements(seq) == {seq[i] : i \in 1..Len(seq)}

\* Mutant: off by one in the test of max_events.
AfterEventTooLate(consumed) ==
  IF limit # 0 /\ consumed > limit THEN "leaving" ELSE "next"

\* The end of the loop body.
AfterEvent(consumed) ==
  IF limit # 0 /\ consumed >= limit THEN "leaving" ELSE "next"

\* on(); no handler is registered twice.
On(h) ==
  /\ h \notin Elements(handlers[Wants[h]])
  /\ handlers' = [handlers EXCEPT ![Wants[h]] = Append(@, h)]
  /\ joined' = [joined EXCEPT ![h] = Len(dispatched)]
  /\ UNCHANGED <<vars, task, run, limit, stopping, stats, todo, dispatched,
                 interrupted, seen>>

\* stop()
RequestStop ==
  /\ ~stopping
  /\ stopping' = TRUE
  /\ UNCHANGED <<vars, task, run, limit, stats, handlers, todo, dispatched,
                 interrupted, joined, seen>>

\* run() up to its first suspension: a stop requested earlier is forgotten.
Run(max) ==
  /\ task \in {"idle", "cancelled"}
  /\ run + 1 \in Subs
  /\ run' = run + 1
  /\ limit' = max
  /\ stopping' = FALSE
  /\ stats' = NoStats
  /\ Subscribe(run + 1)
  /\ task' = IF running THEN "waiting" ELSE "idle"
  /\ UNCHANGED <<handlers, todo, dispatched, interrupted, joined, seen>>

\* Mutant: a malformed payload ends the run.
AcceptOrBreak(o) ==
  \/ /\ stopping \/ Content[o] = Malformed
     /\ task' = "leaving"
     /\ UNCHANGED <<stats, todo, dispatched>>
  \/ /\ ~stopping /\ Content[o] # Malformed
     /\ stats' = [stats EXCEPT !.consumed = @ + 1, !.last = o]
     /\ todo' = HandlersFor(Content[o])
     /\ dispatched' = Append(dispatched, o)
     /\ task' = IF todo' = <<>> THEN AfterEvent(stats'.consumed) ELSE "dispatching"

\* The loop body up to the first handler.
Accept(o) ==
  \/ /\ stopping
     /\ task' = "leaving"
     /\ UNCHANGED <<stats, todo, dispatched>>
  \/ /\ ~stopping
     /\ Content[o] = Malformed
     /\ stats' = [stats EXCEPT !.failed = @ + 1]
     /\ task' = "next"
     /\ UNCHANGED <<todo, dispatched>>
  \/ /\ ~stopping
     /\ Content[o] # Malformed
     /\ stats' = [stats EXCEPT !.consumed = @ + 1, !.last = o]
     /\ todo' = HandlersFor(Content[o])
     /\ dispatched' = Append(dispatched, o)
     /\ task' = IF todo' = <<>> THEN AfterEvent(stats'.consumed) ELSE "dispatching"

\* The generator runs to its next suspension, and the loop reacts.
Receive ==
  /\ \/ task = "waiting" /\ Wake(run)
     \/ task = "next" /\ Resume(run)
  /\ \/ /\ pc'[run] = "holding"
        /\ Accept(received'[run][Len(received'[run])])
     \/ /\ pc'[run] = "waiting"
        /\ task' = "waiting"
        /\ UNCHANGED <<stats, todo, dispatched>>
     \/ /\ pc'[run] = "closed"
        /\ task' = "idle"
        /\ UNCHANGED <<stats, todo, dispatched>>
  /\ UNCHANGED <<run, limit, stopping, handlers, interrupted, joined, seen>>

\* Mutant: the try statement is outside the loop over the handlers.
HandleUntilError ==
  /\ task = "dispatching"
  /\ \E raises \in BOOLEAN :
       /\ stats' = [stats EXCEPT !.errors = IF raises THEN @ + 1 ELSE @]
       /\ todo' = IF raises THEN <<>> ELSE Tail(todo)
  /\ seen' = [seen EXCEPT ![Head(todo)] = Append(@, stats.last)]
  /\ task' = IF todo' = <<>> THEN AfterEvent(stats.consumed) ELSE "dispatching"
  /\ UNCHANGED <<vars, run, limit, stopping, handlers, dispatched, interrupted, joined>>

\* One handler is awaited; what it raises is counted and logged.
Handle ==
  /\ task = "dispatching"
  /\ \E raises \in BOOLEAN :
       stats' = [stats EXCEPT !.errors = IF raises THEN @ + 1 ELSE @]
  /\ seen' = [seen EXCEPT ![Head(todo)] = Append(@, stats.last)]
  /\ todo' = Tail(todo)
  /\ task' = IF todo' = <<>> THEN AfterEvent(stats.consumed) ELSE "dispatching"
  /\ UNCHANGED <<vars, run, limit, stopping, handlers, dispatched, interrupted, joined>>

\* run() returns; the generator is closed later, by the event loop.
Leave ==
  /\ task = "leaving"
  /\ Abandon(run)
  /\ task' = "idle"
  /\ UNCHANGED <<run, limit, stopping, stats, handlers, todo, dispatched,
                 interrupted, joined, seen>>

\* CancelledError is not an Exception: it passes through _dispatch and run().
CancelRun ==
  /\ \/ /\ task = "waiting"
        /\ Cancel(run)
        /\ UNCHANGED interrupted
     \/ /\ task = "dispatching"
        /\ Abandon(run)
        /\ interrupted' = interrupted \union {stats.last}
  /\ task' = "cancelled"
  /\ todo' = <<>>
  /\ UNCHANGED <<run, limit, stopping, stats, handlers, dispatched, joined, seen>>

\* What the broker does beside this consumer.
BrokerStep ==
  /\ Start \/ Stop \/ Publish \/ \E s \in Subs : Finalise(s)
  /\ UNCHANGED consumerVars

ConsumerNext ==
  \/ BrokerStep
  \/ \E h \in Handlers : On(h)
  \/ RequestStop
  \/ \E max \in Limits : Run(max)
  \/ Receive
  \/ Handle
  \/ Leave
  \/ CancelRun

ConsumerSpec == ConsumerInit /\ [][ConsumerNext]_allVars

\* A generator advances or closes.
Progress == BrokerStep /\ \E s \in Subs : pc[s] # pc'[s]

\* Tasks that can run do run, and handlers return.  Nobody has to publish,
\* stop, cancel, or call run() again.
ConsumerFairSpec ==
  /\ ConsumerSpec
  /\ WF_allVars(Receive) /\ WF_allVars(Handle) /\ WF_allVars(Leave)
  /\ WF_allVars(Progress)

-----------------------------------------------------------------------------
Iterating == task \in {"waiting", "dispatching", "next"}

ConsumerTypeOK ==
  /\ task \in {"idle", "waiting", "dispatching", "next", "leaving", "cancelled"}
  /\ run \in 0..Cardinality(Subs)
  /\ limit \in Limits \union {0}
  /\ stopping \in BOOLEAN
  /\ stats \in ConsumerStats
  /\ handlers \in [Types -> Seq(Handlers)]
  /\ todo \in Seq(Handlers)
  /\ todo # <<>> <=> task = "dispatching"

Active == {h \in Handlers : h \in Elements(handlers[Wants[h]])}

Increasing(seq) == \A i, j \in 1..Len(seq) : i < j => seq[i] < seq[j]

\* The events of its type dispatched since a handler was registered.
Due(h) ==
  {dispatched[i] : i \in
     {k \in joined[h] + 1..Len(dispatched) : Wants[h] \in {Content[dispatched[k]], Every}}}

\* The event a handler is still to be awaited with.
Awaiting(h) == IF h \in Elements(todo) THEN {stats.last} ELSE {}

(***************************************************************************)
(* "One bad handler must not take down the pipeline": whatever the others  *)
(* raise, and whenever it was registered, a handler is invoked exactly     *)
(* once, in stream order, with each event of its type that was dispatched  *)
(* since; only an event whose dispatch was cancelled may be missing.       *)
(***************************************************************************)
HandlersSeeEveryEvent ==
  /\ Increasing(dispatched)
  /\ \A h \in Active :
       /\ Increasing(seen[h]) /\ Elements(seen[h]) \subseteq Due(h)
       /\ Due(h) \ (interrupted \union Elements(seen[h])) = Awaiting(h)

(***************************************************************************)
(* The counters of a run account for every message its generator yielded:  *)
(* each was consumed or malformed, except the one that is discarded when a *)
(* stop was requested; a run never handles more than max_events; no more   *)
(* errors than invocations.                                                *)
(***************************************************************************)
TallyExact ==
  /\ ConsumerTypeOK
  /\ run > 0 =>
    LET taken == Len(received[run])
        counted == stats.consumed + stats.failed
    IN /\ taken \in counted..(IF stopping THEN counted + 1 ELSE counted)
       /\ limit # 0 => stats.consumed <= limit
       /\ stats.errors <= stats.consumed * Cardinality(Active)

(***************************************************************************)
(* Nothing is handled twice, skipped or miscounted: HandlersSeeEveryEvent  *)
(* and TallyExact.                                                         *)
(***************************************************************************)
DispatchExact == HandlersSeeEveryEvent /\ TallyExact

(***************************************************************************)
(* A well-formed event that reached the queue of an unlimited run is       *)
(* dispatched, whatever precedes it (malformed payloads, failing handlers),*)
(* unless someone ends the run.                                            *)
(***************************************************************************)
QueuedEventIsDispatched ==
  \A o \in DOMAIN Content :
    (run > 0 /\ Iterating /\ limit = 0 /\ Content[o] # Malformed /\ o \in Offsets(queue[run]))
      ~> (\/ \E i \in 1..Len(dispatched) : dispatched[i] = o
          \/ stopping \/ ~running \/ task = "cancelled")
=============================================================================
