---------------------------- MODULE LivePipeline ----------------------------
(***************************************************************************)
(* cli.py `live`: one process that replays a match onto the in-memory      *)
(* broker while a consumer reads it back, then asks the consumer to stop   *)
(* and waits for it.  The replayer (producer/replay.py) and flush() run in *)
(* the main task, the consumer in another.                                 *)
(*                                                                         *)
(* The replayer suspends only after a tick: between two ticks it publishes *)
(* a burst during which no other task runs (`busy`).                       *)
(***************************************************************************)
EXTENDS TelemetryConsumer

CONSTANT Ticks \* the offsets that carry a tick

ASSUME LiveAssumption == Ticks \subseteq DOMAIN Content

VARIABLES
  main,   \* where the main task is
  busy,   \* it has not suspended since the last event it published
  drained \* flush() returned 0

mainVars == <<main, busy, drained>>
liveVars == <<allVars, mainVars>>

LiveInit ==
  /\ ConsumerInit
  /\ main = "connect" /\ busy = FALSE /\ drained = FALSE

-----------------------------------------------------------------------------
\* The `async with` block is entered.
Connect ==
  /\ main = "connect" /\ main' = "register"
  /\ Start
  /\ UNCHANGED <<consumerVars, busy, drained>>

Register ==
  /\ main = "register" /\ main' = "spawn"
  /\ \E h \in Handlers : On(h)
  /\ UNCHANGED <<busy, drained>>

\* create_task, and the short sleep in which the consumer subscribes.
Spawn ==
  /\ main = "spawn" /\ main' = "replaying"
  /\ \E max \in Limits : Run(max)
  /\ UNCHANGED <<busy, drained>>

\* One turn of the loop of replay(); max_events bounds it as well.
Replay ==
  /\ main = "replaying"
  /\ Publish
  /\ busy' = (offset \notin Ticks)
  /\ main' = IF offset' = MaxPublish \/ (limit # 0 /\ offset' >= limit)
               THEN "flushing" ELSE "replaying"
  /\ UNCHANGED <<consumerVars, drained>>

\* Mutant: replay() returns without waiting for the queues.
FlushAtOnce ==
  /\ main = "flushing" /\ main' = "settling"
  /\ drained' = TRUE
  /\ busy' = FALSE
  /\ UNCHANGED allVars

\* One turn of the loop of flush(), or its deadline.
Flush ==
  LET pending == \E g \in Groups : Pending[g] # 0 IN
  /\ main = "flushing"
  /\ \/ ~pending /\ drained' = TRUE /\ main' = "settling"
     \/ pending /\ busy /\ UNCHANGED <<main, drained>>
     \/ pending /\ ~busy /\ main' = "settling" /\ UNCHANGED drained
  /\ busy' = FALSE
  /\ UNCHANGED allVars

\* consumer.stop()
Settle ==
  /\ main = "settling" /\ main' = "awaiting"
  /\ RequestStop
  /\ UNCHANGED <<busy, drained>>

\* `await task`, then the `async with` block is left.
AwaitConsumer ==
  /\ main = "awaiting" /\ main' = "done"
  /\ task = "idle"
  /\ Stop
  /\ UNCHANGED <<consumerVars, busy, drained>>

ConsumerTask ==
  /\ ~busy
  /\ \/ Receive \/ Handle \/ Leave
     \/ (\E s \in Subs : Finalise(s)) /\ UNCHANGED consumerVars
  /\ UNCHANGED mainVars

MainTask ==
  Connect \/ Register \/ Spawn \/ Replay \/ Flush \/ Settle \/ AwaitConsumer

LiveNext == MainTask \/ ConsumerTask

\* Both tasks run whenever they can.
LiveSpec ==
  /\ LiveInit /\ [][LiveNext]_liveVars
  /\ WF_liveVars(MainTask) /\ WF_liveVars(ConsumerTask)

-----------------------------------------------------------------------------
(***************************************************************************)
(* If flush() returned 0, the consumer the command then stops has handled  *)
(* everything that was published, or counted it as malformed (the counters *)
(* `live` prints agree with the replayer's): an empty queue may still mean *)
(* an event in dispatch, but stop() does not lose that one.                *)
(***************************************************************************)
DrainedMeansHandled ==
  main = "done" /\ drained /\ dropped = 0 => stats.consumed + stats.failed = offset

(***************************************************************************)
(* The command ends: the full match for --max-events 0, the first N events *)
(* otherwise.  It need not (LiveEndsOrStarves).                            *)
(***************************************************************************)
LiveTerminates == <>(main = "done")

\* The consumer waits for an event nobody will publish, and stop() does not
\* wake it.  Everything published was handled, found malformed or shed, and
\* that was not enough to reach the limit.
Starved ==
  /\ main = "awaiting" /\ task = "waiting" /\ queue[run] = <<>>
  /\ limit = 0 \/ stats.consumed < limit
  /\ stats.consumed + stats.failed + dropped = offset

(***************************************************************************)
(* When the command ends and when it does not: it ends, or its consumer is *)
(* starved for good.  So it ends when the limit is reached, that is when   *)
(* --max-events is not zero, the match has as many events, and none of     *)
(* them is malformed or shed; when it is not reached, it ends only if an   *)
(* event was still queued as stop() was called (after flush() gave up).    *)
(***************************************************************************)
LiveEndsOrStarves == LiveTerminates \/ <>[]Starved
=============================================================================
