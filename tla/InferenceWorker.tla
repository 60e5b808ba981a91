--------------------------- MODULE InferenceWorker ---------------------------
(***************************************************************************)
(* inference/worker.py behind a consumer: handle() folds an event into the *)
(* window of its match, scores ticks with inference/engine.py, and sends   *)
(* the prediction to the broker and then to the state store.               *)
(*                                                                         *)
(* The consumer awaits handle() for one event at a time.  publish() does   *)
(* not suspend on either broker: it succeeds or raises.  store.set() does  *)
(* suspend: it may succeed, fail, or be cancelled with the task, and a     *)
(* write that failed or was cancelled may have been applied.               *)
(*                                                                         *)
(* The transport may lose an event, and after a restart it may deliver     *)
(* some again; the restarted worker has nothing but the store.             *)
(***************************************************************************)
EXTENDS Integers, Sequences, FiniteSets, FiniteSetsExt

CONSTANTS
  Matches,
  Stream,      \* the telemetry: records with a match, a kind and a flag
  Wirings,     \* which of the broker and the store the worker is given
  MaxFailures, \* bound on failures, losses, cancellations and restarts
  Backlog      \* how far back a restart may set the consumer

Kinds == {"tick", "match_end", "other"}

ASSUME WorkerAssumption ==
  /\ Stream \in Seq([match : Matches, kind : Kinds, scoreable : BOOLEAN])
  /\ Wirings \subseteq [broker : BOOLEAN, store : BOOLEAN]
  /\ MaxFailures \in Nat /\ Backlog \in Nat

VARIABLES
  wiring,    \* what this worker was given
  next,      \* the event of the stream that is delivered next
  phase,     \* "idle", or "storing": suspended in store.set()
  windows,   \* _windows: the matches a window is kept for
  latest,    \* _latest: per match the event last scored, or Nothing
  stats,     \* _stats
  entry,     \* the store: per match the payload under its key, or Nothing
  sent,      \* history: the event of every payload built, in order
  framed,    \* history: payloads on the prediction topic
  saved,     \* history: payloads whose set() was reported to have worked
  aborted,   \* history: ticks of this worker that ended in an exception
  before,    \* history: payloads of the workers before this one
  failures

workerVars == <<wiring, next, phase, windows, latest, stats, entry, sent, framed, saved,
          aborted, before, failures>>

Nothing == 0

NoStats == [ticks_seen |-> 0, published |-> 0, skipped |-> 0, errors |-> 0]

NoPrediction == [m \in Matches |-> Nothing]

WorkerInit ==
  /\ wiring \in Wirings /\ next = 1 /\ phase = "idle"
  /\ windows = {} /\ latest = NoPrediction /\ stats = NoStats /\ aborted = 0
  /\ entry = NoPrediction
  /\ sent = <<>> /\ framed = {} /\ saved = {} /\ before = 0 /\ failures = 0

-----------------------------------------------------------------------------
Failure == failures < MaxFailures /\ failures' = failures + 1

Counted(counter) == stats' = [stats EXCEPT !.ticks_seen = @ + 1, ![counter] = @ + 1]

Tick == stats' = [stats EXCEPT !.ticks_seen = @ + 1]

Event == Stream[next]

\* handle() is called with the next event, and looks up the window of its
\* match, creating it on first sight.
Delivered == phase = "idle" /\ next <= Len(Stream) /\ next' = next + 1

Observed == windows' = windows \union {Event.match}

\* A tick the engine scores.
Scoreable == Delivered /\ Event.kind = "tick" /\ Event.scoreable /\ Observed

\* An event that is not a tick; the end of a match releases what it holds.
HandleOther ==
  /\ Delivered /\ Event.kind # "tick"
  /\ \/ /\ Event.kind = "match_end"
        /\ windows' = windows \ {Event.match}
        /\ latest' = [latest EXCEPT ![Event.match] = Nothing]
     \/ Event.kind = "other" /\ Observed /\ UNCHANGED latest
  /\ UNCHANGED <<wiring, phase, stats, entry, sent, framed, saved, aborted, before, failures>>

\* A tick nothing can be said about: freeze time, a finished round.
Skip ==
  /\ Delivered /\ Event.kind = "tick" /\ ~Event.scoreable /\ Observed
  /\ Counted("skipped")
  /\ UNCHANGED <<wiring, phase, latest, entry, sent, framed, saved, aborted, before, failures>>

\* The engine raises: the exception leaves handle() and the consumer counts it.
PredictRaises ==
  /\ Scoreable
  /\ Tick /\ aborted' = aborted + 1 /\ Failure
  /\ UNCHANGED <<wiring, phase, latest, entry, sent, framed, saved, before>>

\* Mutant: the frame is sent after the payload was stored.
ScoreUnframed ==
  /\ Scoreable
  /\ latest' = [latest EXCEPT ![Event.match] = next]
  /\ sent' = Append(sent, next)
  /\ \/ wiring.store /\ phase' = "storing" /\ Tick
     \/ ~wiring.store /\ UNCHANGED phase /\ Counted("published")
  /\ UNCHANGED <<wiring, framed, entry, saved, aborted, before, failures>>

\* A tick is scored and its payload published; then set() suspends.
Score ==
  /\ Scoreable
  /\ latest' = [latest EXCEPT ![Event.match] = next]
  /\ sent' = Append(sent, next)
  /\ framed' = IF wiring.broker THEN framed \union {Len(sent) + 1} ELSE framed
  /\ \/ wiring.store /\ phase' = "storing" /\ Tick
     \/ ~wiring.store /\ UNCHANGED phase /\ Counted("published")
  /\ UNCHANGED <<wiring, entry, saved, aborted, before, failures>>

\* broker.publish() raises (it is stopped, its queue is full): no write.
PublishRaises ==
  /\ Scoreable /\ wiring.broker
  /\ latest' = [latest EXCEPT ![Event.match] = next]
  /\ sent' = Append(sent, next)
  /\ Counted("errors") /\ Failure
  /\ UNCHANGED <<wiring, phase, entry, framed, saved, aborted, before>>

\* The payload being stored, and the key it goes to.
Payload == Len(sent)

Key == Stream[sent[Payload]].match

Written == entry' = [entry EXCEPT ![Key] = Payload]

SetReturns ==
  /\ phase = "storing" /\ phase' = "idle"
  /\ Written /\ saved' = saved \union {Payload}
  /\ stats' = [stats EXCEPT !.published = @ + 1]
  /\ UNCHANGED <<wiring, next, windows, latest, sent, framed, aborted, before, failures>>

\* Mutant: the counter of published predictions is raised after a failure too.
SetFailsCounted ==
  /\ phase = "storing" /\ phase' = "idle"
  /\ Written \/ UNCHANGED entry
  /\ stats' = [stats EXCEPT !.errors = @ + 1, !.published = @ + 1]
  /\ Failure
  /\ UNCHANGED <<wiring, next, windows, latest, sent, framed, saved, aborted, before>>

SetFails ==
  /\ phase = "storing" /\ phase' = "idle"
  /\ Written \/ UNCHANGED entry
  /\ stats' = [stats EXCEPT !.errors = @ + 1]
  /\ Failure
  /\ UNCHANGED <<wiring, next, windows, latest, sent, framed, saved, aborted, before>>

\* CancelledError is not an Exception: nothing is counted.
Cancelled ==
  /\ phase = "storing" /\ phase' = "idle"
  /\ Written \/ UNCHANGED entry
  /\ aborted' = aborted + 1
  /\ Failure
  /\ UNCHANGED <<wiring, next, windows, latest, stats, sent, framed, saved, before>>

\* The transport loses an event.
Lose ==
  /\ phase = "idle" /\ next <= Len(Stream) /\ next' = next + 1
  /\ Failure
  /\ UNCHANGED <<wiring, phase, windows, latest, stats, entry, sent, framed, saved,
                 aborted, before>>

\* The process dies, with or without the write it waits for, and a new worker
\* starts from an earlier event, or the same.
Restart ==
  /\ \/ phase = "storing" /\ Written
     \/ UNCHANGED entry
  /\ next' \in Max({1, next - Backlog})..next
  /\ windows' = {} /\ latest' = NoPrediction /\ stats' = NoStats
  /\ aborted' = 0 /\ phase' = "idle"
  /\ before' = Len(sent)
  /\ Failure
  /\ UNCHANGED <<wiring, sent, framed, saved>>

\* The entry outlives its time to live.
Expire(m) ==
  /\ entry[m] # Nothing
  /\ entry' = [entry EXCEPT ![m] = Nothing]
  /\ saved' = {i \in saved : Stream[sent[i]].match # m}
  /\ Failure
  /\ UNCHANGED <<wiring, next, phase, windows, latest, stats, sent, framed, aborted, before>>

WorkerNext ==
  \/ HandleOther \/ Skip \/ PredictRaises \/ Score \/ PublishRaises
  \/ SetReturns \/ SetFails \/ Cancelled
  \/ Lose \/ Restart \/ \E m \in Matches : Expire(m)

WorkerSpec == WorkerInit /\ [][WorkerNext]_workerVars

-----------------------------------------------------------------------------
Pending == IF phase = "storing" THEN 1 ELSE 0

Frames == Cardinality({i \in framed : i > before})

(***************************************************************************)
(* Every tick a worker saw was skipped, published or an error, or left     *)
(* handle() by an exception, and the counters bound what is on the topic:  *)
(* each prediction counted as published is there, and what is there beside *)
(* them was counted as an error (its write failed), aborted or is pending. *)
(***************************************************************************)
PredictionsAccounted ==
  /\ stats.ticks_seen = stats.skipped + stats.published + stats.errors + aborted + Pending
  /\ wiring.broker =>
       Frames \in stats.published..(stats.published + stats.errors + aborted + Pending)

(***************************************************************************)
(* What the store holds for a match is a prediction of that match, it went *)
(* out on the topic first, and it is at least as new as the last one whose *)
(* write was reported to have worked, across failing writes, cancellations *)
(* and restarts of the worker.                                             *)
(***************************************************************************)
StoredIsLatest ==
  \A m \in Matches :
  /\ \A i \in saved : Stream[sent[i]].match = m => entry[m] >= i
  /\ entry[m] # Nothing =>
       /\ Stream[sent[entry[m]]].match = m
       /\ wiring.broker => entry[m] \in framed

==============================================================================
