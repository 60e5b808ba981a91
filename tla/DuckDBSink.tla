----------------------------- MODULE DuckDBSink -----------------------------
(***************************************************************************)
(* storage/duckdb_sink.py: the historical store.  Ticks are buffered and   *)
(* appended in batches, rounds and matches are upserted at once, and the   *)
(* training view joins the two.  No call suspends, so handling one event   *)
(* is a step; a flush may fail, and the process may crash, after which the *)
(* topic is read again from the start.  The momentum columns are left out. *)
(***************************************************************************)
EXTENDS Integers, Sequences, FiniteSets

CONSTANTS
  Feeds,            \* sequences of events the sink may be handed
  BatchSize,        \* batch_size
  MaxFlushFailures, \* bound on failing flushes
  MaxCrashes        \* bound on crashes

ASSUME SinkAssumption ==
  /\ BatchSize \in Nat \ {0}
  /\ MaxFlushFailures \in Nat
  /\ MaxCrashes \in Nat

\* The events of a feed are distinct, and a match ends after its last tick.
ASSUME FeedsAssumption ==
  \A f \in Feeds :
    /\ f \in Seq({f[i] : i \in 1..Len(f)})
    /\ \A i, j \in 1..Len(f) : i # j => f[i] # f[j]
    /\ \A i, j \in 1..Len(f) :
         f[i].type = "tick" /\ f[j].type = "match_end"
           /\ f[i].match = f[j].match /\ f[i].play = f[j].play
         => i < j

VARIABLES
  feed,    \* the events of this behaviour
  at,      \* index of the next event
  open,    \* _conn is not None
  buffer,  \* _buffer
  flushed, \* _stats.ticks_written
  ticks,   \* the table: rows, in order of insertion
  rounds,  \* the table, keyed by match and round
  matches, \* the table, keyed by match
  flushFailures, crashes,
  lost     \* history: rows a failed flush took with it

sinkVars == <<feed, at, open, buffer, flushed, ticks, rounds, matches,
              flushFailures, crashes, lost>>

SinkInit ==
  /\ feed \in Feeds
  /\ at = 1 /\ open = FALSE
  /\ buffer = <<>> /\ flushed = 0
  /\ ticks = <<>> /\ rounds = {} /\ matches = {}
  /\ flushFailures = 0 /\ crashes = 0
  /\ lost = {}

-----------------------------------------------------------------------------
Incoming == feed[at]

RowsOf(seq) == {seq[i] : i \in 1..Len(seq)}

\* flush(): the buffer is emptied before the insert, which may raise.  An
\* empty buffer is not inserted.
Flush(rows) ==
  /\ buffer' = <<>>
  /\ \/ /\ ticks' = ticks \o rows
        /\ flushed' = flushed + Len(rows)
        /\ UNCHANGED <<flushFailures, lost>>
     \/ /\ rows # <<>> /\ flushFailures < MaxFlushFailures
        /\ flushFailures' = flushFailures + 1
        /\ lost' = lost \union RowsOf(rows)
        /\ UNCHANGED <<ticks, flushed>>

OpenSink ==
  /\ ~open
  /\ open' = TRUE
  /\ UNCHANGED <<feed, at, buffer, flushed, ticks, rounds, matches, flushFailures,
                 crashes, lost>>

\* Mutant: the tick that fills the batch is not among those flushed.
WriteTickDropping ==
  LET full == Append(buffer, Incoming) IN
  /\ \/ /\ Len(full) < BatchSize
        /\ buffer' = full
        /\ UNCHANGED <<flushed, ticks, flushFailures, lost>>
     \/ /\ Len(full) >= BatchSize
        /\ Flush(buffer)
  /\ UNCHANGED <<rounds, matches>>

\* write_tick
WriteTick ==
  LET full == Append(buffer, Incoming) IN
  /\ \/ /\ Len(full) < BatchSize
        /\ buffer' = full
        /\ UNCHANGED <<flushed, ticks, flushFailures, lost>>
     \/ /\ Len(full) >= BatchSize
        /\ Flush(full)
  /\ UNCHANGED <<rounds, matches>>

\* Mutant: the row of a round is keyed by the round alone.
UpsertByRound(table, row) == {r \in table : r.round # row.round} \union {row}

\* INSERT ... ON CONFLICT (match_id, round_number) DO UPDATE
Upsert(table, row) ==
  {r \in table : <<r.match, r.round>> # <<row.match, row.round>>} \union {row}

\* write_round
WriteRound ==
  /\ rounds' = Upsert(rounds, Incoming)
  /\ UNCHANGED <<buffer, flushed, ticks, matches, flushFailures, lost>>

\* write_match: when the flush raises, the match is not recorded.
WriteMatch ==
  /\ Flush(buffer)
  /\ matches' = IF flushFailures' = flushFailures
                  THEN {m \in matches : m.match # Incoming.match} \union {Incoming}
                  ELSE matches
  /\ UNCHANGED rounds

\* handle(); the window it keeps has no effect on what is stored where.
HandleNext ==
  /\ open /\ at <= Len(feed)
  /\ \/ Incoming.type = "tick" /\ WriteTick
     \/ Incoming.type = "round_end" /\ WriteRound
     \/ Incoming.type = "match_end" /\ WriteMatch
     \/ Incoming.type \notin {"tick", "round_end", "match_end"}
          /\ UNCHANGED <<buffer, flushed, ticks, rounds, matches, flushFailures, lost>>
  /\ at' = at + 1
  /\ UNCHANGED <<feed, open, crashes>>

\* flush() called by the owner.
FlushNow ==
  /\ open /\ buffer # <<>>
  /\ Flush(buffer)
  /\ UNCHANGED <<feed, at, open, rounds, matches, crashes>>

\* stop(): when the flush raises, the connection stays open.
CloseSink ==
  /\ open
  /\ Flush(buffer)
  /\ open' = (flushFailures' # flushFailures)
  /\ UNCHANGED <<feed, at, rounds, matches, crashes>>

\* The process dies: what is buffered is gone, the file is not.
Crash ==
  /\ crashes < MaxCrashes
  /\ crashes' = crashes + 1
  /\ open' = FALSE
  /\ buffer' = <<>> /\ flushed' = 0
  /\ at' = 1
  /\ UNCHANGED <<feed, ticks, rounds, matches, flushFailures, lost>>

SinkNext == OpenSink \/ HandleNext \/ FlushNow \/ CloseSink \/ Crash

SinkSpec == SinkInit /\ [][SinkNext]_sinkVars

-----------------------------------------------------------------------------
Handled == {feed[i] : i \in 1..(at - 1)}
HandledTicks == {e \in Handled : e.type = "tick"}

BufferExact ==
  /\ Len(buffer) < BatchSize
  /\ HandledTicks \subseteq RowsOf(ticks) \union RowsOf(buffer) \union lost
  /\ crashes = 0 =>
       /\ flushed = Len(ticks)
       /\ Len(ticks) + Len(buffer) + Cardinality(lost) = Cardinality(HandledTicks)

RecordedMatchComplete ==
  \A m \in matches : \A i \in 1..Len(feed) :
    LET e == feed[i] IN
    e.type = "tick" /\ e.match = m.match /\ e.play = m.play =>
      e \in RowsOf(ticks) \union lost

(***************************************************************************)
(* Every tick handled by the running process is stored, buffered, or was   *)
(* lost by a flush that raised; the buffer never holds a full batch, no    *)
(* tick is stored twice by one process, and ticks_written counts the rows  *)
(* it stored.  A match on record is complete: all its ticks are in the     *)
(* table, also when a process died with some of them in its buffer, except *)
(* those that a flush which raised took with it.                           *)
(***************************************************************************)
TicksAccounted == BufferExact /\ RecordedMatchComplete

\* The training view: DISTINCT ON (match_id, sequence) keeps any of the rows
\* of a key, and the join labels it with the outcome of its round.
TrainingPairs ==
  {p \in RowsOf(ticks) \X rounds :
     p[1].phase # "freezetime" /\ p[1].match = p[2].match /\ p[1].round = p[2].round}

(***************************************************************************)
(* A training row is labelled with the result of the round it was played   *)
(* in ("Each tick is stored with the outcome of the round it belonged to", *)
(* cli.py), and a tick whose round is on record is in the training data.   *)
(***************************************************************************)
LabelOfItsRound ==
  /\ \A p \in TrainingPairs : p[1].play = p[2].play
  /\ \A t \in RowsOf(ticks) : \A e \in Handled :
       t.phase # "freezetime" /\ e.type = "round_end" /\ e.match = t.match
         /\ e.round = t.round /\ e.play = t.play
       => \E p \in TrainingPairs : p[1] = t
=============================================================================
