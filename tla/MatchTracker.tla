---------------------------- MODULE MatchTracker ----------------------------
(***************************************************************************)
(* stream/tracker.py over storage/match_state.py: one tracker that is      *)
(* handed the events of several matches in topic order, keeps a window per *)
(* match, and writes snapshots and round histories to the state store.     *)
(*                                                                         *)
(* A step ends where handle() awaits the store.  A store call may fail     *)
(* (the consumer counts the error and goes on), an entry may expire or     *)
(* stop parsing, the broker may shed an event, and the process may         *)
(* restart: the windows are gone and the topic is read again from an       *)
(* earlier position.                                                       *)
(***************************************************************************)
EXTENDS SlidingWindow

CONSTANTS
  Matches,     \* match ids
  Topics,      \* sequences of events the tracker may be handed
  WindowSpan,  \* window_seconds
  MaxTracked,  \* MAX_TRACKED_ROUNDS
  MaxFailures, \* bound on failing store calls
  MaxExpiries, \* bound on entries that expire or no longer parse
  MaxRestarts, \* bound on restarts
  MaxShed,     \* bound on events that never reach the tracker
  Absent       \* no window, no entry

ASSUME TrackerAssumption ==
  /\ WindowSpan \in Nat \ {0}
  /\ MaxTracked \in Nat \ {0}
  /\ {MaxFailures, MaxExpiries, MaxRestarts, MaxShed} \subseteq Nat

\* An event of a topic is of a known match, and a round that ends has a number.
ASSUME TopicsAssumption ==
  \A t \in Topics :
    /\ t \in Seq({t[i] : i \in 1..Len(t)})
    /\ \A i \in 1..Len(t) :
         t[i].match \in Matches /\ (t[i].type = "round_end" => t[i].round \in Nat)

TopicEvents == UNION {{t[i] : i \in 1..Len(t)} : t \in Topics}

\* No window is mistaken for a missing one.
ASSUME AbsentAssumption ==
  Absent \notin [ticks : Seq(TopicEvents), kills : Seq(TopicEvents), current : Int]

SameRound(t, i, j) ==
  t[i].match = t[j].match /\ t[i].play = t[j].play /\ t[i].round = t[j].round

InRound(t, i) == t[i].type \in {"tick", "kill"}

\* What ends the window of a round.
Boundary(t, i) == t[i].type \in {"round_start", "match_end"}

\* The order MatchSimulator emits a match in, whatever it is interleaved with:
\* a round starts once, its ticks and kills follow before the next boundary of
\* the match, each kind in the order of time, and a tick has a seq of its own.
ASSUME RoundsAssumption ==
  \A t \in Topics : \A i \in 1..Len(t) :
    /\ t[i].time \in Int /\ t[i].round \in Int
    /\ InRound(t, i) => \E s \in 1..(i - 1) :
         /\ t[s].type = "round_start" /\ SameRound(t, s, i)
         /\ \A b \in (s + 1)..(i - 1) : Boundary(t, b) => t[b].match # t[i].match
    /\ \A j \in 1..(i - 1) : t[j].type = t[i].type =>
         /\ SameRound(t, j, i) => t[i].type # "round_start"
         /\ SameRound(t, j, i) /\ InRound(t, i) => t[j].time <= t[i].time
         /\ t[i].type = "tick" /\ t[j].match = t[i].match /\ t[j].play = t[i].play
              => t[j].seq # t[i].seq

VARIABLES
  topic,     \* the events of this behaviour
  pos,       \* index of the event being handled, or next to be
  phase,     \* idle, or the store call handle() is suspended in
  windows,   \* _windows
  pending,   \* the value of the call: a snapshot, or the history read
  snapshots, \* the store: match_key entries
  histories, \* the store: rounds_key entries
  failures, expiries, restarts, \* counters for the bounds
  recorded,  \* history: per match, the round ends written since the entry was new
  shed       \* history: the positions whose event never reached the tracker

trackerVars == <<topic, pos, phase, windows, pending, snapshots, histories,
                 failures, expiries, restarts, recorded,
                 shed>>

TrackerInit ==
  /\ topic \in Topics
  /\ pos = 1 /\ phase = "idle"
  /\ windows = [m \in Matches |-> Absent]
  /\ pending = Absent
  /\ snapshots = [m \in Matches |-> Absent]
  /\ histories = [m \in Matches |-> Absent]
  /\ failures = 0 /\ expiries = 0 /\ restarts = 0
  /\ recorded = [m \in Matches |-> {}]
  /\ shed = {}

-----------------------------------------------------------------------------
Event == topic[pos]

\* window_for
WindowFor(m) == IF windows[m] = Absent THEN EmptyWindow ELSE windows[m]

\* _persist: the snapshot of a tick, with the momentum of its window.
SnapshotOf(e, w) ==
  [seq |-> e.seq, play |-> e.play, momentum |-> Metrics(w)]

ResultOf(e) == [round |-> e.round, play |-> e.play, winner |-> e.winner]

\* The cap: all but the last MaxTracked rounds are forgotten.
Capped(rounds) ==
  SubSeq(rounds, IF Len(rounds) > MaxTracked THEN Len(rounds) - MaxTracked + 1 ELSE 1,
         Len(rounds))

\* Mutant: the entry is appended without looking for an older one.
AppendAnyway(rounds, result) == Capped(Append(rounds, result))

\* How many of the stored rounds come up to round n: they are the first ones.
Upto(rounds, n) ==
  CHOOSE k \in 0..Len(rounds) : \A i \in 1..Len(rounds) : i <= k <=> rounds[i].round <= n

\* The entry of the round is replaced, and the rest sorted around it.
Inserted(rounds, result) ==
  SubSeq(rounds, 1, Upto(rounds, result.round - 1)) \o <<result>>
    \o SubSeq(rounds, Upto(rounds, result.round) + 1, Len(rounds))

\* append_round on the history read.
AppendRound(rounds, result) == Capped(Inserted(rounds, result))

\* get_history: what is absent or does not parse is an empty history.
HistoryOf(m) == IF histories[m] = Absent THEN <<>> ELSE histories[m]

Finished == phase' = "idle" /\ pos' = pos + 1 /\ pending' = Absent

\* handle() up to the first store call, with a window that match m has to
\* itself or shares with the others of `sharing`.
HandleIn(m, sharing) ==
  /\ phase = "idle" /\ pos <= Len(topic)
  /\ LET w == Observe(WindowFor(m), Event, WindowSpan)
         left == IF Event.type = "match_end" THEN Absent ELSE w
     IN /\ windows' = [n \in Matches |-> IF n \in sharing THEN left ELSE windows[n]]
        /\ CASE Event.type = "tick" ->
                  phase' = "set_snapshot" /\ pending' = SnapshotOf(Event, w) /\ UNCHANGED pos
             [] Event.type = "round_end" ->
                  phase' = "get_history" /\ pending' = Absent /\ UNCHANGED pos
             [] Event.type = "match_end" ->
                  phase' = "final_history" /\ pending' = Absent /\ UNCHANGED pos
             [] OTHER -> Finished
  /\ UNCHANGED <<topic, snapshots, histories, failures, expiries, restarts, recorded,
                 shed>>

\* Mutant: one window for all matches.
HandleShared == HandleIn(CHOOSE m \in Matches : TRUE, Matches)

Handle == HandleIn(Event.match, {Event.match})

\* publish_snapshot
SetSnapshot ==
  /\ phase = "set_snapshot"
  /\ snapshots' = [snapshots EXCEPT ![Event.match] = pending]
  /\ Finished
  /\ UNCHANGED <<topic, windows, histories, failures, expiries, restarts, recorded,
                 shed>>

\* append_round: the read ...
GetHistory ==
  /\ phase = "get_history"
  /\ pending' = HistoryOf(Event.match)
  /\ phase' = "set_history"
  /\ UNCHANGED <<topic, pos, windows, snapshots, histories, failures, expiries,
                 restarts, recorded, shed>>

\* ... and the write of what was made of it.  An empty history was read when
\* the stored one was lost: what was recorded before is gone.
SetHistory ==
  LET m == Event.match
      rest == IF pending = <<>> THEN {} ELSE recorded[m]
  IN /\ phase = "set_history"
     /\ histories' = [histories EXCEPT ![m] = AppendRound(pending, ResultOf(Event))]
     /\ recorded' = [recorded EXCEPT ![m] =
                       {r \in rest : r.round # Event.round} \union {ResultOf(Event)}]
     /\ Finished
     /\ UNCHANGED <<topic, windows, snapshots, failures, expiries, restarts, shed>>

\* _finalise: the history is read, and only logged.
Finalise ==
  /\ phase = "final_history"
  /\ Finished
  /\ UNCHANGED <<topic, windows, snapshots, histories, failures, expiries, restarts, recorded,
                 shed>>

\* The store call raises: the rest of handle() is skipped.
StoreFails ==
  /\ phase # "idle"
  /\ failures < MaxFailures
  /\ failures' = failures + 1
  /\ Finished
  /\ UNCHANGED <<topic, windows, snapshots, histories, expiries, restarts, recorded, shed>>

\* An entry reaches its TTL, or was written by an older schema.
EntryLost(m) ==
  /\ expiries < MaxExpiries
  /\ expiries' = expiries + 1
  /\ \/ /\ snapshots[m] # Absent
        /\ snapshots' = [snapshots EXCEPT ![m] = Absent]
        /\ UNCHANGED histories
     \/ /\ histories[m] # Absent
        /\ histories' = [histories EXCEPT ![m] = Absent]
        /\ UNCHANGED snapshots
  /\ UNCHANGED <<topic, pos, phase, windows, pending, failures, restarts, recorded, shed>>

\* The queue of the tracker's group is full when the event is published.
Shed ==
  /\ phase = "idle" /\ pos <= Len(topic)
  /\ Cardinality(shed) < MaxShed
  /\ shed' = shed \union {pos}
  /\ pos' = pos + 1
  /\ UNCHANGED <<topic, phase, windows, pending, snapshots, histories, failures,
                 expiries, restarts, recorded>>

\* The process dies and a new one resumes from an earlier position.
Restart ==
  /\ restarts < MaxRestarts
  /\ restarts' = restarts + 1
  /\ windows' = [m \in Matches |-> Absent]
  /\ phase' = "idle" /\ pending' = Absent
  /\ pos' \in 1..pos
  /\ UNCHANGED <<topic, snapshots, histories, failures, expiries, recorded, shed>>

TrackerNext ==
  \/ Handle \/ SetSnapshot \/ GetHistory \/ SetHistory \/ Finalise
  \/ StoreFails \/ Shed
  \/ \E m \in Matches : EntryLost(m)
  \/ Restart

TrackerSpec == TrackerInit /\ [][TrackerNext]_trackerVars

-----------------------------------------------------------------------------
Rounds(history) == {history[i] : i \in 1..Len(history)}

(***************************************************************************)
(* A stored history is the last MaxTracked of the rounds recorded for the  *)
(* match, oldest first and each once, also when round ends are delivered   *)
(* again after a restart or follow a write that failed ("Appending is      *)
(* idempotent per round number", match_state.py).                          *)
(***************************************************************************)
HistoryExact ==
  \A m \in Matches : histories[m] # Absent =>
    LET h == histories[m] IN
    /\ \A i, j \in 1..Len(h) : i < j => h[i].round < h[j].round
    /\ Len(h) = (IF Cardinality(recorded[m]) < MaxTracked
                   THEN Cardinality(recorded[m]) ELSE MaxTracked)
    /\ \A r \in recorded[m] :
         r \in Rounds(h) \/ \A i \in 1..Len(h) : r.round < h[i].round

\* The positions of the events of a type that were handled in the round of
\* the tick at n, up to that tick, and are within one span of the last of them.
Recent(type, n) ==
  LET e == topic[n]
      heard == {i \in (1..n) \ shed :
                  /\ topic[i].type = type /\ topic[i].round = e.round
                  /\ topic[i].match = e.match /\ topic[i].play = e.play}
  IN {i \in heard : \A j \in heard : topic[j].time - topic[i].time <= WindowSpan}

\* The time between the first and the last of some positions.
Between(events) ==
  LET apart == {topic[j].time - topic[i].time : i, j \in events}
  IN CHOOSE t \in apart \union {0} : \A u \in apart : u <= t

\* The momentum of the tick at n, from the events themselves.
MomentumAt(n, momentum) ==
  LET kills == Recent("kill", n)
      ticks == Recent("tick", n)
      ct == {i \in kills : topic[i].victim = "T"}
      spans == {Between(kills), Between(ticks)}
  IN /\ momentum.kills_ct = Cardinality(ct)
     /\ momentum.kills_t = Cardinality(kills \ ct)
     /\ momentum.kill_delta = momentum.kills_ct - momentum.kills_t
     /\ momentum.ticks = Cardinality(ticks)
     /\ momentum.span \in spans /\ \A t \in spans : t <= momentum.span

(***************************************************************************)
(* A stored snapshot carries the momentum of its own match and round: of   *)
(* the kills heard in the round up to its tick, those within one span of   *)
(* the LAST KILL heard, by side; of the ticks, those within one span of    *)
(* the last tick; both ends included.  A kill evicts on its own arrival    *)
(* only (window.py, append), so kills stay counted however old they are    *)
(* when the tick comes.  This whatever other matches are interleaved,      *)
(* which writes failed and which kills or ticks the broker shed ("Momentum *)
(* does not carry across rounds", window.py).  It needs the round starts,  *)
(* and a tracker that did not restart in the middle of the round.          *)
(***************************************************************************)
MomentumExact ==
  (restarts = 0 /\ \A i \in shed : topic[i].type # "round_start") =>
    \A m \in Matches : snapshots[m] # Absent =>
      \A n \in 1..Len(topic) :
        topic[n].type = "tick" /\ topic[n].match = m /\ n \notin shed
          /\ topic[n].play = snapshots[m].play /\ topic[n].seq = snapshots[m].seq
        => MomentumAt(n, snapshots[m].momentum)

(***************************************************************************)
(* A history holds the rounds of one match ("Every completed round of a    *)
(* match, oldest first", match_state.py).                                  *)
(***************************************************************************)
HistoryOfOnePlay ==
  \A m \in Matches : histories[m] # Absent =>
    \A r, s \in Rounds(histories[m]) : r.play = s.play
=============================================================================
