------------------------------ MODULE Dashboard ------------------------------
(***************************************************************************)
(* The browser's side of the stream: the socket that reconnects            *)
(* (frontend/src/hooks/useWebSocket.ts) and the reducer that folds its     *)
(* frames into what is shown (useMatchStream.ts), against a server that    *)
(* plays a match over and over, may stop and come back, and welcomes a     *)
(* socket with the snapshot its store holds (routes/stream.py).            *)
(*                                                                         *)
(* A slot is a WebSocket object: "free" before it exists and after its     *)
(* onclose ran, "connecting", "open", or "closing" once the code closed it *)
(* (it is then in abandonedRef, and the browser delivers nothing more of   *)
(* it than its onclose).  Delays are left out: a timer may fire any time.  *)
(* So are the counters `received` and `malformed`, since every frame the   *)
(* server sends is well formed, and the fields of the reducer that are     *)
(* only shown: the final score, the version, the last error.               *)
(***************************************************************************)
EXTENDS Integers, Sequences, FiniteSets

CONSTANTS
  Slots,       \* bound on the sockets that exist at once
  Script,      \* the events of a match: [type, seq, round, live]
  MaxPlays,    \* bound on the matches played
  MaxInFlight, \* bound on the frames in flight on a socket
  MaxTroubles, \* bound on broken connections, restarts and reconnect() calls
  MaxAttempt,  \* attempts are counted up to here
  MaxHistory,  \* MAX_HISTORY_POINTS
  MaxRoundLog, \* MAX_ROUND_LOG
  Null

ASSUME DashboardAssumption ==
  /\ IsFiniteSet(Slots) /\ Null \notin Slots
  /\ {MaxPlays, MaxInFlight, MaxTroubles, MaxAttempt, MaxHistory, MaxRoundLog} \subseteq Nat \ {0}
  /\ Null \notin [play : Nat, seq : Nat, round : Nat, live : BOOLEAN]

\* The events of a match, numbered.  Ticks of a live round are scored, and a
\* round_end or match_end frame follows them before a tick that is not.
ASSUME ScriptAssumption ==
  /\ Script \in Seq([type : {"tick", "round_end", "match_end"}, seq : Nat, round : Nat,
                     live : BOOLEAN])
  /\ Script # <<>>
  /\ \A i \in 1..Len(Script) :
       /\ Script[i].seq = i
       /\ Script[i].live =>
            /\ Script[i].type = "tick"
            /\ \E j \in (i + 1)..Len(Script) : Script[j].type # "tick"
            /\ \A k \in (i + 1)..Len(Script) : Script[k].type = "tick" /\ ~Script[k].live =>
                 \E j \in (i + 1)..(k - 1) : Script[j].type # "tick"

VARIABLES
  wanted,  \* mounted, with a url and enabled
  valid,   \* the url is one that `new WebSocket` takes
  socket,  \* per slot: its state, whether the connection is lost, what is in
           \* flight, and how far the server is with its welcome
  current, \* socketRef
  timer,   \* a retry is scheduled
  attempt, \* attemptRef, and the state `attempts`
  status,
  shown,   \* the state of the reducer
  late,    \* the server's store suspends: a welcome may come late
  up,      \* the server runs
  play, at, \* the match and the event it is at
  kept,    \* the snapshot its store holds
  troubles,
  fresh    \* history: since the last welcome a frame said where the round is

hookVars == <<wanted, valid, socket, current, timer, attempt, status>>
serverVars == <<late, up, play, at, kept>>
dashVars == <<hookVars, shown, serverVars, troubles, fresh>>

Free == [state |-> "free", lost |-> FALSE, pipe |-> <<>>, greeting |-> "sent", held |-> Null]

DashInit ==
  /\ wanted = FALSE /\ valid = TRUE /\ socket = [s \in Slots |-> Free] /\ current = Null
  /\ timer = FALSE /\ attempt = 0 /\ status = "closed"
  /\ shown = [snapshot |-> Null, prediction |-> Null, history |-> <<>>, rounds |-> <<>>]
  /\ late \in BOOLEAN /\ up = TRUE /\ play = 1 /\ at = 1 /\ kept = Null
  /\ troubles = 0 /\ fresh = FALSE

-----------------------------------------------------------------------------
Trouble == troubles < MaxTroubles /\ troubles' = troubles + 1

\* appendBounded
Bounded(items, item, limit) ==
  LET next == Append(items, item) IN
  IF Len(next) > limit THEN SubSeq(next, Len(next) - limit + 1, Len(next)) ELSE next

\* `snapshot.prediction ?? state.prediction`: a snapshot of a live round
\* carries the prediction of its own tick.
Predicted(snapshot) ==
  IF snapshot # Null /\ snapshot.live THEN snapshot ELSE shown.prediction

\* Mutant: a round's end does not clear the readings.
ReduceKeeping(frame) ==
  CASE frame.type = "welcome" ->
         [shown EXCEPT !.snapshot = IF frame.of = Null THEN @ ELSE frame.of,
                       !.prediction = Predicted(frame.of)]
    [] frame.type = "tick" ->
         [shown EXCEPT !.snapshot = frame.of, !.prediction = Predicted(frame.of)]
    [] frame.type = "prediction" ->
         [shown EXCEPT !.prediction = frame.of, !.history = Bounded(@, frame.of, MaxHistory)]
    [] frame.type = "round_end" ->
         [shown EXCEPT !.rounds = Bounded(@, frame.of, MaxRoundLog)]
    [] frame.type = "match_end" ->
         shown

\* reduce()
Reduce(frame) ==
  CASE frame.type = "welcome" ->
         [shown EXCEPT !.snapshot = IF frame.of = Null THEN @ ELSE frame.of,
                       !.prediction = Predicted(frame.of)]
    [] frame.type = "tick" ->
         [shown EXCEPT !.snapshot = frame.of, !.prediction = Predicted(frame.of)]
    [] frame.type = "prediction" ->
         [shown EXCEPT !.prediction = frame.of, !.history = Bounded(@, frame.of, MaxHistory)]
    [] frame.type = "round_end" ->
         [shown EXCEPT !.rounds = Bounded(@, frame.of, MaxRoundLog),
                       !.prediction = Null, !.history = <<>>]
    [] frame.type = "match_end" ->
         [shown EXCEPT !.prediction = Null]

-----------------------------------------------------------------------------
\* The attempts there were, with one more.
OneMore(attempts) == IF attempts < MaxAttempt THEN attempts + 1 ELSE attempts

\* connect(): a new socket, in the slots as others leave them; or `new
\* WebSocket` throws, which is a failed attempt, and scheduleRetry() is next.
Connect(others, attempts) ==
  \/ \E s \in Slots :
       /\ valid'
       /\ others[s].state = "free"
       /\ socket' = [others EXCEPT ![s].state = "connecting"]
       /\ current' = s
       /\ timer' = FALSE
       /\ attempt' = attempts
       /\ status' = IF attempts = 0 THEN "connecting" ELSE "reconnecting"
  \/ /\ ~valid'
     /\ socket' = others /\ current' = Null
     /\ timer' = TRUE
     /\ attempt' = OneMore(attempts)
     /\ status' = "reconnecting"

\* Mutant: the current socket is forgotten and not closed.
AbandonForgetting == socket

\* abandon(socketRef.current)
Abandoned ==
  IF current = Null THEN socket
  ELSE [socket EXCEPT ![current] = [Free EXCEPT !.state = "closing"]]

\* The effect runs: the page is mounted, or a url or `enabled` is set.
Enable ==
  /\ ~wanted /\ wanted' = TRUE /\ valid' \in BOOLEAN
  /\ Connect(socket, attempt)
  /\ UNCHANGED <<shown, serverVars, troubles, fresh>>

\* Its cleanup, and the effect again with nothing to connect to.
Disable ==
  /\ wanted /\ wanted' = FALSE /\ valid' = TRUE
  /\ socket' = Abandoned /\ current' = Null /\ timer' = FALSE
  /\ status' = "closed"
  /\ fresh' = FALSE
  /\ UNCHANGED <<attempt, shown, serverVars, troubles>>

\* reconnect()
Reconnect ==
  /\ wanted /\ Trouble
  /\ UNCHANGED <<wanted, valid, shown, serverVars>>
  /\ Connect(Abandoned, 0)
  /\ fresh' = FALSE

\* The retry timer fires.
Retry ==
  /\ timer
  /\ UNCHANGED <<wanted, valid, shown, serverVars, troubles, fresh>>
  /\ Connect(socket, attempt)

\* onopen; the server has accepted, and welcomes the socket at once unless
\* its store suspends.
Opened(s) ==
  /\ socket[s].state = "connecting" /\ ~socket[s].lost /\ up
  /\ socket' = [socket EXCEPT ![s].state = "open",
                  ![s].greeting = IF late THEN "reading" ELSE "sent",
                  ![s].pipe = IF late THEN <<>> ELSE <<[type |-> "welcome", of |-> kept]>>]
  /\ attempt' = 0 /\ status' = "open"
  /\ UNCHANGED <<wanted, valid, current, timer, shown, serverVars, troubles, fresh>>

\* onmessage
Receive(s) ==
  /\ socket[s].state = "open" /\ socket[s].pipe # <<>>
  /\ LET frame == Head(socket[s].pipe) IN
     /\ shown' = Reduce(frame)
     /\ fresh' = (frame.type # "welcome"
                    /\ (fresh \/ frame.type # "tick" \/ frame.of.live))
  /\ socket' = [socket EXCEPT ![s].pipe = Tail(@)]
  /\ UNCHANGED <<wanted, valid, current, timer, attempt, status, serverVars, troubles>>

\* Mutant: the retry is scheduled only if the socket had been open.
ClosedGivingUp(s) ==
  /\ \/ socket[s].state \in {"connecting", "open"} /\ socket[s].lost
     \/ socket[s].state = "connecting" /\ ~up
  /\ socket' = [socket EXCEPT ![s] = Free]
  /\ current' = Null
  /\ timer' = (socket[s].state = "open")
  /\ attempt' = OneMore(attempt)
  /\ status' = "reconnecting" /\ fresh' = FALSE
  /\ UNCHANGED <<wanted, valid, shown, serverVars, troubles>>

\* onclose of a socket that was lost or refused: scheduleRetry().
Closed(s) ==
  /\ \/ socket[s].state \in {"connecting", "open"} /\ socket[s].lost
     \/ socket[s].state = "connecting" /\ ~up
  /\ socket' = [socket EXCEPT ![s] = Free]
  /\ current' = Null
  /\ timer' = TRUE
  /\ attempt' = OneMore(attempt)
  /\ status' = "reconnecting" /\ fresh' = FALSE
  /\ UNCHANGED <<wanted, valid, shown, serverVars, troubles>>

\* onclose of an abandoned socket.
ClosedLate(s) ==
  /\ socket[s].state = "closing"
  /\ socket' = [socket EXCEPT ![s] = Free]
  /\ status' = IF current = Null THEN "closed" ELSE status
  /\ UNCHANGED <<wanted, valid, current, timer, attempt, shown, serverVars, troubles, fresh>>

-----------------------------------------------------------------------------
\* The network breaks a connection; the browser notices later.
Break(s) ==
  /\ socket[s].state \in {"connecting", "open"} /\ ~socket[s].lost
  /\ Trouble
  /\ socket' = [socket EXCEPT ![s].lost = TRUE]
  /\ UNCHANGED <<wanted, valid, current, timer, attempt, status, shown, serverVars, fresh>>

\* The server reads the snapshot it will welcome a socket with, and sends it.
ReadSnapshot(s) ==
  /\ socket[s].greeting = "reading" /\ ~socket[s].lost
  /\ socket' = [socket EXCEPT ![s].greeting = "read", ![s].held = kept]
  /\ UNCHANGED <<wanted, valid, current, timer, attempt, status, shown, serverVars, troubles, fresh>>

SendWelcome(s) ==
  /\ socket[s].greeting = "read" /\ ~socket[s].lost /\ Len(socket[s].pipe) < MaxInFlight
  /\ socket' = [socket EXCEPT ![s].greeting = "sent", ![s].held = Null,
                  ![s].pipe = Append(@, [type |-> "welcome", of |-> socket[s].held])]
  /\ UNCHANGED <<wanted, valid, current, timer, attempt, status, shown, serverVars, troubles, fresh>>

\* What a tick is worth: a prediction while the round is live, and a state
\* frame unless it is throttled.
FramesOf(event, of) ==
  LET scored == IF event.live THEN <<[type |-> "prediction", of |-> of]>> ELSE <<>>
  IN IF event.type = "tick" THEN {scored, Append(scored, [type |-> "tick", of |-> of])}
     ELSE {<<[type |-> event.type, of |-> of]>>}

\* The next event of the match is stored and broadcast to the sockets that
\* are registered.  After the last one the next match begins under its id.
PlayEvent ==
  /\ up /\ play <= MaxPlays
  /\ LET event == Script[at]
         of == [play |-> play, seq |-> at, round |-> event.round, live |-> event.live]
         registered == {s \in Slots : socket[s].state = "open" /\ ~socket[s].lost}
     IN /\ kept' = IF event.type = "tick" THEN of ELSE kept
        /\ \E frames \in FramesOf(event, of) :
             /\ \A s \in registered : Len(socket[s].pipe) + Len(frames) <= MaxInFlight
             /\ socket' = [s \in Slots |->
                  IF s \in registered THEN [socket[s] EXCEPT !.pipe = @ \o frames]
                  ELSE socket[s]]
  /\ at' = IF at = Len(Script) THEN 1 ELSE at + 1
  /\ play' = IF at = Len(Script) THEN play + 1 ELSE play
  /\ UNCHANGED <<wanted, valid, current, timer, attempt, status, shown, late, up, troubles, fresh>>

\* The server's process ends; the one that follows plays from the start, and
\* finds the old snapshot if its store outlived the process.
ServerStops ==
  /\ up /\ Trouble
  /\ up' = FALSE
  /\ socket' = [s \in Slots |->
       IF socket[s].state = "open" THEN [socket[s] EXCEPT !.lost = TRUE] ELSE socket[s]]
  /\ UNCHANGED <<wanted, valid, current, timer, attempt, status, shown, late, play, at, kept, fresh>>

ServerStarts ==
  /\ ~up /\ up' = TRUE
  /\ play' = play + 1 /\ at' = 1
  /\ kept' \in {kept, Null}
  /\ UNCHANGED <<hookVars, shown, late, troubles, fresh>>

Server == PlayEvent \/ ServerStops \/ ServerStarts \/ \E s \in Slots : ReadSnapshot(s) \/ SendWelcome(s)

Hook ==
  \/ Enable \/ Disable \/ Reconnect \/ Retry
  \/ \E s \in Slots : Opened(s) \/ Receive(s) \/ Closed(s) \/ ClosedLate(s)

DashNext == Hook \/ Server \/ \E s \in Slots : Break(s)

\* Timers fire, the browser reports what became of a connection, and a server
\* that is up accepts.
DashFairness ==
  /\ WF_dashVars(Retry)
  /\ \A s \in Slots :
       WF_dashVars(Opened(s)) /\ WF_dashVars(Closed(s)) /\ WF_dashVars(ClosedLate(s))

DashSpec == DashInit /\ [][DashNext]_dashVars /\ DashFairness

-----------------------------------------------------------------------------
Earlier(a, b) == a.play < b.play \/ (a.play = b.play /\ a.seq < b.seq)

Ascends(seq) == \A i \in 1..(Len(seq) - 1) : Earlier(seq[i], seq[i + 1])

\* Between two steps nothing that is shown goes back in time, unless a store
\* that suspends delays a welcome.
NoStepBack ==
  ~late => \A field \in {"snapshot", "prediction"} :
    shown[field] # Null /\ shown'[field] # Null => ~Earlier(shown'[field], shown[field])

(***************************************************************************)
(* However reconnect(), the timer, late closes, toggles and failures       *)
(* interleave: at most one socket is not abandoned, and it is the current  *)
(* one; as long as the hook is wanted there is either that socket or a     *)
(* retry to come, never both and never neither; otherwise there is none.   *)
(* The status is "open" exactly while the current socket is.               *)
(***************************************************************************)
OneConnection ==
  /\ {s \in Slots : socket[s].state \in {"connecting", "open"}} \ {current} = {}
  /\ current # Null => socket[current].state \in {"connecting", "open"}
  /\ IF wanted THEN timer <=> current = Null ELSE ~timer /\ current = Null
  /\ status = "open" <=> current # Null /\ socket[current].state = "open"

(***************************************************************************)
(* Each frame is applied once and in order, over any number of             *)
(* connections: the readings and the log of rounds ascend, nothing shown   *)
(* steps back ("rather than stepping backwards", useMatchStream.ts), and   *)
(* once a frame after the welcome has said where the round is, the gauge   *)
(* is no older than the snapshot and of no round that the log has decided. *)
(***************************************************************************)
ShownInOrder ==
  /\ [](Ascends(shown.history) /\ Ascends(shown.rounds))
  /\ [](fresh /\ shown.prediction # Null =>
          /\ shown.snapshot # Null => ~Earlier(shown.prediction, shown.snapshot)
          /\ \A i \in 1..Len(shown.rounds) : Earlier(shown.rounds[i], shown.prediction))
  /\ [][NoStepBack]_dashVars

(***************************************************************************)
(* "this page reconnects on its own" (page.tsx): a page that stays, with a *)
(* url that is valid and a server that stays up, ends up connected,        *)
(* whatever happened before.                                               *)
(***************************************************************************)
Reconnects == <>[](wanted /\ valid /\ up) => <>[](status = "open")

(***************************************************************************)
(* "clearing it stops the gauge showing a stale number through the next    *)
(* freezetime" (useMatchStream.ts, round_end): beside a snapshot without a *)
(* live round the gauge shows nothing older than that snapshot.            *)
(***************************************************************************)
NoStaleGauge ==
  shown.snapshot # Null /\ ~shown.snapshot.live /\ shown.prediction # Null =>
    ~Earlier(shown.prediction, shown.snapshot)
=============================================================================
